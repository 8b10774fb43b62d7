------------------------------ MODULE Nutcracker ------------------------------
(***************************************************************************)
(* The running proxy: NcInstance::loop calls NcEventBase::wait, which runs *)
(* the callback of each event kevent() returned, one at a time, while the  *)
(* peers of the proxy act at any moment.                                   *)
(***************************************************************************)
EXTENDS NcProxy, NcServer, Peers

\* The filter of a knote, evaluated again by kevent() before it returns it.
Fires(e) ==
    CASE e[2] = "write" -> e[1] # Srv \/ srvState # "connecting"
      [] e = LsnRead    -> backlog # <<>>
      [] e = SrvRead    -> srvInbox # <<>> \/ srvState \in {"fin", "rst"}
      [] OTHER          -> inbox[sess[e[1]]] # <<>> \/ st[sess[e[1]]] # "open"

\* wait() returns from kevent().  loop() then looks for expired requests in
\* tmo_rbe, where nothing is ever inserted, and calls wait() again.
Wait ==
    /\ alive = "run" /\ ev.cur = None /\ ev.batch = {}
    /\ \E e \in ev.ready : Fires(e)
    /\ ev' = Return(ev, {e \in ev.ready : Fires(e)})
    /\ UNCHANGED <<alive, peerVars, srvSock, unacked, p_dead, connVars, s_vars,
                   msgVars, mbuf_pool>>

\* callback(0): the event was overwritten by delConn.  getContext() asserts that
\* the connection has an owner; nothing else happens.
StaleCallback(c) ==
    /\ Handling(<<c, "none">>)
    /\ alive' = IF c \in Conn /\ sess[c] = 0 THEN "abort" ELSE alive
    /\ ev' = End(At(<<c, "none">>))
    /\ UNCHANGED <<peerVars, srvSock, unacked, p_dead, connVars, s_vars, msgVars,
                   mbuf_pool>>

Proxy ==
    \/ Wait
    \/ \E c \in Conn : ClientStep(c)
    \/ ServerStep
    \/ ProxyStep
    \/ \E c \in Fd : StaleCallback(c)

Next == Proxy \/ PeerStep

Spec == Init /\ [][Next]_vars

\* The loop keeps running, the server keeps answering and TCP delivers acks.
Fairness ==
    /\ WF_vars(Proxy)
    /\ WF_vars(alive = "run" /\ (ServerAccept \/ ServerReply))
    /\ \A c \in Conn \cup {Srv} : WF_vars(alive = "run" /\ Ack(c))

FairSpec == Spec /\ Fairness

------------------------------------------------------------------------------
ProcessTypeOK ==
    /\ alive \in {"run", "exit", "abort"}
    /\ ev \in EventBase
    /\ p_dead \in BOOLEAN

SocketTypeOK ==
    /\ st \in [Session -> SessionState]
    /\ inbox \in [Session -> Seq(Chunk)]
    /\ sent \in [Session -> 0..MaxSend]
    /\ got \in [Session -> Seq(Chunk)]
    /\ backlog \in Seq(Session)
    /\ srvState \in {"connecting", "up", "fin", "rst"}
    /\ toSrv \in Seq(Chunk) /\ srvInbox \in Seq(Chunk)
    /\ unacked \subseteq Conn \cup {Srv}

ConnTypeOK ==
    /\ sess \in [Conn -> {0} \cup Session]
    /\ eof \in [Conn -> BOOLEAN]
    /\ rmsg \in [Conn -> BOOLEAN]
    /\ cq \in [Conn -> Seq(Req)]
    /\ c_pool \in Seq(Conn)

ServerTypeOK ==
    /\ s_in \in Seq(Req) /\ s_out \in Seq(Req)
    /\ s_rmsg \in BOOLEAN /\ s_dead \in BOOLEAN

MsgTypeOK ==
    /\ nreq \in 0..MaxReq
    /\ data \in [Req -> Conn \cup {None}]
    /\ req \in [Req -> Seq(Chunk)]
    /\ rsp \in [Req -> Seq(Chunk)]
    /\ done \in [Req -> BOOLEAN]
    /\ freed \in [Req -> Nat]
    /\ mbuf_pool \in 0..2

\* Every variable has its type: in particular the queues hold requests that
\* exist and a request's data is a client connection, never the server's.
TypeOK == ProcessTypeOK /\ SocketTypeOK /\ ConnTypeOK /\ ServerTypeOK /\ MsgTypeOK

\* The requests at the server, oldest first: outstanding, then waiting.
InFlight == s_out \o s_in

InQueue(q, p) == \E i \in DOMAIN q : q[i] = p

\* A request the server connection still holds has not been freed or answered,
\* it is held once, and the out_q of the client connection it came from holds
\* it too, whatever happened to that connection in the meantime: what
\* responseForward dereferences (the request, and the front of that queue) exists.
InFlightSafe ==
    /\ \A i, j \in DOMAIN InFlight : i # j => InFlight[i] # InFlight[j]
    /\ \A i \in DOMAIN InFlight :
         LET p == InFlight[i]
         IN  /\ p <= nreq
             /\ freed[p] = 0 /\ ~done[p] /\ rsp[p] = <<>>
             /\ data[p] \in Conn /\ InQueue(cq[data[p]], p)

\* Requests of a client connection are answered in the order in which they
\* stand in its out_q: no request is done while an older one is not.
AnsweredInOrder ==
    \A c \in Conn : \A i, j \in DOMAIN cq[c] :
        i < j /\ done[cq[c][j]] => done[cq[c][i]]

\* No request is lost between the queues: one that its client connection still
\* waits for is in one of the two queues of the server connection.
PendingAtServer ==
    \A c \in Conn : \A i \in DOMAIN cq[c] :
        done[cq[c][i]] \/ InQueue(InFlight, cq[c][i])

\* kevent() and the event base hold no read or write event, and no write knote,
\* of a client connection that has no owner: NcConn::callback never works on a
\* connection that was closed.
EventsHaveOwner == \A c \in Conn : sess[c] = 0 => Unregistered(ev, c)

\* A request waiting to be written to the server never waits for nothing: while
\* the server connection is sound its output is registered, and a write event is
\* pending, being handled, or due when the connection is established or acked.
ServerOutputArmed ==
    s_in # <<>> /\ ~s_dead /\ alive = "run" =>
        /\ Srv \in ev.wreg
        /\ \/ SrvWrite \in ev.ready \cup ev.batch
           \/ ev.cur = SrvWrite
           \/ Srv \in unacked
           \/ srvState = "connecting"

\* Client connection objects are recycled soundly: c_pool holds an object once
\* and only while no session uses it, and no two objects serve one session.
ConnPoolSound ==
    /\ \A i, j \in DOMAIN c_pool : i # j => c_pool[i] # c_pool[j]
    /\ \A c \in Conn : Pooled(c) => sess[c] = 0
    /\ \A c, d \in Conn : c # d /\ sess[c] # 0 => sess[c] # sess[d]

\* A connection at its end of stream with nothing left to answer is closed in
\* the very callback that answered the last request: none stays behind, idle
\* and half closed.
NoIdleHalfClosed ==
    \A c \in Conn : eof[c] /\ cq[c] = <<>> => ev.cur = <<c, "write">>

\* What a client receives is the replies to its own requests, each one once,
\* whole and in the order of the requests: the pairing the out_q of the server
\* and the out_q of the client are there for.
OwnRepliesInOrder ==
    \A s \in Session : \A i \in DOMAIN got[s] :
        /\ got[s][i] = <<s, ((i - 1) \div Chunks) + 1, ((i - 1) % Chunks) + 1>>
        /\ i <= sent[s] * Chunks

\* A request is given back to msg_pool at most once.
FreedOnce == \A p \in Req : freed[p] <= 1

------------------------------------------------------------------------------
\* A response that has been paired with its request is eventually written to
\* the client, all of it.
ResponseDelivered ==
    \A p \in Req : rsp[p] # <<>> ~> (rsp[p] = <<>> \/ alive # "run")

\* A request in the server's in_q is eventually written, unless the server
\* connection fails.
RequestWritten ==
    \A p \in Req : InQueue(s_in, p) ~> (~InQueue(s_in, p) \/ s_dead \/ alive # "run")

\* A connection in the listen queue is eventually taken out of it.
ConnectionAccepted ==
    \A s \in Session : InQueue(backlog, s) ~> (~InQueue(backlog, s) \/ alive # "run")

\* The first request of the first client is answered, all of it, unless that
\* client shuts its side or another one connects: the mbuf of the empty read at
\* the end of a stream goes back to mbuf_pool, and leaves the server's reply no
\* room to be read.
LoneRequestAnswered ==
    sent[1] > 0 ~> \/ Len(got[1]) >= Chunks
                   \/ st[1] # "open"
                   \/ \E s \in Session : s # 1 /\ st[s] # "new"

------------------------------------------------------------------------------
(* A statement of the repository's own comments that the code does not live up *)
(* to; a run refutes it.                                                        *)

\* nc_core.h, m_swallow_: "swallow response?", set by NcClientConn::close for the
\* requests still in flight: their responses go to no other client.
NoForeignReply == \A s \in Session : \A i \in DOMAIN got[s] : got[s][i][1] = s
==============================================================================
