-------------------------------- MODULE Peers --------------------------------
(***************************************************************************)
(* What the proxy's peers and the kernel do: clients, the server behind    *)
(* the proxy, and TCP.  None of it is code of the repository; it is        *)
(* modelled from how the code uses the sockets.  Env says how badly the    *)
(* peers may behave.                                                       *)
(***************************************************************************)
EXTENDS NcCore

proxyVars == <<alive, p_dead, connVars, s_vars, msgVars, mbuf_pool>>

\* The read knote of the connection that serves session s becomes active.
Serving(s) == {c \in Conn : sess[c] = s}

Readable(s) == [ev EXCEPT !.ready = @ \cup {<<c, "read">> : c \in Serving(s)}]

\* Without "burst", a client speaks only when nothing is waiting to be handled.
Quiet == s_in = <<>> /\ \A s \in Session : inbox[s] = <<>>

ClientConnect(s) ==
    /\ st[s] = "new" /\ \A r \in Session : r < s => st[r] # "new"
    /\ ~p_dead
    /\ st' = [st EXCEPT ![s] = "open"]
    /\ backlog' = Append(backlog, s)
    /\ ev' = Activate(ev, <<Lsn, "read">>)
    /\ UNCHANGED <<inbox, sent, got, srvSock, unacked, proxyVars>>

ClientSend(s) ==
    /\ st[s] = "open" /\ sent[s] < MaxSend
    /\ "burst" \in Env \/ Quiet
    /\ sent' = [sent EXCEPT ![s] = @ + 1]
    /\ inbox' = [inbox EXCEPT ![s] = @ \o Frame(s, sent[s] + 1)]
    /\ ev' = Readable(s)
    /\ UNCHANGED <<st, got, backlog, srvSock, unacked, proxyVars>>

ClientFin(s) ==
    /\ st[s] = "open" /\ "fin" \in Env
    /\ st' = [st EXCEPT ![s] = "fin"]
    /\ ev' = Readable(s)
    /\ UNCHANGED <<inbox, sent, got, backlog, srvSock, unacked, proxyVars>>

ClientReset(s) ==
    /\ st[s] \in {"open", "fin"} /\ "reset" \in Env
    /\ st' = [st EXCEPT ![s] = "rst"]
    /\ ev' = [Readable(s) EXCEPT !.ready = @ \cup {<<c, "write">> : c \in Serving(s) \cap ev.wreg}]
    /\ UNCHANGED <<inbox, sent, got, backlog, srvSock, unacked, proxyVars>>

\* A peer acknowledges what was written: EVFILT_WRITE becomes active again.
Ack(c) ==
    /\ c \in unacked
    /\ unacked' = unacked \ {c}
    /\ ev' = Activate(ev, <<c, "write">>)
    /\ UNCHANGED <<peerVars, srvSock, proxyVars>>

------------------------------------------------------------------------------
SrvReadable(e) == IF s_dead THEN e ELSE Activate(e, <<Srv, "read">>)

ServerAccept ==
    /\ srvState = "connecting"
    /\ srvState' = "up"
    /\ ev' = Activate(ev, <<Srv, "write">>)
    /\ UNCHANGED <<peerVars, toSrv, srvInbox, unacked, proxyVars>>

\* The server answers the request at the front of its input, or drops a chunk
\* that does not begin a request.
ServerReply ==
    /\ srvState = "up" /\ toSrv # <<>>
    /\ "burst" \in Env \/ srvInbox = <<>>
    /\ LET h == Head(toSrv)
           f == Frame(h[1], h[2])
       IN  IF Len(toSrv) >= Chunks /\ SubSeq(toSrv, 1, Chunks) = f
           THEN /\ toSrv' = Unsent(toSrv, Chunks)
                /\ srvInbox' = srvInbox \o f
                /\ ev' = SrvReadable(ev)
           ELSE /\ \E i \in 1..Len(toSrv) : i <= Chunks /\ toSrv[i] # f[i]
                /\ toSrv' = Tail(toSrv)
                /\ UNCHANGED <<srvInbox, ev>>
    /\ UNCHANGED <<peerVars, srvState, unacked, proxyVars>>

\* A reply the server was not asked for carries request number 0.
ServerStray ==
    /\ srvState = "up" /\ "stray" \in Env /\ srvInbox = <<>>
    /\ srvInbox' = Frame(1, 0)
    /\ ev' = SrvReadable(ev)
    /\ UNCHANGED <<peerVars, srvState, toSrv, unacked, proxyVars>>

ServerFin ==
    /\ srvState = "up" /\ "srvfin" \in Env
    /\ srvState' = "fin" /\ toSrv' = <<>>
    /\ ev' = SrvReadable(ev)
    /\ UNCHANGED <<peerVars, srvInbox, unacked, proxyVars>>

ServerReset ==
    /\ srvState \in {"connecting", "up", "fin"} /\ "srvreset" \in Env
    /\ srvState' = "rst" /\ toSrv' = <<>>
    /\ ev' = Activate(SrvReadable(ev), <<Srv, "write">>)
    /\ UNCHANGED <<peerVars, srvInbox, unacked, proxyVars>>

PeerStep ==
    /\ alive = "run"
    /\ \/ \E s \in Session :
            ClientConnect(s) \/ ClientSend(s) \/ ClientFin(s) \/ ClientReset(s)
       \/ \E c \in Conn \cup {Srv} : Ack(c)
       \/ ServerAccept
       \/ ServerReply
       \/ ServerStray
       \/ ServerFin
       \/ ServerReset
==============================================================================
