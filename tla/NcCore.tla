-------------------------------- MODULE NcCore --------------------------------
(***************************************************************************)
(* The state of a running nutcracker (nc_core.h, nc_connection.h,          *)
(* nc_server.h, nc_message.h), its message and buffer pools, and the ends  *)
(* of the sockets that other processes hold.                               *)
(*                                                                         *)
(* Data.  A client numbers its requests; request n of session s travels as *)
(* the chunks <<s, n, 1>>, ..., <<s, n, Chunks>>, and the reply to it has  *)
(* the same chunks.  A write may stop after any chunk.  NcMsg::parse takes *)
(* whatever one read returned as one whole message, so a message is the    *)
(* sequence of chunks that one read returned.                              *)
(*                                                                         *)
(* Requests.  A request is named by its number in the order of forwarding. *)
(* A message object that comes back from msg_pool is in no queue: it comes *)
(* with a buffer from mbuf_pool, whose size is 0, so that no read fills it *)
(* (see Room), or with a new buffer once an error has taken the last one.  *)
(***************************************************************************)
EXTENDS NcEvent, Integers, Sequences

CONSTANTS
    MaxSession,  \* bound: client connections made in a behaviour
    MaxSend,     \* bound: requests a client sends in a session
    MaxReq,      \* bound: requests the proxy forwards
    Chunks,      \* chunks in a request and in its reply
    IovMax,      \* NC_IOV_MAX, the number of entries of iov[]
    Env          \* what the peers and the kernel may do beyond the minimum

\* "burst"      a request or reply may arrive while others wait to be handled
\* "fill"       a read may fill the buffer exactly, so that the loop goes on
\* "fin"        a client may shut its side of the connection
\* "reset"      a client may reset its connection
\* "srvfin"     the server may close its connection
\* "srvreset"   the server may refuse or reset its connection
\* "stray"      the server may send a reply nobody asked for
\* "acceptfail" accept() may fail
EnvBehaviours == {"burst", "fill", "fin", "reset", "srvfin", "srvreset",
                  "stray", "acceptfail"}

ASSUME BoundsAssumption ==
    /\ MaxSession \in Nat \ {0} /\ MaxSend \in Nat /\ MaxReq \in Nat
    /\ Chunks \in Nat \ {0}
    /\ IovMax \in Nat \ {0, 1}
ASSUME EnvAssumption == Env \subseteq EnvBehaviours
ASSUME ConnAssumption ==
    Srv \notin Conn /\ Lsn \notin Conn /\ Srv # Lsn /\ None \notin Event

Session == 1..MaxSession
Req     == 1..MaxReq
Chunk   == Session \X (0..MaxSend) \X (1..Chunks)

Frame(s, n) == [k \in 1..Chunks |-> <<s, n, k>>]

VARIABLES
    alive,      \* "run", or how the process ended: "exit", "abort"
    ev,         \* NcEventBase
    \* the sockets of the clients
    st,         \* state of a session's socket
    inbox,      \* bytes of a session the proxy has not read
    sent,       \* number of requests a session has sent
    got,        \* chunks a session has received
    backlog,    \* sessions waiting in the listen queue
    \* the socket of the server
    srvState, toSrv, srvInbox,
    unacked,    \* connections with written bytes the peer has not acked
    \* NcProxyConn
    p_dead,     \* the listener has been closed
    \* NcClientConn
    sess,       \* the session a connection serves, 0 while m_owner_ = NULL
    eof,        \* m_eof_
    rmsg,       \* m_rmsg_ # NULL: a reserved message with an empty mbuf
    cq,         \* m_omsg_q_
    c_pool,     \* ctx->c_pool
    \* NcServerConn
    s_in, s_out,    \* m_imsg_q_, m_omsg_q_
    s_rmsg,         \* m_rmsg_ # NULL
    s_dead,         \* m_done_ or m_err_
    \* NcMsg
    nreq,       \* requests forwarded so far
    data,       \* the client connection of a request
    req,        \* bytes of the request not yet written (m_pos_ .. m_last_)
    rsp,        \* bytes of its response not yet written, <<>> without m_peer_
    done,       \* m_done_
    freed,      \* times the request was given to msg_pool
    mbuf_pool   \* mbufs in ctx->mbuf_pool: 0, 1, or 2 for two or more

peerVars  == <<st, inbox, sent, got, backlog>>
srvSock   == <<srvState, toSrv, srvInbox>>
connVars  == <<sess, eof, rmsg, cq, c_pool>>
s_vars    == <<s_in, s_out, s_rmsg, s_dead>>
msgVars   == <<nreq, data, req, rsp, done, freed>>
vars == <<alive, ev, peerVars, srvSock, unacked, p_dead, connVars, s_vars,
          msgVars, mbuf_pool>>

SessionState == {"new", "open", "fin", "rst", "closed"}

\* NcContext::createProxyConn and createServerConn have run: the listener and
\* the connecting server socket are registered, no client has connected.
Init ==
    /\ alive = "run"
    /\ ev = [sact |-> {Srv}, wreg |-> {Srv}, ready |-> {}, batch |-> {}, cur |-> None]
    /\ st = [s \in Session |-> "new"]
    /\ inbox = [s \in Session |-> <<>>]
    /\ sent = [s \in Session |-> 0]
    /\ got = [s \in Session |-> <<>>]
    /\ backlog = <<>>
    /\ srvState = "connecting" /\ toSrv = <<>> /\ srvInbox = <<>>
    /\ unacked = {}
    /\ p_dead = FALSE
    /\ sess = [c \in Conn |-> 0]
    /\ eof = [c \in Conn |-> FALSE]
    /\ rmsg = [c \in Conn |-> FALSE]
    /\ cq = [c \in Conn |-> <<>>]
    /\ c_pool = <<>>
    /\ s_in = <<>> /\ s_out = <<>> /\ s_rmsg = FALSE /\ s_dead = FALSE
    /\ nreq = 0
    /\ data = [p \in Req |-> None]
    /\ req = [p \in Req |-> <<>>]
    /\ rsp = [p \in Req |-> <<>>]
    /\ done = [p \in Req |-> FALSE]
    /\ freed = [p \in Req |-> 0]
    /\ mbuf_pool = 0

------------------------------------------------------------------------------
\* Give n mbufs to mbuf_pool.  Two or more are one value: only one mbuf ever
\* leaves the pool for good (SrvRecvError), so the pool is empty afterwards
\* exactly when it held one.
PoolFree(n) == IF mbuf_pool + n > 2 THEN 2 ELSE mbuf_pool + n

\* recvChain reads into the last mbuf of the message, which must be one that
\* was just constructed.  NcMbuf::rewind leaves m_last_ = m_end_ in an mbuf that
\* is given back, so alloc() returns it with size() = 0, and read(sd, buf, 0) is 0.
\* reserved: the message is m_rmsg_, whose mbuf was new when it was reserved.
Room(reserved) == reserved \/ mbuf_pool = 0

\* mbuf_pool after a message whose read returned 0 (or was rejected) is freed.
PoolAfterDiscard(reserved) == IF Room(reserved) THEN PoolFree(1) ELSE mbuf_pool

\* wait() runs, or goes on running, the callback of event e.
Handling(e) == alive = "run" /\ Running(ev, e)

At(e) == Begin(ev, e)

\* NcConn::processClose, up to its call of close(), as the end of a callback.
processClose(e0, c) == End(DelConn(e0, c))

\* NcMsg::parse: whatever the read returned is one complete message.
parse(buf, n) == SubSeq(buf, 1, n)

\* Mutant of Unsent: a short write does not move m_pos_.
UnsentFromStart(q, n) == IF n >= Len(q) THEN <<>> ELSE q

\* What is left of an mbuf or a socket buffer after its first n chunks went.
Unsent(q, n) == SubSeq(q, n + 1, Len(q))
==============================================================================
