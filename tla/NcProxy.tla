-------------------------------- MODULE NcProxy --------------------------------
(***************************************************************************)
(* The listener: NcProxyConn::recvMsg and accept (nc_proxy.cpp), and the   *)
(* allocation of client connections from c_pool (NcObjectPool, nc_core.h). *)
(* One action is one call of accept() in the loop of recvMsg.              *)
(***************************************************************************)
EXTENDS NcClient

LsnRead == <<Lsn, "read">>

Pooled(c) == \E i \in DOMAIN c_pool : c_pool[i] = c

\* NcObjectPool::alloc: the connection given back first, or a new one.
Allocates(c) ==
    IF c_pool # <<>> THEN c = Head(c_pool) ELSE sess[c] = 0 /\ ~Pooled(c)

\* Mutant of PoolRest: the connection is not taken out of the pool.
PoolRestKept == c_pool

PoolRest == IF c_pool # <<>> THEN Tail(c_pool) ELSE c_pool

\* Mutant of AcceptConn: recvMsg does not call accept() again.
AcceptConnOnce(c) ==
    /\ Handling(LsnRead) /\ backlog # <<>>
    /\ Allocates(c)
    /\ c_pool' = PoolRest
    /\ LET s == Head(backlog)
       IN  /\ sess' = [sess EXCEPT ![c] = s]
           /\ ev' = AddConn(End(At(LsnRead)), c, inbox[s] # <<>> \/ st[s] # "open")
    /\ backlog' = Tail(backlog)
    /\ UNCHANGED <<alive, st, inbox, sent, got, srvSock, unacked, p_dead, eof,
                   rmsg, cq, s_vars, msgVars, mbuf_pool>>

\* accept.  ncCurCConn() is 0 at all times, as nothing increments the counter it returns:
\* the comparison with max_ncconn never rejects a connection.
AcceptConn(c) ==
    /\ Handling(LsnRead) /\ backlog # <<>>
    /\ Allocates(c)
    /\ c_pool' = PoolRest
    /\ LET s == Head(backlog)
       IN  /\ sess' = [sess EXCEPT ![c] = s]
           /\ ev' = AddConn(At(LsnRead), c, inbox[s] # <<>> \/ st[s] # "open")
    /\ backlog' = Tail(backlog)
    /\ UNCHANGED <<alive, st, inbox, sent, got, srvSock, unacked, p_dead, eof,
                   rmsg, cq, s_vars, msgVars, mbuf_pool>>

\* accept: EAGAIN clears m_recv_ready_.
AcceptAgain ==
    /\ Handling(LsnRead) /\ backlog = <<>>
    /\ ev' = End(At(LsnRead))
    /\ UNCHANGED <<alive, peerVars, srvSock, unacked, p_dead, connVars, s_vars,
                   msgVars, mbuf_pool>>

\* accept: ECONNABORTED, for a connection that was reset in the listen queue, is
\* handled like EAGAIN, whatever else waits in the queue.
AcceptAborted ==
    /\ Handling(LsnRead) /\ backlog # <<>> /\ st[Head(backlog)] = "rst"
    /\ ev' = End(At(LsnRead))
    /\ backlog' = Tail(backlog)
    /\ st' = [st EXCEPT ![Head(backlog)] = "closed"]
    /\ UNCHANGED <<alive, inbox, sent, got, srvSock, unacked, p_dead, connVars,
                   s_vars, msgVars, mbuf_pool>>

\* accept: EMFILE and ENFILE as well.
AcceptNoFd ==
    /\ Handling(LsnRead) /\ backlog # <<>> /\ "acceptfail" \in Env
    /\ ev' = End(At(LsnRead))
    /\ UNCHANGED <<alive, peerVars, srvSock, unacked, p_dead, connVars, s_vars,
                   msgVars, mbuf_pool>>

\* accept: any other error makes recvMsg fail, and callback closes the listener:
\* the connections in the listen queue are lost, and nothing listens again.
AcceptError ==
    /\ Handling(LsnRead) /\ "acceptfail" \in Env
    /\ ev' = processClose(At(LsnRead), Lsn)
    /\ p_dead' = TRUE
    /\ st' = [s \in Session |-> IF \E i \in DOMAIN backlog : backlog[i] = s
                                THEN "closed" ELSE st[s]]
    /\ backlog' = <<>>
    /\ UNCHANGED <<alive, inbox, sent, got, srvSock, unacked, connVars, s_vars,
                   msgVars, mbuf_pool>>

ProxyStep ==
    \/ \E c \in Conn : AcceptConn(c)
    \/ AcceptAgain
    \/ AcceptAborted
    \/ AcceptNoFd
    \/ AcceptError
==============================================================================
