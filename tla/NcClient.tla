------------------------------- MODULE NcClient -------------------------------
(***************************************************************************)
(* Client connections: NcConn::callback and its loops recvMsg and sendMsg  *)
(* (nc_connection.cpp) with the virtual functions of NcClientConn          *)
(* (nc_client.cpp) and the request side of NcMsg (nc_message.cpp).         *)
(*                                                                         *)
(* One action is one iteration of a loop: recvNext + recvChain, or         *)
(* sendNext + sendChain, up to and including the check of m_done_ and      *)
(* m_err_ that follows the loop when the iteration is the last one.  The   *)
(* peers act between iterations; no other handler does.                    *)
(***************************************************************************)
EXTENDS NcCore

------------------------------------------------------------------------------
\* NcClientConn::active, where recvNext calls it: m_rmsg_ has been freed, and
\* m_smsg_ is NULL whenever sendChain is not running.
active(c) == cq[c] # <<>>

\* Mutant of Doomed: close() frees the requests that are not done as well.
DoomedAll(c) == {p \in Req : \E i \in DOMAIN cq[c] : cq[c][i] = p}

\* The requests that close() frees: those that are done.  The others only get
\* m_swallow_, which nothing reads.
Doomed(c) == {p \in Req : done[p] /\ \E i \in DOMAIN cq[c] : cq[c][i] = p}

\* processClose and NcClientConn::close.  e0 is the event base the handler has
\* reached, pool the mbufs in mbuf_pool once m_rmsg_ has been freed.  c_pool.free
\* resets the NcConnBase part alone, so m_omsg_q_ keeps its content.
close(c, e0, pool) ==
    LET gone == {p \in Doomed(c) : freed[p] = 0}
    IN  /\ ev' = processClose(e0, c)
        /\ freed' = [p \in Req |-> IF p \in Doomed(c) THEN freed[p] + 1 ELSE freed[p]]
        /\ rsp' = [p \in Req |-> IF p \in Doomed(c) THEN <<>> ELSE rsp[p]]
        /\ mbuf_pool' = IF gone # {} THEN 2 ELSE pool
        /\ st' = [st EXCEPT ![sess[c]] = "closed"]
        /\ inbox' = [inbox EXCEPT ![sess[c]] = <<>>]
        /\ sess' = [sess EXCEPT ![c] = 0]
        /\ eof' = [eof EXCEPT ![c] = FALSE]
        /\ rmsg' = [rmsg EXCEPT ![c] = FALSE]
        /\ c_pool' = Append(c_pool, c)
        /\ unacked' = unacked \ {c}
        /\ UNCHANGED <<alive, sent, got, backlog, srvSock, p_dead, cq, s_vars,
                       nreq, data, req, done>>

------------------------------------------------------------------------------
\* Mutant of requestForward: the request's data is the server connection.
requestForwardServerData(c, p, body, e0) ==
    /\ nreq' = p
    /\ data' = [data EXCEPT ![p] = Srv]
    /\ req' = [req EXCEPT ![p] = body]
    /\ cq' = [cq EXCEPT ![c] = Append(@, p)]
    /\ ev' = IF s_in = <<>> THEN AddOutput(e0, Srv, TRUE, srvState # "connecting")
             ELSE e0
    /\ s_in' = Append(s_in, p)

\* Mutant of requestForward: no addOutput.
requestForwardNoOutput(c, p, body, e0) ==
    /\ nreq' = p
    /\ data' = [data EXCEPT ![p] = c]
    /\ req' = [req EXCEPT ![p] = body]
    /\ cq' = [cq EXCEPT ![c] = Append(@, p)]
    /\ ev' = e0
    /\ s_in' = Append(s_in, p)

\* NcMsg::requestForward: the request joins the client's out_q and, behind an
\* addOutput when it is empty, the in_q of the pool's only server connection.
requestForward(c, p, body, e0) ==
    /\ nreq' = p
    /\ data' = [data EXCEPT ![p] = c]
    /\ req' = [req EXCEPT ![p] = body]
    /\ cq' = [cq EXCEPT ![c] = Append(@, p)]
    /\ ev' = IF s_in = <<>> THEN AddOutput(e0, Srv, TRUE, srvState # "connecting")
             ELSE e0
    /\ s_in' = Append(s_in, p)

\* recvMsg: m_eof_ was set by an earlier read.
RecvAtEof(c) ==
    /\ Handling(<<c, "read">>) /\ eof[c]
    /\ LET pool == IF rmsg[c] THEN PoolFree(1) ELSE mbuf_pool
       IN  IF ~active(c) THEN close(c, At(<<c, "read">>), pool)
           ELSE /\ ev' = End(At(<<c, "read">>))
                /\ rmsg' = [rmsg EXCEPT ![c] = FALSE]
                /\ mbuf_pool' = pool
                /\ UNCHANGED <<alive, peerVars, srvSock, unacked, p_dead, sess,
                               eof, cq, c_pool, s_vars, msgVars>>

\* Mutant of RecvZero: the connection is closed even if it is active.
RecvZeroNotActive(c) ==
    /\ Handling(<<c, "read">>) /\ ~eof[c]
    /\ ~Room(rmsg[c]) \/ (inbox[sess[c]] = <<>> /\ st[sess[c]] = "fin")
    /\ close(c, At(<<c, "read">>), PoolAfterDiscard(rmsg[c]))

\* recvMsg: read() returns 0, at the end of the stream or because the mbuf has
\* no room.  The empty message is filtered and freed; an idle connection is done.
RecvZero(c) ==
    /\ Handling(<<c, "read">>) /\ ~eof[c]
    /\ ~Room(rmsg[c]) \/ (inbox[sess[c]] = <<>> /\ st[sess[c]] = "fin")
    /\ IF ~active(c) THEN close(c, At(<<c, "read">>), PoolAfterDiscard(rmsg[c]))
       ELSE /\ ev' = End(At(<<c, "read">>))
            /\ eof' = [eof EXCEPT ![c] = TRUE]
            /\ rmsg' = [rmsg EXCEPT ![c] = FALSE]
            /\ mbuf_pool' = PoolAfterDiscard(rmsg[c])
            /\ UNCHANGED <<alive, peerVars, srvSock, unacked, p_dead, sess, cq,
                           c_pool, s_vars, msgVars>>

\* recvMsg: read() fails with the error of a reset connection.
RecvError(c) ==
    /\ Handling(<<c, "read">>) /\ ~eof[c]
    /\ st[sess[c]] = "rst"
    /\ close(c, At(<<c, "read">>), PoolAfterDiscard(rmsg[c]))

\* recvMsg: read() returns the first n chunks.  A short read takes all there is
\* and clears m_recv_ready_; one that fills the mbuf leaves the loop running.
RecvData(c, full) ==
    /\ Handling(<<c, "read">>) /\ ~eof[c] /\ Room(rmsg[c])
    /\ nreq < MaxReq
    /\ \E n \in 1..Len(inbox[sess[c]]) :
         /\ IF full THEN "fill" \in Env ELSE n = Len(inbox[sess[c]])
         /\ requestForward(c, nreq + 1, parse(inbox[sess[c]], n),
                           IF full THEN At(<<c, "read">>) ELSE End(At(<<c, "read">>)))
         /\ inbox' = [inbox EXCEPT ![sess[c]] = Unsent(@, n)]
    /\ rmsg' = [rmsg EXCEPT ![c] = FALSE]
    /\ UNCHANGED <<alive, st, sent, got, backlog, srvSock, unacked, p_dead, sess,
                   eof, c_pool, s_out, s_rmsg, s_dead, rsp, done, freed, mbuf_pool>>

\* recvMsg: EAGAIN, after a read that filled the mbuf.  The message stays m_rmsg_.
RecvAgain(c) ==
    /\ Handling(<<c, "read">>) /\ ~eof[c] /\ Room(rmsg[c])
    /\ inbox[sess[c]] = <<>> /\ st[sess[c]] = "open"
    /\ ev' = End(At(<<c, "read">>))
    /\ rmsg' = [rmsg EXCEPT ![c] = TRUE]
    /\ UNCHANGED <<alive, peerVars, srvSock, unacked, p_dead, sess, eof, cq,
                   c_pool, s_vars, msgVars, mbuf_pool>>

------------------------------------------------------------------------------
\* Mutant of SendIdle: m_eof_ is not looked at.
SendIdleNoEof(c) ==
    /\ Handling(<<c, "write">>) /\ cq[c] = <<>>
    /\ ev' = End(DelOutput(At(<<c, "write">>), c))
    /\ UNCHANGED <<alive, peerVars, srvSock, unacked, p_dead, connVars, s_vars,
                   msgVars, mbuf_pool>>

\* sendMsg: sendNext finds m_omsg_q_ empty.
SendIdle(c) ==
    /\ Handling(<<c, "write">>) /\ cq[c] = <<>>
    /\ LET e == DelOutput(At(<<c, "write">>), c)
       IN  IF eof[c] THEN close(c, e, IF rmsg[c] THEN PoolFree(1) ELSE mbuf_pool)
           ELSE /\ ev' = End(e)
                /\ UNCHANGED <<alive, peerVars, srvSock, unacked, p_dead,
                               connVars, s_vars, msgVars, mbuf_pool>>

\* sendMsg: the request at the head has no response.  sendNext returns NULL and
\* leaves the output registered.
SendWait(c) ==
    /\ Handling(<<c, "write">>) /\ cq[c] # <<>> /\ rsp[Head(cq[c])] = <<>>
    /\ ev' = End(At(<<c, "write">>))
    /\ UNCHANGED <<alive, peerVars, srvSock, unacked, p_dead, connVars, s_vars,
                   msgVars, mbuf_pool>>

\* NcClientConn::sendDone: the request, which is the head of m_omsg_q_ and in it
\* once, is dequeued; freeMsg gives it and its response back with their mbufs.
sendDone(c, p) ==
    /\ cq' = [cq EXCEPT ![c] = Tail(@)]
    /\ freed' = [freed EXCEPT ![p] = @ + 1]
    /\ mbuf_pool' = PoolFree(2)

\* sendMsg: writev() takes n chunks of the response to the request at the head.
\* The one iov entry is never more than the bytes written, so the loop goes on.
SendData(c) ==
    /\ Handling(<<c, "write">>) /\ cq[c] # <<>>
    /\ st[sess[c]] \in {"open", "fin"}
    /\ LET p == Head(cq[c])
       IN  \E n \in 1..Len(rsp[p]) :
             /\ got' = [got EXCEPT ![sess[c]] = @ \o SubSeq(rsp[p], 1, n)]
             /\ rsp' = [rsp EXCEPT ![p] = Unsent(@, n)]
             /\ IF n = Len(rsp[p])
                THEN sendDone(c, p)
                ELSE UNCHANGED <<cq, freed, mbuf_pool>>
    /\ ev' = At(<<c, "write">>)
    /\ unacked' = unacked \cup {c}
    /\ UNCHANGED <<alive, st, inbox, sent, backlog, srvSock, p_dead, sess, eof,
                   rmsg, c_pool, s_vars, nreq, data, req, done>>

\* Mutant of SendAgain: the output is deleted.
SendAgainDel(c) ==
    /\ Handling(<<c, "write">>) /\ cq[c] # <<>> /\ rsp[Head(cq[c])] # <<>>
    /\ c \in unacked
    /\ ev' = End(DelOutput(At(<<c, "write">>), c))
    /\ UNCHANGED <<alive, peerVars, srvSock, unacked, p_dead, connVars, s_vars,
                   msgVars, mbuf_pool>>

\* sendMsg: EAGAIN, the socket buffer is full of bytes that are not acked.
SendAgain(c) ==
    /\ Handling(<<c, "write">>) /\ cq[c] # <<>> /\ rsp[Head(cq[c])] # <<>>
    /\ c \in unacked
    /\ ev' = End(At(<<c, "write">>))
    /\ UNCHANGED <<alive, peerVars, srvSock, unacked, p_dead, connVars, s_vars,
                   msgVars, mbuf_pool>>

\* sendMsg: writev() on a connection that was reset fails, and the connection
\* is closed, ...
SendError(c) ==
    /\ Handling(<<c, "write">>) /\ cq[c] # <<>> /\ rsp[Head(cq[c])] # <<>>
    /\ st[sess[c]] = "rst"
    /\ close(c, At(<<c, "write">>), IF rmsg[c] THEN PoolFree(1) ELSE mbuf_pool)

\* ... or it raises SIGPIPE, whose handler exits.
SendSigPipe(c) ==
    /\ Handling(<<c, "write">>) /\ cq[c] # <<>> /\ rsp[Head(cq[c])] # <<>>
    /\ st[sess[c]] = "rst"
    /\ alive' = "exit"
    /\ UNCHANGED <<ev, peerVars, srvSock, unacked, p_dead, connVars, s_vars,
                   msgVars, mbuf_pool>>

ClientStep(c) ==
    \/ RecvAtEof(c)
    \/ RecvZero(c)
    \/ RecvError(c)
    \/ \E full \in BOOLEAN : RecvData(c, full)
    \/ RecvAgain(c)
    \/ SendIdle(c)
    \/ SendWait(c)
    \/ SendData(c)
    \/ SendAgain(c)
    \/ SendError(c)
    \/ SendSigPipe(c)
==============================================================================
