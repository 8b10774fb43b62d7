------------------------------- MODULE NcServer -------------------------------
(***************************************************************************)
(* The server connection: the loops recvMsg and sendMsg of NcConn with the *)
(* virtual functions of NcServerConn (nc_server.cpp) and the response side *)
(* of NcMsg (nc_message.cpp).                                              *)
(*                                                                         *)
(* NcServerConn::close is empty, so processClose takes the connection out  *)
(* of the event base and changes nothing else: it stays in m_conn_queue_,  *)
(* with m_done_ or m_err_ set for good (s_dead), and getConn hands it out. *)
(***************************************************************************)
EXTENDS NcCore

SrvRead  == <<Srv, "read">>
SrvWrite == <<Srv, "write">>

------------------------------------------------------------------------------
\* recvMsg: read() returns 0.  recvNext(false) sets m_done_.
SrvRecvZero ==
    /\ Handling(SrvRead)
    /\ ~Room(s_rmsg) \/ (srvInbox = <<>> /\ srvState = "fin")
    /\ ev' = processClose(At(SrvRead), Srv)
    /\ s_dead' = TRUE /\ s_rmsg' = FALSE
    /\ mbuf_pool' = PoolAfterDiscard(s_rmsg)
    /\ UNCHANGED <<alive, peerVars, srvSock, unacked, p_dead, connVars, s_in,
                   s_out, msgVars>>

\* recvMsg: read() fails.  The message stays m_rmsg_, with the mbuf it got.
SrvRecvError ==
    /\ Handling(SrvRead)
    /\ srvState = "rst"
    /\ ev' = processClose(At(SrvRead), Srv)
    /\ s_dead' = TRUE /\ s_rmsg' = TRUE
    /\ mbuf_pool' = IF Room(s_rmsg) THEN mbuf_pool ELSE mbuf_pool - 1
    /\ UNCHANGED <<alive, peerVars, srvSock, unacked, p_dead, connVars, s_in,
                   s_out, msgVars>>

\* responseFilter: without an outstanding request the response is stray and is
\* freed.  The error it records goes to the message, not to the connection.
responseFilter == s_out = <<>>

\* Mutant of responseForward: the newest outstanding request is taken.
responseForwardNewest(body, e0) ==
    LET p == s_out[Len(s_out)]
    IN  /\ s_out' = SubSeq(s_out, 1, Len(s_out) - 1)
        /\ done' = [done EXCEPT ![p] = TRUE]
        /\ rsp' = [rsp EXCEPT ![p] = body]
        /\ ev' = AddOutput(e0, data[p], sess[data[p]] # 0, TRUE)
        /\ UNCHANGED mbuf_pool

\* Mutant of responseForward: no addOutput.
responseForwardNoOutput(body, e0) ==
    LET p == Head(s_out)
    IN  /\ s_out' = Tail(s_out)
        /\ done' = [done EXCEPT ![p] = TRUE]
        /\ rsp' = [rsp EXCEPT ![p] = body]
        /\ ev' = e0
        /\ UNCHANGED mbuf_pool

\* responseForward: pair the response with the oldest outstanding request and
\* arm the output of that request's client connection.
responseForward(body, e0) ==
    LET p == Head(s_out)
    IN  /\ s_out' = Tail(s_out)
        /\ done' = [done EXCEPT ![p] = TRUE]
        /\ rsp' = [rsp EXCEPT ![p] = body]
        /\ ev' = AddOutput(e0, data[p], sess[data[p]] # 0, TRUE)
        /\ UNCHANGED mbuf_pool

\* recvMsg: read() returns the first n chunks, as in RecvData of NcClient.
SrvRecvData(full) ==
    /\ Handling(SrvRead) /\ Room(s_rmsg)
    /\ \E n \in 1..Len(srvInbox) :
         /\ IF full THEN "fill" \in Env ELSE n = Len(srvInbox)
         /\ LET e == IF full THEN At(SrvRead) ELSE End(At(SrvRead))
            IN  IF responseFilter
                THEN /\ ev' = e
                     /\ mbuf_pool' = PoolFree(1)
                     /\ UNCHANGED <<s_out, done, rsp>>
                ELSE responseForward(parse(srvInbox, n), e)
         /\ srvInbox' = Unsent(srvInbox, n)
    /\ s_rmsg' = FALSE
    /\ UNCHANGED <<alive, peerVars, srvState, toSrv, unacked, p_dead, connVars,
                   s_in, s_dead, nreq, data, req, freed>>

\* recvMsg: EAGAIN, after a read that filled the mbuf.
SrvRecvAgain ==
    /\ Handling(SrvRead) /\ Room(s_rmsg)
    /\ srvInbox = <<>> /\ srvState = "up"
    /\ ev' = End(At(SrvRead))
    /\ s_rmsg' = TRUE
    /\ UNCHANGED <<alive, peerVars, srvSock, unacked, p_dead, connVars, s_in,
                   s_out, s_dead, msgVars, mbuf_pool>>

------------------------------------------------------------------------------
\* The end of callback() after sendMsg.
SrvEndSend(e) == IF s_dead THEN processClose(e, Srv) ELSE End(e)

\* sendMsg: sendNext finds m_imsg_q_ empty.
SrvSendIdle ==
    /\ Handling(SrvWrite) /\ s_in = <<>>
    /\ ev' = SrvEndSend(DelOutput(At(SrvWrite), Srv))
    /\ UNCHANGED <<alive, peerVars, srvSock, unacked, p_dead, connVars, s_vars,
                   msgVars, mbuf_pool>>

\* sendChain fills iov[].  sendNext steps from the beginning of m_imsg_q_ every
\* time, so behind the first request it returns the second one again and again,
\* and mbuf_queue stays that of the first request: two or more waiting requests
\* become IovMax entries for the bytes of the first one.
Iov == LET m == req[Head(s_in)]
           copies == IF Len(s_in) = 1 THEN 1 ELSE IovMax
       IN  [i \in 1..(copies * Len(m)) |-> m[((i - 1) % Len(m)) + 1]]

\* sendChain accounts for the n chunks written to the first request and then, if
\* some are left, to the second: how many requests sendDone moves to m_omsg_q_.
Completed(n) ==
    LET n1 == n - Len(req[Head(s_in)])
    IN  IF n1 < 0 THEN 0
        ELSE IF Len(s_in) > 1 /\ n1 > 0 /\ n1 >= Len(req[s_in[2]]) THEN 2 ELSE 1

\* Mutant of Outstanding: sendDone does not enqueue the request.
OutstandingDropped(k) == s_out

\* NcServerConn::sendDone for the first k requests of m_imsg_q_.
Outstanding(k) == s_out \o SubSeq(s_in, 1, k)

\* sendMsg: writev() takes n chunks.  m_send_ready_ is cleared when the number of
\* bytes written is below the number of iov entries, which only a short write
\* of several entries can be (more = FALSE).
SrvSendData(more) ==
    /\ Handling(SrvWrite) /\ s_in # <<>>
    /\ srvState \in {"up", "fin"}
    /\ \E n \in 1..Len(Iov) :
         /\ more \/ (Len(s_in) > 1 /\ n < Len(Iov))
         /\ LET p  == Head(s_in)
                n1 == n - Len(req[p])
                k  == Completed(n)
            IN  /\ s_in' = Unsent(s_in, k)
                /\ s_out' = Outstanding(k)
                /\ req' = [q \in Req |->
                             IF q = p THEN Unsent(req[p], n)
                             ELSE IF Len(s_in) > 1 /\ q = s_in[2] /\ n1 > 0
                                  THEN Unsent(req[q], n1)
                             ELSE req[q]]
         /\ toSrv' = IF srvState = "up" THEN toSrv \o SubSeq(Iov, 1, n) ELSE toSrv
    /\ ev' = IF more THEN At(SrvWrite) ELSE SrvEndSend(At(SrvWrite))
    /\ unacked' = unacked \cup {Srv}
    /\ UNCHANGED <<alive, peerVars, srvState, srvInbox, p_dead, connVars, s_rmsg,
                   s_dead, nreq, data, rsp, done, freed, mbuf_pool>>

\* sendMsg: EAGAIN.
SrvSendAgain ==
    /\ Handling(SrvWrite) /\ s_in # <<>>
    /\ Srv \in unacked
    /\ ev' = SrvEndSend(At(SrvWrite))
    /\ UNCHANGED <<alive, peerVars, srvSock, unacked, p_dead, connVars, s_vars,
                   msgVars, mbuf_pool>>

\* sendMsg: writev() fails, ...
SrvSendError ==
    /\ Handling(SrvWrite) /\ s_in # <<>>
    /\ srvState = "rst"
    /\ s_dead' = TRUE
    /\ ev' = processClose(At(SrvWrite), Srv)
    /\ UNCHANGED <<alive, peerVars, srvSock, unacked, p_dead, connVars, s_in,
                   s_out, s_rmsg, msgVars, mbuf_pool>>

\* ... or it raises SIGPIPE.
SrvSendSigPipe ==
    /\ Handling(SrvWrite) /\ s_in # <<>>
    /\ srvState = "rst"
    /\ alive' = "exit"
    /\ UNCHANGED <<ev, peerVars, srvSock, unacked, p_dead, connVars, s_vars,
                   msgVars, mbuf_pool>>

ServerStep ==
    \/ SrvRecvZero
    \/ SrvRecvError
    \/ \E full \in BOOLEAN : SrvRecvData(full)
    \/ SrvRecvAgain
    \/ SrvSendIdle
    \/ \E more \in BOOLEAN : SrvSendData(more)
    \/ SrvSendAgain
    \/ SrvSendError
    \/ SrvSendSigPipe
==============================================================================
