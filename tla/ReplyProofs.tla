------------------------------ MODULE ReplyProofs ------------------------------
(***************************************************************************)
(* What reaches the clients, when the peers are calm.  Two statements of   *)
(* Nutcracker hold for some values of Env only, and are proved for these:  *)
(* a request is freed once unless a client resets its connection, and a    *)
(* client gets the replies to its own requests, whole and in order, unless *)
(* clients or server do what Calm excludes.                                *)
(***************************************************************************)
EXTENDS ConnProofs

\* No reset, no second request before the first is written to the server, no reply that
\* nobody asked for, and no read that ends inside a message: where a read may fill the
\* mbuf, a message is one chunk.
Calm == Env \cap {"reset", "burst", "stray"} = {} /\ ("fill" \in Env => Chunks = 1)

NoReset == \A s \in Session : st[s] # "rst"

\* close() is called for connections with an empty out_q only.
OwnedQueues == \A c \in Conn : sess[c] = 0 => cq[c] = <<>>

Unfreed == \A c \in Conn : \A i \in DOMAIN cq[c] : freed[cq[c][i]] = 0 /\ data[cq[c][i]] = c

FreeInv == NoReset /\ OwnedQueues /\ Unfreed /\ FreedOnce

\* The variables the argument is about.
replyVars == <<st, inbox, sent, got, backlog, srvSock, sess, cq, s_in, s_out, msgVars>>

------------------------------------------------------------------------------
\* Without resets a client connection is closed only when its out_q is empty.
LEMMA ClientCases ==
    ASSUME TypeInv, NoReset, NEW c \in Conn, ClientStep(c)
    PROVE  \/ cq[c] = <<>> /\ sess[c] \in Session /\ \E e0, pool : close(c, e0, pool)
           \/ \E full \in BOOLEAN : RecvData(c, full)
           \/ SendData(c)
           \/ UNCHANGED replyVars
  <1> USE DEF replyVars, peerVars, connVars, s_vars, msgVars
  <1>r. Handling(<<c, "read">>) => sess[c] \in Session
    BY HandlerSound
  <1>w. Handling(<<c, "write">>) => sess[c] \in Session
    BY HandlerSound
  <1>1. CASE RecvAtEof(c)
    <2>1. CASE active(c)
      BY <1>1, <2>1 DEF RecvAtEof
    <2>2. CASE ~active(c)
      BY <1>1, <1>r, <2>2 DEF RecvAtEof, active
    <2> QED BY <2>1, <2>2
  <1>2. CASE RecvZero(c)
    <2>1. CASE active(c)
      BY <1>2, <2>1 DEF RecvZero
    <2>2. CASE ~active(c)
      BY <1>2, <1>r, <2>2 DEF RecvZero, active
    <2> QED BY <2>1, <2>2
  <1>3. CASE RecvError(c)
    BY <1>3, <1>r DEF RecvError, NoReset
  <1>4. CASE RecvAgain(c)
    BY <1>4 DEF RecvAgain
  <1>5. CASE SendIdle(c)
    <2>1. CASE eof[c]
      BY <1>5, <1>w, <2>1 DEF SendIdle
    <2>2. CASE ~eof[c]
      BY <1>5, <2>2 DEF SendIdle
    <2> QED BY <2>1, <2>2
  <1>6. CASE SendWait(c) \/ SendAgain(c)
    BY <1>6 DEF SendWait, SendAgain
  <1>7. CASE SendError(c) \/ SendSigPipe(c)
    BY <1>7, <1>w DEF SendError, SendSigPipe, NoReset
  <1> QED BY <1>1, <1>2, <1>3, <1>4, <1>5, <1>6, <1>7 DEF ClientStep

\* The steps of the other handlers, of the loop and of the peers.
LEMMA OtherCases ==
    ASSUME TypeInv, NoReset, "reset" \notin Env,
           \/ ServerStep \/ ProxyStep \/ PeerStep \/ Wait
           \/ (\E c \in Fd : StaleCallback(c)) \/ UNCHANGED vars
    PROVE  \/ \E full \in BOOLEAN : SrvRecvData(full)
           \/ \E more \in BOOLEAN : SrvSendData(more)
           \/ \E c \in Conn : AcceptConn(c)
           \/ AcceptError
           \/ \E s \in Session : ClientConnect(s) \/ ClientSend(s) \/ ClientFin(s)
           \/ ServerAccept \/ ServerReply \/ ServerStray \/ ServerFin \/ ServerReset
           \/ UNCHANGED replyVars
  <1> USE DEF replyVars, peerVars, connVars, s_vars, msgVars
  <1>1. CASE ServerStep
    BY <1>1 DEF ServerStep, SrvRecvZero, SrvRecvError, SrvRecvAgain, SrvSendIdle, SrvSendAgain,
                SrvSendError, SrvSendSigPipe
  <1>2. CASE ProxyStep
    <2>1. ~AcceptAborted
      <3>1. backlog # <<>> => Head(backlog) \in Session
        BY DEF TypeInv, TypeOK, SocketTypeOK
      <3> QED BY <3>1 DEF AcceptAborted, NoReset
    <2> QED BY <1>2, <2>1 DEF ProxyStep, AcceptAgain, AcceptNoFd
  <1>3. CASE PeerStep
    BY <1>3 DEF PeerStep, ClientReset, Ack, proxyVars
  <1>4. CASE Wait \/ \E c \in Fd : StaleCallback(c)
    BY <1>4 DEF Wait, StaleCallback
  <1>5. CASE UNCHANGED vars
    BY <1>5 DEF vars
  <1> QED BY <1>1, <1>2, <1>3, <1>4, <1>5

------------------------------------------------------------------------------
\* Steps that leave the out_qs alone and reset no connection.
LEMMA OtherFreeInv ==
    ASSUME FreeInv, UNCHANGED <<sess, cq, data, freed>>, NoReset'
    PROVE  FreeInv'
  BY DEF FreeInv, OwnedQueues, Unfreed, FreedOnce

\* close frees nothing of an empty queue.
LEMMA CloseFreeInv ==
    ASSUME TypeInv, FreeInv, NEW c \in Conn, cq[c] = <<>>, NEW e0, NEW pool, close(c, e0, pool)
    PROVE  FreeInv'
  <1>1. /\ freed \in [Req -> Nat] /\ sess \in [Conn -> {0} \cup Session]
        /\ st \in [Session -> SessionState]
    BY DEF TypeInv, TypeOK, MsgTypeOK, ConnTypeOK, SocketTypeOK
  <1>2. Doomed(c) = {}
    BY DEF Doomed
  <1>3. /\ freed' = [p \in Req |-> IF p \in Doomed(c) THEN freed[p] + 1 ELSE freed[p]]
        /\ sess' = [sess EXCEPT ![c] = 0] /\ st' = [st EXCEPT ![sess[c]] = "closed"]
        /\ UNCHANGED <<cq, data>>
    BY DEF close
  <1>4. freed' = freed
    BY <1>1, <1>2, <1>3
  <1>5. OwnedQueues'
    BY <1>1, <1>3 DEF FreeInv, OwnedQueues
  <1> QED BY <1>1, <1>3, <1>4, <1>5 DEF FreeInv, NoReset, Unfreed, FreedOnce

\* A new request is in no queue and has not been freed.
LEMMA ForwardFreeInv ==
    ASSUME TypeInv, PairInv, FreeInv, NEW c \in Conn, NEW full \in BOOLEAN, RecvData(c, full)
    PROVE  FreeInv'
  <1> DEFINE p == nreq + 1
  <1>1. /\ cq \in [Conn -> Seq(Req)] /\ data \in [Req -> Conn \cup {None}] /\ nreq \in Int
        /\ \A q \in Req : q \in Int
    BY DEF TypeInv, TypeOK, ConnTypeOK, MsgTypeOK, Req
  <1>2. /\ data' = [data EXCEPT ![p] = c] /\ cq' = [cq EXCEPT ![c] = Append(@, p)]
        /\ UNCHANGED <<st, sess, freed>>
    BY DEF RecvData, requestForward
  <1>3. p \in Req /\ p > nreq
    BY <1>1, BoundsAssumption DEF RecvData, TypeInv, TypeOK, MsgTypeOK, Req
  <1>4. freed[p] = 0
    BY <1>3 DEF PairInv, Fresh
  <1>5. \A d \in Conn : \A i \in DOMAIN cq[d] : cq[d][i] \in Req /\ cq[d][i] # p
    <2> SUFFICES ASSUME NEW d \in Conn, NEW i \in DOMAIN cq[d]
                 PROVE  cq[d][i] \in Req /\ cq[d][i] # p
      OBVIOUS
    <2>1. cq[d][i] \in Req /\ cq[d][i] <= nreq
      BY <1>1 DEF PairInv, OutQueues
    <2> QED BY <1>1, <1>3, <2>1
  <1>6. sess[c] # 0
    <2>1. sess[c] \in Session
      BY HandlerSound DEF RecvData
    <2> QED BY <2>1 DEF Session
  <1> HIDE DEF p
  <1>7. Unfreed'
    <2> SUFFICES ASSUME NEW d \in Conn, NEW i \in DOMAIN cq'[d]
                 PROVE  freed[cq'[d][i]] = 0 /\ data'[cq'[d][i]] = d
      BY <1>2 DEF Unfreed
    <2>1. CASE i \in DOMAIN cq[d] /\ cq'[d][i] = cq[d][i]
      BY <1>1, <1>2, <1>3, <1>5, <2>1 DEF FreeInv, Unfreed
    <2>2. CASE d = c /\ cq'[d][i] = p
      BY <1>1, <1>2, <1>3, <1>4, <2>2
    <2>3. d = c => cq'[d] = Append(cq[d], p)
      BY <1>1, <1>2
    <2>4. d # c => cq'[d] = cq[d]
      BY <1>1, <1>2
    <2>5. \A j \in DOMAIN Append(cq[d], p) :
              \/ (j \in DOMAIN cq[d] /\ Append(cq[d], p)[j] = cq[d][j])
              \/ Append(cq[d], p)[j] = p
      BY <1>1, <1>3, AppendElements
    <2> QED BY <2>1, <2>2, <2>3, <2>4, <2>5
  <1>8. OwnedQueues'
    BY <1>1, <1>2, <1>6 DEF FreeInv, OwnedQueues
  <1> QED BY <1>2, <1>7, <1>8 DEF FreeInv, NoReset, FreedOnce

\* The request that sendDone frees leaves the only queue it is in.
LEMMA WriteFreeInv ==
    ASSUME TypeInv, PairInv, FreeInv, NEW c \in Conn, SendData(c)
    PROVE  FreeInv'
  <1> DEFINE p == Head(cq[c])
  <1>1. cq \in [Conn -> Seq(Req)] /\ freed \in [Req -> Nat] /\ \A q \in Req : q \in Int
    BY DEF TypeInv, TypeOK, ConnTypeOK, MsgTypeOK, Req
  <1>2. cq[c] # <<>> /\ UNCHANGED <<st, sess, data>>
    BY DEF SendData
  <1>3. PICK n \in 1..Len(rsp[p]) :
          IF n = Len(rsp[p]) THEN sendDone(c, p) ELSE UNCHANGED <<cq, freed, mbuf_pool>>
    BY DEF SendData
  <1>4. CASE n # Len(rsp[p])
    BY <1>2, <1>3, <1>4, OtherFreeInv DEF FreeInv, NoReset
  <1>5. CASE n = Len(rsp[p])
    <2> DEFINE q == cq[c]
               r == Tail(q)
    <2>1. /\ q \in Seq(Req) /\ q # <<>> /\ Len(q) \in Nat /\ DOMAIN q = 1..Len(q)
          /\ 1 \in DOMAIN q /\ p = q[1] /\ p \in Req
      BY <1>1, <1>2
    <2>2. DOMAIN r = 1..(Len(q) - 1) /\ \A i \in 1..(Len(q) - 1) : r[i] = q[i + 1]
      BY <2>1
    <2>3. /\ freed' = [freed EXCEPT ![p] = @ + 1]
          /\ cq' = [cq EXCEPT ![c] = Tail(@)]
      BY <1>3, <1>5 DEF sendDone
    <2>4. cq'[c] = r /\ \A d \in Conn : d # c => cq'[d] = cq[d]
      BY <1>1, <2>3
    <2>5. freed[p] = 0 /\ data[p] = c
      BY <2>1 DEF FreeInv, Unfreed
    <2>6. \A x \in Req : x # p => freed'[x] = freed[x]
      BY <1>1, <2>3
    <2>7. freed'[p] = 1
      BY <1>1, <2>1, <2>3, <2>5
    <2> HIDE DEF p, q, r
    <2>8. \A i \in DOMAIN r : /\ r[i] \in Req /\ r[i] # p
                              /\ \E j \in DOMAIN q : r[i] = q[j]
      <3> SUFFICES ASSUME NEW i \in DOMAIN r
                   PROVE  r[i] \in Req /\ r[i] # p /\ \E j \in DOMAIN q : r[i] = q[j]
        OBVIOUS
      <3>1. i + 1 \in DOMAIN q /\ 1 < i + 1 /\ r[i] = q[i + 1] /\ q[i + 1] \in Req
        BY <2>1, <2>2
      <3>2. q[1] < q[i + 1]
        BY <2>1, <3>1 DEF PairInv, OutQueues, Rising, q
      <3> QED BY <1>1, <2>1, <3>1, <3>2
    <2>9. Unfreed'
      <3> SUFFICES ASSUME NEW d \in Conn, NEW i \in DOMAIN cq'[d]
                   PROVE  freed'[cq'[d][i]] = 0 /\ data[cq'[d][i]] = d
        BY <1>2 DEF Unfreed
      <3>1. CASE d = c
        BY <2>4, <2>6, <2>8, <3>1 DEF FreeInv, Unfreed, q
      <3>2. CASE d # c
        <4>1. cq'[d] = cq[d] /\ cq[d][i] \in Req /\ freed[cq[d][i]] = 0 /\ data[cq[d][i]] = d
          BY <1>1, <2>4, <3>2 DEF FreeInv, Unfreed
        <4> QED BY <2>5, <2>6, <3>2, <4>1
      <3> QED BY <3>1, <3>2
    <2>10. FreedOnce'
      BY <2>6, <2>7 DEF FreeInv, FreedOnce
    <2>11. OwnedQueues'
      BY <1>2, <2>1, <2>4 DEF FreeInv, OwnedQueues, q
    <2> QED BY <1>2, <2>9, <2>10, <2>11 DEF FreeInv, NoReset
  <1> QED BY <1>4, <1>5

\* Every step without a reset keeps FreeInv.
LEMMA NextFreeInv ==
    ASSUME "reset" \notin Env
    PROVE  TypeInv /\ PairInv /\ FreeInv /\ [Next]_vars => FreeInv'
  <1> SUFFICES ASSUME TypeInv, PairInv, FreeInv, [Next]_vars PROVE FreeInv'
    OBVIOUS
  <1> USE DEF connVars, s_vars, msgVars
  <1>a. NoReset /\ st \in [Session -> SessionState]
    BY DEF FreeInv, TypeInv, TypeOK, SocketTypeOK
  <1>1. ASSUME NEW c \in Conn, ClientStep(c) PROVE FreeInv'
    <2>1. CASE cq[c] = <<>> /\ \E e0, pool : close(c, e0, pool)
      BY <2>1, CloseFreeInv
    <2>2. CASE \E full \in BOOLEAN : RecvData(c, full)
      BY <2>2, ForwardFreeInv
    <2>3. CASE SendData(c)
      BY <2>3, WriteFreeInv
    <2>4. CASE UNCHANGED replyVars
      BY <1>a, <2>4, OtherFreeInv DEF replyVars, NoReset
    <2> QED BY <1>1, <1>a, <2>1, <2>2, <2>3, <2>4, ClientCases
  <1>2. CASE \/ ServerStep \/ ProxyStep \/ PeerStep \/ Wait
             \/ (\E c \in Fd : StaleCallback(c)) \/ UNCHANGED vars
    <2>1. CASE UNCHANGED replyVars
      BY <1>a, <2>1, OtherFreeInv DEF replyVars, NoReset
    <2>2. CASE (\E full \in BOOLEAN : SrvRecvData(full)) \/ (\E more \in BOOLEAN : SrvSendData(more))
      BY <1>a, <2>2, OtherFreeInv DEF SrvRecvData, SrvSendData, peerVars, NoReset
    <2>3. ASSUME NEW c \in Conn, AcceptConn(c) PROVE FreeInv'
      <3>1. sess \in [Conn -> {0} \cup Session] /\ Head(backlog) \in Session
        BY <2>3 DEF AcceptConn, TypeInv, TypeOK, ConnTypeOK, SocketTypeOK
      <3>2. sess' = [sess EXCEPT ![c] = Head(backlog)] /\ UNCHANGED <<st, cq, data, freed>>
        BY <2>3 DEF AcceptConn
      <3>3. OwnedQueues'
        BY <3>1, <3>2 DEF FreeInv, OwnedQueues, Session
      <3> QED BY <3>2, <3>3 DEF FreeInv, NoReset, Unfreed, FreedOnce
    <2>4. CASE AcceptError
      BY <1>a, <2>4, OtherFreeInv DEF AcceptError, NoReset
    <2>5. ASSUME NEW s \in Session, ClientConnect(s) \/ ClientSend(s) \/ ClientFin(s) PROVE FreeInv'
      BY <1>a, <2>5, OtherFreeInv DEF ClientConnect, ClientSend, ClientFin, proxyVars, NoReset
    <2>6. CASE ServerAccept \/ ServerReply \/ ServerStray \/ ServerFin \/ ServerReset
      BY <1>a, <2>6, OtherFreeInv
      DEF ServerAccept, ServerReply, ServerStray, ServerFin, ServerReset, proxyVars, peerVars, NoReset
    <2> QED BY <1>2, <1>a, <2>1, <2>2, <2>3, <2>4, <2>5, <2>6, OtherCases
  <1> QED BY <1>1, <1>2 DEF Next, Proxy

\* Nothing is freed at first.
LEMMA InitFreeInv == Init => FreeInv
  BY DEF Init, FreeInv, NoReset, OwnedQueues, Unfreed, FreedOnce

\* FreeInv holds in every state, without resets.
LEMMA FreeAlways ==
    ASSUME "reset" \notin Env
    PROVE  Spec => []FreeInv
  BY InitFreeInv, NextFreeInv, TypeInvariant, PairInvariant, PTL DEF Spec

\* A request is given back to msg_pool at most once, whatever else the peers do, as
\* long as no client resets its connection.
THEOREM FreedAtMostOnce ==
    ASSUME "reset" \notin Env
    PROVE  Spec => []FreedOnce
  <1>1. FreeInv => FreedOnce
    BY DEF FreeInv
  <1> QED BY <1>1, FreeAlways, PTL

------------------------------------------------------------------------------
(***************************************************************************)
(* The replies.  Nothing in the state says which request of its client a   *)
(* forwarded request is: the client that sent it knows how many it sent,   *)
(* and the proxy knows by the place of the request in the out_q.  Number   *)
(* is that count, Home the request seen from the client.  Each part of     *)
(* ReplyInv says what one buffer holds in these terms: the inbox of the    *)
(* proxy, the request and the response of a message, the bytes on their    *)
(* way to the server, the reply on its way back, what the client got.      *)
(***************************************************************************)

\* Is a request of session s still unread?
Unread(s) == IF inbox[s] = <<>> THEN 0 ELSE 1

\* The number that the client gave to the i-th request in the out_q of c.
Number(c, i) == sent[sess[c]] - Unread(sess[c]) - Len(cq[c]) + i

\* Request p is number n of session s.
Home(p, s, n) ==
    \E c \in Conn : \E i \in DOMAIN cq[c] :
      cq[c][i] = p /\ sess[c] = s /\ Number(c, i) = n

\* The last m chunks of a message.
Part(s, n, m) == [k \in 1..m |-> <<s, n, Chunks - m + k>>]

OneAtATime ==
    /\ \A s \in Session : inbox[s] # <<>> => inbox[s] = Frame(s, sent[s]) /\ s_in = <<>>
    /\ \A s, t \in Session : inbox[s] # <<>> /\ inbox[t] # <<>> => s = t
    /\ Len(s_in) <= 1

Unserved ==
    \A s \in Session : InQueue(backlog, s) \/ st[s] = "new" =>
      got[s] = <<>> /\ sent[s] = Unread(s)

Responses ==
    \A p \in Req : \A s, n : Home(p, s, n) =>
      Len(rsp[p]) <= Chunks /\ rsp[p] = Part(s, n, Len(rsp[p]))

\* Only the response at the head of an out_q is partly written.
WholeBehind ==
    \A c \in Conn : \A i \in DOMAIN cq[c] : i # 1 => Len(rsp[cq[c][i]]) \in {0, Chunks}

\* How much of the response at the head of the out_q is written.
Written(c) ==
    IF cq[c] # <<>> /\ rsp[Head(cq[c])] # <<>> THEN Chunks - Len(rsp[Head(cq[c])]) ELSE 0

GotSoFar ==
    \A c \in Conn : sess[c] # 0 =>
      Number(c, 0) \in Nat /\ Len(got[sess[c]]) = Number(c, 0) * Chunks + Written(c)

ClientInv == Unserved /\ Responses /\ WholeBehind /\ GotSoFar /\ OwnRepliesInOrder

Requests ==
    s_in # <<>> =>
      /\ Len(req[Head(s_in)]) \in 1..Chunks
      /\ \A s, n : Home(Head(s_in), s, n) =>
           req[Head(s_in)] = Part(s, n, Len(req[Head(s_in)]))

ReplyWhole ==
    srvInbox # <<>> =>
      s_out # <<>> /\ \A s, n : Home(s_out[1], s, n) => srvInbox = Frame(s, n)

\* Is the oldest outstanding request answered by the server?
Replied == IF srvInbox = <<>> THEN 0 ELSE 1

\* How much of the request at the head of in_q is written.
Begun == IF s_in = <<>> THEN 0 ELSE Chunks - Len(req[Head(s_in)])

\* The outstanding requests that the server has not answered yet.
Held == Len(s_out) - Replied

StreamOut ==
    \A j \in 1..Held, k \in 1..Chunks : \A s, n :
      Home(s_out[j + Replied], s, n) => toSrv[(j - 1) * Chunks + k] = <<s, n, k>>

StreamIn ==
    \A k \in 1..Begun : \A s, n :
      Home(Head(s_in), s, n) => toSrv[Held * Chunks + k] = <<s, n, k>>

Stream ==
    srvState \in {"connecting", "up"} =>
      Len(toSrv) = Held * Chunks + Begun /\ StreamOut /\ StreamIn

ServerInv == Requests /\ ReplyWhole /\ Stream

ReplyInv == OneAtATime /\ ClientInv /\ ServerInv

------------------------------------------------------------------------------
\* Products with the length of a message.
LEMMA TimesMonotone ==
    ASSUME NEW a \in Nat, NEW b \in Nat, NEW k \in Nat, a <= b
    PROVE  a * k <= b * k /\ a * k \in Nat /\ b * k \in Nat
  OBVIOUS

\* The place of a chunk tells its message and its place there.
LEMMA ChunkPlace ==
    ASSUME NEW k \in Nat \ {0}, NEW a \in Nat, NEW b \in 0..(k - 1)
    PROVE  (a * k + b) \div k = a /\ (a * k + b) % k = b
  OBVIOUS

\* A step that touches neither the server's queues nor its bytes, and finds no new home
\* for a request.
LEMMA KeepServerInv ==
    ASSUME ServerInv, UNCHANGED <<srvSock, s_in, s_out, req>>,
           \A p, s, n : Home(p, s, n)' => Home(p, s, n)
    PROVE  ServerInv'
  <1> USE DEF srvSock
  <1>1. Replied' = Replied /\ Begun' = Begun /\ Held' = Held
    BY DEF Replied, Begun, Held
  <1>2. Requests' /\ ReplyWhole'
    BY DEF ServerInv, Requests, ReplyWhole
  <1>3. StreamOut => StreamOut'
    BY <1>1, Zenon DEF StreamOut
  <1>4. StreamIn => StreamIn'
    BY <1>1, Zenon DEF StreamIn
  <1>5. Stream'
    BY <1>1, <1>3, <1>4 DEF ServerInv, Stream
  <1> QED BY <1>2, <1>5 DEF ServerInv

\* A step that touches no client.
LEMMA KeepClientInv ==
    ASSUME ClientInv, UNCHANGED <<inbox, sent, got, backlog, sess, cq, rsp>>,
           \A s \in Session : st'[s] = "new" => st[s] = "new"
    PROVE  ClientInv' /\ \A p, s, n : Home(p, s, n)' <=> Home(p, s, n)
  <1>1. /\ \A s : Unread(s)' = Unread(s)
        /\ \A c, i : Number(c, i)' = Number(c, i)
    BY DEF Unread, Number
  <1>2. \A p, s, n : Home(p, s, n)' <=> Home(p, s, n)
    BY <1>1 DEF Home
  <1>3. \A c : Written(c)' = Written(c)
    BY DEF Written
  <1>4. Unserved' /\ WholeBehind' /\ OwnRepliesInOrder'
    BY <1>1 DEF ClientInv, Unserved, WholeBehind, OwnRepliesInOrder, InQueue
  <1>5. Responses'
    BY <1>2 DEF ClientInv, Responses
  <1>6. GotSoFar'
    BY <1>1, <1>3 DEF ClientInv, GotSoFar
  <1> QED BY <1>2, <1>4, <1>5, <1>6 DEF ClientInv

\* Steps outside the argument.
LEMMA OtherReplyInv ==
    ASSUME ReplyInv, UNCHANGED <<inbox, sent, got, backlog, srvSock, sess, cq, s_in, s_out, req, rsp>>,
           \A s \in Session : st'[s] = "new" => st[s] = "new"
    PROVE  ReplyInv'
  <1>1. ClientInv' /\ \A p, s, n : Home(p, s, n)' => Home(p, s, n)
    BY KeepClientInv DEF ReplyInv
  <1>2. ServerInv'
    BY <1>1, KeepServerInv DEF ReplyInv
  <1>3. OneAtATime'
    BY DEF ReplyInv, OneAtATime, Frame
  <1> QED BY <1>1, <1>2, <1>3 DEF ReplyInv

\* Requests stay where they are when each one of an out_q was in it, with its number.
LEMMA HomeThrough ==
    ASSUME \A d \in Conn : \A i \in DOMAIN cq'[d] : \E j \in DOMAIN cq[d] :
             cq'[d][i] = cq[d][j] /\ sess'[d] = sess[d] /\ Number(d, i)' = Number(d, j)
    PROVE  \A p, s, n : Home(p, s, n)' => Home(p, s, n)
  BY DEF Home

\* close of a connection without requests: what its client sent last may be lost, what
\* others sent is not touched.
LEMMA CloseReplyInv ==
    ASSUME TypeInv, PoolInv, FreeInv, ReplyInv, NEW c \in Conn, cq[c] = <<>>,
           sess[c] \in Session,
           NEW e0, NEW pool, close(c, e0, pool)
    PROVE  ReplyInv'
  <1>1. /\ sess \in [Conn -> {0} \cup Session] /\ rsp \in [Req -> Seq(Chunk)]
        /\ st \in [Session -> SessionState] /\ inbox \in [Session -> Seq(Chunk)]
        /\ 0 \notin Session
    BY DEF TypeInv, TypeOK, MsgTypeOK, ConnTypeOK, SocketTypeOK, Session
  <1>2. /\ rsp' = [p \in Req |-> IF p \in Doomed(c) THEN <<>> ELSE rsp[p]]
        /\ sess' = [sess EXCEPT ![c] = 0] /\ st' = [st EXCEPT ![sess[c]] = "closed"]
        /\ inbox' = [inbox EXCEPT ![sess[c]] = <<>>]
        /\ UNCHANGED <<cq, sent, got, backlog, srvSock, s_in, s_out, req>>
    BY DEF close, s_vars
  <1>3. rsp' = rsp
    <2>1. Doomed(c) = {}
      BY DEF Doomed
    <2> QED BY <1>1, <1>2, <2>1
  <1>4. /\ \A s \in Session : s # sess[c] => inbox'[s] = inbox[s] /\ Unread(s)' = Unread(s)
        /\ inbox'[sess[c]] = <<>>
        /\ sess'[c] = 0
    BY <1>1, <1>2 DEF Unread
  <1>5. \A d \in Conn : d # c /\ sess[d] # 0 =>
          /\ sess'[d] = sess[d] /\ sess[d] \in Session /\ sess[d] # sess[c]
          /\ \A i : Number(d, i)' = Number(d, i)
          /\ Written(d)' = Written(d)
    <2> SUFFICES ASSUME NEW d \in Conn, d # c, sess[d] # 0
                 PROVE  /\ sess'[d] = sess[d] /\ sess[d] \in Session /\ sess[d] # sess[c]
                        /\ \A i : Number(d, i)' = Number(d, i)
                        /\ Written(d)' = Written(d)
      OBVIOUS
    <2>1. sess'[d] = sess[d] /\ sess[d] \in Session /\ sess[d] # sess[c]
      BY <1>1, <1>2 DEF PoolInv, ConnPoolSound
    <2>2. Unread(sess[d])' = Unread(sess[d])
      BY <1>4, <2>1 DEF Unread
    <2> QED BY <1>2, <1>3, <2>1, <2>2 DEF Number, Written
  <1>6. \A d \in Conn : d # c /\ sess'[d] # 0 => sess[d] # 0
    BY <1>1, <1>2
  <1>7. \A p, s, n : Home(p, s, n)' => Home(p, s, n)
    <2> SUFFICES ASSUME NEW d \in Conn, NEW i \in DOMAIN cq'[d]
                 PROVE  \E j \in DOMAIN cq[d] : /\ cq'[d][i] = cq[d][j] /\ sess'[d] = sess[d]
                                                /\ Number(d, i)' = Number(d, j)
      BY HomeThrough
    <2>1. d # c /\ sess[d] # 0 /\ cq'[d] = cq[d]
      BY <1>2 DEF FreeInv, OwnedQueues
    <2> QED BY <1>5, <2>1
  <1>8. ServerInv'
    BY <1>2, <1>7, KeepServerInv DEF ReplyInv
  <1>9. OneAtATime'
    <2>1. \A s \in Session : inbox'[s] = inbox[s] \/ inbox'[s] = <<>>
      BY <1>4
    <2> QED BY <1>2, <2>1 DEF ReplyInv, OneAtATime, Frame
  <1>10. Unserved'
    <2> SUFFICES ASSUME NEW s \in Session, InQueue(backlog, s) \/ st'[s] = "new"
                 PROVE  got[s] = <<>> /\ sent[s] = Unread(s)'
      BY <1>2 DEF Unserved, InQueue, Unread
    <2>1. s # sess[c]
      BY <1>1, <1>2 DEF PoolInv, QueueSound
    <2>2. InQueue(backlog, s) \/ st[s] = "new"
      BY <1>1, <1>2, <2>1
    <2> QED BY <1>4, <2>1, <2>2 DEF ReplyInv, ClientInv, Unserved
  <1>11. Responses'
    BY <1>3, <1>7 DEF ReplyInv, ClientInv, Responses
  <1>12. WholeBehind' /\ OwnRepliesInOrder'
    BY <1>2, <1>3 DEF ReplyInv, ClientInv, WholeBehind, OwnRepliesInOrder
  <1>13. GotSoFar'
    <2> SUFFICES ASSUME NEW d \in Conn, sess'[d] # 0
                 PROVE  /\ Number(d, 0)' \in Nat
                        /\ Len(got[sess'[d]]) = Number(d, 0)' * Chunks + Written(d)'
      BY <1>2 DEF GotSoFar
    <2>1. d # c /\ sess[d] # 0
      BY <1>4, <1>6
    <2>2. Number(d, 0) \in Nat /\ Len(got[sess[d]]) = Number(d, 0) * Chunks + Written(d)
      BY <2>1 DEF ReplyInv, ClientInv, GotSoFar
    <2> QED BY <1>5, <2>1, <2>2
  <1> QED BY <1>8, <1>9, <1>10, <1>11, <1>12, <1>13 DEF ReplyInv, ClientInv

\* accept: the session has sent one request at most, and got nothing.
LEMMA AcceptReplyInv ==
    ASSUME TypeInv, PoolInv, FreeInv, ReplyInv, NEW c \in Conn, AcceptConn(c)
    PROVE  ReplyInv'
  <1> DEFINE s0 == Head(backlog)
  <1>1. /\ sess \in [Conn -> {0} \cup Session] /\ backlog \in Seq(Session) /\ backlog # <<>>
        /\ s0 \in Session /\ 0 \notin Session /\ Chunks \in Nat
        /\ cq \in [Conn -> Seq(Req)]
    <2>1. /\ sess \in [Conn -> {0} \cup Session] /\ backlog \in Seq(Session) /\ backlog # <<>>
          /\ cq \in [Conn -> Seq(Req)]
      BY DEF AcceptConn, TypeInv, TypeOK, ConnTypeOK, SocketTypeOK
    <2>2. 0 \notin Session /\ Chunks \in Nat
      BY BoundsAssumption DEF Session
    <2> QED BY <2>1, <2>2
  <1>2. /\ sess' = [sess EXCEPT ![c] = s0] /\ backlog' = Tail(backlog)
        /\ UNCHANGED <<st, inbox, sent, got, cq, rsp, srvSock, s_in, s_out, req>>
    BY DEF AcceptConn, s_vars, msgVars
  <1>3. /\ InQueue(backlog, s0) /\ \A x : InQueue(Tail(backlog), x) => InQueue(backlog, x)
    BY <1>1, DistinctTail DEF PoolInv, QueueSound
  <1>4. sess[c] = 0
    <2>1. CASE c_pool # <<>>
      <3>1. c = Head(c_pool) /\ c_pool \in Seq(Conn)
        BY <2>1 DEF AcceptConn, Allocates, TypeInv, TypeOK, ConnTypeOK
      <3>2. 1 \in DOMAIN c_pool /\ c = c_pool[1]
        BY <2>1, <3>1
      <3> QED BY <3>2 DEF PoolInv, ConnPoolSound, Pooled
    <2>2. CASE c_pool = <<>>
      BY <2>2 DEF AcceptConn, Allocates
    <2> QED BY <2>1, <2>2
  <1>5. cq[c] = <<>>
    BY <1>4 DEF FreeInv, OwnedQueues
  <1> HIDE DEF s0
  <1>6. /\ \A s : Unread(s)' = Unread(s)
        /\ \A d \in Conn : d # c => sess'[d] = sess[d] /\ \A i : Number(d, i)' = Number(d, i)
        /\ \A d \in Conn : Written(d)' = Written(d)
    BY <1>1, <1>2 DEF Unread, Number, Written
  <1>7. \A p, s, n : Home(p, s, n)' => Home(p, s, n)
    <2> SUFFICES ASSUME NEW d \in Conn, NEW i \in DOMAIN cq'[d]
                 PROVE  \E j \in DOMAIN cq[d] : /\ cq'[d][i] = cq[d][j] /\ sess'[d] = sess[d]
                                                /\ Number(d, i)' = Number(d, j)
      BY HomeThrough
    <2>1. d # c /\ cq'[d] = cq[d]
      BY <1>2, <1>5
    <2> QED BY <1>6, <2>1
  <1>8. ServerInv'
    BY <1>2, <1>7, KeepServerInv DEF ReplyInv
  <1>9. OneAtATime' /\ WholeBehind' /\ OwnRepliesInOrder'
    BY <1>2 DEF ReplyInv, OneAtATime, Frame, ClientInv, WholeBehind, OwnRepliesInOrder
  <1>10. Unserved'
    <2>1. \A s \in Session : InQueue(backlog', s) => InQueue(backlog, s)
      BY <1>2, <1>3
    <2> QED BY <1>2, <1>6, <2>1 DEF ReplyInv, ClientInv, Unserved
  <1>11. Responses'
    BY <1>2, <1>7 DEF ReplyInv, ClientInv, Responses
  <1>12. GotSoFar'
    <2> SUFFICES ASSUME NEW d \in Conn, sess'[d] # 0
                 PROVE  /\ Number(d, 0)' \in Nat
                        /\ Len(got[sess'[d]]) = Number(d, 0)' * Chunks + Written(d)'
      BY <1>2 DEF GotSoFar
    <2>1. CASE d # c
      <3>1. Number(d, 0) \in Nat /\ Len(got[sess[d]]) = Number(d, 0) * Chunks + Written(d)
        BY <1>6, <2>1 DEF ReplyInv, ClientInv, GotSoFar
      <3> QED BY <1>6, <2>1, <3>1
    <2>2. CASE d = c
      <3>1. got[s0] = <<>> /\ sent[s0] = Unread(s0)
        BY <1>1, <1>3 DEF ReplyInv, ClientInv, Unserved
      <3>2. sess'[c] = s0 /\ Len(cq[c]) = 0 /\ Len(got[s0]) = 0
        BY <1>1, <1>2, <1>5, <3>1
      <3>3. Unread(s0) \in Int
        BY DEF Unread
      <3>4. Number(c, 0)' = sent[s0] - Unread(s0) - Len(cq[c]) + 0
        BY <1>2, <1>6, <3>2 DEF Number
      <3>5. Number(c, 0)' = 0
        BY <3>1, <3>2, <3>3, <3>4
      <3>6. Written(c)' = 0
        BY <1>2, <1>5 DEF Written
      <3> QED BY <1>1, <2>2, <3>2, <3>5, <3>6
    <2> QED BY <2>1, <2>2
  <1> QED BY <1>8, <1>9, <1>10, <1>11, <1>12 DEF ReplyInv, ClientInv

\* ClientConnect: a session that waits in the listen queue was new.
LEMMA ConnectReplyInv ==
    ASSUME TypeInv, ReplyInv, NEW s0 \in Session, ClientConnect(s0)
    PROVE  ReplyInv'
  <1>1. st \in [Session -> SessionState] /\ backlog \in Seq(Session)
    BY DEF TypeInv, TypeOK, SocketTypeOK
  <1>2. /\ st[s0] = "new" /\ st' = [st EXCEPT ![s0] = "open"] /\ backlog' = Append(backlog, s0)
        /\ UNCHANGED <<inbox, sent, got, srvSock, sess, cq, s_in, s_out, req, rsp>>
    BY DEF ClientConnect, proxyVars, connVars, s_vars, msgVars
  <1>3. \A s \in Session : InQueue(backlog', s) => InQueue(backlog, s) \/ s = s0
    <2>1. \A i \in DOMAIN Append(backlog, s0) :
            \/ (i \in DOMAIN backlog /\ Append(backlog, s0)[i] = backlog[i])
            \/ Append(backlog, s0)[i] = s0
      BY <1>1, AppendElements
    <2> QED BY <1>2, <2>1 DEF InQueue
  <1>4. \A s : Unread(s)' = Unread(s)
    BY <1>2 DEF Unread
  <1>5. Unserved'
    BY <1>1, <1>2, <1>3, <1>4 DEF ReplyInv, ClientInv, Unserved
  <1>6. \A c, i : Number(c, i)' = Number(c, i) /\ Written(c)' = Written(c)
    BY <1>2, <1>4 DEF Number, Written
  <1>7. \A p, s, n : Home(p, s, n)' <=> Home(p, s, n)
    BY <1>2, <1>6 DEF Home
  <1>8. ServerInv'
    BY <1>2, <1>7, KeepServerInv DEF ReplyInv
  <1>9. OneAtATime' /\ WholeBehind' /\ OwnRepliesInOrder'
    BY <1>2 DEF ReplyInv, OneAtATime, Frame, ClientInv, WholeBehind, OwnRepliesInOrder
  <1>10. Responses' /\ GotSoFar'
    BY <1>2, <1>6, <1>7 DEF ReplyInv, ClientInv, Responses, GotSoFar
  <1> QED BY <1>5, <1>8, <1>9, <1>10 DEF ReplyInv, ClientInv

\* A client that speaks when all is quiet counts one more, and it is not read yet.
LEMMA SpeakReplyInv ==
    ASSUME TypeInv, FreeInv, ReplyInv, "burst" \notin Env, NEW s0 \in Session, ClientSend(s0)
    PROVE  ReplyInv'
  <1>1. /\ sent \in [Session -> 0..MaxSend] /\ inbox \in [Session -> Seq(Chunk)]
        /\ got \in [Session -> Seq(Chunk)]
        /\ sess \in [Conn -> {0} \cup Session] /\ cq \in [Conn -> Seq(Req)]
    BY DEF TypeInv, TypeOK, ConnTypeOK, SocketTypeOK
  <1>2. /\ s_in = <<>> /\ \A s \in Session : inbox[s] = <<>>
        /\ st[s0] = "open" /\ sent[s0] < MaxSend
        /\ sent' = [sent EXCEPT ![s0] = @ + 1]
        /\ inbox' = [inbox EXCEPT ![s0] = @ \o Frame(s0, sent[s0] + 1)]
        /\ UNCHANGED <<st, got, backlog, srvSock, sess, cq, s_in, s_out, req, rsp>>
    BY DEF ClientSend, Quiet, proxyVars, connVars, s_vars, msgVars
  <1>3. MaxSend \in Nat /\ Chunks \in Nat /\ Chunks # 0 /\ 0 \notin Session
    BY BoundsAssumption DEF Session
  <1> DEFINE f == Frame(s0, sent[s0] + 1)
  <1>4. f \in Seq(Chunk) /\ f # <<>>
    <2>1. sent[s0] + 1 \in 0..MaxSend
      BY <1>1, <1>2, <1>3
    <2>2. f \in Seq(Chunk)
      BY <2>1, FrameType
    <2>3. Len(f) = Chunks
      BY <1>3 DEF Frame
    <2> QED BY <1>3, <2>2, <2>3
  <1>5. inbox'[s0] = f /\ sent'[s0] = sent[s0] + 1 /\ sent[s0] \in Nat
    <2> HIDE DEF f
    <2>1. <<>> \o f = f
      BY <1>4, ConcatEmptySeq
    <2>2. inbox'[s0] = inbox[s0] \o f
      BY <1>1, <1>2 DEF f
    <2>3. sent'[s0] = sent[s0] + 1 /\ sent[s0] \in Nat
      BY <1>1, <1>2, <1>3
    <2> QED BY <1>2, <2>1, <2>2, <2>3
  <1>6. \A s \in Session : s # s0 => inbox'[s] = <<>> /\ sent'[s] = sent[s]
    BY <1>1, <1>2
  <1>7. f = Frame(s0, sent'[s0])
    BY <1>5 DEF Frame
  <1> HIDE DEF f
  <1>8. \A s \in Session : sent[s] - Unread(s) = sent'[s] - Unread(s)'
    BY <1>1, <1>2, <1>4, <1>5, <1>6 DEF Unread
  <1>9. \A d \in Conn : sess[d] # 0 => \A i : Number(d, i)' = Number(d, i)
    <2> SUFFICES ASSUME NEW d \in Conn, sess[d] # 0, NEW i PROVE Number(d, i)' = Number(d, i)
      OBVIOUS
    <2>1. sess[d] \in Session
      BY <1>1
    <2>2. Number(d, i)' = (sent'[sess[d]] - Unread(sess[d])') - Len(cq[d]) + i
      BY <1>2 DEF Number, Unread
    <2>3. Number(d, i) = (sent[sess[d]] - Unread(sess[d])) - Len(cq[d]) + i
      BY DEF Number
    <2>4. sent[sess[d]] - Unread(sess[d]) = sent'[sess[d]] - Unread(sess[d])'
      BY <1>2, <1>8, <2>1 DEF Unread
    <2> QED BY <2>2, <2>3, <2>4, Zenon
  <1>10. \A p, s, n : Home(p, s, n)' => Home(p, s, n)
    <2> SUFFICES ASSUME NEW d \in Conn, NEW i \in DOMAIN cq'[d]
                 PROVE  \E j \in DOMAIN cq[d] : /\ cq'[d][i] = cq[d][j] /\ sess'[d] = sess[d]
                                                /\ Number(d, i)' = Number(d, j)
      BY HomeThrough
    <2>1. sess[d] # 0
      BY <1>2 DEF FreeInv, OwnedQueues
    <2> QED BY <1>2, <1>9, <2>1
  <1>11. ServerInv'
    BY <1>2, <1>10, KeepServerInv DEF ReplyInv
  <1>12. OneAtATime'
    <2>1. \A s \in Session : inbox'[s] # <<>> => s = s0
      BY <1>6
    <2>2. \A s \in Session : inbox'[s] # <<>> => inbox'[s] = Frame(s, sent'[s]) /\ s_in = <<>>
      BY <1>2, <1>5, <1>7, <2>1
    <2> QED BY <1>2, <2>1, <2>2 DEF OneAtATime, ReplyInv, Frame
  <1>13. Unserved'
    <2> SUFFICES ASSUME NEW s \in Session, InQueue(backlog, s) \/ st[s] = "new"
                 PROVE  got[s] = <<>> /\ sent'[s] = Unread(s)'
      BY <1>2 DEF Unserved, InQueue
    <2>1. got[s] = <<>> /\ sent[s] = Unread(s)
      BY DEF ReplyInv, ClientInv, Unserved
    <2>2. sent[s] \in Int /\ sent'[s] \in Int /\ Unread(s) \in Int /\ Unread(s)' \in Int
      BY <1>1, <1>5, <1>6 DEF Unread
    <2> QED BY <1>8, <2>1, <2>2
  <1>14. Responses' /\ WholeBehind'
    BY <1>2, <1>10 DEF ReplyInv, ClientInv, Responses, WholeBehind
  <1>15. GotSoFar'
    <2>1. \A d \in Conn : Written(d)' = Written(d)
      BY <1>2 DEF Written
    <2> QED BY <1>2, <1>9, <2>1 DEF ReplyInv, ClientInv, GotSoFar
  <1>16. OwnRepliesInOrder'
    <2> SUFFICES ASSUME NEW s \in Session, NEW i \in DOMAIN got[s]
                 PROVE  /\ got[s][i] = <<s, ((i - 1) \div Chunks) + 1, ((i - 1) % Chunks) + 1>>
                        /\ i <= sent'[s] * Chunks
      BY <1>2 DEF OwnRepliesInOrder
    <2>1. /\ got[s][i] = <<s, ((i - 1) \div Chunks) + 1, ((i - 1) % Chunks) + 1>>
          /\ i <= sent[s] * Chunks
      BY DEF ReplyInv, ClientInv, OwnRepliesInOrder
    <2>2. i \in Int /\ sent[s] \in Nat /\ sent'[s] \in Nat /\ sent[s] <= sent'[s]
      BY <1>1, <1>3, <1>5, <1>6
    <2>3. sent[s] * Chunks <= sent'[s] * Chunks /\ sent[s] * Chunks \in Int /\ sent'[s] * Chunks \in Int
      BY <1>3, <2>2, TimesMonotone
    <2> QED BY <2>1, <2>2, <2>3
  <1> QED BY <1>11, <1>12, <1>13, <1>14, <1>15, <1>16 DEF ReplyInv, ClientInv

\* The requests in the two queues of the server connection wait for their answers.
LEMMA QueuesWait ==
    ASSUME TypeInv, PairInv
    PROVE  /\ \A i \in DOMAIN s_out : s_out[i] \in Req /\ Waiting(s_out[i])
           /\ \A i \in DOMAIN s_in : s_in[i] \in Req /\ Waiting(s_in[i])
  <1>1. s_in \in Seq(Req) /\ s_out \in Seq(Req)
    BY DEF TypeInv, TypeOK, ServerTypeOK
  <1>2. /\ \A i \in DOMAIN s_out : i \in DOMAIN InFlight /\ InFlight[i] = s_out[i]
        /\ \A i \in DOMAIN s_in : /\ i + Len(s_out) \in DOMAIN InFlight
                                  /\ InFlight[i + Len(s_out)] = s_in[i]
    BY <1>1, ConcatIndex DEF InFlight
  <1>3. /\ \A i \in DOMAIN s_out : s_out[i] \in Req
        /\ \A i \in DOMAIN s_in : s_in[i] \in Req
    BY <1>1
  <1>4. \A i \in DOMAIN InFlight : Waiting(InFlight[i])
    BY DEF PairInv, InFlightWaits
  <1>5. \A i \in DOMAIN s_out : Waiting(s_out[i])
    BY <1>2, <1>4
  <1>6. \A i \in DOMAIN s_in : Waiting(s_in[i])
    BY <1>2, <1>4
  <1> QED BY <1>3, <1>5, <1>6

\* A request that waits has a home.
LEMMA WaitingHome ==
    ASSUME TypeInv, FreeInv, NEW p, Waiting(p)
    PROVE  \E s, n : Home(p, s, n)
  <1>1. PICK c \in Conn : InQueue(cq[c], p)
    BY DEF Waiting
  <1>2. PICK i \in DOMAIN cq[c] : cq[c][i] = p
    BY <1>1 DEF InQueue
  <1>3. Home(p, sess[c], Number(c, i))
    BY <1>2 DEF Home
  <1> QED BY <1>3

\* What is written stays as it is while the outstanding requests keep their homes.
LEMMA KeepStreamOut ==
    ASSUME StreamOut, toSrv' = toSrv, Held' = Held,
           \A j \in 1..Held : \A s, n :
             Home(s_out[j + Replied], s, n)' => Home(s_out[j + Replied], s, n)
    PROVE  StreamOut'
  BY Zenon DEF StreamOut

\* A request that was unread and is now last in the out_q keeps its number.
LEMMA CountedOn ==
    ASSUME NEW t \in Int, NEW l \in Nat
    PROVE  (\A i \in Int : t - 0 - (l + 1) + i = t - 1 - l + i) /\ t - 0 - (l + 1) + (l + 1) = t
  OBVIOUS

\* requestForward: what one read returns is the one request of its client that was unread,
\* the newest one in every queue.
LEMMA ForwardReplyInv ==
    ASSUME TypeInv, PairInv, PoolInv, FreeInv, ReplyInv, "fill" \in Env => Chunks = 1,
           NEW c \in Conn, NEW full \in BOOLEAN, RecvData(c, full)
    PROVE  ReplyInv'
  <1>0. PICK p, s0, b : p = nreq + 1 /\ s0 = sess[c] /\ b = inbox[s0]
    OBVIOUS
  <1>1. /\ sent \in [Session -> 0..MaxSend] /\ inbox \in [Session -> Seq(Chunk)]
        /\ sess \in [Conn -> {0} \cup Session] /\ cq \in [Conn -> Seq(Req)]
        /\ req \in [Req -> Seq(Chunk)] /\ rsp \in [Req -> Seq(Chunk)]
        /\ s_in \in Seq(Req) /\ s_out \in Seq(Req) /\ nreq \in Int
        /\ \A q \in Req : q \in Int
    BY DEF TypeInv, TypeOK, ConnTypeOK, SocketTypeOK, ServerTypeOK, MsgTypeOK, Req
  <1>2. Chunks \in Nat /\ Chunks # 0 /\ 0 \notin Session
    BY BoundsAssumption DEF Session
  <1>3. s0 \in Session
    BY <1>0, HandlerSound DEF RecvData
  <1>4. p \in Req /\ p > nreq
    BY <1>0, <1>1, BoundsAssumption DEF RecvData, TypeInv, TypeOK, MsgTypeOK, Req
  <1>5. PICK n \in 1..Len(b) :
          /\ n = Len(b)
          /\ req' = [req EXCEPT ![p] = parse(b, n)]
          /\ cq' = [cq EXCEPT ![c] = Append(@, p)]
          /\ s_in' = Append(s_in, p)
          /\ inbox' = [inbox EXCEPT ![s0] = Unsent(@, n)]
    <2>1. PICK n \in 1..Len(b) :
            /\ n = Len(b) \/ "fill" \in Env
            /\ req' = [req EXCEPT ![p] = parse(b, n)]
            /\ cq' = [cq EXCEPT ![c] = Append(@, p)]
            /\ s_in' = Append(s_in, p)
            /\ inbox' = [inbox EXCEPT ![s0] = Unsent(@, n)]
      BY <1>0 DEF RecvData, requestForward
    <2>2. b # <<>>
      BY <1>0, <1>1, <1>3, <2>1
    <2>3. b = Frame(s0, sent[s0])
      BY <1>0, <1>3, <2>2 DEF ReplyInv, OneAtATime
    <2>4. Len(b) = Chunks
      BY <1>2, <2>3 DEF Frame
    <2>5. n = Len(b)
      BY <2>1, <2>4
    <2> QED BY <2>1, <2>5
  <1>6. UNCHANGED <<st, sent, got, backlog, srvSock, sess, s_out, rsp>>
    BY DEF RecvData
  <1>7. b \in Seq(Chunk) /\ b # <<>> /\ n \in Nat
    BY <1>0, <1>1, <1>3, <1>5
  <1>8. b = Frame(s0, sent[s0]) /\ s_in = <<>> /\ Len(b) = Chunks
    <2>1. b = Frame(s0, sent[s0]) /\ s_in = <<>>
      BY <1>0, <1>3, <1>7 DEF ReplyInv, OneAtATime
    <2>2. Len(Frame(s0, sent[s0])) = Chunks
      BY <1>2 DEF Frame
    <2> QED BY <2>1, <2>2
  <1>9. parse(b, n) = b /\ Unsent(b, n) = <<>>
    <2>1. SubSeq(b, 1, Len(b)) = b
      BY <1>7, SubSeqFull
    <2>2. Unsent(b, Len(b)) = <<>>
      <3>1. Len(b) \in Nat
        BY <1>7
      <3>2. Unsent(b, Len(b)) \in Seq(Chunk) /\ Len(Unsent(b, Len(b))) = 0
        BY <1>7, <3>1, UnsentProperties
      <3> QED BY <3>2, EmptySeq
    <2> QED BY <1>5, <2>1, <2>2 DEF parse
  <1>10. /\ inbox'[s0] = <<>> /\ \A s \in Session : s # s0 => inbox'[s] = inbox[s]
         /\ req'[p] = b /\ s_in' = <<p>>
    BY <1>0, <1>1, <1>3, <1>4, <1>5, <1>8, <1>9
  <1>11. /\ cq'[c] = Append(cq[c], p) /\ \A d \in Conn : d # c => cq'[d] = cq[d]
         /\ cq[c] \in Seq(Req)
    BY <1>1, <1>5
  <1>12. rsp[p] = <<>>
    BY <1>4 DEF PairInv, Fresh
  <1>13. \A d \in Conn : \A i \in DOMAIN cq[d] : cq[d][i] \in Req /\ cq[d][i] # p
    <2> SUFFICES ASSUME NEW d \in Conn, NEW i \in DOMAIN cq[d]
                 PROVE  cq[d][i] \in Req /\ cq[d][i] # p
      OBVIOUS
    <2>1. cq[d][i] \in Req /\ cq[d][i] <= nreq
      BY <1>1 DEF PairInv, OutQueues
    <2> QED BY <1>1, <1>4, <2>1
  <1>14. \A i \in DOMAIN s_out : s_out[i] # p
    <2> SUFFICES ASSUME NEW i \in DOMAIN s_out PROVE s_out[i] # p
      OBVIOUS
    <2>1. s_out[i] \in Req /\ s_out[i] <= nreq
      BY QueuesWait DEF Waiting
    <2> QED BY <1>1, <1>4, <2>1
  <1>15. /\ Len(Append(cq[c], p)) = Len(cq[c]) + 1 /\ Len(cq[c]) \in Nat
         /\ \A i \in DOMAIN Append(cq[c], p) :
                \/ (i \in DOMAIN cq[c] /\ Append(cq[c], p)[i] = cq[c][i])
                \/ (i = Len(cq[c]) + 1 /\ Append(cq[c], p)[i] = p)
    BY <1>4, <1>11, AppendElements
  <1>16. /\ \A i \in Int : Number(c, i)' = Number(c, i)
         /\ \A i : i = Len(cq[c]) + 1 => Number(c, i)' = sent[s0]
         /\ \A d \in Conn : d # c /\ sess[d] # 0 => \A i : Number(d, i)' = Number(d, i)
    <2>1. /\ Unread(s0) = 1 /\ Unread(s0)' = 0
          /\ \A s \in Session : s # s0 => Unread(s)' = Unread(s)
      BY <1>0, <1>7, <1>10 DEF Unread
    <2>2. \A i : Number(c, i)' = sent[s0] - 0 - (Len(cq[c]) + 1) + i
      BY <1>0, <1>6, <1>11, <1>15, <2>1 DEF Number
    <2>3. \A i : Number(c, i) = sent[s0] - 1 - Len(cq[c]) + i
      BY <1>0, <2>1 DEF Number
    <2>4. sent[s0] \in Int
      BY <1>1, <1>3
    <2>5. ASSUME NEW d \in Conn, d # c, sess[d] # 0, NEW i
          PROVE  Number(d, i)' = Number(d, i)
      <3>1. sess[d] \in Session /\ sess[d] # s0
        BY <1>0, <1>1, <2>5 DEF PoolInv, ConnPoolSound
      <3> QED BY <1>6, <1>11, <2>1, <2>5, <3>1 DEF Number
    <2>6. PICK l \in Nat, t \in Int : l = Len(cq[c]) /\ t = sent[s0]
      BY <1>15, <2>4
    <2>7. (\A i \in Int : t - 0 - (l + 1) + i = t - 1 - l + i) /\ t - 0 - (l + 1) + (l + 1) = t
      BY CountedOn
    <2>8. \A i \in Int : Number(c, i)' = Number(c, i)
      BY <2>2, <2>3, <2>6, <2>7
    <2>9. \A i : i = Len(cq[c]) + 1 => Number(c, i)' = sent[s0]
      BY <2>2, <2>6, <2>7
    <2> QED BY <2>5, <2>8, <2>9
  <1>17. \A q, s, m : Home(q, s, m)' =>
           Home(q, s, m) \/ (q = p /\ s = s0 /\ m = sent[s0])
    <2> SUFFICES ASSUME NEW q, NEW s, NEW m, Home(q, s, m)'
                 PROVE  Home(q, s, m) \/ (q = p /\ s = s0 /\ m = sent[s0])
      OBVIOUS
    <2>0. PICK d \in Conn : \E i \in DOMAIN cq'[d] :
            cq'[d][i] = q /\ sess'[d] = s /\ Number(d, i)' = m
      BY Zenon DEF Home
    <2>i. PICK i \in DOMAIN cq'[d] : cq'[d][i] = q /\ sess'[d] = s /\ Number(d, i)' = m
      BY <2>0
    <2>1. CASE d # c
      <3>1. cq'[d] = cq[d] /\ sess[d] # 0
        BY <1>11, <2>1 DEF FreeInv, OwnedQueues
      <3> QED BY <1>6, <1>16, <2>1, <2>i, <3>1 DEF Home
    <2>2. CASE d = c /\ i \in DOMAIN cq[c] /\ cq'[c][i] = cq[c][i]
      <3>1. i \in Int
        BY <1>11, <2>2
      <3> QED BY <1>6, <1>16, <2>2, <2>i, <3>1 DEF Home
    <2>3. CASE d = c /\ i = Len(cq[c]) + 1 /\ cq'[c][i] = p
      BY <1>0, <1>6, <1>16, <2>3, <2>i
    <2> QED BY <1>11, <1>15, <2>i, <2>1, <2>2, <2>3
  <1>18. \A q, s, m : q # p /\ Home(q, s, m)' => Home(q, s, m)
    BY <1>17
  <1>19. \A s, m : Home(p, s, m)' => s = s0 /\ m = sent[s0]
    <2>1. \A s, m : ~Home(p, s, m)
      BY <1>13 DEF Home
    <2> QED BY <1>17, <2>1
  <1>20. OneAtATime'
    <2>1. \A s \in Session : inbox'[s] = <<>>
      BY <1>0, <1>3, <1>7, <1>10 DEF ReplyInv, OneAtATime
    <2>2. Len(s_in') = 1
      BY <1>10
    <2> QED BY <2>1, <2>2 DEF OneAtATime
  <1>21. Unserved'
    <2> SUFFICES ASSUME NEW s \in Session, InQueue(backlog, s) \/ st[s] = "new"
                 PROVE  got[s] = <<>> /\ sent[s] = Unread(s)'
      BY <1>6 DEF Unserved, InQueue
    <2>1. s # s0
      BY <1>0, <1>2, <1>3 DEF PoolInv, QueueSound
    <2>2. got[s] = <<>> /\ sent[s] = Unread(s)
      BY DEF ReplyInv, ClientInv, Unserved
    <2> QED BY <1>10, <2>1, <2>2 DEF Unread
  <1>22. Responses'
    <2> SUFFICES ASSUME NEW q \in Req, NEW s, NEW m, Home(q, s, m)'
                 PROVE  Len(rsp[q]) <= Chunks /\ rsp[q] = Part(s, m, Len(rsp[q]))
      BY <1>6 DEF Responses, Part
    <2>1. CASE q # p
      BY <1>18, <2>1 DEF ReplyInv, ClientInv, Responses
    <2>2. CASE q = p
      BY <1>2, <1>12, <2>2 DEF Part
    <2> QED BY <2>1, <2>2
  <1>23. WholeBehind'
    <2> SUFFICES ASSUME NEW d \in Conn, NEW i \in DOMAIN cq'[d], i # 1
                 PROVE  Len(rsp[cq'[d][i]]) \in {0, Chunks}
      BY <1>6 DEF WholeBehind
    <2>1. cq'[d][i] = p \/ (i \in DOMAIN cq[d] /\ cq'[d][i] = cq[d][i])
      BY <1>11, <1>15
    <2> QED BY <1>12, <2>1 DEF ReplyInv, ClientInv, WholeBehind
  <1>24. GotSoFar'
    <2> SUFFICES ASSUME NEW d \in Conn, sess[d] # 0
                 PROVE  /\ Number(d, 0)' \in Nat
                        /\ Len(got[sess[d]]) = Number(d, 0)' * Chunks + Written(d)'
      BY <1>6 DEF GotSoFar
    <2>1. Number(d, 0)' = Number(d, 0)
      BY <1>16
    <2>2. Written(d)' = Written(d)
      <3>1. CASE d # c
        BY <1>6, <1>11, <3>1 DEF Written
      <3>2. CASE d = c /\ cq[c] = <<>>
        <4>1. Append(<<>>, p) = <<p>> /\ Head(<<p>>) = p
          OBVIOUS
        <4> QED BY <1>6, <1>11, <1>12, <3>2, <4>1 DEF Written
      <3>3. CASE d = c /\ cq[c] # <<>>
        <4>1. Append(cq[c], p) # <<>> /\ Head(Append(cq[c], p)) = Head(cq[c])
          BY <1>4, <1>11, <3>3
        <4> QED BY <1>6, <1>11, <3>3, <4>1 DEF Written
      <3> QED BY <3>1, <3>2, <3>3
    <2>3. Number(d, 0) \in Nat /\ Len(got[sess[d]]) = Number(d, 0) * Chunks + Written(d)
      BY DEF ReplyInv, ClientInv, GotSoFar
    <2> QED BY <2>1, <2>2, <2>3
  <1>25. OwnRepliesInOrder'
    BY <1>6 DEF ReplyInv, ClientInv, OwnRepliesInOrder
  <1>26. Requests'
    <2>1. Head(s_in') = p /\ Len(req'[p]) = Chunks
      BY <1>8, <1>10
    <2>2. Frame(s0, sent[s0]) = Part(s0, sent[s0], Chunks)
      BY <1>2 DEF Frame, Part
    <2>3. Chunks \in 1..Chunks
      BY <1>2
    <2>4. \A s, m : Home(p, s, m)' => req'[p] = Part(s, m, Len(req'[p]))
      BY <1>8, <1>10, <1>19, <2>1, <2>2
    <2> QED BY <2>1, <2>3, <2>4 DEF Requests
  <1>27. Replied' = Replied /\ Held' = Held /\ Begun = 0 /\ Begun' = 0
    <2>1. Head(s_in') = p /\ Len(req'[p]) = Chunks /\ s_in' # <<>>
      BY <1>8, <1>10
    <2> QED BY <1>2, <1>6, <1>8, <2>1 DEF Replied, Held, Begun, srvSock
  <1>28. ReplyWhole'
    <2> SUFFICES ASSUME srvInbox # <<>>
                 PROVE  s_out # <<>> /\ \A s, m : Home(s_out[1], s, m)' => srvInbox = Frame(s, m)
      BY <1>6 DEF ReplyWhole, srvSock, Frame
    <2>1. s_out # <<>> /\ \A s, m : Home(s_out[1], s, m) => srvInbox = Frame(s, m)
      BY DEF ReplyInv, ServerInv, ReplyWhole
    <2>2. 1 \in DOMAIN s_out
      BY <1>1, <2>1
    <2>3. PICK q : q = s_out[1]
      OBVIOUS
    <2>4. q # p
      BY <1>14, <2>2, <2>3
    <2>5. \A s, m : Home(q, s, m)' => srvInbox = Frame(s, m)
      BY <1>18, <2>1, <2>3, <2>4
    <2> QED BY <1>6, <2>1, <2>3, <2>5
  <1>29. StreamOut => StreamOut'
    <2>1. \A j \in 1..Held : j + Replied \in DOMAIN s_out
      BY <1>1 DEF Held, Replied
    <2>2. \A j \in 1..Held : \A s, m :
            Home(s_out[j + Replied], s, m)' => Home(s_out[j + Replied], s, m)
      <3> SUFFICES ASSUME NEW j \in 1..Held, NEW s, NEW m, Home(s_out[j + Replied], s, m)'
                   PROVE  Home(s_out[j + Replied], s, m)
        OBVIOUS
      <3>1. PICK q : q = s_out[j + Replied]
        OBVIOUS
      <3>2. q # p
        BY <1>14, <2>1, <3>1
      <3>3. Home(q, s, m)'
        BY <1>6, <1>27, <3>1
      <3> QED BY <1>18, <3>1, <3>2, <3>3
    <2>3. toSrv' = toSrv /\ Held' = Held
      BY <1>6, <1>27 DEF srvSock
    <2> QED BY <2>2, <2>3, KeepStreamOut
  <1>30. StreamIn'
    BY <1>27 DEF StreamIn
  <1>31. Stream'
    BY <1>6, <1>27, <1>29, <1>30 DEF ReplyInv, ServerInv, Stream, srvSock
  <1> QED BY <1>20, <1>21, <1>22, <1>23, <1>24, <1>25, <1>26, <1>28, <1>31
          DEF ReplyInv, ClientInv, ServerInv

------------------------------------------------------------------------------
\* What is left of the last chunks of a message after some of them went.
LEMMA PartCut ==
    ASSUME NEW s, NEW m, NEW q \in Seq(Chunk), q = Part(s, m, Len(q)), NEW n \in 0..Len(q)
    PROVE  /\ Len(Unsent(q, n)) = Len(q) - n
           /\ Unsent(q, n) = Part(s, m, Len(q) - n)
  <1>1. Len(q) \in Nat /\ n \in Nat /\ Chunks \in Nat
    BY BoundsAssumption
  <1> DEFINE u == Unsent(q, n)
             L == Len(q)
  <1>2. u \in Seq(Chunk) /\ Len(u) = L - n /\ \A i \in 1..(L - n) : u[i] = q[n + i]
    <2>1. /\ Unsent(q, n) \in Seq(Chunk)
          /\ Len(Unsent(q, n)) = IF n < Len(q) THEN Len(q) - n ELSE 0
          /\ \A i \in 1..(Len(q) - n) : Unsent(q, n)[i] = q[n + i]
      BY <1>1, UnsentProperties
    <2> QED BY <1>1, <2>1
  <1>3. L \in Nat /\ n <= L /\ \A i \in 1..L : q[i] = <<s, m, Chunks - L + i>>
    <2>1. \A i \in 1..L : Part(s, m, L)[i] = <<s, m, Chunks - L + i>>
      BY DEF Part
    <2>2. q = Part(s, m, L)
      OBVIOUS
    <2>3. \A i \in 1..L : q[i] = <<s, m, Chunks - L + i>>
      BY <2>1, <2>2, Zenon
    <2> QED BY <1>1, <2>3
  <1> HIDE DEF u, L
  <1>4. \A i \in 1..(L - n) : u[i] = <<s, m, Chunks - (L - n) + i>>
    <2> SUFFICES ASSUME NEW i \in 1..(L - n) PROVE u[i] = <<s, m, Chunks - (L - n) + i>>
      OBVIOUS
    <2>1. n + i \in 1..L /\ Chunks - L + (n + i) = Chunks - (L - n) + i
      BY <1>1, <1>3
    <2> QED BY <1>2, <1>3, <2>1
  <1>5. u = [k \in 1..(L - n) |-> <<s, m, Chunks - (L - n) + k>>]
    <2>1. PICK k0 : k0 = L - n
      OBVIOUS
    <2>2. u \in [1..k0 -> Chunk]
      BY <1>2, <2>1, LenProperties
    <2>3. \A k \in 1..k0 : u[k] = <<s, m, Chunks - k0 + k>>
      BY <1>4, <2>1
    <2>4. u = [k \in 1..k0 |-> <<s, m, Chunks - k0 + k>>]
      BY <2>2, <2>3
    <2> QED BY <2>1, <2>4
  <1> QED BY <1>2, <1>5 DEF Part, u, L

\* The request at the head of an out_q is in no other place of any out_q.
LEMMA HeadOnly ==
    ASSUME TypeInv, PairInv, FreeInv, NEW c \in Conn, cq[c] # <<>>
    PROVE  /\ Head(cq[c]) = cq[c][1] /\ 1 \in DOMAIN cq[c] /\ Head(cq[c]) \in Req
           /\ \A d \in Conn : \A i \in DOMAIN cq[d] :
                cq[d][i] \in Req /\ (cq[d][i] = Head(cq[c]) => d = c /\ i = 1)
  <1>1. cq \in [Conn -> Seq(Req)] /\ \A q \in Req : q \in Int
    BY DEF TypeInv, TypeOK, ConnTypeOK, Req
  <1>2. Head(cq[c]) = cq[c][1] /\ 1 \in DOMAIN cq[c] /\ Head(cq[c]) \in Req
    BY <1>1
  <1>3. ASSUME NEW d \in Conn, NEW i \in DOMAIN cq[d], cq[d][i] = cq[c][1]
        PROVE  d = c /\ i = 1
    <2>1. data[cq[d][i]] = d /\ data[cq[c][1]] = c
      BY <1>2 DEF FreeInv, Unfreed
    <2>2. d = c
      BY <1>3, <2>1
    <2>3. i \in Nat /\ 1 <= i
      BY <1>1
    <2>4. 1 < i => cq[c][1] < cq[c][i]
      BY <1>2, <2>2 DEF PairInv, OutQueues, Rising
    <2>5. ~(cq[c][1] < cq[c][i])
      BY <1>1, <1>2, <1>3, <2>2
    <2> QED BY <2>2, <2>3, <2>4, <2>5
  <1>4. \A d \in Conn : \A i \in DOMAIN cq[d] : cq[d][i] \in Req
    BY <1>1
  <1> QED BY <1>2, <1>3, <1>4

\* n chunks of the response p at the head go out to session s0, whose request number m
\* it answers.
Writes(c, p, s0, m, n) ==
    /\ cq[c] # <<>> /\ p = Head(cq[c]) /\ s0 = sess[c] /\ m = Number(c, 1)
    /\ n \in 1..Len(rsp[p]) /\ Len(rsp[p]) <= Chunks
    /\ rsp[p] = Part(s0, m, Len(rsp[p]))
    /\ got' = [got EXCEPT ![s0] = @ \o SubSeq(rsp[p], 1, n)]
    /\ rsp' = [rsp EXCEPT ![p] = Unsent(@, n)]
    /\ \/ n = Len(rsp[p]) /\ cq' = [cq EXCEPT ![c] = Tail(@)]
       \/ n < Len(rsp[p]) /\ cq' = cq
    /\ UNCHANGED <<st, inbox, sent, backlog, srvSock, sess, s_in, s_out, req>>

\* SendData in terms of the response at the head, of which n chunks go out.
LEMMA WriteForm ==
    ASSUME TypeInv, PairInv, FreeInv, ReplyInv, NEW c \in Conn, SendData(c)
    PROVE  \E p \in Req, s0 \in Session : \E m, n : Writes(c, p, s0, m, n)
  <1>1. cq[c] # <<>> /\ Head(cq[c]) \in Req /\ Head(cq[c]) = cq[c][1] /\ 1 \in DOMAIN cq[c]
    BY HeadOnly DEF SendData
  <1>p. PICK p \in Req : p = Head(cq[c])
    BY <1>1
  <1>2. PICK s0, m : p = Head(cq[c]) /\ s0 = sess[c] /\ m = Number(c, 1)
    BY <1>p
  <1>3. s0 \in Session
    BY <1>2, HandlerSound DEF SendData
  <1>4. PICK n \in 1..Len(rsp[p]) :
          /\ got' = [got EXCEPT ![s0] = @ \o SubSeq(rsp[p], 1, n)]
          /\ rsp' = [rsp EXCEPT ![p] = Unsent(@, n)]
          /\ IF n = Len(rsp[p]) THEN sendDone(c, p) ELSE UNCHANGED <<cq, freed, mbuf_pool>>
    BY <1>2 DEF SendData
  <1>5. rsp[p] \in Seq(Chunk)
    BY DEF TypeInv, TypeOK, MsgTypeOK
  <1>6. Home(p, s0, m)
    BY <1>1, <1>2 DEF Home
  <1>7. Len(rsp[p]) <= Chunks /\ rsp[p] = Part(s0, m, Len(rsp[p]))
    BY <1>6 DEF ReplyInv, ClientInv, Responses
  <1>8. \/ n = Len(rsp[p]) /\ cq' = [cq EXCEPT ![c] = Tail(@)]
        \/ n < Len(rsp[p]) /\ cq' = cq
    BY <1>4, <1>5 DEF sendDone
  <1>9. UNCHANGED <<st, inbox, sent, backlog, srvSock, sess, s_in, s_out, req>>
    BY DEF SendData, s_vars
  <1>10. Writes(c, p, s0, m, n)
    BY <1>1, <1>2, <1>4, <1>7, <1>8, <1>9 DEF Writes
  <1> QED BY <1>3, <1>10, Zenon

\* The chunks that a write adds continue what the client got.
LEMMA WrittenInOrder ==
    ASSUME TypeInv, FreeInv, ReplyInv, NEW c \in Conn, NEW s0 \in Session, s0 = sess[c],
           cq[c] # <<>>, NEW q \in Seq(Chunk), Len(q) <= Chunks, q = rsp[Head(cq[c])],
           q = Part(s0, Number(c, 1), Len(q)), NEW n \in 1..Len(q),
           got' = [got EXCEPT ![s0] = @ \o SubSeq(q, 1, n)], sent' = sent
    PROVE  /\ OwnRepliesInOrder'
           /\ Len(got'[s0]) = Len(got[s0]) + n
           /\ Number(c, 1) = Number(c, 0) + 1 /\ Number(c, 0) \in Nat
           /\ Len(got[s0]) = Number(c, 0) * Chunks + (Chunks - Len(q))
  <1>1. /\ sent[s0] \in Nat /\ got \in [Session -> Seq(Chunk)]
        /\ cq[c] \in Seq(Req) /\ sess[c] # 0
    <2>1. /\ sent \in [Session -> 0..MaxSend] /\ got \in [Session -> Seq(Chunk)]
          /\ cq[c] \in Seq(Req)
      BY DEF TypeInv, TypeOK, ConnTypeOK, SocketTypeOK
    <2>2. 0 \notin Session /\ MaxSend \in Nat
      BY BoundsAssumption DEF Session
    <2> QED BY <2>1, <2>2
  <1>2. Chunks \in Nat /\ Chunks # 0 /\ Len(q) \in Nat /\ n \in Nat /\ 1 <= n /\ n <= Len(q)
    BY BoundsAssumption
  <1>3. PICK a : a = Number(c, 0)
    OBVIOUS
  <1>4. /\ a \in Nat /\ Len(got[s0]) = a * Chunks + (Chunks - Len(q))
    <2>1. a \in Nat /\ Len(got[s0]) = a * Chunks + Written(c)
      BY <1>1, <1>3 DEF ReplyInv, ClientInv, GotSoFar
    <2>2. Written(c) = Chunks - Len(q)
      <3>1. q # <<>>
        BY <1>2
      <3> QED BY <3>1, Zenon DEF Written
    <2> QED BY <2>1, <2>2
  <1>5. Number(c, 1) = a + 1 /\ a + 1 <= sent[s0]
    <2>1. Unread(s0) \in {0, 1} /\ Len(cq[c]) \in Nat \ {0}
      BY <1>1 DEF Unread
    <2> QED BY <1>1, <1>3, <2>1 DEF Number
  <1>6. PICK L, g, w : L = Len(q) /\ g = got[s0] /\ w = SubSeq(q, 1, n)
    OBVIOUS
  <1>7. g \in Seq(Chunk) /\ w \in Seq(Chunk) /\ Len(w) = n /\ \A i \in 1..n : w[i] = q[i]
    <2>1. n \in 0..Len(q)
      BY <1>2
    <2> QED BY <1>1, <1>6, <2>1, PrefixProperties
  <1>8. got'[s0] = g \o w /\ \A s \in Session : s # s0 => got'[s] = got[s]
    BY <1>1, <1>6
  <1>9. Len(g \o w) = Len(g) + n
    BY <1>7
  <1>10. \A k \in 1..L : q[k] = <<s0, a + 1, Chunks - L + k>>
    <2>1. \A k \in 1..L : Part(s0, Number(c, 1), L)[k] = <<s0, Number(c, 1), Chunks - L + k>>
      BY DEF Part
    <2>2. q = Part(s0, Number(c, 1), L)
      BY <1>6
    <2> QED BY <1>5, <2>1, <2>2, Zenon
  <1>11. ASSUME NEW i \in DOMAIN g
         PROVE  /\ g[i] = <<s0, ((i - 1) \div Chunks) + 1, ((i - 1) % Chunks) + 1>>
                /\ i <= sent[s0] * Chunks
    BY <1>6 DEF ReplyInv, ClientInv, OwnRepliesInOrder
  <1>12. ASSUME NEW k \in 1..n, NEW i, i = Len(g) + k
         PROVE  /\ w[k] = <<s0, ((i - 1) \div Chunks) + 1, ((i - 1) % Chunks) + 1>>
                /\ i <= sent[s0] * Chunks
    <2>1. PICK b : b = Chunks - L + k - 1
      OBVIOUS
    <2>2. b \in 0..(Chunks - 1) /\ k \in 1..L /\ b + 1 = Chunks - L + k
      BY <1>2, <1>6, <2>1
    <2>3. a * Chunks \in Nat
      BY <1>2, <1>4
    <2>4. i - 1 = a * Chunks + b
      BY <1>2, <1>4, <1>6, <1>12, <2>1, <2>3
    <2>5. (a * Chunks + b) \div Chunks = a /\ (a * Chunks + b) % Chunks = b
      BY <1>2, <1>4, <2>2, ChunkPlace
    <2>6. w[k] = <<s0, a + 1, b + 1>>
      BY <1>7, <1>10, <2>2
    <2>7. (a + 1) * Chunks = a * Chunks + Chunks
      BY <1>2, <1>4
    <2>8. (a + 1) * Chunks <= sent[s0] * Chunks /\ sent[s0] * Chunks \in Nat
      <3>1. a + 1 \in Nat
        BY <1>4
      <3> QED BY <1>1, <1>2, <1>5, <3>1, TimesMonotone, Zenon
    <2>9. i \in Int /\ i <= a * Chunks + Chunks
      BY <1>2, <1>6, <1>4, <1>12, <2>2, <2>3, <2>4
    <2>10. i <= sent[s0] * Chunks
      BY <1>2, <2>3, <2>7, <2>8, <2>9
    <2> QED BY <2>4, <2>5, <2>6, <2>10
  <1>13. \A i \in DOMAIN (g \o w) :
           /\ (g \o w)[i] = <<s0, ((i - 1) \div Chunks) + 1, ((i - 1) % Chunks) + 1>>
           /\ i <= sent[s0] * Chunks
    <2> SUFFICES ASSUME NEW i \in DOMAIN (g \o w)
                 PROVE  /\ (g \o w)[i] = <<s0, ((i - 1) \div Chunks) + 1, ((i - 1) % Chunks) + 1>>
                        /\ i <= sent[s0] * Chunks
      OBVIOUS
    <2>1. \/ i \in DOMAIN g /\ (g \o w)[i] = g[i]
          \/ i - Len(g) \in DOMAIN w /\ (g \o w)[i] = w[i - Len(g)]
      BY <1>7, ConcatIndex
    <2>2. i \in Int /\ Len(g) \in Nat /\ DOMAIN w = 1..n
      BY <1>7, ConcatIndex
    <2>3. CASE i \in DOMAIN g /\ (g \o w)[i] = g[i]
      BY <1>11, <2>3, Zenon
    <2>4. CASE i - Len(g) \in DOMAIN w /\ (g \o w)[i] = w[i - Len(g)]
      <3>1. PICK k : k = i - Len(g)
        OBVIOUS
      <3>2. k \in 1..n /\ i = Len(g) + k /\ (g \o w)[i] = w[k]
        BY <2>2, <2>4, <3>1
      <3> QED BY <1>12, <3>2, Zenon
    <2> QED BY <2>1, <2>3, <2>4
  <1>14. OwnRepliesInOrder'
    <2> SUFFICES ASSUME NEW s \in Session, NEW i \in DOMAIN got'[s]
                 PROVE  /\ got'[s][i] = <<s, ((i - 1) \div Chunks) + 1, ((i - 1) % Chunks) + 1>>
                        /\ i <= sent[s] * Chunks
      BY DEF OwnRepliesInOrder
    <2>1. CASE s = s0
      BY <1>8, <1>13, <2>1, Zenon
    <2>2. CASE s # s0
      BY <1>8, <2>2 DEF ReplyInv, ClientInv, OwnRepliesInOrder
    <2> QED BY <2>1, <2>2
  <1>15. Len(got'[s0]) = Len(got[s0]) + n
    BY <1>6, <1>8, <1>9
  <1> QED BY <1>3, <1>4, <1>5, <1>14, <1>15

\* SendData: the client gets the next chunks of the reply to the request at the head.
LEMMA WriteReplyInv ==
    ASSUME TypeInv, PairInv, PoolInv, FreeInv, ReplyInv, NEW c \in Conn, SendData(c)
    PROVE  ReplyInv'
  <1>1. /\ sent \in [Session -> 0..MaxSend] /\ got \in [Session -> Seq(Chunk)]
        /\ sess \in [Conn -> {0} \cup Session] /\ cq \in [Conn -> Seq(Req)]
        /\ rsp \in [Req -> Seq(Chunk)]
    BY DEF TypeInv, TypeOK, ConnTypeOK, SocketTypeOK, MsgTypeOK
  <1>2. Chunks \in Nat /\ Chunks # 0 /\ 0 \notin Session
    BY BoundsAssumption DEF Session
  <1>p. PICK p \in Req, s0 \in Session : \E m, n : Writes(c, p, s0, m, n)
    BY WriteForm, Zenon
  <1>m. PICK m, n : Writes(c, p, s0, m, n)
    BY <1>p
  <1>3. /\ cq[c] # <<>> /\ p = Head(cq[c]) /\ s0 = sess[c] /\ m = Number(c, 1)
        /\ n \in 1..Len(rsp[p]) /\ Len(rsp[p]) <= Chunks
        /\ rsp[p] = Part(s0, m, Len(rsp[p]))
        /\ got' = [got EXCEPT ![s0] = @ \o SubSeq(rsp[p], 1, n)]
        /\ rsp' = [rsp EXCEPT ![p] = Unsent(@, n)]
        /\ \/ n = Len(rsp[p]) /\ cq' = [cq EXCEPT ![c] = Tail(@)]
           \/ n < Len(rsp[p]) /\ cq' = cq
        /\ UNCHANGED <<st, inbox, sent, backlog, srvSock, sess, s_in, s_out, req>>
    BY <1>m DEF Writes
  <1>4. PICK q \in Seq(Chunk), L \in Nat : q = rsp[p] /\ L = Len(q)
    BY <1>1
  <1>5. L <= Chunks /\ n \in Nat /\ 1 <= n /\ n <= L
    BY <1>3, <1>4
  <1>6. /\ OwnRepliesInOrder'
        /\ Len(got'[s0]) = Len(got[s0]) + n
        /\ m = Number(c, 0) + 1 /\ Number(c, 0) \in Nat
        /\ Len(got[s0]) = Number(c, 0) * Chunks + (Chunks - L)
    BY <1>3, <1>4, WrittenInOrder
  <1>7. /\ rsp'[p] = Unsent(q, n) /\ Len(Unsent(q, n)) = L - n
        /\ \A x \in Req : x # p => rsp'[x] = rsp[x]
        /\ \A s, k : q = Part(s, k, L) => Unsent(q, n) = Part(s, k, L - n)
    <2>1. n \in 0..Len(q)
      BY <1>4, <1>5
    <2>2. Len(Unsent(q, n)) = L - n /\ \A s, k : q = Part(s, k, L) => Unsent(q, n) = Part(s, k, L - n)
      BY <1>3, <1>4, <2>1, PartCut
    <2> QED BY <1>1, <1>3, <1>4, <2>2
  <1>8. /\ p = cq[c][1] /\ 1 \in DOMAIN cq[c]
        /\ \A d \in Conn : \A i \in DOMAIN cq[d] : cq[d][i] \in Req /\ (cq[d][i] = p => d = c /\ i = 1)
    BY <1>3, HeadOnly
  <1>9. \A d \in Conn : d # c => cq'[d] = cq[d] /\ Written(d)' = Written(d)
                                 /\ \A i : Number(d, i)' = Number(d, i)
    <2> SUFFICES ASSUME NEW d \in Conn, d # c
                 PROVE  cq'[d] = cq[d] /\ Written(d)' = Written(d)
                        /\ \A i : Number(d, i)' = Number(d, i)
      OBVIOUS
    <2>1. cq'[d] = cq[d]
      BY <1>1, <1>3
    <2>2. \A i : Number(d, i)' = Number(d, i)
      BY <1>3, <2>1 DEF Number, Unread
    <2>3. cq[d] # <<>> => rsp'[Head(cq[d])] = rsp[Head(cq[d])]
      <3> SUFFICES ASSUME cq[d] # <<>> PROVE rsp'[Head(cq[d])] = rsp[Head(cq[d])]
        OBVIOUS
      <3>1. 1 \in DOMAIN cq[d] /\ Head(cq[d]) = cq[d][1]
        BY <1>1
      <3> QED BY <1>7, <1>8, <3>1
    <2> QED BY <2>1, <2>2, <2>3 DEF Written
  <1>10. /\ \A i \in DOMAIN cq'[c] : \E j \in DOMAIN cq[c] :
              cq'[c][i] = cq[c][j] /\ Number(c, i)' = Number(c, j) /\ (i # 1 => j # 1)
         /\ Number(c, 0)' \in Nat /\ Len(got'[s0]) = Number(c, 0)' * Chunks + Written(c)'
    <2>1. CASE n < L
      <3>1. cq' = cq
        BY <1>3, <1>4, <2>1
      <3>2. \A i : Number(c, i)' = Number(c, i)
        BY <1>3, <3>1 DEF Number, Unread
      <3>3. Written(c)' = Chunks - (L - n)
        <4>1. rsp'[p] # <<>> /\ Len(rsp'[p]) = L - n
          BY <1>4, <1>5, <1>7, <2>1
        <4> QED BY <1>3, <3>1, <4>1 DEF Written
      <3>4. PICK a \in Nat, x \in Nat : a = Number(c, 0) /\ x = a * Chunks
        BY <1>2, <1>6
      <3>5. Len(got'[s0]) = x + (Chunks - (L - n))
        BY <1>2, <1>5, <1>6, <3>4
      <3>6. Len(got'[s0]) = Number(c, 0)' * Chunks + Written(c)' /\ Number(c, 0)' \in Nat
        BY <3>2, <3>3, <3>4, <3>5
      <3> QED BY <3>1, <3>2, <3>6
    <2>2. CASE n = L
      <3>1. cq'[c] = Tail(cq[c])
        BY <1>1, <1>3, <1>4, <2>2
      <3>2. /\ cq[c] \in Seq(Req) /\ Len(cq[c]) \in Nat \ {0} /\ DOMAIN cq[c] = 1..Len(cq[c])
            /\ Tail(cq[c]) \in Seq(Req) /\ Len(Tail(cq[c])) = Len(cq[c]) - 1
            /\ \A i \in DOMAIN Tail(cq[c]) : /\ i \in Nat /\ i + 1 \in DOMAIN cq[c] /\ i + 1 # 1
                                             /\ Tail(cq[c])[i] = cq[c][i + 1]
        BY <1>1, <1>3
      <3>3. \A i \in Int : Number(c, i)' = Number(c, i + 1)
        <4>1. PICK l \in Int, k \in Int : l = Len(cq[c]) /\ k = sent[s0] - Unread(s0)
          <5>1. sent[s0] \in Int /\ Unread(s0) \in Int
            BY <1>1, BoundsAssumption DEF Unread
          <5> QED BY <3>2, <5>1
        <4>2. Unread(s0)' = Unread(s0) /\ sent' = sent /\ sess' = sess /\ Len(cq'[c]) = l - 1
          BY <1>3, <3>1, <3>2, <4>1 DEF Unread
        <4>3. \A i : Number(c, i) = k - l + i
          BY <1>3, <4>1 DEF Number
        <4>4. \A i : Number(c, i)' = k - (l - 1) + i
          BY <1>3, <4>1, <4>2 DEF Number
        <4> QED BY <4>3, <4>4
      <3>4. Written(c)' = 0
        <4>1. CASE Tail(cq[c]) = <<>>
          BY <3>1, <4>1 DEF Written
        <4>2. CASE Tail(cq[c]) # <<>>
          <5>1. /\ 1 \in DOMAIN Tail(cq[c]) /\ Head(Tail(cq[c])) = Tail(cq[c])[1]
            BY <3>2, <4>2
          <5>2. PICK x : x = Tail(cq[c])[1]
            OBVIOUS
          <5>3. 2 \in DOMAIN cq[c] /\ x = cq[c][2]
            BY <3>2, <5>1, <5>2
          <5>4. x \in Req /\ x # p /\ Len(rsp[x]) \in {0, Chunks}
            BY <1>8, <5>3 DEF ReplyInv, ClientInv, WholeBehind
          <5>5. rsp'[x] = rsp[x] /\ (rsp[x] # <<>> => Len(rsp[x]) = Chunks)
            BY <1>1, <1>7, <5>4
          <5>6. Head(cq'[c]) = x /\ cq'[c] # <<>>
            BY <3>1, <4>2, <5>1, <5>2
          <5> QED BY <1>2, <5>5, <5>6 DEF Written
        <4> QED BY <4>1, <4>2
      <3>5. PICK a \in Nat, x \in Nat : a = Number(c, 0) /\ x = a * Chunks
        BY <1>2, <1>6
      <3>6. Number(c, 0)' = a + 1 /\ (a + 1) * Chunks = x + Chunks
        <4>1. 0 \in Int /\ 0 + 1 = 1
          OBVIOUS
        <4>2. Number(c, 0)' = Number(c, 1)
          BY <3>3, <4>1
        <4>3. (a + 1) * Chunks = a * Chunks + Chunks
          BY <1>2
        <4> QED BY <1>3, <1>6, <3>5, <4>2, <4>3
      <3>7. Len(got'[s0]) = x + Chunks
        BY <1>2, <1>5, <1>6, <2>2, <3>5
      <3>8. Number(c, 0)' \in Nat /\ Len(got'[s0]) = Number(c, 0)' * Chunks + Written(c)'
        BY <1>2, <3>4, <3>6, <3>7
      <3>9. ASSUME NEW i \in DOMAIN cq'[c]
            PROVE  \E j \in DOMAIN cq[c] :
                     cq'[c][i] = cq[c][j] /\ Number(c, i)' = Number(c, j) /\ (i # 1 => j # 1)
        <4>1. /\ i \in Int /\ i + 1 \in DOMAIN cq[c] /\ i + 1 # 1 /\ cq'[c][i] = cq[c][i + 1]
          BY <3>1, <3>2, <3>9
        <4> QED BY <3>3, <4>1
      <3> QED BY <3>8, <3>9
    <2> QED BY <1>5, <2>1, <2>2
  <1>11. \A d \in Conn : \A i \in DOMAIN cq'[d] : \E j \in DOMAIN cq[d] :
           cq'[d][i] = cq[d][j] /\ Number(d, i)' = Number(d, j) /\ (i # 1 => j # 1)
    BY <1>9, <1>10
  <1>12. \A x, s, k : Home(x, s, k)' => Home(x, s, k)
    <2>1. sess' = sess
      BY <1>3
    <2> QED BY <1>11, <2>1, HomeThrough
  <1>13. ServerInv' /\ OneAtATime'
    BY <1>3, <1>12, KeepServerInv DEF ReplyInv, OneAtATime, Frame
  <1>14. Unserved'
    <2> SUFFICES ASSUME NEW s \in Session, InQueue(backlog, s) \/ st[s] = "new"
                 PROVE  got'[s] = <<>> /\ sent[s] = Unread(s)
      BY <1>3 DEF Unserved, InQueue, Unread
    <2>1. s # s0
      BY <1>2, <1>3 DEF PoolInv, QueueSound
    <2>2. got'[s] = got[s]
      BY <1>1, <1>3, <2>1
    <2> QED BY <2>2 DEF ReplyInv, ClientInv, Unserved
  <1>15. Responses'
    <2> SUFFICES ASSUME NEW x \in Req, NEW s, NEW k, Home(x, s, k)'
                 PROVE  Len(rsp'[x]) <= Chunks /\ rsp'[x] = Part(s, k, Len(rsp'[x]))
      BY DEF Responses, Part
    <2>1. Len(rsp[x]) <= Chunks /\ rsp[x] = Part(s, k, Len(rsp[x]))
      BY <1>12 DEF ReplyInv, ClientInv, Responses
    <2>2. CASE x # p
      BY <1>7, <2>1, <2>2
    <2>3. CASE x = p
      <3>1. q = Part(s, k, L)
        BY <1>4, <2>1, <2>3
      <3>2. rsp'[p] = Part(s, k, L - n) /\ Len(rsp'[p]) = L - n
        BY <1>7, <3>1
      <3> QED BY <1>2, <1>5, <2>3, <3>2
    <2> QED BY <2>2, <2>3
  <1>16. WholeBehind'
    <2> SUFFICES ASSUME NEW d \in Conn, NEW i \in DOMAIN cq'[d], i # 1
                 PROVE  Len(rsp'[cq'[d][i]]) \in {0, Chunks}
      BY DEF WholeBehind
    <2>1. PICK j \in DOMAIN cq[d] : cq'[d][i] = cq[d][j] /\ j # 1
      BY <1>11
    <2>2. cq[d][j] \in Req /\ cq[d][j] # p /\ Len(rsp[cq[d][j]]) \in {0, Chunks}
      BY <1>8, <2>1 DEF ReplyInv, ClientInv, WholeBehind
    <2> QED BY <1>7, <2>1, <2>2
  <1>17. GotSoFar'
    <2> SUFFICES ASSUME NEW d \in Conn, sess[d] # 0
                 PROVE  /\ Number(d, 0)' \in Nat
                        /\ Len(got'[sess[d]]) = Number(d, 0)' * Chunks + Written(d)'
      BY <1>3 DEF GotSoFar
    <2>1. CASE d = c
      BY <1>3, <1>10, <2>1
    <2>2. CASE d # c
      <3>1. sess[d] # s0 /\ sess[d] \in Session
        BY <1>1, <1>3, <2>2 DEF PoolInv, ConnPoolSound
      <3>2. got'[sess[d]] = got[sess[d]]
        BY <1>1, <1>3, <3>1
      <3>3. Number(d, 0) \in Nat /\ Len(got[sess[d]]) = Number(d, 0) * Chunks + Written(d)
        BY DEF ReplyInv, ClientInv, GotSoFar
      <3> QED BY <1>9, <2>2, <3>2, <3>3
    <2> QED BY <2>1, <2>2
  <1> QED BY <1>6, <1>13, <1>14, <1>15, <1>16, <1>17 DEF ReplyInv, ClientInv

------------------------------------------------------------------------------
\* Requests keep their homes while no client and no out_q changes.
LEMMA SameHomes ==
    ASSUME UNCHANGED <<inbox, sent, sess, cq>>
    PROVE  /\ \A d, i : Number(d, i)' = Number(d, i)
           /\ \A p, s, n : Home(p, s, n)' <=> Home(p, s, n)
  <1>1. \A d, i : Number(d, i)' = Number(d, i)
    BY DEF Number, Unread
  <1> QED BY <1>1 DEF Home

\* What the server's inbox holds is one reply.
LEMMA ReplyLength ==
    ASSUME TypeInv, PairInv, FreeInv, ReplyInv, srvInbox # <<>>
    PROVE  Len(srvInbox) = Chunks
  <1>1. Chunks \in Nat
    BY BoundsAssumption
  <1>2. s_out # <<>> /\ \A s, k : Home(s_out[1], s, k) => srvInbox = Frame(s, k)
    BY DEF ReplyInv, ServerInv, ReplyWhole
  <1>3. 1 \in DOMAIN s_out
    BY <1>2 DEF TypeInv, TypeOK, ServerTypeOK
  <1>4. \E s, k : Home(s_out[1], s, k)
    BY <1>3, QueuesWait, WaitingHome
  <1>5. \A s, k : Len(Frame(s, k)) = Chunks
    BY <1>1 DEF Frame
  <1> QED BY <1>2, <1>4, <1>5

\* responseForward: the reply in the server's inbox is that to the oldest outstanding
\* request, whole.
LEMMA AnswerReplyInv ==
    ASSUME TypeInv, PairInv, FreeInv, ReplyInv, "fill" \in Env => Chunks = 1,
           NEW full \in BOOLEAN, SrvRecvData(full)
    PROVE  ReplyInv'
  <1>1. /\ rsp \in [Req -> Seq(Chunk)] /\ srvInbox \in Seq(Chunk) /\ s_out \in Seq(Req)
        /\ cq \in [Conn -> Seq(Req)]
    BY DEF TypeInv, TypeOK, MsgTypeOK, SocketTypeOK, ServerTypeOK, ConnTypeOK
  <1>2. Chunks \in Nat /\ Chunks # 0
    BY BoundsAssumption
  <1>3. /\ srvInbox # <<>> /\ Len(srvInbox) \in 1..Len(srvInbox)
        /\ s_out # <<>> => /\ s_out' = Tail(s_out)
                           /\ rsp' = [rsp EXCEPT ![Head(s_out)] = parse(srvInbox, Len(srvInbox))]
        /\ srvInbox' = Unsent(srvInbox, Len(srvInbox))
    <2>1. PICK n \in 1..Len(srvInbox) :
            /\ n = Len(srvInbox) \/ "fill" \in Env
            /\ s_out # <<>> => responseForward(parse(srvInbox, n), IF full THEN At(SrvRead) ELSE End(At(SrvRead)))
            /\ srvInbox' = Unsent(srvInbox, n)
      BY DEF SrvRecvData, responseFilter
    <2>2. Len(srvInbox) \in 1..Len(srvInbox)
      BY <2>1
    <2>3. srvInbox # <<>>
      BY <2>1
    <2>4. n = Len(srvInbox)
      BY <2>1, <2>3, ReplyLength
    <2> QED BY <2>1, <2>2, <2>3, <2>4 DEF responseForward
  <1>4. UNCHANGED <<st, inbox, sent, got, backlog, srvState, toSrv, sess, cq, s_in, req>>
    BY DEF SrvRecvData, peerVars, connVars
  <1>5. s_out # <<>> /\ \A s, k : Home(s_out[1], s, k) => srvInbox = Frame(s, k)
    BY <1>3 DEF ReplyInv, ServerInv, ReplyWhole
  <1>6. PICK p : p = s_out[1]
    OBVIOUS
  <1>7. p = Head(s_out) /\ 1 \in DOMAIN s_out /\ p \in Req
    BY <1>1, <1>5, <1>6
  <1>8. Waiting(p) /\ rsp[p] = <<>>
    BY <1>6, <1>7, QueuesWait DEF Waiting
  <1>9. srvInbox' = <<>> /\ parse(srvInbox, Len(srvInbox)) = srvInbox
    <2>1. Len(srvInbox) \in Nat
      BY <1>1
    <2>2. Unsent(srvInbox, Len(srvInbox)) \in Seq(Chunk) /\ Len(Unsent(srvInbox, Len(srvInbox))) = 0
      BY <1>1, <2>1, UnsentProperties
    <2>3. Unsent(srvInbox, Len(srvInbox)) = <<>>
      BY <2>2, EmptySeq
    <2> QED BY <1>1, <1>3, <2>3, SubSeqFull DEF parse
  <1>10. rsp'[p] = srvInbox /\ \A x \in Req : x # p => rsp'[x] = rsp[x]
    BY <1>1, <1>3, <1>5, <1>7, <1>9
  <1>11. Len(srvInbox) = Chunks /\ \A s, k : Home(p, s, k) => srvInbox = Part(s, k, Chunks)
    <2>1. \A s, k : Frame(s, k) = Part(s, k, Chunks) /\ Len(Frame(s, k)) = Chunks
      BY <1>2 DEF Frame, Part
    <2>2. \E s, k : Home(p, s, k)
      BY <1>8, WaitingHome
    <2> QED BY <1>5, <1>6, <2>1, <2>2
  <1>12. /\ \A d, i : Number(d, i)' = Number(d, i)
         /\ \A x, s, k : Home(x, s, k)' <=> Home(x, s, k)
    BY <1>4, SameHomes
  <1>13. OneAtATime' /\ OwnRepliesInOrder' /\ Unserved' /\ Requests'
    BY <1>4, <1>12 DEF ReplyInv, ClientInv, ServerInv, OneAtATime, OwnRepliesInOrder, Unserved,
                       Requests, Frame, Part, Unread, InQueue
  <1>14. Responses'
    <2> SUFFICES ASSUME NEW x \in Req, NEW s, NEW k, Home(x, s, k)
                 PROVE  Len(rsp'[x]) <= Chunks /\ rsp'[x] = Part(s, k, Len(rsp'[x]))
      BY <1>12 DEF Responses, Part
    <2>1. CASE x = p
      BY <1>2, <1>10, <1>11, <2>1
    <2>2. CASE x # p
      BY <1>10, <2>2 DEF ReplyInv, ClientInv, Responses
    <2> QED BY <2>1, <2>2
  <1>15. WholeBehind'
    <2> SUFFICES ASSUME NEW d \in Conn, NEW i \in DOMAIN cq[d], i # 1
                 PROVE  Len(rsp'[cq[d][i]]) \in {0, Chunks}
      BY <1>4 DEF WholeBehind
    <2>1. cq[d][i] \in Req /\ Len(rsp[cq[d][i]]) \in {0, Chunks}
      BY <1>1 DEF ReplyInv, ClientInv, WholeBehind
    <2> QED BY <1>10, <1>11, <2>1
  <1>16. GotSoFar'
    <2>1. ASSUME NEW d \in Conn PROVE Written(d)' = Written(d)
      <3>1. CASE cq[d] = <<>>
        BY <1>4, <3>1 DEF Written
      <3>2. CASE cq[d] # <<>> /\ Head(cq[d]) = p
        BY <1>2, <1>3, <1>4, <1>8, <1>10, <1>11, <3>2 DEF Written
      <3>3. CASE cq[d] # <<>> /\ Head(cq[d]) # p
        <4>1. Head(cq[d]) \in Req
          BY <1>1, <3>3
        <4> QED BY <1>4, <1>10, <3>3, <4>1 DEF Written
      <3> QED BY <3>1, <3>2, <3>3
    <2>2. \A d \in Conn : Number(d, 0)' = Number(d, 0)
      BY <1>12
    <2> QED BY <1>4, <2>1, <2>2 DEF ReplyInv, ClientInv, GotSoFar
  <1>17. ReplyWhole'
    BY <1>9 DEF ReplyWhole
  <1>18. /\ Replied = 1 /\ Replied' = 0 /\ Held' = Held /\ Begun' = Begun
         /\ \A j \in 1..Held : s_out'[j] = s_out[j + 1]
    <2>1. Replied = 1 /\ Replied' = 0
      BY <1>3, <1>9 DEF Replied
    <2>2. Len(Tail(s_out)) = Len(s_out) - 1 /\ \A j \in 1..(Len(s_out) - 1) : Tail(s_out)[j] = s_out[j + 1]
      BY <1>1, <1>5
    <2>3. Len(s_out) \in Nat
      BY <1>1
    <2>4. s_out' = Tail(s_out) /\ s_in' = s_in /\ req' = req
      BY <1>3, <1>4, <1>5
    <2>5. Held = Len(s_out) - 1 /\ Held' = (Len(s_out) - 1) - 0
      BY <2>1, <2>2, <2>4 DEF Held
    <2>6. Begun' = Begun
      BY <2>4 DEF Begun
    <2> QED BY <2>1, <2>2, <2>3, <2>4, <2>5, <2>6
  <1>19. StreamOut => StreamOut'
    <2> SUFFICES ASSUME NEW j \in 1..Held, NEW s, NEW m, Home(s_out[j + Replied], s, m)'
                 PROVE  Home(s_out[j + Replied], s, m)
      <3>1. toSrv' = toSrv /\ Held' = Held
        BY <1>4, <1>18
      <3> QED BY <3>1, KeepStreamOut
    <2>1. PICK x : x = s_out[j + 1]
      OBVIOUS
    <2>2. x = s_out'[j + Replied']
      <3>1. j + 0 = j
        BY <1>18
      <3> QED BY <1>18, <2>1, <3>1
    <2>3. Home(x, s, m)
      BY <1>12, <2>2
    <2> QED BY <1>18, <2>1, <2>3
  <1>20. StreamIn => StreamIn'
    <2>1. toSrv' = toSrv /\ s_in' = s_in
      BY <1>4
    <2> QED BY <1>12, <1>18, <2>1 DEF StreamIn
  <1>21. Stream'
    BY <1>4, <1>18, <1>19, <1>20 DEF ReplyInv, ServerInv, Stream
  <1> QED BY <1>13, <1>14, <1>15, <1>16, <1>17, <1>21 DEF ReplyInv, ClientInv, ServerInv

\* Where the chunks of whole messages stand in a stream.
LEMMA StreamPlace ==
    ASSUME NEW h \in Nat, NEW k \in Nat, NEW j \in 1..h, NEW i \in 1..k
    PROVE  (j - 1) * k + i \in 1..(h * k) /\ h * k \in Nat
  <1>1. j - 1 \in Nat /\ j \in Nat /\ j <= h /\ i <= k /\ 1 <= i /\ i \in Nat
    OBVIOUS
  <1>2. j * k <= h * k /\ j * k \in Nat /\ h * k \in Nat
    BY <1>1, TimesMonotone
  <1>3. (j - 1) * k \in Nat /\ (j - 1) * k + k = j * k
    BY <1>1
  <1> QED BY <1>1, <1>2, <1>3

\* The outstanding requests are at least as many as the replies in the server's inbox.
LEMMA HeldNat ==
    ASSUME TypeInv, ReplyInv
    PROVE  /\ Held \in Nat /\ Replied \in {0, 1} /\ Len(s_out) = Held + Replied
           /\ s_out \in Seq(Req) /\ DOMAIN s_out = 1..(Held + Replied)
           /\ \A j \in 1..Held : j + Replied \in DOMAIN s_out
  <1>1. s_out \in Seq(Req) /\ Len(s_out) \in Nat /\ DOMAIN s_out = 1..Len(s_out)
    BY DEF TypeInv, TypeOK, ServerTypeOK
  <1>2. srvInbox # <<>> => Len(s_out) # 0
    BY <1>1 DEF ReplyInv, ServerInv, ReplyWhole
  <1>3. Replied \in {0, 1} /\ (Replied = 1 => Len(s_out) # 0)
    BY <1>2 DEF Replied
  <1>4. Held \in Nat /\ Len(s_out) = Held + Replied
    BY <1>1, <1>3 DEF Held
  <1>5. DOMAIN s_out = 1..(Held + Replied)
    BY <1>1, <1>4
  <1>6. \A j \in 1..Held : j + Replied \in DOMAIN s_out
    BY <1>3, <1>4, <1>5
  <1> QED BY <1>1, <1>3, <1>4, <1>5, <1>6

\* With one request in in_q, sendChain writes n chunks of it and accounts for them.
LEMMA SendForm ==
    ASSUME TypeInv, ReplyInv, NEW more \in BOOLEAN, SrvSendData(more)
    PROVE  \E p \in Req, n \in Nat :
             /\ s_in = <<p>> /\ 1 <= n /\ n <= Len(req[p]) /\ Len(req[p]) \in 1..Chunks
             /\ \A s, m : Home(p, s, m) => req[p] = Part(s, m, Len(req[p]))
             /\ req' = [req EXCEPT ![p] = Unsent(@, n)]
             /\ toSrv' = IF srvState = "up" THEN toSrv \o SubSeq(req[p], 1, n) ELSE toSrv
             /\ \/ n < Len(req[p]) /\ s_in' = s_in /\ s_out' = s_out
                \/ n = Len(req[p]) /\ s_in' = <<>> /\ s_out' = Append(s_out, p)
  <1>1. s_in \in Seq(Req) /\ s_out \in Seq(Req) /\ req \in [Req -> Seq(Chunk)] /\ s_in # <<>>
    BY DEF TypeInv, TypeOK, ServerTypeOK, MsgTypeOK, SrvSendData
  <1>2. Len(s_in) = 1
    <2>1. Len(s_in) \in Nat /\ Len(s_in) # 0
      BY <1>1
    <2>2. Len(s_in) <= 1
      BY DEF ReplyInv, OneAtATime
    <2>3. \A l \in Nat : l # 0 /\ l <= 1 => l = 1
      OBVIOUS
    <2> QED BY <2>1, <2>2, <2>3, Zenon
  <1>3. PICK p \in Req : s_in = <<p>> /\ Head(s_in) = p
    <2>1. s_in[1] \in Req /\ Head(s_in) = s_in[1] /\ s_in = <<s_in[1]>>
      BY <1>1, <1>2
    <2> QED BY <2>1
  <1>4. PICK m, L : m = req[p] /\ L = Len(m)
    OBVIOUS
  <1>5. /\ m \in Seq(Chunk) /\ L \in 1..Chunks
        /\ \A s, k : Home(p, s, k) => m = Part(s, k, L)
    BY <1>1, <1>3, <1>4 DEF ReplyInv, ServerInv, Requests
  <1>6. Chunks \in Nat /\ L \in Nat /\ 1 <= L
    BY <1>5, BoundsAssumption
  <1>7. Iov = m
    <2>1. Iov = [i \in 1..(1 * L) |-> m[((i - 1) % L) + 1]]
      BY <1>2, <1>3, <1>4 DEF Iov
    <2>2. \A i \in 1..L : ((i - 1) % L) + 1 = i
      BY <1>6
    <2>3. 1 * L = L
      BY <1>6
    <2>4. m \in [1..L -> Chunk]
      BY <1>4, <1>5, LenProperties
    <2>5. Iov = [i \in 1..L |-> m[i]]
      BY <2>1, <2>2, <2>3
    <2> QED BY <2>4, <2>5
  <1>8. PICK n \in 1..L :
          /\ s_in' = Unsent(s_in, Completed(n))
          /\ s_out' = Outstanding(Completed(n))
          /\ req' = [q \in Req |->
                       IF q = p THEN Unsent(req[p], n)
                       ELSE IF Len(s_in) > 1 /\ q = s_in[2] /\ n - Len(req[p]) > 0
                            THEN Unsent(req[q], n - Len(req[p]))
                       ELSE req[q]]
          /\ toSrv' = IF srvState = "up" THEN toSrv \o SubSeq(m, 1, n) ELSE toSrv
    BY <1>3, <1>4, <1>7 DEF SrvSendData
  <1>9. req' = [req EXCEPT ![p] = Unsent(@, n)]
    <2>1. ~(Len(s_in) > 1)
      BY <1>2
    <2>2. req' = [q \in Req |-> IF q = p THEN Unsent(req[p], n) ELSE req[q]]
      BY <1>8, <2>1
    <2> QED BY <1>1, <2>2
  <1>10. n < L => s_in' = s_in /\ s_out' = s_out
    <2> SUFFICES ASSUME n < L PROVE s_in' = s_in /\ s_out' = s_out
      OBVIOUS
    <2>1. Completed(n) = 0
      BY <1>3, <1>4, <1>6 DEF Completed
    <2>2. SubSeq(s_in, 1, 0) = <<>> /\ s_out \o <<>> = s_out
      BY <1>1
    <2>3. Unsent(s_in, 0) = s_in
      <3>1. SubSeq(s_in, 0 + 1, Len(s_in)) = SubSeq(s_in, 1, Len(s_in))
        OBVIOUS
      <3> QED BY <1>1, <3>1, SubSeqFull DEF Unsent
    <2>4. s_in' = s_in /\ s_out' = s_out
      BY <1>8, <2>1, <2>2, <2>3 DEF Outstanding
    <2> QED BY <2>4
  <1>11. n = L => s_in' = <<>> /\ s_out' = Append(s_out, p)
    <2> SUFFICES ASSUME n = L PROVE s_in' = <<>> /\ s_out' = Append(s_out, p)
      OBVIOUS
    <2>1. Completed(n) = 1
      BY <1>2, <1>3, <1>4, <1>6 DEF Completed
    <2>2. SubSeq(s_in, 1, 1) = <<p>> /\ s_out \o <<p>> = Append(s_out, p)
      <3>1. SubSeq(s_in, 1, Len(s_in)) = s_in
        BY <1>1, SubSeqFull
      <3>2. s_out \o <<p>> = Append(s_out, p)
        BY <1>1, AppendIsConcat
      <3> QED BY <1>2, <1>3, <3>1, <3>2
    <2>3. Unsent(s_in, 1) = <<>>
      <3>1. Unsent(s_in, 1) \in Seq(Req) /\ Len(Unsent(s_in, 1)) = 0
        <4>1. 1 \in Nat /\ ~(1 < Len(s_in))
          BY <1>2
        <4> QED BY <1>1, <4>1, UnsentProperties
      <3> QED BY <3>1, EmptySeq
    <2>4. s_in' = <<>> /\ s_out' = Append(s_out, p)
      BY <1>8, <2>1, <2>2, <2>3 DEF Outstanding
    <2> QED BY <2>4
  <1>12. n \in Nat /\ 1 <= n /\ n <= L /\ (n < L \/ n = L)
    BY <1>6
  <1> QED BY <1>3, <1>4, <1>5, <1>8, <1>9, <1>10, <1>11, <1>12, Zenon

\* Stream t holds the outstanding requests that wait for a reply and e chunks of p.
StreamOf(t, p, e) ==
    /\ Len(t) = Held * Chunks + e
    /\ \A j \in 1..Held, k \in 1..Chunks : \A s, i :
         Home(s_out[j + Replied], s, i) => t[(j - 1) * Chunks + k] = <<s, i, k>>
    /\ \A k \in 1..e : \A s, i :
         Home(p, s, i) => t[Held * Chunks + k] = <<s, i, k>>

\* What a write to the server adds to the stream.
LEMMA StreamGrows ==
    ASSUME TypeInv, ReplyInv, NEW p \in Req, s_in = <<p>>, srvState = "up",
           NEW n \in 1..Len(req[p]), NEW t, t = toSrv \o SubSeq(req[p], 1, n)
    PROVE  StreamOf(t, p, Chunks - Len(req[p]) + n)
  <1>m. PICK m, L : m = req[p] /\ L = Len(m)
    OBVIOUS
  <1>0. /\ m \in Seq(Chunk) /\ L \in 1..Chunks /\ n \in 1..L /\ t = toSrv \o SubSeq(m, 1, n)
        /\ \A s, k : Home(p, s, k) => m = Part(s, k, L)
    <2>1. s_in # <<>> /\ Head(s_in) = p
      OBVIOUS
    <2>2. req[p] \in Seq(Chunk)
      BY DEF TypeInv, TypeOK, MsgTypeOK
    <2> QED BY <1>m, <2>1, <2>2 DEF ReplyInv, ServerInv, Requests
  <1>1. /\ toSrv \in Seq(Chunk) /\ Chunks \in Nat /\ L \in Nat /\ n \in Nat /\ 1 <= n
        /\ L <= Chunks /\ n <= L /\ 1 <= L
    <2>1. toSrv \in Seq(Chunk)
      BY DEF TypeInv, TypeOK, SocketTypeOK
    <2> QED BY <1>0, <2>1, BoundsAssumption
  <1>2. Held \in Nat
    BY HeldNat
  <1>h. PICK h \in Nat : h = Held * Chunks
    <2>1. Held * Chunks \in Nat
      BY <1>1, <1>2
    <2> QED BY <2>1, Zenon
  <1>3. PICK x : h = Held * Chunks /\ x = Len(toSrv)
    BY <1>h, Zenon
  <1>4. /\ x = h + (Chunks - L) /\ StreamOut /\ StreamIn /\ Begun = Chunks - L
    <2>1. Begun = Chunks - L
      <3>1. s_in # <<>> /\ Head(s_in) = p
        OBVIOUS
      <3> QED BY <1>m, <3>1 DEF Begun
    <2> QED BY <1>3, <2>1 DEF ReplyInv, ServerInv, Stream
  <1>5. PICK w : w = SubSeq(m, 1, n)
    OBVIOUS
  <1>6. w \in Seq(Chunk) /\ Len(w) = n /\ \A i \in 1..n : w[i] = m[i]
    <2>1. n \in 0..Len(m)
      BY <1>m, <1>1
    <2> QED BY <1>0, <1>5, <2>1, PrefixProperties
  <1>7. /\ t \in Seq(Chunk) /\ Len(t) = x + n /\ x \in Nat
        /\ \A i \in 1..x : t[i] = toSrv[i]
        /\ \A i \in 1..n : t[i + x] = w[i]
    <2>1. /\ t = toSrv \o w /\ DOMAIN toSrv = 1..x /\ DOMAIN w = 1..n /\ x \in Nat
      BY <1>0, <1>1, <1>3, <1>5, <1>6
    <2>2. /\ toSrv \o w \in Seq(Chunk) /\ Len(toSrv \o w) = Len(toSrv) + Len(w)
      BY <1>1, <1>6, ConcatProperties
    <2>3. /\ \A i \in DOMAIN toSrv : (toSrv \o w)[i] = toSrv[i]
          /\ \A i \in DOMAIN w : (toSrv \o w)[i + Len(toSrv)] = w[i]
      BY <1>1, <1>6, ConcatIndex
    <2> QED BY <1>3, <1>6, <2>1, <2>2, <2>3
  <1>8. Len(t) = Held * Chunks + (Chunks - L + n)
    BY <1>1, <1>3, <1>4, <1>7
  <1>9. ASSUME NEW j \in 1..Held, NEW k \in 1..Chunks, NEW s, NEW i, Home(s_out[j + Replied], s, i)
        PROVE  t[(j - 1) * Chunks + k] = <<s, i, k>>
    <2>1. PICK a : a = (j - 1) * Chunks + k
      OBVIOUS
    <2>2. a \in 1..h
      BY <1>1, <1>2, <1>3, <2>1, StreamPlace
    <2>3. a \in 1..x
      BY <1>1, <1>4, <2>2
    <2>4. toSrv[a] = <<s, i, k>>
      BY <1>4, <1>9, <2>1, Zenon DEF StreamOut
    <2> QED BY <1>7, <2>1, <2>3, <2>4
  <1>10. ASSUME NEW k \in 1..(Chunks - L + n), NEW s, NEW i, Home(p, s, i)
         PROVE  t[Held * Chunks + k] = <<s, i, k>>
    <2>f. PICK f \in Nat : f = Chunks - L
      <3>1. Chunks - L \in Nat
        BY <1>1
      <3> QED BY <3>1, Zenon
    <2>0. k \in Nat /\ 1 <= k /\ k <= f + n /\ x = h + f /\ Begun = f
      BY <1>1, <1>4, <2>f
    <2>1. CASE k <= f
      <3>1. k \in 1..Begun /\ h + k \in 1..x
        BY <2>0, <2>1
      <3>2. Head(s_in) = p
        OBVIOUS
      <3>3. toSrv[h + k] = <<s, i, k>>
        BY <1>3, <1>4, <1>10, <3>1, <3>2 DEF StreamIn
      <3> QED BY <1>3, <1>7, <3>1, <3>3
    <2>2. CASE k > f
      <3>1. PICK b : b = k - f
        OBVIOUS
      <3>2. b \in 1..n /\ b \in 1..L /\ b + x = h + k /\ Chunks - L + b = k
        <4>1. b \in Int /\ 1 <= b /\ b <= n /\ b + f = k
          BY <1>1, <2>0, <2>2, <3>1
        <4>2. b \in 1..n /\ b \in 1..L /\ b + x = h + k
          BY <1>1, <2>0, <4>1
        <4>3. Chunks - L + b = k
          BY <2>f, <4>1
        <4> QED BY <4>2, <4>3
      <3>3. m[b] = <<s, i, Chunks - L + b>>
        <4>1. m = Part(s, i, L)
          BY <1>0, <1>10
        <4>2. Part(s, i, L)[b] = <<s, i, Chunks - L + b>>
          BY <3>2 DEF Part
        <4> QED BY <4>1, <4>2, Zenon
      <3>4. t[b + x] = w[b] /\ w[b] = m[b]
        BY <1>6, <1>7, <3>2
      <3> QED BY <1>3, <3>2, <3>3, <3>4
    <2>3. k <= f \/ k > f
      BY <2>0
    <2> QED BY <2>1, <2>2, <2>3
  <1>11. StreamOf(t, p, Chunks - L + n)
    BY <1>8, <1>9, <1>10, Zenon DEF StreamOf
  <1> QED BY <1>m, <1>11

\* sendChain: the stream to the server goes on with the only request in in_q.
LEMMA SendReplyInv ==
    ASSUME TypeInv, PairInv, FreeInv, ReplyInv, NEW more \in BOOLEAN, SrvSendData(more)
    PROVE  ReplyInv'
  <1>1. s_out \in Seq(Req) /\ req \in [Req -> Seq(Chunk)] /\ Chunks \in Nat /\ Chunks # 0
    BY BoundsAssumption DEF TypeInv, TypeOK, ServerTypeOK, MsgTypeOK
  <1>2. PICK p \in Req, n \in Nat :
             /\ s_in = <<p>> /\ 1 <= n /\ n <= Len(req[p]) /\ Len(req[p]) \in 1..Chunks
             /\ \A s, m : Home(p, s, m) => req[p] = Part(s, m, Len(req[p]))
             /\ req' = [req EXCEPT ![p] = Unsent(@, n)]
             /\ toSrv' = IF srvState = "up" THEN toSrv \o SubSeq(req[p], 1, n) ELSE toSrv
             /\ \/ n < Len(req[p]) /\ s_in' = s_in /\ s_out' = s_out
                \/ n = Len(req[p]) /\ s_in' = <<>> /\ s_out' = Append(s_out, p)
    BY SendForm, Zenon
  <1>3. /\ UNCHANGED <<st, inbox, sent, got, backlog, srvState, srvInbox, sess, cq, rsp>>
        /\ srvState \in {"up", "fin"}
    BY DEF SrvSendData, peerVars, connVars
  <1>4. PICK m \in Seq(Chunk), L \in Nat : m = req[p] /\ L = Len(m)
    BY <1>1
  <1>5. 1 <= L /\ L <= Chunks /\ n <= L /\ n \in 1..L /\ n \in 0..Len(m)
    BY <1>1, <1>2, <1>4
  <1>6. /\ ClientInv' /\ \A x, s, i : Home(x, s, i)' <=> Home(x, s, i)
    BY <1>3, KeepClientInv DEF ReplyInv
  <1>7. OneAtATime'
    <2>1. s_in # <<>>
      BY <1>2
    <2>2. \A s \in Session : inbox'[s] = <<>>
      BY <1>3, <2>1 DEF ReplyInv, OneAtATime
    <2>3. Len(s_in') <= 1
      <3>1. Len(<<>>) <= 1 /\ Len(<<p>>) <= 1
        OBVIOUS
      <3>2. s_in' = <<>> \/ s_in' = <<p>>
        BY <1>2
      <3> QED BY <3>1, <3>2
    <2> QED BY <2>2, <2>3 DEF OneAtATime
  <1>8. /\ req'[p] = Unsent(m, n) /\ Len(Unsent(m, n)) = L - n
        /\ \A s, i : Home(p, s, i) => Unsent(m, n) = Part(s, i, L - n)
    <2>1. req'[p] = Unsent(m, n)
      BY <1>1, <1>2, <1>4
    <2>2. \A s, i : Home(p, s, i) => m = Part(s, i, Len(m))
      BY <1>2, <1>4
    <2>3. \A s, i : Home(p, s, i) => Unsent(m, n) = Part(s, i, L - n)
      BY <1>4, <1>5, <2>2, PartCut
    <2>4. Len(Unsent(m, n)) = L - n
      <3>1. Len(Unsent(m, n)) = IF n < Len(m) THEN Len(m) - n ELSE 0
        BY UnsentProperties
      <3> QED BY <1>4, <1>5, <3>1
    <2> QED BY <2>1, <2>3, <2>4
  <1>9. /\ Held \in Nat /\ Replied \in {0, 1} /\ Len(s_out) = Held + Replied
        /\ DOMAIN s_out = 1..(Held + Replied)
        /\ \A j \in 1..Held : j + Replied \in DOMAIN s_out
    BY HeldNat
  <1>10. Replied' = Replied
    BY <1>3 DEF Replied
  <1>11. \A i \in DOMAIN s_out : s_out'[i] = s_out[i]
    <2>1. s_out' = s_out \/ s_out' = Append(s_out, p)
      BY <1>2
    <2>2. \A i \in DOMAIN s_out : Append(s_out, p)[i] = s_out[i]
      BY <1>1, AppendElements
    <2> QED BY <2>1, <2>2
  <1>12. ReplyWhole'
    <2> SUFFICES ASSUME srvInbox # <<>>
                 PROVE  s_out' # <<>> /\ \A s, i : Home(s_out'[1], s, i) => srvInbox = Frame(s, i)
      BY <1>3, <1>6 DEF ReplyWhole, Frame
    <2>1. s_out # <<>> /\ \A s, i : Home(s_out[1], s, i) => srvInbox = Frame(s, i)
      BY DEF ReplyInv, ServerInv, ReplyWhole
    <2>2. 1 \in DOMAIN s_out /\ s_out' # <<>>
      BY <1>1, <1>2, <2>1
    <2> QED BY <1>11, <2>1, <2>2
  <1>13. Requests'
    <2>1. CASE n < L
      <3>1. s_in' # <<>> /\ Head(s_in') = p
        BY <1>2, <1>4, <2>1
      <3>2. Len(req'[p]) = L - n /\ L - n \in 1..Chunks
        BY <1>1, <1>5, <1>8, <2>1
      <3>3. \A s, i : Home(p, s, i)' => req'[p] = Part(s, i, Len(req'[p]))
        BY <1>6, <1>8, <3>2
      <3> QED BY <3>1, <3>2, <3>3 DEF Requests
    <2>2. CASE n = L
      BY <1>2, <1>4, <2>2 DEF Requests
    <2> QED BY <1>5, <2>1, <2>2
  <1>14. Stream'
    <2> SUFFICES ASSUME srvState = "up"
                 PROVE  Len(toSrv') = Held' * Chunks + Begun' /\ StreamOut' /\ StreamIn'
      BY <1>3 DEF Stream
    <2>1. StreamOf(toSrv', p, Chunks - L + n)
      <3>1. PICK t : t = toSrv'
        OBVIOUS
      <3>2. t = toSrv \o SubSeq(req[p], 1, n) /\ s_in = <<p>> /\ n \in 1..Len(req[p])
        BY <1>2, <3>1
      <3>3. StreamOf(t, p, Chunks - Len(req[p]) + n)
        BY <3>2, StreamGrows
      <3> QED BY <1>4, <3>1, <3>3
    <2>2. ASSUME NEW j \in 1..Held, NEW k \in 1..Chunks, NEW s, NEW i,
                 Home(s_out[j + Replied], s, i)'
          PROVE  toSrv'[(j - 1) * Chunks + k] = <<s, i, k>>
      <3>1. PICK x : x = s_out[j + Replied]
        OBVIOUS
      <3>2. s_out'[j + Replied'] = x
        BY <1>9, <1>10, <1>11, <3>1
      <3>3. Home(x, s, i)
        BY <1>6, <2>2, <3>2
      <3> QED BY <2>1, <3>1, <3>3, Zenon DEF StreamOf
    <2>3. PICK h \in Nat : h = Held
      BY <1>9
    <2>4. CASE n < L
      <3>1. s_in' = s_in /\ s_out' = s_out
        BY <1>2, <1>4, <2>4
      <3>2. Held' = h
        BY <1>10, <2>3, <3>1 DEF Held
      <3>3. PICK e \in Nat : e = Chunks - L + n
        <4>1. Chunks - L + n \in Nat
          BY <1>1, <1>5
        <4> QED BY <4>1, Zenon
      <3>4. Head(s_in') = p /\ s_in' # <<>> /\ Head(s_in) = p
        BY <1>2, <3>1
      <3>5. Begun' = e
        <4>1. Begun' = Chunks - (L - n)
          BY <1>8, <3>4 DEF Begun
        <4> QED BY <1>1, <1>5, <3>3, <4>1
      <3>6. Len(toSrv') = Held' * Chunks + Begun'
        <4>1. h * Chunks \in Nat
          BY <1>1
        <4> QED BY <2>1, <2>3, <3>2, <3>3, <3>5, <4>1 DEF StreamOf
      <3>7. StreamOut'
        BY <2>2, <2>3, <3>2, Zenon DEF StreamOut
      <3>8. StreamIn'
        <4>1. \A k \in 1..e : \A s, i : Home(p, s, i)' => toSrv'[h * Chunks + k] = <<s, i, k>>
          BY <1>6, <2>1, <2>3, <3>3, Zenon DEF StreamOf
        <4> QED BY <3>2, <3>4, <3>5, <4>1 DEF StreamIn
      <3> QED BY <3>6, <3>7, <3>8
    <2>5. CASE n = L
      <3>1. s_in' = <<>> /\ s_out' = Append(s_out, p)
        BY <1>2, <1>4, <2>5
      <3>2. Len(s_out') = Len(s_out) + 1 /\ s_out'[Len(s_out) + 1] = p
        BY <1>1, <3>1
      <3>3. Held' = h + 1 /\ Begun' = 0
        <4>1. Begun' = 0
          BY <3>1 DEF Begun
        <4>2. Held' = (Len(s_out) + 1) - Replied
          BY <1>10, <3>2 DEF Held
        <4> QED BY <1>9, <2>3, <4>1, <4>2
      <3>4. (h + 1) * Chunks = h * Chunks + Chunks /\ h * Chunks \in Nat
        BY <1>1
      <3>5. Len(toSrv') = Held' * Chunks + Begun'
        <4>1. Chunks - L + n = Chunks
          BY <1>1, <1>5, <2>5
        <4>2. (h + 1) * Chunks + 0 = h * Chunks + Chunks
          BY <1>1, <3>4
        <4> QED BY <2>1, <2>3, <3>3, <4>1, <4>2 DEF StreamOf
      <3>6. StreamIn'
        BY <3>3 DEF StreamIn
      <3>7. ASSUME NEW j \in 1..(h + 1), NEW k \in 1..Chunks, NEW s, NEW i,
                   Home(s_out[j + Replied], s, i)'
            PROVE  toSrv'[(j - 1) * Chunks + k] = <<s, i, k>>
        <4>1. CASE j \in 1..h
          BY <2>2, <2>3, <3>7, <4>1
        <4>2. CASE j = h + 1
          <5>1. s_out'[j + Replied'] = p
            BY <1>9, <1>10, <2>3, <3>2, <4>2
          <5>2. Home(p, s, i)
            BY <1>6, <3>7, <5>1
          <5>3. k \in 1..(Chunks - L + n)
            BY <1>1, <1>5, <2>5
          <5>4. j - 1 = Held
            BY <2>3, <4>2
          <5> QED BY <2>1, <5>2, <5>3, <5>4, Zenon DEF StreamOf
        <4> QED BY <4>1, <4>2
      <3>8. StreamOut'
        BY <3>3, <3>7, Zenon DEF StreamOut
      <3> QED BY <3>5, <3>6, <3>8
    <2> QED BY <1>5, <2>4, <2>5
  <1> QED BY <1>6, <1>7, <1>12, <1>13, <1>14 DEF ReplyInv, ServerInv

------------------------------------------------------------------------------
\* The request at the head of in_q is not written whole.
LEMMA BegunRange ==
    ASSUME TypeInv, ReplyInv
    PROVE  Begun \in Nat /\ Begun < Chunks
  <1>1. Chunks \in Nat /\ Chunks # 0
    BY BoundsAssumption
  <1>2. CASE s_in = <<>>
    BY <1>1, <1>2 DEF Begun
  <1>3. CASE s_in # <<>>
    <2>1. Len(req[Head(s_in)]) \in 1..Chunks /\ Begun = Chunks - Len(req[Head(s_in)])
      BY <1>3 DEF ReplyInv, ServerInv, Requests, Begun
    <2> QED BY <1>1, <2>1
  <1> QED BY <1>2, <1>3

\* The server finds the oldest request it has not answered at the front of its input.
LEMMA AnsweredForm ==
    ASSUME TypeInv, PairInv, FreeInv, ReplyInv, "burst" \notin Env, ServerReply
    PROVE  /\ srvState = "up" /\ srvInbox = <<>> /\ s_out # <<>> /\ Replied = 0 /\ Held = Len(s_out)
           /\ toSrv' = Unsent(toSrv, Chunks) /\ srvInbox' = SubSeq(toSrv, 1, Chunks)
           /\ srvInbox' # <<>>
           /\ \A s, m : Home(s_out[1], s, m) => srvInbox' = Frame(s, m)
  <1>1. /\ toSrv \in Seq(Chunk) /\ toSrv # <<>> /\ srvInbox = <<>> /\ srvState = "up"
        /\ s_in \in Seq(Req) /\ req \in [Req -> Seq(Chunk)]
        /\ Chunks \in Nat /\ Chunks # 0
    <2>1. toSrv \in Seq(Chunk) /\ s_in \in Seq(Req) /\ req \in [Req -> Seq(Chunk)]
      BY DEF TypeInv, TypeOK, SocketTypeOK, ServerTypeOK, MsgTypeOK
    <2>2. toSrv # <<>> /\ srvInbox = <<>> /\ srvState = "up"
      BY DEF ServerReply
    <2> QED BY <2>1, <2>2, BoundsAssumption
  <1>2. Replied = 0 /\ Held \in Nat /\ Held = Len(s_out) /\ s_out \in Seq(Req)
    <2>1. Replied = 0
      BY <1>1 DEF Replied
    <2>2. Held \in Nat /\ Len(s_out) = Held + Replied /\ s_out \in Seq(Req)
      BY HeldNat
    <2> QED BY <2>1, <2>2
  <1>3. Len(toSrv) = Held * Chunks + Begun /\ StreamOut /\ StreamIn
    BY <1>1 DEF ReplyInv, ServerInv, Stream
  <1>4. PICK h, f : h = Head(toSrv) /\ f = Frame(h[1], h[2])
    OBVIOUS
  <1>5. /\ h = toSrv[1]
        /\ \A k \in 1..Chunks : f[k] = <<h[1], h[2], k>>
        /\ f \in [1..Chunks -> {<<h[1], h[2], k>> : k \in 1..Chunks}]
        /\ Len(f) = Chunks
    BY <1>1, <1>4 DEF Frame
  <1>6. IF Len(toSrv) >= Chunks /\ SubSeq(toSrv, 1, Chunks) = f
        THEN toSrv' = Unsent(toSrv, Chunks) /\ srvInbox' = srvInbox \o f
        ELSE \E i \in 1..Len(toSrv) : i <= Chunks /\ toSrv[i] # f[i]
    BY <1>4 DEF ServerReply
  <1>7. s_out # <<>>
    <2> SUFFICES ASSUME s_out = <<>> PROVE FALSE
      OBVIOUS
    <2>1. Held = 0 /\ 0 * Chunks = 0
      BY <1>1, <1>2
    <2>2. Len(toSrv) \in Nat /\ Len(toSrv) # 0
      BY <1>1
    <2>3. s_in # <<>> /\ Begun = Len(toSrv)
      <3>1. Begun \in Int
        BY BegunRange
      <3>2. Begun = Len(toSrv)
        BY <1>3, <2>1, <3>1
      <3> QED BY <2>2, <3>2 DEF Begun
    <2>4. PICK p : p = Head(s_in) /\ p = s_in[1] /\ 1 \in DOMAIN s_in
      BY <1>1, <2>3
    <2>5. Begun < Chunks
      BY BegunRange
    <2>6. PICK s, m : Home(p, s, m)
      <3>1. Waiting(p)
        BY <2>4, QueuesWait
      <3> QED BY <3>1, WaitingHome
    <2>7. \A k \in 1..Begun : toSrv[k] = <<s, m, k>>
      <3>1. \A k \in 1..Begun : toSrv[Held * Chunks + k] = <<s, m, k>>
        BY <1>3, <2>4, <2>6, Zenon DEF StreamIn
      <3>2. \A k \in 1..Begun : Held * Chunks + k = k
        BY <2>1
      <3> QED BY <3>1, <3>2
    <2>8. h[1] = s /\ h[2] = m
      <3>1. 1 \in 1..Begun
        BY <2>2, <2>3
      <3> QED BY <1>5, <2>7, <3>1
    <2>9. PICK i \in 1..Len(toSrv) : i <= Chunks /\ toSrv[i] # f[i]
      BY <1>1, <1>6, <2>2, <2>3, <2>5
    <2>10. i \in 1..Chunks /\ i \in 1..Begun
      BY <1>1, <2>2, <2>3, <2>9
    <2> QED BY <1>5, <2>7, <2>8, <2>9, <2>10
  <1>8. /\ Len(toSrv) >= Chunks
        /\ \A s, m : Home(s_out[1], s, m) => \A k \in 1..Chunks : toSrv[k] = <<s, m, k>>
    <2>1. 1 \in 1..Held
      BY <1>2, <1>7
    <2>2. Len(toSrv) >= Chunks
      <3>1. PICK b, x : b = Begun /\ x = Held * Chunks
        OBVIOUS
      <3>2. b \in Nat
        BY <3>1, BegunRange
      <3>3. 1 \in Nat /\ 1 <= Held /\ 1 * Chunks = Chunks
        BY <1>1, <2>1
      <3>4. x \in Nat /\ Chunks <= x
        BY <1>1, <1>2, <3>1, <3>3, TimesMonotone
      <3> QED BY <1>1, <1>3, <3>1, <3>2, <3>4
    <2>3. ASSUME NEW s, NEW m, Home(s_out[1], s, m), NEW k \in 1..Chunks
          PROVE  toSrv[k] = <<s, m, k>>
      <3>1. s_out[1 + Replied] = s_out[1] /\ (1 - 1) * Chunks + k = k
        BY <1>1, <1>2
      <3>2. Home(s_out[1 + Replied], s, m)
        BY <2>3, <3>1
      <3>3. toSrv[(1 - 1) * Chunks + k] = <<s, m, k>>
        BY <1>3, <2>1, <3>2, Zenon DEF StreamOut
      <3> QED BY <3>1, <3>3
    <2> QED BY <2>2, <2>3
  <1>9. PICK w : w = SubSeq(toSrv, 1, Chunks)
    OBVIOUS
  <1>10. w \in [1..Chunks -> Chunk] /\ \A k \in 1..Chunks : w[k] = toSrv[k]
    <2>1. Chunks \in 0..Len(toSrv)
      BY <1>1, <1>8
    <2>2. w \in Seq(Chunk) /\ Len(w) = Chunks /\ \A k \in 1..Chunks : w[k] = toSrv[k]
      BY <1>1, <1>9, <2>1, PrefixProperties
    <2> QED BY <2>2, LenProperties
  <1>11. ASSUME NEW s, NEW m, Home(s_out[1], s, m) PROVE w = Frame(s, m)
    <2>1. \A k \in 1..Chunks : w[k] = <<s, m, k>>
      BY <1>8, <1>10, <1>11
    <2> QED BY <1>10, <2>1 DEF Frame
  <1>12. PICK s, m : Home(s_out[1], s, m)
    <2>1. 1 \in DOMAIN s_out
      BY <1>2, <1>7
    <2>2. Waiting(s_out[1])
      BY <2>1, QueuesWait
    <2> QED BY <2>2, WaitingHome
  <1>13. f = w
    <2>1. w = Frame(s, m)
      BY <1>11, <1>12
    <2>2. h = <<s, m, 1>>
      <3>1. 1 \in 1..Chunks
        BY <1>1
      <3> QED BY <1>5, <1>8, <1>12, <3>1
    <2>3. h[1] = s /\ h[2] = m
      BY <2>2
    <2> QED BY <1>4, <2>1, <2>3
  <1>14. toSrv' = Unsent(toSrv, Chunks) /\ srvInbox' = <<>> \o w
    BY <1>1, <1>6, <1>8, <1>9, <1>13
  <1>15. <<>> \o w = w /\ w # <<>>
    <2>1. w \in Seq(Chunk) /\ Len(w) = Chunks
      BY <1>1, <1>10
    <2>2. <<>> \o w = w
      BY <2>1, ConcatEmptySeq
    <2>3. w # <<>>
      BY <1>1, <2>1
    <2> QED BY <2>2, <2>3
  <1> QED BY <1>1, <1>2, <1>7, <1>9, <1>11, <1>14, <1>15

\* The server answers: the reply to the oldest outstanding request is in its inbox.
LEMMA ServerReplyInv ==
    ASSUME TypeInv, PairInv, FreeInv, ReplyInv, "burst" \notin Env, ServerReply
    PROVE  ReplyInv'
  <1>1. /\ srvState = "up" /\ srvInbox = <<>> /\ s_out # <<>> /\ Replied = 0 /\ Held = Len(s_out)
        /\ toSrv' = Unsent(toSrv, Chunks) /\ srvInbox' = SubSeq(toSrv, 1, Chunks)
        /\ srvInbox' # <<>>
        /\ \A s, m : Home(s_out[1], s, m) => srvInbox' = Frame(s, m)
    BY AnsweredForm
  <1>2. UNCHANGED <<st, inbox, sent, got, backlog, srvState, sess, cq, rsp, s_in, s_out, req>>
    BY DEF ServerReply, peerVars, proxyVars, connVars, s_vars, msgVars
  <1>3. /\ toSrv \in Seq(Chunk) /\ Chunks \in Nat /\ Held \in Nat /\ Held >= 1
    <2>1. toSrv \in Seq(Chunk) /\ s_out \in Seq(Req)
      BY DEF TypeInv, TypeOK, SocketTypeOK, ServerTypeOK
    <2>2. Len(s_out) \in Nat /\ Len(s_out) # 0
      BY <1>1, <2>1
    <2> QED BY <1>1, <2>1, <2>2, BoundsAssumption
  <1>4. ClientInv' /\ \A x, s, i : Home(x, s, i)' <=> Home(x, s, i)
    BY <1>2, KeepClientInv DEF ReplyInv
  <1>5. OneAtATime' /\ Requests'
    BY <1>2, <1>4 DEF ReplyInv, ServerInv, OneAtATime, Requests, Frame, Part
  <1>6. ReplyWhole'
    BY <1>1, <1>2, <1>4 DEF ReplyWhole, Frame
  <1>7. PICK h \in Nat : h = Held - 1
    <2>1. Held - 1 \in Nat
      BY <1>3
    <2> QED BY <2>1, Zenon
  <1>8. Replied' = 1 /\ Held' = h /\ Begun' = Begun /\ Held = h + 1
    <2>1. Replied' = 1
      BY <1>1 DEF Replied
    <2>2. Begun' = Begun
      BY <1>2 DEF Begun
    <2>3. Held' = Held - 1
      BY <1>1, <1>2, <2>1 DEF Held
    <2> QED BY <1>3, <1>7, <2>1, <2>2, <2>3
  <1>9. Len(toSrv) = Held * Chunks + Begun /\ StreamOut /\ StreamIn /\ Begun \in Nat
    BY <1>1, BegunRange DEF ReplyInv, ServerInv, Stream
  <1>10. Held * Chunks = h * Chunks + Chunks /\ h * Chunks \in Nat
    <2>1. (h + 1) * Chunks = h * Chunks + Chunks /\ h * Chunks \in Nat
      BY <1>3
    <2> QED BY <1>8, <2>1
  <1>11. /\ Len(toSrv') = h * Chunks + Begun
         /\ \A i \in 1..(h * Chunks + Begun) : toSrv'[i] = toSrv[Chunks + i]
    <2>0. PICK x \in Nat, b \in Nat : x = h * Chunks /\ b = Begun
      BY <1>9, <1>10
    <2>1. PICK l : x = h * Chunks /\ b = Begun /\ l = Len(toSrv)
      BY <2>0, Zenon
    <2>2. l = x + Chunks + b
      BY <1>3, <1>9, <1>10, <2>1
    <2>3. /\ Len(toSrv') = IF Chunks < l THEN l - Chunks ELSE 0
          /\ \A i \in 1..(l - Chunks) : toSrv'[i] = toSrv[Chunks + i]
      BY <1>1, <1>3, <2>1, UnsentProperties
    <2>4. l - Chunks = x + b /\ (~(Chunks < l) => x + b = 0)
      BY <1>3, <2>1, <2>2
    <2> QED BY <2>1, <2>3, <2>4
  <1>12. StreamOut'
    <2>0. ASSUME NEW j \in 1..h, NEW k \in 1..Chunks, NEW s, NEW m, Home(s_out[j + Replied], s, m)'
          PROVE  toSrv'[(j - 1) * Chunks + k] = <<s, m, k>>
      <3>0. Home(s_out[j + 1], s, m)
        <4>1. PICK x : x = s_out[j + 1]
          OBVIOUS
        <4>2. Home(x, s, m)'
          BY <1>2, <1>8, <2>0, <4>1
        <4> QED BY <1>4, <4>1, <4>2
      <3>1. PICK a : a = (j - 1) * Chunks + k
        OBVIOUS
      <3>2. a \in 1..(h * Chunks)
        BY <1>3, <3>1, StreamPlace
      <3>3. Chunks + a = ((j + 1) - 1) * Chunks + k
        <4>1. ((j + 1) - 1) * Chunks = (j - 1) * Chunks + Chunks /\ (j - 1) * Chunks \in Int
          BY <1>3
        <4> QED BY <1>3, <3>1, <4>1
      <3>4. j + 1 \in 1..Held /\ (j + 1) + Replied = j + 1
        BY <1>1, <1>8
      <3>5. Home(s_out[(j + 1) + Replied], s, m)
        BY <3>0, <3>4
      <3>6. toSrv[((j + 1) - 1) * Chunks + k] = <<s, m, k>>
        BY <1>9, <3>4, <3>5, Zenon DEF StreamOut
      <3>7. a \in 1..(h * Chunks + Begun)
        BY <1>9, <1>10, <3>2
      <3> QED BY <1>11, <3>1, <3>3, <3>6, <3>7
    <2> QED BY <1>8, <2>0, Zenon DEF StreamOut
  <1>13. StreamIn'
    <2> SUFFICES ASSUME NEW k \in 1..Begun, NEW s, NEW m, Home(Head(s_in), s, m)
                 PROVE  toSrv'[h * Chunks + k] = <<s, m, k>>
      <3>1. ASSUME NEW s, NEW m, Home(Head(s_in), s, m)'
            PROVE  Home(Head(s_in), s, m)
        <4>1. PICK x : x = Head(s_in)
          OBVIOUS
        <4>2. Home(x, s, m)'
          BY <1>2, <3>1, <4>1
        <4> QED BY <1>4, <4>1, <4>2
      <3> QED BY <1>8, <3>1, Zenon DEF StreamIn
    <2>1. h * Chunks + k \in 1..(h * Chunks + Begun) /\ Chunks + (h * Chunks + k) = Held * Chunks + k
      BY <1>3, <1>9, <1>10
    <2>2. toSrv[Held * Chunks + k] = <<s, m, k>>
      BY <1>9, Zenon DEF StreamIn
    <2> QED BY <1>11, <2>1, <2>2
  <1>14. Stream'
    BY <1>8, <1>11, <1>12, <1>13 DEF Stream
  <1> QED BY <1>4, <1>5, <1>6, <1>14 DEF ReplyInv, ServerInv

\* The connection to the server comes up, or ends.  What it sent before is still read;
\* what was written to it is lost, and nothing is said of it any more.
LEMMA ServerLifeReplyInv ==
    ASSUME TypeInv, ReplyInv, ServerAccept \/ ServerFin \/ ServerReset
    PROVE  ReplyInv'
  <1>1. UNCHANGED <<st, inbox, sent, got, backlog, srvInbox, sess, cq, rsp, s_in, s_out, req>>
    BY DEF ServerAccept, ServerFin, ServerReset, peerVars, proxyVars, connVars, s_vars, msgVars
  <1>2. ClientInv' /\ \A x, s, i : Home(x, s, i)' <=> Home(x, s, i)
    BY <1>1, KeepClientInv DEF ReplyInv
  <1>3. OneAtATime' /\ Requests'
    BY <1>1, <1>2 DEF ReplyInv, ServerInv, OneAtATime, Requests, Frame, Part
  <1>4. ReplyWhole'
    BY <1>1, <1>2 DEF ReplyInv, ServerInv, ReplyWhole, Frame
  <1>5. Replied' = Replied /\ Begun' = Begun /\ Held' = Held
    BY <1>1 DEF Replied, Begun, Held
  <1>6. Stream'
    <2>1. CASE ServerFin \/ ServerReset
      BY <2>1 DEF ServerFin, ServerReset, Stream
    <2>2. CASE ServerAccept
      <3>1. srvState = "connecting" /\ toSrv' = toSrv
        BY <2>2 DEF ServerAccept
      <3>2. Len(toSrv) = Held * Chunks + Begun /\ StreamOut /\ StreamIn
        BY <3>1 DEF ReplyInv, ServerInv, Stream
      <3>3. \A j \in 1..Held : \A s, n :
              Home(s_out[j + Replied], s, n)' => Home(s_out[j + Replied], s, n)
        BY <1>1, <1>2, <1>5
      <3>4. StreamOut'
        BY <1>5, <3>1, <3>2, <3>3, KeepStreamOut
      <3>5. \A s, n : Home(Head(s_in), s, n)' => Home(Head(s_in), s, n)
        BY <1>1, <1>2
      <3>6. StreamIn'
        BY <1>5, <3>1, <3>2, <3>5, Zenon DEF StreamIn
      <3> QED BY <1>5, <3>1, <3>2, <3>4, <3>6 DEF Stream
    <2> QED BY <2>1, <2>2
  <1> QED BY <1>2, <1>3, <1>4, <1>6 DEF ReplyInv, ServerInv

\* The listen queue goes with the listener.
LEMMA AcceptErrorReplyInv ==
    ASSUME TypeInv, ReplyInv, AcceptError
    PROVE  ReplyInv'
  <1>1. /\ st' = [s \in Session |-> IF \E i \in DOMAIN backlog : backlog[i] = s
                                     THEN "closed" ELSE st[s]]
        /\ backlog' = <<>>
        /\ UNCHANGED <<inbox, sent, got, srvSock, sess, cq, s_in, s_out, req, rsp>>
    BY DEF AcceptError, connVars, s_vars, msgVars
  <1>2. \A c, i : Number(c, i)' = Number(c, i) /\ Written(c)' = Written(c)
    BY <1>1 DEF Number, Unread, Written
  <1>3. \A p, s, n : Home(p, s, n)' <=> Home(p, s, n)
    BY <1>1, SameHomes
  <1>4. ServerInv'
    BY <1>1, <1>3, KeepServerInv DEF ReplyInv
  <1>5. OneAtATime' /\ WholeBehind' /\ OwnRepliesInOrder'
    BY <1>1 DEF ReplyInv, OneAtATime, Frame, ClientInv, WholeBehind, OwnRepliesInOrder
  <1>6. Responses' /\ GotSoFar'
    BY <1>1, <1>2, <1>3 DEF ReplyInv, ClientInv, Responses, GotSoFar
  <1>7. Unserved'
    <2>1. \A s \in Session : st'[s] = "new" => st[s] = "new"
      BY <1>1
    <2>2. \A s : ~InQueue(backlog', s)
      BY <1>1 DEF InQueue
    <2>3. \A s : Unread(s)' = Unread(s)
      BY <1>1 DEF Unread
    <2> QED BY <1>1, <2>1, <2>2, <2>3 DEF ReplyInv, ClientInv, Unserved
  <1> QED BY <1>4, <1>5, <1>6, <1>7 DEF ReplyInv, ClientInv

\* Every step keeps ReplyInv while the peers are calm.
LEMMA NextReplyInv ==
    ASSUME Calm
    PROVE  TypeInv /\ PairInv /\ PoolInv /\ FreeInv /\ ReplyInv /\ [Next]_vars => ReplyInv'
  <1> SUFFICES ASSUME TypeInv, PairInv, PoolInv, FreeInv, ReplyInv, [Next]_vars PROVE ReplyInv'
    OBVIOUS
  <1>a. NoReset /\ st \in [Session -> SessionState]
    BY DEF FreeInv, TypeInv, TypeOK, SocketTypeOK
  <1>b. /\ "reset" \notin Env /\ "burst" \notin Env /\ "stray" \notin Env
        /\ ("fill" \in Env => Chunks = 1)
    BY DEF Calm
  <1>c. ASSUME UNCHANGED replyVars PROVE ReplyInv'
    <2>1. UNCHANGED <<st, inbox, sent, got, backlog, srvSock, sess, cq, s_in, s_out, req, rsp>>
      BY <1>c DEF replyVars, msgVars
    <2> QED BY <2>1, OtherReplyInv
  <1>1. ASSUME NEW c \in Conn, ClientStep(c) PROVE ReplyInv'
    <2>1. CASE cq[c] = <<>> /\ sess[c] \in Session /\ \E e0, pool : close(c, e0, pool)
      BY <2>1, CloseReplyInv
    <2>2. CASE \E full \in BOOLEAN : RecvData(c, full)
      BY <1>b, <2>2, ForwardReplyInv
    <2>3. CASE SendData(c)
      BY <2>3, WriteReplyInv
    <2> QED BY <1>1, <1>a, <1>c, <2>1, <2>2, <2>3, ClientCases
  <1>2. CASE \/ ServerStep \/ ProxyStep \/ PeerStep \/ Wait
             \/ (\E c \in Fd : StaleCallback(c)) \/ UNCHANGED vars
    <2>1. CASE \E full \in BOOLEAN : SrvRecvData(full)
      BY <1>b, <2>1, AnswerReplyInv
    <2>2. CASE \E more \in BOOLEAN : SrvSendData(more)
      BY <2>2, SendReplyInv
    <2>3. CASE \E c \in Conn : AcceptConn(c)
      BY <2>3, AcceptReplyInv
    <2>4. CASE AcceptError
      BY <2>4, AcceptErrorReplyInv
    <2>5. ASSUME NEW s \in Session, ClientConnect(s) \/ ClientSend(s) \/ ClientFin(s) PROVE ReplyInv'
      <3>1. CASE ClientFin(s)
        <4>1. /\ st' = [st EXCEPT ![s] = "fin"]
              /\ UNCHANGED <<inbox, sent, got, backlog, srvSock, sess, cq, s_in, s_out, req, rsp>>
          BY <3>1 DEF ClientFin, proxyVars, connVars, s_vars, msgVars
        <4>2. \A t \in Session : st'[t] = "new" => st[t] = "new"
          BY <1>a, <4>1
        <4> QED BY <4>1, <4>2, OtherReplyInv
      <3> QED BY <1>b, <2>5, <3>1, ConnectReplyInv, SpeakReplyInv
    <2>6. CASE ServerReply
      BY <1>b, <2>6, ServerReplyInv
    <2>7. CASE ServerAccept \/ ServerFin \/ ServerReset
      BY <2>7, ServerLifeReplyInv
    <2>8. ~ServerStray
      BY <1>b DEF ServerStray
    <2> QED BY <1>2, <1>a, <1>b, <1>c, <2>1, <2>2, <2>3, <2>4, <2>5, <2>6, <2>7, <2>8, OtherCases
  <1> QED BY <1>1, <1>2 DEF Next, Proxy

\* Nothing was sent, read or written at first.
LEMMA InitReplyInv == Init => ReplyInv
  <1> SUFFICES ASSUME Init PROVE ReplyInv
    OBVIOUS
  <1>1. Chunks \in Nat /\ 0 \notin Session
    BY BoundsAssumption DEF Session
  <1>2. \A p, s, n : ~Home(p, s, n)
    BY DEF Init, Home
  <1>3. OneAtATime /\ Requests /\ ReplyWhole
    BY DEF Init, OneAtATime, Requests, ReplyWhole
  <1>4. Replied = 0 /\ Begun = 0 /\ Held = 0 /\ toSrv = <<>>
    BY DEF Init, Replied, Begun, Held
  <1>5. Stream
    BY <1>1, <1>2, <1>4 DEF Stream, StreamOut, StreamIn
  <1>6. Unserved /\ WholeBehind /\ GotSoFar
    BY DEF Init, Unserved, Unread, WholeBehind, GotSoFar
  <1>7. Responses
    BY <1>2 DEF Responses
  <1>8. OwnRepliesInOrder
    BY DEF Init, OwnRepliesInOrder
  <1> QED BY <1>3, <1>5, <1>6, <1>7, <1>8 DEF ReplyInv, ClientInv, ServerInv

\* Every client of a calm proxy gets the replies to its own requests, whole, each one
\* once, in the order of the requests, and none before it asked: for any number of
\* clients, connections, requests and chunks per message, however reads and writes on
\* the two sides interleave, whichever clients shut their side and wherever accept or
\* the server connection fails.
THEOREM OwnReplies ==
    ASSUME Calm
    PROVE  Spec => []OwnRepliesInOrder
  <1>1. "reset" \notin Env
    BY DEF Calm
  <1>2. Spec => []FreeInv
    BY <1>1, FreeAlways
  <1>3. ReplyInv => OwnRepliesInOrder
    BY DEF ReplyInv, ClientInv
  <1> QED BY <1>2, <1>3, InitReplyInv, NextReplyInv, PoolAlways, TypeInvariant, PairInvariant, PTL
          DEF Spec
================================================================================
