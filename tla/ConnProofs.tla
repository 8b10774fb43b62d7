------------------------------ MODULE ConnProofs ------------------------------
(***************************************************************************)
(* The connections: the queues that keep the two kinds in step, and the    *)
(* life of one (the recycling of client connection objects, the close of a *)
(* half-closed one, and the write interest of the server connection).      *)
(***************************************************************************)
EXTENDS TypeProofs

------------------------------------------------------------------------------
(***************************************************************************)
(* The queues of requests.  A request stands in the out_q of its client    *)
(* connection and, until its response has come, in one of the two queues   *)
(* of the server connection; what is proved is that the three agree.       *)
(*                                                                         *)
(* InFlightSafe, AnsweredInOrder and PendingAtServer are not inductive.    *)
(* What carries them is the order of forwarding: requests are numbered in  *)
(* that order, every queue is sorted by it (Rising), and the requests that *)
(* have been answered are a prefix of it (AnsweredFirst).                  *)
(***************************************************************************)


Rising(q) == \A i, j \in DOMAIN q : i < j => q[i] < q[j]

Waiting(p) ==
    /\ p <= nreq
    /\ freed[p] = 0 /\ ~done[p] /\ rsp[p] = <<>>
    /\ data[p] \in Conn /\ InQueue(cq[data[p]], p)

InFlightWaits == \A i \in DOMAIN InFlight : Waiting(InFlight[i])

\* Nothing has happened to a request that was not forwarded.
Fresh == \A p \in Req : p > nreq => ~done[p] /\ freed[p] = 0 /\ rsp[p] = <<>>

AnsweredFirst == \A p \in Req : done[p] => \A i \in DOMAIN InFlight : p < InFlight[i]

OutQueues == \A c \in Conn : Rising(cq[c]) /\ \A i \in DOMAIN cq[c] : cq[c][i] <= nreq

PairInv ==
    /\ Rising(InFlight) /\ InFlightWaits
    /\ Fresh /\ AnsweredFirst
    /\ OutQueues /\ PendingAtServer

------------------------------------------------------------------------------
\* The requests in flight form a sequence of requests.
LEMMA InFlightType == TypeOK => InFlight \in Seq(Req)
  <1> SUFFICES ASSUME TypeOK PROVE InFlight \in Seq(Req)
    OBVIOUS
  <1>1. s_in \in Seq(Req) /\ s_out \in Seq(Req)
    BY DEF TypeOK, ServerTypeOK
  <1> QED BY <1>1, ConcatProperties DEF InFlight

\* What stands where in a queue after an enqueue.
LEMMA AppendElements ==
    ASSUME NEW S, NEW q \in Seq(S), NEW p \in S
    PROVE  /\ Append(q, p) \in Seq(S)
           /\ Len(q) \in Nat /\ DOMAIN q = 1..Len(q)
           /\ DOMAIN Append(q, p) = 1..(Len(q) + 1)
           /\ \A i \in DOMAIN q : Append(q, p)[i] = q[i]
           /\ Append(q, p)[Len(q) + 1] = p
           /\ \A i \in DOMAIN Append(q, p) :
                \/ (i \in DOMAIN q /\ Append(q, p)[i] = q[i])
                \/ (i = Len(q) + 1 /\ Append(q, p)[i] = p)
  OBVIOUS

\* requestForward adds the request behind all others in flight.
LEMMA InFlightAppended ==
    ASSUME TypeOK, NEW p \in Req, s_in' = Append(s_in, p), s_out' = s_out
    PROVE  /\ DOMAIN InFlight' = 1..(Len(InFlight) + 1)
           /\ \A i \in DOMAIN InFlight : InFlight'[i] = InFlight[i]
           /\ InFlight'[Len(InFlight) + 1] = p
  <1>1. s_in \in Seq(Req) /\ s_out \in Seq(Req)
    BY DEF TypeOK, ServerTypeOK
  <1>2. <<p>> \in Seq(Req) /\ Len(<<p>>) = 1 /\ <<p>>[1] = p
    OBVIOUS
  <1>3. Append(s_in, p) = s_in \o <<p>>
    BY <1>1, AppendIsConcat
  <1>4. s_out \o (s_in \o <<p>>) = (s_out \o s_in) \o <<p>>
    BY ONLY <1>1, <1>2, ConcatAssociative
  <1> DEFINE F == s_out \o s_in
  <1>5. F \in Seq(Req)
    BY <1>1, ConcatProperties
  <1> HIDE DEF F
  <1>6. F \o <<p>> = Append(F, p)
    BY <1>5, AppendIsConcat
  <1>7. InFlight = F /\ InFlight' = Append(F, p)
    BY <1>3, <1>4, <1>6 DEF InFlight, F
  <1>8. /\ DOMAIN Append(F, p) = 1..(Len(F) + 1)
        /\ \A i \in DOMAIN F : Append(F, p)[i] = F[i]
        /\ Append(F, p)[Len(F) + 1] = p
    BY <1>5, AppendElements
  <1> QED BY <1>7, <1>8

\* responseForward takes the oldest request in flight.
LEMMA InFlightShortened ==
    ASSUME TypeOK, s_out # <<>>, s_out' = Tail(s_out), s_in' = s_in
    PROVE  /\ 1 \in DOMAIN InFlight /\ InFlight[1] = Head(s_out)
           /\ DOMAIN InFlight' = 1..(Len(InFlight) - 1)
           /\ \A i \in DOMAIN InFlight' : /\ i + 1 \in DOMAIN InFlight
                                          /\ InFlight'[i] = InFlight[i + 1]
  <1>1. s_in \in Seq(Req) /\ s_out \in Seq(Req) /\ Tail(s_out) \in Seq(Req)
    BY DEF TypeOK, ServerTypeOK
  <1> DEFINE F == s_out \o s_in
             G == Tail(s_out) \o s_in
             T == Tail(s_out)
  <1>2. /\ Len(T) = Len(s_out) - 1 /\ Len(s_out) \in Nat /\ Len(s_out) >= 1 /\ Len(s_in) \in Nat
        /\ \A i \in 1..Len(T) : T[i] = s_out[i + 1]
        /\ Head(s_out) = s_out[1]
    BY <1>1
  <1>3. F \in Seq(Req) /\ Len(F) = Len(s_out) + Len(s_in)
        /\ \A i \in 1..(Len(s_out) + Len(s_in)) :
             F[i] = IF i <= Len(s_out) THEN s_out[i] ELSE s_in[i - Len(s_out)]
    BY <1>1, ConcatProperties
  <1>4. G \in Seq(Req) /\ Len(G) = Len(T) + Len(s_in)
        /\ \A i \in 1..(Len(T) + Len(s_in)) :
             G[i] = IF i <= Len(T) THEN T[i] ELSE s_in[i - Len(T)]
    <2>1. T \in Seq(Req)
      BY <1>1
    <2> QED BY <1>1, <2>1, ConcatProperties
  <1>5. InFlight = F /\ InFlight' = G
    BY DEF InFlight
  <1> HIDE DEF F, G, T
  <1>6. 1 \in DOMAIN F /\ F[1] = Head(s_out) /\ DOMAIN G = 1..(Len(F) - 1)
    BY <1>2, <1>3, <1>4
  <1>7. \A i \in DOMAIN G : i + 1 \in DOMAIN F /\ G[i] = F[i + 1]
    <2> SUFFICES ASSUME NEW i \in DOMAIN G PROVE i + 1 \in DOMAIN F /\ G[i] = F[i + 1]
      OBVIOUS
    <2>1. i \in 1..(Len(s_out) - 1 + Len(s_in)) /\ i + 1 \in 1..(Len(s_out) + Len(s_in))
      BY <1>2, <1>3, <1>6
    <2>2. CASE i <= Len(T)
      BY <1>2, <1>3, <1>4, <2>1, <2>2
    <2>3. CASE ~(i <= Len(T))
      <3>1. G[i] = s_in[i - Len(T)] /\ F[i + 1] = s_in[(i + 1) - Len(s_out)]
        <4>1. /\ i \in 1..(Len(T) + Len(s_in)) /\ ~(i <= Len(T))
              /\ i + 1 \in 1..(Len(s_out) + Len(s_in)) /\ ~(i + 1 <= Len(s_out))
          BY <1>2, <2>1, <2>3
        <4> QED BY <1>3, <1>4, <4>1
      <3>2. i - Len(T) = (i + 1) - Len(s_out)
        BY <1>2, <2>1
      <3>3. DOMAIN F = 1..(Len(s_out) + Len(s_in))
        BY <1>3
      <3> QED BY <2>1, <3>1, <3>2, <3>3
    <2> QED BY <2>2, <2>3
  <1> QED BY <1>5, <1>6, <1>7

------------------------------------------------------------------------------
\* A step that leaves the queues as they are, seen as out_q and in_q together.
LEMMA QuietPairInv ==
    ASSUME PairInv, InFlight' = InFlight, UNCHANGED <<cq, nreq, data, done, freed, rsp>>
    PROVE  PairInv'
  BY DEF PairInv, Rising, InFlightWaits, Waiting, Fresh, AnsweredFirst, OutQueues,
         PendingAtServer, InQueue

\* A step that touches neither queues nor requests.
LEMMA OtherPairInv ==
    ASSUME PairInv, UNCHANGED <<s_in, s_out, cq, msgVars>>
    PROVE  PairInv'
  <1>1. InFlight' = InFlight
    BY DEF InFlight
  <1> QED BY <1>1, QuietPairInv DEF msgVars

\* close frees requests that are done, and none of those is in flight.
LEMMA ClosePairInv ==
    ASSUME TypeInv, PairInv, NEW c \in Conn, NEW e0, NEW pool, close(c, e0, pool)
    PROVE  PairInv'
  <1>1. UNCHANGED <<s_in, s_out, cq, nreq, data, done>>
    BY DEF close, s_vars
  <1>2. InFlight' = InFlight
    BY <1>1 DEF InFlight
  <1>3. \A p \in Req : ~done[p] => freed'[p] = freed[p] /\ rsp'[p] = rsp[p]
    BY DEF close, Doomed
  <1>4. \A i \in DOMAIN InFlight : InFlight[i] \in Req
    BY InFlightType DEF TypeInv
  <1>5. InFlightWaits' /\ Fresh'
    BY <1>1, <1>2, <1>3, <1>4 DEF PairInv, InFlightWaits, Waiting, Fresh, InQueue
  <1>6. Rising(InFlight)' /\ AnsweredFirst' /\ OutQueues' /\ PendingAtServer'
    BY <1>1, <1>2 DEF PairInv, Rising, AnsweredFirst, OutQueues, PendingAtServer, InQueue
  <1> QED BY <1>5, <1>6 DEF PairInv

\* requestForward: the new request is the youngest one everywhere.
LEMMA ForwardPairInv ==
    ASSUME TypeInv, PairInv, NEW c \in Conn, NEW body, NEW e0, nreq < MaxReq,
           requestForward(c, nreq + 1, body, e0), UNCHANGED <<s_out, done, freed, rsp>>
    PROVE  PairInv'
  <1> DEFINE p == nreq + 1
  <1>1. p \in Req /\ nreq \in Int
    BY BoundsAssumption DEF TypeInv, TypeOK, MsgTypeOK, Req
  <1>2. /\ nreq' = p /\ data' = [data EXCEPT ![p] = c]
        /\ cq' = [cq EXCEPT ![c] = Append(@, p)] /\ s_in' = Append(s_in, p)
    BY DEF requestForward
  <1>3. /\ cq \in [Conn -> Seq(Req)] /\ data \in [Req -> Conn \cup {None}]
        /\ \A q \in Req : q \in Int
    BY DEF TypeInv, TypeOK, ConnTypeOK, MsgTypeOK, Req
  <1> DEFINE F == InFlight
             n == Len(F)
  <1>4. F \in Seq(Req) /\ n \in Nat /\ DOMAIN F = 1..n /\ \A i \in DOMAIN F : F[i] \in Req
    BY InFlightType DEF TypeInv
  <1>5. /\ DOMAIN F' = 1..(n + 1) /\ \A i \in DOMAIN F : F'[i] = F[i]
        /\ F'[n + 1] = p
    BY <1>1, <1>2, InFlightAppended DEF TypeInv
  <1>6. \A i \in DOMAIN F' : i = n + 1 \/ i \in DOMAIN F
    BY <1>4, <1>5
  <1>7. \A i \in DOMAIN F : F[i] <= nreq /\ F[i] < p /\ F[i] # p
    BY <1>1, <1>3, <1>4 DEF PairInv, InFlightWaits, Waiting
  <1> HIDE DEF p
  <1>8. \A d \in Conn : /\ cq'[d] = IF d = c THEN Append(cq[d], p) ELSE cq[d]
                        /\ \A q : InQueue(cq[d], q) => InQueue(cq'[d], q)
    BY <1>1, <1>2, <1>3 DEF InQueue
  <1>9. InQueue(cq'[c], p)
    <2>1. cq[c] \in Seq(Req) /\ cq'[c] = Append(cq[c], p)
      BY <1>3, <1>8
    <2>2. Len(cq[c]) + 1 \in DOMAIN Append(cq[c], p) /\ Append(cq[c], p)[Len(cq[c]) + 1] = p
      BY <1>1, <2>1
    <2> QED BY <2>1, <2>2 DEF InQueue
  <1>10. Rising(InFlight)'
    BY <1>4, <1>5, <1>6, <1>7 DEF PairInv, Rising
  <1>11. InFlightWaits'
    <2> SUFFICES ASSUME NEW i \in DOMAIN F', NEW q, q = F'[i] PROVE Waiting(q)'
      BY DEF InFlightWaits
    <2>1. CASE i \in DOMAIN F
      <3>1. q = F[i] /\ Waiting(q) /\ q \in Req /\ q # p /\ q <= nreq
        BY <1>4, <1>5, <1>7, <2>1 DEF PairInv, InFlightWaits
      <3>2. data'[q] = data[q]
        BY <1>2, <1>3, <3>1
      <3>3. q <= nreq'
        BY <1>2, <1>1, <1>3, <3>1 DEF p
      <3>4. InQueue(cq'[data[q]], q)
        BY <1>8, <3>1 DEF Waiting
      <3> QED BY <3>1, <3>2, <3>3, <3>4 DEF Waiting, InQueue
    <2>2. CASE i = n + 1
      <3>1. q = p /\ data'[p] = c
        BY <1>1, <1>2, <1>3, <1>5, <2>2
      <3>2. freed[p] = 0 /\ ~done[p] /\ rsp[p] = <<>>
        BY <1>1 DEF PairInv, Fresh, p
      <3>3. p <= nreq'
        BY <1>1, <1>2, <1>3
      <3> QED BY <1>9, <3>1, <3>2, <3>3 DEF Waiting, InQueue
    <2> QED BY <1>6, <2>1, <2>2
  <1>12. Fresh'
    BY <1>1, <1>2, <1>3 DEF PairInv, Fresh, p
  <1>13. AnsweredFirst'
    <2> SUFFICES ASSUME NEW q \in Req, done[q], NEW i \in DOMAIN F' PROVE q < F'[i]
      BY DEF AnsweredFirst
    <2>1. CASE i \in DOMAIN F
      BY <1>5, <2>1 DEF PairInv, AnsweredFirst
    <2>2. CASE i = n + 1
      <3>1. ~(q > nreq)
        BY DEF PairInv, Fresh
      <3> QED BY <1>1, <1>3, <1>5, <2>2, <3>1 DEF p
    <2> QED BY <1>6, <2>1, <2>2
  <1>14. OutQueues'
    <2> SUFFICES ASSUME NEW d \in Conn
                 PROVE  Rising(cq'[d]) /\ \A i \in DOMAIN cq'[d] : cq'[d][i] <= nreq'
      BY DEF OutQueues
    <2>1. cq[d] \in Seq(Req) /\ Rising(cq[d]) /\ \A i \in DOMAIN cq[d] : cq[d][i] <= nreq
      BY <1>3 DEF PairInv, OutQueues
    <2>2. \A i \in DOMAIN cq[d] : cq[d][i] \in Int /\ cq[d][i] < p
      BY <1>1, <1>3, <2>1 DEF p
    <2>3. CASE d = c
      <3>1. /\ cq'[d] = Append(cq[d], p)
            /\ \A i \in DOMAIN Append(cq[d], p) :
                 \/ (i \in DOMAIN cq[d] /\ Append(cq[d], p)[i] = cq[d][i])
                 \/ (i = Len(cq[d]) + 1 /\ Append(cq[d], p)[i] = p)
            /\ Len(cq[d]) \in Nat /\ DOMAIN cq[d] = 1..Len(cq[d])
        <4>1. cq'[d] = Append(cq[d], p) /\ cq[d] \in Seq(Req) /\ p \in Req
          BY <1>1, <1>8, <2>1, <2>3
        <4> QED BY ONLY <4>1, AppendElements
      <3> QED BY <1>1, <1>2, <2>1, <2>2, <3>1 DEF Rising, p
    <2>4. CASE d # c
      BY <1>1, <1>2, <1>8, <2>1, <2>2, <2>4 DEF p
    <2> QED BY <2>3, <2>4
  <1>15. PendingAtServer'
    <2> SUFFICES ASSUME NEW d \in Conn, NEW i \in DOMAIN cq'[d], ~done[cq'[d][i]]
                 PROVE  InQueue(F', cq'[d][i])
      BY DEF PendingAtServer
    <2>1. InQueue(F', p)
      BY <1>4, <1>5 DEF InQueue
    <2>2. \A q : InQueue(F, q) => InQueue(F', q)
      BY <1>4, <1>5 DEF InQueue
    <2>3. cq[d] \in Seq(Req)
      BY <1>3
    <2>4. cq'[d][i] = p \/ (i \in DOMAIN cq[d] /\ cq'[d][i] = cq[d][i])
      <3>1. cq[d] \in Seq(Req) /\ p \in Req
        BY <1>1, <2>3
      <3>2. \A j \in DOMAIN Append(cq[d], p) :
              \/ (j \in DOMAIN cq[d] /\ Append(cq[d], p)[j] = cq[d][j])
              \/ Append(cq[d], p)[j] = p
        BY ONLY <3>1, AppendElements
      <3> QED BY <1>8, <3>2
    <2>5. CASE i \in DOMAIN cq[d] /\ cq'[d][i] = cq[d][i]
      BY <2>2, <2>5 DEF PairInv, PendingAtServer
    <2> QED BY <2>1, <2>4, <2>5
  <1> QED BY <1>10, <1>11, <1>12, <1>13, <1>14, <1>15 DEF PairInv

\* responseForward: the oldest request in flight is done and leaves.
LEMMA AnswerPairInv ==
    ASSUME TypeInv, PairInv, NEW body, NEW e0, s_out # <<>>, responseForward(body, e0),
           UNCHANGED <<s_in, cq, nreq, data, freed>>
    PROVE  PairInv'
  <1> DEFINE p == Head(s_out)
             F == InFlight
  <1>1. p \in Req /\ s_out' = Tail(s_out)
    BY DEF responseForward, TypeInv, TypeOK, ServerTypeOK
  <1>2. /\ done \in [Req -> BOOLEAN] /\ rsp \in [Req -> Seq(Chunk)]
        /\ nreq \in Int /\ \A q \in Req : q \in Int
    BY DEF TypeInv, TypeOK, MsgTypeOK, Req
  <1>3. /\ \A q \in Req : done'[q] = (q = p \/ done[q])
        /\ \A q \in Req : q # p => rsp'[q] = rsp[q]
    BY <1>1, <1>2 DEF responseForward
  <1>4. /\ 1 \in DOMAIN F /\ F[1] = p
        /\ \A i \in DOMAIN F' : i + 1 \in DOMAIN F /\ F'[i] = F[i + 1]
        /\ DOMAIN F' = 1..(Len(F) - 1)
    BY <1>1, InFlightShortened DEF TypeInv
  <1>5. F \in Seq(Req) /\ Len(F) \in Nat /\ DOMAIN F = 1..Len(F)
        /\ \A i \in DOMAIN F : F[i] \in Req
    BY InFlightType DEF TypeInv
  <1> HIDE DEF p, F
  <1>6. \A i \in DOMAIN F' : F'[i] \in Req /\ p < F'[i] /\ F'[i] # p
    <2> SUFFICES ASSUME NEW i \in DOMAIN F' PROVE F'[i] \in Req /\ p < F'[i] /\ F'[i] # p
      OBVIOUS
    <2>1. i + 1 \in DOMAIN F /\ 1 < i + 1 /\ F'[i] = F[i + 1]
      BY <1>4, <1>5
    <2>2. F[1] < F[i + 1]
      BY <1>4, <2>1 DEF PairInv, Rising, F
    <2> QED BY <1>1, <1>2, <1>4, <1>5, <2>1, <2>2
  <1>7. Rising(F')
    <2> SUFFICES ASSUME NEW i \in DOMAIN F', NEW j \in DOMAIN F', i < j PROVE F'[i] < F'[j]
      BY DEF Rising
    <2>1. /\ i + 1 \in DOMAIN F /\ j + 1 \in DOMAIN F /\ i + 1 < j + 1
          /\ F'[i] = F[i + 1] /\ F'[j] = F[j + 1]
      BY <1>4, <1>5
    <2> QED BY <2>1 DEF PairInv, Rising, F
  <1>8. InFlightWaits'
    <2> SUFFICES ASSUME NEW i \in DOMAIN F', NEW q, q = F'[i] PROVE Waiting(q)'
      BY DEF InFlightWaits, F
    <2>1. Waiting(q)
      BY <1>4 DEF PairInv, InFlightWaits, F
    <2>2. q \in Req /\ q # p
      BY <1>6
    <2> QED BY <1>3, <2>1, <2>2 DEF Waiting, InQueue
  <1>9. Fresh'
    <2>1. p <= nreq
      BY <1>4 DEF PairInv, InFlightWaits, Waiting, F
    <2>2. \A q \in Req : q > nreq => q # p
      BY <1>2, <2>1
    <2> QED BY <1>3, <2>2 DEF PairInv, Fresh
  <1>10. AnsweredFirst'
    <2> SUFFICES ASSUME NEW q \in Req, done'[q], NEW i \in DOMAIN F' PROVE q < F'[i]
      BY DEF AnsweredFirst, F
    <2>1. CASE q = p
      BY <1>6, <2>1
    <2>2. CASE done[q]
      BY <1>4, <2>2 DEF PairInv, AnsweredFirst, F
    <2> QED BY <1>3, <2>1, <2>2
  <1>11. OutQueues'
    BY DEF PairInv, OutQueues, Rising
  <1>12. PendingAtServer'
    <2> SUFFICES ASSUME NEW c \in Conn, NEW i \in DOMAIN cq[c], NEW q,
                        q = cq[c][i], ~done'[q]
                 PROVE  InQueue(F', q)
      BY DEF PendingAtServer, F
    <2>1. q \in Req
      BY DEF TypeInv, TypeOK, ConnTypeOK
    <2>2. ~done[q] /\ q # p
      BY <1>3, <2>1
    <2>3. PICK k \in DOMAIN F : F[k] = q
      BY <2>2 DEF PairInv, PendingAtServer, InQueue, F
    <2>4. k # 1
      BY <1>4, <2>2, <2>3
    <2>5. k - 1 \in DOMAIN F' /\ (k - 1) + 1 = k
      BY <1>4, <1>5, <2>3, <2>4
    <2>6. F'[k - 1] = q
      BY <1>4, <2>3, <2>5
    <2> QED BY <2>5, <2>6 DEF InQueue
  <1> QED BY <1>7, <1>8, <1>9, <1>10, <1>11, <1>12 DEF PairInv, F

\* SendData: what is written, and perhaps dequeued and freed, has a response and
\* so is not in flight.
LEMMA WritePairInv ==
    ASSUME TypeInv, PairInv, NEW c \in Conn, SendData(c)
    PROVE  PairInv'
  <1> DEFINE p == Head(cq[c])
             F == InFlight
  <1>1. /\ cq \in [Conn -> Seq(Req)] /\ freed \in [Req -> Nat] /\ rsp \in [Req -> Seq(Chunk)]
        /\ nreq \in Int /\ \A q \in Req : q \in Int
    BY DEF TypeInv, TypeOK, ConnTypeOK, MsgTypeOK, Req
  <1>2. cq[c] # <<>> /\ UNCHANGED <<s_in, s_out, nreq, data, done>>
    BY DEF SendData, s_vars
  <1>3. p \in Req /\ p = cq[c][1] /\ 1 \in DOMAIN cq[c]
    BY <1>1, <1>2
  <1>4. PICK n \in 1..Len(rsp[p]) :
          /\ rsp' = [rsp EXCEPT ![p] = Unsent(@, n)]
          /\ IF n = Len(rsp[p]) THEN sendDone(c, p) ELSE UNCHANGED <<cq, freed, mbuf_pool>>
    BY DEF SendData
  <1>5. F' = F /\ \A i \in DOMAIN F : F[i] \in Req
    BY <1>2, InFlightType DEF InFlight, TypeInv
  <1>6. rsp[p] # <<>>
    BY <1>4
  <1> HIDE DEF p, F
  <1>7. \A q \in Req : q # p => rsp'[q] = rsp[q] /\ freed'[q] = freed[q]
    BY <1>1, <1>3, <1>4 DEF sendDone
  <1>8. /\ \A d \in Conn : d # c => cq'[d] = cq[d]
        /\ cq'[c] = cq[c] \/ cq'[c] = Tail(cq[c])
    BY <1>1, <1>4 DEF sendDone
  <1>9. /\ \A i \in DOMAIN Tail(cq[c]) : i + 1 \in DOMAIN cq[c] /\ Tail(cq[c])[i] = cq[c][i + 1]
        /\ \A i \in DOMAIN cq[c] : i # 1 => i - 1 \in DOMAIN Tail(cq[c])
                                            /\ Tail(cq[c])[i - 1] = cq[c][i]
        /\ DOMAIN Tail(cq[c]) \subseteq Int /\ DOMAIN cq[c] \subseteq Int
    <2> DEFINE q == cq[c]
               r == Tail(q)
    <2>1. q \in Seq(Req) /\ q # <<>> /\ Len(q) \in Nat /\ DOMAIN q = 1..Len(q)
      BY <1>1, <1>2
    <2>2. DOMAIN r = 1..(Len(q) - 1) /\ \A i \in 1..(Len(q) - 1) : r[i] = q[i + 1]
      BY <2>1
    <2> HIDE DEF q, r
    <2>3. \A i \in DOMAIN r : i + 1 \in DOMAIN q /\ r[i] = q[i + 1]
      BY <2>1, <2>2
    <2>4. \A i \in DOMAIN q : i # 1 => i - 1 \in DOMAIN r /\ r[i - 1] = q[i]
      <3> SUFFICES ASSUME NEW i \in DOMAIN q, i # 1 PROVE i - 1 \in DOMAIN r /\ r[i - 1] = q[i]
        OBVIOUS
      <3>1. i - 1 \in 1..(Len(q) - 1) /\ (i - 1) + 1 = i
        BY <2>1
      <3> QED BY <2>2, <3>1
    <2> QED BY <2>1, <2>2, <2>3, <2>4 DEF q, r
  <1>10. p <= nreq
    BY <1>3 DEF PairInv, OutQueues, p
  <1>11. Rising(F') /\ AnsweredFirst'
    BY <1>2, <1>5 DEF PairInv, AnsweredFirst, F
  <1>12. InFlightWaits'
    <2> SUFFICES ASSUME NEW i \in DOMAIN F, NEW q, q = F[i] PROVE Waiting(q)'
      BY <1>5 DEF InFlightWaits, F
    <2>1. Waiting(q) /\ q \in Req
      BY <1>5 DEF PairInv, InFlightWaits, F
    <2>2. q # p
      BY <1>6, <2>1 DEF Waiting
    <2>3. InQueue(cq'[data[q]], q)
      <3>1. PICK k \in DOMAIN cq[data[q]] : cq[data[q]][k] = q
        BY <2>1 DEF Waiting, InQueue
      <3>2. CASE data[q] = c /\ cq'[c] = Tail(cq[c])
        <4>1. k # 1
          BY <1>3, <2>2, <3>1, <3>2
        <4>2. k - 1 \in DOMAIN Tail(cq[c]) /\ Tail(cq[c])[k - 1] = q
          BY <1>9, <3>1, <3>2, <4>1
        <4>3. cq'[data[q]] = Tail(cq[c])
          BY <3>2
        <4> QED BY <4>2, <4>3 DEF InQueue
      <3>3. CASE ~(data[q] = c /\ cq'[c] = Tail(cq[c]))
        BY <1>8, <2>1, <3>1, <3>3 DEF InQueue, Waiting
      <3> QED BY <3>2, <3>3
    <2> QED BY <1>2, <1>7, <2>1, <2>2, <2>3 DEF Waiting, InQueue
  <1>13. Fresh'
    <2>1. \A q \in Req : q > nreq => q # p
      BY <1>1, <1>10
    <2> QED BY <1>2, <1>7, <2>1 DEF PairInv, Fresh
  <1>14. OutQueues'
    <2> SUFFICES ASSUME NEW d \in Conn
                 PROVE  Rising(cq'[d]) /\ \A i \in DOMAIN cq'[d] : cq'[d][i] <= nreq
      BY <1>2 DEF OutQueues
    <2>1. Rising(cq[d]) /\ \A i \in DOMAIN cq[d] : cq[d][i] <= nreq
      BY DEF PairInv, OutQueues
    <2>2. CASE cq'[d] = cq[d]
      BY <2>1, <2>2
    <2>3. CASE d = c /\ cq'[c] = Tail(cq[c])
      <3>1. \A i \in DOMAIN Tail(cq[c]) : Tail(cq[c])[i] <= nreq
        BY <1>9, <2>1, <2>3
      <3>2. \A i, j \in DOMAIN Tail(cq[c]) : i < j => Tail(cq[c])[i] < Tail(cq[c])[j]
        <4> SUFFICES ASSUME NEW i \in DOMAIN Tail(cq[c]), NEW j \in DOMAIN Tail(cq[c]), i < j
                     PROVE  Tail(cq[c])[i] < Tail(cq[c])[j]
          OBVIOUS
        <4>1. i + 1 \in DOMAIN cq[c] /\ j + 1 \in DOMAIN cq[c] /\ i + 1 < j + 1
          BY <1>9
        <4>2. cq[c][i + 1] < cq[c][j + 1]
          BY <2>1, <2>3, <4>1 DEF Rising
        <4> QED BY <1>9, <4>2
      <3> QED BY <2>3, <3>1, <3>2 DEF Rising
    <2> QED BY <1>8, <2>2, <2>3
  <1>15. PendingAtServer'
    <2> SUFFICES ASSUME NEW d \in Conn, NEW i \in DOMAIN cq'[d]
                 PROVE  done[cq'[d][i]] \/ InQueue(F, cq'[d][i])
      BY <1>2, <1>5 DEF PendingAtServer, F
    <2>1. \A j \in DOMAIN cq[d] : done[cq[d][j]] \/ InQueue(F, cq[d][j])
      BY DEF PairInv, PendingAtServer, F
    <2>2. CASE cq'[d] = cq[d]
      BY <2>1, <2>2
    <2>3. CASE d = c /\ cq'[c] = Tail(cq[c])
      BY <1>9, <2>1, <2>3
    <2> QED BY <1>8, <2>2, <2>3
  <1> QED BY <1>11, <1>12, <1>13, <1>14, <1>15 DEF PairInv, F

------------------------------------------------------------------------------
\* Every step of a client connection's handlers keeps PairInv.
LEMMA ClientPairInv ==
    ASSUME TypeInv, PairInv, NEW c \in Conn, ClientStep(c)
    PROVE  PairInv'
  <1> USE DEF connVars, s_vars
  <1>1. CASE RecvAtEof(c)
    <2>1. CASE active(c)
      BY <1>1, <2>1, OtherPairInv DEF RecvAtEof
    <2>2. CASE ~active(c)
      BY <1>1, <2>2, ClosePairInv DEF RecvAtEof
    <2> QED BY <2>1, <2>2
  <1>2. CASE RecvZero(c)
    <2>1. CASE active(c)
      BY <1>2, <2>1, OtherPairInv DEF RecvZero
    <2>2. CASE ~active(c)
      BY <1>2, <2>2, ClosePairInv DEF RecvZero
    <2> QED BY <2>1, <2>2
  <1>3. CASE RecvError(c)
    BY <1>3, ClosePairInv DEF RecvError
  <1>4. ASSUME NEW full \in BOOLEAN, RecvData(c, full) PROVE PairInv'
    <2>1. PICK n \in 1..Len(inbox[sess[c]]) :
            requestForward(c, nreq + 1, parse(inbox[sess[c]], n),
                           IF full THEN At(<<c, "read">>) ELSE End(At(<<c, "read">>)))
      BY <1>4 DEF RecvData
    <2>2. nreq < MaxReq /\ UNCHANGED <<s_out, done, freed, rsp>>
      BY <1>4 DEF RecvData
    <2> QED BY <2>1, <2>2, ForwardPairInv
  <1>5. CASE RecvAgain(c)
    BY <1>5, OtherPairInv DEF RecvAgain
  <1>6. CASE SendIdle(c)
    <2>1. CASE eof[c]
      BY <1>6, <2>1, ClosePairInv DEF SendIdle
    <2>2. CASE ~eof[c]
      BY <1>6, <2>2, OtherPairInv DEF SendIdle
    <2> QED BY <2>1, <2>2
  <1>7. CASE SendWait(c)
    BY <1>7, OtherPairInv DEF SendWait
  <1>8. CASE SendData(c)
    BY <1>8, WritePairInv
  <1>9. CASE SendAgain(c)
    BY <1>9, OtherPairInv DEF SendAgain
  <1>10. CASE SendError(c)
    BY <1>10, ClosePairInv DEF SendError
  <1>11. CASE SendSigPipe(c)
    BY <1>11, OtherPairInv DEF SendSigPipe
  <1> QED BY <1>1, <1>2, <1>3, <1>4, <1>5, <1>6, <1>7, <1>8, <1>9, <1>10, <1>11 DEF ClientStep

\* Every step of the server connection's handlers keeps PairInv.
LEMMA ServerPairInv ==
    ASSUME TypeInv, PairInv, ServerStep
    PROVE  PairInv'
  <1> USE DEF connVars, s_vars
  <1>1. CASE SrvRecvZero \/ SrvRecvError \/ SrvRecvAgain
    BY <1>1, OtherPairInv DEF SrvRecvZero, SrvRecvError, SrvRecvAgain
  <1>2. ASSUME NEW full \in BOOLEAN, SrvRecvData(full) PROVE PairInv'
    <2>1. CASE s_out = <<>>
      <3>1. UNCHANGED <<s_in, s_out, cq, msgVars>>
        BY <1>2, <2>1 DEF SrvRecvData, responseFilter, msgVars
      <3> QED BY <3>1, OtherPairInv
    <2>2. CASE s_out # <<>>
      <3>1. UNCHANGED <<s_in, cq, nreq, data, freed>>
        BY <1>2 DEF SrvRecvData
      <3>2. \E body, e0 : responseForward(body, e0)
        BY <1>2, <2>2 DEF SrvRecvData, responseFilter
      <3> QED BY <2>2, <3>1, <3>2, AnswerPairInv
    <2> QED BY <2>1, <2>2
  <1>3. CASE SrvSendIdle \/ SrvSendAgain
    BY <1>3, OtherPairInv DEF SrvSendIdle, SrvSendAgain
  <1>4. ASSUME NEW more \in BOOLEAN, SrvSendData(more) PROVE PairInv'
    <2>1. PICK n \in 1..Len(Iov) :
            /\ s_in' = Unsent(s_in, Completed(n))
            /\ s_out' = Outstanding(Completed(n))
      BY <1>4 DEF SrvSendData
    <2>2. s_in # <<>>
      BY <1>4 DEF SrvSendData
    <2>3. n \in Nat
      BY <2>2, IovType DEF TypeInv
    <2>4. Completed(n) \in 0..2 /\ Completed(n) <= Len(s_in)
      BY <2>2, <2>3, CompletedRange DEF TypeInv
    <2>5. InFlight' = InFlight
      <3>1. Outstanding(Completed(n)) \o Unsent(s_in, Completed(n)) = InFlight
        BY <2>4, InFlightMoved DEF TypeInv
      <3> QED BY <2>1, <3>1 DEF InFlight
    <2> QED BY <1>4, <2>5, QuietPairInv DEF SrvSendData
  <1>5. CASE SrvSendError \/ SrvSendSigPipe
    BY <1>5, OtherPairInv DEF SrvSendError, SrvSendSigPipe
  <1> QED BY <1>1, <1>2, <1>3, <1>4, <1>5 DEF ServerStep

\* Steps of the listener, the peers and the loop leave the queues alone.
LEMMA RestPairInv ==
    ASSUME PairInv,
           ProxyStep \/ PeerStep \/ Wait \/ (\E c \in Fd : StaleCallback(c)) \/ UNCHANGED vars
    PROVE  PairInv'
  <1> USE DEF connVars, s_vars
  <1>1. CASE ProxyStep
    BY <1>1, OtherPairInv
    DEF ProxyStep, AcceptConn, AcceptAgain, AcceptAborted, AcceptNoFd, AcceptError
  <1>2. CASE PeerStep
    <2>1. UNCHANGED proxyVars
      BY <1>2
      DEF PeerStep, ClientConnect, ClientSend, ClientFin, ClientReset, Ack, ServerAccept,
          ServerReply, ServerStray, ServerFin, ServerReset
    <2> QED BY <2>1, OtherPairInv DEF proxyVars
  <1>3. CASE Wait \/ \E c \in Fd : StaleCallback(c)
    BY <1>3, OtherPairInv DEF Wait, StaleCallback
  <1>4. CASE UNCHANGED vars
    BY <1>4, OtherPairInv DEF vars
  <1> QED BY <1>1, <1>2, <1>3, <1>4

\* PairInv holds before the first request ...
LEMMA InitPairInv == Init => PairInv
  <1> SUFFICES ASSUME Init PROVE PairInv
    OBVIOUS
  <1>1. s_in = <<>> /\ s_out = <<>> /\ \A c \in Conn : cq[c] = <<>>
    BY DEF Init
  <1>2. InFlight = <<>>
    BY <1>1, ConcatEmptySeq DEF InFlight
  <1>3. Fresh
    BY DEF Init, Fresh
  <1> QED BY <1>1, <1>2, <1>3
          DEF PairInv, Rising, InFlightWaits, AnsweredFirst, OutQueues, PendingAtServer

\* ... and after every step.
LEMMA NextPairInv == TypeInv /\ PairInv /\ [Next]_vars => PairInv'
  BY ClientPairInv, ServerPairInv, RestPairInv DEF Next, Proxy

\* PairInv holds in every state of every behaviour.
THEOREM PairInvariant == Spec => []PairInv
  BY TypeInvariant, InitPairInv, NextPairInv, PTL DEF Spec

\* What responseForward dereferences exists: a request in a queue of the server
\* connection is alive, unanswered, held once, and still in the out_q of the
\* client connection its data pointer names, even after that was closed.
THEOREM InFlightAlive == Spec => []InFlightSafe
  <1>1. TypeInv /\ PairInv => InFlightSafe
    <2> SUFFICES ASSUME TypeInv, PairInv PROVE InFlightSafe
      OBVIOUS
    <2>1. InFlight \in Seq(Req)
      BY InFlightType DEF TypeInv
    <2>2. \A i \in DOMAIN InFlight : i \in Int /\ InFlight[i] \in Int
      <3> DEFINE F == InFlight
      <3>1. F \in Seq(Req) /\ \A q \in Req : q \in Int
        BY <2>1 DEF Req
      <3> HIDE DEF F
      <3>2. \A i \in DOMAIN F : i \in Int /\ F[i] \in Req
        BY <3>1
      <3> QED BY <3>1, <3>2 DEF F
    <2>3. \A i, j \in DOMAIN InFlight : i # j => InFlight[i] # InFlight[j]
      <3> SUFFICES ASSUME NEW i \in DOMAIN InFlight, NEW j \in DOMAIN InFlight, i # j
                   PROVE  InFlight[i] # InFlight[j]
        OBVIOUS
      <3>1. i < j \/ j < i
        BY <2>2
      <3>2. InFlight[i] < InFlight[j] \/ InFlight[j] < InFlight[i]
        BY <3>1 DEF PairInv, Rising
      <3> QED BY <2>2, <3>2
    <2> QED BY <2>3 DEF PairInv, InFlightWaits, Waiting, InFlightSafe
  <1> QED BY <1>1, TypeInvariant, PairInvariant, PTL

\* No request is lost between the queues of the two connections.
THEOREM NoneLost == Spec => []PendingAtServer
  <1>1. PairInv => PendingAtServer
    BY DEF PairInv
  <1> QED BY <1>1, PairInvariant, PTL

\* The requests of a client connection are answered in the order in which they
\* were forwarded, so the head of its out_q is always the next to be written.
THEOREM OrderKept == Spec => []AnsweredInOrder
  <1>1. TypeInv /\ PairInv => AnsweredInOrder
    <2> SUFFICES ASSUME TypeInv, PairInv, NEW c \in Conn, NEW i \in DOMAIN cq[c],
                        NEW j \in DOMAIN cq[c], i < j, done[cq[c][j]], ~done[cq[c][i]]
                 PROVE  FALSE
      BY DEF AnsweredInOrder
    <2>1. cq[c][i] \in Req /\ cq[c][j] \in Req /\ \A q \in Req : q \in Int
      <3>1. cq[c] \in Seq(Req) /\ \A q \in Req : q \in Int
        BY DEF TypeInv, TypeOK, ConnTypeOK, Req
      <3> QED BY <3>1
    <2>2. cq[c][i] < cq[c][j]
      BY DEF PairInv, OutQueues, Rising
    <2>3. PICK k \in DOMAIN InFlight : InFlight[k] = cq[c][i]
      BY DEF PairInv, PendingAtServer, InQueue
    <2>4. cq[c][j] < cq[c][i]
      BY <2>1, <2>3 DEF PairInv, AnsweredFirst
    <2> QED BY <2>1, <2>2, <2>4
  <1> QED BY <1>1, TypeInvariant, PairInvariant, PTL


------------------------------------------------------------------------------
(***************************************************************************)
(* The recycling of client connection objects: c_pool and m_owner_.        *)
(*                                                                         *)
(* ConnPoolSound is not inductive: accept() gives an object the session at *)
(* the front of the listen queue, which no other object must be serving.   *)
(* That holds because a session enters the queue once, when it is new, and *)
(* leaves it when an object takes it (QueueSound).                         *)
(***************************************************************************)

Distinct(q) == \A i, j \in DOMAIN q : i # j => q[i] # q[j]

\* A session waits in the listen queue once, and neither when it is new nor when
\* a connection object serves it.  No object serves a new session.
QueueSound ==
    /\ Distinct(backlog)
    /\ \A s \in Session : InQueue(backlog, s) =>
         st[s] # "new" /\ \A c \in Conn : sess[c] # s
    /\ \A c \in Conn : sess[c] # 0 => st[sess[c]] # "new"

PoolInv == ConnPoolSound /\ QueueSound

------------------------------------------------------------------------------
\* Taking the front element leaves the others, distinct from it and each other.
LEMMA DistinctTail ==
    ASSUME NEW S, NEW q \in Seq(S), q # <<>>, Distinct(q)
    PROVE  /\ Distinct(Tail(q)) /\ ~InQueue(Tail(q), Head(q)) /\ InQueue(q, Head(q))
           /\ \A x : InQueue(Tail(q), x) => InQueue(q, x)
  <1>1. /\ Len(q) \in Nat /\ DOMAIN q = 1..Len(q) /\ 1 \in DOMAIN q /\ Head(q) = q[1]
        /\ DOMAIN Tail(q) = 1..(Len(q) - 1)
        /\ \A i \in 1..(Len(q) - 1) : Tail(q)[i] = q[i + 1]
    OBVIOUS
  <1>2. \A i \in DOMAIN Tail(q) : /\ i + 1 \in DOMAIN q /\ i + 1 # 1 /\ i \in Int
                                  /\ Tail(q)[i] = q[i + 1]
    BY <1>1
  <1>3. Distinct(Tail(q))
    <2> SUFFICES ASSUME NEW i \in DOMAIN Tail(q), NEW j \in DOMAIN Tail(q), i # j
                 PROVE  Tail(q)[i] # Tail(q)[j]
      BY DEF Distinct
    <2>1. i + 1 # j + 1
      BY <1>2
    <2> QED BY <1>2, <2>1 DEF Distinct
  <1>4. ~InQueue(Tail(q), Head(q))
    BY <1>1, <1>2 DEF Distinct, InQueue
  <1>5. InQueue(q, Head(q)) /\ \A x : InQueue(Tail(q), x) => InQueue(q, x)
    BY <1>1, <1>2 DEF InQueue
  <1> QED BY <1>3, <1>4, <1>5

\* Adding an element that is not there keeps a queue distinct.
LEMMA DistinctAppend ==
    ASSUME NEW S, NEW q \in Seq(S), NEW x \in S, Distinct(q), ~InQueue(q, x)
    PROVE  /\ Distinct(Append(q, x))
           /\ \A y : InQueue(Append(q, x), y) <=> InQueue(q, y) \/ y = x
  <1> DEFINE a == Append(q, x)
  <1>1. /\ Len(q) \in Nat /\ DOMAIN q = 1..Len(q) /\ DOMAIN a = 1..(Len(q) + 1)
        /\ \A i \in DOMAIN q : a[i] = q[i]
        /\ a[Len(q) + 1] = x
    BY AppendElements
  <1> HIDE DEF a
  <1>2. \A i \in DOMAIN a : i \in DOMAIN q \/ i = Len(q) + 1
    BY <1>1
  <1>3. \A i \in DOMAIN q : i \in DOMAIN a
    BY <1>1
  <1>4. Len(q) + 1 \in DOMAIN a
    BY <1>1
  <1>5. Distinct(a)
    BY <1>1, <1>2 DEF Distinct, InQueue
  <1>6. \A y : InQueue(a, y) <=> InQueue(q, y) \/ y = x
    BY <1>1, <1>2, <1>3, <1>4 DEF InQueue
  <1> QED BY <1>5, <1>6 DEF a

\* ConnPoolSound in terms of Distinct and InQueue.
LEMMA PoolForm ==
    ConnPoolSound <=> /\ Distinct(c_pool)
                      /\ \A c \in Conn : InQueue(c_pool, c) => sess[c] = 0
                      /\ \A c, d \in Conn : c # d /\ sess[c] # 0 => sess[c] # sess[d]
  BY DEF ConnPoolSound, Distinct, InQueue, Pooled

------------------------------------------------------------------------------
\* Steps that change no owner and neither queue, and make no session new.
LEMMA OtherPoolInv ==
    ASSUME TypeInv, PoolInv, UNCHANGED <<sess, c_pool, backlog>>,
           \A s \in Session : st'[s] = "new" => st[s] = "new"
    PROVE  PoolInv'
  <1>1. \A c \in Conn : sess[c] # 0 => sess[c] \in Session
    BY DEF TypeInv, TypeOK, ConnTypeOK
  <1>2. ConnPoolSound'
    BY DEF PoolInv, ConnPoolSound, Pooled
  <1>3. QueueSound'
    BY <1>1 DEF PoolInv, QueueSound, Distinct, InQueue
  <1> QED BY <1>2, <1>3 DEF PoolInv

\* close gives an object to c_pool that had a session, so it was not there yet.
LEMMA ClosePoolInv ==
    ASSUME TypeInv, PoolInv, NEW c \in Conn, NEW e0, NEW pool,
           sess[c] \in Session, close(c, e0, pool)
    PROVE  PoolInv'
  <1>1. /\ sess \in [Conn -> {0} \cup Session] /\ c_pool \in Seq(Conn)
        /\ st \in [Session -> SessionState] /\ 0 \notin Session
    BY DEF TypeInv, TypeOK, ConnTypeOK, SocketTypeOK, Session
  <1>2. /\ sess' = [sess EXCEPT ![c] = 0] /\ c_pool' = Append(c_pool, c)
        /\ st' = [st EXCEPT ![sess[c]] = "closed"] /\ backlog' = backlog
    BY DEF close
  <1>3. /\ sess'[c] = 0 /\ \A d \in Conn : d # c => sess'[d] = sess[d]
        /\ \A s \in Session : st'[s] = "new" => st[s] = "new"
    BY <1>1, <1>2
  <1>4. ~InQueue(c_pool, c) /\ Distinct(c_pool)
    BY <1>1, PoolForm DEF PoolInv
  <1>5. Distinct(c_pool') /\ \A d : InQueue(c_pool', d) <=> InQueue(c_pool, d) \/ d = c
    BY <1>1, <1>2, <1>4, DistinctAppend
  <1>6. ConnPoolSound'
    <2>1. \A d \in Conn : InQueue(c_pool', d) => sess'[d] = 0
      BY <1>3, <1>5, PoolForm DEF PoolInv
    <2>2. \A d, b \in Conn : d # b /\ sess'[d] # 0 => sess'[d] # sess'[b]
      BY <1>3, PoolForm DEF PoolInv
    <2> QED BY <1>5, <2>1, <2>2 DEF ConnPoolSound, Distinct, InQueue, Pooled
  <1>7. QueueSound'
    <2>1. \A s \in Session : InQueue(backlog, s) =>
            st'[s] # "new" /\ \A d \in Conn : sess'[d] # s
      BY <1>1, <1>3 DEF PoolInv, QueueSound
    <2>2. \A d \in Conn : sess'[d] # 0 => st'[sess'[d]] # "new"
      BY <1>1, <1>3 DEF PoolInv, QueueSound
    <2>3. Distinct(backlog)
      BY DEF PoolInv, QueueSound
    <2> QED BY <1>2, <2>1, <2>2, <2>3 DEF QueueSound, InQueue, Distinct
  <1> QED BY <1>6, <1>7 DEF PoolInv

\* accept() takes an object without a session and a session without an object.
LEMMA AcceptPoolInv ==
    ASSUME TypeInv, PoolInv, NEW c \in Conn, AcceptConn(c)
    PROVE  PoolInv'
  <1> DEFINE s == Head(backlog)
  <1>1. /\ sess \in [Conn -> {0} \cup Session] /\ c_pool \in Seq(Conn)
        /\ backlog \in Seq(Session) /\ backlog # <<>> /\ 0 \notin Session
    BY DEF AcceptConn, TypeInv, TypeOK, ConnTypeOK, SocketTypeOK, Session
  <1>2. /\ sess' = [sess EXCEPT ![c] = s] /\ backlog' = Tail(backlog) /\ st' = st
        /\ Allocates(c) /\ c_pool' = PoolRest
    BY DEF AcceptConn
  <1>3. s \in Session
    BY <1>1
  <1>4. /\ Distinct(backlog') /\ ~InQueue(backlog', s) /\ InQueue(backlog, s)
        /\ \A x : InQueue(backlog', x) => InQueue(backlog, x)
    BY <1>1, <1>2, DistinctTail DEF PoolInv, QueueSound
  <1> HIDE DEF s
  <1>5. sess'[c] = s /\ \A d \in Conn : d # c => sess'[d] = sess[d]
    BY <1>1, <1>2
  <1>6. /\ Distinct(c_pool') /\ ~InQueue(c_pool', c)
        /\ \A x : InQueue(c_pool', x) => InQueue(c_pool, x)
    <2>1. CASE c_pool # <<>>
      BY <1>1, <1>2, <2>1, PoolForm, DistinctTail DEF PoolRest, Allocates, PoolInv
    <2>2. CASE c_pool = <<>>
      <3>1. c_pool' = <<>>
        BY <1>2, <2>2 DEF PoolRest
      <3> QED BY <3>1 DEF Distinct, InQueue
    <2> QED BY <2>1, <2>2
  <1>7. ConnPoolSound'
    <2>1. \A d \in Conn : InQueue(c_pool', d) => sess'[d] = 0
      BY <1>5, <1>6, PoolForm DEF PoolInv
    <2>2. \A d \in Conn : sess[d] # s
      BY <1>3, <1>4 DEF PoolInv, QueueSound
    <2>3. \A d, b \in Conn : d # b /\ sess'[d] # 0 => sess'[d] # sess'[b]
      BY <1>5, <2>2, PoolForm DEF PoolInv
    <2> QED BY <1>6, <2>1, <2>3 DEF ConnPoolSound, Distinct, InQueue, Pooled
  <1>8. QueueSound'
    <2>1. \A r \in Session : InQueue(backlog', r) =>
            st[r] # "new" /\ \A d \in Conn : sess'[d] # r
      BY <1>4, <1>5 DEF PoolInv, QueueSound
    <2>2. \A d \in Conn : sess'[d] # 0 => st[sess'[d]] # "new"
      BY <1>3, <1>4, <1>5 DEF PoolInv, QueueSound
    <2> QED BY <1>2, <1>4, <2>1, <2>2 DEF QueueSound, Distinct, InQueue
  <1> QED BY <1>7, <1>8 DEF PoolInv

\* A connection that is refused leaves the listen queue and stays known.
LEMMA RefusePoolInv ==
    ASSUME TypeInv, PoolInv, AcceptAborted \/ AcceptError
    PROVE  PoolInv'
  <1>1. UNCHANGED <<sess, c_pool>>
    BY DEF AcceptAborted, AcceptError, connVars
  <1>2. ConnPoolSound'
    BY <1>1 DEF PoolInv, ConnPoolSound, Pooled
  <1>3. Distinct(backlog') /\ \A x : InQueue(backlog', x) => InQueue(backlog, x)
    <2>1. CASE AcceptAborted
      <3>1. backlog \in Seq(Session) /\ backlog # <<>> /\ backlog' = Tail(backlog)
        BY <2>1 DEF AcceptAborted, TypeInv, TypeOK, SocketTypeOK
      <3> QED BY <3>1, DistinctTail DEF PoolInv, QueueSound
    <2>2. CASE AcceptError
      <3>1. backlog' = <<>>
        BY <2>2 DEF AcceptError
      <3> QED BY <3>1 DEF Distinct, InQueue
    <2> QED BY <2>1, <2>2
  <1>4. \A s \in Session : st'[s] = "new" => st[s] = "new"
    BY DEF AcceptAborted, AcceptError, TypeInv, TypeOK, SocketTypeOK
  <1>5. \A c \in Conn : sess[c] # 0 => sess[c] \in Session
    BY DEF TypeInv, TypeOK, ConnTypeOK
  <1>6. QueueSound'
    <2>1. \A r \in Session : InQueue(backlog', r) =>
            st'[r] # "new" /\ \A d \in Conn : sess[d] # r
      BY <1>3, <1>4 DEF PoolInv, QueueSound
    <2>2. \A d \in Conn : sess[d] # 0 => st'[sess[d]] # "new"
      BY <1>4, <1>5 DEF PoolInv, QueueSound
    <2> QED BY <1>1, <1>3, <2>1, <2>2 DEF QueueSound, Distinct, InQueue
  <1> QED BY <1>2, <1>6 DEF PoolInv

\* A new connection joins the listen queue.
LEMMA ConnectPoolInv ==
    ASSUME TypeInv, PoolInv, NEW s \in Session, ClientConnect(s)
    PROVE  PoolInv'
  <1>1. /\ backlog \in Seq(Session) /\ st \in [Session -> SessionState]
        /\ \A c \in Conn : sess[c] # 0 => sess[c] \in Session
    BY DEF TypeInv, TypeOK, SocketTypeOK, ConnTypeOK
  <1>2. /\ st[s] = "new" /\ st' = [st EXCEPT ![s] = "open"] /\ backlog' = Append(backlog, s)
        /\ UNCHANGED <<sess, c_pool>>
    BY DEF ClientConnect, proxyVars, connVars
  <1>3. /\ \A r \in Session : st'[r] = "new" => st[r] = "new"
        /\ st'[s] # "new"
    BY <1>1, <1>2
  <1>4. Distinct(backlog') /\ \A x : InQueue(backlog', x) <=> InQueue(backlog, x) \/ x = s
    BY <1>1, <1>2, DistinctAppend DEF PoolInv, QueueSound
  <1>5. ConnPoolSound'
    BY <1>2 DEF PoolInv, ConnPoolSound, Pooled
  <1>6. QueueSound'
    <2>1. \A c \in Conn : sess[c] # s
      <3>1. s # 0
        BY DEF Session
      <3> QED BY <1>2, <3>1 DEF PoolInv, QueueSound
    <2>2. \A r \in Session : InQueue(backlog', r) =>
            st'[r] # "new" /\ \A d \in Conn : sess[d] # r
      BY <1>3, <1>4, <2>1 DEF PoolInv, QueueSound
    <2>3. \A d \in Conn : sess[d] # 0 => st'[sess[d]] # "new"
      BY <1>1, <1>3 DEF PoolInv, QueueSound
    <2> QED BY <1>2, <1>4, <2>2, <2>3 DEF QueueSound, Distinct, InQueue
  <1> QED BY <1>5, <1>6 DEF PoolInv

------------------------------------------------------------------------------
\* Every step of a client connection's handlers keeps PoolInv.
LEMMA ClientPoolInv ==
    ASSUME TypeInv, PoolInv, NEW c \in Conn, ClientStep(c)
    PROVE  PoolInv'
  <1>r. Handling(<<c, "read">>) => sess[c] \in Session
    BY HandlerSound
  <1>w. Handling(<<c, "write">>) => sess[c] \in Session
    BY HandlerSound
  <1> USE DEF connVars, peerVars
  <1>1. CASE RecvAtEof(c)
    <2>1. CASE active(c)
      BY <1>1, <2>1, OtherPoolInv DEF RecvAtEof
    <2>2. CASE ~active(c)
      BY <1>1, <1>r, <2>2, ClosePoolInv DEF RecvAtEof
    <2> QED BY <2>1, <2>2
  <1>2. CASE RecvZero(c)
    <2>1. CASE active(c)
      BY <1>2, <2>1, OtherPoolInv DEF RecvZero
    <2>2. CASE ~active(c)
      BY <1>2, <1>r, <2>2, ClosePoolInv DEF RecvZero
    <2> QED BY <2>1, <2>2
  <1>3. CASE RecvError(c)
    BY <1>3, <1>r, ClosePoolInv DEF RecvError
  <1>4. CASE (\E full \in BOOLEAN : RecvData(c, full)) \/ RecvAgain(c)
    BY <1>4, OtherPoolInv DEF RecvData, RecvAgain
  <1>5. CASE SendIdle(c)
    <2>1. CASE eof[c]
      BY <1>5, <1>w, <2>1, ClosePoolInv DEF SendIdle
    <2>2. CASE ~eof[c]
      BY <1>5, <2>2, OtherPoolInv DEF SendIdle
    <2> QED BY <2>1, <2>2
  <1>6. CASE SendWait(c) \/ SendData(c) \/ SendAgain(c) \/ SendSigPipe(c)
    BY <1>6, OtherPoolInv DEF SendWait, SendData, SendAgain, SendSigPipe
  <1>7. CASE SendError(c)
    BY <1>7, <1>w, ClosePoolInv DEF SendError
  <1> QED BY <1>1, <1>2, <1>3, <1>4, <1>5, <1>6, <1>7 DEF ClientStep

\* Every step of the system keeps PoolInv.
LEMMA NextPoolInv == TypeInv /\ PoolInv /\ [Next]_vars => PoolInv'
  <1> SUFFICES ASSUME TypeInv, PoolInv, [Next]_vars PROVE PoolInv'
    OBVIOUS
  <1> USE DEF connVars, peerVars
  <1>a. st \in [Session -> SessionState]
    BY DEF TypeInv, TypeOK, SocketTypeOK
  <1>1. CASE ServerStep
    BY <1>1, OtherPoolInv
    DEF ServerStep, SrvRecvZero, SrvRecvError, SrvRecvData, SrvRecvAgain, SrvSendIdle,
        SrvSendData, SrvSendAgain, SrvSendError, SrvSendSigPipe
  <1>2. CASE ProxyStep
    <2>1. CASE AcceptAgain \/ AcceptNoFd
      BY <2>1, OtherPoolInv DEF AcceptAgain, AcceptNoFd
    <2> QED BY <1>2, <2>1, AcceptPoolInv, RefusePoolInv DEF ProxyStep
  <1>3. CASE PeerStep
    <2>1. ASSUME NEW s \in Session, ClientSend(s) \/ ClientFin(s) \/ ClientReset(s)
          PROVE  PoolInv'
      BY <1>a, <2>1, OtherPoolInv DEF ClientSend, ClientFin, ClientReset, proxyVars
    <2>2. ASSUME NEW c \in Conn \cup {Srv}, Ack(c) PROVE PoolInv'
      BY <2>2, OtherPoolInv DEF Ack, proxyVars
    <2>3. CASE ServerAccept \/ ServerReply \/ ServerStray \/ ServerFin \/ ServerReset
      BY <2>3, OtherPoolInv
      DEF ServerAccept, ServerReply, ServerStray, ServerFin, ServerReset, proxyVars
    <2> QED BY <1>3, <2>1, <2>2, <2>3, ConnectPoolInv DEF PeerStep
  <1>4. CASE Wait \/ \E c \in Fd : StaleCallback(c)
    BY <1>4, OtherPoolInv DEF Wait, StaleCallback
  <1>5. CASE UNCHANGED vars
    BY <1>5, OtherPoolInv DEF vars
  <1> QED BY <1>1, <1>2, <1>3, <1>4, <1>5, ClientPoolInv DEF Next, Proxy

\* PoolInv holds in every state.
LEMMA PoolAlways == Spec => []PoolInv
  <1>1. Init => PoolInv
    BY DEF Init, PoolInv, ConnPoolSound, QueueSound, Distinct, InQueue, Pooled
  <1> QED BY <1>1, TypeInvariant, NextPoolInv, PTL DEF Spec

\* Client connection objects are recycled soundly, however clients come, go and
\* reset, in the listen queue or later: c_pool holds an object once and only while
\* it serves no session, and no two objects serve the same session.
THEOREM RecyclingSound == Spec => []ConnPoolSound
  <1>1. PoolInv => ConnPoolSound
    BY DEF PoolInv
  <1> QED BY <1>1, PoolAlways, PTL

------------------------------------------------------------------------------
(***************************************************************************)
(* A half-closed client connection is never left idle.  NoIdleHalfClosed   *)
(* is inductive given TypeInv: m_eof_ is set while a reply is due, the     *)
(* last reply leaves in a write callback, and that callback goes on to     *)
(* find m_omsg_q_ empty and close, with no other callback in between.      *)
(***************************************************************************)

Idle(c) == eof[c] /\ cq[c] = <<>>

\* While an idle half-closed connection exists, only its write callback runs.
LEMMA OneCallback ==
    ASSUME TypeInv, NoIdleHalfClosed, NEW c \in Conn, Idle(c), NEW e \in Event, Handling(e)
    PROVE  e = <<c, "write">>
  <1>1. ev.cur = <<c, "write">>
    BY DEF NoIdleHalfClosed, Idle
  <1>2. <<c, "write">> \in Event
    BY DEF Event, Fd
  <1> QED BY <1>1, <1>2, ConnAssumption DEF Handling, Running

\* A callback of another connection, or one that is not a write callback, finds no
\* connection idle and half closed.
LEMMA NoneIdle ==
    ASSUME TypeInv, NoIdleHalfClosed, NEW e \in Event, Handling(e),
           \A c \in Conn : e # <<c, "write">>
    PROVE  \A c \in Conn : ~Idle(c)
  BY OneCallback

\* Steps that leave m_eof_ and m_omsg_q_ alone, in a state without idle half-closed
\* connections or without a change of the callback that runs.
LEMMA SameIdle ==
    ASSUME NoIdleHalfClosed, UNCHANGED <<eof, cq>>,
           (\A c \in Conn : ~Idle(c)) \/ ev'.cur = ev.cur
    PROVE  NoIdleHalfClosed'
  BY DEF NoIdleHalfClosed, Idle

\* The peers do not change which callback runs.
LEMMA PeersKeepCur ==
    ASSUME TypeInv, PeerStep
    PROVE  ev'.cur = ev.cur /\ UNCHANGED <<eof, cq>>
  <1>1. ev \in EventBase
    BY DEF TypeInv, Sound
  <1>2. \A e \in EventBase, x \in Event : Activate(e, x) \in EventBase /\ Activate(e, x).cur = e.cur
    BY DEF Activate, EventBase
  <1>3. /\ <<Lsn, "read">> \in Event /\ <<Srv, "write">> \in Event /\ <<Srv, "read">> \in Event
        /\ \A c \in Conn \cup {Srv} : <<c, "write">> \in Event
    BY DEF Event, Fd
  <1>4. SrvReadable(ev) \in EventBase /\ SrvReadable(ev).cur = ev.cur
    BY <1>1, <1>2, <1>3 DEF SrvReadable
  <1>5. \A s \in Session : Readable(s).cur = ev.cur
    BY <1>1 DEF Readable, EventBase
  <1>6. ev'.cur = ev.cur
    <2>1. ASSUME NEW s \in Session, ClientConnect(s) \/ ClientSend(s) \/ ClientFin(s)
          PROVE  ev'.cur = ev.cur
      BY <1>1, <1>2, <1>3, <1>5, <2>1 DEF ClientConnect, ClientSend, ClientFin
    <2>2. ASSUME NEW s \in Session, ClientReset(s) PROVE ev'.cur = ev.cur
      BY <1>1, <2>2 DEF ClientReset, Readable, EventBase
    <2>3. ASSUME NEW c \in Conn \cup {Srv}, Ack(c) PROVE ev'.cur = ev.cur
      BY <1>1, <1>2, <1>3, <2>3 DEF Ack
    <2>4. CASE ServerAccept \/ ServerReply \/ ServerStray \/ ServerFin \/ ServerReset
      BY <1>1, <1>2, <1>3, <1>4, <2>4
      DEF ServerAccept, ServerReply, ServerStray, ServerFin, ServerReset
    <2> QED BY <2>1, <2>2, <2>3, <2>4 DEF PeerStep
  <1>7. UNCHANGED <<eof, cq>>
    BY DEF PeerStep, ClientConnect, ClientSend, ClientFin, ClientReset, Ack, ServerAccept,
           ServerReply, ServerStray, ServerFin, ServerReset, proxyVars, connVars
  <1> QED BY <1>6, <1>7

\* close clears m_eof_ of its connection and leaves the others as they are.
LEMMA CloseIdle ==
    ASSUME TypeInv, NEW c \in Conn, NEW e0, NEW pool, close(c, e0, pool),
           \A d \in Conn : d # c => ~Idle(d)
    PROVE  NoIdleHalfClosed'
  <1>1. eof \in [Conn -> BOOLEAN]
    BY DEF TypeInv, TypeOK, ConnTypeOK
  <1> QED BY <1>1 DEF close, NoIdleHalfClosed, Idle

\* Every step of a client connection's handlers.
LEMMA ClientIdle ==
    ASSUME TypeInv, NoIdleHalfClosed, NEW c \in Conn, ClientStep(c)
    PROVE  NoIdleHalfClosed'
  <1> DEFINE r == <<c, "read">>
             w == <<c, "write">>
  <1>a. /\ r \in Event /\ w \in Event /\ \A d \in Conn : r # <<d, "write">>
        /\ \A d \in Conn : w = <<d, "write">> => d = c
    BY DEF Event, Fd
  <1>r. ASSUME Handling(r) PROVE \A d \in Conn : ~Idle(d)
    BY <1>r, <1>a, NoneIdle
  <1>w. ASSUME Handling(w) PROVE \A d \in Conn : d # c => ~Idle(d)
    BY <1>w, <1>a, OneCallback
  <1>t. /\ eof \in [Conn -> BOOLEAN] /\ cq \in [Conn -> Seq(Req)] /\ ev \in EventBase
    BY DEF TypeInv, TypeOK, ConnTypeOK, Sound
  <1>c. At(w).cur = w
    BY <1>t DEF At, Begin, EventBase
  <1> USE DEF connVars
  <1>1. CASE RecvAtEof(c)
    <2>1. CASE active(c)
      BY <1>1, <1>r, <2>1, SameIdle DEF RecvAtEof
    <2>2. CASE ~active(c)
      BY <1>1, <1>r, <2>2, CloseIdle DEF RecvAtEof
    <2> QED BY <2>1, <2>2
  <1>2. CASE RecvZero(c)
    <2>1. CASE active(c)
      <3>1. cq[c] # <<>> /\ cq' = cq /\ eof' = [eof EXCEPT ![c] = TRUE]
        BY <1>2, <2>1 DEF RecvZero, active
      <3>2. \A d \in Conn : ~Idle(d)
        BY <1>2, <1>r DEF RecvZero
      <3> QED BY <1>t, <3>1, <3>2 DEF NoIdleHalfClosed, Idle
    <2>2. CASE ~active(c)
      BY <1>2, <1>r, <2>2, CloseIdle DEF RecvZero
    <2> QED BY <2>1, <2>2
  <1>3. CASE RecvError(c)
    BY <1>3, <1>r, CloseIdle DEF RecvError
  <1>4. ASSUME NEW full \in BOOLEAN, RecvData(c, full) PROVE NoIdleHalfClosed'
    <2>1. \A d \in Conn : ~Idle(d)
      BY <1>4, <1>r DEF RecvData
    <2>2. eof' = eof /\ cq' = [cq EXCEPT ![c] = Append(@, nreq + 1)]
      BY <1>4 DEF RecvData, requestForward
    <2>3. Append(cq[c], nreq + 1) # <<>>
      <3>1. cq[c] \in Seq(Req)
        BY <1>t
      <3> QED BY <3>1
    <2> QED BY <1>t, <2>1, <2>2, <2>3 DEF NoIdleHalfClosed, Idle
  <1>5. CASE RecvAgain(c)
    BY <1>5, <1>r, SameIdle DEF RecvAgain
  <1>6. CASE SendIdle(c)
    <2>1. CASE eof[c]
      BY <1>6, <1>w, <2>1, CloseIdle DEF SendIdle
    <2>2. CASE ~eof[c]
      BY <1>6, <1>w, <2>2, SameIdle DEF SendIdle, Idle
    <2> QED BY <2>1, <2>2
  <1>7. CASE SendWait(c) \/ SendAgain(c)
    BY <1>7, <1>w, SameIdle DEF SendWait, SendAgain, Idle
  <1>8. CASE SendData(c)
    <2>1. ev' = At(w) /\ eof' = eof /\ \A d \in Conn : d # c => ~Idle(d)
      BY <1>8, <1>w DEF SendData
    <2>2. \A d \in Conn : d # c => cq'[d] = cq[d]
      BY <1>8, <1>t DEF SendData, sendDone
    <2> QED BY <1>c, <2>1, <2>2 DEF NoIdleHalfClosed, Idle
  <1>9. CASE SendError(c)
    BY <1>9, <1>w, CloseIdle DEF SendError
  <1>10. CASE SendSigPipe(c)
    BY <1>10, SameIdle DEF SendSigPipe
  <1> QED BY <1>1, <1>2, <1>3, <1>4, <1>5, <1>6, <1>7, <1>8, <1>9, <1>10 DEF ClientStep

\* Every step of the system.
LEMMA NextIdle == TypeInv /\ NoIdleHalfClosed /\ [Next]_vars => NoIdleHalfClosed'
  <1> SUFFICES ASSUME TypeInv, NoIdleHalfClosed, [Next]_vars PROVE NoIdleHalfClosed'
    OBVIOUS
  <1> USE DEF connVars
  <1>a. /\ SrvRead \in Event /\ SrvWrite \in Event /\ LsnRead \in Event
        /\ \A d \in Fd : <<d, "none">> \in Event
        /\ \A c \in Conn : /\ SrvRead # <<c, "write">> /\ SrvWrite # <<c, "write">>
                           /\ LsnRead # <<c, "write">>
                           /\ \A d \in Fd : <<d, "none">> # <<c, "write">>
    BY ConnAssumption DEF Event, Fd, SrvRead, SrvWrite, LsnRead
  <1>1. CASE ServerStep
    <2>1. Handling(SrvRead) \/ Handling(SrvWrite)
      BY <1>1
      DEF ServerStep, SrvRecvZero, SrvRecvError, SrvRecvData, SrvRecvAgain, SrvSendIdle,
          SrvSendData, SrvSendAgain, SrvSendError, SrvSendSigPipe
    <2>2. \A c \in Conn : ~Idle(c)
      BY <1>a, <2>1, NoneIdle
    <2>3. UNCHANGED <<eof, cq>>
      BY <1>1
      DEF ServerStep, SrvRecvZero, SrvRecvError, SrvRecvData, SrvRecvAgain, SrvSendIdle,
          SrvSendData, SrvSendAgain, SrvSendError, SrvSendSigPipe
    <2> QED BY <2>2, <2>3, SameIdle
  <1>2. CASE ProxyStep
    <2>1. Handling(LsnRead) /\ UNCHANGED <<eof, cq>>
      BY <1>2 DEF ProxyStep, AcceptConn, AcceptAgain, AcceptAborted, AcceptNoFd, AcceptError
    <2>2. \A c \in Conn : ~Idle(c)
      BY <1>a, <2>1, NoneIdle
    <2> QED BY <2>1, <2>2, SameIdle
  <1>3. CASE PeerStep
    BY <1>3, PeersKeepCur, SameIdle
  <1>4. CASE Wait
    <2>1. ev'.cur = ev.cur /\ UNCHANGED <<eof, cq>>
      BY <1>4 DEF Wait, Return, TypeInv, Sound, EventBase
    <2> QED BY <2>1, SameIdle
  <1>5. ASSUME NEW d \in Fd, StaleCallback(d) PROVE NoIdleHalfClosed'
    <2>1. Handling(<<d, "none">>) /\ UNCHANGED <<eof, cq>>
      BY <1>5 DEF StaleCallback
    <2>2. \A c \in Conn : ~Idle(c)
      BY <1>a, <2>1, NoneIdle
    <2> QED BY <2>1, <2>2, SameIdle
  <1>6. CASE UNCHANGED vars
    BY <1>6, SameIdle DEF vars
  <1> QED BY <1>1, <1>2, <1>3, <1>4, <1>5, <1>6, ClientIdle DEF Next, Proxy

\* A client connection that has reached the end of its stream and owes nothing is
\* closed in the very callback that wrote the last reply: none is ever left idle.
THEOREM HalfClosedClosed == Spec => []NoIdleHalfClosed
  <1>1. Init => NoIdleHalfClosed
    BY DEF Init, NoIdleHalfClosed
  <1> QED BY <1>1, TypeInvariant, NextIdle, PTL DEF Spec

------------------------------------------------------------------------------
(***************************************************************************)
(* The write interest of the server connection.  ServerOutputArmed is not  *)
(* inductive: requestForward calls addOutput only when in_q is empty, and  *)
(* addOutput does nothing when m_send_active_ is set, so a request that    *)
(* finds the flag set relies on the write event being due already.         *)
(* OutputInv says so for the flag, whether or not a request waits.         *)
(***************************************************************************)

Pending(e) == SrvWrite \in e.ready \cup e.batch

OutputInv ==
    alive = "run" /\ ~s_dead =>
        /\ s_in # <<>> => Srv \in ev.sact
        /\ Srv \in ev.sact =>
             /\ Srv \in ev.wreg
             /\ Pending(ev) \/ ev.cur = SrvWrite \/ Srv \in unacked \/ srvState = "connecting"

\* As far as the server connection's output goes, f has what e has.
KeepsOutput(e, f) ==
    /\ Srv \in f.sact <=> Srv \in e.sact
    /\ Srv \in e.wreg => Srv \in f.wreg
    /\ Pending(e) => Pending(f)

------------------------------------------------------------------------------
\* Operations on another connection, and the end of a callback, leave the server
\* connection's output alone.
LEMMA OthersKeepOutput ==
    ASSUME NEW e \in EventBase, NEW d \in Fd, d # Srv
    PROVE  /\ \A sd, w \in BOOLEAN : KeepsOutput(e, AddOutput(e, d, sd, w))
           /\ KeepsOutput(e, DelOutput(e, d))
           /\ KeepsOutput(e, DelConn(e, d))
           /\ \A r \in BOOLEAN : KeepsOutput(e, AddConn(e, d, r))
  <1> USE DEF KeepsOutput, Pending, SrvWrite
  <1>1. \A sd, w \in BOOLEAN : KeepsOutput(e, AddOutput(e, d, sd, w))
    BY DEF AddOutput, EventBase
  <1>2. KeepsOutput(e, DelOutput(e, d))
    BY DEF DelOutput, EventBase
  <1>3. KeepsOutput(e, DelConn(e, d))
    <2> DEFINE o == DelOutput(e, d)
               b == {IF y[1] = d THEN <<d, "none">> ELSE y : y \in o.batch}
               g == DelConn(e, d)
    <2>1. o \in EventBase
      BY EventBaseType
    <2>2. <<Srv, "write">> \in o.batch => <<Srv, "write">> \in b
      <3>1. \A y \in o.batch : y[1] # d => y \in b
        OBVIOUS
      <3> QED BY <3>1
    <2>3. g = [o EXCEPT !.ready = @ \ {<<d, "read">>}, !.batch = b]
      BY DEF DelConn
    <2> HIDE DEF o, b, g
    <2>4. g.sact = o.sact /\ g.wreg = o.wreg /\ g.batch = b /\ g.ready = o.ready \ {<<d, "read">>}
      BY <2>1, <2>3 DEF EventBase
    <2>5. KeepsOutput(e, g)
      BY <1>2, <2>2, <2>4 DEF o
    <2> QED BY <2>5 DEF g
  <1>4. \A r \in BOOLEAN : KeepsOutput(e, AddConn(e, d, r))
    BY DEF AddConn, EventBase
  <1> QED BY <1>1, <1>2, <1>3, <1>4

\* The kernel and the loop take nothing from it either.
LEMMA LoopKeepsOutput ==
    ASSUME NEW e \in EventBase, NEW x \in Event
    PROVE  /\ KeepsOutput(e, Activate(e, x))
           /\ KeepsOutput(e, End(e))
           /\ x # SrvWrite => KeepsOutput(e, Begin(e, x))
  BY DEF KeepsOutput, Pending, Activate, End, Begin, EventBase

\* What two operations in a row keep.
LEMMA KeepsTransitive ==
    ASSUME NEW e, NEW f, NEW g, KeepsOutput(e, f), KeepsOutput(f, g)
    PROVE  KeepsOutput(e, g)
  BY DEF KeepsOutput

\* A callback that is not the server connection's write callback begins.
LEMMA HandlerKeeps ==
    ASSUME TypeInv, NEW x \in Event, x # SrvWrite, Handling(x)
    PROVE  KeepsOutput(ev, At(x)) /\ At(x) \in EventBase /\ ev.cur # SrvWrite
  <1>1. ev \in EventBase /\ KeepsOutput(ev, At(x))
    BY LoopKeepsOutput DEF At, TypeInv, Sound
  <1>2. At(x) \in EventBase
    BY <1>1 DEF At, Begin, EventBase
  <1>3. SrvWrite # None
    BY ConnAssumption DEF SrvWrite, Event, Fd
  <1> QED BY <1>1, <1>2, <1>3 DEF Handling, Running

\* A step of a callback other than the server connection's write callback.
LEMMA OtherCallback ==
    ASSUME OutputInv, ev.cur # SrvWrite, KeepsOutput(ev, ev'),
           s_in' = s_in, s_dead' = s_dead, srvState' = srvState,
           Srv \in unacked => Srv \in unacked',
           alive' = "run" => alive = "run"
    PROVE  OutputInv'
  BY DEF OutputInv, KeepsOutput, Pending

\* A step of a peer that leaves the server's socket connected or connecting.
LEMMA OtherPeer ==
    ASSUME OutputInv, ev'.cur = ev.cur, KeepsOutput(ev, ev'),
           UNCHANGED <<alive, s_in, s_dead, srvState>>,
           Srv \in unacked => Srv \in unacked'
    PROVE  OutputInv'
  BY DEF OutputInv, KeepsOutput, Pending

\* The server connection has failed, or the process has ended.
LEMMA Failed ==
    ASSUME s_dead' \/ alive' # "run"
    PROVE  OutputInv'
  BY DEF OutputInv

------------------------------------------------------------------------------
\* close leaves the output of the server connection alone.
LEMMA CloseOutput ==
    ASSUME TypeInv, OutputInv, ev.cur # SrvWrite, NEW c \in Conn, NEW e0 \in EventBase,
           NEW pool, KeepsOutput(ev, e0), close(c, e0, pool)
    PROVE  OutputInv'
  <1>1. c \in Fd /\ c # Srv
    BY ConnAssumption DEF Fd
  <1>2. KeepsOutput(ev, DelConn(e0, c)) /\ DelConn(e0, c) \in EventBase
    BY <1>1, OthersKeepOutput, KeepsTransitive, EventBaseType
  <1>3. \A e \in EventBase : KeepsOutput(e, End(e))
    <2>1. <<Srv, "none">> \in Event
      BY DEF Event, Fd
    <2> QED BY <2>1, LoopKeepsOutput
  <1>4. KeepsOutput(ev, ev')
    BY <1>2, <1>3, KeepsTransitive DEF close, processClose
  <1> QED BY <1>1, <1>4, OtherCallback DEF close, s_vars, srvSock

\* requestForward finds the write event due, or makes it due.
LEMMA ForwardOutput ==
    ASSUME TypeInv, OutputInv, ev.cur # SrvWrite, NEW c, NEW p \in Req, NEW body,
           NEW e0 \in EventBase, KeepsOutput(ev, e0), requestForward(c, p, body, e0),
           UNCHANGED <<alive, s_dead, srvState, unacked>>
    PROVE  OutputInv'
  <1> SUFFICES ASSUME alive = "run", ~s_dead
               PROVE  /\ Srv \in ev'.sact /\ Srv \in ev'.wreg
                      /\ Pending(ev') \/ Srv \in unacked \/ srvState = "connecting"
    BY DEF OutputInv
  <1> DEFINE w == srvState # "connecting"
  <1>1. ev' = IF s_in = <<>> THEN AddOutput(e0, Srv, TRUE, w) ELSE e0
    BY DEF requestForward
  <1>2. CASE Srv \in ev.sact
    <2>1. Srv \in e0.sact /\ ev' = e0
      BY <1>1, <1>2 DEF KeepsOutput, AddOutput
    <2> QED BY <1>2, <2>1 DEF OutputInv, KeepsOutput
  <1>3. CASE Srv \notin ev.sact
    <2>1. s_in = <<>> /\ Srv \notin e0.sact
      BY <1>3 DEF OutputInv, KeepsOutput
    <2>2. ev' = [e0 EXCEPT !.sact = @ \cup {Srv}, !.wreg = @ \cup {Srv},
                           !.ready = IF w THEN @ \cup {SrvWrite} ELSE @]
      BY <1>1, <2>1 DEF AddOutput, SrvWrite
    <2>3. /\ ev'.sact = e0.sact \cup {Srv} /\ ev'.wreg = e0.wreg \cup {Srv}
          /\ w => ev'.ready = e0.ready \cup {SrvWrite}
      BY <2>2 DEF EventBase
    <2> QED BY <2>3 DEF Pending
  <1> QED BY <1>2, <1>3

\* Every step of a client connection's handlers.
LEMMA ClientOutput ==
    ASSUME TypeInv, OutputInv, NEW c \in Conn, ClientStep(c)
    PROVE  OutputInv'
  <1> DEFINE er == At(<<c, "read">>)
             ew == At(<<c, "write">>)
  <1>a. /\ c \in Fd /\ c # Srv /\ <<c, "read">> \in Event /\ <<c, "write">> \in Event
        /\ <<c, "read">> # SrvWrite /\ <<c, "write">> # SrvWrite
    BY ConnAssumption DEF Fd, Event, SrvWrite
  <1>b. \A e \in EventBase : KeepsOutput(e, End(e))
    BY <1>a, LoopKeepsOutput
  <1>r. ASSUME Handling(<<c, "read">>)
        PROVE  /\ er \in EventBase /\ KeepsOutput(ev, er) /\ KeepsOutput(ev, End(er))
               /\ End(er) \in EventBase /\ ev.cur # SrvWrite
    BY <1>r, <1>a, <1>b, HandlerKeeps, KeepsTransitive, EventBaseType
  <1>w. ASSUME Handling(<<c, "write">>)
        PROVE  /\ ew \in EventBase /\ KeepsOutput(ev, ew) /\ KeepsOutput(ev, End(ew))
               /\ DelOutput(ew, c) \in EventBase
               /\ KeepsOutput(ev, DelOutput(ew, c)) /\ KeepsOutput(ev, End(DelOutput(ew, c)))
               /\ ev.cur # SrvWrite
    BY <1>w, <1>a, <1>b, HandlerKeeps, KeepsTransitive, EventBaseType, OthersKeepOutput
  <1> HIDE DEF er, ew
  <1> USE DEF s_vars, srvSock
  <1>1. CASE RecvAtEof(c)
    <2>1. CASE active(c)
      BY <1>1, <1>r, <2>1, OtherCallback DEF RecvAtEof, er
    <2>2. CASE ~active(c)
      BY <1>1, <1>r, <2>2, CloseOutput DEF RecvAtEof, er
    <2> QED BY <2>1, <2>2
  <1>2. CASE RecvZero(c)
    <2>1. CASE active(c)
      BY <1>2, <1>r, <2>1, OtherCallback DEF RecvZero, er
    <2>2. CASE ~active(c)
      BY <1>2, <1>r, <2>2, CloseOutput DEF RecvZero, er
    <2> QED BY <2>1, <2>2
  <1>3. CASE RecvError(c)
    BY <1>3, <1>r, CloseOutput DEF RecvError, er
  <1>4. ASSUME NEW full \in BOOLEAN, RecvData(c, full) PROVE OutputInv'
    <2>1. \E n \in 1..Len(inbox[sess[c]]) :
            requestForward(c, nreq + 1, parse(inbox[sess[c]], n),
                           IF full THEN er ELSE End(er))
      BY <1>4 DEF RecvData, er
    <2>2. nreq + 1 \in Req
      BY <1>4, BoundsAssumption DEF RecvData, TypeInv, TypeOK, MsgTypeOK, Req
    <2>3. Handling(<<c, "read">>) /\ UNCHANGED <<alive, s_dead, srvState, unacked>>
      BY <1>4 DEF RecvData
    <2> QED BY <1>r, <2>1, <2>2, <2>3, ForwardOutput
  <1>5. CASE RecvAgain(c)
    BY <1>5, <1>r, OtherCallback DEF RecvAgain, er
  <1>6. CASE SendIdle(c)
    <2>1. CASE eof[c]
      BY <1>6, <1>w, <2>1, CloseOutput DEF SendIdle, ew
    <2>2. CASE ~eof[c]
      BY <1>6, <1>w, <2>2, OtherCallback DEF SendIdle, ew
    <2> QED BY <2>1, <2>2
  <1>7. CASE SendWait(c) \/ SendAgain(c)
    BY <1>7, <1>w, OtherCallback DEF SendWait, SendAgain, ew
  <1>8. CASE SendData(c)
    BY <1>8, <1>w, OtherCallback DEF SendData, ew
  <1>9. CASE SendError(c)
    BY <1>9, <1>w, CloseOutput DEF SendError, ew
  <1>10. CASE SendSigPipe(c)
    BY <1>10, Failed DEF SendSigPipe
  <1> QED BY <1>1, <1>2, <1>3, <1>4, <1>5, <1>6, <1>7, <1>8, <1>9, <1>10 DEF ClientStep

\* Every step of the server connection's handlers.
LEMMA ServerOutput ==
    ASSUME TypeInv, OutputInv, ServerStep
    PROVE  OutputInv'
  <1> DEFINE er == At(SrvRead)
             ew == At(SrvWrite)
  <1>a. SrvRead \in Event /\ SrvWrite \in Event /\ SrvRead # SrvWrite /\ Srv \in Fd
    BY DEF Event, Fd, SrvRead, SrvWrite
  <1>b. \A e \in EventBase : KeepsOutput(e, End(e)) /\ End(e) \in EventBase
    BY <1>a, LoopKeepsOutput, EventBaseType
  <1>r. ASSUME Handling(SrvRead)
        PROVE  /\ er \in EventBase /\ KeepsOutput(ev, er) /\ KeepsOutput(ev, End(er))
               /\ End(er) \in EventBase /\ ev.cur # SrvWrite
    BY <1>r, <1>a, <1>b, HandlerKeeps, KeepsTransitive
  <1>w. ew \in EventBase /\ ew.cur = SrvWrite /\ ew.sact = ev.sact /\ ew.wreg = ev.wreg
    BY <1>a DEF At, Begin, TypeInv, Sound, EventBase
  <1> HIDE DEF er, ew
  <1> USE DEF s_vars, srvSock
  <1>1. CASE SrvRecvZero \/ SrvRecvError \/ SrvSendError \/ SrvSendSigPipe
    BY <1>1, Failed DEF SrvRecvZero, SrvRecvError, SrvSendError, SrvSendSigPipe
  <1>2. ASSUME NEW full \in BOOLEAN, SrvRecvData(full) PROVE OutputInv'
    <2> DEFINE e == IF full THEN er ELSE End(er)
    <2>1. e \in EventBase /\ KeepsOutput(ev, e) /\ ev.cur # SrvWrite
      BY <1>2, <1>r DEF SrvRecvData
    <2>2. \/ ev' = e
          \/ s_out # <<>> /\ \E body : responseForward(body, e)
      BY <1>2 DEF SrvRecvData, responseFilter, er
    <2> HIDE DEF e
    <2>3. KeepsOutput(ev, ev')
      <3>1. CASE ev' = e
        BY <2>1, <3>1
      <3>2. CASE s_out # <<>> /\ \E body : responseForward(body, e)
        <4>1. s_out \in Seq(Req) /\ 1 \in DOMAIN s_out /\ Head(s_out) = s_out[1]
          BY <3>2 DEF TypeInv, TypeOK, ServerTypeOK
        <4>2. data[Head(s_out)] \in Conn
          BY <4>1 DEF TypeInv, InFlightKnown
        <4>3. data[Head(s_out)] \in Fd /\ data[Head(s_out)] # Srv
          BY <4>2, ConnAssumption DEF Fd
        <4>4. ev' = AddOutput(e, data[Head(s_out)], sess[data[Head(s_out)]] # 0, TRUE)
          BY <3>2 DEF responseForward
        <4> QED BY <2>1, <4>3, <4>4, OthersKeepOutput, KeepsTransitive
      <3> QED BY <2>2, <3>1, <3>2
    <2> QED BY <1>2, <2>1, <2>3, OtherCallback DEF SrvRecvData
  <1>3. CASE SrvRecvAgain
    BY <1>3, <1>r, OtherCallback DEF SrvRecvAgain, er
  <1>4. CASE SrvSendIdle
    <2>1. CASE s_dead
      BY <1>4, <2>1, Failed DEF SrvSendIdle
    <2>2. CASE ~s_dead
      <3>1. ev' = End(DelOutput(ew, Srv)) /\ s_in' = <<>>
        BY <1>4, <2>2 DEF SrvSendIdle, SrvEndSend, ew
      <3>2. Srv \notin ev'.sact
        BY <1>w, <3>1 DEF End, DelOutput, EventBase
      <3> QED BY <3>1, <3>2 DEF OutputInv
    <2> QED BY <2>1, <2>2
  <1>5. ASSUME NEW more \in BOOLEAN, SrvSendData(more) PROVE OutputInv'
    <2>1. CASE s_dead
      BY <1>5, <2>1, Failed DEF SrvSendData
    <2>2. CASE ~s_dead
      <3>1. /\ ev' = ew \/ ev' = End(ew)
            /\ Srv \in unacked' /\ alive' = alive /\ s_in # <<>> /\ alive = "run"
        BY <1>5, <2>2 DEF SrvSendData, SrvEndSend, Handling, ew
      <3>2. ev'.sact = ev.sact /\ ev'.wreg = ev.wreg
        BY <1>w, <3>1 DEF End, EventBase
      <3> QED BY <2>2, <3>1, <3>2 DEF OutputInv
    <2> QED BY <2>1, <2>2
  <1>6. CASE SrvSendAgain
    <2>1. CASE s_dead
      BY <1>6, <2>1, Failed DEF SrvSendAgain
    <2>2. CASE ~s_dead
      <3>1. /\ ev' = End(ew) /\ Srv \in unacked /\ unacked' = unacked /\ s_in # <<>>
            /\ s_in' = s_in /\ alive = "run"
        BY <1>6, <2>2 DEF SrvSendAgain, SrvEndSend, Handling, ew
      <3>2. ev'.sact = ev.sact /\ ev'.wreg = ev.wreg
        BY <1>w, <3>1 DEF End, EventBase
      <3> QED BY <2>2, <3>1, <3>2 DEF OutputInv
    <2> QED BY <2>1, <2>2
  <1> QED BY <1>1, <1>2, <1>3, <1>4, <1>5, <1>6 DEF ServerStep

\* Every call of accept(), and of a callback that delConn made empty.
LEMMA ProxyOutput ==
    ASSUME TypeInv, OutputInv, ProxyStep \/ \E d \in Fd : StaleCallback(d)
    PROVE  OutputInv'
  <1> USE DEF s_vars, srvSock
  <1>a. /\ LsnRead \in Event /\ LsnRead # SrvWrite /\ Lsn \in Fd /\ Lsn # Srv
        /\ \A d \in Fd : <<d, "none">> \in Event /\ <<d, "none">> # SrvWrite
    BY ConnAssumption DEF Event, Fd, LsnRead, SrvWrite
  <1>b. \A e \in EventBase : KeepsOutput(e, End(e)) /\ End(e) \in EventBase
    BY <1>a, LoopKeepsOutput, EventBaseType
  <1>1. CASE ProxyStep
    <2> DEFINE el == At(LsnRead)
    <2>1. Handling(LsnRead)
      BY <1>1 DEF ProxyStep, AcceptConn, AcceptAgain, AcceptAborted, AcceptNoFd, AcceptError
    <2>2. el \in EventBase /\ KeepsOutput(ev, el) /\ ev.cur # SrvWrite
      BY <1>a, <2>1, HandlerKeeps
    <2>3. KeepsOutput(ev, End(el)) /\ KeepsOutput(ev, End(DelConn(el, Lsn)))
      BY <1>a, <1>b, <2>2, OthersKeepOutput, KeepsTransitive, EventBaseType
    <2> HIDE DEF el
    <2>4. KeepsOutput(ev, ev')
      <3>1. ASSUME NEW c \in Conn, AcceptConn(c) PROVE KeepsOutput(ev, ev')
        <4>1. c \in Fd /\ c # Srv
          BY ConnAssumption DEF Fd
        <4>2. \E r \in BOOLEAN : ev' = AddConn(el, c, r)
          BY <3>1 DEF AcceptConn, el
        <4> QED BY <2>2, <4>1, <4>2, OthersKeepOutput, KeepsTransitive
      <3>2. CASE AcceptAgain \/ AcceptAborted \/ AcceptNoFd \/ AcceptError
        BY <2>3, <3>2
        DEF AcceptAgain, AcceptAborted, AcceptNoFd, AcceptError, processClose, el
      <3> QED BY <1>1, <3>1, <3>2 DEF ProxyStep
    <2>5. UNCHANGED <<alive, s_in, s_dead, srvState, unacked>>
      BY <1>1 DEF ProxyStep, AcceptConn, AcceptAgain, AcceptAborted, AcceptNoFd, AcceptError
    <2> QED BY <2>2, <2>4, <2>5, OtherCallback
  <1>2. ASSUME NEW d \in Fd, StaleCallback(d) PROVE OutputInv'
    <2>1. Handling(<<d, "none">>) /\ ev' = End(At(<<d, "none">>))
      BY <1>2 DEF StaleCallback
    <2>2. KeepsOutput(ev, ev') /\ ev.cur # SrvWrite
      BY <1>a, <1>b, <2>1, HandlerKeeps, KeepsTransitive
    <2>3. UNCHANGED <<s_in, s_dead, srvState, unacked>> /\ alive = "run"
      BY <1>2 DEF StaleCallback, Handling
    <2> QED BY <2>2, <2>3, OtherCallback
  <1> QED BY <1>1, <1>2

\* Every step of a peer: the ack, the accepted connection and the reset that end a
\* wait are what makes the write event due.
LEMMA PeerOutput ==
    ASSUME TypeInv, OutputInv, PeerStep
    PROVE  OutputInv'
  <1> USE DEF srvSock, proxyVars, s_vars
  <1>a. /\ <<Lsn, "read">> \in Event /\ SrvWrite \in Event /\ SrvRead \in Event
        /\ \A c \in Conn : <<c, "write">> \in Event
    BY DEF Event, Fd, SrvWrite, SrvRead
  <1>b. ev \in EventBase
    BY DEF TypeInv, Sound
  <1>c. \A e \in EventBase, x \in Event :
          /\ Activate(e, x) \in EventBase /\ KeepsOutput(e, Activate(e, x))
          /\ Activate(e, x).cur = e.cur
          /\ x = SrvWrite /\ Srv \in e.wreg => Pending(Activate(e, x))
    BY <1>a DEF Activate, KeepsOutput, Pending, EventBase, SrvWrite
  <1>d. /\ SrvReadable(ev) \in EventBase /\ KeepsOutput(ev, SrvReadable(ev))
        /\ SrvReadable(ev).cur = ev.cur
    BY <1>a, <1>b, <1>c DEF SrvReadable, KeepsOutput, SrvRead
  <1>1. ASSUME NEW s \in Session, ClientConnect(s) \/ ClientSend(s) \/ ClientFin(s) PROVE OutputInv'
    <2>1. KeepsOutput(ev, Readable(s)) /\ Readable(s).cur = ev.cur
      BY <1>b DEF Readable, KeepsOutput, Pending, EventBase
    <2>2. KeepsOutput(ev, ev') /\ ev'.cur = ev.cur
      BY <1>1, <1>a, <1>b, <1>c, <2>1 DEF ClientConnect, ClientSend, ClientFin
    <2>3. UNCHANGED <<alive, s_in, s_dead, srvState, unacked>>
      BY <1>1 DEF ClientConnect, ClientSend, ClientFin
    <2> QED BY <2>2, <2>3, OtherPeer
  <1>2. ASSUME NEW s \in Session, ClientReset(s) PROVE OutputInv'
    <2>1. KeepsOutput(ev, ev') /\ ev'.cur = ev.cur
      BY <1>2, <1>b DEF ClientReset, Readable, KeepsOutput, Pending, EventBase
    <2>2. UNCHANGED <<alive, s_in, s_dead, srvState, unacked>>
      BY <1>2 DEF ClientReset
    <2> QED BY <2>1, <2>2, OtherPeer
  <1>3. ASSUME NEW c \in Conn, Ack(c) PROVE OutputInv'
    <2>1. KeepsOutput(ev, ev') /\ ev'.cur = ev.cur
      BY <1>3, <1>a, <1>b, <1>c DEF Ack
    <2>2. UNCHANGED <<alive, s_in, s_dead, srvState>> /\ (Srv \in unacked => Srv \in unacked')
      BY <1>3, ConnAssumption DEF Ack
    <2> QED BY <2>1, <2>2, OtherPeer
  <1>4. CASE Ack(Srv) \/ ServerAccept \/ ServerReset
    <2>1. PICK e \in EventBase : KeepsOutput(ev, e) /\ e.cur = ev.cur /\ ev' = Activate(e, SrvWrite)
      BY <1>4, <1>b, <1>d DEF Ack, ServerAccept, ServerReset, SrvWrite, KeepsOutput
    <2>2. KeepsOutput(e, ev') /\ (Srv \in e.wreg => Pending(ev'))
      BY <1>a, <1>c, <2>1
    <2>3. UNCHANGED <<alive, s_in, s_dead>>
      BY <1>4 DEF Ack, ServerAccept, ServerReset
    <2> SUFFICES ASSUME alive = "run", ~s_dead
                 PROVE  /\ s_in # <<>> => Srv \in ev'.sact
                        /\ Srv \in ev'.sact => Srv \in ev'.wreg /\ Pending(ev')
      BY <2>3 DEF OutputInv
    <2>4. Srv \in ev'.sact <=> Srv \in ev.sact
      BY <2>1, <2>2 DEF KeepsOutput
    <2>5. (s_in # <<>> => Srv \in ev.sact) /\ (Srv \in ev.sact => Srv \in ev.wreg)
      BY DEF OutputInv
    <2>6. Srv \in ev.wreg => Srv \in e.wreg /\ Srv \in ev'.wreg
      BY <2>1, <2>2 DEF KeepsOutput
    <2> QED BY <2>2, <2>4, <2>5, <2>6
  <1>5. CASE ServerReply \/ ServerStray
    <2>1. KeepsOutput(ev, ev') /\ ev'.cur = ev.cur
      BY <1>5, <1>d DEF ServerReply, ServerStray, KeepsOutput
    <2>2. UNCHANGED <<alive, s_in, s_dead, srvState, unacked>>
      BY <1>5 DEF ServerReply, ServerStray
    <2> QED BY <2>1, <2>2, OtherPeer
  <1>6. CASE ServerFin
    <2>1. KeepsOutput(ev, ev') /\ ev'.cur = ev.cur /\ srvState = "up"
          /\ UNCHANGED <<alive, s_in, s_dead, unacked>>
      BY <1>6, <1>d DEF ServerFin
    <2> QED BY <2>1 DEF OutputInv, KeepsOutput
  <1> QED BY <1>1, <1>2, <1>3, <1>4, <1>5, <1>6 DEF PeerStep

\* kevent() returns the write event, unless the connection is not established.
LEMMA WaitOutput ==
    ASSUME TypeInv, OutputInv, Wait
    PROVE  OutputInv'
  <1> DEFINE F == {e \in ev.ready : Fires(e)}
  <1>1. ev \in EventBase /\ ev.batch = {} /\ ev' = Return(ev, F)
    BY DEF Wait, TypeInv, Sound
  <1>2. SrvWrite \in ev.ready /\ srvState # "connecting" => SrvWrite \in F
    <2> SUFFICES ASSUME srvState # "connecting" PROVE Fires(SrvWrite)
      OBVIOUS
    <2>1. SrvWrite[2] = "write" /\ SrvWrite # LsnRead /\ SrvWrite # SrvRead
      BY DEF SrvWrite, SrvRead, LsnRead
    <2> QED BY <2>1, Zenon DEF Fires
  <1> HIDE DEF F
  <1>3. ev'.sact = ev.sact /\ ev'.wreg = ev.wreg /\ ev'.batch = F /\ ev'.cur = ev.cur
    BY <1>1 DEF Return, EventBase
  <1>4. UNCHANGED <<alive, s_in, s_dead, srvState, unacked>>
    BY DEF Wait, s_vars, srvSock
  <1> QED BY <1>1, <1>2, <1>3, <1>4 DEF OutputInv, Pending

\* A request that waits to be written to the server always has a write event
\* pending, running or due, as long as the server connection has not failed: the
\* addOutput that requestForward leaves out for a non-empty in_q is never missed.
THEOREM OutputArmed == Spec => []ServerOutputArmed
  <1>1. Init => OutputInv
    BY DEF Init, OutputInv, Pending
  <1>2. TypeInv /\ OutputInv /\ [Next]_vars => OutputInv'
    <2> SUFFICES ASSUME TypeInv, OutputInv, [Next]_vars PROVE OutputInv'
      OBVIOUS
    <2>1. CASE UNCHANGED vars
      BY <2>1 DEF vars, s_vars, srvSock, OutputInv, Pending
    <2> QED BY <2>1, ClientOutput, ServerOutput, ProxyOutput, PeerOutput, WaitOutput
            DEF Next, Proxy
  <1>3. OutputInv => ServerOutputArmed
    BY DEF OutputInv, ServerOutputArmed, Pending
  <1> QED BY <1>1, <1>2, <1>3, TypeInvariant, PTL DEF Spec
==============================================================================
