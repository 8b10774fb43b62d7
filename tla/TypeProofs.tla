------------------------------ MODULE TypeProofs ------------------------------
(***************************************************************************)
(* Type correctness of the proxy, and that no event reaches a connection   *)
(* without an owner.  Neither is inductive alone: a handler looks up the   *)
(* session of its connection, which exists because the event base holds    *)
(* events of connections with an owner only (Sound), and responseForward   *)
(* follows the data pointer of a request, which is a client connection     *)
(* because the request came through requestForward (InFlightKnown).  The   *)
(* first lemmas say what the operations of the event base return and leave *)
(* alone.                                                                  *)
(***************************************************************************)
EXTENDS Nutcracker, TLAPS, SequenceTheorems

\* m_send_active_ and the write knotes agree: there is no knote without the flag
\* and no active write event without a knote.
OutputSound(e) ==
    /\ e.wreg \subseteq e.sact
    /\ \A c \in Fd : <<c, "write">> \in e.ready => c \in e.wreg

\* The event base is sound for the owners ss: nothing is registered for a client
\* connection without a session.
Sound(e, ss) ==
    /\ e \in EventBase
    /\ OutputSound(e)
    /\ \A c \in Conn : ss[c] = 0 => Unregistered(e, c)

\* Every operation of NcEventBase returns an event base.
LEMMA EventBaseType ==
    ASSUME NEW e \in EventBase, NEW c \in Fd
    PROVE  /\ \A sd, w \in BOOLEAN : AddOutput(e, c, sd, w) \in EventBase
           /\ DelOutput(e, c) \in EventBase
           /\ \A r \in BOOLEAN : AddConn(e, c, r) \in EventBase
           /\ DelConn(e, c) \in EventBase
           /\ \A x \in Event : Activate(e, x) \in EventBase /\ Begin(e, x) \in EventBase
           /\ End(e) \in EventBase
  <1> USE DEF EventBase
  <1>a. <<c, "write">> \in Event /\ <<c, "read">> \in Event /\ <<c, "none">> \in Event
    BY DEF Event
  <1>1. \A sd, w \in BOOLEAN : AddOutput(e, c, sd, w) \in EventBase
    BY <1>a DEF AddOutput
  <1>2. DelOutput(e, c) \in EventBase
    BY DEF DelOutput
  <1>3. \A r \in BOOLEAN : AddConn(e, c, r) \in EventBase
    BY <1>a DEF AddConn
  <1>4. DelConn(e, c) \in EventBase
    <2> DEFINE d == DelOutput(e, c)
    <2>1. {IF y[1] = c THEN <<c, "none">> ELSE y : y \in d.batch} \subseteq Event
      BY <1>2, <1>a
    <2> QED BY <1>2, <2>1 DEF DelConn
  <1>5. \A x \in Event : Activate(e, x) \in EventBase /\ Begin(e, x) \in EventBase
    BY DEF Activate, Begin
  <1>6. End(e) \in EventBase
    BY DEF End
  <1> QED BY <1>1, <1>2, <1>3, <1>4, <1>5, <1>6

\* What delConn does, with the intermediate delOutput and the rewritten batch
\* spelled out.
LEMMA DelConnEffect ==
    ASSUME NEW e \in EventBase, NEW d \in Fd
    PROVE  /\ DelConn(e, d).sact = DelOutput(e, d).sact
           /\ DelConn(e, d).wreg = DelOutput(e, d).wreg
           /\ DelConn(e, d).cur = DelOutput(e, d).cur
           /\ DelConn(e, d).ready = DelOutput(e, d).ready \ {<<d, "read">>}
           /\ \A x \in DelConn(e, d).batch : x \in e.batch \/ x = <<d, "none">>
           /\ \A f \in {"read", "write"} : <<d, f>> \notin DelConn(e, d).batch
  <1> DEFINE o == DelOutput(e, d)
             b == {IF y[1] = d THEN <<d, "none">> ELSE y : y \in o.batch}
  <1>1. o \in EventBase /\ o.batch = e.batch
    BY EventBaseType DEF DelOutput, EventBase
  <1>2. \A x \in b : x \in e.batch \/ x = <<d, "none">>
    BY <1>1
  <1>3. \A f \in {"read", "write"} : <<d, f>> \notin b
    OBVIOUS
  <1>4. DelConn(e, d) = [o EXCEPT !.ready = @ \ {<<d, "read">>}, !.batch = b]
    BY DEF DelConn
  <1> HIDE DEF o, b
  <1>5. /\ DelConn(e, d).sact = o.sact /\ DelConn(e, d).wreg = o.wreg
        /\ DelConn(e, d).cur = o.cur /\ DelConn(e, d).batch = b
        /\ DelConn(e, d).ready = o.ready \ {<<d, "read">>}
    BY <1>1, <1>4 DEF EventBase
  <1> QED BY <1>2, <1>3, <1>5 DEF o

\* An operation on connection d gives nothing to deliver to another connection,
\* an operation that only takes away gives nothing to any, and an addOutput on a
\* closed descriptor registers nothing.
LEMMA UnregisteredKept ==
    ASSUME NEW e \in EventBase, NEW c \in Fd, NEW d \in Fd,
           None \notin Event, Unregistered(e, c)
    PROVE  /\ Unregistered(DelOutput(e, d), c)
           /\ Unregistered(DelConn(e, d), c)
           /\ Unregistered(End(e), c)
           /\ \A sd, w \in BOOLEAN : c # d \/ ~sd => Unregistered(AddOutput(e, d, sd, w), c)
           /\ \A r \in BOOLEAN : c # d => Unregistered(AddConn(e, d, r), c)
           /\ \A f \in {"read", "write", "none"} :
                /\ c # d \/ f = "none" => Unregistered(Begin(e, <<d, f>>), c)
                /\ c # d \/ f # "read" => Unregistered(Activate(e, <<d, f>>), c)
  <1> USE DEF EventBase
  <1>a. <<c, "read">> \in Event /\ <<c, "write">> \in Event
    BY DEF Event
  <1>1. Unregistered(DelOutput(e, d), c)
    BY DEF Unregistered, DelOutput
  <1>2. Unregistered(DelConn(e, d), c)
    <2> DEFINE o == DelOutput(e, d)
               g == DelConn(e, d)
    <2>1. /\ g.wreg = o.wreg /\ g.cur = o.cur /\ g.ready = o.ready \ {<<d, "read">>}
          /\ \A x \in g.batch : x \in e.batch \/ x = <<d, "none">>
      BY DelConnEffect
    <2>2. Unregistered(o, c)
      BY <1>1
    <2> HIDE DEF o, g
    <2>3. Unregistered(g, c)
      BY <2>1, <2>2 DEF Unregistered
    <2> QED BY <2>3 DEF g
  <1>3. Unregistered(End(e), c)
    BY <1>a DEF Unregistered, End
  <1>4. \A sd, w \in BOOLEAN : c # d \/ ~sd => Unregistered(AddOutput(e, d, sd, w), c)
    BY DEF Unregistered, AddOutput
  <1>5. \A r \in BOOLEAN : c # d => Unregistered(AddConn(e, d, r), c)
    BY DEF Unregistered, AddConn
  <1>6. \A f \in {"read", "write", "none"} :
          /\ c # d \/ f = "none" => Unregistered(Begin(e, <<d, f>>), c)
          /\ c # d \/ f # "read" => Unregistered(Activate(e, <<d, f>>), c)
    BY DEF Unregistered, Begin, Activate
  <1> QED BY <1>1, <1>2, <1>3, <1>4, <1>5, <1>6

\* Every operation keeps flags and knotes in agreement.
LEMMA OutputSoundKept ==
    ASSUME NEW e \in EventBase, NEW d \in Fd, OutputSound(e)
    PROVE  /\ OutputSound(DelOutput(e, d))
           /\ OutputSound(DelConn(e, d))
           /\ OutputSound(End(e))
           /\ \A sd, w \in BOOLEAN : OutputSound(AddOutput(e, d, sd, w))
           /\ \A r \in BOOLEAN : OutputSound(AddConn(e, d, r))
           /\ \A x \in Event : OutputSound(Begin(e, x)) /\ OutputSound(Activate(e, x))
  <1> USE DEF EventBase
  <1>1. OutputSound(DelOutput(e, d))
    BY DEF OutputSound, DelOutput
  <1>2. OutputSound(DelConn(e, d))
    <2> DEFINE o == DelOutput(e, d)
               g == DelConn(e, d)
    <2>1. g.sact = o.sact /\ g.wreg = o.wreg /\ g.ready = o.ready \ {<<d, "read">>}
      BY DelConnEffect
    <2>2. OutputSound(o)
      BY <1>1
    <2> HIDE DEF o, g
    <2>3. OutputSound(g)
      BY <2>1, <2>2 DEF OutputSound
    <2> QED BY <2>3 DEF g
  <1>3. OutputSound(End(e))
    BY DEF OutputSound, End
  <1>4. \A sd, w \in BOOLEAN : OutputSound(AddOutput(e, d, sd, w))
    BY DEF OutputSound, AddOutput
  <1>5. \A r \in BOOLEAN : OutputSound(AddConn(e, d, r))
    BY DEF OutputSound, AddConn
  <1>6. \A x \in Event : OutputSound(Begin(e, x)) /\ OutputSound(Activate(e, x))
    BY DEF OutputSound, Begin, Activate
  <1> QED BY <1>1, <1>2, <1>3, <1>4, <1>5, <1>6

\* The operations keep the event base sound for the owners ss, as long as what is
\* registered or begun is for a connection that has a session.
LEMMA SoundKept ==
    ASSUME NEW e, NEW ss, NEW d \in Fd, None \notin Event, Sound(e, ss)
    PROVE  /\ Sound(DelOutput(e, d), ss)
           /\ Sound(DelConn(e, d), ss)
           /\ Sound(End(e), ss)
           /\ \A sd, w \in BOOLEAN :
                (d \in Conn /\ sd => ss[d] # 0) => Sound(AddOutput(e, d, sd, w), ss)
           /\ \A r \in BOOLEAN : (d \in Conn => ss[d] # 0) => Sound(AddConn(e, d, r), ss)
           /\ \A f \in {"read", "write", "none"} :
                /\ (d \in Conn /\ f # "none" => ss[d] # 0) => Sound(Begin(e, <<d, f>>), ss)
                /\ (d \in Conn /\ f = "read" => ss[d] # 0) => Sound(Activate(e, <<d, f>>), ss)
  <1>a. \A c \in Conn : c \in Fd
    BY DEF Fd
  <1>b. \A f \in {"read", "write", "none"} : <<d, f>> \in Event
    BY DEF Event
  <1>1. Sound(DelOutput(e, d), ss) /\ Sound(DelConn(e, d), ss) /\ Sound(End(e), ss)
    BY <1>a, EventBaseType, OutputSoundKept, UnregisteredKept DEF Sound
  <1>2. ASSUME NEW sd \in BOOLEAN, NEW w \in BOOLEAN, d \in Conn /\ sd => ss[d] # 0
        PROVE  Sound(AddOutput(e, d, sd, w), ss)
    BY <1>2, <1>a, EventBaseType, OutputSoundKept, UnregisteredKept DEF Sound
  <1>3. ASSUME NEW r \in BOOLEAN, d \in Conn => ss[d] # 0
        PROVE  Sound(AddConn(e, d, r), ss)
    BY <1>3, <1>a, EventBaseType, OutputSoundKept, UnregisteredKept DEF Sound
  <1>4. ASSUME NEW f \in {"read", "write", "none"}, d \in Conn /\ f # "none" => ss[d] # 0
        PROVE  Sound(Begin(e, <<d, f>>), ss)
    BY <1>4, <1>a, <1>b, EventBaseType, OutputSoundKept, UnregisteredKept DEF Sound
  <1>5. ASSUME NEW f \in {"read", "write", "none"}, d \in Conn /\ f = "read" => ss[d] # 0
        PROVE  Sound(Activate(e, <<d, f>>), ss)
    BY <1>5, <1>a, <1>b, EventBaseType, OutputSoundKept, UnregisteredKept DEF Sound
  <1> QED BY <1>1, <1>2, <1>3, <1>4, <1>5

\* After delConn at the end of the callback, connection c may lose its owner.
LEMMA SoundClosed ==
    ASSUME NEW e, NEW S, NEW ss \in [Conn -> S], NEW c \in Conn, None \notin Event,
           Sound(e, ss)
    PROVE  Sound(End(DelConn(e, c)), [ss EXCEPT ![c] = 0])
  <1> DEFINE g == DelConn(e, c)
  <1>a. c \in Fd /\ <<c, "read">> \in Event /\ <<c, "write">> \in Event
    BY DEF Fd, Event
  <1>1. Sound(End(g), ss) /\ g \in EventBase
    BY <1>a, SoundKept DEF Sound
  <1>2. c \notin g.wreg /\ \A f \in {"read", "write"} : <<c, f>> \notin g.ready \cup g.batch
    <2>1. c \notin DelOutput(e, c).wreg /\ <<c, "write">> \notin DelOutput(e, c).ready
      BY <1>a DEF DelOutput, EventBase, Sound, OutputSound
    <2> QED BY <1>a, <2>1, DelConnEffect DEF Sound
  <1> HIDE DEF g
  <1>3. Unregistered(End(g), c)
    BY <1>a, <1>1, <1>2 DEF Unregistered, End, EventBase
  <1> QED BY <1>1, <1>3 DEF Sound, g

------------------------------------------------------------------------------

InFlightKnown ==
    /\ \A i \in DOMAIN s_in : data[s_in[i]] \in Conn
    /\ \A i \in DOMAIN s_out : data[s_out[i]] \in Conn

TypeInv == TypeOK /\ Sound(ev, sess) /\ InFlightKnown

------------------------------------------------------------------------------
\* What is left after the first n elements of a sequence went.
LEMMA UnsentProperties ==
    ASSUME NEW S, NEW q \in Seq(S), NEW n \in Nat
    PROVE  /\ Unsent(q, n) \in Seq(S)
           /\ Len(Unsent(q, n)) = IF n < Len(q) THEN Len(q) - n ELSE 0
           /\ \A i \in 1..(Len(q) - n) : Unsent(q, n)[i] = q[n + i]
  <1>1. \A i \in (n + 1)..Len(q) : q[i] \in S
    OBVIOUS
  <1> QED BY <1>1, SubSeqProperties DEF Unsent

\* What one read or one write takes off the front of a sequence.
LEMMA PrefixProperties ==
    ASSUME NEW S, NEW q \in Seq(S), NEW n \in 0..Len(q)
    PROVE  /\ SubSeq(q, 1, n) \in Seq(S)
           /\ Len(SubSeq(q, 1, n)) = n
           /\ \A i \in 1..n : SubSeq(q, 1, n)[i] = q[i]
  <1>1. \A i \in 1..n : q[i] \in S
    OBVIOUS
  <1> QED BY <1>1, SubSeqProperties

\* Both parts of a sequence cut after n elements are sequences of the same set.
LEMMA CutType ==
    ASSUME NEW S, NEW q \in Seq(S), NEW n \in 1..Len(q)
    PROVE  SubSeq(q, 1, n) \in Seq(S) /\ Unsent(q, n) \in Seq(S)
  <1>1. n \in Nat /\ n \in 0..Len(q)
    OBVIOUS
  <1>2. SubSeq(q, 1, n) \in Seq(S)
    BY <1>1, PrefixProperties
  <1>3. Unsent(q, n) \in Seq(S)
    BY <1>1, UnsentProperties
  <1> QED BY <1>2, <1>3

\* A sequence is its two parts put together again.
LEMMA CutWhole ==
    ASSUME NEW S, NEW q \in Seq(S), NEW k \in 0..Len(q)
    PROVE  SubSeq(q, 1, k) \o Unsent(q, k) = q
  <1>1. 1 \in 1..(Len(q) + 1) /\ k \in (1 - 1)..Len(q) /\ Len(q) \in k..Len(q)
    OBVIOUS
  <1>2. SubSeq(q, 1, k) \o SubSeq(q, k + 1, Len(q)) = SubSeq(q, 1, Len(q))
    BY <1>1, ConcatAdjacentSubSeq, Zenon
  <1>3. SubSeq(q, 1, Len(q)) = q
    BY SubSeqFull, Zenon
  <1> QED BY <1>2, <1>3 DEF Unsent

\* Where the elements of two sequences stand in their concatenation.
LEMMA ConcatIndex ==
    ASSUME NEW S, NEW q \in Seq(S), NEW r \in Seq(S)
    PROVE  /\ DOMAIN (q \o r) = 1..(Len(q) + Len(r))
           /\ \A i \in DOMAIN q : i \in DOMAIN (q \o r) /\ (q \o r)[i] = q[i]
           /\ \A i \in DOMAIN r : /\ i + Len(q) \in DOMAIN (q \o r)
                                  /\ (q \o r)[i + Len(q)] = r[i]
           /\ \A i \in DOMAIN (q \o r) : \/ /\ i \in DOMAIN q
                                             /\ (q \o r)[i] = q[i]
                                          \/ /\ i - Len(q) \in DOMAIN r
                                             /\ (q \o r)[i] = r[i - Len(q)]
  <1>1. /\ Len(q \o r) = Len(q) + Len(r) /\ q \o r \in Seq(S)
        /\ \A i \in 1..(Len(q) + Len(r)) :
             (q \o r)[i] = IF i <= Len(q) THEN q[i] ELSE r[i - Len(q)]
    BY ConcatProperties
  <1> DEFINE w == q \o r
  <1>2. w \in Seq(S) /\ Len(w) = Len(q) + Len(r)
        /\ \A i \in 1..Len(w) : w[i] = IF i <= Len(q) THEN q[i] ELSE r[i - Len(q)]
    BY <1>1
  <1> HIDE DEF w
  <1>3. DOMAIN w = 1..(Len(q) + Len(r))
    BY <1>2
  <1>4. \A i \in DOMAIN q : i \in DOMAIN w /\ w[i] = q[i]
    BY <1>2
  <1>5. \A i \in DOMAIN r : i + Len(q) \in DOMAIN w /\ w[i + Len(q)] = r[i]
    <2> SUFFICES ASSUME NEW i \in DOMAIN r
                 PROVE  i + Len(q) \in DOMAIN w /\ w[i + Len(q)] = r[i]
      OBVIOUS
    <2>1. i \in 1..Len(r) /\ Len(q) \in Nat /\ Len(r) \in Nat
      OBVIOUS
    <2>2. i + Len(q) \in 1..Len(w) /\ ~(i + Len(q) <= Len(q)) /\ (i + Len(q)) - Len(q) = i
      BY <1>2, <2>1
    <2> QED BY <1>2, <1>3, <2>2
  <1>6. \A i \in DOMAIN w : \/ (i \in DOMAIN q /\ w[i] = q[i])
                            \/ (i - Len(q) \in DOMAIN r /\ w[i] = r[i - Len(q)])
    BY <1>2
  <1> QED BY <1>3, <1>4, <1>5, <1>6 DEF w

\* A message of a session is a sequence of chunks.
LEMMA FrameType ==
    ASSUME NEW s \in Session, NEW n \in 0..MaxSend
    PROVE  Frame(s, n) \in Seq(Chunk)
  <1>1. Chunks \in Nat
    BY BoundsAssumption
  <1>2. \A k \in 1..Chunks : <<s, n, k>> \in Chunk
    BY DEF Chunk
  <1> QED BY <1>1, <1>2 DEF Frame

\* The scatter list of sendChain holds bytes of a request.
LEMMA IovType ==
    ASSUME TypeOK, s_in # <<>>
    PROVE  Iov \in Seq(Chunk)
  <1> DEFINE m == req[Head(s_in)]
             copies == IF Len(s_in) = 1 THEN 1 ELSE IovMax
  <1>1. m \in Seq(Chunk) /\ copies \in Nat
    BY BoundsAssumption DEF TypeOK, ServerTypeOK, MsgTypeOK
  <1> HIDE DEF m, copies
  <1>2. copies * Len(m) \in Nat
    BY <1>1
  <1>3. ASSUME NEW i \in 1..(copies * Len(m))
        PROVE  m[((i - 1) % Len(m)) + 1] \in Chunk
    <2>1. Len(m) # 0
      <3>1. copies * 0 = 0
        BY <1>1
      <3> QED BY <3>1
    <2>2. (i - 1) % Len(m) \in 0..(Len(m) - 1)
      BY <1>1, <2>1
    <2> QED BY <1>1, <2>2
  <1>4. [i \in 1..(copies * Len(m)) |-> m[((i - 1) % Len(m)) + 1]] \in Seq(Chunk)
    BY <1>2, <1>3
  <1> QED BY <1>4 DEF Iov, m, copies

------------------------------------------------------------------------------
\* A handler of a client connection runs for a connection that has a session, and
\* starts from a sound event base.
LEMMA HandlerSound ==
    ASSUME TypeInv, NEW c \in Conn, NEW f \in {"read", "write"}, Handling(<<c, f>>)
    PROVE  sess[c] \in Session /\ Sound(At(<<c, f>>), sess)
  <1>1. sess[c] # 0
    BY DEF TypeInv, Sound, Unregistered, Handling, Running
  <1>2. sess[c] \in Session
    BY <1>1 DEF TypeInv, TypeOK, ConnTypeOK
  <1>3. Sound(At(<<c, f>>), sess)
    BY <1>1, SoundKept, ConnAssumption DEF At, TypeInv, Fd
  <1> QED BY <1>2, <1>3

\* ... and so does one of the server connection or of the listener.
LEMMA OtherSound ==
    ASSUME TypeInv, NEW d \in {Srv, Lsn}, NEW f \in {"read", "write", "none"}
    PROVE  Sound(At(<<d, f>>), sess)
  <1>1. d \in Fd /\ d \notin Conn
    BY ConnAssumption DEF Fd
  <1> QED BY <1>1, SoundKept, ConnAssumption DEF At, TypeInv

\* mbuf_pool stays a number of mbufs.
LEMMA PoolType ==
    ASSUME TypeOK
    PROVE  /\ \A n \in Nat : PoolFree(n) \in 0..2
           /\ \A r \in BOOLEAN : PoolAfterDiscard(r) \in 0..2
  BY DEF TypeOK, MsgTypeOK, PoolFree, PoolAfterDiscard, Room

\* close gives every variable a value of its type.
LEMMA CloseTypeInv ==
    ASSUME TypeInv, NEW c \in Conn, NEW e0, NEW pool \in 0..2,
           Sound(e0, sess), sess[c] \in Session, close(c, e0, pool)
    PROVE  TypeInv'
  <1> USE DEF TypeInv, TypeOK
  <1>1. Sound(ev, sess)'
    BY SoundClosed, ConnAssumption DEF close, processClose, ConnTypeOK
  <1>2. ProcessTypeOK'
    BY <1>1 DEF close, ProcessTypeOK, Sound
  <1>3. SocketTypeOK'
    BY DEF close, SocketTypeOK, SessionState, srvSock
  <1>4. ConnTypeOK'
    BY DEF close, ConnTypeOK
  <1>5. ServerTypeOK' /\ InFlightKnown'
    BY DEF close, ServerTypeOK, s_vars, InFlightKnown
  <1>6. MsgTypeOK'
    BY DEF close, MsgTypeOK
  <1> QED BY <1>1, <1>2, <1>3, <1>4, <1>5, <1>6

\* requestForward from a client connection in the middle of its read handler.
LEMMA ForwardTypeInv ==
    ASSUME TypeInv, NEW c \in Conn, NEW e0, NEW body \in Seq(Chunk),
           Sound(e0, sess), nreq < MaxReq, requestForward(c, nreq + 1, body, e0)
    PROVE  /\ Sound(ev', sess)
           /\ s_in' \in Seq(Req) /\ cq' \in [Conn -> Seq(Req)]
           /\ nreq' \in 0..MaxReq /\ data' \in [Req -> Conn \cup {None}]
           /\ req' \in [Req -> Seq(Chunk)]
           /\ s_out' = s_out => InFlightKnown'
  <1> USE DEF TypeInv, TypeOK
  <1> DEFINE p == nreq + 1
  <1>1. p \in Req
    BY BoundsAssumption DEF MsgTypeOK, Req
  <1>2. Sound(ev', sess)
    <2>1. Srv \in Fd /\ Srv \notin Conn
      BY ConnAssumption DEF Fd
    <2>2. Sound(AddOutput(e0, Srv, TRUE, srvState # "connecting"), sess)
      BY <2>1, SoundKept, ConnAssumption
    <2> QED BY <2>2 DEF requestForward
  <1>3. s_in' \in Seq(Req) /\ cq' \in [Conn -> Seq(Req)]
    BY <1>1 DEF requestForward, ServerTypeOK, ConnTypeOK
  <1>4. /\ nreq' \in 0..MaxReq /\ data' \in [Req -> Conn \cup {None}]
        /\ req' \in [Req -> Seq(Chunk)]
    BY <1>1, BoundsAssumption DEF requestForward, MsgTypeOK
  <1>5. ASSUME s_out' = s_out PROVE InFlightKnown'
    <2>1. \A q \in Req : data[q] \in Conn => data'[q] \in Conn
      BY <1>1 DEF requestForward, MsgTypeOK
    <2>2. data'[p] \in Conn
      BY <1>1 DEF requestForward, MsgTypeOK
    <2>3. \A i \in DOMAIN s_in' : data'[s_in'[i]] \in Conn
      <3> SUFFICES ASSUME NEW i \in DOMAIN s_in' PROVE data'[s_in'[i]] \in Conn
        OBVIOUS
      <3>1. s_in \in Seq(Req) /\ s_in' = Append(s_in, p)
        BY DEF requestForward, ServerTypeOK
      <3>2. s_in'[i] = p \/ (i \in DOMAIN s_in /\ s_in'[i] = s_in[i])
        BY <1>1, <3>1
      <3>3. i \in DOMAIN s_in => data[s_in[i]] \in Conn /\ s_in[i] \in Req
        BY <3>1 DEF InFlightKnown
      <3> QED BY <2>1, <2>2, <3>2, <3>3
    <2>4. \A i \in DOMAIN s_out' : data'[s_out'[i]] \in Conn
      BY <1>5, <2>1 DEF InFlightKnown, ServerTypeOK
    <2> QED BY <2>3, <2>4 DEF InFlightKnown
  <1> QED BY <1>2, <1>3, <1>4, <1>5

\* A step that ends or goes on with a handler and changes nothing but the event
\* base, the reserved message, m_eof_ and mbuf_pool of a connection.
LEMMA QuietTypeInv ==
    ASSUME TypeInv, Sound(ev', sess),
           rmsg' \in [Conn -> BOOLEAN], eof' \in [Conn -> BOOLEAN],
           s_rmsg' \in BOOLEAN, s_dead' \in BOOLEAN, mbuf_pool' \in 0..2,
           alive' \in {"run", "exit", "abort"},
           UNCHANGED <<peerVars, srvSock, unacked, p_dead, sess, cq, c_pool, s_in,
                       s_out, msgVars>>
    PROVE  TypeInv'
  <1> USE DEF peerVars, srvSock, msgVars
  <1>1. ProcessTypeOK' /\ SocketTypeOK'
    BY DEF TypeInv, TypeOK, ProcessTypeOK, SocketTypeOK, Sound
  <1>2. ConnTypeOK' /\ ServerTypeOK' /\ MsgTypeOK'
    BY DEF TypeInv, TypeOK, ConnTypeOK, ServerTypeOK, MsgTypeOK
  <1>3. InFlightKnown' /\ Sound(ev, sess)'
    BY DEF TypeInv, InFlightKnown
  <1> QED BY <1>1, <1>2, <1>3 DEF TypeInv, TypeOK

\* Every step of a client connection's handlers keeps TypeInv.
LEMMA ClientTypeInv ==
    ASSUME TypeInv, NEW c \in Conn, ClientStep(c)
    PROVE  TypeInv'
  <1> DEFINE er == At(<<c, "read">>)
             ew == At(<<c, "write">>)
  <1>a. c \in Fd /\ None \notin Event
    BY ConnAssumption DEF Fd
  <1>b. rmsg[c] \in BOOLEAN /\ rmsg \in [Conn -> BOOLEAN] /\ eof \in [Conn -> BOOLEAN]
        /\ mbuf_pool \in 0..2 /\ s_rmsg \in BOOLEAN /\ s_dead \in BOOLEAN
        /\ alive \in {"run", "exit", "abort"}
    BY DEF TypeInv, TypeOK, ConnTypeOK, MsgTypeOK, ServerTypeOK, ProcessTypeOK
  <1>c. PoolFree(1) \in 0..2 /\ PoolAfterDiscard(rmsg[c]) \in 0..2
    BY <1>b, PoolType DEF TypeInv
  <1>r. ASSUME Handling(<<c, "read">>)
        PROVE  sess[c] \in Session /\ Sound(er, sess) /\ Sound(End(er), sess)
    BY <1>r, <1>a, HandlerSound, SoundKept
  <1>w. ASSUME Handling(<<c, "write">>)
        PROVE  sess[c] \in Session /\ Sound(ew, sess) /\ Sound(End(ew), sess)
               /\ Sound(DelOutput(ew, c), sess) /\ Sound(End(DelOutput(ew, c)), sess)
    BY <1>w, <1>a, HandlerSound, SoundKept
  <1> HIDE DEF er, ew
  <1> USE DEF connVars, s_vars
  <1>1. CASE RecvAtEof(c)
    <2>1. CASE active(c)
      BY <1>1, <2>1, <1>b, <1>c, <1>r, QuietTypeInv DEF RecvAtEof, er
    <2>2. CASE ~active(c)
      BY <1>1, <2>2, <1>b, <1>c, <1>r, CloseTypeInv DEF RecvAtEof, er
    <2> QED BY <2>1, <2>2
  <1>2. CASE RecvZero(c)
    <2>1. CASE active(c)
      BY <1>2, <2>1, <1>b, <1>c, <1>r, QuietTypeInv DEF RecvZero, er
    <2>2. CASE ~active(c)
      BY <1>2, <2>2, <1>b, <1>c, <1>r, CloseTypeInv DEF RecvZero, er
    <2> QED BY <2>1, <2>2
  <1>3. CASE RecvError(c)
    BY <1>3, <1>c, <1>r, CloseTypeInv DEF RecvError, er
  <1>4. ASSUME NEW full \in BOOLEAN, RecvData(c, full) PROVE TypeInv'
    <2>1. inbox[sess[c]] \in Seq(Chunk)
      BY <1>4, <1>r DEF RecvData, TypeInv, TypeOK, SocketTypeOK
    <2>2. PICK n \in 1..Len(inbox[sess[c]]) :
            /\ requestForward(c, nreq + 1, parse(inbox[sess[c]], n),
                              IF full THEN er ELSE End(er))
            /\ inbox' = [inbox EXCEPT ![sess[c]] = Unsent(@, n)]
      BY <1>4 DEF RecvData, er
    <2>3. parse(inbox[sess[c]], n) \in Seq(Chunk) /\ Unsent(inbox[sess[c]], n) \in Seq(Chunk)
      BY <2>1, CutType DEF parse
    <2>4. Sound(IF full THEN er ELSE End(er), sess)
      BY <1>4, <1>r DEF RecvData
    <2>5. /\ Sound(ev', sess)
          /\ s_in' \in Seq(Req) /\ cq' \in [Conn -> Seq(Req)]
          /\ nreq' \in 0..MaxReq /\ data' \in [Req -> Conn \cup {None}]
          /\ req' \in [Req -> Seq(Chunk)]
          /\ InFlightKnown'
      BY <1>4, <2>2, <2>3, <2>4, ForwardTypeInv DEF RecvData
    <2>6. ProcessTypeOK' /\ SocketTypeOK'
      BY <1>4, <1>r, <2>2, <2>3, <2>5
      DEF RecvData, TypeInv, TypeOK, ProcessTypeOK, SocketTypeOK, Sound, srvSock
    <2>7. ConnTypeOK' /\ ServerTypeOK' /\ MsgTypeOK'
      BY <1>4, <1>b, <2>5 DEF RecvData, TypeInv, TypeOK, ConnTypeOK, ServerTypeOK, MsgTypeOK
    <2>8. Sound(ev, sess)'
      BY <1>4, <2>5 DEF RecvData
    <2> QED BY <2>5, <2>6, <2>7, <2>8 DEF TypeInv, TypeOK
  <1>5. CASE RecvAgain(c)
    BY <1>5, <1>b, <1>r, QuietTypeInv DEF RecvAgain, er
  <1>6. CASE SendIdle(c)
    <2>1. CASE eof[c]
      BY <1>6, <2>1, <1>b, <1>c, <1>w, CloseTypeInv DEF SendIdle, ew
    <2>2. CASE ~eof[c]
      BY <1>6, <2>2, <1>b, <1>w, QuietTypeInv DEF SendIdle, ew
    <2> QED BY <2>1, <2>2
  <1>7. CASE SendWait(c)
    BY <1>7, <1>b, <1>w, QuietTypeInv DEF SendWait, ew
  <1>8. CASE SendData(c)
    <2> DEFINE p == Head(cq[c])
    <2>1. p \in Req /\ cq[c] \in Seq(Req) /\ Tail(cq[c]) \in Seq(Req)
      BY <1>8 DEF SendData, TypeInv, TypeOK, ConnTypeOK
    <2>2. rsp[p] \in Seq(Chunk) /\ got[sess[c]] \in Seq(Chunk)
      BY <1>8, <1>w, <2>1 DEF SendData, TypeInv, TypeOK, SocketTypeOK, MsgTypeOK
    <2>3. PICK n \in 1..Len(rsp[p]) :
            /\ got' = [got EXCEPT ![sess[c]] = @ \o SubSeq(rsp[p], 1, n)]
            /\ rsp' = [rsp EXCEPT ![p] = Unsent(@, n)]
            /\ IF n = Len(rsp[p]) THEN sendDone(c, p) ELSE UNCHANGED <<cq, freed, mbuf_pool>>
      BY <1>8 DEF SendData
    <2> HIDE DEF p
    <2>4. SubSeq(rsp[p], 1, n) \in Seq(Chunk) /\ Unsent(rsp[p], n) \in Seq(Chunk)
      BY <2>2, CutType
    <2>p. PoolFree(2) \in 0..2
      BY PoolType DEF TypeInv
    <2>5. cq' \in [Conn -> Seq(Req)] /\ freed' \in [Req -> Nat] /\ mbuf_pool' \in 0..2
      <3>1. CASE n = Len(rsp[p])
        <4>1. sendDone(c, p)
          BY <2>3, <3>1
        <4>2. cq' \in [Conn -> Seq(Req)]
          BY <2>1, <4>1 DEF sendDone, TypeInv, TypeOK, ConnTypeOK
        <4>3. freed' \in [Req -> Nat] /\ mbuf_pool' \in 0..2
          BY <2>1, <2>p, <4>1 DEF sendDone, TypeInv, TypeOK, MsgTypeOK
        <4> QED BY <4>2, <4>3
      <3>2. CASE n # Len(rsp[p])
        BY <2>3, <3>2 DEF TypeInv, TypeOK, ConnTypeOK, MsgTypeOK
      <3> QED BY <3>1, <3>2
    <2>g. got' \in [Session -> Seq(Chunk)] /\ rsp' \in [Req -> Seq(Chunk)]
      <3>1. got[sess[c]] \o SubSeq(rsp[p], 1, n) \in Seq(Chunk)
        BY <2>2, <2>4, ConcatProperties
      <3>2. got' \in [Session -> Seq(Chunk)]
        BY <2>3, <3>1 DEF TypeInv, TypeOK, SocketTypeOK
      <3>3. rsp' \in [Req -> Seq(Chunk)]
        BY <2>3, <2>4 DEF TypeInv, TypeOK, MsgTypeOK
      <3> QED BY <3>2, <3>3
    <2>6. Sound(ev, sess)'
      BY <1>8, <1>w DEF SendData, ew
    <2>7. ProcessTypeOK' /\ SocketTypeOK'
      BY <1>8, <2>g, <2>6
      DEF SendData, TypeInv, TypeOK, ProcessTypeOK, SocketTypeOK, Sound, srvSock
    <2>8. ConnTypeOK' /\ ServerTypeOK' /\ MsgTypeOK' /\ InFlightKnown'
      BY <1>8, <2>g, <2>5
      DEF SendData, TypeInv, TypeOK, ConnTypeOK, ServerTypeOK, MsgTypeOK, InFlightKnown
    <2> QED BY <2>6, <2>7, <2>8 DEF TypeInv, TypeOK
  <1>9. CASE SendAgain(c)
    BY <1>9, <1>b, <1>w, QuietTypeInv DEF SendAgain, ew
  <1>10. CASE SendError(c)
    BY <1>10, <1>b, <1>c, <1>w, CloseTypeInv DEF SendError, ew
  <1>11. CASE SendSigPipe(c)
    BY <1>11, <1>b, QuietTypeInv DEF SendSigPipe, TypeInv
  <1> QED BY <1>1, <1>2, <1>3, <1>4, <1>5, <1>6, <1>7, <1>8, <1>9, <1>10, <1>11 DEF ClientStep

------------------------------------------------------------------------------
\* Pairing a response with the oldest outstanding request.
LEMMA PairTypeInv ==
    ASSUME TypeInv, NEW e0, NEW body \in Seq(Chunk), Sound(e0, sess), s_out # <<>>,
           responseForward(body, e0)
    PROVE  /\ Sound(ev', sess)
           /\ s_out' \in Seq(Req) /\ done' \in [Req -> BOOLEAN]
           /\ rsp' \in [Req -> Seq(Chunk)] /\ mbuf_pool' \in 0..2
           /\ \A i \in DOMAIN s_out' : data[s_out'[i]] \in Conn
  <1> USE DEF TypeInv, TypeOK
  <1> DEFINE p == Head(s_out)
  <1>1. s_out \in Seq(Req) /\ p \in Req /\ p = s_out[1] /\ 1 \in DOMAIN s_out
    BY DEF ServerTypeOK
  <1>2. data[p] \in Conn
    BY <1>1 DEF InFlightKnown
  <1>3. Sound(ev', sess)
    BY <1>2, SoundKept, ConnAssumption DEF responseForward, Fd
  <1>4. s_out' \in Seq(Req) /\ \A i \in DOMAIN s_out' : data[s_out'[i]] \in Conn
    <2>1. s_out' = Tail(s_out)
      BY DEF responseForward
    <2>2. \A i \in 1..Len(Tail(s_out)) : Tail(s_out)[i] = s_out[i + 1] /\ i + 1 \in DOMAIN s_out
      BY <1>1
    <2>3. Tail(s_out) \in Seq(Req)
      BY <1>1
    <2> QED BY <2>1, <2>2, <2>3 DEF InFlightKnown
  <1>5. /\ done' \in [Req -> BOOLEAN] /\ rsp' \in [Req -> Seq(Chunk)]
        /\ mbuf_pool' \in 0..2
    BY <1>1 DEF responseForward, MsgTypeOK
  <1> QED BY <1>3, <1>4, <1>5

\* The number of requests one write completes is 0, 1 or 2, and they are there.
LEMMA CompletedRange ==
    ASSUME TypeOK, s_in # <<>>, NEW n \in Nat
    PROVE  Completed(n) \in 0..2 /\ Completed(n) <= Len(s_in)
  <1>1. s_in \in Seq(Req) /\ Len(s_in) \in Nat /\ Len(s_in) >= 1
    BY DEF TypeOK, ServerTypeOK
  <1> DEFINE l1 == Len(req[Head(s_in)])
             l2 == Len(req[s_in[2]])
  <1>2. l1 \in Nat
    BY <1>1 DEF TypeOK, ServerTypeOK, MsgTypeOK
  <1>3. Completed(n) = IF n - l1 < 0 THEN 0
                       ELSE IF Len(s_in) > 1 /\ n - l1 > 0 /\ n - l1 >= l2 THEN 2 ELSE 1
    BY DEF Completed
  <1> HIDE DEF l1, l2
  <1> QED BY <1>1, <1>2, <1>3

\* Moving requests from the front of in_q to the end of out_q leaves the requests
\* in flight, oldest first, as they are.
LEMMA InFlightMoved ==
    ASSUME TypeOK, NEW k \in 0..2, k <= Len(s_in)
    PROVE  /\ Outstanding(k) \in Seq(Req) /\ Unsent(s_in, k) \in Seq(Req)
           /\ Outstanding(k) \o Unsent(s_in, k) = InFlight
  <1> DEFINE a == SubSeq(s_in, 1, k)
             b == Unsent(s_in, k)
  <1>1. s_in \in Seq(Req) /\ s_out \in Seq(Req) /\ k \in 0..Len(s_in) /\ k \in Nat
    BY DEF TypeOK, ServerTypeOK
  <1>2. a \in Seq(Req) /\ b \in Seq(Req)
    BY <1>1, PrefixProperties, UnsentProperties
  <1>3. a \o b = s_in
    BY <1>1, CutWhole
  <1> HIDE DEF a, b
  <1>4. (s_out \o a) \o b = s_out \o (a \o b)
    <2>1. s_out \in Seq(Req) /\ a \in Seq(Req) /\ b \in Seq(Req)
      BY <1>1, <1>2
    <2> QED BY ONLY <2>1, ConcatAssociative
  <1>5. s_out \o a \in Seq(Req)
    BY <1>1, <1>2, ConcatProperties
  <1> QED BY <1>2, <1>3, <1>4, <1>5 DEF Outstanding, InFlight, a, b

\* Every step of the server connection's handlers keeps TypeInv.
LEMMA ServerTypeInv ==
    ASSUME TypeInv, ServerStep
    PROVE  TypeInv'
  <1> DEFINE er == At(SrvRead)
             ew == At(SrvWrite)
  <1>a. Srv \in Fd /\ None \notin Event
    BY ConnAssumption DEF Fd
  <1>b. rmsg \in [Conn -> BOOLEAN] /\ eof \in [Conn -> BOOLEAN]
        /\ mbuf_pool \in 0..2 /\ s_rmsg \in BOOLEAN /\ s_dead \in BOOLEAN
        /\ alive \in {"run", "exit", "abort"}
    BY DEF TypeInv, TypeOK, ConnTypeOK, MsgTypeOK, ServerTypeOK, ProcessTypeOK
  <1>c. PoolFree(1) \in 0..2 /\ PoolAfterDiscard(s_rmsg) \in 0..2
    BY <1>b, PoolType DEF TypeInv
  <1>r. Sound(er, sess) /\ Sound(ew, sess)
    BY OtherSound DEF SrvRead, SrvWrite
  <1>s. /\ Sound(End(er), sess) /\ Sound(processClose(er, Srv), sess)
        /\ Sound(processClose(ew, Srv), sess)
        /\ Sound(SrvEndSend(ew), sess) /\ Sound(SrvEndSend(DelOutput(ew, Srv)), sess)
    BY <1>a, <1>r, SoundKept DEF processClose, SrvEndSend
  <1> HIDE DEF er, ew
  <1> USE DEF connVars, s_vars
  <1>1. CASE SrvRecvZero
    BY <1>1, <1>b, <1>c, <1>s, QuietTypeInv DEF SrvRecvZero, er
  <1>2. CASE SrvRecvError
    <2>1. mbuf_pool' \in 0..2
      BY <1>2, <1>b DEF SrvRecvError, Room
    <2> QED BY <1>2, <1>b, <1>s, <2>1, QuietTypeInv DEF SrvRecvError, er
  <1>3. ASSUME NEW full \in BOOLEAN, SrvRecvData(full) PROVE TypeInv'
    <2> DEFINE e == IF full THEN er ELSE End(er)
    <2>1. PICK n \in 1..Len(srvInbox) :
            /\ IF responseFilter
               THEN ev' = e /\ mbuf_pool' = PoolFree(1) /\ UNCHANGED <<s_out, done, rsp>>
               ELSE responseForward(parse(srvInbox, n), e)
            /\ srvInbox' = Unsent(srvInbox, n)
      BY <1>3 DEF SrvRecvData, er
    <2>2. srvInbox \in Seq(Chunk)
      BY DEF TypeInv, TypeOK, SocketTypeOK
    <2>3. parse(srvInbox, n) \in Seq(Chunk) /\ srvInbox' \in Seq(Chunk)
      BY <2>1, <2>2, CutType DEF parse
    <2>4. Sound(e, sess)
      BY <1>r, <1>s
    <2> HIDE DEF e
    <2>5. /\ Sound(ev', sess)
          /\ s_out' \in Seq(Req) /\ done' \in [Req -> BOOLEAN]
          /\ rsp' \in [Req -> Seq(Chunk)] /\ mbuf_pool' \in 0..2
          /\ \A i \in DOMAIN s_out' : data[s_out'[i]] \in Conn
      <3>1. CASE s_out = <<>>
        BY <1>c, <2>1, <2>4, <3>1
        DEF responseFilter, TypeInv, TypeOK, ServerTypeOK, MsgTypeOK, InFlightKnown
      <3>2. CASE s_out # <<>>
        BY <2>1, <2>3, <2>4, <3>2, PairTypeInv DEF responseFilter
      <3> QED BY <3>1, <3>2
    <2>6. ProcessTypeOK' /\ SocketTypeOK'
      BY <1>3, <2>3, <2>5
      DEF SrvRecvData, TypeInv, TypeOK, ProcessTypeOK, SocketTypeOK, Sound, peerVars
    <2>7. ConnTypeOK' /\ ServerTypeOK' /\ MsgTypeOK' /\ InFlightKnown'
      BY <1>3, <2>5
      DEF SrvRecvData, TypeInv, TypeOK, ConnTypeOK, ServerTypeOK, MsgTypeOK, InFlightKnown
    <2>8. Sound(ev, sess)'
      BY <1>3, <2>5 DEF SrvRecvData
    <2> QED BY <2>6, <2>7, <2>8 DEF TypeInv, TypeOK
  <1>4. CASE SrvRecvAgain
    BY <1>4, <1>b, <1>s, QuietTypeInv DEF SrvRecvAgain, er
  <1>5. CASE SrvSendIdle
    BY <1>5, <1>b, <1>s, QuietTypeInv DEF SrvSendIdle, ew
  <1>6. ASSUME NEW more \in BOOLEAN, SrvSendData(more) PROVE TypeInv'
    <2>1. PICK n \in 1..Len(Iov) :
            /\ s_in' = Unsent(s_in, Completed(n))
            /\ s_out' = Outstanding(Completed(n))
            /\ req' = [q \in Req |->
                         IF q = Head(s_in) THEN Unsent(req[Head(s_in)], n)
                         ELSE IF Len(s_in) > 1 /\ q = s_in[2] /\ n - Len(req[Head(s_in)]) > 0
                              THEN Unsent(req[q], n - Len(req[Head(s_in)]))
                         ELSE req[q]]
            /\ toSrv' = IF srvState = "up" THEN toSrv \o SubSeq(Iov, 1, n) ELSE toSrv
      BY <1>6 DEF SrvSendData
    <2>2. s_in # <<>> /\ s_in \in Seq(Req) /\ Head(s_in) \in Req
      BY <1>6 DEF SrvSendData, TypeInv, TypeOK, ServerTypeOK
    <2>3. Iov \in Seq(Chunk) /\ n \in Nat
      BY <2>2, IovType DEF TypeInv
    <2>4. Completed(n) \in 0..2 /\ Completed(n) <= Len(s_in)
      BY <2>2, <2>3, CompletedRange DEF TypeInv
    <2>5. s_in' \in Seq(Req) /\ s_out' \in Seq(Req) /\ s_out' \o s_in' = s_out \o s_in
      BY <2>1, <2>4, InFlightMoved DEF TypeInv, InFlight
    <2>6. toSrv' \in Seq(Chunk)
      <3>1. SubSeq(Iov, 1, n) \in Seq(Chunk)
        BY <2>3, CutType
      <3>2. toSrv \in Seq(Chunk)
        BY DEF TypeInv, TypeOK, SocketTypeOK
      <3> QED BY <2>1, <3>1, <3>2, ConcatProperties
    <2>7. req' \in [Req -> Seq(Chunk)]
      <3>1. \A q \in Req : req[q] \in Seq(Chunk)
        BY DEF TypeInv, TypeOK, MsgTypeOK
      <3>2. \A q \in Req : \A j \in Nat : Unsent(req[q], j) \in Seq(Chunk)
        BY <3>1, UnsentProperties
      <3>3. n - Len(req[Head(s_in)]) > 0 => n - Len(req[Head(s_in)]) \in Nat
        BY <2>2, <2>3, <3>1
      <3> QED BY <2>1, <2>2, <2>3, <3>1, <3>2, <3>3
    <2>8. Sound(ev', sess)
      BY <1>6, <1>r, <1>s DEF SrvSendData, ew
    <2>9. InFlightKnown'
      <3>1. \A i \in DOMAIN (s_out \o s_in) : data[(s_out \o s_in)[i]] \in Conn
        <4>1. s_in \in Seq(Req) /\ s_out \in Seq(Req)
          BY DEF TypeInv, TypeOK, ServerTypeOK
        <4> SUFFICES ASSUME NEW i \in DOMAIN (s_out \o s_in)
                     PROVE  data[(s_out \o s_in)[i]] \in Conn
          OBVIOUS
        <4>2. \/ i \in DOMAIN s_out /\ (s_out \o s_in)[i] = s_out[i]
              \/ i - Len(s_out) \in DOMAIN s_in /\ (s_out \o s_in)[i] = s_in[i - Len(s_out)]
          BY <4>1, ConcatIndex
        <4> QED BY <4>2 DEF TypeInv, InFlightKnown
      <3>2. \A i \in DOMAIN (s_out' \o s_in') : data[(s_out' \o s_in')[i]] \in Conn
        BY <2>5, <3>1
      <3>3. /\ \A i \in DOMAIN s_out' : /\ i \in DOMAIN (s_out' \o s_in')
                                        /\ (s_out' \o s_in')[i] = s_out'[i]
            /\ \A i \in DOMAIN s_in' : /\ i + Len(s_out') \in DOMAIN (s_out' \o s_in')
                                       /\ (s_out' \o s_in')[i + Len(s_out')] = s_in'[i]
        <4>1. s_out' \in Seq(Req) /\ s_in' \in Seq(Req)
          BY <2>5
        <4> QED BY ONLY <4>1, ConcatIndex
      <3>4. data' = data
        BY <1>6 DEF SrvSendData
      <3> QED BY <3>2, <3>3, <3>4 DEF InFlightKnown
    <2>10. ProcessTypeOK' /\ SocketTypeOK'
      BY <1>6, <2>6, <2>8
      DEF SrvSendData, TypeInv, TypeOK, ProcessTypeOK, SocketTypeOK, Sound, peerVars
    <2>11. ConnTypeOK' /\ ServerTypeOK' /\ MsgTypeOK' /\ Sound(ev, sess)'
      BY <1>6, <2>5, <2>7, <2>8
      DEF SrvSendData, TypeInv, TypeOK, ConnTypeOK, ServerTypeOK, MsgTypeOK
    <2> QED BY <2>9, <2>10, <2>11 DEF TypeInv, TypeOK
  <1>7. CASE SrvSendAgain
    BY <1>7, <1>b, <1>s, QuietTypeInv DEF SrvSendAgain, ew
  <1>8. CASE SrvSendError
    BY <1>8, <1>b, <1>s, QuietTypeInv DEF SrvSendError, ew
  <1>9. CASE SrvSendSigPipe
    BY <1>9, <1>b, QuietTypeInv DEF SrvSendSigPipe, TypeInv
  <1> QED BY <1>1, <1>2, <1>3, <1>4, <1>5, <1>6, <1>7, <1>8, <1>9 DEF ServerStep

------------------------------------------------------------------------------
\* Giving connection c a session keeps the event base sound.
LEMMA SoundOwned ==
    ASSUME TypeOK, NEW e, Sound(e, sess), NEW c \in Conn, NEW s \in Session
    PROVE  /\ sess[c] \in {0} \cup Session
           /\ [sess EXCEPT ![c] = s] \in [Conn -> {0} \cup Session]
           /\ \A r \in BOOLEAN : Sound(AddConn(e, c, r), [sess EXCEPT ![c] = s])
  <1> DEFINE ss == [sess EXCEPT ![c] = s]
  <1>1. sess \in [Conn -> {0} \cup Session] /\ s # 0
    BY DEF TypeOK, ConnTypeOK, Session
  <1>2. ss \in [Conn -> {0} \cup Session] /\ ss[c] = s
    BY <1>1
  <1>3. \A d \in Conn : ss[d] = 0 => sess[d] = 0
    BY <1>1
  <1> HIDE DEF ss
  <1>4. Sound(e, ss)
    BY <1>3 DEF Sound
  <1>5. c \in Fd
    BY DEF Fd
  <1>6. \A r \in BOOLEAN : Sound(AddConn(e, c, r), ss)
    BY <1>1, <1>2, <1>4, <1>5, SoundKept, ConnAssumption
  <1> QED BY <1>1, <1>2, <1>6 DEF ss

\* Every call of accept() keeps TypeInv.
LEMMA ProxyTypeInv ==
    ASSUME TypeInv, ProxyStep
    PROVE  TypeInv'
  <1> DEFINE el == At(LsnRead)
  <1>a. Lsn \in Fd /\ None \notin Event
    BY ConnAssumption DEF Fd
  <1>b. Sound(el, sess)
    BY OtherSound DEF LsnRead
  <1>c. Sound(End(el), sess) /\ Sound(processClose(el, Lsn), sess)
    BY <1>a, <1>b, SoundKept DEF processClose
  <1>d. /\ rmsg \in [Conn -> BOOLEAN] /\ eof \in [Conn -> BOOLEAN]
        /\ mbuf_pool \in 0..2 /\ s_rmsg \in BOOLEAN /\ s_dead \in BOOLEAN
        /\ alive \in {"run", "exit", "abort"}
    BY DEF TypeInv, TypeOK, ConnTypeOK, MsgTypeOK, ServerTypeOK, ProcessTypeOK
  <1>e. ASSUME backlog # <<>> PROVE Head(backlog) \in Session /\ Tail(backlog) \in Seq(Session)
    BY <1>e DEF TypeInv, TypeOK, SocketTypeOK
  <1> HIDE DEF el
  <1> USE DEF connVars, s_vars
  <1>1. ASSUME NEW c \in Conn, AcceptConn(c) PROVE TypeInv'
    <2> DEFINE s == Head(backlog)
    <2>1. s \in Session /\ Tail(backlog) \in Seq(Session)
      BY <1>1, <1>e DEF AcceptConn
    <2>2. /\ sess' = [sess EXCEPT ![c] = s]
          /\ ev' = AddConn(el, c, inbox[s] # <<>> \/ st[s] # "open")
      BY <1>1 DEF AcceptConn, el
    <2> HIDE DEF s
    <2>3. Sound(ev, sess)' /\ sess' \in [Conn -> {0} \cup Session]
      BY <1>b, <2>1, <2>2, SoundOwned DEF TypeInv
    <2>4. c_pool' \in Seq(Conn)
      BY <1>1 DEF AcceptConn, PoolRest, TypeInv, TypeOK, ConnTypeOK
    <2>5. ProcessTypeOK' /\ SocketTypeOK'
      BY <1>1, <2>1, <2>3
      DEF AcceptConn, TypeInv, TypeOK, ProcessTypeOK, SocketTypeOK, Sound, srvSock, s
    <2>6. ConnTypeOK' /\ ServerTypeOK' /\ MsgTypeOK' /\ InFlightKnown'
      BY <1>1, <2>3, <2>4
      DEF AcceptConn, TypeInv, TypeOK, ConnTypeOK, ServerTypeOK, MsgTypeOK, InFlightKnown, msgVars
    <2> QED BY <2>3, <2>5, <2>6 DEF TypeInv, TypeOK
  <1>2. CASE AcceptAgain
    BY <1>2, <1>c, <1>d, QuietTypeInv DEF AcceptAgain, el
  <1>3. CASE AcceptAborted \/ AcceptError
    <2>1. Sound(ev', sess)
      BY <1>3, <1>c DEF AcceptAborted, AcceptError, el
    <2>2. st' \in [Session -> SessionState] /\ backlog' \in Seq(Session) /\ p_dead' \in BOOLEAN
      <3>1. st \in [Session -> SessionState] /\ "closed" \in SessionState /\ p_dead \in BOOLEAN
        BY DEF TypeInv, TypeOK, ProcessTypeOK, SocketTypeOK, SessionState
      <3>2. CASE AcceptAborted
        <4>1. /\ st' = [st EXCEPT ![Head(backlog)] = "closed"]
              /\ backlog' = Tail(backlog) /\ p_dead' = p_dead /\ backlog # <<>>
          BY <3>2 DEF AcceptAborted
        <4> QED BY <1>e, <3>1, <4>1
      <3>3. CASE AcceptError
        <4>1. /\ st' = [s \in Session |-> IF \E i \in DOMAIN backlog : backlog[i] = s
                                           THEN "closed" ELSE st[s]]
              /\ backlog' = <<>> /\ p_dead' = TRUE
          BY <3>3 DEF AcceptError
        <4>2. st' \in [Session -> SessionState]
          BY <3>1, <4>1
        <4> QED BY <4>1, <4>2
      <3> QED BY <1>3, <3>2, <3>3
    <2>3. UNCHANGED <<alive, inbox, sent, got, srvSock, unacked, connVars, s_vars, msgVars,
                      mbuf_pool>>
      BY <1>3 DEF AcceptAborted, AcceptError
    <2>4. ProcessTypeOK' /\ SocketTypeOK'
      BY <2>1, <2>2, <2>3
      DEF TypeInv, TypeOK, ProcessTypeOK, SocketTypeOK, Sound, srvSock
    <2>5. ConnTypeOK' /\ ServerTypeOK' /\ MsgTypeOK' /\ InFlightKnown' /\ Sound(ev, sess)'
      BY <2>1, <2>3
      DEF TypeInv, TypeOK, ConnTypeOK, ServerTypeOK, MsgTypeOK, InFlightKnown, msgVars
    <2> QED BY <2>4, <2>5 DEF TypeInv, TypeOK
  <1>4. CASE AcceptNoFd
    BY <1>4, <1>c, <1>d, QuietTypeInv DEF AcceptNoFd, el
  <1> QED BY <1>1, <1>2, <1>3, <1>4 DEF ProxyStep

------------------------------------------------------------------------------
\* The events a session's socket activates are those of connections that serve
\* the session.
LEMMA ReadableSound ==
    ASSUME TypeInv, NEW s \in Session
    PROVE  /\ Sound(Readable(s), sess)
           /\ Sound([Readable(s) EXCEPT !.ready =
                       @ \cup {<<c, "write">> : c \in Serving(s) \cap ev.wreg}], sess)
  <1> DEFINE R == {<<c, "read">> : c \in Serving(s)}
             W == {<<c, "write">> : c \in Serving(s) \cap ev.wreg}
             e1 == Readable(s)
             e2 == [e1 EXCEPT !.ready = @ \cup W]
  <1>1. \A c \in Serving(s) : c \in Conn /\ sess[c] # 0
    BY DEF Serving, Session
  <1>2. R \subseteq Event /\ W \subseteq Event
    BY <1>1 DEF Event, Fd
  <1>3. \A c \in Conn, f \in {"read", "write"} : <<c, f>> \in R \cup W => sess[c] # 0
    BY <1>1
  <1>4. \A c \in Fd : <<c, "write">> \in R \cup W => c \in ev.wreg
    OBVIOUS
  <1>5. ev \in EventBase /\ e1 = [ev EXCEPT !.ready = @ \cup R]
    BY DEF TypeInv, Sound, Readable
  <1> HIDE DEF R, W, e1
  <1>6. e1 \in EventBase /\ e1.ready = ev.ready \cup R
        /\ e1.wreg = ev.wreg /\ e1.sact = ev.sact /\ e1.batch = ev.batch /\ e1.cur = ev.cur
    BY <1>2, <1>5 DEF EventBase
  <1>7. Sound(e1, sess)
    BY <1>3, <1>4, <1>6 DEF TypeInv, Sound, OutputSound, Unregistered
  <1>8. e2 \in EventBase /\ e2.ready = ev.ready \cup R \cup W
        /\ e2.wreg = ev.wreg /\ e2.sact = ev.sact /\ e2.batch = ev.batch /\ e2.cur = ev.cur
    BY <1>2, <1>6 DEF EventBase
  <1> HIDE DEF e2
  <1>9. Sound(e2, sess)
    BY <1>3, <1>4, <1>8 DEF TypeInv, Sound, OutputSound, Unregistered
  <1> QED BY <1>7, <1>9 DEF e1, e2, W

\* A step of a peer that changes nothing but sockets and the event base.
LEMMA SocketTypeInv ==
    ASSUME TypeInv, Sound(ev', sess), SocketTypeOK', UNCHANGED proxyVars
    PROVE  TypeInv'
  <1> USE DEF proxyVars, connVars, s_vars, msgVars
  <1>1. ProcessTypeOK'
    BY DEF TypeInv, TypeOK, ProcessTypeOK, Sound
  <1>2. ConnTypeOK' /\ ServerTypeOK' /\ MsgTypeOK'
    BY DEF TypeInv, TypeOK, ConnTypeOK, ServerTypeOK, MsgTypeOK
  <1>3. InFlightKnown' /\ Sound(ev, sess)'
    BY DEF TypeInv, InFlightKnown
  <1> QED BY <1>1, <1>2, <1>3 DEF TypeInv, TypeOK

\* Every step of a client, the server or TCP keeps TypeInv.
LEMMA PeerTypeInv ==
    ASSUME TypeInv, PeerStep
    PROVE  TypeInv'
  <1>a. Sound(ev, sess) /\ SocketTypeOK /\ s_dead \in BOOLEAN
    BY DEF TypeInv, TypeOK, ServerTypeOK
  <1>b. /\ Srv \in Fd /\ Srv \notin Conn /\ Lsn \in Fd /\ Lsn \notin Conn
        /\ None \notin Event /\ Conn \subseteq Fd
    BY ConnAssumption DEF Fd
  <1>c. \A e : Sound(e, sess) => Sound(SrvReadable(e), sess)
    BY <1>b, SoundKept DEF SrvReadable
  <1> USE DEF peerVars, srvSock
  <1>1. ASSUME NEW s \in Session, ClientConnect(s) PROVE TypeInv'
    <2>1. Sound(ev', sess)
      BY <1>1, <1>a, <1>b, SoundKept DEF ClientConnect
    <2>2. SocketTypeOK'
      BY <1>1, <1>a DEF ClientConnect, SocketTypeOK, SessionState
    <2> QED BY <1>1, <2>1, <2>2, SocketTypeInv DEF ClientConnect
  <1>2. ASSUME NEW s \in Session, ClientSend(s) PROVE TypeInv'
    <2>1. Sound(ev', sess)
      BY <1>2, ReadableSound DEF ClientSend
    <2>2. sent[s] + 1 \in 0..MaxSend /\ sent' \in [Session -> 0..MaxSend]
      BY <1>2, <1>a, BoundsAssumption DEF ClientSend, SocketTypeOK
    <2>3. Frame(s, sent[s] + 1) \in Seq(Chunk) /\ inbox[s] \in Seq(Chunk)
      BY <1>a, <2>2, FrameType DEF SocketTypeOK
    <2>4. inbox[s] \o Frame(s, sent[s] + 1) \in Seq(Chunk)
      BY <2>3, ConcatProperties
    <2>5. inbox' \in [Session -> Seq(Chunk)]
      BY <1>2, <1>a, <2>4 DEF ClientSend, SocketTypeOK
    <2>6. SocketTypeOK'
      BY <1>2, <1>a, <2>2, <2>5 DEF ClientSend, SocketTypeOK
    <2> QED BY <1>2, <2>1, <2>6, SocketTypeInv DEF ClientSend
  <1>3. ASSUME NEW s \in Session, ClientFin(s) PROVE TypeInv'
    <2>1. Sound(ev', sess)
      BY <1>3, ReadableSound DEF ClientFin
    <2>2. SocketTypeOK'
      BY <1>3, <1>a DEF ClientFin, SocketTypeOK, SessionState
    <2> QED BY <1>3, <2>1, <2>2, SocketTypeInv DEF ClientFin
  <1>4. ASSUME NEW s \in Session, ClientReset(s) PROVE TypeInv'
    <2>1. Sound(ev', sess)
      BY <1>4, ReadableSound DEF ClientReset
    <2>2. SocketTypeOK'
      BY <1>4, <1>a DEF ClientReset, SocketTypeOK, SessionState
    <2> QED BY <1>4, <2>1, <2>2, SocketTypeInv DEF ClientReset
  <1>5. ASSUME NEW c \in Conn \cup {Srv}, Ack(c) PROVE TypeInv'
    <2>1. Sound(ev', sess)
      BY <1>5, <1>a, <1>b, SoundKept DEF Ack
    <2>2. SocketTypeOK'
      BY <1>5, <1>a DEF Ack, SocketTypeOK
    <2> QED BY <1>5, <2>1, <2>2, SocketTypeInv DEF Ack
  <1>6. CASE ServerAccept
    <2>1. Sound(ev', sess)
      BY <1>6, <1>a, <1>b, SoundKept DEF ServerAccept
    <2>2. SocketTypeOK'
      BY <1>6, <1>a DEF ServerAccept, SocketTypeOK
    <2> QED BY <1>6, <2>1, <2>2, SocketTypeInv DEF ServerAccept
  <1>7. CASE ServerReply
    <2> DEFINE h == Head(toSrv)
               f == Frame(h[1], h[2])
    <2>1. toSrv \in Seq(Chunk) /\ toSrv # <<>> /\ srvInbox \in Seq(Chunk)
      BY <1>7, <1>a DEF ServerReply, SocketTypeOK
    <2>2. h \in Chunk
      BY <2>1
    <2>3. f \in Seq(Chunk)
      <3>1. h[1] \in Session /\ h[2] \in 0..MaxSend
        BY <2>2 DEF Chunk
      <3> QED BY <3>1, FrameType
    <2>4. \/ toSrv' = Unsent(toSrv, Chunks) /\ srvInbox' = srvInbox \o f
             /\ ev' = SrvReadable(ev)
          \/ toSrv' = Tail(toSrv) /\ UNCHANGED <<srvInbox, ev>>
      BY <1>7 DEF ServerReply
    <2> HIDE DEF h, f
    <2>5. Sound(ev', sess)
      BY <1>a, <1>c, <2>4
    <2>6. toSrv' \in Seq(Chunk) /\ srvInbox' \in Seq(Chunk)
      <3>1. Unsent(toSrv, Chunks) \in Seq(Chunk)
        BY <2>1, BoundsAssumption, UnsentProperties
      <3>2. srvInbox \o f \in Seq(Chunk)
        BY <2>1, <2>3, ConcatProperties
      <3>3. Tail(toSrv) \in Seq(Chunk)
        BY <2>1
      <3> QED BY <2>1, <2>4, <3>1, <3>2, <3>3
    <2>7. SocketTypeOK'
      BY <1>7, <1>a, <2>6 DEF ServerReply, SocketTypeOK
    <2> QED BY <1>7, <2>5, <2>7, SocketTypeInv DEF ServerReply
  <1>8. CASE ServerStray
    <2>1. Sound(ev', sess)
      BY <1>8, <1>a, <1>c DEF ServerStray
    <2>2. Frame(1, 0) \in Seq(Chunk)
      BY BoundsAssumption, FrameType DEF Session
    <2>3. SocketTypeOK'
      BY <1>8, <1>a, <2>2 DEF ServerStray, SocketTypeOK
    <2> QED BY <1>8, <2>1, <2>3, SocketTypeInv DEF ServerStray
  <1>9. CASE ServerFin
    <2>1. Sound(ev', sess)
      BY <1>9, <1>a, <1>c DEF ServerFin
    <2>2. SocketTypeOK'
      BY <1>9, <1>a DEF ServerFin, SocketTypeOK
    <2> QED BY <1>9, <2>1, <2>2, SocketTypeInv DEF ServerFin
  <1>10. CASE ServerReset
    <2>1. Sound(SrvReadable(ev), sess)
      BY <1>a, <1>c
    <2>2. Sound(ev', sess)
      BY <1>10, <1>b, <2>1, SoundKept DEF ServerReset
    <2>3. SocketTypeOK'
      BY <1>10, <1>a DEF ServerReset, SocketTypeOK
    <2> QED BY <1>10, <2>2, <2>3, SocketTypeInv DEF ServerReset
  <1> QED BY <1>1, <1>2, <1>3, <1>4, <1>5, <1>6, <1>7, <1>8, <1>9, <1>10 DEF PeerStep

------------------------------------------------------------------------------
\* wait() itself, and the callback of an event that delConn overwrote.
LEMMA LoopTypeInv ==
    ASSUME TypeInv, Wait \/ \E c \in Fd : StaleCallback(c)
    PROVE  TypeInv'
  <1>d. /\ rmsg \in [Conn -> BOOLEAN] /\ eof \in [Conn -> BOOLEAN]
        /\ mbuf_pool \in 0..2 /\ s_rmsg \in BOOLEAN /\ s_dead \in BOOLEAN
        /\ alive \in {"run", "exit", "abort"} /\ None \notin Event
    BY ConnAssumption
    DEF TypeInv, TypeOK, ConnTypeOK, MsgTypeOK, ServerTypeOK, ProcessTypeOK
  <1> USE DEF connVars, s_vars
  <1>1. CASE Wait
    <2> DEFINE F == {e \in ev.ready : Fires(e)}
    <2>1. F \subseteq ev.ready /\ ev' = Return(ev, F)
      BY <1>1 DEF Wait
    <2> HIDE DEF F
    <2>2. ev \in EventBase /\ ev' = [ev EXCEPT !.batch = F, !.ready = {}]
      BY <2>1 DEF Return, TypeInv, Sound
    <2>3. /\ ev' \in EventBase /\ ev'.batch = F /\ ev'.ready = {}
          /\ ev'.cur = ev.cur /\ ev'.wreg = ev.wreg /\ ev'.sact = ev.sact
      BY <2>1, <2>2 DEF EventBase
    <2>4. Sound(ev', sess)
      BY <2>1, <2>3 DEF TypeInv, Sound, OutputSound, Unregistered
    <2> QED BY <1>1, <1>d, <2>4, QuietTypeInv DEF Wait
  <1>2. ASSUME NEW c \in Fd, StaleCallback(c) PROVE TypeInv'
    <2>1. Sound(ev', sess)
      <3>1. Sound(Begin(ev, <<c, "none">>), sess)
        BY <1>d, SoundKept DEF TypeInv
      <3> QED BY <1>2, <1>d, <3>1, SoundKept DEF StaleCallback, At
    <2>2. alive' \in {"run", "exit", "abort"}
      BY <1>2, <1>d DEF StaleCallback
    <2> QED BY <1>2, <1>d, <2>1, <2>2, QuietTypeInv DEF StaleCallback
  <1> QED BY <1>1, <1>2

\* The state createContext leaves satisfies TypeInv.
LEMMA InitTypeInv == Init => TypeInv
  <1> SUFFICES ASSUME Init PROVE TypeInv
    OBVIOUS
  <1>1. ev \in EventBase
    BY DEF Init, EventBase, Fd
  <1>a. \A S : <<>> \in Seq(S)
    OBVIOUS
  <1>2. ProcessTypeOK /\ SocketTypeOK
    <2>1. ProcessTypeOK
      BY <1>1 DEF Init, ProcessTypeOK
    <2>2. inbox \in [Session -> Seq(Chunk)] /\ got \in [Session -> Seq(Chunk)]
      BY <1>a DEF Init
    <2>3. sent \in [Session -> 0..MaxSend] /\ st \in [Session -> SessionState]
      BY BoundsAssumption DEF Init, SessionState
    <2>4. backlog \in Seq(Session) /\ toSrv \in Seq(Chunk) /\ srvInbox \in Seq(Chunk)
      BY <1>a DEF Init
    <2>5. srvState \in {"connecting", "up", "fin", "rst"} /\ unacked \subseteq Conn \cup {Srv}
      BY DEF Init
    <2> QED BY <2>1, <2>2, <2>3, <2>4, <2>5 DEF SocketTypeOK
  <1>3. ConnTypeOK /\ ServerTypeOK /\ MsgTypeOK
    <2>1. cq \in [Conn -> Seq(Req)] /\ c_pool \in Seq(Conn)
      BY <1>a DEF Init
    <2>2. ConnTypeOK
      BY <2>1 DEF Init, ConnTypeOK
    <2>3. ServerTypeOK
      BY <1>a DEF Init, ServerTypeOK
    <2>4. req \in [Req -> Seq(Chunk)] /\ rsp \in [Req -> Seq(Chunk)]
      BY <1>a DEF Init
    <2>5. /\ data \in [Req -> Conn \cup {None}] /\ done \in [Req -> BOOLEAN]
          /\ freed \in [Req -> Nat]
      BY DEF Init
    <2>6. nreq \in 0..MaxReq /\ mbuf_pool \in 0..2
      BY BoundsAssumption DEF Init
    <2> QED BY <2>2, <2>3, <2>4, <2>5, <2>6 DEF MsgTypeOK
  <1>4. \A c \in Conn, f \in {"read", "write"} : <<c, f>> # None
    BY ConnAssumption DEF Event, Fd
  <1>5. \A c \in Conn : Unregistered(ev, c)
    BY <1>4, ConnAssumption DEF Init, Unregistered
  <1>6. Sound(ev, sess)
    BY <1>1, <1>5 DEF Init, Sound, OutputSound
  <1>7. InFlightKnown
    BY DEF Init, InFlightKnown
  <1> QED BY <1>2, <1>3, <1>6, <1>7 DEF TypeInv, TypeOK

\* TypeInv is inductive.
LEMMA NextTypeInv == TypeInv /\ [Next]_vars => TypeInv'
  <1> SUFFICES ASSUME TypeInv, [Next]_vars PROVE TypeInv'
    OBVIOUS
  <1>1. CASE Proxy
    BY <1>1, ClientTypeInv, ServerTypeInv, ProxyTypeInv, LoopTypeInv DEF Proxy
  <1>2. CASE PeerStep
    BY <1>2, PeerTypeInv
  <1>3. CASE UNCHANGED vars
    <2>1. SocketTypeOK' /\ UNCHANGED proxyVars /\ ev' = ev
      BY <1>3
      DEF vars, proxyVars, peerVars, srvSock, TypeInv, TypeOK, SocketTypeOK
    <2> QED BY <2>1, SocketTypeInv DEF TypeInv
  <1> QED BY <1>1, <1>2, <1>3 DEF Next

\* TypeInv holds in every state of every behaviour.
THEOREM TypeInvariant == Spec => []TypeInv
  BY InitTypeInv, NextTypeInv, PTL DEF Spec

\* Type correctness: whatever the peers do, every queue holds requests that exist,
\* the session a handler looks up exists, and the data pointer of a request is a
\* client connection.
THEOREM TypeCorrect == Spec => []TypeOK
  <1>1. TypeInv => TypeOK
    BY DEF TypeInv
  <1> QED BY <1>1, TypeInvariant, PTL

\* No read or write event is ever delivered to a client connection without an
\* owner: what delConn and delOutput take out of the event base is enough.
THEOREM OwnersOnly == Spec => []EventsHaveOwner
  <1>1. TypeInv => EventsHaveOwner
    BY DEF TypeInv, Sound, EventsHaveOwner
  <1> QED BY <1>1, TypeInvariant, PTL
==============================================================================
