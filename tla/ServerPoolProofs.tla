--------------------------- MODULE ServerPoolProofs ---------------------------
(***************************************************************************)
(* The servers of a pool and the slots of the random distribution.         *)
(*                                                                         *)
(* The invariant follows the two loops of update.  Retries ties next_retry *)
(* to the history, Counting says what the first loop has done for the      *)
(* servers before at, Assigning what the second has, and Settled what is   *)
(* left when update returned.  SlotsSound is the size of the continuum:    *)
(* once it was extended it has a slot for every server, although each      *)
(* extension stops half way, and it has no more slots than                 *)
(* nserver_continuum says, so that the difference random_update computes   *)
(* in unsigned integers does not wrap.                                     *)
(***************************************************************************)
EXTENDS NcServerPool, FiniteSetTheorems, TLAPS

TypeOK ==
    /\ auto_eject_hosts \in BOOLEAN /\ updated \in BOOLEAN
    /\ next_retry \in [Server -> Nat] /\ due \in [Server -> Nat] /\ fit \in SUBSET Server
    /\ pc \in {"idle", "count", "assign"} /\ at \in 0..NServer /\ now \in Time \cup {NoTime}
    /\ nlive \in Nat /\ continuum_index \in Nat
    /\ nlive_server \in Nat /\ next_rebuild \in Nat /\ nserver_continuum \in Nat
    /\ continuum \in Seq(Server)

SlotsSound ==
    /\ Len(continuum) <= nserver_continuum
    /\ nserver_continuum > 0 => Len(continuum) >= NServer

\* A retry that is pending is the one the last failure set, and none is without ejection.
Retries ==
    \A i \in Server : next_retry[i] # 0 => auto_eject_hosts /\ next_retry[i] = due[i]

\* The servers the loops have passed when they are at the n-th.
Before(n) == {i \in Server : i < n}

\* next_rebuild is right for the servers of out.
RebuildOf(out) ==
    /\ out = {} <=> next_rebuild = 0
    /\ out # {} => next_rebuild \in {due[i] : i \in out}
    /\ \A i \in out : next_rebuild <= due[i]

\* next_retry tells the servers that are to be in from the others.
Sorted ==
    /\ now \in Time
    /\ \A i \in fit : next_retry[i] = 0
    /\ \A i \in Server \ fit : next_retry[i] > now

\* No update is running.
Settled ==
    pc = "idle" =>
      /\ at = 0 /\ nlive = 0 /\ continuum_index = 0
      /\ \A i \in Server : i \in fit <=> next_retry[i] = 0
      /\ updated => /\ Sorted /\ RebuildOf(Server \ fit)
                    /\ InSlots = fit /\ Cardinality(fit) = nlive_server

\* The first loop.
Counting ==
    pc = "count" =>
      /\ now \in Time /\ continuum_index = 0
      /\ \A i \in fit : next_retry[i] <= now /\ (i < at => next_retry[i] = 0)
      /\ \A i \in Server \ fit : next_retry[i] > now
      /\ nlive = Cardinality(fit \cap Before(at)) /\ RebuildOf(Before(at) \ fit)

\* The second loop.
Assigning ==
    pc = "assign" =>
      /\ nlive = 0 /\ Sorted /\ RebuildOf(Server \ fit) /\ nserver_continuum > 0
      /\ Cardinality(fit) = nlive_server
      /\ continuum_index = Cardinality(fit \cap Before(at))
      /\ {continuum[k] : k \in 1..continuum_index} = fit \cap Before(at)

Inv == TypeOK /\ SlotsSound /\ SlotsSuffice /\ Retries /\ Settled /\ Counting /\ Assigning

------------------------------------------------------------------------------
\* There are NServer servers, and no set of them is larger.
LEMMA ServerSets ==
    ASSUME NEW S \in SUBSET Server
    PROVE  IsFiniteSet(S) /\ Cardinality(S) \in Nat /\ Cardinality(S) <= NServer
  <1>1. NServer \in Nat /\ NServer >= 1
    BY ServerPoolAssumption
  <1>2. IsFiniteSet(Server) /\ Cardinality(Server) = NServer
    BY <1>1, FS_Interval DEF Server
  <1> QED BY <1>2, FS_Subset, FS_CardinalityType

\* Passing a server adds it to those passed, and counts it if it is in S.
LEMMA Passing ==
    ASSUME NEW S \in SUBSET Server
    PROVE  /\ S \cap Before(0) = {} /\ S \cap Before(NServer) = S /\ Before(NServer) = Server
           /\ \A n \in 0..NServer : /\ S \cap Before(n) \in SUBSET Server
                                    /\ Cardinality(S \cap Before(n)) \in Nat
                                    /\ Cardinality(S \cap Before(n)) <= NServer
           /\ \A n \in Server :
                /\ n \in 0..NServer /\ n + 1 \in 0..NServer
                /\ Before(n + 1) = Before(n) \cup {n} /\ n \notin Before(n)
                /\ n \notin S => S \cap Before(n + 1) = S \cap Before(n)
                /\ n \in S => /\ S \cap Before(n + 1) = (S \cap Before(n)) \cup {n}
                              /\ Cardinality(S \cap Before(n + 1))
                                   = Cardinality(S \cap Before(n)) + 1
  <1>1. NServer \in Nat /\ NServer >= 1 /\ Server = 0..(NServer - 1)
    BY ServerPoolAssumption DEF Server
  <1>2. /\ S \cap Before(0) = {} /\ S \cap Before(NServer) = S /\ Before(NServer) = Server
    <2>1. \A i \in Server : ~(i < 0) /\ i < NServer
      BY <1>1
    <2> QED BY <2>1, Zenon DEF Before
  <1>3. \A n \in 0..NServer : /\ S \cap Before(n) \in SUBSET Server
                              /\ Cardinality(S \cap Before(n)) \in Nat
                              /\ Cardinality(S \cap Before(n)) <= NServer
    BY ServerSets
  <1>4. ASSUME NEW n \in Server
        PROVE  /\ n \in 0..NServer /\ n + 1 \in 0..NServer
               /\ Before(n + 1) = Before(n) \cup {n} /\ n \notin Before(n)
    BY <1>1 DEF Before
  <1>5. ASSUME NEW n \in Server, n \in S
        PROVE  /\ S \cap Before(n + 1) = (S \cap Before(n)) \cup {n}
               /\ Cardinality(S \cap Before(n + 1)) = Cardinality(S \cap Before(n)) + 1
    <2> DEFINE T == S \cap Before(n)
    <2>1. S \cap Before(n + 1) = T \cup {n} /\ n \notin T
      BY <1>4, <1>5
    <2>2. IsFiniteSet(T)
      BY ServerSets
    <2> HIDE DEF T
    <2>3. Cardinality(T \cup {n}) = Cardinality(T) + 1
      BY <2>1, <2>2, FS_AddElement
    <2> QED BY <2>1, <2>3 DEF T
  <1>6. ASSUME NEW n \in Server, n \notin S PROVE S \cap Before(n + 1) = S \cap Before(n)
    BY <1>4, <1>6
  <1> QED BY <1>2, <1>3, <1>4, <1>5, <1>6

\* The continuum is only ever extended, by at least what SlotsSound asks for.
LEMMA SlotsGrow ==
    ASSUME TypeOK, SlotsSound, NEW n \in Nat, n >= 1, n <= NServer
    PROVE  /\ Slots(n) \in Seq(Server) /\ Len(Slots(n)) >= NServer
           /\ Len(Slots(n)) <= IF n > nserver_continuum THEN n + RANDOM_CONTINUUM_ADDITION
                               ELSE nserver_continuum
  <1>1. /\ continuum \in Seq(Server) /\ Len(continuum) \in Nat /\ nserver_continuum \in Nat
        /\ NServer \in Nat /\ NServer >= 1 /\ RANDOM_CONTINUUM_ADDITION \in Nat
        /\ NServer <= (RANDOM_CONTINUUM_ADDITION + 2) \div 2
    BY ServerPoolAssumption DEF TypeOK
  <1>2. CASE n > nserver_continuum
    <2> DEFINE m == n + RANDOM_CONTINUUM_ADDITION
               p == (m - Len(continuum) + 1) \div 2
               new == [k \in 1..p |-> 0]
    <2>1. m \in Nat /\ Len(continuum) < m
      BY <1>1, <1>2 DEF SlotsSound
    <2>2. p \in Nat /\ Len(continuum) + p <= m
      BY <1>1, <2>1
    <2>3. nserver_continuum = 0 => Len(continuum) + p >= NServer
      BY <1>1 DEF SlotsSound
    <2>4. Len(continuum) + p >= NServer
      BY <1>1, <2>2, <2>3 DEF SlotsSound
    <2>5. Slots(n) = continuum \o new
      BY <1>2 DEF Slots, Grown
    <2> HIDE DEF p, m
    <2>6. new \in Seq(Server) /\ Len(new) = p
      BY <1>1, <2>2 DEF Server
    <2> HIDE DEF new
    <2>7. continuum \o new \in Seq(Server) /\ Len(continuum \o new) = Len(continuum) + p
      BY <1>1, <2>6
    <2> QED BY <1>2, <2>2, <2>4, <2>5, <2>7 DEF m
  <1>3. CASE ~(n > nserver_continuum)
    BY <1>1, <1>3 DEF Slots, SlotsSound
  <1> QED BY <1>2, <1>3

------------------------------------------------------------------------------
\* The process starts without a slot and before any update.
LEMMA InitInv == Init => Inv
  <1> SUFFICES ASSUME Init PROVE Inv
    OBVIOUS
  <1>1. TypeOK
    <2>1. next_retry \in [Server -> Nat] /\ due \in [Server -> Nat]
      BY DEF Init
    <2>2. at \in 0..NServer /\ now \in Time \cup {NoTime} /\ continuum \in Seq(Server)
      BY ServerPoolAssumption DEF Init
    <2> QED BY <2>1, <2>2 DEF Init, TypeOK
  <1>2. Len(continuum) = 0 /\ nserver_continuum = 0 /\ pc = "idle"
    BY DEF Init
  <1>3. SlotsSound /\ SlotsSuffice /\ Counting /\ Assigning
    BY <1>2 DEF Init, SlotsSound, SlotsSuffice, Counting, Assigning
  <1>4. Retries /\ Settled
    BY DEF Init, Retries, Settled
  <1> QED BY <1>1, <1>3, <1>4 DEF Inv

\* Steps that leave the servers, the slots and the loops alone.
LEMMA SameInv ==
    ASSUME Inv, crashed' # "bounds",
           UNCHANGED <<auto_eject_hosts, next_retry, poolVars, loopVars, history>>
    PROVE  Inv'
  <1> USE DEF poolVars, loopVars, history
  <1>1. TypeOK' /\ SlotsSound' /\ SlotsSuffice' /\ Retries'
    BY DEF Inv, TypeOK, SlotsSound, SlotsSuffice, Retries
  <1>2. (Sorted <=> Sorted') /\ InSlots' = InSlots
    BY DEF Sorted, InSlots
  <1>3. \A S : RebuildOf(S) <=> RebuildOf(S)'
    BY DEF RebuildOf
  <1>4. Settled' /\ Counting' /\ Assigning'
    BY <1>2, <1>3 DEF Inv, Settled, Counting, Assigning
  <1> QED BY <1>1, <1>4 DEF Inv

\* Update begins from any next_retry that failure left.
LEMMA UpdateInv ==
    ASSUME Inv, Calls, NEW stay \in SUBSET Server, NEW time \in Time \cup {NoTime},
           Update(stay, time),
           next_retry' \in [Server -> Nat], due' \in [Server -> Nat], updated' \in BOOLEAN,
           Retries', \A i \in Server : i \in stay <=> next_retry'[i] = 0,
           updated' => UNCHANGED <<next_retry, due, updated>>
    PROVE  Inv'
  <1>1. /\ TypeOK /\ SlotsSound /\ SlotsSuffice /\ Settled /\ pc = "idle" /\ crashed = "no"
        /\ fit' = stay \cup {i \in Server : due'[i] <= time}
        /\ UNCHANGED <<auto_eject_hosts, nlive_server, nserver_continuum, continuum, at, nlive,
                       continuum_index, crashed>>
    BY DEF Inv, Calls, Update
  <1>2. /\ at' = 0 /\ nlive' = 0 /\ continuum_index' = 0
        /\ SlotsSound' /\ SlotsSuffice'
    BY <1>1 DEF Settled, SlotsSound, SlotsSuffice
  <1>3. CASE time = NoTime
    <2>1. UNCHANGED <<next_rebuild, pc, now>>
      BY <1>3 DEF Update
    <2>2. fit' = stay
      BY <1>1, <1>3 DEF NoTime
    <2>3. TypeOK'
      BY <1>1, <2>1, <2>2 DEF TypeOK
    <2>4. Counting' /\ Assigning'
      BY <1>1, <2>1 DEF Counting, Assigning
    <2>5. CASE updated'
      <3>1. UNCHANGED <<next_retry, due, updated>> /\ fit' = fit
        BY <1>1, <2>2, <2>5 DEF Settled, TypeOK
      <3>2. (Sorted <=> Sorted') /\ InSlots' = InSlots
        BY <1>1, <2>1, <3>1 DEF Sorted, InSlots
      <3>3. RebuildOf(Server \ fit) <=> RebuildOf(Server \ fit)'
        BY <2>1, <3>1 DEF RebuildOf
      <3> QED BY <1>1, <1>2, <2>3, <2>4, <3>1, <3>2, <3>3 DEF Inv, Settled
    <2>6. CASE ~updated'
      BY <1>2, <2>2, <2>3, <2>4, <2>6 DEF Inv, Settled
    <2> QED BY <2>5, <2>6
  <1>4. CASE time # NoTime
    <2>1. /\ next_rebuild' = 0 /\ pc' = "count" /\ now' = time
          /\ time \in Time /\ time \in Nat
      BY <1>4, ServerPoolAssumption DEF Update, Time
    <2>2. TypeOK'
      BY <1>1, <2>1 DEF TypeOK
    <2>3. /\ \A i \in fit' : next_retry'[i] <= now'
          /\ \A i \in Server \ fit' : next_retry'[i] > now'
      BY <1>1, <2>1 DEF Retries
    <2>4. \A i \in Server : ~(i < 0)
      BY DEF Server
    <2>5. nlive' = Cardinality(fit' \cap Before(0)) /\ RebuildOf(Before(0) \ fit)'
      <3>1. fit' \cap Before(0) = {} /\ Before(0) = {}
        BY <2>4 DEF Before
      <3>2. Before(0)' = Before(0)
        BY DEF Before
      <3> QED BY <1>2, <2>1, <3>1, <3>2, FS_EmptySet DEF RebuildOf
    <2>6. Counting'
      <3>1. (fit \cap Before(at))' = fit' \cap Before(0) /\ (Before(at) \ fit)' = Before(0)' \ fit'
        BY <1>2 DEF Before
      <3>2. RebuildOf(Before(at) \ fit)'
        BY <2>5, <3>1 DEF RebuildOf
      <3>3. at' = 0
        BY <1>2
      <3>4. \A i \in fit' : i < at' => next_retry'[i] = 0
        BY <2>2, <2>4, <3>3 DEF TypeOK
      <3> QED BY <1>2, <2>1, <2>3, <2>5, <3>1, <3>2, <3>4 DEF Counting
    <2>7. Settled' /\ Assigning'
      BY <2>1 DEF Settled, Assigning
    <2> QED BY <1>2, <2>2, <2>6, <2>7 DEF Inv
  <1> QED BY <1>3, <1>4

\* The first loop counts a server that is in and clears its retry, or notes the retry of
\* one that is out.
LEMMA CountInv == Inv /\ CountServer => Inv'
  <1> SUFFICES ASSUME Inv, CountServer PROVE Inv'
    OBVIOUS
  <1>1. /\ TypeOK /\ SlotsSound /\ SlotsSuffice /\ Retries /\ Counting
        /\ pc = "count" /\ at \in 0..NServer /\ at < NServer /\ at' = at + 1
        /\ UNCHANGED <<auto_eject_hosts, nlive_server, nserver_continuum, continuum, pc, now,
                       continuum_index, history, crashed>>
    BY DEF Inv, TypeOK, CountServer
  <1>2. at \in Server /\ NServer \in Nat /\ at + 1 \in 0..NServer
    BY <1>1, ServerPoolAssumption DEF Server
  <1>3. /\ now \in Time /\ now \in Nat /\ now >= 1 /\ now # NoTime /\ continuum_index = 0
        /\ \A i \in fit : next_retry[i] <= now /\ (i < at => next_retry[i] = 0)
        /\ \A i \in Server \ fit : next_retry[i] > now
        /\ nlive = Cardinality(fit \cap Before(at)) /\ RebuildOf(Before(at) \ fit)
    BY <1>1, ServerPoolAssumption DEF Counting, Time, NoTime
  <1>4. fit \in SUBSET Server /\ next_retry \in [Server -> Nat] /\ due \in [Server -> Nat]
    BY <1>1 DEF TypeOK
  <1>5. at \notin fit => auto_eject_hosts /\ next_retry[at] = due[at] /\ ~Due(at)
    BY <1>1, <1>2, <1>3, <1>4 DEF Retries, Due
  <1>6. at \in fit => Due(at)
    BY <1>3 DEF Due
  <1>7. SlotsSound' /\ SlotsSuffice' /\ Settled' /\ Assigning'
    BY <1>1 DEF SlotsSound, SlotsSuffice, Settled, Assigning
  <1>8. Before(at)' = Before(at + 1) /\ fit' = fit /\ due' = due
    BY <1>1 DEF Before, history
  <1>9. \A i \in Server : i \in Int
    BY DEF Server
  <1>10. /\ Before(at + 1) = Before(at) \cup {at} /\ at \notin Before(at)
         /\ at \notin fit => fit \cap Before(at + 1) = fit \cap Before(at)
    <2>1. \A n \in Server : /\ Before(n + 1) = Before(n) \cup {n} /\ n \notin Before(n)
                            /\ n \notin fit => fit \cap Before(n + 1) = fit \cap Before(n)
      BY <1>4, Passing, ZenonT(40)
    <2> QED BY <1>2, <2>1, Zenon
  <1>11. CASE at \in fit
    <2>1. /\ nlive' = nlive + 1 /\ next_rebuild' = next_rebuild
          /\ next_retry' = [next_retry EXCEPT ![at] = 0]
      <3>1. CASE auto_eject_hosts
        BY <1>6, <1>11, <3>1 DEF CountServer, BackIn
      <3>2. CASE ~auto_eject_hosts
        <4>1. next_retry[at] = 0
          BY <1>1, <1>2, <3>2 DEF Retries
        <4> QED BY <1>4, <3>2, <4>1 DEF CountServer
      <3> QED BY <3>1, <3>2
    <2>2. next_retry' \in [Server -> Nat] /\ Retries'
      BY <1>1, <1>4, <1>8, <2>1 DEF Retries
    <2>3. TypeOK'
      BY <1>1, <1>2, <2>1, <2>2 DEF TypeOK, history
    <2>4. nlive' = Cardinality(fit \cap Before(at + 1))
      BY <1>2, <1>3, <1>4, <1>11, <2>1, Passing
    <2>5. Before(at + 1) \ fit = Before(at) \ fit
      BY <1>11, <1>10, Zenon
    <2>6. RebuildOf(Before(at) \ fit)'
      BY <1>3, <1>8, <2>1, <2>5 DEF RebuildOf
    <2>7. \A i \in fit : next_retry'[i] <= now /\ (i < at + 1 => next_retry'[i] = 0)
      BY <1>2, <1>3, <1>4, <1>9, <2>1
    <2>8. \A i \in Server \ fit : next_retry'[i] > now
      BY <1>2, <1>3, <1>4, <1>11, <2>1
    <2>9. Counting'
      BY <1>1, <1>3, <1>8, <2>4, <2>6, <2>7, <2>8 DEF Counting
    <2> QED BY <1>7, <2>2, <2>3, <2>9 DEF Inv
  <1>12. CASE at \notin fit
    <2>1. /\ nlive' = nlive /\ next_retry' = next_retry
          /\ next_rebuild' = IF Sooner(at) THEN next_retry[at] ELSE next_rebuild
      BY <1>5, <1>12 DEF CountServer
    <2>2. TypeOK' /\ Retries'
      BY <1>1, <1>2, <1>8, <2>1 DEF TypeOK, Retries, history
    <2>3. nlive' = Cardinality(fit \cap Before(at + 1))
      <3>1. fit \cap Before(at + 1) = fit \cap Before(at)
        BY <1>12, <1>10
      <3> QED BY <1>3, <2>1, <3>1
    <2>4. Before(at + 1) \ fit = (Before(at) \ fit) \cup {at} /\ at \notin Before(at) \ fit
      BY <1>12, <1>10, Zenon
    <2>5. RebuildOf(Before(at) \ fit)'
      <3> DEFINE out == Before(at) \ fit
                 all == Before(at + 1) \ fit
      <3>1. out \in SUBSET Server /\ all = out \cup {at} /\ RebuildOf(out)
        BY <1>3, <2>4 DEF Before
      <3>2. due[at] \in Nat /\ due[at] > now /\ next_rebuild \in Nat
        BY <1>1, <1>2, <1>3, <1>4, <1>5, <1>12 DEF TypeOK
      <3>3. next_rebuild' = IF next_rebuild = 0 \/ due[at] < next_rebuild THEN due[at]
                            ELSE next_rebuild
        BY <1>5, <1>12, <2>1 DEF Sooner
      <3> HIDE DEF out, all
      <3>4. all # {} /\ next_rebuild' # 0
        BY <1>3, <3>1, <3>2, <3>3
      <3>5. next_rebuild' \in {due[i] : i \in all}
        <4>1. CASE next_rebuild' = due[at]
          BY <3>1, <4>1
        <4>2. CASE next_rebuild' # due[at]
          BY <3>1, <3>3, <4>2 DEF RebuildOf
        <4> QED BY <4>1, <4>2
      <3>6. \A i \in all : next_rebuild' <= due[i]
        <4> SUFFICES ASSUME NEW i \in all PROVE next_rebuild' <= due[i]
          OBVIOUS
        <4>1. due[i] \in Nat
          BY <1>2, <1>4, <3>1
        <4>2. CASE i = at
          BY <3>2, <3>3, <4>2
        <4>3. CASE i # at
          <5>1. i \in out /\ next_rebuild <= due[i] /\ next_rebuild # 0
            BY <3>1, <4>3 DEF RebuildOf
          <5> QED BY <3>2, <3>3, <4>1, <5>1
        <4> QED BY <4>2, <4>3
      <3>7. (Before(at) \ fit)' = all
        BY <1>8 DEF all
      <3> QED BY <1>8, <3>4, <3>5, <3>6, <3>7 DEF RebuildOf
    <2>6. \A i \in fit : i < at + 1 => next_retry[i] = 0
      BY <1>2, <1>3, <1>4, <1>9, <1>12
    <2>7. Counting'
      BY <1>1, <1>3, <1>8, <2>1, <2>3, <2>5, <2>6 DEF Counting
    <2> QED BY <1>7, <2>2, <2>7 DEF Inv
  <1> QED BY <1>11, <1>12

\* Between the loops the continuum is extended, unless no server is live.
LEMMA ExtendInv == Inv /\ Extend => Inv'
  <1> SUFFICES ASSUME Inv, Extend PROVE Inv'
    OBVIOUS
  <1>1. /\ TypeOK /\ SlotsSound /\ SlotsSuffice /\ Retries /\ Counting
        /\ pc = "count" /\ at = NServer /\ at' = 0 /\ nlive' = 0 /\ continuum_index' = 0
        /\ nlive_server' = nlive /\ nlive \in Nat /\ NServer \in Nat
        /\ UNCHANGED <<auto_eject_hosts, next_retry, next_rebuild, now, due, fit, crashed>>
    BY ServerPoolAssumption DEF Inv, TypeOK, Extend
  <1>2. fit \in SUBSET Server /\ IsFiniteSet(fit)
    BY <1>1, ServerSets DEF TypeOK
  <1>3. fit \cap Before(NServer) = fit /\ Before(NServer) = Server /\ fit \cap Before(0) = {}
    BY <1>2, Passing, Zenon
  <1>4. /\ nlive = Cardinality(fit) /\ RebuildOf(Server \ fit) /\ Sorted
    <2>1. nlive = Cardinality(fit \cap Before(NServer)) /\ RebuildOf(Before(NServer) \ fit)
      BY <1>1 DEF Counting
    <2>2. Sorted
      BY <1>1, <1>2 DEF Counting, Sorted, Server
    <2> QED BY <1>3, <2>1, <2>2, Zenon
  <1>5. RebuildOf(Server \ fit)' /\ Sorted' /\ Retries' /\ SlotsSuffice' /\ Counting'
    BY <1>1, <1>4 DEF RebuildOf, Sorted, Retries, SlotsSuffice, Counting, Extend
  <1>6. CASE nlive = 0
    <2>1. pc' = "idle" /\ updated' = TRUE /\ UNCHANGED <<nserver_continuum, continuum>>
      BY <1>6 DEF Extend
    <2>2. TypeOK'
      BY <1>1, <1>6, <2>1 DEF TypeOK
    <2>3. fit = {}
      BY <1>2, <1>4, <1>6, FS_EmptySet
    <2>4. \A i \in Server : i \in fit <=> next_retry[i] = 0
      BY <1>1, <1>4, <2>3, ServerPoolAssumption DEF Sorted, Time
    <2>5. InSlots' = fit
      BY <1>1, <1>6, <2>3 DEF InSlots
    <2>6. Settled'
      BY <1>1, <1>4, <1>5, <2>4, <2>5 DEF Settled
    <2>7. SlotsSound' /\ Assigning'
      BY <1>1, <2>1 DEF SlotsSound, Assigning
    <2> QED BY <1>5, <2>2, <2>6, <2>7 DEF Inv
  <1>7. CASE nlive # 0
    <2>1. /\ pc' = "assign" /\ updated' = updated /\ continuum' = Slots(nlive)
          /\ nserver_continuum' = IF nlive > nserver_continuum
                                  THEN nlive + RANDOM_CONTINUUM_ADDITION ELSE nserver_continuum
      BY <1>7 DEF Extend
    <2>2. nlive >= 1 /\ nlive <= NServer
      BY <1>1, <1>2, <1>4, <1>7, ServerSets
    <2>3. /\ continuum' \in Seq(Server) /\ Len(continuum') >= NServer
          /\ Len(continuum') <= nserver_continuum'
      BY <1>1, <2>1, <2>2, SlotsGrow
    <2>4. nserver_continuum' \in Nat /\ nserver_continuum' > 0
      BY <1>1, <2>1, <2>2, ServerPoolAssumption DEF TypeOK
    <2>5. TypeOK'
      BY <1>1, <2>1, <2>3, <2>4 DEF TypeOK
    <2>6. Assigning'
      <3>1. (fit \cap Before(at))' = {}
        BY <1>1, <1>3 DEF Before
      <3>2. {continuum[k] : k \in 1..continuum_index}' = {}
        BY <1>1
      <3> QED BY <1>1, <1>4, <1>5, <2>4, <3>1, <3>2, FS_EmptySet DEF Assigning
    <2>7. SlotsSound' /\ Settled'
      BY <2>1, <2>3 DEF SlotsSound, Settled
    <2> QED BY <1>5, <2>5, <2>6, <2>7 DEF Inv
  <1> QED BY <1>6, <1>7

\* The second loop gives the next slot to a server that is in: there is one.
LEMMA AssignInv == Inv /\ AssignSlot => Inv'
  <1> SUFFICES ASSUME Inv, AssignSlot PROVE Inv'
    OBVIOUS
  <1>1. /\ TypeOK /\ SlotsSound /\ SlotsSuffice /\ Retries /\ Assigning
        /\ pc = "assign" /\ at \in 0..NServer /\ at < NServer /\ at' = at + 1
        /\ UNCHANGED <<auto_eject_hosts, next_retry, nlive_server, next_rebuild,
                       nserver_continuum, pc, now, nlive, history>>
    BY DEF Inv, TypeOK, AssignSlot
  <1>2. at \in Server /\ NServer \in Nat /\ at + 1 \in 0..NServer
    BY <1>1, ServerPoolAssumption DEF Server
  <1>3. /\ nlive = 0 /\ Sorted /\ RebuildOf(Server \ fit) /\ nserver_continuum > 0
        /\ Cardinality(fit) = nlive_server
        /\ continuum_index = Cardinality(fit \cap Before(at))
        /\ {continuum[k] : k \in 1..continuum_index} = fit \cap Before(at)
    BY <1>1 DEF Assigning
  <1>4. /\ fit \in SUBSET Server /\ continuum \in Seq(Server) /\ Len(continuum) \in Nat
        /\ Len(continuum) >= NServer /\ continuum_index \in Nat
    BY <1>1, <1>3 DEF TypeOK, SlotsSound
  <1>5. \A n \in Server : /\ Before(n + 1) = Before(n) \cup {n} /\ n \notin Before(n)
                          /\ n \notin fit => fit \cap Before(n + 1) = fit \cap Before(n)
                          /\ n \in fit => /\ fit \cap Before(n + 1) = (fit \cap Before(n)) \cup {n}
                                          /\ Cardinality(fit \cap Before(n + 1))
                                               = Cardinality(fit \cap Before(n)) + 1
    BY <1>4, Passing, ZenonT(40)
  <1>6. Before(at)' = Before(at + 1) /\ fit' = fit /\ due' = due
    BY <1>1 DEF Before, history
  <1>7. Sorted' /\ RebuildOf(Server \ fit)' /\ Retries' /\ Settled' /\ Counting'
    BY <1>1, <1>3, <1>6 DEF Sorted, RebuildOf, Retries, Settled, Counting
  <1>8. now \in Nat /\ \A i \in Server \ fit : next_retry[i] > now
    BY <1>3, ServerPoolAssumption DEF Sorted, Time
  <1>9. CASE at \in fit
    <2>1. next_retry[at] = 0 /\ 0 <= now /\ ~(next_retry[at] > now)
      BY <1>3, <1>8, <1>9 DEF Sorted
    <2>2. continuum_index + 1 <= NServer
      <3>1. Cardinality(fit \cap Before(at + 1)) = continuum_index + 1
        BY <1>2, <1>3, <1>5, <1>9
      <3>2. fit \cap Before(at + 1) \in SUBSET Server
        BY <1>4
      <3> QED BY <3>1, <3>2, ServerSets
    <2>3. continuum_index < Len(continuum)
      BY <1>2, <1>4, <2>2
    <2>4. /\ continuum' = [continuum EXCEPT ![continuum_index + 1] = at]
          /\ crashed' = crashed /\ continuum_index' = continuum_index + 1
      BY <2>1, <2>3 DEF AssignSlot
    <2>5. continuum' \in Seq(Server) /\ Len(continuum') = Len(continuum)
      BY <1>2, <1>4, <2>3, <2>4
    <2>6. {continuum[k] : k \in 1..continuum_index}' = (fit \cap Before(at)) \cup {at}
      <3>1. /\ \A k \in 1..continuum_index : continuum'[k] = continuum[k]
            /\ continuum'[continuum_index + 1] = at
        BY <1>4, <2>3, <2>4
      <3>2. 1..(continuum_index + 1) = 1..continuum_index \cup {continuum_index + 1}
        BY <1>4
      <3>3. {continuum'[k] : k \in 1..(continuum_index + 1)}
              = {continuum[k] : k \in 1..continuum_index} \cup {at}
        BY <3>1, <3>2
      <3> QED BY <1>3, <2>4, <3>3
    <2>7. Assigning'
      <3>1. continuum_index' = Cardinality(fit \cap Before(at + 1))
        BY <1>2, <1>3, <1>5, <1>9, <2>4
      <3>2. {continuum[k] : k \in 1..continuum_index}' = fit \cap Before(at + 1)
        BY <1>2, <1>5, <1>9, <2>6
      <3> QED BY <1>1, <1>3, <1>6, <1>7, <3>1, <3>2 DEF Assigning
    <2>8. TypeOK' /\ SlotsSound' /\ SlotsSuffice'
      BY <1>1, <1>2, <1>4, <2>4, <2>5 DEF TypeOK, SlotsSound, SlotsSuffice, history
    <2> QED BY <1>7, <2>7, <2>8 DEF Inv
  <1>10. CASE at \notin fit
    <2>1. next_retry[at] > now /\ auto_eject_hosts
      <3>1. next_retry[at] > now /\ next_retry[at] # 0
        BY <1>2, <1>8, <1>10
      <3> QED BY <1>1, <1>2, <3>1 DEF Retries
    <2>2. next_retry[at] \in Nat
      BY <1>1, <1>2 DEF TypeOK
    <2>3. UNCHANGED <<continuum, continuum_index, crashed>>
      BY <1>8, <2>1, <2>2 DEF AssignSlot
    <2>4. TypeOK' /\ SlotsSound' /\ SlotsSuffice'
      BY <1>1, <1>2, <2>3 DEF TypeOK, SlotsSound, SlotsSuffice, history
    <2>5. fit \cap Before(at + 1) = fit \cap Before(at)
      BY <1>2, <1>5, <1>10, Zenon
    <2>6. Assigning'
      BY <1>1, <1>3, <1>6, <1>7, <2>3, <2>5 DEF Assigning
    <2> QED BY <1>7, <2>4, <2>6 DEF Inv
  <1> QED BY <1>9, <1>10

\* When update returns, each server that is in has one of the slots in use.
LEMMA ReturnInv == Inv /\ Return => Inv'
  <1> SUFFICES ASSUME Inv, Return PROVE Inv'
    OBVIOUS
  <1>1. /\ TypeOK /\ SlotsSound /\ SlotsSuffice /\ Retries /\ Assigning
        /\ pc = "assign" /\ at = NServer /\ pc' = "idle" /\ updated' = TRUE
        /\ at' = 0 /\ continuum_index' = 0
        /\ UNCHANGED <<auto_eject_hosts, next_retry, poolVars, now, nlive, due, fit, crashed>>
    BY DEF Inv, Return
  <1>2. TypeOK' /\ SlotsSound' /\ SlotsSuffice' /\ Retries' /\ Counting' /\ Assigning'
    BY <1>1, ServerPoolAssumption
    DEF TypeOK, SlotsSound, SlotsSuffice, Retries, Counting, Assigning, poolVars
  <1>3. /\ nlive = 0 /\ Sorted /\ RebuildOf(Server \ fit) /\ Cardinality(fit) = nlive_server
        /\ continuum_index = Cardinality(fit \cap Before(NServer))
        /\ {continuum[k] : k \in 1..continuum_index} = fit \cap Before(NServer)
    BY <1>1 DEF Assigning
  <1>4. fit \cap Before(NServer) = fit
    BY <1>1, Passing, Zenon DEF TypeOK
  <1>5. InSlots' = fit
    BY <1>1, <1>3, <1>4 DEF InSlots, poolVars
  <1>6. Sorted' /\ RebuildOf(Server \ fit)'
    BY <1>1, <1>3 DEF Sorted, RebuildOf, poolVars
  <1>7. \A i \in Server : i \in fit <=> next_retry[i] = 0
    BY <1>1, <1>3, ServerPoolAssumption DEF Sorted, Time
  <1>8. Settled'
    BY <1>1, <1>3, <1>5, <1>6, <1>7 DEF Settled, poolVars
  <1> QED BY <1>2, <1>8 DEF Inv

\* Every step keeps the invariant.
LEMMA NextInv == Inv /\ [Next]_vars => Inv'
  <1> SUFFICES ASSUME Inv, [Next]_vars PROVE Inv'
    OBVIOUS
  <1>1. ASSUME NEW i \in Server, FailureCounted(i) \/ FailureNoClock(i) PROVE Inv'
    <2>1. crashed # "bounds"
      BY DEF Inv, SlotsSuffice
    <2> QED BY <1>1, <2>1, SameInv DEF FailureCounted, FailureNoClock
  <1>2. ASSUME NEW i \in Server, NEW time \in Time, NEW then \in Time \cup {NoTime},
               Failure(i, time, then)
        PROVE  Inv'
    <2>1. /\ Calls /\ auto_eject_hosts /\ Update(fit \ {i}, then) /\ updated' = FALSE
          /\ next_retry' = [next_retry EXCEPT ![i] = time + server_retry_timeout]
          /\ due' = [due EXCEPT ![i] = time + server_retry_timeout]
          /\ auto_eject_hosts' = auto_eject_hosts
      BY <1>2 DEF Failure, Update
    <2>2. /\ next_retry \in [Server -> Nat] /\ due \in [Server -> Nat] /\ fit \in SUBSET Server
          /\ Retries /\ \A j \in Server : j \in fit <=> next_retry[j] = 0
      BY <2>1 DEF Inv, TypeOK, Settled, Calls
    <2>3. time + server_retry_timeout \in Nat /\ time + server_retry_timeout # 0
      BY ServerPoolAssumption DEF Time
    <2>4. /\ next_retry' \in [Server -> Nat] /\ due' \in [Server -> Nat] /\ Retries'
          /\ \A j \in Server : j \in fit \ {i} <=> next_retry'[j] = 0
      BY <2>1, <2>2, <2>3 DEF Retries
    <2> QED BY <2>1, <2>2, <2>4, UpdateInv
  <1>3. ASSUME NEW time \in Time \cup {NoTime}, UpdateNow(time) PROVE Inv'
    <2>1. /\ Calls /\ Update(fit, time) /\ UNCHANGED <<next_retry, due, updated>>
          /\ auto_eject_hosts' = auto_eject_hosts
      BY <1>3 DEF UpdateNow, Update
    <2>2. /\ next_retry' \in [Server -> Nat] /\ due' \in [Server -> Nat] /\ fit \in SUBSET Server
          /\ updated' \in BOOLEAN /\ Retries'
          /\ \A j \in Server : j \in fit <=> next_retry'[j] = 0
      BY <2>1 DEF Inv, TypeOK, Settled, Calls, Retries
    <2> QED BY <2>1, <2>2, UpdateInv
  <1>4. CASE getConn
    <2>1. crashed' # "bounds"
      BY <1>4 DEF getConn, Calls
    <2> QED BY <1>4, <2>1, SameInv DEF getConn
  <1>5. CASE CountServer \/ Extend \/ AssignSlot \/ Return
    BY <1>5, CountInv, ExtendInv, AssignInv, ReturnInv
  <1>6. CASE UNCHANGED vars
    BY <1>6, SameInv DEF vars, Inv, SlotsSuffice
  <1> QED BY <1>1, <1>2, <1>3, <1>4, <1>5, <1>6 DEF Next

\* The servers are where the history says when update has returned.
LEMMA SettledWell == Inv => LiveServersHaveSlots /\ InUntilFailure /\ RebuildInTime
  <1> SUFFICES ASSUME Inv, Updated PROVE LiveServersHaveSlots /\ InUntilFailure /\ RebuildInTime
    BY DEF LiveServersHaveSlots, InUntilFailure, RebuildInTime
  <1>1. /\ TypeOK /\ Retries /\ Sorted /\ RebuildOf(Server \ fit)
        /\ InSlots = fit /\ Cardinality(fit) = nlive_server
    BY DEF Inv, Settled, Updated
  <1>2. now \in Nat /\ fit \in SUBSET Server /\ next_retry \in [Server -> Nat]
    BY <1>1, ServerPoolAssumption DEF Sorted, Time, TypeOK
  <1>3. {i \in Server : auto_eject_hosts => next_retry[i] <= now} = fit
    BY <1>1, <1>2 DEF Sorted, Retries
  <1> QED BY <1>1, <1>3 DEF LiveServersHaveSlots, InUntilFailure, RebuildInTime, RebuildOf

\* Update writes no slot that the continuum does not have, for any number of servers
\* that ServerPoolAssumption allows and any sequence of ejections and returns.
THEOREM SlotsAlways == Spec => []SlotsSuffice
  BY InitInv, NextInv, PTL DEF Spec, Inv

\* The two loops of update agree on the servers that are live, and each of these has a
\* slot of its own.
THEOREM LiveInSlots == Spec => []LiveServersHaveSlots
  BY InitInv, NextInv, SettledWell, PTL DEF Spec

\* A server that failed to the limit is out until its retry was due at an update, and in
\* from then until it fails again, wherever the clock is set.
THEOREM OutUntilDue == Spec => []InUntilFailure
  BY InitInv, NextInv, SettledWell, PTL DEF Spec

\* next_rebuild is the earliest time at which a server that is out is due, and 0 when
\* none is.
THEOREM RebuildAtEarliest == Spec => []RebuildInTime
  BY InitInv, NextInv, SettledWell, PTL DEF Spec
===============================================================================
