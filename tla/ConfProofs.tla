------------------------------ MODULE ConfProofs ------------------------------
(***************************************************************************)
(* The reading of a configuration, for documents of any size and addresses *)
(* of any form: args always holds the path to the place libyaml is at, so   *)
(* the parser pops nothing that is not there and stores every directive     *)
(* where the document has it.                                               *)
(***************************************************************************)
EXTENDS NcConf, SequenceTheorems, TLAPS

Scalars == {Word("alpha")} \cup Keys \cup Address

\* What the parser knows of its place in the document.
Place ==
    \/ phase = "begin" /\ depth = 0 /\ seq = FALSE /\ Len(args) = 0
       /\ at \in {"stream", "doc", "root", "eos"}
    \/ phase = "core" /\ at = "pools" /\ depth = 1 /\ seq = FALSE /\ Len(args) = 0
    \/ phase = "core" /\ at = "poolval" /\ depth = 1 /\ seq = FALSE /\ Len(args) = 1
    \/ phase = "core" /\ at = "keys" /\ depth = 2 /\ seq = FALSE /\ Len(args) = 1
    \/ phase = "core" /\ at = "val" /\ depth = 2 /\ seq = FALSE /\ Len(args) = 2 /\ args[2] = ykey
    \/ phase = "core" /\ at = "items" /\ depth = 2 /\ seq = TRUE /\ Len(args) = 2 /\ args[2] = ykey
    \/ phase \in {"end", "ok", "error"}

\* data is the pool the document is at.
Current == data = Len(pool) /\ (at \in {"poolval", "keys", "val", "items"} => data # 0)

Stacked == args \in Seq(Scalars)

Listing == \E S : pool \in Seq(S)

ConfInv == pool = doc /\ Place /\ Current /\ Stacked /\ Listing

\* yamlPopScalar keeps the bottom of the stack.
LEMMA PoppedProperties ==
    ASSUME NEW a \in Seq(Scalars), NEW n \in Nat, n <= Len(a)
    PROVE  /\ Popped(a, n) \in Seq(Scalars)
           /\ Len(Popped(a, n)) = Len(a) - n
           /\ \A i \in 1..(Len(a) - n) : Popped(a, n)[i] = a[i]
  BY SubSeqProperties DEF Popped

\* yamlPushScalar adds to the top.
LEMMA PushProperties ==
    ASSUME NEW a \in Seq(Scalars), NEW v \in Scalars
    PROVE  /\ Append(a, v) \in Seq(Scalars)
           /\ Len(Append(a, v)) = Len(a) + 1
           /\ \A i \in 1..Len(a) : Append(a, v)[i] = a[i]
           /\ Append(a, v)[Len(a) + 1] = v
  OBVIOUS

\* A list of pools stays one when a pool is appended or changed.
LEMMA ListingKept ==
    ASSUME NEW S, NEW s \in Seq(S), NEW x
    PROVE  /\ \E T : Append(s, x) \in Seq(T)
           /\ Len(Append(s, x)) = Len(s) + 1
           /\ Len(s) # 0 => /\ \E T : [s EXCEPT ![Len(s)] = x] \in Seq(T)
                            /\ Len([s EXCEPT ![Len(s)] = x]) = Len(s)
  <1> DEFINE T == S \cup {x}
  <1>1. s \in Seq(T) /\ x \in T
    OBVIOUS
  <1>2. Append(s, x) \in Seq(T) /\ Len(Append(s, x)) = Len(s) + 1
    BY <1>1
  <1>3. ASSUME Len(s) # 0
        PROVE  /\ [s EXCEPT ![Len(s)] = x] \in Seq(T)
               /\ Len([s EXCEPT ![Len(s)] = x]) = Len(s)
    BY <1>1, <1>3
  <1> HIDE DEF T
  <1> QED BY <1>2, <1>3

\* The name of a pool begins a pool and stays on the stack.
LEMMA PushName ==
    ASSUME NEW v \in Scalars, NEW res, seq = FALSE, depth = 1, Len(args) = 0,
           Stacked, Pushed(v, res)
    PROVE  /\ pool' = Append(pool, NewPool) /\ data' = Len(pool')
           /\ args' \in Seq(Scalars) /\ Len(args') = 1
           /\ phase' = "core" /\ depth' = depth /\ seq' = seq
  <1> DEFINE a == Append(args, v)
  <1>1. a \in Seq(Scalars) /\ Len(a) = 1
    BY PushProperties DEF Stacked
  <1> HIDE DEF a
  <1>2. Popped(a, 0) \in Seq(Scalars) /\ Len(Popped(a, 0)) = 1
    BY <1>1, PoppedProperties
  <1>3. args' = Popped(a, 0) /\ pool' = Append(pool, NewPool)
    BY <1>1 DEF Pushed, a
  <1> QED BY <1>1, <1>2, <1>3 DEF Pushed, a

\* A key of a pool stays on the stack.
LEMMA PushKey ==
    ASSUME NEW v \in Scalars, NEW res, seq = FALSE, depth = 2, Len(args) = 1,
           Stacked, Pushed(v, res)
    PROVE  /\ pool' = pool /\ data' = data
           /\ args' \in Seq(Scalars) /\ Len(args') = 2 /\ args'[2] = v
           /\ phase' = "core" /\ depth' = depth /\ seq' = seq
  <1> DEFINE a == Append(args, v)
  <1>1. a \in Seq(Scalars) /\ Len(a) = 2 /\ a[2] = v
    BY PushProperties DEF Stacked
  <1> HIDE DEF a
  <1>2. Popped(a, 0) \in Seq(Scalars) /\ Len(Popped(a, 0)) = 2 /\ Popped(a, 0)[2] = v
    BY <1>1, PoppedProperties
  <1>3. args' = Popped(a, 0)
    BY <1>1 DEF Pushed, a
  <1> QED BY <1>1, <1>2, <1>3 DEF Pushed, a

\* A value goes to the current pool under the key below it, and is popped: with
\* the key when it is no element of a list.
LEMMA PushValue ==
    ASSUME NEW v \in Scalars, NEW res, seq = TRUE \/ seq = FALSE, depth = 2, Len(args) = 2,
           Stacked, data # 0, Pushed(v, res)
    PROVE  /\ pool' = [pool EXCEPT ![data] = Directive(@, args[2], v, res)] /\ data' = data
           /\ args' \in Seq(Scalars)
           /\ seq = TRUE => Len(args') = 2 /\ args'[2] = args[2]
           /\ seq = FALSE => Len(args') = 1
           /\ phase' = "core" /\ depth' = depth /\ seq' = seq
  <1> DEFINE a == Append(args, v)
  <1>1. a \in Seq(Scalars) /\ Len(a) = 3 /\ a[2] = args[2]
    <2>1. 2 \in 1..Len(args)
      OBVIOUS
    <2>2. /\ a \in Seq(Scalars) /\ Len(a) = Len(args) + 1
          /\ \A i \in 1..Len(args) : a[i] = args[i]
      BY PushProperties DEF Stacked
    <2> HIDE DEF a
    <2> QED BY <2>1, <2>2
  <1> HIDE DEF a
  <1>2. /\ Popped(a, 1) \in Seq(Scalars) /\ Len(Popped(a, 1)) = 2 /\ Popped(a, 1)[2] = args[2]
        /\ Popped(a, 2) \in Seq(Scalars) /\ Len(Popped(a, 2)) = 1
    <2>1. 2 \in 1..(Len(a) - 1) /\ 1 <= Len(a) /\ 2 <= Len(a)
      BY <1>1
    <2>2. /\ Popped(a, 1) \in Seq(Scalars) /\ Len(Popped(a, 1)) = Len(a) - 1
          /\ \A i \in 1..(Len(a) - 1) : Popped(a, 1)[i] = a[i]
      BY <1>1, <2>1, PoppedProperties
    <2>3. Popped(a, 2) \in Seq(Scalars) /\ Len(Popped(a, 2)) = Len(a) - 2
      BY <1>1, <2>1, PoppedProperties
    <2> QED BY <1>1, <2>1, <2>2, <2>3
  <1>3. CASE seq = TRUE
    <2>1. args' = Popped(a, 1) /\ data' = data /\ phase' = "core"
      BY <1>1, <1>3 DEF Pushed, a
    <2>2. pool' = [pool EXCEPT ![data] = Directive(@, a[Len(a) - 1], v, res)]
      <3>1. seq \/ (depth # 1 /\ Len(a) = depth + 1)
        BY <1>1, <1>3
      <3>2. ~(~seq /\ depth = 1) /\ Len(a) > 1 /\ data # 0
        BY <1>1
      <3> QED BY <3>1, <3>2 DEF Pushed, a
    <2>3. a[Len(a) - 1] = args[2]
      BY <1>1
    <2> QED BY <1>2, <1>3, <2>1, <2>2, <2>3 DEF Pushed
  <1>4. CASE seq = FALSE
    <2>1. args' = Popped(a, 2) /\ data' = data /\ phase' = "core"
      BY <1>1, <1>4 DEF Pushed, a
    <2>2. pool' = [pool EXCEPT ![data] = Directive(@, a[Len(a) - 1], v, res)]
      <3>1. seq \/ (depth # 1 /\ Len(a) = depth + 1)
        BY <1>1, <1>4
      <3>2. ~(~seq /\ depth = 1) /\ Len(a) > 1 /\ data # 0
        BY <1>1
      <3> QED BY <3>1, <3>2 DEF Pushed, a
    <2>3. a[Len(a) - 1] = args[2]
      BY <1>1
    <2> QED BY <1>2, <1>4, <2>1, <2>2, <2>3 DEF Pushed
  <1> QED BY <1>3, <1>4

\* Every step keeps the parser and the document together.
LEMMA ConfStep == ConfInv /\ [Next]_vars => ConfInv'
  <1> SUFFICES ASSUME ConfInv, [Next]_vars PROVE ConfInv'
    OBVIOUS
  <1> USE DEF ConfInv
  <1>1. CASE EventError
    BY <1>1 DEF EventError, yamlVars, Place, Current, Stacked, Listing
  <1>2. CASE BeginSkip
    BY <1>2 DEF BeginSkip, confVars, Place, Current, Stacked, Listing
  <1>3. CASE BeginMapping
    BY <1>3 DEF BeginMapping, Place, Current, Stacked, Listing
  <1>4. CASE CoreMappingStart
    BY <1>4 DEF CoreMappingStart, Place, Current, Stacked, Listing
  <1>5. CASE CoreMappingEnd
    <2>1. args # <<>> => Len(args) # 0
      BY DEF Stacked
    <2>2. ASSUME Len(args) = 1
          PROVE  Popped(args, 1) \in Seq(Scalars) /\ Len(Popped(args, 1)) = 0 /\ args # <<>>
      <3>1. args # <<>>
        BY <2>2
      <3> QED BY <2>2, <3>1, PoppedProperties DEF Stacked
    <2>3. Place' /\ Stacked'
      BY <1>5, <2>1, <2>2 DEF CoreMappingEnd, Place, Stacked
    <2> QED BY <1>5, <2>3 DEF CoreMappingEnd, Current, Listing, Place
  <1>6. CASE CoreSequenceStart
    BY <1>6 DEF CoreSequenceStart, Place, Current, Stacked, Listing
  <1>7. CASE CoreSequenceEnd
    <2>1. ASSUME Len(args) = 2
          PROVE  Popped(args, 1) \in Seq(Scalars) /\ Len(Popped(args, 1)) = 1 /\ args # <<>>
      <3>1. args # <<>>
        BY <2>1
      <3>2. 1 <= Len(args) /\ args \in Seq(Scalars)
        BY <2>1 DEF Stacked
      <3>3. Popped(args, 1) \in Seq(Scalars) /\ Len(Popped(args, 1)) = Len(args) - 1
        BY <3>2, PoppedProperties
      <3> QED BY <2>1, <3>1, <3>3
    <2>2. Place' /\ Stacked'
      BY <1>7, <2>1 DEF CoreSequenceEnd, Place, Stacked
    <2> QED BY <1>7, <2>2 DEF CoreSequenceEnd, Current, Listing, Place
  <1>8. CASE CoreEmpty
    BY <1>8 DEF CoreEmpty, yamlVars, Place, Current, Stacked, Listing
  <1>9. CASE CorePoolName
    <2>1. seq = FALSE /\ depth = 1 /\ Len(args) = 0
      BY <1>9 DEF CorePoolName, Place
    <2>2. Word("alpha") \in Scalars
      BY DEF Scalars
    <2>3. /\ pool' = Append(pool, NewPool) /\ data' = Len(pool')
          /\ args' \in Seq(Scalars) /\ Len(args') = 1
          /\ phase' = "core" /\ depth' = depth /\ seq' = seq
      BY <1>9, <2>1, <2>2, PushName DEF CorePoolName
    <2>4. (\E T : pool' \in Seq(T)) /\ Len(pool') = Len(pool) + 1 /\ Len(pool) \in Nat
      <3>1. PICK S : pool \in Seq(S)
        BY DEF Listing
      <3>2. Len(pool) \in Nat
        BY <3>1
      <3> QED BY <2>3, <3>1, <3>2, ListingKept
    <2>5. Place' /\ Stacked'
      BY <1>9, <2>1, <2>3 DEF CorePoolName, Place, Stacked
    <2> QED BY <1>9, <2>3, <2>4, <2>5 DEF CorePoolName, Current, Listing
  <1>10. CASE CoreKey
    <2>1. seq = FALSE /\ depth = 2 /\ Len(args) = 1
      BY <1>10 DEF CoreKey, Place
    <2>2. PICK k \in Keys : ykey' = k /\ Pushed(k, TRUE)
      BY <1>10 DEF CoreKey
    <2>3. k \in Scalars
      BY DEF Scalars
    <2>4. /\ pool' = pool /\ data' = data
          /\ args' \in Seq(Scalars) /\ Len(args') = 2 /\ args'[2] = k
          /\ phase' = "core" /\ depth' = depth /\ seq' = seq
      BY <2>1, <2>2, <2>3, PushKey
    <2>5. Place' /\ Stacked'
      BY <1>10, <2>1, <2>2, <2>4 DEF CoreKey, Place, Stacked
    <2> QED BY <1>10, <2>4, <2>5 DEF CoreKey, Current, Listing
  <1>11. CASE CoreValue
    <2>1. /\ seq = TRUE \/ seq = FALSE
          /\ depth = 2 /\ Len(args) = 2 /\ args[2] = ykey
          /\ data # 0 /\ data = Len(pool)
          /\ ((at = "val" /\ seq = FALSE) \/ (at = "items" /\ seq = TRUE))
      <3>1. phase = "core" /\ (at = "val" \/ at = "items")
        BY <1>11 DEF CoreValue
      <3>2. data # 0 /\ data = Len(pool)
        BY <3>1 DEF Current
      <3>3. \/ at = "val" /\ depth = 2 /\ seq = FALSE /\ Len(args) = 2 /\ args[2] = ykey
            \/ at = "items" /\ depth = 2 /\ seq = TRUE /\ Len(args) = 2 /\ args[2] = ykey
        BY <3>1 DEF Place
      <3> QED BY <3>2, <3>3
    <2>2. PICK v \in Address, res \in BOOLEAN :
            /\ doc' = [doc EXCEPT ![Len(doc)] = Directive(@, ykey, v, res)]
            /\ Pushed(v, res)
      BY <1>11 DEF CoreValue
    <2>3. v \in Scalars
      BY DEF Scalars
    <2>4. /\ pool' = [pool EXCEPT ![data] = Directive(@, args[2], v, res)] /\ data' = data
          /\ args' \in Seq(Scalars)
          /\ seq = TRUE => Len(args') = 2 /\ args'[2] = args[2]
          /\ seq = FALSE => Len(args') = 1
          /\ phase' = "core" /\ depth' = depth /\ seq' = seq
      BY <2>1, <2>2, <2>3, PushValue
    <2>5. pool' = doc'
      BY <2>1, <2>2, <2>4
    <2>6. pool' = [pool EXCEPT ![Len(pool)] = Directive(pool[Len(pool)], ykey, v, res)]
      BY <2>1, <2>4
    <2>7. (\E T : pool' \in Seq(T)) /\ Len(pool') = Len(pool)
      <3>1. PICK S : pool \in Seq(S)
        BY DEF Listing
      <3> QED BY <2>1, <2>6, <3>1, ListingKept
    <2>8. Place' /\ Stacked'
      BY <1>11, <2>1, <2>4 DEF CoreValue, Place, Stacked
    <2> QED BY <1>11, <2>1, <2>4, <2>5, <2>7, <2>8 DEF CoreValue, Current, Listing
  <1>12. CASE EndSkip
    BY <1>12 DEF EndSkip, confVars, Place, Current, Stacked, Listing
  <1>13. CASE EndStream
    BY <1>13 DEF EndStream, Place, Current, Stacked, Listing
  <1>14. CASE UNCHANGED vars
    BY <1>14 DEF vars, Place, Current, Stacked, Listing
  <1> QED BY <1>1, <1>2, <1>3, <1>4, <1>5, <1>6, <1>7, <1>8, <1>9, <1>10, <1>11, <1>12,
             <1>13, <1>14 DEF Next

\* The empty parser is at the beginning of the document.
LEMMA ConfInit == Init => ConfInv
  <1> SUFFICES ASSUME Init PROVE ConfInv
    OBVIOUS
  <1>1. <<>> \in Seq(Scalars) /\ <<>> \in Seq({}) /\ Len(<<>>) = 0
    OBVIOUS
  <1>2. Listing
    BY <1>1 DEF Init, Listing
  <1> QED BY <1>1, <1>2 DEF Init, ConfInv, Place, Current, Stacked

\* The parser and the document are together in every behaviour.
LEMMA ConfAlways == Spec => []ConfInv
  BY ConfInit, ConfStep, PTL DEF Spec

\* No document makes parseCore pop an empty stack or store a directive through
\* a null pool (nc_conf.cpp:431-533).
THEOREM NoCrash == Spec => []ParserSafe
  <1>1. ConfInv => ParserSafe
    BY DEF ConfInv, Place, ParserSafe
  <1> QED BY <1>1, ConfAlways, PTL

\* The pools are at every moment those the part of the document read so far
\* describes (nc_conf.cpp:477-577).
THEOREM ReadAsWritten == Spec => []PoolsAsWritten
  <1>1. ConfInv => PoolsAsWritten
    BY DEF ConfInv, PoolsAsWritten
  <1> QED BY <1>1, ConfAlways, PTL

------------------------------------------------------------------------------
\* A server and a listener that spell an address back.
GoodServer ==
    {s \in [ok: BOOLEAN, name: Seq(Int), port: Int, perm: Int, weight: Int] :
        \E v \in Address : v.f = Spelled(s)}

Binds(l) ==
    l.valid =>
      \E v \in Address :
        \/ v.f = Append(l.info[1], l.info[2])
        \/ v.path /\ l.info[1] \in {v.f, Rest(v.f)}

GoodListen ==
    {l \in [valid: BOOLEAN, name: Seq(Int), port: Int, perm: Int,
            info: {<<>>} \cup (Seq(Int) \X Int)] : Binds(l)}

GoodPool == [listen: GoodListen, server: Seq(GoodServer)]

\* A number that fits an int and is read without an error is the one written.
LEMMA AtoiExact ==
    ASSUME NEW t \in Int, t < IntMod \div 2, nc_atoi(t) >= 0
    PROVE  nc_atoi(t) = t /\ t \in Nat
  <1>1. IntMod \in Nat /\ IntMod > 0
    BY ConfAssumption
  <1>2. t >= 0
    BY DEF nc_atoi
  <1>3. t % IntMod = t
    BY <1>1, <1>2
  <1> QED BY <1>2, <1>3 DEF nc_atoi

\* An address of the document is a sequence of integers.
LEMMA AddressFields ==
    ASSUME NEW v \in Address
    PROVE  v.f \in Seq(Int) /\ Len(v.f) \in Nat \ {0} /\ v.path \in BOOLEAN
  <1>1. v.f \in Seq(Field) /\ v.path \in BOOLEAN /\ v.f # <<>>
    BY ConfAssumption
  <1>2. Field \subseteq Int
    BY DEF Field, Text, Blank
  <1>3. v.f \in Seq(Int)
    <2>1. Len(v.f) \in Nat /\ v.f = [i \in 1..Len(v.f) |-> v.f[i]]
          /\ \A i \in 1..Len(v.f) : v.f[i] \in Field
      BY <1>1
    <2>2. \A i \in 1..Len(v.f) : v.f[i] \in Int
      BY <1>2, <2>1
    <2> QED BY <2>1, <2>2, IsASeq
  <1> QED BY <1>1, <1>3

\* An address is what is before its last separator and what is after it.
LEMMA RestLast ==
    ASSUME NEW f \in Seq(Int), Len(f) >= 1
    PROVE  /\ Rest(f) \in Seq(Int) /\ Len(Rest(f)) = Len(f) - 1
           /\ Last(f) \in Int /\ Last(f) = f[Len(f)]
           /\ \A i \in 1..(Len(f) - 1) : Rest(f)[i] = f[i]
           /\ f = Append(Rest(f), Last(f))
  <1>1. /\ Rest(f) \in Seq(Int) /\ Len(Rest(f)) = Len(f) - 1
        /\ \A i \in 1..(Len(f) - 1) : Rest(f)[i] = f[i]
    <2> DEFINE n == Len(f) - 1
    <2>1. n \in Nat /\ \A i \in 1..n : f[i] \in Int
      OBVIOUS
    <2> HIDE DEF n
    <2>2. SubSeq(f, 1, n) \in Seq(Int) /\ Len(SubSeq(f, 1, n)) = (IF 1 <= n THEN n - 1 + 1 ELSE 0)
          /\ \A i \in 1..(n - 1 + 1) : SubSeq(f, 1, n)[i] = f[1 + i - 1]
      BY <2>1, SubSeqProperties
    <2>3. SubSeq(f, 1, n) \in Seq(Int) /\ Len(SubSeq(f, 1, n)) = n
          /\ \A i \in 1..n : SubSeq(f, 1, n)[i] = f[i]
      BY <2>1, <2>2
    <2> QED BY <2>3 DEF Rest, n
  <1>2. Last(f) \in Int /\ Last(f) = f[Len(f)]
    BY DEF Last
  <1> DEFINE g == Append(Rest(f), Last(f))
  <1>3. g \in Seq(Int) /\ Len(g) = Len(f)
    BY <1>1, <1>2
  <1>4. \A i \in 1..Len(f) : g[i] = f[i]
    BY <1>1, <1>2
  <1>5. f = g
    BY <1>3, <1>4, SeqEqual
  <1> QED BY <1>1, <1>2, <1>5

\* Two fields put back after a name are two appends.
LEMMA ConcatTwo ==
    ASSUME NEW s \in Seq(Int), NEW a \in Int, NEW b \in Int
    PROVE  s \o <<a, b>> = Append(Append(s, a), b)
  <1> DEFINE l == s \o <<a, b>>
             r == Append(Append(s, a), b)
  <1>1. l \in Seq(Int) /\ r \in Seq(Int) /\ Len(l) = Len(r)
    OBVIOUS
  <1>2. \A i \in 1..Len(l) : l[i] = r[i]
    OBVIOUS
  <1> QED BY <1>1, <1>2, SeqEqual

\* What NcConfServer::parse stores of a plain address spells it back.
LEMMA ServerSpelled ==
    ASSUME NEW v \in Address, Plain(v), ServerParse(v).ok
    PROVE  ServerParse(v) \in GoodServer
  <1> DEFINE f == v.f
             g == Rest(f)
             split == Splits(f) /\ Splits(g)
             second == IF v.path THEN strtol(Last(g)) ELSE nc_atoi(Last(g))
             weight == nc_atoi(Last(f))
  <1>1. /\ Splits(f) /\ weight >= 0
        /\ v.path => (Splits(g) => second <= PermMax)
        /\ ~v.path => split /\ ncValidPort(second)
        /\ ServerParse(v) = [ok |-> TRUE, name |-> IF split THEN Rest(g) ELSE f,
                             port |-> IF ~v.path THEN second ELSE Unset,
                             perm |-> IF v.path /\ split THEN second ELSE Unset,
                             weight |-> weight]
    BY DEF ServerParse
  <1>2. f \in Seq(Int) /\ Len(f) >= 2 /\ v.path \in BOOLEAN
    BY <1>1, AddressFields DEF Splits
  <1>3. /\ g \in Seq(Int) /\ Len(g) = Len(f) - 1 /\ Last(f) \in Int /\ Last(f) = f[Len(f)]
        /\ f = Append(g, Last(f)) /\ \A i \in 1..(Len(f) - 1) : g[i] = f[i]
    <2> HIDE DEF f
    <2>1. Len(f) >= 1
      BY <1>2
    <2> QED BY <1>2, <2>1, RestLast
  <1>4. /\ Rest(g) \in Seq(Int) /\ Last(g) \in Int /\ Last(g) = f[Len(f) - 1]
        /\ g = Append(Rest(g), Last(g))
    <2>1. Len(g) >= 1 /\ Len(g) \in 1..(Len(f) - 1)
      BY <1>2, <1>3
    <2>2. Rest(g) \in Seq(Int) /\ Last(g) \in Int /\ Last(g) = g[Len(g)] /\ g = Append(Rest(g), Last(g))
      BY <1>3, <2>1, RestLast
    <2> HIDE DEF f, g
    <2> QED BY <1>3, <2>1, <2>2
  <1>5. weight = Last(f) /\ weight \in Nat
    <2>1. f[Len(f)] < IntMod \div 2
      BY <1>2 DEF Plain
    <2> QED BY <1>1, <1>3, <2>1, AtoiExact
  <1>6. ASSUME split
        PROVE  second = Last(g) /\ second \in Nat
    <2>1. Len(f) >= 3 /\ Len(f) - 1 \in DOMAIN f
      BY <1>2, <1>3, <1>6 DEF Splits
    <2>2. CASE v.path
      <3>1. Last(g) \in Nat
        BY <1>4, <2>1, <2>2 DEF Plain
      <3> QED BY <2>2, <3>1 DEF strtol
    <2>3. CASE ~v.path
      <3>1. second = nc_atoi(Last(g)) /\ second >= 1
        BY <1>1, <2>3 DEF ncValidPort
      <3>2. f[Len(f) - 1] < IntMod \div 2
        BY <2>1 DEF Plain
      <3>3. nc_atoi(Last(g)) >= 0
        <4>1. nc_atoi(Last(g)) \in Int
          BY <1>4, ConfAssumption DEF nc_atoi
        <4> QED BY <3>1, <4>1
      <3> QED BY <1>4, <3>1, <3>2, <3>3, AtoiExact
    <2> QED BY <2>2, <2>3
  <1> HIDE DEF f, g, split, second, weight
  <1>7. ASSUME split
        PROVE  f = Rest(g) \o <<second, weight>>
    <2>1. Rest(g) \o <<second, weight>> = Append(Append(Rest(g), second), weight)
      <3>1. Rest(g) \in Seq(Int) /\ second \in Int /\ weight \in Int
        BY <1>4, <1>5, <1>6, <1>7
      <3> QED BY <3>1, ConcatTwo
    <2>2. f = Append(Append(Rest(g), Last(g)), Last(f))
      BY <1>3, <1>4, Zenon
    <2> QED BY <1>5, <1>6, <1>7, <2>1, <2>2, Zenon
  <1> DEFINE s == ServerParse(v)
  <1>8. s \in [ok: BOOLEAN, name: Seq(Int), port: Int, perm: Int, weight: Int]
    <2>1. (IF split THEN Rest(g) ELSE f) \in Seq(Int)
      BY <1>2, <1>4
    <2>2. (IF ~v.path THEN second ELSE Unset) \in Int
      BY <1>1, <1>6 DEF Unset
    <2>3. (IF v.path /\ split THEN second ELSE Unset) \in Int
      BY <1>6 DEF Unset
    <2> QED BY <1>1, <1>5, <2>1, <2>2, <2>3
  <1>9. f = Spelled(s)
    <2>1. CASE ~v.path
      <3>1. s.port = second /\ s.name = Rest(g) /\ s.weight = weight /\ second # Unset
        BY <1>1, <1>6, <2>1 DEF Unset
      <3> HIDE DEF s
      <3> QED BY <1>1, <1>7, <2>1, <3>1 DEF Spelled
    <2>2. CASE v.path /\ split
      <3>1. s.port = Unset /\ s.perm = second /\ s.name = Rest(g) /\ s.weight = weight /\ second # Unset
        BY <1>1, <1>6, <2>2 DEF Unset
      <3> HIDE DEF s
      <3> QED BY <1>7, <2>2, <3>1 DEF Spelled
    <2>3. CASE v.path /\ ~split
      <3>1. s.port = Unset /\ s.perm = Unset /\ s.name = f
        BY <1>1, <2>3
      <3> HIDE DEF s
      <3> QED BY <3>1 DEF Spelled
    <2> QED BY <1>2, <2>1, <2>2, <2>3
  <1> HIDE DEF s
  <1>10. s \in GoodServer
    BY <1>8, <1>9 DEF GoodServer, f
  <1> QED BY <1>10 DEF s

\* What NcConfListen::parse leaves in a listener is typed, and what it accepts of
\* a plain address spells it back.
LEMMA ListenSpelled ==
    ASSUME NEW v \in Address, Plain(v), NEW old \in GoodListen
    PROVE  LET r == ListenParse(v, old)
           IN  /\ r.name \in Seq(Int) /\ r.port \in Int /\ r.perm \in Int /\ r.ok \in BOOLEAN
               /\ r.ok => \E w \in Address :
                     \/ w.f = Append(r.name, r.port)
                     \/ w.path /\ r.name \in {w.f, Rest(w.f)}
  <1> DEFINE f == v.f
             split == Splits(f)
             number == IF v.path THEN strtol(Last(f)) ELSE nc_atoi(Last(f))
             good == IF v.path THEN split => number <= PermMax
                     ELSE split /\ ncValidPort(number)
             r == ListenParse(v, old)
  <1>1. f \in Seq(Int) /\ Len(f) >= 1 /\ v.path \in BOOLEAN
    BY AddressFields
  <1>2. /\ Rest(f) \in Seq(Int) /\ Last(f) \in Int /\ Last(f) = f[Len(f)]
        /\ f = Append(Rest(f), Last(f))
    BY <1>1, RestLast
  <1>3. number \in Int
    BY <1>2, ConfAssumption DEF strtol, nc_atoi
  <1>4. old.name \in Seq(Int) /\ old.port \in Int /\ old.perm \in Int
    BY DEF GoodListen
  <1>5. r = [ok   |-> good,
             name |-> IF ~good THEN old.name ELSE IF split THEN Rest(f) ELSE f,
             port |-> IF split /\ ~v.path THEN number ELSE old.port,
             perm |-> IF split /\ v.path THEN number ELSE old.perm]
    BY DEF ListenParse
  <1>6. ASSUME ~v.path, good
        PROVE  f = Append(Rest(f), number) /\ split
    <2>1. nc_atoi(Last(f)) >= 0
      BY <1>3, <1>6 DEF ncValidPort
    <2>2. f[Len(f)] < IntMod \div 2
      BY <1>1 DEF Plain
    <2>3. nc_atoi(Last(f)) = Last(f)
      BY <1>2, <2>1, <2>2, AtoiExact
    <2> QED BY <1>2, <1>6, <2>3
  <1>7. good \in BOOLEAN
    BY <1>1, <1>3 DEF Splits, ncValidPort
  <1> HIDE DEF f, split, number, good, r
  <1>8. r.name \in Seq(Int) /\ r.port \in Int /\ r.perm \in Int /\ r.ok \in BOOLEAN
    BY <1>1, <1>2, <1>3, <1>4, <1>5, <1>7
  <1>9. ASSUME r.ok
        PROVE  \/ v.f = Append(r.name, r.port)
               \/ v.path /\ r.name \in {v.f, Rest(v.f)}
    <2>1. CASE ~v.path
      BY <1>5, <1>6, <1>9, <2>1 DEF f
    <2>2. CASE v.path
      BY <1>5, <1>9, <2>2 DEF f
    <2> QED BY <2>1, <2>2
  <1> QED BY <1>8, <1>9 DEF r

\* A directive keeps a pool good.
LEMMA DirectiveGood ==
    ASSUME NEW p \in GoodPool, NEW key, NEW v \in Address, Plain(v), NEW res \in BOOLEAN
    PROVE  Directive(p, key, v, res) \in GoodPool
  <1>1. p.listen \in GoodListen /\ p.server \in Seq(GoodServer)
        /\ p = [listen |-> p.listen, server |-> p.server]
    BY DEF GoodPool
  <1>2. WithServer(p, v, res) \in GoodPool
    <2>1. CASE ServerParse(v).ok /\ res
      <3>1. Append(p.server, ServerParse(v)) \in Seq(GoodServer)
        BY <1>1, <2>1, ServerSpelled
      <3>2. WithServer(p, v, res) = [listen |-> p.listen, server |-> Append(p.server, ServerParse(v))]
        BY <1>1, <2>1 DEF WithServer
      <3> QED BY <1>1, <3>1, <3>2 DEF GoodPool
    <2>2. CASE ~(ServerParse(v).ok /\ res)
      BY <2>2 DEF WithServer
    <2> QED BY <2>1, <2>2
  <1>3. WithListen(p, v, res) \in GoodPool
    <2> DEFINE old == p.listen
               r == ListenParse(v, old)
               ok == r.ok /\ res
               m == [valid |-> old.valid \/ ok, name |-> r.name, port |-> r.port, perm |-> r.perm,
                     info |-> IF ok THEN <<r.name, r.port>> ELSE old.info]
    <2>1. /\ r.name \in Seq(Int) /\ r.port \in Int /\ r.perm \in Int /\ r.ok \in BOOLEAN
          /\ r.ok => \E w \in Address :
                \/ w.f = Append(r.name, r.port)
                \/ w.path /\ r.name \in {w.f, Rest(w.f)}
      BY <1>1, ListenSpelled
    <2>2. WithListen(p, v, res) = [listen |-> m, server |-> p.server]
      BY <1>1 DEF WithListen
    <2>3. old.valid \in BOOLEAN /\ old.info \in {<<>>} \cup (Seq(Int) \X Int) /\ Binds(old)
      BY <1>1 DEF GoodListen
    <2> HIDE DEF old, r
    <2>4. m.valid \in BOOLEAN /\ m.info \in {<<>>} \cup (Seq(Int) \X Int)
      BY <2>1, <2>3
    <2>5. Binds(m)
      <3>1. CASE ok
        <4>1. m.info[1] = r.name /\ m.info[2] = r.port
          BY <3>1
        <4> HIDE DEF m
        <4> QED BY <2>1, <3>1, <4>1 DEF Binds
      <3>2. CASE ~ok
        <4>1. m.info = old.info /\ (m.valid <=> old.valid)
          BY <2>3, <3>2
        <4> HIDE DEF m
        <4> QED BY <2>3, <4>1 DEF Binds
      <3> QED BY <3>1, <3>2
    <2>6. m \in GoodListen
      BY <2>1, <2>4, <2>5 DEF GoodListen
    <2> HIDE DEF m
    <2> QED BY <1>1, <2>2, <2>6 DEF GoodPool
  <1> QED BY <1>2, <1>3 DEF Directive

\* A new pool has nothing to spell.
LEMMA NewPoolGood == NewPool \in GoodPool
  <1>1. NoListen \in GoodListen
    BY DEF NoListen, GoodListen, Binds, Unset
  <1> QED BY <1>1 DEF NewPool, GoodPool

\* Taking addresses apart loses nothing, when the numbers in the document fit an
\* int and the permissions are numbers (nc_conf.cpp NcConfListen::parse and
\* NcConfServer::parse).
THEOREM SpelledBack ==
    ASSUME \A v \in Address : Plain(v)
    PROVE  Spec => []AddressesSpellBack
  <1> DEFINE Good == doc \in Seq(GoodPool)
  <1>1. Init => Good
    <2>1. <<>> \in Seq(GoodPool)
      OBVIOUS
    <2> QED BY <2>1 DEF Init
  <1>2. ASSUME ConfInv, Good, [Next]_vars
        PROVE  Good'
    <2>1. CASE CorePoolName
      <3>1. doc' = Append(doc, NewPool)
        BY <2>1 DEF CorePoolName
      <3> QED BY <1>2, <3>1, NewPoolGood
    <2>2. CASE CoreValue
      <3>1. PICK v \in Address, res \in BOOLEAN :
              doc' = [doc EXCEPT ![Len(doc)] = Directive(@, ykey, v, res)]
        BY <2>2 DEF CoreValue
      <3>2. Len(doc) \in 1..Len(doc)
        <4>1. phase = "core" /\ (at = "val" \/ at = "items")
          BY <2>2 DEF CoreValue
        <4>2. Len(doc) # 0
          BY <1>2, <4>1 DEF ConfInv, Current
        <4> QED BY <1>2, <4>2
      <3>3. Directive(doc[Len(doc)], ykey, v, res) \in GoodPool
        BY <1>2, <3>2, DirectiveGood
      <3> QED BY <1>2, <3>1, <3>2, <3>3
    <2>3. ASSUME ~CorePoolName, ~CoreValue
          PROVE  doc' = doc
      BY <1>2, <2>3 DEF Next, EventError, BeginSkip, BeginMapping, CoreMappingStart, CoreMappingEnd,
         CoreSequenceStart, CoreSequenceEnd, CoreEmpty, CoreKey, EndSkip, EndStream, yamlVars, vars
    <2> QED BY <1>2, <2>1, <2>2, <2>3
  <1>3. ASSUME ConfInv, Good
        PROVE  AddressesSpellBack
    <2>1. pool \in Seq(GoodPool)
      BY <1>3 DEF ConfInv
    <2>2. ASSUME NEW i \in DOMAIN pool
          PROVE  /\ \A j \in DOMAIN pool[i].server : \E v \in Address : v.f = Spelled(pool[i].server[j])
                 /\ Binds(pool[i].listen)
      <3>1. pool[i].server \in Seq(GoodServer) /\ pool[i].listen \in GoodListen
        <4>1. pool[i] \in GoodPool
          BY <2>1, <2>2
        <4> QED BY <4>1 DEF GoodPool
      <3>2. ASSUME NEW j \in DOMAIN pool[i].server
            PROVE  \E v \in Address : v.f = Spelled(pool[i].server[j])
        <4>1. pool[i].server[j] \in GoodServer
          BY <3>1, <3>2
        <4> QED BY <4>1 DEF GoodServer
      <3> QED BY <3>1, <3>2 DEF GoodListen
    <2> QED BY <2>2 DEF AddressesSpellBack, Binds
  <1> QED BY <1>1, <1>2, <1>3, ConfAlways, PTL DEF Spec
==============================================================================
