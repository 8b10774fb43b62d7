----------------------------- MODULE KqueueProofs -----------------------------
(***************************************************************************)
(* The event base, with its arrays and descriptors, keeps the promise of   *)
(* Readiness.                                                              *)
(*                                                                         *)
(* KnotesFollowFlags is not inductive: it looks at the entries of change[] *)
(* on descriptors that are open, while accept() may open one that an entry *)
(* of a closed connection still names.  Expected is what change[] would    *)
(* leave if every descriptor were open, and no knote of it may belong to a *)
(* connection that is closed.  For the events, delConn overwrites one of   *)
(* the descriptor: that it is the only one, and one of the connection,     *)
(* follows from what a batch looks like (BatchSound).                      *)
(***************************************************************************)
EXTENDS NcKqueue, TLAPS

Change == [ident: Desc \cup {NoSd}, filter: Filter, op: {"add", "delete"}, udata: Fd]

Kevent == [ident: Desc, filter: Filter \cup {"none"}, udata: Fd]

TypeOK ==
    /\ sd \in [Fd -> Desc \cup {NoSd}]
    /\ ract \subseteq Fd /\ sact \subseteq Fd
    /\ change \in Seq(Change)
    /\ event \subseteq Kevent /\ cur \in Kevent \cup {None}
    /\ knote \subseteq Knote

\* A descriptor belongs to one connection, and a closed one is not registered.
DescSound ==
    /\ \A c, d \in Fd : sd[c] = sd[d] /\ sd[c] # NoSd => c = d
    /\ \A c \in ract : sd[c] # NoSd

Entry(e) == [ident |-> e.ident, filter |-> e.filter, udata |-> e.udata]

\* No entry of ch is on key.
Untouched(ch, key) == \A i \in DOMAIN ch : Key(ch[i]) # key

\* Entry i of ch adds a knote, and no later one is on the same knote.
AddsLast(ch, i) ==
    ch[i].op = "add" /\ \A j \in DOMAIN ch : Key(ch[j]) = Key(ch[i]) => j <= i

\* The knotes after the entries ch, with all descriptors open.
After(kn, ch) ==
    {k \in kn : Untouched(ch, Key(k))}
      \cup {Entry(ch[i]) : i \in {j \in DOMAIN ch : ch[j].ident \in Desc /\ AddsLast(ch, j)}}

Expected == After(knote, change)

Meant(s, r, w, k) ==
    s[k.udata] = k.ident /\ k.udata \in IF k.filter = "read" THEN r ELSE w

KnotesSound ==
    /\ \A k \in Expected : Meant(sd, ract, sact, k)
    /\ \A c \in ract : [ident |-> sd[c], filter |-> "read", udata |-> c] \in Expected

\* The events of a batch: the one that is handled and those that wait.
Batch == event \cup ({cur} \ {None})

BatchSound ==
    /\ cur \notin event
    /\ \A e \in Batch : e.filter # "none" => sd[e.udata] = e.ident
    /\ \A e, f \in Batch : e.ident = f.ident <=> e.udata = f.udata
    /\ \A e, f, g \in Batch : e.ident = f.ident /\ f.ident = g.ident => e = f \/ f = g \/ e = g

Inv == TypeOK /\ DescSound /\ KnotesSound /\ BatchSound

------------------------------------------------------------------------------
\* One more entry: it alone decides about its knote.
LEMMA AfterAppend ==
    ASSUME NEW kn \in SUBSET Knote, NEW ch \in Seq(Change), NEW e \in Change
    PROVE  LET new == ch \o <<e>>
           IN  /\ new \in Seq(Change)
               /\ \A key : Untouched(new, key) <=> Untouched(ch, key) /\ Key(e) # key
               /\ \A k : k \in After(kn, new) <=>
                    \/ k \in After(kn, ch) /\ Key(k) # Key(e)
                    \/ e.op = "add" /\ e.ident \in Desc /\ k = Entry(e)
  <1> DEFINE new == ch \o <<e>>
             n == Len(ch)
  <1>1. /\ n \in Nat /\ DOMAIN ch = 1..n /\ DOMAIN new = 1..(n + 1) /\ new \in Seq(Change)
        /\ \A i \in 1..n : new[i] = ch[i]
        /\ new[n + 1] = e
    OBVIOUS
  <1> HIDE DEF new, n
  <1>2. DOMAIN new = DOMAIN ch \cup {n + 1} /\ n + 1 \notin DOMAIN ch
    BY <1>1
  <1>3. \A key : Untouched(new, key) <=> Untouched(ch, key) /\ Key(e) # key
    BY <1>1, <1>2 DEF Untouched
  <1>4. AddsLast(new, n + 1) <=> e.op = "add"
    BY <1>1 DEF AddsLast
  <1>5. \A i \in DOMAIN ch : AddsLast(new, i) <=> AddsLast(ch, i) /\ Key(ch[i]) # Key(e)
    BY <1>1, <1>2 DEF AddsLast
  <1>6. \A i \in DOMAIN ch : Key(Entry(ch[i])) = Key(ch[i])
    BY DEF Key, Entry
  <1>7. Key(Entry(e)) = Key(e)
    BY DEF Key, Entry
  <1>8. ASSUME NEW k
        PROVE  k \in After(kn, new) <=>
                    \/ k \in After(kn, ch) /\ Key(k) # Key(e)
                    \/ e.op = "add" /\ e.ident \in Desc /\ k = Entry(e)
    <2>1. k \in After(kn, new) <=>
            \/ k \in kn /\ Untouched(new, Key(k))
            \/ \E i \in DOMAIN ch : /\ ch[i].ident \in Desc /\ AddsLast(new, i)
                                    /\ k = Entry(ch[i])
            \/ e.ident \in Desc /\ AddsLast(new, n + 1) /\ k = Entry(e)
      BY <1>1, <1>2 DEF After
    <2>2. k \in After(kn, ch) <=>
            \/ k \in kn /\ Untouched(ch, Key(k))
            \/ \E i \in DOMAIN ch : /\ ch[i].ident \in Desc /\ AddsLast(ch, i)
                                    /\ k = Entry(ch[i])
      BY DEF After
    <2> QED BY <2>1, <2>2, <1>3, <1>4, <1>5, <1>6, <1>7
  <1> QED BY <1>1, <1>3, <1>8 DEF new

\* kevent() has applied change[]: only the knotes are left.
LEMMA AfterNone ==
    ASSUME NEW kn \in SUBSET Knote
    PROVE  After(kn, <<>>) = kn /\ \A key : Untouched(<<>>, key)
  BY DEF After, Untouched

\* The knotes change[] leaves are knotes, of an open descriptor.
LEMMA AfterType ==
    ASSUME NEW kn \in SUBSET Knote, NEW ch \in Seq(Change)
    PROVE  After(kn, ch) \subseteq Knote
  <1>1. \A i \in DOMAIN ch : ch[i] \in Change
    OBVIOUS
  <1>2. \A e \in Change : e.ident \in Desc => Entry(e) \in Knote
    BY DEF Change, Entry, Knote
  <1> QED BY <1>1, <1>2 DEF After

\* In the states of Inv an entry that kevent() refuses would have added nothing: what
\* it leaves is Expected.
LEMMA AppliedExpected ==
    ASSUME TypeOK, KnotesSound
    PROVE  /\ Applied = Expected
           /\ AppliedActive = {k \in Expected : Key(k) \in active /\ Untouched(change, Key(k))}
  <1>1. \A key : On(key) = {} <=> Untouched(change, key)
    BY DEF On, Untouched
  <1>2. \A i \in DOMAIN change : change[i].op = "add" /\ IsLast(i) <=> AddsLast(change, i)
    BY DEF IsLast, On, AddsLast
  <1>3. Taken \subseteq Desc
    BY DEF Taken, TypeOK
  <1>4. \A i \in DOMAIN change : change[i].udata \in Fd
    <2>1. \A i \in DOMAIN change : change[i] \in Change
      BY DEF TypeOK
    <2> QED BY <2>1 DEF Change
  <1>5. \A i \in DOMAIN change :
          change[i].ident \in Desc /\ AddsLast(change, i) => change[i].ident \in Taken
    <2> SUFFICES ASSUME NEW i \in DOMAIN change, change[i].ident \in Desc, AddsLast(change, i)
                 PROVE  change[i].ident \in Taken
      OBVIOUS
    <2>1. Entry(change[i]) \in Expected
      BY DEF Expected, After
    <2>2. sd[change[i].udata] = change[i].ident
      BY <2>1 DEF KnotesSound, Meant, Entry
    <2> QED BY <2>2, <1>4, KqueueAssumption DEF Taken
  <1>6. Applied = Expected
    <2>1. \A k : k \in Applied <=>
            \/ k \in knote /\ On(Key(k)) = {}
            \/ \E i \in DOMAIN change : /\ change[i].op = "add" /\ change[i].ident \in Taken
                                        /\ IsLast(i) /\ k = Entry(change[i])
      BY DEF Applied, Entry
    <2>2. \A k : k \in Expected <=>
            \/ k \in knote /\ Untouched(change, Key(k))
            \/ \E i \in DOMAIN change : /\ change[i].ident \in Desc /\ AddsLast(change, i)
                                        /\ k = Entry(change[i])
      BY DEF Expected, After
    <2> QED BY <2>1, <2>2, <1>1, <1>2, <1>3, <1>5
  <1> QED BY <1>1, <1>6 DEF AppliedActive

------------------------------------------------------------------------------
\* EV_SET makes an entry, also for a connection without a descriptor.
LEMMA EntryType ==
    ASSUME TypeOK, NEW c \in Fd, NEW f \in Filter, NEW op \in {"add", "delete"}
    PROVE  EV_SET(c, f, op) \in Change
  BY DEF EV_SET, Change, TypeOK

\* A callback that runs for a filter is one of an open connection.
LEMMA InOpen ==
    ASSUME Inv, NEW c \in Fd, NEW f \in Filter, In(c, f)
    PROVE  cur \in Kevent /\ cur \in Batch /\ cur.udata = c /\ sd[c] = cur.ident /\ sd[c] \in Desc
  BY DEF Inv, TypeOK, BatchSound, Batch, In, Filter, Kevent

\* The connections of two expected knotes differ when their descriptors do, and the
\* other way round.
LEMMA OneOwner ==
    ASSUME TypeOK, DescSound, KnotesSound, NEW k \in Expected, NEW c \in Fd, sd[c] \in Desc
    PROVE  k \in Knote /\ (k.ident = sd[c] <=> k.udata = c)
  <1>1. k \in Knote
    BY AfterType DEF Expected, TypeOK
  <1>2. k.udata \in Fd /\ sd[k.udata] = k.ident
    BY <1>1 DEF KnotesSound, Meant, Knote
  <1> QED BY <1>1, <1>2, KqueueAssumption DEF DescSound

\* processClose(c): of the expected knotes those of c go, and nothing else changes for
\* the others.
LEMMA CloseKnotes ==
    ASSUME Inv, NEW c \in Fd, processClose(c)
    PROVE  /\ sd[c] \in Desc /\ change' \in Seq(Change) /\ knote' \subseteq knote
           /\ \A k : k \in Expected' <=> k \in Expected /\ k.udata # c
           /\ \A k \in Expected : k.udata # c =>
                /\ Untouched(change, Key(k)) <=> Untouched(change, Key(k))'
                /\ Key(k) \in active <=> Key(k) \in active'
  <1> USE DEF Inv
  <1>1. PICK f \in Filter : In(c, f)
    BY DEF processClose
  <1>2. sd[c] \in Desc
    BY <1>1, InOpen
  <1> DEFINE ch1 == change \o Dels(sact, c, "write")
             ch2 == ch1 \o Dels(ract, c, "read")
             w == EV_SET(c, "write", "delete")
             r == EV_SET(c, "read", "delete")
  <1>3. /\ w \in Change /\ w.ident = sd[c] /\ w.op = "delete" /\ Key(w) = <<sd[c], "write">>
        /\ r \in Change /\ r.ident = sd[c] /\ r.op = "delete" /\ Key(r) = <<sd[c], "read">>
    BY EntryType DEF EV_SET, Key, Filter
  <1>4. \A k \in Expected :
          /\ k \in Knote /\ (k.ident = sd[c] <=> k.udata = c)
          /\ k.udata = c => c \in IF k.filter = "read" THEN ract ELSE sact
          /\ Key(k) = <<k.ident, k.filter>> /\ k.filter \in Filter
    <2>1. \A k \in Expected : k \in Knote /\ (k.ident = sd[c] <=> k.udata = c)
      BY <1>2, OneOwner
    <2> QED BY <2>1 DEF KnotesSound, Meant, Key, Knote
  <1>5. /\ ch1 \in Seq(Change)
        /\ \A key : key[1] # sd[c] => (Untouched(ch1, key) <=> Untouched(change, key))
        /\ \A k : k \in After(knote, ch1) <=>
                    k \in Expected /\ ~(k.udata = c /\ k.filter = "write")
    <2>1. CASE c \in sact
      <3>1. ch1 = change \o <<w>>
        BY <2>1 DEF Dels
      <3> HIDE DEF w, ch1
      <3>2. /\ ch1 \in Seq(Change)
            /\ \A key : Untouched(ch1, key) <=> Untouched(change, key) /\ Key(w) # key
            /\ \A k : k \in After(knote, ch1) <=> k \in After(knote, change) /\ Key(k) # Key(w)
        BY <3>1, <1>3, AfterAppend DEF TypeOK
      <3> QED BY <3>2, <1>3, <1>4 DEF Expected
    <2>2. CASE c \notin sact
      <3>1. ch1 = change
        BY <2>2 DEF Dels, TypeOK
      <3> HIDE DEF ch1
      <3>2. \A k \in Expected : ~(k.udata = c /\ k.filter = "write")
        BY <1>4, <2>2
      <3> QED BY <3>1, <3>2 DEF Expected, TypeOK
    <2> QED BY <2>1, <2>2
  <1>6. /\ ch2 \in Seq(Change)
        /\ \A key : key[1] # sd[c] => (Untouched(ch2, key) <=> Untouched(change, key))
        /\ \A k : k \in After(knote, ch2) <=> k \in Expected /\ k.udata # c
    <2> HIDE DEF ch1, r
    <2>1. CASE c \in ract
      <3>1. ch2 = ch1 \o <<r>>
        BY <2>1 DEF Dels, r
      <3> HIDE DEF ch2
      <3>2. /\ ch2 \in Seq(Change)
            /\ \A key : Untouched(ch2, key) <=> Untouched(ch1, key) /\ Key(r) # key
            /\ \A k : k \in After(knote, ch2) <=> k \in After(knote, ch1) /\ Key(k) # Key(r)
        BY <3>1, <1>3, <1>5, AfterAppend DEF TypeOK
      <3>3. \A key : key[1] # sd[c] => Key(r) # key
        BY <1>3
      <3>4. \A k \in Expected : Key(k) # Key(r) <=> ~(k.udata = c /\ k.filter = "read")
        BY <1>3, <1>4
      <3> QED BY <3>2, <3>3, <3>4, <1>4, <1>5 DEF Filter
    <2>2. CASE c \notin ract
      <3>1. ch2 = ch1
        BY <2>2, <1>5 DEF Dels
      <3> HIDE DEF ch2
      <3>2. \A k \in Expected : ~(k.udata = c /\ k.filter = "read")
        BY <1>4, <2>2
      <3> QED BY <3>1, <3>2, <1>4, <1>5 DEF Filter
    <2> QED BY <2>1, <2>2
  <1> HIDE DEF ch1, w, r
  <1>7. change' = ch2
    BY DEF processClose, ch1
  <1> HIDE DEF ch2
  <1>8. \A k \in Expected : k.udata # c => Key(k)[1] # sd[c]
    BY <1>4
  <1>9. \A k \in Expected : k.udata # c => (Untouched(change, Key(k)) <=> Untouched(change', Key(k)))
    BY <1>6, <1>7, <1>8
  <1>10. CASE c # Srv
    <2>1. /\ knote' = {k \in knote : k.ident # sd[c]}
          /\ active' = {k \in active : k[1] # sd[c]}
      BY <1>10 DEF processClose, CloseSd
    <2>2. \A k : k \in After(knote', ch2) <=> k \in After(knote, ch2) /\ (k.ident # sd[c] \/ k \in After({}, ch2))
      BY <2>1 DEF After
    <2>3. \A k : k \in After({}, ch2) => k \in After(knote, ch2)
      BY DEF After
    <2>4. \A k : k \in After(knote', ch2) <=> k \in Expected /\ k.udata # c
      BY <2>2, <2>3, <1>6, <1>4
    <2> QED BY <1>2, <1>6, <1>7, <1>8, <1>9, <2>1, <2>4 DEF Expected
  <1>11. CASE c = Srv
    <2>1. knote' = knote /\ active' = active
      BY <1>11 DEF processClose, CloseSd, kernel
    <2> QED BY <1>2, <1>6, <1>7, <1>9, <2>1 DEF Expected
  <1> QED BY <1>10, <1>11

\* processClose(c): the events of its descriptor are its own, and are no events any
\* more.
LEMMA CloseEvents ==
    ASSUME Inv, NEW c \in Fd, processClose(c)
    PROVE  /\ event' \subseteq Kevent /\ cur' = None
           /\ \A e \in event' : \/ e \in event /\ e.udata # c
                                \/ /\ e.filter = "none" /\ e.udata = c
                                   /\ \E x \in event : x.udata = c /\ x.ident = e.ident
           /\ \A e \in event : e.udata # c => e \in event'
           /\ \A e \in event : e.udata = c => \E x \in event' : x.udata = c /\ x.filter = "none"
           /\ \A e, f \in event' : e.udata = c /\ f.udata = c => e = f
  <1> USE DEF Inv
  <1>1. PICK f \in Filter : In(c, f)
    BY DEF processClose
  <1>2. cur \in Batch /\ cur.udata = c /\ sd[c] = cur.ident /\ cur' = None /\ event' \in Overwritten(c)
    BY <1>1, InOpen DEF processClose
  <1>3. \A e \in event : e \in Kevent /\ (e.ident = sd[c] <=> e.udata = c)
    BY <1>2 DEF BatchSound, Batch, TypeOK
  <1>4. \A e, g \in event : e.udata = c /\ g.udata = c => e = g
    BY <1>2, <1>3 DEF BatchSound, Batch
  <1>5. CASE Matching(c) = {}
    <2>1. event' = event /\ \A e \in event : e.udata # c
      BY <1>2, <1>3, <1>5 DEF Overwritten, Matching
    <2> QED BY <2>1, <1>2 DEF TypeOK
  <1>6. CASE Matching(c) # {}
    <2>1. PICK e \in event : /\ e.ident = sd[c]
                             /\ event' = (event \ {e}) \cup {[e EXCEPT !.filter = "none"]}
      BY <1>2, <1>6 DEF Overwritten, Matching
    <2> DEFINE x == [e EXCEPT !.filter = "none"]
    <2>2. x \in Kevent /\ x.filter = "none" /\ x.udata = c /\ x.ident = e.ident /\ e.udata = c
      BY <1>3, <2>1 DEF Kevent
    <2> HIDE DEF x
    <2>3. event' = (event \ {e}) \cup {x}
      BY <2>1 DEF x
    <2>4. \A g \in event : g # e <=> g.udata # c
      BY <1>4, <2>2
    <2> QED BY <1>2, <2>2, <2>3, <2>4 DEF TypeOK
  <1> QED BY <1>5, <1>6

------------------------------------------------------------------------------
\* listen() and connect() leave the listener and the server registered.
LEMMA InitInv == Init => Inv
  <1> SUFFICES ASSUME Init PROVE Inv
    OBVIOUS
  <1> USE DEF Init
  <1>1. TypeOK
    <2>1. Srv \in Fd /\ Lsn \in Fd
      BY DEF Fd
    <2>2. change \in Seq(Change)
      BY <2>1, KqueueAssumption DEF Change, Filter
    <2> QED BY <2>1, <2>2, KqueueAssumption DEF TypeOK
  <1>2. DescSound
    BY KqueueAssumption DEF DescSound, Fd
  <1>3. /\ DOMAIN change = 1..5
        /\ change[1] = [ident |-> SrvSd, filter |-> "read", op |-> "add", udata |-> Srv]
        /\ change[2] = [ident |-> SrvSd, filter |-> "write", op |-> "add", udata |-> Srv]
        /\ change[3] = [ident |-> LsnSd, filter |-> "read", op |-> "add", udata |-> Lsn]
        /\ change[4] = [ident |-> LsnSd, filter |-> "write", op |-> "add", udata |-> Lsn]
        /\ change[5] = [ident |-> LsnSd, filter |-> "write", op |-> "delete", udata |-> Lsn]
    OBVIOUS
  <1>4. \A i \in 1..5 : AddsLast(change, i) <=> i \in 1..3
    BY <1>3, KqueueAssumption DEF AddsLast, Key
  <1>5. Expected = {[ident |-> SrvSd, filter |-> "read", udata |-> Srv],
                    [ident |-> SrvSd, filter |-> "write", udata |-> Srv],
                    [ident |-> LsnSd, filter |-> "read", udata |-> Lsn]}
    <2>1. Expected = {Entry(change[i]) : i \in {1, 2, 3}}
      <3>1. \A i \in 1..3 : change[i].ident \in Desc
        BY <1>3, KqueueAssumption
      <3> QED BY <1>3, <1>4, <3>1 DEF Expected, After
    <2> QED BY <2>1, <1>3 DEF Entry
  <1>6. KnotesSound
    BY <1>5, KqueueAssumption DEF KnotesSound, Meant, Fd
  <1>7. BatchSound
    BY DEF BatchSound, Batch
  <1> QED BY <1>1, <1>2, <1>6, <1>7 DEF Inv

\* What one call of addOutput or delOutput leaves, when it makes an entry.
LEMMA OutputEffect ==
    ASSUME TypeOK, NEW c \in Fd, NEW op \in {"add", "delete"},
           change' = change \o <<EV_SET(c, "write", op)>>, knote' = knote
    PROVE  /\ change' \in Seq(Change)
           /\ \A key : Untouched(change', key) <=> Untouched(change, key) /\ key # <<sd[c], "write">>
           /\ \A k : k \in Expected' <=>
                \/ k \in Expected /\ Key(k) # <<sd[c], "write">>
                \/ /\ op = "add" /\ sd[c] \in Desc
                   /\ k = [ident |-> sd[c], filter |-> "write", udata |-> c]
  <1> DEFINE e == EV_SET(c, "write", op)
  <1>1. /\ e \in Change /\ Key(e) = <<sd[c], "write">> /\ e.op = op /\ e.ident = sd[c]
        /\ Entry(e) = [ident |-> sd[c], filter |-> "write", udata |-> c]
    BY EntryType DEF EV_SET, Key, Entry, Filter
  <1> HIDE DEF e
  <1>2. change' = change \o <<e>>
    BY DEF e
  <1>3. /\ change' \in Seq(Change)
        /\ \A key : Untouched(change', key) <=> Untouched(change, key) /\ Key(e) # key
        /\ \A k : k \in After(knote, change') <=>
             \/ k \in After(knote, change) /\ Key(k) # Key(e)
             \/ e.op = "add" /\ e.ident \in Desc /\ k = Entry(e)
    <2> DEFINE new == change \o <<e>>
    <2>1. knote \in SUBSET Knote /\ change \in Seq(Change)
      BY DEF TypeOK
    <2>2. /\ new \in Seq(Change)
          /\ \A key : Untouched(new, key) <=> Untouched(change, key) /\ Key(e) # key
          /\ \A k : k \in After(knote, new) <=>
               \/ k \in After(knote, change) /\ Key(k) # Key(e)
               \/ e.op = "add" /\ e.ident \in Desc /\ k = Entry(e)
      BY <1>1, <2>1, AfterAppend
    <2> QED BY <1>2, <2>2
  <1> QED BY <1>1, <1>3 DEF Expected

\* The batch is sound as long as it and the descriptors stay.
LEMMA SameBatch ==
    ASSUME BatchSound, UNCHANGED <<sd, event, cur>>
    PROVE  BatchSound'
  <1>1. Batch' = Batch /\ sd' = sd /\ event' = event /\ cur' = cur
    BY DEF Batch
  <1> QED BY <1>1, SMTT(30) DEF BatchSound

\* The invariant does not look at which knotes are active.
LEMMA SameInv ==
    ASSUME Inv, UNCHANGED <<sd, ract, sact, change, event, cur, knote>>
    PROVE  Inv'
  <1>1. Expected' = Expected
    BY DEF Expected
  <1>2. TypeOK' /\ DescSound' /\ KnotesSound'
    BY <1>1 DEF Inv, TypeOK, DescSound, KnotesSound
  <1> QED BY <1>2, SameBatch DEF Inv

\* addOutput: nothing while the flag is set, else an entry that adds the knote of c,
\* or fails for a connection that is closed.
LEMMA addOutputInv ==
    ASSUME Inv, NEW c \in Fd, addOutput(c)
    PROVE  Inv'
  <1> USE DEF Inv
  <1>1. CASE c \in sact
    <2>1. change' = change /\ sact' = sact
      BY <1>1 DEF addOutput, Adds, TypeOK
    <2> QED BY <2>1, SameInv DEF addOutput, kernel
  <1>2. CASE c \notin sact
    <2>1. change' = change \o <<EV_SET(c, "write", "add")>> /\ knote' = knote /\ sd' = sd /\ ract' = ract
      BY <1>2 DEF addOutput, Adds, kernel
    <2>2. /\ change' \in Seq(Change)
          /\ \A k : k \in Expected' <=>
               \/ k \in Expected /\ Key(k) # <<sd[c], "write">>
               \/ sd[c] \in Desc /\ k = [ident |-> sd[c], filter |-> "write", udata |-> c]
      BY <2>1, OutputEffect
    <2>3. sact' = sact \cup {c} /\ event' = event /\ cur' = cur
      BY DEF addOutput
    <2>4. KnotesSound'
      <3>1. \A k \in Expected' : Meant(sd, ract, sact', k)
        BY <2>2, <2>3 DEF KnotesSound, Meant
      <3>2. \A d \in ract : [ident |-> sd[d], filter |-> "read", udata |-> d] \in Expected'
        BY <2>2 DEF KnotesSound, Key
      <3> QED BY <3>1, <3>2, <2>1 DEF KnotesSound
    <2>5. TypeOK' /\ DescSound'
      BY <2>1, <2>2, <2>3 DEF TypeOK, DescSound
    <2> QED BY <2>1, <2>3, <2>4, <2>5, SameBatch
  <1> QED BY <1>1, <1>2

\* delOutput removes the knote for writing with the flag.
LEMMA delOutputInv ==
    ASSUME Inv, NEW c \in Fd, delOutput(c)
    PROVE  Inv'
  <1> USE DEF Inv
  <1>1. CASE c \notin sact
    <2>1. change' = change /\ sact' = sact
      BY <1>1 DEF delOutput, Dels, TypeOK
    <2> QED BY <2>1, SameInv DEF delOutput, kernel
  <1>2. CASE c \in sact
    <2>1. change' = change \o <<EV_SET(c, "write", "delete")>> /\ knote' = knote /\ sd' = sd /\ ract' = ract
      BY <1>2 DEF delOutput, Dels, kernel
    <2>2. /\ change' \in Seq(Change)
          /\ \A k : k \in Expected' <=> k \in Expected /\ Key(k) # <<sd[c], "write">>
      BY <2>1, OutputEffect
    <2>3. sact' = sact \ {c} /\ event' = event /\ cur' = cur
      BY DEF delOutput
    <2>4. KnotesSound'
      <3>1. \A k \in Expected' : Meant(sd, ract, sact', k)
        <4>1. \A k \in Expected : k \in Knote
          BY AfterType DEF Expected, TypeOK
        <4> QED BY <2>2, <2>3, <4>1 DEF KnotesSound, Meant, Key, Knote, Filter
      <3>2. \A d \in ract : [ident |-> sd[d], filter |-> "read", udata |-> d] \in Expected'
        BY <2>2 DEF KnotesSound, Key
      <3> QED BY <3>1, <3>2, <2>1 DEF KnotesSound
    <2>5. TypeOK' /\ DescSound'
      BY <2>1, <2>2, <2>3 DEF TypeOK, DescSound
    <2> QED BY <2>1, <2>3, <2>4, <2>5, SameBatch
  <1> QED BY <1>1, <1>2

\* accept() on a descriptor whose last owner is closed: no entry that is left from it
\* adds a knote, so the knotes change by the new one.
LEMMA AcceptEffect ==
    ASSUME Inv, NEW c \in Conn, NEW d \in Desc, Accept(c, d)
    PROVE  /\ c \in Fd /\ c \notin ract /\ sd[c] = NoSd /\ sd' = [sd EXCEPT ![c] = d]
           /\ \A x \in Fd : sd[x] # d
           /\ change' \in Seq(Change)
           /\ \A k \in Expected : k \in Knote /\ k.ident # d /\ k.udata # c
           /\ \A key : Untouched(change', key) <=> Untouched(change, key) /\ key # <<d, "read">>
           /\ \A k : k \in Expected' <=>
                k \in Expected \/ k = [ident |-> d, filter |-> "read", udata |-> c]
  <1> USE DEF Inv
  <1> DEFINE e == [ident |-> d, filter |-> "read", op |-> "add", udata |-> c]
  <1>1. c \in Fd /\ c \notin ract /\ sd[c] = NoSd /\ sd' = [sd EXCEPT ![c] = d]
    BY DEF Fd, Accept, DescSound
  <1>2. \A x \in Fd : sd[x] # d
    BY KqueueAssumption DEF Accept, Taken
  <1>3. /\ e \in Change /\ Key(e) = <<d, "read">> /\ e.op = "add" /\ e.ident \in Desc
        /\ Entry(e) = [ident |-> d, filter |-> "read", udata |-> c]
    BY <1>1 DEF Change, Key, Entry, Filter
  <1>4. change' = change \o <<e>> /\ knote' = knote
    BY <1>1 DEF Accept, kernel
  <1> HIDE DEF e
  <1>5. \A k \in Expected : k \in Knote /\ k.ident # d /\ k.udata # c
    <2>1. \A k \in Expected : k \in Knote
      BY AfterType DEF Expected, TypeOK
    <2> QED BY <2>1, <1>1, <1>2, KqueueAssumption DEF KnotesSound, Meant, Knote
  <1>6. \A k \in Expected : Key(k) # <<d, "read">>
    BY <1>5 DEF Key
  <1>7. /\ change' \in Seq(Change)
        /\ \A key : Untouched(change', key) <=> Untouched(change, key) /\ key # <<d, "read">>
        /\ \A k : k \in Expected' <=>
             \/ k \in Expected /\ Key(k) # <<d, "read">>
             \/ k = [ident |-> d, filter |-> "read", udata |-> c]
    BY <1>3, <1>4, AfterAppend DEF TypeOK, Expected
  <1> QED BY <1>1, <1>2, <1>5, <1>6, <1>7

\* accept keeps the invariant: the descriptor is new to every connection.
LEMMA AcceptInv ==
    ASSUME Inv, NEW c \in Conn, NEW d \in Desc, Accept(c, d)
    PROVE  Inv'
  <1> USE DEF Inv
  <1>1. /\ ract' = ract \cup {c} /\ sact' = sact /\ event' = event /\ cur' = cur /\ knote' = knote
        /\ d # NoSd
    BY KqueueAssumption DEF Accept, kernel
  <1>2. /\ c \in Fd /\ c \notin ract /\ sd[c] = NoSd /\ sd' = [sd EXCEPT ![c] = d]
        /\ \A x \in Fd : sd[x] # d
    BY AcceptEffect
  <1>3. sd' \in [Fd -> Desc \cup {NoSd}] /\ sd'[c] = d /\ \A x \in Fd \ {c} : sd'[x] = sd[x]
    BY <1>2 DEF TypeOK
  <1>4. TypeOK'
    BY <1>1, <1>2, <1>3, AcceptEffect DEF TypeOK
  <1>5. DescSound'
    BY <1>1, <1>2, <1>3 DEF DescSound, TypeOK
  <1>6. KnotesSound'
    <2>1. \A k \in Expected' : Meant(sd', ract', sact', k)
      <3>1. \A k \in Expected : k.udata \in Fd \ {c}
        BY AcceptEffect DEF Knote
      <3>2. \A k \in Expected : Meant(sd', ract', sact', k)
        BY <3>1, <1>1, <1>3 DEF KnotesSound, Meant
      <3> QED BY <3>2, <1>1, <1>3, AcceptEffect DEF Meant
    <2>2. \A x \in ract' : [ident |-> sd'[x], filter |-> "read", udata |-> x] \in Expected'
      <3>1. \A x \in ract : [ident |-> sd'[x], filter |-> "read", udata |-> x] \in Expected
        BY <1>2, <1>3 DEF KnotesSound, TypeOK
      <3> QED BY <3>1, <1>1, <1>3, AcceptEffect
    <2> QED BY <2>1, <2>2 DEF KnotesSound
  <1>7. BatchSound'
    <2>1. Batch' = Batch
      BY <1>1 DEF Batch
    <2>2. \A e \in Batch : e \in Kevent
      BY DEF Batch, TypeOK
    <2>3. \A e \in Batch : e.filter # "none" => e.udata \in Fd \ {c}
      BY <1>2, <2>2, KqueueAssumption DEF BatchSound, Kevent
    <2> QED BY <1>1, <1>3, <2>1, <2>3 DEF BatchSound
  <1> QED BY <1>4, <1>5, <1>6, <1>7

\* processClose keeps the invariant: what delConn and close leave of c is nothing.
LEMMA processCloseInv ==
    ASSUME Inv, NEW c \in Fd, processClose(c)
    PROVE  Inv'
  <1> USE DEF Inv
  <1>1. /\ ract' = ract \ {c} /\ sact' = sact \ {c} /\ cur' = None
        /\ sd' = sd \/ sd' = [sd EXCEPT ![c] = NoSd]
    BY DEF processClose, CloseSd
  <1>2. sd' \in [Fd -> Desc \cup {NoSd}] /\ \A x \in Fd : x # c => sd'[x] = sd[x]
    BY <1>1 DEF TypeOK
  <1>3. sd'[c] \in {sd[c], NoSd}
    BY <1>1 DEF TypeOK
  <1>4. TypeOK'
    BY <1>1, <1>2, CloseKnotes, CloseEvents DEF TypeOK
  <1>5. DescSound'
    BY <1>1, <1>2, <1>3 DEF DescSound, TypeOK
  <1>6. KnotesSound'
    <2>1. \A k \in Expected' : Meant(sd', ract', sact', k)
      <3>1. \A k \in Expected' : k \in Expected /\ k.udata # c /\ k \in Knote
        BY CloseKnotes, AfterType DEF Expected, TypeOK
      <3> QED BY <3>1, <1>1, <1>2 DEF KnotesSound, Meant, Knote
    <2>2. \A x \in ract' : [ident |-> sd'[x], filter |-> "read", udata |-> x] \in Expected'
      <3>1. \A x \in ract' : x \in Fd /\ x \in ract /\ x # c /\ sd'[x] = sd[x]
        BY <1>1, <1>2 DEF TypeOK
      <3> QED BY <3>1, CloseKnotes DEF KnotesSound
    <2> QED BY <2>1, <2>2 DEF KnotesSound
  <1>7. BatchSound'
    <2>1. Batch' = event' /\ None \notin event'
      BY <1>1, CloseEvents, KqueueAssumption DEF Batch, Kevent
    <2>2. event \subseteq Batch /\ \A e \in event' \cup event : e \in Kevent
      BY CloseEvents, KqueueAssumption DEF Batch, Kevent, TypeOK
    <2>3. \A e \in event' : e.udata # c => e \in event
      BY CloseEvents
    <2>4. \A e \in event' : e.filter # "none" => e \in event /\ e.udata # c
      BY CloseEvents
    <2>5. \A e \in event' : e.filter # "none" => sd'[e.udata] = e.ident
      BY <1>2, <2>2, <2>4 DEF BatchSound, Kevent
    <2>6. \A e \in event' : \E x \in event :
             x.udata = e.udata /\ x.ident = e.ident /\ (e.udata # c => x = e)
      BY CloseEvents
    <2>7. \A e, f \in event' : e.ident = f.ident <=> e.udata = f.udata
      BY <2>2, <2>6 DEF BatchSound
    <2>8. \A e, f \in event' : e.udata = c /\ f.udata = c => e = f
      BY CloseEvents
    <2>9. \A e, f, g \in event' : e.ident = f.ident /\ f.ident = g.ident => e = f \/ f = g \/ e = g
      <3> SUFFICES ASSUME NEW e \in event', NEW f \in event', NEW g \in event',
                          e.ident = f.ident, f.ident = g.ident
                   PROVE  e = f \/ f = g \/ e = g
        OBVIOUS
      <3>1. e.udata = f.udata /\ f.udata = g.udata
        BY <2>7
      <3>2. CASE e.udata = c
        BY <3>1, <3>2, <2>8
      <3>3. CASE e.udata # c
        BY <3>1, <3>3, <2>2, <2>3 DEF BatchSound
      <3> QED BY <3>2, <3>3
    <2> QED BY <1>1, <2>1, <2>5, <2>7, <2>9 DEF BatchSound
  <1> QED BY <1>4, <1>5, <1>6, <1>7

\* kevent(): the events are those of the knotes that are left, at most one for each
\* filter of a descriptor, and all of its owner.
LEMMA keventInv ==
    ASSUME Inv, kevent
    PROVE  Inv'
  <1> USE DEF Inv
  <1>1. /\ knote' = Expected /\ change' = <<>> /\ cur' = None
        /\ event' \subseteq Expected /\ UNCHANGED <<sd, ract, sact>>
    BY AppliedExpected DEF kevent
  <1>2. Expected \subseteq Knote
    BY AfterType DEF Expected, TypeOK
  <1>3. Expected' = Expected
    BY <1>1, <1>2, AfterNone DEF Expected
  <1>4. TypeOK'
    <2>1. Knote \subseteq Kevent
      BY DEF Knote, Kevent
    <2> QED BY <1>1, <1>2, <2>1 DEF TypeOK
  <1>5. DescSound' /\ KnotesSound'
    BY <1>1, <1>3 DEF DescSound, KnotesSound
  <1>6. BatchSound'
    <2>1. Batch' = event' /\ None \notin event'
      <3>1. None \notin Knote
        BY KqueueAssumption DEF Knote
      <3> QED BY <1>1, <1>2, <3>1 DEF Batch
    <2>2. \A e \in event' : /\ e \in Knote /\ e.ident \in Desc /\ e.filter \in Filter
                            /\ e.udata \in Fd /\ sd[e.udata] = e.ident
      BY <1>1, <1>2 DEF KnotesSound, Meant, Knote
    <2>3. \A e, f \in event' : e.ident = f.ident <=> e.udata = f.udata
      BY <2>2, KqueueAssumption DEF DescSound
    <2>4. \A e, f \in event' : e.ident = f.ident /\ e.filter = f.filter => e = f
      BY <2>2, <2>3 DEF Knote
    <2>5. \A e, f, g \in event' : e.ident = f.ident /\ f.ident = g.ident => e = f \/ f = g \/ e = g
      BY <2>2, <2>4 DEF Filter
    <2> QED BY <1>1, <2>1, <2>2, <2>3, <2>5 DEF BatchSound
  <1> QED BY <1>4, <1>5, <1>6

\* The loop of wait() hands on the events of a batch.
LEMMA LoopInv ==
    ASSUME Inv, Return \/ \E e \in event : Callback(e)
    PROVE  Inv'
  <1> USE DEF Inv
  <1>1. /\ Expected' = Expected /\ UNCHANGED <<sd, ract, sact, change, knote>>
        /\ event' \subseteq event /\ cur' \in event \cup {None} /\ cur' \notin event'
        /\ Batch' \subseteq Batch
    <2>1. None \notin event
      BY KqueueAssumption DEF TypeOK, Kevent
    <2>2. CASE Return
      BY <2>1, <2>2 DEF Return, Expected, Batch, kernel
    <2>3. ASSUME NEW e \in event, Callback(e)
          PROVE  <1>1!1 /\ <1>1!2 /\ <1>1!3
      BY <2>1, <2>3 DEF Callback, Expected, Batch, kernel
    <2> QED BY <2>2, <2>3
  <1>2. TypeOK' /\ DescSound' /\ KnotesSound'
    BY <1>1 DEF TypeOK, DescSound, KnotesSound
  <1>3. BatchSound'
    BY <1>1 DEF BatchSound
  <1> QED BY <1>2, <1>3

\* Every step keeps the invariant.
LEMMA NextInv == Inv /\ [Next]_vars => Inv'
  <1> SUFFICES ASSUME Inv, [Next]_vars PROVE Inv'
    OBVIOUS
  <1>1. ASSUME NEW c \in Conn \cup {Srv}, addOutput(c) \/ delOutput(c) PROVE Inv'
    BY <1>1, addOutputInv, delOutputInv DEF Fd
  <1>2. ASSUME NEW c \in Conn, NEW d \in Desc, Accept(c, d) PROVE Inv'
    BY <1>2, AcceptInv
  <1>3. ASSUME NEW c \in Fd, processClose(c) PROVE Inv'
    BY <1>3, processCloseInv
  <1>4. CASE Return \/ \E e \in event : Callback(e)
    BY <1>4, LoopInv
  <1>5. CASE kevent
    BY <1>5, keventInv
  <1>6. ASSUME NEW k \in knote, Ready(k) PROVE Inv'
    BY <1>6, SameInv DEF Ready
  <1>7. CASE UNCHANGED vars
    BY <1>7, SameInv DEF vars
  <1> QED BY <1>1, <1>2, <1>3, <1>4, <1>5, <1>6, <1>7 DEF Next

\* The knotes that kevent() will leave are those of the connections that are open and
\* have the flag set, for any number of connections, descriptors and entries.
THEOREM KnotesFollow == Spec => []KnotesFollowFlags
  <1>1. Inv => KnotesFollowFlags
    <2> SUFFICES ASSUME Inv PROVE KnotesFollowFlags
      OBVIOUS
    <2>1. Applied = Expected /\ Expected \subseteq Knote
      BY AppliedExpected, AfterType DEF Inv, Expected, TypeOK
    <2>2. \A k \in Knote : k.filter = "read" =>
             k = [ident |-> k.ident, filter |-> "read", udata |-> k.udata]
      BY DEF Knote
    <2> QED BY <2>1, <2>2 DEF Inv, KnotesSound, Meant, KnotesFollowFlags
  <1> QED BY <1>1, InitInv, NextInv, PTL DEF Spec

------------------------------------------------------------------------------
\* The refinement: the state of the abstract event base, and what each action of the
\* detailed one does to it.

Active == {k \in Expected : Key(k) \in active /\ Untouched(change, Key(k))}

Writers == {k.udata : k \in {n \in Applied : n.filter = "write"}}
ReadyEvents == {<<k.udata, k.filter>> : k \in AppliedActive}
Waiting == {<<e.udata, e.filter>> : e \in event}
Handled == IF cur = None THEN None ELSE <<cur.udata, cur.filter>>

Base(s, w, r, b, c) == [sact |-> s, wreg |-> w, ready |-> r, batch |-> b, cur |-> c]

Abs ==
    [sact |-> sact, wreg |-> Writers, ready |-> ReadyEvents, batch |-> Waiting, cur |-> Handled]

\* What the abstract state is in terms of Expected.
View ==
    /\ Expected \subseteq Knote
    /\ \A c : c \in Writers <=> \E k \in Expected : k.filter = "write" /\ k.udata = c
    /\ \A x : x \in ReadyEvents <=> \E k \in Active : x = <<k.udata, k.filter>>

\* The invariant gives the view.
LEMMA InvView == Inv => View
  <1> SUFFICES ASSUME Inv PROVE View
    OBVIOUS
  <1>1. Applied = Expected /\ AppliedActive = Active
    BY AppliedExpected DEF Inv, Active
  <1>2. Expected \subseteq Knote
    BY AfterType DEF Inv, Expected, TypeOK
  <1> QED BY <1>1, <1>2 DEF View, Writers, ReadyEvents

\* The view holds on both sides of a step.
LEMMA NextView == Inv /\ [Next]_vars => View /\ View'
  BY InvView, NextInv, PTL

\* A running callback is one for the abstract event base too.
LEMMA HandledSome ==
    ASSUME Inv, cur # None
    PROVE  Handled # None /\ Handled = <<cur.udata, cur.filter>>
  BY KqueueAssumption DEF Inv, TypeOK, Kevent, Handled

\* What the loop of wait() does to an event base, field by field.
LEMMA LoopFields ==
    ASSUME NEW s, NEW w, NEW r, NEW b, NEW c
    PROVE  /\ \A x : Promise!Begin(Base(s, w, r, b, c), x) = Base(s, w, r, b \ {x}, x)
           /\ \A x : Promise!Return(Base(s, w, r, b, c), x) = Base(s, w, {}, x, c)
  <1> DEFINE e == Base(s, w, r, b, c)
  <1>1. ASSUME NEW x PROVE Promise!Begin(e, x) = Base(s, w, r, b \ {x}, x)
    <2>1. [e EXCEPT !.batch = @ \ {x}] = Base(s, w, r, b \ {x}, c)
      BY DEF Base
    <2>2. [Base(s, w, r, b \ {x}, c) EXCEPT !.cur = x] = Base(s, w, r, b \ {x}, x)
      BY DEF Base
    <2>3. Promise!Begin(e, x) = [[e EXCEPT !.batch = @ \ {x}] EXCEPT !.cur = x]
      BY DEF Promise!Begin
    <2> QED BY <2>1, <2>2, <2>3
  <1>2. ASSUME NEW x PROVE Promise!Return(e, x) = Base(s, w, {}, x, c)
    <2>1. [e EXCEPT !.batch = x] = Base(s, w, r, x, c)
      BY DEF Base
    <2>2. [Base(s, w, r, x, c) EXCEPT !.ready = {}] = Base(s, w, {}, x, c)
      BY DEF Base
    <2>3. Promise!Return(e, x) = [[e EXCEPT !.batch = x] EXCEPT !.ready = {}]
      BY DEF Promise!Return
    <2> QED BY <2>1, <2>2, <2>3
  <1> QED BY <1>1, <1>2

\* The abstract state is unchanged where the knotes and the events are.
LEMMA SameAbs ==
    ASSUME View, View', Expected' = Expected, Active' = Active, UNCHANGED <<sact, event, cur>>
    PROVE  Abs' = Abs
  <1>1. Writers' = Writers /\ ReadyEvents' = ReadyEvents
    BY DEF View
  <1>2. Waiting' = Waiting /\ Handled' = Handled
    BY DEF Waiting, Handled
  <1> QED BY <1>1, <1>2 DEF Abs

\* addOutput is Output, with a descriptor or without.
LEMMA addOutputStep ==
    ASSUME Inv, View, View', NEW c \in Fd, addOutput(c)
    PROVE  Promise!Output(Abs, Abs')
  <1> USE DEF Inv
  <1>1. cur # None /\ UNCHANGED <<sd, ract, event, cur, knote, active>> /\ sact' = sact \cup {c}
    BY DEF addOutput, In, kernel
  <1>2. Abs.cur # None
    BY <1>1, HandledSome DEF Abs
  <1>3. CASE c \in sact
    <2>1. change' = change /\ sact' = sact
      BY <1>3 DEF addOutput, Adds, TypeOK
    <2>2. Abs' = Abs
      BY <1>1, <2>1, SameAbs DEF Expected, Active
    <2>3. Abs' = Promise!AddOutput(Abs, c, TRUE, FALSE)
      BY <1>3, <2>2 DEF Promise!AddOutput, Abs
    <2> QED BY <1>1, <1>2, <2>3 DEF Promise!Output, Promise!Fd, Fd
  <1>4. CASE c \notin sact
    <2>1. change' = change \o <<EV_SET(c, "write", "add")>>
      BY <1>4 DEF addOutput, Adds
    <2>2. /\ \A key : Untouched(change', key) <=> Untouched(change, key) /\ key # <<sd[c], "write">>
          /\ \A k : k \in Expected' <=>
               \/ k \in Expected /\ Key(k) # <<sd[c], "write">>
               \/ /\ sd[c] \in Desc
                  /\ k = [ident |-> sd[c], filter |-> "write", udata |-> c]
      BY <1>1, <2>1, OutputEffect
    <2>3. \A k \in Expected : k \in Knote /\ Key(k) # <<sd[c], "write">>
      <3>1. \A k \in Expected : k.filter = "write" => k.udata # c
        BY <1>4 DEF KnotesSound, Meant
      <3>2. \A k \in Expected : k \in Knote
        BY DEF View
      <3>3. CASE sd[c] \in Desc
        BY <3>1, <3>2, <3>3, OneOwner DEF Key
      <3>4. CASE sd[c] \notin Desc
        BY <3>2, <3>4 DEF Key, Knote
      <3> QED BY <3>3, <3>4
    <2>4. Active' = Active
      <3>1. Active' = {k \in Expected' : Key(k) \in active /\ Untouched(change', Key(k))}
        BY <1>1 DEF Active
      <3>2. \A k : k = [ident |-> sd[c], filter |-> "write", udata |-> c] => Key(k) = <<sd[c], "write">>
        BY DEF Key
      <3> QED BY <2>2, <2>3, <3>1, <3>2 DEF Active
    <2>5. ReadyEvents' = ReadyEvents /\ Waiting' = Waiting /\ Handled' = Handled
      BY <1>1, <2>4 DEF View, Waiting, Handled
    <2>6. \A k : /\ k \in Expected' /\ k.filter = "write"
                 <=> \/ k \in Expected /\ k.filter = "write"
                     \/ sd[c] \in Desc /\ k = [ident |-> sd[c], filter |-> "write", udata |-> c]
      BY <2>2, <2>3
    <2>7. CASE sd[c] \in Desc
      <3>1. Writers' = Writers \cup {c}
        <4> DEFINE new == [ident |-> sd[c], filter |-> "write", udata |-> c]
        <4>1. new \in Expected' /\ new.filter = "write" /\ new.udata = c
          BY <2>6, <2>7
        <4> HIDE DEF new
        <4>2. \A k \in Expected' : k.filter = "write" => k \in Expected \/ k = new
          BY <2>6 DEF new
        <4>3. \A k \in Expected : k.filter = "write" => k \in Expected'
          BY <2>6
        <4> QED BY <4>1, <4>2, <4>3 DEF View
      <3>2. Abs' = Promise!AddOutput(Abs, c, TRUE, FALSE)
        BY <1>1, <1>4, <2>5, <3>1 DEF Promise!AddOutput, Abs
      <3> QED BY <1>1, <1>2, <3>2 DEF Promise!Output, Promise!Fd, Fd
    <2>8. CASE sd[c] \notin Desc
      <3>1. Writers' = Writers
        BY <2>6, <2>8 DEF View
      <3>2. Abs' = Promise!AddOutput(Abs, c, FALSE, FALSE)
        BY <1>1, <1>4, <2>5, <3>1 DEF Promise!AddOutput, Abs
      <3> QED BY <1>1, <1>2, <3>2 DEF Promise!Output, Promise!Fd, Fd
    <2> QED BY <2>7, <2>8
  <1> QED BY <1>3, <1>4

\* delOutput is NoOutput.
LEMMA delOutputStep ==
    ASSUME Inv, View, View', NEW c \in Fd, delOutput(c)
    PROVE  Promise!NoOutput(Abs, Abs')
  <1> USE DEF Inv
  <1>1. /\ In(c, "write") /\ cur # None /\ UNCHANGED <<sd, ract, event, cur, knote, active>>
        /\ sact' = sact \ {c}
    BY DEF delOutput, In, kernel
  <1>2. Abs.cur # None
    BY <1>1, HandledSome DEF Abs
  <1>3. Abs' = Promise!DelOutput(Abs, c)
    <2>1. CASE c \notin sact
      <3>1. change' = change /\ sact' = sact
        BY <2>1 DEF delOutput, Dels, TypeOK
      <3>2. Abs' = Abs
        BY <1>1, <3>1, SameAbs DEF Expected, Active
      <3> QED BY <2>1, <3>2 DEF Promise!DelOutput, Abs
    <2>2. CASE c \in sact
      <3>1. change' = change \o <<EV_SET(c, "write", "delete")>>
        BY <2>2 DEF delOutput, Dels
      <3>2. /\ \A key : Untouched(change', key) <=> Untouched(change, key) /\ key # <<sd[c], "write">>
            /\ \A k : k \in Expected' <=> k \in Expected /\ Key(k) # <<sd[c], "write">>
        BY <1>1, <3>1, OutputEffect
      <3>3. \A k \in Expected : Key(k) = <<sd[c], "write">> <=> k.filter = "write" /\ k.udata = c
        <4>1. sd[c] \in Desc
          BY <1>1, InOpen DEF Filter
        <4> QED BY <4>1, OneOwner DEF Key
      <3>4. Writers' = Writers \ {c}
        BY <3>2, <3>3 DEF View
      <3>5. \A k : k \in Active' <=> k \in Active /\ ~(k.filter = "write" /\ k.udata = c)
        <4>1. Active' = {k \in Expected' : Key(k) \in active /\ Untouched(change', Key(k))}
          BY <1>1 DEF Active
        <4> QED BY <3>2, <3>3, <4>1 DEF Active
      <3>6. ReadyEvents' = ReadyEvents \ {<<c, "write">>}
        BY <3>5 DEF View
      <3>7. Waiting' = Waiting /\ Handled' = Handled
        BY <1>1 DEF Waiting, Handled
      <3> QED BY <1>1, <2>2, <3>4, <3>6, <3>7 DEF Promise!DelOutput, Abs
    <2> QED BY <2>1, <2>2
  <1> QED BY <1>1, <1>2, <1>3 DEF Promise!NoOutput, Promise!Fd, Fd

\* accept is Open: no event of the last owner of the descriptor comes with it.
LEMMA AcceptStep ==
    ASSUME Inv, View, View', NEW c \in Conn, NEW d \in Desc, Accept(c, d)
    PROVE  Promise!Open(Abs, Abs')
  <1>1. /\ In(Lsn, "read") /\ cur # None /\ UNCHANGED <<sact, event, cur, active>>
        /\ ract' = ract \cup {c} /\ c \notin ract
    BY AcceptEffect DEF Accept, In, kernel
  <1>2. Abs.cur = <<Lsn, "read">>
    BY <1>1, HandledSome DEF Abs, In
  <1>3. Writers' = Writers
    <2>1. \A k : k \in Expected' /\ k.filter = "write" <=> k \in Expected /\ k.filter = "write"
      BY AcceptEffect
    <2> QED BY <2>1 DEF View
  <1>4. Active' = Active
    <2>1. \A k : k = [ident |-> d, filter |-> "read", udata |-> c] => Key(k) = <<d, "read">>
      BY DEF Key
    <2>2. \A k \in Expected : Key(k) # <<d, "read">>
      BY AcceptEffect DEF Key
    <2>3. Active' = {k \in Expected' : Key(k) \in active /\ Untouched(change', Key(k))}
      BY <1>1 DEF Active
    <2> QED BY <2>1, <2>2, <2>3, AcceptEffect DEF Active
  <1>5. ReadyEvents' = ReadyEvents /\ Waiting' = Waiting /\ Handled' = Handled
    BY <1>1, <1>4 DEF View, Waiting, Handled
  <1>6. Abs' = Promise!AddConn(Abs, c, FALSE)
    BY <1>1, <1>3, <1>5 DEF Promise!AddConn, Abs
  <1> QED BY <1>1, <1>2, <1>6 DEF Promise!Open

\* processClose is Close: the events of the descriptor are those of c, and the one that
\* delConn overwrites is the only one.
LEMMA processCloseStep ==
    ASSUME Inv, View, View', NEW c \in Fd, processClose(c)
    PROVE  Promise!Close(Abs, Abs')
  <1> USE DEF Inv
  <1>1. /\ \E f \in Filter : In(c, f)
        /\ cur # None /\ cur' = None /\ ract' = ract \ {c} /\ sact' = sact \ {c}
    BY DEF processClose, In
  <1>2. Abs.cur \in {<<c, "read">>, <<c, "write">>}
    BY <1>1, HandledSome DEF Abs, In, Filter
  <1>3. \A k \in Expected : /\ k.filter \in Filter
                            /\ k.filter = "write" /\ k.udata = c => c \in sact
    BY DEF View, KnotesSound, Meant, Knote, Filter
  <1>4. Writers' = Writers \ {c} /\ (c \notin sact => c \notin Writers)
    BY <1>3, CloseKnotes DEF View
  <1>5. \A k : k \in Active' <=> k \in Active /\ k.udata # c
    <2>1. Active' = {k \in Expected' : Key(k) \in active' /\ Untouched(change', Key(k))}
      BY DEF Active
    <2>2. \A k \in Expected : k.udata # c =>
            /\ Untouched(change, Key(k)) <=> Untouched(change', Key(k))
            /\ Key(k) \in active <=> Key(k) \in active'
      BY CloseKnotes
    <2> QED BY <2>1, <2>2, CloseKnotes DEF Active
  <1>6. \A k \in Active : k.filter \in Filter /\ (k.filter = "write" /\ k.udata = c => c \in sact)
    BY <1>3 DEF Active
  <1>7. /\ ReadyEvents' = (ReadyEvents \ {<<c, "write">>}) \ {<<c, "read">>}
        /\ c \notin sact => <<c, "write">> \notin ReadyEvents
    BY <1>5, <1>6 DEF View, Filter
  <1>8. Waiting' = {IF x[1] = c THEN <<c, "none">> ELSE x : x \in Waiting}
    <2> DEFINE new == {IF x[1] = c THEN <<c, "none">> ELSE x : x \in Waiting}
    <2>1. ASSUME NEW y \in Waiting' PROVE y \in new
      <3>1. PICK e \in event' : y = <<e.udata, e.filter>>
        BY <2>1 DEF Waiting
      <3>2. CASE e \in event /\ e.udata # c
        <4>1. y \in Waiting /\ y[1] # c
          BY <3>1, <3>2 DEF Waiting
        <4> QED BY <4>1
      <3>3. CASE e.filter = "none" /\ e.udata = c /\ \E x \in event : x.udata = c
        <4>1. PICK x \in event : x.udata = c
          BY <3>3
        <4>2. <<x.udata, x.filter>> \in Waiting /\ <<x.udata, x.filter>>[1] = c /\ y = <<c, "none">>
          BY <3>1, <3>3, <4>1 DEF Waiting
        <4> QED BY <4>2
      <3> QED BY <3>2, <3>3, CloseEvents
    <2>2. ASSUME NEW x \in Waiting
          PROVE  (IF x[1] = c THEN <<c, "none">> ELSE x) \in Waiting'
      <3>1. PICK e \in event : x = <<e.udata, e.filter>>
        BY <2>2 DEF Waiting
      <3>2. CASE e.udata = c
        <4>1. PICK z \in event' : z.udata = c /\ z.filter = "none"
          BY <3>2, CloseEvents
        <4> QED BY <3>1, <3>2, <4>1 DEF Waiting
      <3>3. CASE e.udata # c
        <4>1. e \in event'
          BY <3>3, CloseEvents
        <4> QED BY <3>1, <3>3, <4>1 DEF Waiting
      <3> QED BY <3>2, <3>3
    <2> QED BY <2>1, <2>2
  <1>9. Handled' = None
    BY <1>1 DEF Handled
  <1>10. Abs' = Promise!End(Promise!DelConn(Abs, c))
    <2> DEFINE o == Promise!DelOutput(Abs, c)
               n == Promise!DelConn(Abs, c)
    <2>1. o = [sact |-> sact \ {c}, wreg |-> Writers \ {c}, ready |-> ReadyEvents \ {<<c, "write">>},
               batch |-> Waiting, cur |-> Handled]
      <3>1. CASE c \in sact
        BY <3>1 DEF Promise!DelOutput, Abs
      <3>2. CASE c \notin sact
        <4>1. sact \ {c} = sact /\ Writers \ {c} = Writers /\ ReadyEvents \ {<<c, "write">>} = ReadyEvents
          BY <1>4, <1>7, <3>2
        <4> QED BY <3>2, <4>1 DEF Promise!DelOutput, Abs
      <3> QED BY <3>1, <3>2
    <2> HIDE DEF o
    <2>2. n = [o EXCEPT !.ready = @ \ {<<c, "read">>},
                        !.batch = {IF x[1] = c THEN <<c, "none">> ELSE x : x \in @}]
      BY DEF Promise!DelConn, o
    <2>3. n = [sact |-> sact', wreg |-> Writers', ready |-> ReadyEvents', batch |-> Waiting',
               cur |-> Handled]
      BY <1>1, <1>4, <1>7, <1>8, <2>1, <2>2
    <2> HIDE DEF n
    <2>4. Promise!End(n) = [sact |-> sact', wreg |-> Writers', ready |-> ReadyEvents', batch |-> Waiting',
                            cur |-> None]
      BY <2>3 DEF Promise!End
    <2> QED BY <1>9, <2>4 DEF Abs, n
  <1> QED BY <1>1, <1>2, <1>10 DEF Promise!Close, Promise!Fd, Fd

\* The end of a callback is Finish.
LEMMA ReturnStep ==
    ASSUME Inv, View, View', Return
    PROVE  Promise!Finish(Abs, Abs')
  <1>1. cur # None /\ cur' = None /\ UNCHANGED <<sd, ract, sact, change, event, knote, active>>
    BY DEF Return, kernel
  <1>2. Abs.cur # None
    BY <1>1, HandledSome DEF Abs
  <1>3. Expected' = Expected /\ Active' = Active
    BY <1>1 DEF Expected, Active
  <1>4. Writers' = Writers /\ ReadyEvents' = ReadyEvents /\ Waiting' = Waiting /\ Handled' = None
    BY <1>1, <1>3 DEF View, Waiting, Handled
  <1>5. Abs' = Promise!End(Abs)
    BY <1>1, <1>4 DEF Promise!End, Abs
  <1> QED BY <1>1, <1>2, <1>5 DEF Promise!Finish

\* A callback is Deliver: each event is delivered once.
LEMMA CallbackStep ==
    ASSUME Inv, View, View', NEW e \in event, Callback(e)
    PROVE  Promise!Deliver(Abs, Abs')
  <1> USE DEF Inv
  <1>1. /\ cur = None /\ cur' = e /\ event' = event \ {e}
        /\ UNCHANGED <<sd, ract, sact, change, knote, active>>
    BY DEF Callback, kernel
  <1>2. Expected' = Expected /\ Active' = Active
    BY <1>1 DEF Expected, Active
  <1>3. Writers' = Writers /\ ReadyEvents' = ReadyEvents
    BY <1>2 DEF View
  <1>4. e \in Kevent /\ e # None /\ event \subseteq Kevent
    BY KqueueAssumption DEF TypeOK, Kevent
  <1>5. Handled = None /\ Handled' = <<e.udata, e.filter>>
    BY <1>1, <1>4 DEF Handled
  <1>6. \A x \in event : x.udata = e.udata /\ x.filter = e.filter => x = e
    <2>1. \A x \in event : x.udata = e.udata => x.ident = e.ident
      BY <1>4 DEF BatchSound, Batch
    <2> QED BY <1>4, <2>1 DEF Kevent
  <1>7. Waiting' = Waiting \ {<<e.udata, e.filter>>} /\ <<e.udata, e.filter>> \in Waiting
    BY <1>1, <1>6 DEF Waiting
  <1>8. Abs' = Promise!Begin(Abs, <<e.udata, e.filter>>)
    <2> DEFINE x == <<e.udata, e.filter>>
    <2>1. Abs = Base(sact, Writers, ReadyEvents, Waiting, Handled)
      BY DEF Abs, Base
    <2>2. Promise!Begin(Abs, x) = Base(sact, Writers, ReadyEvents, Waiting \ {x}, x)
      BY <2>1, LoopFields
    <2> QED BY <1>1, <1>3, <1>5, <1>7, <2>2 DEF Abs, Base
  <1>9. Abs.cur = None /\ <<e.udata, e.filter>> \in Abs.batch
    BY <1>5, <1>7 DEF Abs
  <1> QED BY <1>1, <1>8, <1>9 DEF Promise!Deliver

\* No two of the knotes are on the same filter of a descriptor.
LEMMA OneKnote ==
    ASSUME Inv, View
    PROVE  \A j, k \in Expected : Key(j) = Key(k) => j = k
  <1>1. \A k \in Expected : k \in Knote /\ sd[k.udata] = k.ident
    BY DEF View, Inv, KnotesSound, Meant
  <1>2. \A k \in Expected : /\ k.ident \in Desc /\ k.udata \in Fd
                            /\ k = [ident |-> k.ident, filter |-> k.filter, udata |-> k.udata]
    BY <1>1 DEF Knote
  <1>3. \A j, k \in Expected : Key(j) = Key(k) => j.ident = k.ident /\ j.filter = k.filter
    BY DEF Key
  <1>4. \A j, k \in Expected : j.ident = k.ident => j.udata = k.udata
    BY <1>1, <1>2, KqueueAssumption DEF Inv, DescSound
  <1> QED BY <1>2, <1>3, <1>4

\* kevent(): either it returns errors, and nothing has happened for the connections, or
\* the events that are ready.
LEMMA keventStep ==
    ASSUME Inv, View, View', kevent
    PROVE  Promise!Poll(Abs, Abs') \/ (Abs' = Abs /\ UNCHANGED ract)
  <1> USE DEF Inv
  <1>1. /\ cur = None /\ event = {} /\ knote' = Expected /\ change' = <<>> /\ cur' = cur
        /\ UNCHANGED <<sd, ract, sact>>
        /\ \/ active' = {Key(k) : k \in Active} /\ event' = {}
           \/ active' = {} /\ event' = Active
    BY AppliedExpected DEF kevent, Active
  <1>2. Expected' = Expected /\ \A key : Untouched(change', key)
    <2>1. Expected \subseteq Knote
      BY DEF View
    <2> QED BY <1>1, <2>1, AfterNone DEF Expected
  <1>3. Writers' = Writers
    BY <1>2 DEF View
  <1>4. Active' = {k \in Expected : Key(k) \in active'}
    BY <1>2 DEF Active
  <1>5. CASE active' = {Key(k) : k \in Active} /\ event' = {}
    <2>1. \A j, k \in Expected : Key(j) = Key(k) => j = k
      BY OneKnote
    <2>2. Active \subseteq Expected
      BY DEF Active
    <2>3. Active' = Active
      BY <1>4, <1>5, <2>1, <2>2
    <2> QED BY <1>1, <1>2, <1>5, <2>3, SameAbs
  <1>6. CASE active' = {} /\ event' = Active
    <2>1. Active' = {}
      BY <1>4, <1>6
    <2>2. ReadyEvents' = {} /\ Waiting' = ReadyEvents /\ Waiting = {} /\ Handled = None /\ Handled' = None
      BY <1>1, <1>6, <2>1 DEF View, Waiting, Handled
    <2>3. Abs' = Promise!Return(Abs, Abs.ready)
      <3>1. Abs = Base(sact, Writers, ReadyEvents, Waiting, Handled) /\ Abs.ready = ReadyEvents
        BY DEF Abs, Base
      <3>2. Promise!Return(Abs, Abs.ready) = Base(sact, Writers, {}, ReadyEvents, Handled)
        BY <3>1, LoopFields
      <3> QED BY <1>1, <1>3, <2>2, <3>2 DEF Abs, Base
    <2> QED BY <1>1, <2>2, <2>3 DEF Promise!Poll, Abs
  <1> QED BY <1>1, <1>5, <1>6

\* A socket becomes ready: an event for the connections if its knote is one that
\* change[] leaves alone.
LEMMA ReadyStep ==
    ASSUME Inv, View, View', NEW k \in knote, Ready(k)
    PROVE  Promise!Happens(Abs, Abs') \/ (Abs' = Abs /\ UNCHANGED ract)
  <1> USE DEF Inv
  <1>1. active' = active \cup {Key(k)} /\ UNCHANGED <<sd, ract, sact, change, event, cur, knote>>
    BY DEF Ready
  <1>2. Expected' = Expected /\ Active' = {j \in Expected : Key(j) \in active' /\ Untouched(change, Key(j))}
    BY <1>1 DEF Expected, Active
  <1>3. CASE ~Untouched(change, Key(k))
    <2>1. Active' = Active
      BY <1>1, <1>2, <1>3 DEF Active
    <2> QED BY <1>1, <1>2, <2>1, SameAbs
  <1>4. CASE Untouched(change, Key(k))
    <2>1. k \in Expected /\ k \in Knote
      BY <1>4 DEF Expected, After, TypeOK
    <2>2. \A j \in Expected : Key(j) = Key(k) => j = k
      BY <2>1, OneKnote
    <2>3. Active' = Active \cup {k}
      BY <1>1, <1>2, <1>4, <2>1, <2>2 DEF Active
    <2>4. Writers' = Writers /\ Waiting' = Waiting /\ Handled' = Handled
      BY <1>1, <1>2 DEF View, Waiting, Handled
    <2>5. ReadyEvents' = ReadyEvents \cup {<<k.udata, k.filter>>}
      BY <2>3 DEF View
    <2>6. Abs' = [Abs EXCEPT !.ready = @ \cup {<<k.udata, k.filter>>}]
      BY <1>1, <2>4, <2>5 DEF Abs
    <2>7. CASE k.filter = "read"
      <3>1. k.udata \in ract
        BY <2>1, <2>7 DEF KnotesSound, Meant
      <3>2. Abs' = Promise!Activate(Abs, <<k.udata, "read">>)
        BY <2>6, <2>7 DEF Promise!Activate
      <3> QED BY <1>1, <3>1, <3>2 DEF Promise!Happens
    <2>8. CASE k.filter = "write"
      <3>1. k.udata \in Abs.wreg
        BY <2>1, <2>8 DEF View, Abs
      <3>2. Abs' = Promise!Activate(Abs, <<k.udata, "write">>)
        BY <2>6, <2>8, <3>1 DEF Promise!Activate
      <3> QED BY <1>1, <3>1, <3>2 DEF Promise!Happens
    <2> QED BY <2>1, <2>7, <2>8 DEF Knote, Filter
  <1> QED BY <1>3, <1>4

\* The initial states are initial states of the promise.
LEMMA InitAbs == Init => Promise!Init
  <1> SUFFICES ASSUME Init PROVE Promise!Init
    OBVIOUS
  <1>1. Inv /\ View
    BY InitInv, InvView
  <1>2. Writers = {Srv}
    <2>1. \A k \in Expected : k.filter = "write" => k.udata = Srv
      BY <1>1 DEF Inv, KnotesSound, Meant, Init
    <2>2. [ident |-> SrvSd, filter |-> "write", udata |-> Srv] \in Expected
      <3>1. DOMAIN change = 1..5 /\ change[2] = [ident |-> SrvSd, filter |-> "write", op |-> "add", udata |-> Srv]
        BY DEF Init
      <3>2. AddsLast(change, 2)
        BY KqueueAssumption DEF Init, AddsLast, Key
      <3>3. Entry(change[2]) \in Expected
        BY <3>1, <3>2, KqueueAssumption DEF Expected, After
      <3> QED BY <3>1, <3>3 DEF Entry
    <2> QED BY <1>1, <2>1, <2>2 DEF View
  <1>3. ReadyEvents = {}
    BY <1>1 DEF View, Active, Init
  <1>4. Waiting = {} /\ Handled = None
    BY DEF Waiting, Handled, Init
  <1> QED BY <1>2, <1>3, <1>4 DEF Promise!Init, Init, Writers, ReadyEvents, Waiting, Handled

\* Every step is one of the promise, or none.
LEMMA NextAbs == Inv /\ [Next]_vars => [Promise!Next]_(Promise!vars)
  <1> SUFFICES ASSUME Inv, [Next]_vars PROVE [Promise!Next]_(Promise!vars)
    OBVIOUS
  <1>1. View /\ View'
    BY NextView
  <1>2. Promise!Step(Abs, Abs') => Promise!Next
    BY DEF Promise!Next, Abs, Writers, ReadyEvents, Waiting, Handled
  <1>3. Abs' = Abs /\ UNCHANGED ract => UNCHANGED Promise!vars
    BY DEF Promise!vars, Abs, Writers, ReadyEvents, Waiting, Handled
  <1> USE DEF Promise!Step
  <1>4. ASSUME NEW c \in Conn \cup {Srv}, addOutput(c) PROVE Promise!Next
    BY <1>1, <1>2, <1>4, addOutputStep DEF Fd
  <1>5. ASSUME NEW c \in Conn \cup {Srv}, delOutput(c) PROVE Promise!Next
    BY <1>1, <1>2, <1>5, delOutputStep DEF Fd
  <1>6. ASSUME NEW c \in Conn, NEW d \in Desc, Accept(c, d) PROVE Promise!Next
    BY <1>1, <1>2, <1>6, AcceptStep
  <1>7. ASSUME NEW c \in Fd, processClose(c) PROVE Promise!Next
    BY <1>1, <1>2, <1>7, processCloseStep
  <1>8. CASE Return
    BY <1>1, <1>2, <1>8, ReturnStep
  <1>9. ASSUME NEW e \in event, Callback(e) PROVE Promise!Next
    BY <1>1, <1>2, <1>9, CallbackStep
  <1>10. CASE kevent
    BY <1>1, <1>2, <1>3, <1>10, keventStep
  <1>11. ASSUME NEW k \in knote, Ready(k) PROVE [Promise!Next]_(Promise!vars)
    BY <1>1, <1>2, <1>3, <1>11, ReadyStep
  <1>12. CASE UNCHANGED vars
    <2>1. UNCHANGED <<sd, ract, sact, change, event, cur, knote, active>>
      BY <1>12 DEF vars
    <2>2. Expected' = Expected /\ Active' = Active
      BY <2>1 DEF Expected, Active
    <2> QED BY <1>1, <1>3, <2>1, <2>2, SameAbs
  <1> QED BY <1>4, <1>5, <1>6, <1>7, <1>8, <1>9, <1>10, <1>11, <1>12 DEF Next

\* The event base with its arrays and descriptors does what the connections are
\* promised, whatever the kernel returns and in whatever order descriptors are used
\* again.
THEOREM KqueueImplements == Spec => ImplementsReadiness
  BY InitInv, NextInv, InitAbs, NextAbs, PTL DEF Spec, ImplementsReadiness, Promise!Spec
==============================================================================
