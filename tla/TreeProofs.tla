------------------------------ MODULE TreeProofs ------------------------------
(***************************************************************************)
(* The red-black tree, for any number of nodes and any keys: the parent    *)
(* links agree with the child links (LinksAgree), the tree is balanced     *)
(* whenever an operation has returned (TreeBalanced), it is the            *)
(* collection of timers of module Timers (TreeImplementsTimers), and no    *)
(* loop runs for ever (LoopsAreFinite).                                    *)
(*                                                                         *)
(* None of the four is inductive.  The first two rest on TreeInv, which    *)
(* holds inside the operations too: the links form a tree with a rank that *)
(* grows downwards; every node has a black height, and where remove is at  *)
(* work one side is a black node short; a red node has a red child only    *)
(* where a loop is about to mend it.  The third rests on Ordered as well:  *)
(* every node has a range of keys that holds the keys below it, and the    *)
(* descents stay where the key they look for belongs.  The fourth says how *)
(* the steps change the way up from a node (Ladder).                       *)
(***************************************************************************)
EXTENDS NcRbTree, FiniteSetTheorems, NaturalsInduction, WellFoundedInduction, TLAPS

\* The pointers are typed.
Pointers ==
    /\ link \in [Side -> [Place -> Place \cup {NULL}]]
    /\ parent \in [Place -> Place \cup {NULL}]

\* The child links form a tree of the hung nodes, and the parent links agree.
Shape ==
    /\ \A n \in Hung, d \in Side : link[d][n] \in Hung \cup {Nil}
    /\ \A n \in Place \ Hung, d \in Side : link[d][n] = NULL
    /\ root \in Hung \cup {Nil}
    /\ root = Nil => Hung = {}
    /\ \A n \in Hung, d \in Side :
         link[d][n] # Nil => link[d][n] # root /\ parent[link[d][n]] = n
    /\ \A n \in Hung \ {root} : parent[n] \in Hung /\ \E d \in Side : link[d][parent[n]] = n
    /\ \A n \in Hung : link["left"][n] = link["right"][n] => link["left"][n] = Nil

\* A child is further from the root than its parent.
Ranked(rk) ==
    \A n \in Hung, d \in Side : link[d][n] # Nil => rk[n] < rk[link[d][n]]

Acyclic == \E rk \in [Node -> Nat] : Ranked(rk)

\* a may be on side d of b.
Ord(d, a, b) == IF d = "left" THEN a <= b ELSE b <= a

\* rng[n] holds the keys that may be in the subtree at n.
Ranged(rng) ==
    /\ \A n \in Hung : key[n] \in rng[n]
    /\ \A n \in Hung, d \in Side : link[d][n] # Nil =>
         \A k \in rng[link[d][n]] : k \in rng[n] /\ Ord(d, k, key[n])
    /\ root # Nil => rng[root] = Int

\* What rotations and colors leave alone, of a node and its two sides.
LEMMA Sides ==
    ASSUME NEW d \in Side
    PROVE  /\ Other(d) \in Side /\ Other(Other(d)) = d /\ Other(d) # d
           /\ \A s \in Side : s # d => s = Other(d)
           /\ "left" \in Side /\ "right" \in Side
  BY DEF Side, Other

\* The shape after a step, from what the step does to every node.
LEMMA NewShape ==
    ASSUME NEW H, Hung' = H,
           \A m \in H, s \in Side : link'[s][m] \in H \cup {Nil},
           \A m \in Place \ H, s \in Side : link'[s][m] = NULL,
           root' \in H \cup {Nil} /\ (root' = Nil => H = {}),
           \A m \in H, s \in Side :
             link'[s][m] # Nil => link'[s][m] # root' /\ parent'[link'[s][m]] = m,
           \A m \in H \ {root'} : parent'[m] \in H /\ \E s \in Side : link'[s][parent'[m]] = m,
           \A m \in H : link'["left"][m] = link'["right"][m] => link'["left"][m] = Nil
    PROVE  Shape'
  BY DEF Shape

\* A hung node is no sentinel and has links.
LEMMA HungFacts ==
    ASSUME Pointers, Shape
    PROVE  /\ Hung \subseteq Node /\ Hung \subseteq Place /\ Nil \notin Hung /\ NULL \notin Hung
           /\ \A n \in Place, d \in Side : n \in Hung <=> link[d][n] # NULL
           /\ Nil # NULL /\ Nil \in Place
  BY TreeAssumption DEF Shape, Hung, Place, Side

\* The child on a side hangs on that side.
LEMMA ChildSide ==
    ASSUME Pointers, Shape, NEW n \in Hung, NEW d \in Side, link[d][n] # Nil
    PROVE  /\ link[d][n] \in Hung /\ link[d][n] # root /\ parent[link[d][n]] = n
           /\ SideOf(link[d][n]) = d
           /\ link[Other(d)][n] # link[d][n]
  <1>1. link[d][n] \in Hung /\ link[d][n] # root /\ parent[link[d][n]] = n
    BY DEF Shape
  <1>2. link["left"][n] # link["right"][n]
    BY DEF Shape, Side
  <1> QED BY <1>1, <1>2 DEF SideOf, Side, Other

\* A hung node hangs on its side of its parent.
LEMMA ParentSide ==
    ASSUME Pointers, Shape, NEW n \in Hung, n # root
    PROVE  /\ parent[n] \in Hung /\ SideOf(n) \in Side /\ link[SideOf(n)][parent[n]] = n
           /\ \A d \in Side : link[d][parent[n]] = n => d = SideOf(n)
  <1>1. PICK d \in Side : parent[n] \in Hung /\ link[d][parent[n]] = n
    BY DEF Shape
  <1>2. n # Nil
    BY HungFacts
  <1>3. link["left"][parent[n]] # link["right"][parent[n]]
    BY <1>1, <1>2 DEF Shape, Side
  <1> QED BY <1>1, <1>3 DEF SideOf, Side

------------------------------------------------------------------------------
\* The nodes around a rotation are different nodes.
LEMMA Apart ==
    ASSUME Pointers, Shape, Acyclic, NEW d \in Side, NEW n \in Hung, NEW t, NEW i, NEW e \in Side,
           t = link[e][n], t # Nil, i = link[d][t]
    PROVE  /\ t \in Hung /\ i \in Hung \cup {Nil} /\ t # n /\ i # n /\ i # t
           /\ t # root /\ parent[t] = n
           /\ n # root => parent[n] \in Hung /\ parent[n] \notin {n, t, i}
  <1>1. PICK rk \in [Node -> Nat] : Ranked(rk)
    BY DEF Acyclic
  <1>2. t \in Hung /\ i \in Hung \cup {Nil} /\ t # root /\ parent[t] = n
    BY DEF Shape
  <1>3. rk[n] < rk[t] /\ (i # Nil => rk[t] < rk[i])
    BY <1>1, <1>2 DEF Ranked
  <1>4. n \in Node /\ t \in Node /\ (i # Nil => i \in Node) /\ n # Nil /\ t # Nil
    BY <1>2, HungFacts
  <1>5. rk[n] \in Nat /\ rk[t] \in Nat /\ (i # Nil => rk[i] \in Nat)
    BY <1>4
  <1>6. ASSUME n # root
        PROVE  parent[n] \in Hung /\ parent[n] # Nil /\ rk[parent[n]] \in Nat /\ rk[parent[n]] < rk[n]
    <2>1. parent[n] \in Hung /\ SideOf(n) \in Side /\ link[SideOf(n)][parent[n]] = n
      BY <1>6, ParentSide
    <2>2. parent[n] \in Node /\ parent[n] # Nil
      BY <2>1, HungFacts
    <2> QED BY <1>1, <1>4, <2>1, <2>2 DEF Ranked
  <1> QED BY <1>2, <1>3, <1>4, <1>5, <1>6

\* What a rotation does to every link.
LEMMA RotateLinks ==
    ASSUME Pointers, Shape, Acyclic, NEW d \in Side, NEW n \in Hung, NEW t, NEW i, NEW e, e = Other(d),
           t = link[e][n], t # Nil, i = link[d][t], Rotate(d, n)
    PROVE  /\ root' = IF n = root THEN t ELSE root
           /\ \A s \in Side, m \in Place :
                link'[s][m] = IF HangsOn(n, s, m) THEN t
                              ELSE IF m = n /\ s = e THEN i
                              ELSE IF m = t /\ s = d THEN n ELSE link[s][m]
           /\ \A m \in Place :
                parent'[m] = IF m = n THEN t ELSE IF m = t THEN parent[n]
                             ELSE IF m = i /\ i # Nil THEN n ELSE parent[m]
           /\ Pointers'
           /\ Hung' = Hung
  <1>1. /\ root' = IF n = root THEN t ELSE root
        /\ link' = [s \in Side |-> [m \in Place |->
                      CASE HangsOn(n, s, m) -> t
                        [] m = n /\ s = e -> i
                        [] m = t /\ s = d -> n
                        [] OTHER -> link[s][m]]]
        /\ parent' = [m \in Place |->
                        CASE m = n -> t
                          [] m = t -> parent[n]
                          [] m = i /\ i # Nil -> n
                          [] OTHER -> parent[m]]
    BY DEF Rotate
  <1>2. /\ t \in Hung /\ i \in Hung \cup {Nil} /\ t # n /\ i # n /\ i # t
        /\ n # root => parent[n] \in Hung /\ parent[n] \notin {n, t, i}
    BY Apart, Sides
  <1>3. /\ \A s \in Side, m \in Place :
             link'[s][m] = IF HangsOn(n, s, m) THEN t
                           ELSE IF m = n /\ s = e THEN i
                           ELSE IF m = t /\ s = d THEN n ELSE link[s][m]
    <2> SUFFICES ASSUME NEW s \in Side, NEW m \in Place
                 PROVE  link'[s][m] = IF HangsOn(n, s, m) THEN t
                           ELSE IF m = n /\ s = e THEN i
                           ELSE IF m = t /\ s = d THEN n ELSE link[s][m]
      OBVIOUS
    <2>1. link'[s][m] = CASE HangsOn(n, s, m) -> t
                        [] m = n /\ s = e -> i
                        [] m = t /\ s = d -> n
                        [] OTHER -> link[s][m]
      BY <1>1
    <2>2. ~(HangsOn(n, s, m) /\ m \in {n, t})
      BY <1>2 DEF HangsOn
    <2> QED BY <1>2, <2>1, <2>2
  <1>4. \A m \in Place :
          parent'[m] = IF m = n THEN t ELSE IF m = t THEN parent[n]
                       ELSE IF m = i /\ i # Nil THEN n ELSE parent[m]
    BY <1>1, <1>2
  <1>5. Hung \subseteq Place /\ NULL \notin Hung /\ Nil # NULL /\ Nil \in Place
    BY HungFacts
  <1>6. Pointers'
    <2>1. \A s \in Side, m \in Place : link'[s][m] \in Place \cup {NULL}
      BY <1>2, <1>3, <1>5 DEF Pointers
    <2>2. \A m \in Place : parent'[m] \in Place \cup {NULL}
      BY <1>2, <1>4, <1>5 DEF Pointers
    <2>3. link' \in [Side -> [Place -> Place \cup {NULL}]]
      BY <1>1, <2>1
    <2>4. parent' \in [Place -> Place \cup {NULL}]
      BY <1>1, <2>2
    <2> QED BY <2>3, <2>4 DEF Pointers
  <1>7. Hung' = Hung
    <2>1. \A m \in Place : link'["left"][m] # NULL <=> link["left"][m] # NULL
      <3> SUFFICES ASSUME NEW m \in Place
                   PROVE  link'["left"][m] # NULL <=> link["left"][m] # NULL
        OBVIOUS
      <3>1. link["left"][m] # NULL <=> m \in Hung
        BY HungFacts DEF Side
      <3>2. HangsOn(n, "left", m) => m \in Hung
        BY <1>2 DEF HangsOn
      <3> QED BY <1>2, <1>3, <1>5, <3>1, <3>2 DEF Side
    <2> QED BY <2>1 DEF Hung, Place
  <1> QED BY <1>1, <1>3, <1>4, <1>6, <1>7

\* A rotation keeps the shape.
LEMMA RotateShape ==
    ASSUME Pointers, Shape, Acyclic, NEW d \in Side, NEW n \in Hung, link[Other(d)][n] # Nil,
           Rotate(d, n)
    PROVE  Pointers' /\ Shape' /\ Acyclic' /\ Hung' = Hung
  <1>1. PICK e \in Side : e = Other(d) /\ e # d /\ \A s \in Side : s = d \/ s = e
    BY Sides
  <1>2. PICK t : t = link[e][n]
    OBVIOUS
  <1>3. PICK i : i = link[d][t]
    OBVIOUS
  <1>4. PICK u : u = parent[n]
    OBVIOUS
  <1>5. PICK f : f = SideOf(n)
    OBVIOUS
  <1>6. /\ t \in Hung /\ i \in Hung \cup {Nil} /\ t # n /\ i # n /\ i # t
        /\ t # root /\ parent[t] = n
        /\ n # root => u \in Hung /\ u \notin {n, t, i} /\ f \in Side /\ link[f][u] = n
    BY <1>1, <1>2, <1>3, <1>4, <1>5, Apart, ParentSide
  <1>7. /\ root' = IF n = root THEN t ELSE root
        /\ \A s \in Side, m \in Place :
             link'[s][m] = IF n # root /\ m = u /\ s = f THEN t
                           ELSE IF m = n /\ s = e THEN i
                           ELSE IF m = t /\ s = d THEN n ELSE link[s][m]
        /\ \A m \in Place :
             parent'[m] = IF m = n THEN t ELSE IF m = t THEN u
                          ELSE IF m = i /\ i # Nil THEN n ELSE parent[m]
        /\ Pointers'
        /\ Hung' = Hung
    BY <1>1, <1>2, <1>3, <1>4, <1>5, RotateLinks DEF HangsOn
  <1>8. Hung \subseteq Node /\ Hung \subseteq Place /\ Nil \notin Hung /\ Nil # NULL
    BY HungFacts
  <1>9. /\ \A m \in Hung, s \in Side : link[s][m] \in Hung \cup {Nil}
        /\ \A m \in Place \ Hung, s \in Side : link[s][m] = NULL
        /\ root \in Hung \cup {Nil}
        /\ root = Nil => Hung = {}
        /\ \A m \in Hung, s \in Side :
             link[s][m] # Nil => link[s][m] # root /\ parent[link[s][m]] = m
        /\ \A m \in Hung \ {root} : parent[m] \in Hung /\ \E s \in Side : link[s][parent[m]] = m
        /\ \A m \in Hung : link[d][m] = link[e][m] => link[d][m] = Nil
    BY <1>1 DEF Shape, Side
  <1>10. Shape'
    <2>1. \A m \in Hung, s \in Side : link'[s][m] \in Hung \cup {Nil}
      BY <1>6, <1>7, <1>8, <1>9
    <2>2. \A m \in Place \ Hung, s \in Side : link'[s][m] = NULL
      BY <1>6, <1>7, <1>8, <1>9
    <2>3. root' \in Hung \cup {Nil} /\ (root' = Nil => Hung = {})
      BY <1>6, <1>7, <1>8, <1>9
    <2>4. \A m \in Hung, s \in Side :
             link'[s][m] # Nil => link'[s][m] # root' /\ parent'[link'[s][m]] = m
      <3> SUFFICES ASSUME NEW m \in Hung, NEW s \in Side, link'[s][m] # Nil
                   PROVE  link'[s][m] # root' /\ parent'[link'[s][m]] = m
        OBVIOUS
      <3>1. CASE n # root /\ m = u /\ s = f
        BY <1>6, <1>7, <1>8, <1>9, <3>1
      <3>2. CASE m = n /\ s = e
        <4>1. link'[s][m] = i
          BY <1>6, <1>7, <1>8, <3>2
        <4>2. i \in Hung /\ i # root /\ i # Nil
          BY <1>3, <1>6, <1>9, <4>1
        <4> QED BY <1>6, <1>7, <1>8, <3>2, <4>1, <4>2
      <3>3. CASE m = t /\ s = d
        BY <1>6, <1>7, <1>8, <1>9, <3>3
      <3>4. CASE ~(n # root /\ m = u /\ s = f) /\ ~(m = n /\ s = e) /\ ~(m = t /\ s = d)
        <4>1. link'[s][m] = link[s][m]
          BY <1>7, <1>8, <3>4
        <4>2. link[s][m] \in Hung /\ link[s][m] # root /\ parent[link[s][m]] = m
          BY <1>9, <4>1
        <4>3. link[s][m] # n
          BY <1>4, <1>5, <1>6, <3>4, <4>2, ParentSide
        <4>4. link[s][m] # t
          <5>1. m = n => s = d
            BY <1>1, <3>4
          <5>2. link[d][n] # t
            BY <1>1, <1>2, <1>6, <1>8, <1>9
          <5> QED BY <1>6, <4>2, <5>1, <5>2
        <4>5. i # Nil => link[s][m] # i
          <5>1. ASSUME i # Nil
                PROVE  parent[i] = t /\ link[e][t] # i
            BY <1>3, <1>6, <1>9, <5>1
          <5>2. m = t => s = e
            BY <1>1, <3>4
          <5> QED BY <4>2, <5>1, <5>2
        <4> QED BY <1>6, <1>7, <1>8, <4>1, <4>2, <4>3, <4>4, <4>5
      <3> QED BY <3>1, <3>2, <3>3, <3>4
    <2>5. \A m \in Hung \ {root'} : parent'[m] \in Hung /\ \E s \in Side : link'[s][parent'[m]] = m
      <3> SUFFICES ASSUME NEW m \in Hung, m # root'
                   PROVE  parent'[m] \in Hung /\ \E s \in Side : link'[s][parent'[m]] = m
        OBVIOUS
      <3>1. CASE m = n
        <4>1. parent'[m] = t /\ link'[d][t] = n
          BY <1>6, <1>7, <1>8, <3>1
        <4> QED BY <1>6, <3>1, <4>1
      <3>2. CASE m = t
        <4>1. n # root
          BY <1>7, <3>2
        <4>2. parent'[m] = u /\ link'[f][u] = t
          BY <1>6, <1>7, <1>8, <3>2, <4>1
        <4> QED BY <1>6, <3>2, <4>1, <4>2
      <3>3. CASE m = i
        <4>1. i # Nil
          BY <1>8, <3>3
        <4>2. parent'[m] = n /\ link'[e][n] = i
          BY <1>6, <1>7, <1>8, <3>3, <4>1
        <4> QED BY <1>1, <3>3, <4>2
      <3>4. CASE m \notin {n, t, i}
        <4>1. m # root
          BY <1>7, <3>4
        <4>2. parent'[m] = parent[m]
          BY <1>7, <1>8, <3>4
        <4>3. PICK s \in Side : parent[m] \in Hung /\ link[s][parent[m]] = m
          BY <1>9, <4>1
        <4>4. link'[s][parent[m]] = m
          BY <1>2, <1>3, <1>6, <1>7, <1>8, <3>4, <4>3
        <4> QED BY <4>2, <4>3, <4>4
      <3> QED BY <3>1, <3>2, <3>3, <3>4
    <2>6. \A m \in Hung : link'[d][m] = link'[e][m] => link'[d][m] = Nil
      <3> SUFFICES ASSUME NEW m \in Hung, link'[d][m] = link'[e][m], link'[d][m] # Nil
                   PROVE  FALSE
        OBVIOUS
      <3>1. parent'[link'[d][m]] = m
        BY <2>4
      <3>2. CASE m = n
        <4>1. link'[e][n] = i /\ link'[d][n] = link[d][n]
          BY <1>1, <1>6, <1>7, <1>8
        <4>2. link[d][n] = i /\ i # Nil
          BY <3>2, <4>1
        <4>3. parent[i] = n /\ parent[i] = t
          BY <1>3, <1>6, <1>9, <4>2
        <4> QED BY <1>6, <4>3
      <3>3. CASE m = t
        <4>1. link'[d][t] = n /\ link'[e][t] = link[e][t]
          BY <1>1, <1>6, <1>7, <1>8
        <4>2. link[e][t] = n
          BY <3>3, <4>1
        <4>3. parent[n] = t /\ n # root
          BY <1>1, <1>6, <1>8, <1>9, <4>2
        <4> QED BY <1>4, <1>6, <4>3
      <3>4. CASE n # root /\ m = u
        <4>1. link'[f][u] = t /\ \A s \in Side : s # f => link'[s][u] = link[s][u]
          BY <1>6, <1>7, <1>8, <3>4
        <4>2. \E s \in Side : link[s][u] = t
          BY <1>1, <1>6, <3>4, <4>1
        <4>3. parent[t] = u
          BY <1>6, <1>8, <1>9, <3>4, <4>2
        <4> QED BY <1>6, <3>4, <4>3
      <3>5. CASE m # n /\ m # t /\ ~(n # root /\ m = u)
        BY <1>1, <1>7, <1>8, <1>9, <3>5
      <3> QED BY <3>2, <3>3, <3>4, <3>5
    <2>7. \A m \in Hung : link'["left"][m] = link'["right"][m] => link'["left"][m] = Nil
      BY <1>1, <2>6 DEF Side
    <2> QED BY <1>7, <2>1, <2>2, <2>3, <2>4, <2>5, <2>7 DEF Shape
  <1>11. Acyclic'
    <2>1. PICK rk \in [Node -> Nat] : Ranked(rk)
      BY DEF Acyclic
    <2> DEFINE rk2 == [m \in Node |-> IF m = t THEN 2 * rk[n] ELSE 2 * rk[m] + 1]
    <2>2. \A m \in Hung : rk[m] \in Nat
      BY <1>8
    <2>3. rk2 \in [Node -> Nat]
      BY <1>8
    <2>4. \A m \in Hung : rk2[m] = IF m = t THEN 2 * rk[n] ELSE 2 * rk[m] + 1
      BY <1>8
    <2> HIDE DEF rk2
    <2>5. \A m \in Hung, s \in Side : link[s][m] # Nil => rk[m] < rk[link[s][m]]
      BY <2>1 DEF Ranked
    <2>6. rk[n] < rk[t] /\ (i # Nil => rk[t] < rk[i]) /\ (n # root => rk[u] < rk[n])
      BY <1>1, <1>2, <1>3, <1>6, <1>8, <2>5
    <2>7. ASSUME NEW m \in Hung, NEW s \in Side, link'[s][m] # Nil
          PROVE  rk2[m] < rk2[link'[s][m]]
      <3>1. CASE n # root /\ m = u /\ s = f
        <4>1. link'[s][m] = t
          BY <1>7, <1>8, <3>1
        <4> QED BY <1>6, <2>2, <2>4, <2>6, <3>1, <4>1
      <3>2. CASE m = n /\ s = e
        <4>1. link'[s][m] = i
          BY <1>6, <1>7, <1>8, <3>2
        <4> QED BY <1>6, <2>2, <2>4, <2>6, <2>7, <3>2, <4>1
      <3>3. CASE m = t /\ s = d
        <4>1. link'[s][m] = n
          BY <1>6, <1>7, <1>8, <3>3
        <4> QED BY <1>6, <2>2, <2>4, <2>6, <3>3, <4>1
      <3>4. CASE ~(n # root /\ m = u /\ s = f) /\ ~(m = n /\ s = e) /\ ~(m = t /\ s = d)
        <4>1. PICK c : c = link[s][m]
          OBVIOUS
        <4>2. link'[s][m] = c /\ c \in Hung /\ rk[m] < rk[c] /\ parent[c] = m
          BY <1>7, <1>8, <1>9, <2>5, <2>7, <3>4, <4>1
        <4>3. c # t
          <5>1. m = n => s = d
            BY <1>1, <3>4
          <5>2. link[d][n] # t
            BY <1>1, <1>2, <1>6, <1>8, <1>9
          <5> QED BY <1>6, <4>1, <4>2, <5>1, <5>2
        <4>4. rk[n] < rk[t] /\ rk[n] \in Nat /\ rk[t] \in Nat /\ rk[m] \in Nat /\ rk[c] \in Nat
          BY <1>6, <2>2, <2>6, <4>2
        <4>5. rk2[c] = 2 * rk[c] + 1
          BY <2>4, <4>2, <4>3
        <4>6. CASE m = t
          <5>1. rk2[m] = 2 * rk[n]
            BY <2>4, <4>6
          <5> QED BY <4>2, <4>4, <4>5, <4>6, <5>1
        <4>7. CASE m # t
          <5>1. rk2[m] = 2 * rk[m] + 1
            BY <2>4, <4>7
          <5> QED BY <4>2, <4>4, <4>5, <5>1
        <4> QED BY <4>6, <4>7
      <3> QED BY <3>1, <3>2, <3>3, <3>4
    <2>8. Ranked(rk2)'
      BY <1>7, <2>7 DEF Ranked
    <2> QED BY <2>3, <2>8 DEF Acyclic
  <1> QED BY <1>7, <1>10, <1>11

\* Sides are opposite, and order chains.
LEMMA OrdFacts ==
    ASSUME NEW d \in Side, NEW a \in Int, NEW b \in Int
    PROVE  /\ Ord(Other(d), a, b) <=> Ord(d, b, a)
           /\ \A c \in Int : Ord(d, a, b) /\ Ord(d, b, c) => Ord(d, a, c)
  BY DEF Ord, Other, Side

\* A rotation keeps the keys in their ranges.
LEMMA RotateRanged ==
    ASSUME Pointers, Shape, Acyclic, NEW d \in Side, NEW n \in Hung, link[Other(d)][n] # Nil,
           Rotate(d, n), NEW rng \in [Node -> SUBSET Int], Ranged(rng), key' = key
    PROVE  \E rng2 \in [Node -> SUBSET Int] : Ranged(rng2)'
  <1>1. PICK e \in Side : e = Other(d) /\ e # d /\ \A s \in Side : s = d \/ s = e
    BY Sides
  <1>2. PICK t : t = link[e][n]
    OBVIOUS
  <1>3. PICK i : i = link[d][t]
    OBVIOUS
  <1>4. PICK u : u = parent[n]
    OBVIOUS
  <1>5. PICK f : f = SideOf(n)
    OBVIOUS
  <1>6. /\ t \in Hung /\ i \in Hung \cup {Nil} /\ t # n /\ i # n /\ i # t
        /\ t # root /\ parent[t] = n
        /\ n # root => u \in Hung /\ u \notin {n, t, i} /\ f \in Side /\ link[f][u] = n
    BY <1>1, <1>2, <1>3, <1>4, <1>5, Apart, ParentSide
  <1>7. /\ root' = IF n = root THEN t ELSE root
        /\ \A s \in Side, m \in Place :
             link'[s][m] = IF n # root /\ m = u /\ s = f THEN t
                           ELSE IF m = n /\ s = e THEN i
                           ELSE IF m = t /\ s = d THEN n ELSE link[s][m]
        /\ Hung' = Hung
    BY <1>1, <1>2, <1>3, <1>4, <1>5, RotateLinks DEF HangsOn
  <1>8. Hung \subseteq Node /\ Hung \subseteq Place /\ Nil \notin Hung
    BY HungFacts
  <1>9. /\ \A m \in Hung : key[m] \in rng[m] /\ key[m] \in Int
        /\ \A m \in Hung, s \in Side : link[s][m] # Nil =>
             \A k \in rng[link[s][m]] : k \in rng[m] /\ Ord(s, k, key[m])
        /\ root # Nil => rng[root] = Int
        /\ \A m \in Hung : \A k \in rng[m] : k \in Int
    BY <1>8 DEF Ranged
  <1>10. Ord(d, key[n], key[t])
    BY <1>1, <1>2, <1>6, <1>8, <1>9, OrdFacts
  <1> DEFINE near == {k \in rng[n] : Ord(d, k, key[t])}
             new2 == [m \in Node |-> IF m = t THEN rng[n] ELSE IF m = n THEN near ELSE rng[m]]
  <1>11. new2 \in [Node -> SUBSET Int]
    BY <1>8
  <1> HIDE DEF new2
  <1>12. PICK rng2 \in [Node -> SUBSET Int] : rng2 = new2
    BY <1>11
  <1>13. /\ rng2[t] = rng[n] /\ rng2[n] = near
         /\ \A m \in Hung : m \notin {t, n} => rng2[m] = rng[m]
    BY <1>6, <1>8, <1>12 DEF new2
  <1>14. \A m \in Hung : key[m] \in rng2[m]
    <2>1. key[t] \in rng[n]
      BY <1>1, <1>2, <1>6, <1>8, <1>9
    <2> QED BY <1>9, <1>10, <1>13, <2>1
  <1>15. ASSUME NEW m \in Hung, NEW s \in Side, link'[s][m] # Nil, NEW k \in rng2[link'[s][m]]
         PROVE  k \in rng2[m] /\ Ord(s, k, key[m])
    <2>1. CASE n # root /\ m = u /\ s = f
      <3>1. link'[s][m] = t
        BY <1>7, <1>8, <2>1
      <3>2. k \in rng[n]
        BY <1>13, <1>15, <3>1
      <3>3. k \in rng[m] /\ Ord(s, k, key[m])
        BY <1>6, <1>8, <1>9, <2>1, <3>2
      <3> QED BY <1>6, <1>13, <2>1, <3>3
    <2>2. CASE m = n /\ s = e
      <3>1. link'[s][m] = i /\ i \in Hung /\ i # Nil
        BY <1>6, <1>7, <1>8, <1>15, <2>2
      <3>2. k \in rng[i]
        BY <1>6, <1>13, <1>15, <3>1
      <3>3. k \in rng[t] /\ Ord(d, k, key[t])
        BY <1>3, <1>6, <1>9, <3>1, <3>2
      <3>4. k \in rng[n] /\ Ord(e, k, key[n])
        BY <1>2, <1>6, <1>8, <1>9, <3>3
      <3> QED BY <1>13, <2>2, <3>3, <3>4
    <2>3. CASE m = t /\ s = d
      <3>1. link'[s][m] = n
        BY <1>6, <1>7, <1>8, <2>3
      <3> QED BY <1>13, <1>15, <2>3, <3>1
    <2>4. CASE ~(n # root /\ m = u /\ s = f) /\ ~(m = n /\ s = e) /\ ~(m = t /\ s = d)
      <3>1. PICK c : c = link[s][m]
        OBVIOUS
      <3>2. link'[s][m] = c /\ c \in Hung /\ parent[c] = m /\ c # Nil /\ c # root
        BY <1>7, <1>8, <1>15, <2>4, <3>1 DEF Shape
      <3>3. c # t
        <4>1. m = n => s = d
          BY <1>1, <2>4
        <4>2. link[d][n] # t
          BY <1>1, <1>2, ChildSide
        <4> QED BY <1>6, <3>1, <3>2, <4>1, <4>2
      <3>4. c # n
        BY <1>4, <1>5, <1>6, <2>4, <3>1, <3>2, ParentSide
      <3>5. k \in rng[c]
        BY <1>13, <1>15, <3>2, <3>3, <3>4
      <3>6. k \in rng[m] /\ Ord(s, k, key[m]) /\ k \in Int
        BY <1>9, <3>1, <3>2, <3>5
      <3>7. CASE m = n
        <4>1. s = d
          BY <1>1, <2>4, <3>7
        <4>2. Ord(d, k, key[t])
          BY <1>6, <1>9, <1>10, <3>6, <3>7, <4>1, OrdFacts
        <4> QED BY <1>13, <3>6, <3>7, <4>2
      <3>8. CASE m = t
        <4>1. k \in rng[n]
          BY <1>2, <1>6, <1>8, <1>9, <3>6, <3>8
        <4> QED BY <1>13, <3>6, <3>8, <4>1
      <3>9. CASE m \notin {n, t}
        BY <1>13, <3>6, <3>9
      <3> QED BY <3>7, <3>8, <3>9
    <2> QED BY <2>1, <2>2, <2>3, <2>4
  <1>16. root' # Nil => rng2[root'] = Int
    <2>1. CASE n = root
      BY <1>7, <1>8, <1>9, <1>13, <2>1
    <2>2. CASE n # root
      <3>1. root' = root /\ root \in Hung \cup {Nil}
        BY <1>7, <2>2 DEF Shape
      <3> QED BY <1>6, <1>9, <1>13, <2>2, <3>1
    <2> QED BY <2>1, <2>2
  <1>17. Ranged(rng2)'
    BY <1>7, <1>14, <1>15, <1>16 DEF Ranged
  <1> QED BY <1>17

------------------------------------------------------------------------------
\* A set of numbers that is not empty has a least one.
LEMMA LeastNumber ==
    ASSUME NEW T \in SUBSET Nat, T # {}
    PROVE  \E x \in T : \A y \in T : x <= y
  <1> DEFINE R == OpToRel(<, Nat)
  <1>1. \A x, y \in Nat : <<y, x>> \in R <=> y < x
    BY DEF OpToRel
  <1>2. IsWellFoundedOn(R, Nat)
    BY NatLessThanWellFounded
  <1> HIDE DEF R
  <1>3. PICK x \in T : \A y \in T : ~(<<y, x>> \in R)
    BY <1>2, WFMin
  <1>4. ASSUME NEW y \in T PROVE x <= y
    <2>1. x \in Nat /\ y \in Nat
      OBVIOUS
    <2>2. ~(y < x)
      BY <1>1, <1>3, <2>1, Zenon
    <2> QED BY <2>1, <2>2
  <1> QED BY <1>4

\* Induction from the root down: a set with the root in it, and every node whose
\* parent is in it, holds all nodes.
LEMMA FromRoot ==
    ASSUME Pointers, Shape, Acyclic, NEW S, root \in S,
           \A m \in Hung \ {root} : parent[m] \in S => m \in S
    PROVE  Hung \subseteq S
  <1>1. PICK rk \in [Node -> Nat] : Ranked(rk)
    BY DEF Acyclic
  <1>2. Hung \subseteq Node
    BY HungFacts
  <1> DEFINE out == Hung \ S
             T == {rk[m] : m \in out}
  <1>3. ASSUME out # {}
        PROVE  FALSE
    <2>1. T \in SUBSET Nat /\ T # {}
      BY <1>2, <1>3
    <2> HIDE DEF T
    <2>2. PICK x \in T : \A y \in T : x <= y
      BY <2>1, LeastNumber
    <2>3. PICK m \in out : x = rk[m]
      BY <2>2 DEF T
    <2>4. m \in Hung /\ m # root /\ parent[m] \notin S
      BY <2>3
    <2>5. parent[m] \in Hung /\ SideOf(m) \in Side /\ link[SideOf(m)][parent[m]] = m /\ m # Nil
      BY <2>4, ParentSide, HungFacts
    <2>6. rk[parent[m]] < rk[m]
      BY <1>1, <2>5 DEF Ranked
    <2>7. rk[parent[m]] \in T
      BY <2>4, <2>5 DEF T
    <2>8. rk[m] <= rk[parent[m]] /\ rk[m] \in Nat /\ rk[parent[m]] \in Nat
      BY <2>1, <2>2, <2>3, <2>7
    <2> QED BY <2>6, <2>8
  <1> QED BY <1>3

------------------------------------------------------------------------------
\* Hanging a leaf x below a on side f keeps the shape and the ranges.
LEMMA LeafShape ==
    ASSUME Pointers, Shape, Acyclic, NEW a \in Hung, NEW f \in Side, link[f][a] = Nil,
           NEW x \in Node \ Hung, root' = root,
           link' = [d \in Side |-> [m \in Place |->
                      CASE m = x -> Nil [] m = a /\ d = f -> x [] OTHER -> link[d][m]]],
           parent' = [parent EXCEPT ![x] = a]
    PROVE  Pointers' /\ Shape' /\ Acyclic' /\ Hung' = Hung \cup {x}
  <1>1. Hung \subseteq Node /\ Hung \subseteq Place /\ Nil \notin Hung /\ Nil # NULL /\ Nil \in Place
        /\ x \in Place /\ x # Nil /\ x # NULL /\ x # a /\ x # root /\ a # Nil
    BY HungFacts, TreeAssumption DEF Shape, Place
  <1>2. /\ \A s \in Side, m \in Place :
             link'[s][m] = IF m = x THEN Nil ELSE IF m = a /\ s = f THEN x ELSE link[s][m]
        /\ \A m \in Place : parent'[m] = IF m = x THEN a ELSE parent[m]
    BY <1>1 DEF Pointers
  <1>3. Pointers'
    <2>1. \A s \in Side, m \in Place : link'[s][m] \in Place \cup {NULL}
      BY <1>1, <1>2 DEF Pointers
    <2>2. \A m \in Place : parent'[m] \in Place \cup {NULL}
      BY <1>1, <1>2 DEF Pointers
    <2>3. link' \in [Side -> [Place -> Place \cup {NULL}]]
      BY <2>1
    <2>4. parent' \in [Place -> Place \cup {NULL}]
      BY <2>2 DEF Pointers
    <2> QED BY <2>3, <2>4 DEF Pointers
  <1>4. Hung' = Hung \cup {x}
    <2>1. \A m \in Place : link'["left"][m] # NULL <=> m = x \/ link["left"][m] # NULL
      <3> SUFFICES ASSUME NEW m \in Place
                   PROVE  link'["left"][m] # NULL <=> m = x \/ link["left"][m] # NULL
        OBVIOUS
      <3>1. link["left"][m] # NULL <=> m \in Hung
        BY HungFacts DEF Side
      <3> QED BY <1>1, <1>2, <3>1 DEF Side
    <2> QED BY <2>1 DEF Hung, Place
  <1>5. /\ \A m \in Hung, s \in Side : link[s][m] \in Hung \cup {Nil}
        /\ \A m \in Place \ Hung, s \in Side : link[s][m] = NULL
        /\ root \in Hung \cup {Nil}
        /\ root = Nil => Hung = {}
        /\ \A m \in Hung, s \in Side :
             link[s][m] # Nil => link[s][m] # root /\ parent[link[s][m]] = m
        /\ \A m \in Hung \ {root} : parent[m] \in Hung /\ \E s \in Side : link[s][parent[m]] = m
        /\ \A m \in Hung : link["left"][m] = link["right"][m] => link["left"][m] = Nil
    BY DEF Shape
  <1>6. Shape'
    <2> DEFINE H == Hung \cup {x}
    <2>1. \A m \in H, s \in Side : link'[s][m] \in H \cup {Nil}
      BY <1>1, <1>2, <1>5
    <2>2. \A m \in Place \ H, s \in Side : link'[s][m] = NULL
      BY <1>1, <1>2, <1>5
    <2>3. root' \in H \cup {Nil} /\ (root' = Nil => H = {})
      BY <1>5
    <2>4. \A m \in H, s \in Side :
             link'[s][m] # Nil => link'[s][m] # root' /\ parent'[link'[s][m]] = m
      BY <1>1, <1>2, <1>5
    <2>5. \A m \in H \ {root'} : parent'[m] \in H /\ \E s \in Side : link'[s][parent'[m]] = m
      <3> SUFFICES ASSUME NEW m \in H, m # root'
                   PROVE  parent'[m] \in H /\ \E s \in Side : link'[s][parent'[m]] = m
        OBVIOUS
      <3>1. CASE m = x
        <4>1. parent'[m] = a /\ link'[f][a] = x
          BY <1>1, <1>2, <3>1
        <4> QED BY <3>1, <4>1
      <3>2. CASE m # x
        <4>1. PICK s \in Side : parent[m] \in Hung /\ link[s][parent[m]] = m
          BY <1>5, <3>2
        <4>2. parent'[m] = parent[m] /\ m # Nil
          BY <1>1, <1>2, <3>2
        <4>3. link'[s][parent[m]] = m
          BY <1>1, <1>2, <4>1, <4>2
        <4> QED BY <4>1, <4>2, <4>3
      <3> QED BY <3>1, <3>2
    <2>6. \A m \in H : link'["left"][m] = link'["right"][m] => link'["left"][m] = Nil
      BY <1>1, <1>2, <1>5 DEF Side
    <2>7. Hung' = H
      BY <1>4
    <2> HIDE DEF H
    <2> QED BY <2>1, <2>2, <2>3, <2>4, <2>5, <2>6, <2>7, NewShape
  <1>7. Acyclic'
    <2>1. PICK rk \in [Node -> Nat] : Ranked(rk)
      BY DEF Acyclic
    <2> DEFINE rk2 == [m \in Node |-> IF m = x THEN rk[a] + 1 ELSE rk[m]]
    <2>2. rk2 \in [Node -> Nat]
      BY <1>1
    <2>3. /\ rk2[x] = rk[a] + 1 /\ rk[a] \in Nat
          /\ \A m \in Hung : rk2[m] = rk[m] /\ rk[m] \in Nat
      BY <1>1
    <2> HIDE DEF rk2
    <2>4. \A m \in Hung, s \in Side : link[s][m] # Nil => rk[m] < rk[link[s][m]]
      BY <2>1 DEF Ranked
    <2>5. ASSUME NEW m \in Hung \cup {x}, NEW s \in Side, link'[s][m] # Nil
          PROVE  rk2[m] < rk2[link'[s][m]]
      <3>1. CASE m = x
        BY <1>1, <1>2, <2>5, <3>1
      <3>2. CASE m = a /\ s = f
        <4>1. link'[s][m] = x
          BY <1>1, <1>2, <3>2
        <4> QED BY <1>1, <2>3, <3>2, <4>1
      <3>3. CASE m # x /\ ~(m = a /\ s = f)
        <4>1. link'[s][m] = link[s][m] /\ link[s][m] \in Hung
          BY <1>1, <1>2, <1>5, <2>5, <3>3
        <4> QED BY <2>3, <2>4, <2>5, <3>3, <4>1
      <3> QED BY <3>1, <3>2, <3>3
    <2>6. Ranked(rk2)'
      BY <1>4, <2>5 DEF Ranked
    <2> QED BY <2>2, <2>6 DEF Acyclic
  <1> QED BY <1>3, <1>4, <1>6, <1>7

\* The leaf gets the part of the range of its parent that is on its side.
LEMMA LeafRanged ==
    ASSUME Pointers, Shape, NEW a \in Hung, NEW f \in Side, link[f][a] = Nil,
           NEW x \in Node \ Hung, root' = root, key' = key, Hung' = Hung \cup {x},
           link' = [d \in Side |-> [m \in Place |->
                      CASE m = x -> Nil [] m = a /\ d = f -> x [] OTHER -> link[d][m]]],
           NEW rng \in [Node -> SUBSET Int], Ranged(rng), key[x] \in rng[a], Ord(f, key[x], key[a])
    PROVE  \E rng2 \in [Node -> SUBSET Int] : Ranged(rng2)'
  <1>1. Hung \subseteq Node /\ Hung \subseteq Place /\ Nil \notin Hung /\ Nil # NULL /\ Nil \in Place
        /\ x \in Place /\ x # Nil /\ x # NULL /\ x # a /\ x # root /\ a # Nil
    BY HungFacts, TreeAssumption DEF Shape, Place
  <1>2. \A s \in Side, m \in Place :
             link'[s][m] = IF m = x THEN Nil ELSE IF m = a /\ s = f THEN x ELSE link[s][m]
    BY <1>1 DEF Pointers
  <1> DEFINE part == {k \in rng[a] : Ord(f, k, key[a])}
             new2 == [m \in Node |-> IF m = x THEN part ELSE rng[m]]
  <1>3. new2 \in [Node -> SUBSET Int]
    BY <1>1
  <1> HIDE DEF new2
  <1>4. PICK rng2 \in [Node -> SUBSET Int] : rng2 = new2
    BY <1>3
  <1>5. rng2[x] = part /\ \A m \in Hung : rng2[m] = rng[m]
    BY <1>1, <1>4 DEF new2
  <1>6. /\ \A m \in Hung : key[m] \in rng[m]
        /\ \A m \in Hung, s \in Side : link[s][m] # Nil =>
             \A k \in rng[link[s][m]] : k \in rng[m] /\ Ord(s, k, key[m])
        /\ root # Nil => rng[root] = Int
        /\ root \in Hung \cup {Nil}
        /\ \A m \in Hung, s \in Side : link[s][m] \in Hung \cup {Nil}
    BY DEF Ranged, Shape
  <1>7. ASSUME NEW m \in Hung \cup {x}, NEW s \in Side, link'[s][m] # Nil, NEW k \in rng2[link'[s][m]]
        PROVE  k \in rng2[m] /\ Ord(s, k, key[m])
    <2>1. CASE m = x
      BY <1>1, <1>2, <1>7, <2>1
    <2>2. CASE m = a /\ s = f
      <3>1. link'[s][m] = x
        BY <1>1, <1>2, <2>2
      <3> QED BY <1>5, <1>7, <2>2, <3>1
    <2>3. CASE m # x /\ ~(m = a /\ s = f)
      <3>1. PICK c : c = link[s][m]
        OBVIOUS
      <3>2. link'[s][m] = c /\ c \in Hung /\ c # Nil /\ m \in Hung
        BY <1>1, <1>2, <1>6, <1>7, <2>3, <3>1
      <3>3. k \in rng[c]
        BY <1>5, <1>7, <3>2
      <3>4. k \in rng[m] /\ Ord(s, k, key[m])
        BY <1>6, <3>1, <3>2, <3>3
      <3> QED BY <1>5, <3>2, <3>4
    <2> QED BY <2>1, <2>2, <2>3
  <1>8. \A m \in Hung \cup {x} : key[m] \in rng2[m]
    BY <1>5, <1>6
  <1>9. root' # Nil => rng2[root'] = Int
    BY <1>5, <1>6
  <1>10. Ranged(rng2)'
    BY <1>7, <1>8, <1>9 DEF Ranged
  <1> QED BY <1>10

\* The first node makes a tree of one.
LEMMA FirstShape ==
    ASSUME Pointers, Shape, root = Nil, NEW n \in Node \ Hung, root' = n,
           link' = [d \in Side |-> [link[d] EXCEPT ![n] = Nil]],
           parent' = [parent EXCEPT ![n] = NULL], key' \in [Node -> Int]
    PROVE  /\ Pointers' /\ Shape' /\ Acyclic' /\ Hung = {} /\ Hung' = {n}
           /\ \E rng \in [Node -> SUBSET Int] : Ranged(rng)'
  <1>1. Hung = {} /\ Nil # NULL /\ Nil \in Place /\ n \in Place /\ n # Nil /\ n # NULL
        /\ Node \subseteq Place
    BY TreeAssumption DEF Shape, Place
  <1>2. \A s \in Side, m \in Place : link'[s][m] = IF m = n THEN Nil ELSE NULL
    <2>1. \A s \in Side, m \in Place : link[s][m] = NULL
      BY <1>1 DEF Shape
    <2> QED BY <1>1, <2>1 DEF Pointers
  <1>3. Pointers'
    <2>1. link' \in [Side -> [Place -> Place \cup {NULL}]]
      BY <1>1 DEF Pointers
    <2>2. parent' \in [Place -> Place \cup {NULL}]
      BY <1>1 DEF Pointers
    <2> QED BY <2>1, <2>2 DEF Pointers
  <1>4. Hung' = {n}
    BY <1>1, <1>2 DEF Hung, Side
  <1>5. Shape'
    <2> DEFINE H == {n}
    <2>1. \A m \in H, s \in Side : link'[s][m] \in H \cup {Nil}
      BY <1>1, <1>2
    <2>2. \A m \in Place \ H, s \in Side : link'[s][m] = NULL
      BY <1>1, <1>2
    <2>3. root' \in H \cup {Nil} /\ (root' = Nil => H = {})
      BY <1>1
    <2>4. \A m \in H, s \in Side :
             link'[s][m] # Nil => link'[s][m] # root' /\ parent'[link'[s][m]] = m
      BY <1>1, <1>2
    <2>5. \A m \in H \ {root'} : parent'[m] \in H /\ \E s \in Side : link'[s][parent'[m]] = m
      OBVIOUS
    <2>6. \A m \in H : link'["left"][m] = link'["right"][m] => link'["left"][m] = Nil
      BY <1>1, <1>2 DEF Side
    <2> HIDE DEF H
    <2>7. Hung' = H
      BY <1>4 DEF H
    <2> QED BY <2>1, <2>2, <2>3, <2>4, <2>5, <2>6, <2>7, NewShape
  <1>6. \A m \in {n}, s \in Side : link'[s][m] = Nil
    BY <1>1, <1>2
  <1>7. Acyclic'
    <2> DEFINE rk == [m \in Node |-> 0]
    <2>1. rk \in [Node -> Nat]
      OBVIOUS
    <2> HIDE DEF rk
    <2>2. Ranked(rk)'
      BY <1>4, <1>6 DEF Ranked
    <2> QED BY <2>1, <2>2 DEF Acyclic
  <1>8. \E rng \in [Node -> SUBSET Int] : Ranged(rng)'
    <2> DEFINE rng == [m \in Node |-> Int]
    <2>1. rng \in [Node -> SUBSET Int] /\ rng[n] = Int /\ key'[n] \in Int
      OBVIOUS
    <2> HIDE DEF rng
    <2>2. Ranged(rng)'
      BY <1>4, <1>6, <2>1 DEF Ranged
    <2> QED BY <2>1, <2>2
  <1> QED BY <1>1, <1>3, <1>4, <1>5, <1>7, <1>8

\* The child that takes the place of a removed node is its only one.
LEMMA OnlyChild ==
    ASSUME Pointers, Shape, NEW n \in Removable
    PROVE  /\ n \in Hung /\ Orphan(n) \in Hung \cup {Nil}
           /\ \E d \in Side : Orphan(n) = link[d][n] /\ link[Other(d)][n] = Nil
           /\ \A d \in Side : link[d][n] \in {Nil, Orphan(n)}
  <1>1. n \in Hung /\ \E d \in Side : link[d][n] = Nil
    BY DEF Removable
  <1>2. \A d \in Side : link[d][n] \in Hung \cup {Nil}
    BY <1>1 DEF Shape
  <1>3. CASE link["left"][n] = Nil
    BY <1>1, <1>2, <1>3 DEF Orphan, Side, Other
  <1>4. CASE link["left"][n] # Nil
    <2>1. link["right"][n] = Nil
      BY <1>1, <1>4 DEF Side
    <2> QED BY <1>1, <1>2, <1>4, <2>1 DEF Orphan, Side, Other
  <1> QED BY <1>3, <1>4

\* Removing the root leaves the tree below it.
LEMMA RootGone ==
    ASSUME Pointers, Shape, Acyclic, root \in Removable, NEW r, r = root,
           NEW c, c = Orphan(root), root' = c,
           link' = [d \in Side |-> [link[d] EXCEPT ![r] = NULL]],
           parent' = [parent EXCEPT ![r] = NULL]
    PROVE  Pointers' /\ Shape' /\ Acyclic' /\ Hung' = Hung \ {r}
  <1>1. Hung \subseteq Node /\ Hung \subseteq Place /\ Nil \notin Hung /\ Nil # NULL /\ Nil \in Place
    BY HungFacts
  <1>2. /\ r \in Hung /\ c \in Hung \cup {Nil} /\ \A d \in Side : link[d][r] \in {Nil, c}
        /\ \E d \in Side : link[d][r] = c
    BY OnlyChild
  <1>3. /\ \A s \in Side, m \in Place : link'[s][m] = IF m = r THEN NULL ELSE link[s][m]
        /\ \A m \in Place : parent'[m] = IF m = r THEN NULL ELSE parent[m]
    BY <1>1, <1>2 DEF Pointers
  <1>4. Pointers'
    <2>1. link' \in [Side -> [Place -> Place \cup {NULL}]]
      BY <1>1 DEF Pointers
    <2>2. parent' \in [Place -> Place \cup {NULL}]
      BY <1>1 DEF Pointers
    <2> QED BY <2>1, <2>2 DEF Pointers
  <1>5. Hung' = Hung \ {r}
    <2>1. \A m \in Place : link'["left"][m] # NULL <=> m # r /\ link["left"][m] # NULL
      BY <1>3 DEF Side
    <2> QED BY <2>1 DEF Hung, Place
  <1>6. /\ \A m \in Hung, s \in Side : link[s][m] \in Hung \cup {Nil}
        /\ \A m \in Place \ Hung, s \in Side : link[s][m] = NULL
        /\ \A m \in Hung, s \in Side :
             link[s][m] # Nil => link[s][m] # r /\ parent[link[s][m]] = m
        /\ \A m \in Hung \ {r} : parent[m] \in Hung /\ \E s \in Side : link[s][parent[m]] = m
        /\ \A m \in Hung : link["left"][m] = link["right"][m] => link["left"][m] = Nil
    BY DEF Shape
  <1>7. c = Nil => Hung = {r}
    <2>1. ASSUME c = Nil
          PROVE  Hung \subseteq {r}
      <3>1. \A m \in Hung \ {root} : parent[m] \in {r} => m \in {r}
        BY <1>1, <1>2, <1>6, <2>1
      <3> QED BY <3>1, FromRoot
    <2> QED BY <1>2, <2>1
  <1>8. c # Nil => parent[c] = r /\ c # r
    BY <1>2, <1>6
  <1>9. Shape'
    <2> DEFINE H == Hung \ {r}
    <2>1. \A m \in H, s \in Side : link'[s][m] \in H \cup {Nil}
      BY <1>1, <1>3, <1>6
    <2>2. \A m \in Place \ H, s \in Side : link'[s][m] = NULL
      BY <1>1, <1>3, <1>6
    <2>3. root' \in H \cup {Nil} /\ (root' = Nil => H = {})
      BY <1>2, <1>7, <1>8
    <2>4. \A m \in H, s \in Side :
             link'[s][m] # Nil => link'[s][m] # root' /\ parent'[link'[s][m]] = m
      BY <1>1, <1>3, <1>6, <1>8
    <2>5. \A m \in H \ {root'} : parent'[m] \in H /\ \E s \in Side : link'[s][parent'[m]] = m
      <3> SUFFICES ASSUME NEW m \in H, m # c
                   PROVE  parent'[m] \in H /\ \E s \in Side : link'[s][parent'[m]] = m
        OBVIOUS
      <3>1. PICK s \in Side : parent[m] \in Hung /\ link[s][parent[m]] = m
        BY <1>6
      <3>2. parent[m] # r /\ parent'[m] = parent[m]
        BY <1>1, <1>2, <1>3, <3>1
      <3>3. link'[s][parent[m]] = m
        BY <1>1, <1>3, <3>1, <3>2
      <3> QED BY <3>1, <3>2, <3>3
    <2>6. \A m \in H : link'["left"][m] = link'["right"][m] => link'["left"][m] = Nil
      BY <1>1, <1>3, <1>6 DEF Side
    <2>7. Hung' = H
      BY <1>5
    <2> HIDE DEF H
    <2> QED BY <2>1, <2>2, <2>3, <2>4, <2>5, <2>6, <2>7, NewShape
  <1>10. Acyclic'
    <2>1. PICK rk \in [Node -> Nat] : Ranked(rk)
      BY DEF Acyclic
    <2>2. Ranked(rk)'
      BY <1>1, <1>3, <1>5, <2>1 DEF Ranked
    <2> QED BY <2>1, <2>2 DEF Acyclic
  <1> QED BY <1>4, <1>5, <1>9, <1>10

\* The new root may hold every key.
LEMMA RootGoneRanged ==
    ASSUME Pointers, Shape, root \in Removable, NEW r, r = root,
           NEW c, c = Orphan(root), root' = c, Hung' = Hung \ {r},
           link' = [d \in Side |-> [link[d] EXCEPT ![r] = NULL]],
           key' = [key EXCEPT ![r] = 0], key \in [Node -> Int],
           NEW rng \in [Node -> SUBSET Int], Ranged(rng)
    PROVE  \E rng2 \in [Node -> SUBSET Int] : Ranged(rng2)'
  <1>1. Hung \subseteq Node /\ Hung \subseteq Place /\ Nil \notin Hung /\ Nil \in Place
    BY HungFacts
  <1>2. r \in Hung /\ c \in Hung \cup {Nil} /\ \E d \in Side : link[d][r] = c
    BY OnlyChild
  <1>3. /\ \A s \in Side, m \in Place : link'[s][m] = IF m = r THEN NULL ELSE link[s][m]
        /\ \A m \in Hung \ {r} : key'[m] = key[m] /\ key[m] \in Int
    BY <1>1, <1>2 DEF Pointers
  <1>4. /\ \A m \in Hung : key[m] \in rng[m]
        /\ \A m \in Hung, s \in Side : link[s][m] # Nil =>
             \A k \in rng[link[s][m]] : k \in rng[m] /\ Ord(s, k, key[m])
    BY DEF Ranged
  <1>5. /\ \A m \in Hung, s \in Side : link[s][m] \in Hung \cup {Nil}
        /\ \A m \in Hung, s \in Side : link[s][m] # Nil => parent[link[s][m]] = m
    BY DEF Shape
  <1> DEFINE rng2 == [m \in Node |-> IF m = c THEN Int ELSE rng[m]]
  <1>6. rng2 \in [Node -> SUBSET Int]
    OBVIOUS
  <1>7. /\ c # Nil => rng2[c] = Int
        /\ \A m \in Hung : m # c => rng2[m] = rng[m]
        /\ \A m \in Hung : \A k \in rng[m] : k \in Int
    BY <1>1, <1>2
  <1> HIDE DEF rng2
  <1>8. ASSUME NEW m \in Hung \ {r}, NEW s \in Side, link'[s][m] # Nil, NEW k \in rng2[link'[s][m]]
        PROVE  k \in rng2[m] /\ Ord(s, k, key'[m])
    <2>1. PICK b : b = link[s][m]
      OBVIOUS
    <2>2. link'[s][m] = b /\ b \in Hung /\ b # Nil /\ parent[b] = m
      BY <1>1, <1>3, <1>5, <1>8, <2>1
    <2>3. b # c
      BY <1>1, <1>2, <1>5, <2>2
    <2>4. k \in rng[b]
      BY <1>7, <1>8, <2>2, <2>3
    <2>5. k \in rng[m] /\ Ord(s, k, key[m])
      BY <1>4, <2>1, <2>2, <2>4
    <2>6. k \in rng2[m]
      BY <1>1, <1>7, <2>5
    <2> QED BY <1>3, <2>5, <2>6
  <1>9. \A m \in Hung \ {r} : key'[m] \in rng2[m]
    BY <1>1, <1>3, <1>4, <1>7
  <1>10. root' # Nil => rng2[root'] = Int
    BY <1>7
  <1>11. Ranged(rng2)'
    BY <1>8, <1>9, <1>10 DEF Ranged
  <1> QED BY <1>6, <1>11

\* What Unhook does to every link, for a node n with parent u and only child c.
LEMMA UnhookLinks ==
    ASSUME Pointers, Shape, Acyclic, NEW n \in Removable, n # root, Unhook(n),
           NEW u, u = parent[n], NEW c, c = Orphan(n), NEW f, f = SideOf(n)
    PROVE  /\ n \in Hung /\ u \in Hung /\ f \in Side /\ link[f][u] = n /\ u # n
           /\ c \in Hung \cup {Nil} /\ c # n /\ c # u
           /\ \A d \in Side : link[d][n] \in {Nil, c}
           /\ \E d \in Side : link[d][n] = c
           /\ \A s \in Side, m \in Place :
                link'[s][m] = IF m = n THEN NULL ELSE IF m = u /\ s = f THEN c ELSE link[s][m]
           /\ \A m \in Place : parent'[m] = IF m = n THEN NULL ELSE IF m = c THEN u ELSE parent[m]
           /\ Pointers' /\ Hung' = Hung \ {n} /\ root' = root
  <1>1. Hung \subseteq Node /\ Hung \subseteq Place /\ Nil \notin Hung /\ Nil # NULL /\ Nil \in Place
    BY HungFacts
  <1>2. /\ n \in Hung /\ c \in Hung \cup {Nil} /\ \A d \in Side : link[d][n] \in {Nil, c}
        /\ \E d \in Side : link[d][n] = c
    BY OnlyChild
  <1>3. u \in Hung /\ f \in Side /\ link[f][u] = n
    BY <1>2, ParentSide
  <1>4. u # n /\ c # n /\ c # u
    <2>1. PICK rk \in [Node -> Nat] : Ranked(rk)
      BY DEF Acyclic
    <2>2. rk[u] < rk[n] /\ (c # Nil => rk[n] < rk[c])
      BY <1>1, <1>2, <1>3, <2>1 DEF Ranked
    <2>3. rk[u] \in Nat /\ rk[n] \in Nat /\ (c # Nil => rk[c] \in Nat)
      BY <1>1, <1>2, <1>3
    <2> QED BY <1>1, <1>2, <1>3, <2>2, <2>3
  <1>5. /\ link' = [d \in Side |->
                    [[d2 \in Side |-> [m \in Place |->
                        IF HangsOn(n, d2, m) THEN c ELSE link[d2][m]]][d] EXCEPT ![n] = NULL]]
        /\ parent' = [[parent EXCEPT ![c] = u] EXCEPT ![n] = NULL]
        /\ root' = root
    BY DEF Unhook, reset
  <1>6. \A s \in Side, m \in Place :
          link'[s][m] = IF m = n THEN NULL ELSE IF m = u /\ s = f THEN c ELSE link[s][m]
    <2>1. \A s \in Side : link'[s] = [[m \in Place |->
                                      IF HangsOn(n, s, m) THEN c ELSE link[s][m]] EXCEPT ![n] = NULL]
      BY <1>5
    <2>2. \A s \in Side, m \in Place :
            link'[s][m] = IF m = n THEN NULL ELSE IF HangsOn(n, s, m) THEN c ELSE link[s][m]
      BY <2>1
    <2> QED BY <2>2 DEF HangsOn
  <1>7. \A m \in Place : parent'[m] = IF m = n THEN NULL ELSE IF m = c THEN u ELSE parent[m]
    BY <1>1, <1>2, <1>4, <1>5 DEF Pointers
  <1>8. Pointers'
    <2>1. \A s \in Side, m \in Place : link'[s][m] \in Place \cup {NULL}
      BY <1>1, <1>2, <1>6 DEF Pointers
    <2>2. \A m \in Place : parent'[m] \in Place \cup {NULL}
      BY <1>1, <1>3, <1>7 DEF Pointers
    <2>3. link' \in [Side -> [Place -> Place \cup {NULL}]]
      <3>1. \A s \in Side : DOMAIN link'[s] = Place /\ link'[s] = [m \in Place |-> link'[s][m]]
        BY <1>5
      <3>2. \A s \in Side : link'[s] \in [Place -> Place \cup {NULL}]
        BY <2>1, <3>1
      <3>3. link' = [s \in Side |-> link'[s]]
        BY <1>5
      <3> QED BY <3>2, <3>3
    <2>4. parent' \in [Place -> Place \cup {NULL}]
      BY <1>5, <2>2 DEF Pointers
    <2> QED BY <2>3, <2>4 DEF Pointers
  <1>9. Hung' = Hung \ {n}
    <2>1. \A m \in Place : link'["left"][m] # NULL <=> m # n /\ link["left"][m] # NULL
      <3> SUFFICES ASSUME NEW m \in Place
                   PROVE  link'["left"][m] # NULL <=> m # n /\ link["left"][m] # NULL
        OBVIOUS
      <3>1. link["left"][m] # NULL <=> m \in Hung
        BY HungFacts DEF Side
      <3>2. c # NULL
        BY <1>1, <1>2, HungFacts
      <3> QED BY <1>3, <1>4, <1>6, <3>1, <3>2 DEF Side
    <2> QED BY <2>1 DEF Hung, Place
  <1> QED BY <1>2, <1>3, <1>4, <1>5, <1>6, <1>7, <1>8, <1>9

\* Taking a node out keeps the shape, and the ranges.
LEMMA UnhookShape ==
    ASSUME Pointers, Shape, Acyclic, NEW n \in Removable, n # root, Unhook(n)
    PROVE  Pointers' /\ Shape' /\ Acyclic' /\ Hung' = Hung \ {n}
  <1>1. PICK u : u = parent[n]
    OBVIOUS
  <1>2. PICK c : c = Orphan(n)
    OBVIOUS
  <1>3. PICK f : f = SideOf(n)
    OBVIOUS
  <1>4. /\ n \in Hung /\ u \in Hung /\ f \in Side /\ link[f][u] = n /\ u # n
        /\ c \in Hung \cup {Nil} /\ c # n /\ c # u
        /\ \A d \in Side : link[d][n] \in {Nil, c}
        /\ \E d \in Side : link[d][n] = c
        /\ \A s \in Side, m \in Place :
             link'[s][m] = IF m = n THEN NULL ELSE IF m = u /\ s = f THEN c ELSE link[s][m]
        /\ \A m \in Place : parent'[m] = IF m = n THEN NULL ELSE IF m = c THEN u ELSE parent[m]
        /\ Pointers' /\ Hung' = Hung \ {n} /\ root' = root
    BY <1>1, <1>2, <1>3, UnhookLinks
  <1>5. Hung \subseteq Node /\ Hung \subseteq Place /\ Nil \notin Hung /\ Nil # NULL
    BY HungFacts
  <1>6. /\ \A m \in Hung, s \in Side : link[s][m] \in Hung \cup {Nil}
        /\ \A m \in Place \ Hung, s \in Side : link[s][m] = NULL
        /\ root \in Hung \cup {Nil} /\ (root = Nil => Hung = {})
        /\ \A m \in Hung, s \in Side :
             link[s][m] # Nil => link[s][m] # root /\ parent[link[s][m]] = m
        /\ \A m \in Hung \ {root} : parent[m] \in Hung /\ \E s \in Side : link[s][parent[m]] = m
        /\ \A m \in Hung : link["left"][m] = link["right"][m] => link["left"][m] = Nil
    BY DEF Shape
  <1>7. \A m \in Hung, s \in Side : link[s][m] = n => m = u /\ s = f
    BY <1>1, <1>3, <1>4, <1>5, <1>6, ParentSide
  <1>8. c # Nil => parent[c] = n /\ c # root /\ \A m \in Hung, s \in Side : link[s][m] = c => m = n
    BY <1>4, <1>5, <1>6
  <1>9. Shape'
    <2> DEFINE H == Hung \ {n}
    <2>1. \A m \in H, s \in Side : link'[s][m] \in H \cup {Nil}
      BY <1>4, <1>5, <1>6, <1>7
    <2>2. \A m \in Place \ H, s \in Side : link'[s][m] = NULL
      BY <1>4, <1>5, <1>6
    <2>3. root' \in H \cup {Nil} /\ (root' = Nil => H = {})
      BY <1>4, <1>6
    <2>4. \A m \in H, s \in Side :
             link'[s][m] # Nil => link'[s][m] # root' /\ parent'[link'[s][m]] = m
      <3> SUFFICES ASSUME NEW m \in H, NEW s \in Side, link'[s][m] # Nil
                   PROVE  link'[s][m] # root' /\ parent'[link'[s][m]] = m
        OBVIOUS
      <3>1. CASE m = u /\ s = f
        BY <1>4, <1>5, <1>8, <3>1
      <3>2. CASE ~(m = u /\ s = f)
        <4>1. link'[s][m] = link[s][m]
          BY <1>4, <1>5, <3>2
        <4>2. link[s][m] \in Hung /\ link[s][m] # root /\ parent[link[s][m]] = m
          BY <1>6, <4>1
        <4>3. link[s][m] # n /\ link[s][m] # c
          BY <1>5, <1>7, <1>8, <3>2, <4>2
        <4> QED BY <1>4, <1>5, <4>1, <4>2, <4>3
      <3> QED BY <3>1, <3>2
    <2>5. \A m \in H \ {root'} : parent'[m] \in H /\ \E s \in Side : link'[s][parent'[m]] = m
      <3> SUFFICES ASSUME NEW m \in H, m # root
                   PROVE  parent'[m] \in H /\ \E s \in Side : link'[s][parent'[m]] = m
        BY <1>4
      <3>1. CASE m = c
        <4>1. parent'[m] = u /\ link'[f][u] = c
          BY <1>4, <1>5, <3>1
        <4> QED BY <1>4, <3>1, <4>1
      <3>2. CASE m # c
        <4>1. PICK s \in Side : parent[m] \in Hung /\ link[s][parent[m]] = m
          BY <1>6
        <4>2. parent[m] # n /\ parent'[m] = parent[m]
          BY <1>4, <1>5, <3>2, <4>1
        <4>3. link'[s][parent[m]] = m
          BY <1>4, <1>5, <4>1, <4>2
        <4> QED BY <4>1, <4>2, <4>3
      <3> QED BY <3>1, <3>2
    <2>6. \A m \in H : link'["left"][m] = link'["right"][m] => link'["left"][m] = Nil
      <3> SUFFICES ASSUME NEW m \in H, link'["left"][m] = link'["right"][m], link'["left"][m] # Nil
                   PROVE  FALSE
        OBVIOUS
      <3>1. CASE m = u
        <4>1. c # Nil /\ \E s \in Side : link[s][u] = c
          BY <1>4, <1>5, <3>1 DEF Side
        <4> QED BY <1>4, <1>8, <4>1
      <3>2. CASE m # u
        BY <1>4, <1>5, <1>6, <3>2 DEF Side
      <3> QED BY <3>1, <3>2
    <2>7. Hung' = H
      BY <1>4
    <2> HIDE DEF H
    <2> QED BY <2>1, <2>2, <2>3, <2>4, <2>5, <2>6, <2>7, NewShape
  <1>10. Acyclic'
    <2>1. PICK rk \in [Node -> Nat] : Ranked(rk)
      BY DEF Acyclic
    <2>2. \A m \in Hung, s \in Side : link[s][m] # Nil => rk[m] < rk[link[s][m]]
      BY <2>1 DEF Ranked
    <2>3. ASSUME NEW m \in Hung \ {n}, NEW s \in Side, link'[s][m] # Nil
          PROVE  rk[m] < rk[link'[s][m]]
      <3>1. CASE m = u /\ s = f
        <4>1. link'[s][m] = c /\ c \in Hung /\ n \in Hung
          BY <1>4, <1>5, <2>3, <3>1
        <4>2. rk[u] < rk[n] /\ rk[n] < rk[c]
          BY <1>4, <1>5, <2>2, <4>1
        <4>3. rk[u] \in Nat /\ rk[n] \in Nat /\ rk[c] \in Nat
          BY <1>4, <1>5, <4>1
        <4> QED BY <3>1, <4>1, <4>2, <4>3
      <3>2. CASE ~(m = u /\ s = f)
        <4>1. link'[s][m] = link[s][m]
          BY <1>4, <1>5, <3>2
        <4> QED BY <2>2, <2>3, <4>1
      <3> QED BY <3>1, <3>2
    <2>4. Ranked(rk)'
      BY <1>4, <2>3 DEF Ranked
    <2> QED BY <2>1, <2>4 DEF Acyclic
  <1> QED BY <1>4, <1>9, <1>10

\* The child that moves up is in the range of the node it replaces.
LEMMA UnhookRanged ==
    ASSUME Pointers, Shape, Acyclic, NEW n \in Removable, n # root, Unhook(n),
           key \in [Node -> Int], NEW rng, Ranged(rng)
    PROVE  Ranged(rng)'
  <1>1. PICK u : u = parent[n]
    OBVIOUS
  <1>2. PICK c : c = Orphan(n)
    OBVIOUS
  <1>3. PICK f : f = SideOf(n)
    OBVIOUS
  <1>4. /\ n \in Hung /\ u \in Hung /\ f \in Side /\ link[f][u] = n /\ u # n
        /\ c \in Hung \cup {Nil} /\ c # n /\ c # u
        /\ \E d \in Side : link[d][n] = c
        /\ \A s \in Side, m \in Place :
             link'[s][m] = IF m = n THEN NULL ELSE IF m = u /\ s = f THEN c ELSE link[s][m]
        /\ Hung' = Hung \ {n} /\ root' = root
    BY <1>1, <1>2, <1>3, UnhookLinks
  <1>5. Hung \subseteq Node /\ Hung \subseteq Place /\ Nil \notin Hung
    BY HungFacts
  <1>6. \A m \in Hung \ {n} : key'[m] = key[m]
    BY <1>5 DEF Unhook, reset
  <1>7. /\ \A m \in Hung : key[m] \in rng[m]
        /\ \A m \in Hung, s \in Side : link[s][m] # Nil =>
             \A k \in rng[link[s][m]] : k \in rng[m] /\ Ord(s, k, key[m])
        /\ root # Nil => rng[root] = Int
    BY DEF Ranged
  <1>8. ASSUME NEW m \in Hung \ {n}, NEW s \in Side, link'[s][m] # Nil, NEW k \in rng[link'[s][m]]
        PROVE  k \in rng[m] /\ Ord(s, k, key'[m])
    <2>1. CASE m = u /\ s = f
      <3>1. link'[s][m] = c /\ c # Nil
        BY <1>4, <1>5, <1>8, <2>1
      <3>2. k \in rng[n]
        BY <1>4, <1>7, <1>8, <3>1
      <3>3. k \in rng[u] /\ Ord(f, k, key[u])
        BY <1>4, <1>5, <1>7, <3>2
      <3> QED BY <1>4, <1>6, <2>1, <3>3
    <2>2. CASE ~(m = u /\ s = f)
      <3>1. link'[s][m] = link[s][m]
        BY <1>4, <1>5, <2>2
      <3> QED BY <1>6, <1>7, <1>8, <3>1
    <2> QED BY <2>1, <2>2
  <1>9. \A m \in Hung \ {n} : key'[m] \in rng[m]
    BY <1>6, <1>7
  <1> QED BY <1>4, <1>7, <1>8, <1>9 DEF Ranged

------------------------------------------------------------------------------
\* The number of black nodes from n down to a sentinel is bh[n]; in remove the
\* side of its parent on which at hangs is one short.
Black(n) == IF n \in red THEN 0 ELSE 1

Lack(n, d) == IF pc = "remove" /\ HangsOn(at, d, n) THEN 1 ELSE 0

Balanced(bh) ==
    /\ bh[Nil] = 0
    /\ \A n \in Hung, d \in Side : bh[n] = bh[link[d][n]] + Black(n) + Lack(n, d)

\* The balance after a step.
LEMMA NewBalanced ==
    ASSUME NEW bh, bh[Nil] = 0, NEW H, Hung' = H,
           \A m \in H, s \in Side : bh[m] = bh[link'[s][m]] + Black(m)' + Lack(m, s)'
    PROVE  Balanced(bh)'
  BY DEF Balanced

\* A rotation at n: t is its child on side e, i between the two, o on the outside
\* of t and c on the outside of n.
Around(d, e, n, t, i, o, c) ==
    /\ d \in Side /\ e \in Side /\ e # d /\ \A s \in Side : s = d \/ s = e
    /\ n \in Hung /\ t \in Hung /\ i \in Hung \cup {Nil} /\ o \in Hung \cup {Nil} /\ c \in Hung \cup {Nil}
    /\ t # n /\ i # n /\ i # t /\ o # n /\ o # t /\ c # n /\ c # t
    /\ (i = o => i = Nil) /\ (i = c => i = Nil) /\ (o = c => o = Nil)
    /\ t # root /\ i # root /\ o # root /\ c # root /\ parent[t] = n
    /\ (i # Nil => parent[i] = t) /\ (o # Nil => parent[o] = t) /\ (c # Nil => parent[c] = n)
    /\ n # root => parent[n] \in Hung /\ parent[n] \notin {n, t, i, o, c}
    /\ link[e][n] = t /\ link[d][n] = c /\ link[d][t] = i /\ link[e][t] = o

\* Which node is below which after it.
Turned(d, e, n, t, i, o, c) ==
    /\ link'[e][n] = i /\ link'[d][n] = c /\ link'[d][t] = n /\ link'[e][t] = o
    /\ root' = IF n = root THEN t ELSE root
    /\ parent'[n] = t /\ parent'[t] = parent[n]
    /\ Hung' = Hung

\* What it leaves alone, but for the link that n hung on.
Kept(n, t, i, o, c) ==
    /\ \A m \in Place \ {n, t} : m # i \/ i = Nil => parent'[m] = parent[m]
    /\ \A m \in Hung \ {n, t}, s \in Side : HangsOn(n, s, m) => link'[s][m] = t /\ link[s][m] = n
    /\ \A m \in Hung \ {n, t}, s \in Side : ~HangsOn(n, s, m) =>
         /\ link'[s][m] = link[s][m] /\ link[s][m] \notin {n, t}
         /\ link[s][m] \in {i, o, c} => link[s][m] = Nil

\* The nodes around a node with a child are as a rotation needs them.
LEMMA RotateAround ==
    ASSUME Pointers, Shape, Acyclic, NEW d \in Side, NEW e, e = Other(d), NEW n \in Hung,
           NEW t, t = link[e][n], t # Nil,
           NEW i, i = link[d][t], NEW o, o = link[e][t], NEW c, c = link[d][n]
    PROVE  Around(d, e, n, t, i, o, c)
  <1>1. e \in Side /\ e # d /\ \A s \in Side : s = d \/ s = e
    BY Sides
  <1>2. PICK u : u = parent[n]
    OBVIOUS
  <1>3. PICK f : f = SideOf(n)
    OBVIOUS
  <1>4. /\ t \in Hung /\ t # n /\ t # root /\ parent[t] = n
        /\ i \in Hung \cup {Nil} /\ i # n /\ i # t
        /\ n # root => u \in Hung /\ u \notin {n, t, i}
    BY <1>1, <1>2, Apart
  <1>5. o \in Hung \cup {Nil} /\ o # n /\ o # t /\ (n # root => u # o)
    BY <1>1, <1>2, Apart
  <1>6. Hung \subseteq Node /\ Hung \subseteq Place /\ Nil \notin Hung
    BY HungFacts
  <1>7. c \in Hung \cup {Nil} /\ c # n /\ c # t /\ (n # root => u # c)
    <2>1. PICK rk \in [Node -> Nat] : Ranked(rk)
      BY DEF Acyclic
    <2>2. c \in Hung \cup {Nil}
      BY DEF Shape
    <2>3. c # Nil => rk[n] < rk[c] /\ rk[n] \in Nat /\ rk[c] \in Nat
      BY <1>6, <2>1, <2>2 DEF Ranked
    <2>4. n # root => f \in Side /\ link[f][u] = n
      BY <1>2, <1>3, ParentSide
    <2>5. n # root => rk[u] < rk[n] /\ rk[u] \in Nat /\ rk[n] \in Nat
      BY <1>4, <1>6, <2>1, <2>4 DEF Ranked
    <2>6. c # t
      BY <1>1, ChildSide
    <2> QED BY <1>4, <1>6, <2>2, <2>3, <2>5, <2>6
  <1>8. (i # Nil => parent[i] = t) /\ (o # Nil => parent[o] = t) /\ (c # Nil => parent[c] = n)
    BY <1>1, <1>4 DEF Shape
  <1>9. i = o => i = Nil
    BY <1>1, <1>4, ChildSide
  <1>10. (i = c => i = Nil) /\ (o = c => o = Nil)
    BY <1>4, <1>8
  <1>11. root # Nil
    BY DEF Shape
  <1>12. (i # Nil => i # root) /\ (o # Nil => o # root) /\ (c # Nil => c # root)
    BY <1>1, <1>4 DEF Shape
  <1> QED BY <1>1, <1>2, <1>4, <1>5, <1>7, <1>8, <1>9, <1>10, <1>11, <1>12 DEF Around

\* A rotation does that, and no more.
LEMMA RotatePairs ==
    ASSUME Pointers, Shape, Acyclic, NEW d \in Side, NEW e, e = Other(d), NEW n \in Hung,
           NEW t, t = link[e][n], t # Nil, Rotate(d, n),
           NEW i, i = link[d][t], NEW o, o = link[e][t], NEW c, c = link[d][n]
    PROVE  /\ Around(d, e, n, t, i, o, c)
           /\ Turned(d, e, n, t, i, o, c)
           /\ Kept(n, t, i, o, c)
  <1>1. Around(d, e, n, t, i, o, c)
    BY RotateAround
  <1>2. PICK u : u = parent[n]
    OBVIOUS
  <1>3. PICK f : f = SideOf(n)
    OBVIOUS
  <1>4. Hung \subseteq Node /\ Hung \subseteq Place /\ Nil \notin Hung
    BY HungFacts
  <1>5. /\ root' = IF n = root THEN t ELSE root
        /\ \A s \in Side, m \in Place :
              link'[s][m] = IF HangsOn(n, s, m) THEN t
                            ELSE IF m = n /\ s = e THEN i
                            ELSE IF m = t /\ s = d THEN n ELSE link[s][m]
        /\ \A m \in Place :
              parent'[m] = IF m = n THEN t ELSE IF m = t THEN parent[n]
                           ELSE IF m = i /\ i # Nil THEN n ELSE parent[m]
        /\ Hung' = Hung
    BY RotateLinks
  <1>6. \A s \in Side, m \in Place : HangsOn(n, s, m) <=> n # root /\ m = u /\ s = f
    BY <1>2, <1>3 DEF HangsOn
  <1>7. n # root => u \notin {n, t}
    BY <1>1, <1>2 DEF Around
  <1>8. link'[e][n] = i /\ link'[d][n] = c /\ link'[d][t] = n /\ link'[e][t] = o
    BY <1>1, <1>4, <1>5, <1>6, <1>7 DEF Around
  <1>9. Turned(d, e, n, t, i, o, c)
    BY <1>1, <1>4, <1>5, <1>8 DEF Turned, Around
  <1>10. \A m \in Place \ {n, t} : m # i \/ i = Nil => parent'[m] = parent[m]
    BY <1>5
  <1>11. ASSUME NEW m \in Hung \ {n, t}, NEW s \in Side, HangsOn(n, s, m)
         PROVE  link'[s][m] = t /\ link[s][m] = n
    BY <1>2, <1>3, <1>4, <1>5, <1>6, <1>11, ParentSide
  <1>12. ASSUME NEW m \in Hung \ {n, t}, NEW s \in Side, ~HangsOn(n, s, m)
         PROVE  /\ link'[s][m] = link[s][m] /\ link[s][m] \notin {n, t}
                /\ link[s][m] \in {i, o, c} => link[s][m] = Nil
    <2>1. link'[s][m] = link[s][m]
      BY <1>4, <1>5, <1>12
    <2>2. link[s][m] # Nil => link[s][m] # root /\ parent[link[s][m]] = m /\ link[s][m] \in Hung
      BY DEF Shape
    <2>3. link[s][m] # n
      BY <1>2, <1>3, <1>4, <1>6, <1>12, <2>2, ParentSide
    <2>4. link[s][m] # t
      BY <1>1, <1>4, <2>2 DEF Around
    <2>5. link[s][m] \in {i, o, c} => link[s][m] = Nil
      BY <1>1, <2>2 DEF Around
    <2> QED BY <2>1, <2>3, <2>4, <2>5
  <1>13. Kept(n, t, i, o, c)
    BY <1>10, <1>11, <1>12 DEF Kept
  <1> QED BY <1>1, <1>9, <1>13

\* The balance of the nodes a rotation moves, before it by bh and after it by bh2.
Rebalanced(d, e, n, t, i, o, c, bh, bh2) ==
    /\ bh2[Nil] = 0 /\ bh2[t] = bh[n]
    /\ \A m \in Hung \ {n, t, o} : bh2[m] = bh[m]
    /\ \A m \in Hung \ {n, t, o}, s \in Side : Black(m)' = Black(m) /\ Lack(m, s)' = Lack(m, s)
    /\ o # Nil => \A s \in Side : bh2[o] = bh[link[s][o]] + Black(o)' + Lack(o, s)'
    /\ bh2[n] = bh[c] + Black(n)' + Lack(n, d)'
    /\ bh2[n] = bh[i] + Black(n)' + Lack(n, e)'
    /\ bh2[t] = bh2[n] + Black(t)' + Lack(t, d)'
    /\ bh2[t] = bh2[o] + Black(t)' + Lack(t, e)'

\* The balance after a rotation, from the balance of the nodes it moves.
LEMMA RotateBalanced ==
    ASSUME NEW d, NEW e, NEW n, NEW t, NEW i, NEW o, NEW c,
           Around(d, e, n, t, i, o, c), Turned(d, e, n, t, i, o, c), Kept(n, t, i, o, c),
           Hung \subseteq Place, Nil \notin Hung,
           \A m \in Hung, s \in Side : link[s][m] \in Hung \cup {Nil},
           NEW bh, Balanced(bh), NEW bh2, Rebalanced(d, e, n, t, i, o, c, bh, bh2)
    PROVE  Balanced(bh2)'
  <1>1. /\ bh2[Nil] = 0 /\ bh2[t] = bh[n]
        /\ \A m \in Hung \ {n, t, o} : bh2[m] = bh[m]
        /\ \A m \in Hung \ {n, t, o}, s \in Side : Black(m)' = Black(m) /\ Lack(m, s)' = Lack(m, s)
        /\ o # Nil => \A s \in Side : bh2[o] = bh[link[s][o]] + Black(o)' + Lack(o, s)'
    BY DEF Rebalanced
  <1>2. /\ bh2[n] = bh[c] + Black(n)' + Lack(n, d)'
        /\ bh2[n] = bh[i] + Black(n)' + Lack(n, e)'
        /\ bh2[t] = bh2[n] + Black(t)' + Lack(t, d)'
        /\ bh2[t] = bh2[o] + Black(t)' + Lack(t, e)'
    BY DEF Rebalanced
  <1>3. bh[Nil] = 0 /\ \A m \in Hung, s \in Side : bh[m] = bh[link[s][m]] + Black(m) + Lack(m, s)
    BY DEF Balanced
  <1>4. \A m \in Hung \cup {Nil} : m \notin {n, t} /\ (m # o \/ m = Nil) => bh2[m] = bh[m]
    BY <1>3, <1>1
  <1>5. ASSUME NEW s \in Side
        PROVE  bh2[n] = bh2[link'[s][n]] + Black(n)' + Lack(n, s)'
    <2>1. bh2[i] = bh[i] /\ bh2[c] = bh[c]
      BY <1>4 DEF Around
    <2>2. CASE s = d
      <3>1. link'[s][n] = c
        BY <2>2 DEF Turned
      <3> QED BY <1>2, <2>1, <2>2, <3>1
    <2>3. CASE s = e
      <3>1. link'[s][n] = i
        BY <2>3 DEF Turned
      <3> QED BY <1>2, <2>1, <2>3, <3>1
    <2> QED BY <2>2, <2>3 DEF Around
  <1>6. ASSUME NEW s \in Side
        PROVE  bh2[t] = bh2[link'[s][t]] + Black(t)' + Lack(t, s)'
    <2>1. CASE s = d
      <3>1. link'[s][t] = n
        BY <2>1 DEF Turned
      <3> QED BY <1>2, <2>1, <3>1
    <2>2. CASE s = e
      <3>1. link'[s][t] = o
        BY <2>2 DEF Turned
      <3> QED BY <1>2, <2>2, <3>1
    <2> QED BY <2>1, <2>2 DEF Around
  <1>7. ASSUME NEW m \in Hung \ {n, t}, NEW s \in Side, HangsOn(n, s, m)
        PROVE  bh2[m] = bh2[link'[s][m]] + Black(m)' + Lack(m, s)'
    <2>1. link'[s][m] = t /\ link[s][m] = n
      BY <1>7 DEF Kept
    <2>2. m # o
      BY <1>7 DEF HangsOn, Around
    <2>3. bh2[m] = bh[m] /\ Black(m)' = Black(m) /\ Lack(m, s)' = Lack(m, s)
      BY <1>1, <2>2
    <2>4. bh[m] = bh[n] + Black(m) + Lack(m, s)
      BY <1>3, <2>1
    <2> QED BY <1>1, <2>1, <2>3, <2>4
  <1>8. ASSUME NEW m \in Hung \ {n, t}, NEW s \in Side, ~HangsOn(n, s, m)
        PROVE  bh2[m] = bh2[link'[s][m]] + Black(m)' + Lack(m, s)'
    <2>1. PICK b : b = link[s][m]
      OBVIOUS
    <2>2. link'[s][m] = b /\ b \notin {n, t} /\ (b \in {i, o, c} => b = Nil)
      BY <1>8, <2>1 DEF Kept
    <2>3. b \in Hung \cup {Nil}
      BY <2>1
    <2>4. bh2[b] = bh[b]
      BY <1>4, <2>2, <2>3
    <2>5. CASE m = o
      <3>1. o # Nil
        BY <2>5
      <3>2. bh2[o] = bh[b] + Black(o)' + Lack(o, s)'
        BY <1>1, <2>1, <2>5, <3>1
      <3> QED BY <2>2, <2>4, <2>5, <3>2
    <2>6. CASE m # o
      <3>1. bh2[m] = bh[m] /\ Black(m)' = Black(m) /\ Lack(m, s)' = Lack(m, s)
        BY <1>1, <2>6
      <3>2. bh[m] = bh[b] + Black(m) + Lack(m, s)
        BY <1>3, <2>1
      <3> QED BY <2>2, <2>4, <3>1, <3>2
    <2> QED BY <2>5, <2>6
  <1>9. \A m \in Hung, s \in Side : bh2[m] = bh2[link'[s][m]] + Black(m)' + Lack(m, s)'
    BY <1>5, <1>6, <1>7, <1>8
  <1>10. Hung' = Hung
    BY DEF Turned
  <1>11. PICK H : H = Hung
    OBVIOUS
  <1>12. \A m \in H, s \in Side : bh2[m] = bh2[link'[s][m]] + Black(m)' + Lack(m, s)'
    BY <1>9, <1>11
  <1>13. Hung' = H
    BY <1>10, <1>11
  <1> QED BY <1>12, <1>13, <1>1, NewBalanced

------------------------------------------------------------------------------
\* Every way down from a node has as many black nodes, but for the one that
\* remove is about to mend.
Even == \E bh \in [Place -> Nat] : Balanced(bh)

Store ==
    /\ red \subseteq Hung
    /\ key \in [Node -> Int]
    /\ pc \in {"rest", "descend", "insert", "remove", "min"}

\* A red node with a red child, or a red root, is where a loop is at work.
Colored ==
    /\ root \in red => pc = "insert" /\ at = root
    /\ \A n \in Hung, d \in Side : n \in red /\ link[d][n] \in red =>
         \/ pc = "insert" /\ link[d][n] = at
         \/ pc = "remove" /\ at \in {n, link[d][n]}

\* Where each loop is.
Job ==
    /\ pc = "descend" => at \in Hung /\ new \in Node \ Hung /\ key[new] \in Key
    /\ pc = "insert" => at \in red
    /\ pc = "remove" =>
         /\ root # Nil /\ at \in Hung \cup {Nil}
         /\ at # root => parent[at] \in Hung /\ link[SideOf(at)][parent[at]] = at
    /\ pc = "min" => at \in Hung

TreeInv == Pointers /\ Shape /\ Acyclic /\ Store /\ Colored /\ Job /\ Even

\* The shape depends on the pointers alone.
LEMMA SameShape ==
    ASSUME root' = root, link' = link, parent' = parent
    PROVE  /\ Hung' = Hung
           /\ Pointers /\ Shape /\ Acyclic => Pointers' /\ Shape' /\ Acyclic'
           /\ \A x, s, m : HangsOn(x, s, m)' <=> HangsOn(x, s, m)
           /\ \A x : SideOf(x)' = SideOf(x)
  <1>1. Hung' = Hung
    BY DEF Hung
  <1>2. Pointers => Pointers'
    BY DEF Pointers
  <1>3. Shape => Shape'
    BY <1>1 DEF Shape
  <1>4. Acyclic => Acyclic'
    BY <1>1 DEF Acyclic, Ranked
  <1>5. \A x : SideOf(x)' = SideOf(x)
    BY DEF SideOf
  <1>6. \A x, s, m : HangsOn(x, s, m)' <=> HangsOn(x, s, m)
    BY <1>5 DEF HangsOn
  <1> QED BY <1>1, <1>2, <1>3, <1>4, <1>5, <1>6

\* What a color counts.
LEMMA BlackIs ==
    ASSUME NEW n
    PROVE  /\ n \in red => Black(n) = 0
           /\ n \notin red => Black(n) = 1
           /\ Black(n) \in Nat
  BY DEF Black

\* No side is short outside remove, and in remove only the one at hangs on.
LEMMA LackIs ==
    ASSUME NEW n, NEW d
    PROVE  /\ pc # "remove" => Lack(n, d) = 0
           /\ at = root => Lack(n, d) = 0
           /\ n # parent[at] => Lack(n, d) = 0
           /\ d # SideOf(at) => Lack(n, d) = 0
           /\ pc = "remove" /\ at # root /\ n = parent[at] /\ d = SideOf(at) => Lack(n, d) = 1
  BY DEF Lack, HangsOn

\* The balance of a node of a balanced tree.
LEMMA BalanceAt ==
    ASSUME NEW bh, Balanced(bh), NEW n \in Hung, NEW d \in Side
    PROVE  bh[n] = bh[link[d][n]] + Black(n) + Lack(n, d)
  BY DEF Balanced

\* The nodes around the loop of insert.
LEMMA InsertAround ==
    ASSUME TreeInv, InsertLoop, NEW p, p = parent[at], NEW g, g = Grand, NEW f, f = SideOf(p),
           NEW y, y = Uncle, NEW b, b = SideOf(at)
    PROVE  /\ at \in Hung /\ p \in Hung /\ g \in Hung /\ y \in Hung \cup {Nil}
           /\ at \in red /\ p \in red /\ g \notin red
           /\ f \in Side /\ Other(f) \in Side /\ Other(f) # f /\ b \in Side
           /\ link[f][g] = p /\ link[b][p] = at /\ y = link[Other(f)][g]
           /\ at # Nil /\ p # Nil /\ g # Nil /\ at # root /\ p # root
           /\ at # p /\ p # g /\ at # g /\ y # p /\ y # at /\ y # g
           /\ y # Nil => parent[y] = g
  <1>1. at \in red /\ at \in Hung /\ at # root /\ p \in red
    BY DEF TreeInv, InsertLoop, Job, Store
  <1>2. p \in Hung /\ b \in Side /\ link[b][p] = at
    BY <1>1, ParentSide DEF TreeInv
  <1>3. p # root
    BY <1>1 DEF TreeInv, Colored, InsertLoop
  <1>4. g \in Hung /\ f \in Side /\ link[f][g] = p
    BY <1>2, <1>3, ParentSide DEF TreeInv, Grand
  <1>5. at # Nil /\ p # Nil /\ g # Nil
    BY <1>1, <1>2, <1>4, HungFacts DEF TreeInv
  <1>6. p # g /\ at # p /\ at # g
    BY <1>2, <1>4, <1>5, Apart DEF TreeInv
  <1>7. Other(f) \in Side /\ Other(f) # f
    BY <1>4, Sides
  <1>8. y = link[Other(f)][g]
    BY DEF Uncle
  <1>9. y \in Hung \cup {Nil} /\ (y # Nil => parent[y] = g) /\ parent[at] = p
    BY <1>4, <1>7, <1>8 DEF TreeInv, Shape
  <1>10. y # p
    BY <1>4, <1>5, <1>7, <1>8, ChildSide DEF TreeInv
  <1>11. y # at
    BY <1>5, <1>6, <1>9
  <1>12. y # g
    <2>1. PICK rk \in [Node -> Nat] : Ranked(rk)
      BY DEF TreeInv, Acyclic
    <2>2. g \in Node
      BY <1>4, HungFacts DEF TreeInv
    <2>3. y = g => rk[g] < rk[g] /\ rk[g] \in Nat
      BY <1>4, <1>5, <1>7, <1>8, <2>1, <2>2 DEF Ranked
    <2> QED BY <2>3
  <1>13. g \notin red
    BY <1>1, <1>4, <1>6 DEF TreeInv, Colored, InsertLoop
  <1> QED BY <1>1, <1>2, <1>3, <1>4, <1>5, <1>6, <1>7, <1>8, <1>9, <1>10, <1>11, <1>12, <1>13

\* The nodes around the loop of remove: at has a sibling, for it is short.
LEMMA RemoveAround ==
    ASSUME TreeInv, RemoveLoop, NEW u, u = parent[at], NEW f, f = SideOf(at),
           NEW w, w = Sibling, NEW bh \in [Place -> Nat], Balanced(bh)
    PROVE  /\ u \in Hung /\ f \in Side /\ Other(f) \in Side /\ Other(f) # f
           /\ at \in Hung \cup {Nil} /\ at # root
           /\ link[f][u] = at /\ link[Other(f)][u] = w
           /\ w \in Hung /\ w # Nil /\ w # root /\ w # at /\ parent[w] = u /\ u # w /\ u # Nil
           /\ bh[at] \in Nat /\ bh[w] = bh[at] + 1 /\ bh[u] = bh[at] + 1 + Black(u)
           /\ \A m \in Hung, s \in Side : ~(m = u /\ s = f) => Lack(m, s) = 0
           /\ Lack(u, f) = 1
           /\ \A m \in Hung, s \in Side : ~(m \in red /\ link[s][m] \in red)
           /\ root \notin red
  <1>1. pc = "remove" /\ at # root /\ at \notin red
    BY DEF RemoveLoop
  <1>2. at \in Hung \cup {Nil} /\ u \in Hung /\ link[f][u] = at
    BY <1>1 DEF TreeInv, Job
  <1>3. f \in Side
    BY DEF SideOf, Side
  <1>4. Other(f) \in Side /\ Other(f) # f
    BY <1>3, Sides
  <1>5. link[Other(f)][u] = w
    BY DEF Sibling
  <1>6. Lack(u, f) = 1 /\ Lack(u, Other(f)) = 0
        /\ \A m \in Hung, s \in Side : ~(m = u /\ s = f) => Lack(m, s) = 0
    BY <1>1, <1>4, LackIs
  <1>7. w \in Hung \cup {Nil}
    BY <1>2, <1>4, <1>5 DEF TreeInv, Shape
  <1>8. u \in Place /\ at \in Place /\ w \in Place /\ u # Nil
    BY <1>2, <1>7, HungFacts DEF TreeInv, Place
  <1>9. bh[at] \in Nat /\ bh[w] \in Nat /\ bh[u] \in Nat /\ Black(u) \in Nat
    BY <1>8, BlackIs
  <1>10. bh[u] = bh[at] + Black(u) + 1
    BY <1>2, <1>3, <1>6, BalanceAt
  <1>11. bh[u] = bh[w] + Black(u) + 0
    BY <1>2, <1>4, <1>5, <1>6, BalanceAt
  <1>12. bh[w] = bh[at] + 1 /\ bh[u] = bh[at] + 1 + Black(u)
    BY <1>9, <1>10, <1>11
  <1>13. w # Nil
    <2>1. bh[Nil] = 0
      BY DEF Balanced
    <2> QED BY <1>9, <1>12, <2>1
  <1>14. w \in Hung /\ w # root /\ parent[w] = u
    BY <1>2, <1>4, <1>5, <1>7, <1>13 DEF TreeInv, Shape
  <1>15. w # at
    BY <1>2, <1>3, <1>4, <1>5, <1>13, <1>14, ChildSide, Sides DEF TreeInv
  <1>16. u # w
    BY <1>2, <1>4, <1>5, <1>13, Apart DEF TreeInv
  <1>17. \A m \in Hung, s \in Side : ~(m \in red /\ link[s][m] \in red)
    BY <1>1 DEF TreeInv, Colored
  <1>18. root \notin red
    BY <1>1 DEF TreeInv, Colored
  <1> QED BY <1>1, <1>2, <1>3, <1>4, <1>5, <1>6, <1>9, <1>12, <1>13, <1>14, <1>15, <1>16, <1>17, <1>18, <1>8

\* bh2 is bh but for its values x at a and y at b.
Changed(bh2, bh, a, x, b, y) ==
    /\ bh2 \in [Place -> Nat]
    /\ bh2[a] = x /\ bh2[b] = y
    /\ \A m \in Place \ {a, b} : bh2[m] = bh[m]

\* A count may be changed at two places.
LEMMA Adjust ==
    ASSUME NEW bh \in [Place -> Nat], NEW a \in Place, NEW b \in Place, NEW x \in Nat, NEW y \in Nat,
           a = b => x = y
    PROVE  \E bh2 : Changed(bh2, bh, a, x, b, y)
  <1> DEFINE f == [m \in Place |-> IF m = a THEN x ELSE IF m = b THEN y ELSE bh[m]]
  <1>1. f \in [Place -> Nat] /\ f[a] = x /\ f[b] = y /\ \A m \in Place \ {a, b} : f[m] = bh[m]
    OBVIOUS
  <1>2. Changed(f, bh, a, x, b, y)
    BY <1>1 DEF Changed
  <1> QED BY <1>2

\* The balance when the links stay: every node is checked by itself.
LEMMA SameLinks ==
    ASSUME link' = link, Hung' = Hung, NEW bh, bh[Nil] = 0,
           \A m \in Hung, s \in Side : bh[m] = bh[link[s][m]] + Black(m)' + Lack(m, s)'
    PROVE  Balanced(bh)'
  BY DEF Balanced

\* The steps that recolor, first in insert.
LEMMA InsertRecolorInv ==
    ASSUME TreeInv, InsertRecolor
    PROVE  TreeInv'
  <1>1. PICK p : p = parent[at]
    OBVIOUS
  <1>2. PICK g : g = Grand
    OBVIOUS
  <1>3. PICK f : f = SideOf(p)
    OBVIOUS
  <1>4. PICK y : y = Uncle
    OBVIOUS
  <1>5. /\ InsertLoop /\ y \in red /\ at' = g
        /\ red' = (red \ {p, y}) \cup {g}
        /\ UNCHANGED <<root, link, parent, key, first, pc, new>>
    BY <1>1, <1>2, <1>4 DEF InsertRecolor
  <1>6. /\ at \in Hung /\ p \in Hung /\ g \in Hung /\ y \in Hung \cup {Nil}
        /\ at \in red /\ p \in red /\ g \notin red
        /\ f \in Side /\ Other(f) \in Side /\ Other(f) # f
        /\ link[f][g] = p /\ y = link[Other(f)][g]
        /\ at # root /\ p # root /\ at # p /\ p # g /\ at # g /\ y # p /\ y # at /\ y # g
        /\ y # Nil => parent[y] = g
    BY <1>1, <1>2, <1>3, <1>4, <1>5, InsertAround
  <1>7. Hung \subseteq Node /\ Hung \subseteq Place /\ Nil \notin Hung /\ Nil \in Place
    BY HungFacts DEF TreeInv
  <1>8. y \in Hung /\ y # Nil
    BY <1>5, <1>7 DEF TreeInv, Store
  <1>9. Pointers' /\ Shape' /\ Acyclic' /\ Hung' = Hung
    BY <1>5, SameShape DEF TreeInv
  <1>10. \A m \in Hung, s \in Side : link[s][m] # Nil => link[s][m] # root /\ parent[link[s][m]] = m
    BY DEF TreeInv, Shape
  <1>11. Even'
    <2>1. PICK bh \in [Place -> Nat] : Balanced(bh)
      BY DEF TreeInv, Even
    <2>2. bh[p] + 1 \in Nat /\ bh[y] + 1 \in Nat /\ p \in Place /\ y \in Place /\ p # y
      BY <1>6, <1>7, <1>8
    <2>3. PICK bh2 : Changed(bh2, bh, p, bh[p] + 1, y, bh[y] + 1)
      BY <2>2, Adjust
    <2>4. /\ bh2 \in [Place -> Nat] /\ bh2[p] = bh[p] + 1 /\ bh2[y] = bh[y] + 1
          /\ \A m \in Place \ {p, y} : bh2[m] = bh[m]
      BY <2>3 DEF Changed
    <2>5. bh2[Nil] = 0
      BY <1>6, <1>7, <1>8, <2>1, <2>4 DEF Balanced
    <2>6. \A m \in Hung, s \in Side : Lack(m, s) = 0 /\ Lack(m, s)' = 0
      BY <1>5 DEF InsertLoop, Lack
    <2>7. ASSUME NEW m \in Hung, NEW s \in Side
          PROVE  bh2[m] = bh2[link[s][m]] + Black(m)' + Lack(m, s)'
      <3>1. bh[m] = bh[link[s][m]] + Black(m) + 0
        BY <2>1, <2>6, BalanceAt
      <3>2. link[s][m] \in Place /\ bh[link[s][m]] \in Nat /\ bh[m] \in Nat
        BY <1>7 DEF TreeInv, Shape
      <3>3. CASE m = g
        <4>1. link[s][m] \in {p, y}
          BY <1>6, <3>3, Sides
        <4>2. Black(m)' = 0 /\ Black(m) = 1
          BY <1>5, <1>6, <3>3 DEF Black
        <4>3. bh2[m] = bh[m] /\ bh2[link[s][m]] = bh[link[s][m]] + 1
          BY <1>6, <1>7, <2>4, <3>3, <4>1
        <4> QED BY <2>6, <3>1, <3>2, <4>2, <4>3
      <3>4. CASE m # g
        <4>1. link[s][m] \notin {p, y}
          <5>1. parent[p] = g /\ parent[y] = g
            BY <1>6, <1>7, <1>8, <1>10
          <5> QED BY <1>6, <1>7, <1>8, <1>10, <3>4, <5>1
        <4>2. bh2[link[s][m]] = bh[link[s][m]]
          BY <2>4, <3>2, <4>1
        <4>3. CASE m \in {p, y}
          <5>1. Black(m)' = 1 /\ Black(m) = 0 /\ bh2[m] = bh[m] + 1
            BY <1>5, <1>6, <2>4, <3>4, <4>3 DEF Black
          <5> QED BY <2>6, <3>1, <3>2, <4>2, <5>1
        <4>4. CASE m \notin {p, y}
          <5>1. Black(m)' = Black(m) /\ bh2[m] = bh[m]
            BY <1>5, <1>7, <2>4, <3>4, <4>4 DEF Black
          <5> QED BY <2>6, <3>1, <3>2, <4>2, <5>1
        <4> QED BY <4>3, <4>4
      <3> QED BY <3>3, <3>4
    <2>8. Balanced(bh2)'
      BY <1>5, <1>9, <2>5, <2>7, SameLinks
    <2> QED BY <2>4, <2>8 DEF Even
  <1>12. Colored'
    <2>1. root \in red' => at' = root
      BY <1>5, <1>6 DEF TreeInv, Colored
    <2>2. ASSUME NEW m \in Hung, NEW s \in Side, m \in red', link[s][m] \in red'
          PROVE  link[s][m] = g
      <3>1. CASE m = g
        <4>1. link[s][m] \in {p, y}
          BY <1>6, <3>1, Sides
        <4> QED BY <1>5, <1>6, <2>2, <4>1
      <3>2. CASE m # g /\ link[s][m] # g
        <4>1. m \in red /\ link[s][m] \in red /\ m # p
          BY <1>5, <2>2, <3>2
        <4>2. link[s][m] = at
          BY <1>5, <4>1 DEF TreeInv, Colored, InsertLoop
        <4>3. parent[at] = m
          BY <1>6, <1>7, <1>10, <4>2
        <4> QED BY <1>1, <4>1, <4>3
      <3> QED BY <3>1, <3>2
    <2>3. pc' = "insert"
      BY <1>5 DEF InsertLoop
    <2> QED BY <1>5, <1>9, <2>1, <2>2, <2>3 DEF Colored
  <1>13. Store' /\ Job'
    BY <1>5, <1>6, <1>9 DEF TreeInv, Store, Job, InsertLoop
  <1> QED BY <1>9, <1>11, <1>12, <1>13 DEF TreeInv

\* The end of insert: the loop has mended the only red pair.
LEMMA InsertEndInv ==
    ASSUME TreeInv, InsertEnd
    PROVE  TreeInv'
  <1>1. /\ pc = "insert" /\ ~InsertLoop /\ red' = red \ {root} /\ pc' = "rest"
        /\ UNCHANGED <<root, link, parent, key>>
    BY DEF InsertEnd, Return
  <1>2. Hung \subseteq Node /\ Hung \subseteq Place /\ Nil \notin Hung /\ Nil \in Place
    BY HungFacts DEF TreeInv
  <1>3. Pointers' /\ Shape' /\ Acyclic' /\ Hung' = Hung
    BY <1>1, SameShape DEF TreeInv
  <1>4. /\ \A m \in Hung, s \in Side : link[s][m] # Nil => link[s][m] # root /\ parent[link[s][m]] = m
        /\ at \in Hung /\ root \in Hung
    BY <1>1 DEF TreeInv, Shape, Job, Store
  <1>5. Even'
    <2>1. PICK bh \in [Place -> Nat] : Balanced(bh)
      BY DEF TreeInv, Even
    <2>2. PICK k \in Nat : k = bh[root] + (IF root \in red THEN 1 ELSE 0)
      BY <1>2, <1>4
    <2>3. root \in Place
      BY <1>2, <1>4
    <2>4. PICK bh2 : Changed(bh2, bh, root, k, root, k)
      BY <2>3, Adjust
    <2>5. /\ bh2 \in [Place -> Nat] /\ bh2[root] = k /\ \A m \in Place \ {root} : bh2[m] = bh[m]
      BY <2>4 DEF Changed
    <2>6. bh2[Nil] = 0
      BY <1>2, <1>4, <2>1, <2>5 DEF Balanced
    <2>7. \A m \in Hung, s \in Side : Lack(m, s) = 0 /\ Lack(m, s)' = 0
      BY <1>1 DEF Lack
    <2>8. ASSUME NEW m \in Hung, NEW s \in Side
          PROVE  bh2[m] = bh2[link[s][m]] + Black(m)' + Lack(m, s)'
      <3>1. bh[m] = bh[link[s][m]] + Black(m) + 0
        BY <2>1, <2>7, BalanceAt
      <3>2. link[s][m] \in Place /\ bh[link[s][m]] \in Nat /\ bh[m] \in Nat /\ link[s][m] # root
        BY <1>2, <1>4 DEF TreeInv, Shape
      <3>3. bh2[link[s][m]] = bh[link[s][m]]
        BY <2>5, <3>2
      <3>4. CASE m = root /\ m \in red
        <4>1. bh2[m] = bh[m] + 1 /\ Black(m) = 0 /\ Black(m)' = 1
          BY <1>1, <2>2, <2>5, <3>4 DEF Black
        <4> QED BY <2>7, <3>1, <3>2, <3>3, <4>1
      <3>5. CASE m # root \/ m \notin red
        <4>1. bh2[m] = bh[m] /\ Black(m)' = Black(m)
          BY <1>1, <1>2, <2>2, <2>5, <3>2, <3>5 DEF Black
        <4> QED BY <2>7, <3>1, <3>2, <3>3, <4>1
      <3> QED BY <3>4, <3>5
    <2>9. Balanced(bh2)'
      BY <1>1, <1>3, <2>6, <2>8, SameLinks
    <2> QED BY <2>5, <2>9 DEF Even
  <1>6. Colored'
    <2>1. ASSUME NEW m \in Hung, NEW s \in Side, m \in red', link[s][m] \in red'
          PROVE  FALSE
      <3>1. link[s][m] = at
        BY <1>1, <2>1 DEF TreeInv, Colored
      <3>2. parent[at] = m /\ at # root
        BY <1>2, <1>4, <3>1
      <3> QED BY <1>1, <2>1, <3>2 DEF InsertLoop
    <2> QED BY <1>1, <1>3, <2>1 DEF Colored
  <1>7. Store' /\ Job'
    BY <1>1, <1>3 DEF TreeInv, Store, Job
  <1> QED BY <1>3, <1>5, <1>6, <1>7 DEF TreeInv

\* The step of remove that recolors: the lack moves up to the parent.
LEMMA RemoveRecolorInv ==
    ASSUME TreeInv, RemoveRecolor
    PROVE  TreeInv'
  <1>1. PICK u : u = parent[at]
    OBVIOUS
  <1>2. PICK f : f = SideOf(at)
    OBVIOUS
  <1>3. PICK w : w = Sibling
    OBVIOUS
  <1>4. PICK bh \in [Place -> Nat] : Balanced(bh)
    BY DEF TreeInv, Even
  <1>5. /\ RemoveLoop /\ w \notin red /\ link[f][w] \notin red /\ link[Other(f)][w] \notin red
        /\ at' = u /\ red' = red \cup {w} /\ pc' = "remove" /\ pc = "remove"
        /\ UNCHANGED <<root, link, parent, key>>
    BY <1>1, <1>2, <1>3 DEF RemoveRecolor, Near, Far, RemoveLoop
  <1>6. /\ u \in Hung /\ f \in Side /\ Other(f) \in Side /\ Other(f) # f
        /\ at \in Hung \cup {Nil} /\ at # root
        /\ link[f][u] = at /\ link[Other(f)][u] = w
        /\ w \in Hung /\ w # Nil /\ w # root /\ w # at /\ parent[w] = u /\ u # w /\ u # Nil
        /\ bh[at] \in Nat /\ bh[w] = bh[at] + 1 /\ bh[u] = bh[at] + 1 + Black(u)
        /\ \A m \in Hung, s \in Side : ~(m = u /\ s = f) => Lack(m, s) = 0
        /\ Lack(u, f) = 1
        /\ \A m \in Hung, s \in Side : ~(m \in red /\ link[s][m] \in red)
        /\ root \notin red
    BY <1>1, <1>2, <1>3, <1>4, <1>5, RemoveAround
  <1>7. Hung \subseteq Node /\ Hung \subseteq Place /\ Nil \notin Hung /\ Nil \in Place
    BY HungFacts DEF TreeInv
  <1>8. Pointers' /\ Shape' /\ Acyclic' /\ Hung' = Hung /\ \A x : SideOf(x)' = SideOf(x)
    BY <1>5, SameShape DEF TreeInv
  <1>9. \A m \in Hung, s \in Side : link[s][m] # Nil => link[s][m] # root /\ parent[link[s][m]] = m
    BY DEF TreeInv, Shape
  <1>10. u # root => parent[u] \in Hung /\ SideOf(u) \in Side /\ link[SideOf(u)][parent[u]] = u
    BY <1>6, ParentSide DEF TreeInv
  <1>11. Even'
    <2>1. /\ bh[at] + Black(u) \in Nat /\ bh[at] \in Nat /\ Black(u) \in Nat
          /\ u \in Place /\ w \in Place /\ u # w
      BY <1>6, <1>7, BlackIs
    <2>2. PICK bh2 : Changed(bh2, bh, u, bh[at] + Black(u), w, bh[at])
      BY <2>1, Adjust
    <2>3. /\ bh2 \in [Place -> Nat] /\ bh2[u] = bh[at] + Black(u) /\ bh2[w] = bh[at]
          /\ \A m \in Place \ {u, w} : bh2[m] = bh[m]
      BY <2>2 DEF Changed
    <2>4. bh2[Nil] = 0
      BY <1>4, <1>6, <1>7, <2>3 DEF Balanced
    <2>5. \A m, s : Lack(m, s)' = IF u # root /\ m = parent[u] /\ s = SideOf(u) THEN 1 ELSE 0
      BY <1>5, <1>8 DEF Lack, HangsOn
    <2>6. ASSUME NEW m \in Hung, NEW s \in Side
          PROVE  bh2[m] = bh2[link[s][m]] + Black(m)' + Lack(m, s)'
      <3>1. PICK b : b = link[s][m]
        OBVIOUS
      <3>2. /\ bh[m] = bh[b] + Black(m) + Lack(m, s) /\ b \in Place /\ b \in Hung \cup {Nil}
            /\ bh[b] \in Nat /\ bh[m] \in Nat /\ Black(m) \in Nat
            /\ b # Nil => b # root /\ parent[b] = m
        BY <1>4, <1>7, <1>9, <3>1, BalanceAt, BlackIs DEF TreeInv, Shape
      <3>3. CASE m = u
        <4>1. b \in {at, w} /\ (u # root => m # parent[u])
          <5>1. u # root => parent[u] # u
            BY <1>6, Apart DEF TreeInv
          <5> QED BY <1>6, <3>1, <3>3, <5>1, Sides
        <4>2. bh2[at] = bh[at]
          <5>1. at # u
            <6>1. at = Nil \/ (parent[at] = u /\ at # root)
              BY <1>6, <1>9
            <6>2. PICK rk \in [Node -> Nat] : Ranked(rk)
              BY DEF TreeInv, Acyclic
            <6>3. at # Nil => rk[u] < rk[at] /\ rk[u] \in Nat /\ rk[at] \in Nat
              BY <1>6, <1>7, <6>2 DEF Ranked
            <6> QED BY <1>6, <1>7, <6>3
          <5> QED BY <1>6, <1>7, <2>3, <5>1
        <4>3. Black(m)' = Black(m) /\ Lack(m, s)' = 0
          BY <1>5, <1>6, <2>5, <3>3, <4>1 DEF Black
        <4> QED BY <1>6, <2>1, <2>3, <3>1, <3>3, <4>1, <4>2, <4>3
      <3>4. CASE m = w
        <4>1. Black(m) = 1 /\ Black(m)' = 0 /\ Lack(m, s) = 0
          BY <1>5, <1>6, <3>4 DEF Black
        <4>2. Lack(m, s)' = 0
          <5>1. u # root => parent[u] # w
            BY <1>6, Apart DEF TreeInv
          <5> QED BY <2>5, <3>4, <5>1
        <4>3. b # u /\ b # w
          <5>1. b # Nil => parent[b] = w
            BY <3>2, <3>4
          <5>2. parent[w] = u
            BY <1>6
          <5>3. u # root => parent[u] # w
            BY <1>6, Apart DEF TreeInv
          <5> QED BY <1>6, <3>2, <5>1, <5>2, <5>3
        <4>4. bh2[b] = bh[b]
          BY <2>3, <3>2, <4>3
        <4> QED BY <1>6, <2>3, <3>1, <3>2, <3>4, <4>1, <4>2, <4>4
      <3>5. CASE m \notin {u, w}
        <4>1. Black(m)' = Black(m) /\ Lack(m, s) = 0 /\ bh2[m] = bh[m]
          BY <1>5, <1>6, <1>7, <2>3, <3>5 DEF Black
        <4>2. CASE b = u
          <5>1. u # root /\ m = parent[u] /\ s = SideOf(u)
            <6>1. u # root /\ m = parent[u] /\ link[s][parent[u]] = u
              BY <1>6, <3>1, <3>2, <4>2
            <6> QED BY <1>6, <6>1, ParentSide DEF TreeInv
          <5>2. Lack(m, s)' = 1
            BY <2>5, <5>1
          <5> QED BY <1>6, <2>1, <2>3, <3>1, <3>2, <4>1, <4>2, <5>2
        <4>3. CASE b # u
          <5>1. b # w
            BY <1>6, <3>2, <3>5
          <5>2. bh2[b] = bh[b]
            BY <2>3, <3>2, <4>3, <5>1
          <5>3. ~(u # root /\ m = parent[u] /\ s = SideOf(u))
            BY <1>10, <3>1, <4>3
          <5>4. Lack(m, s)' = 0
            BY <2>5, <5>3
          <5> QED BY <3>1, <3>2, <4>1, <5>2, <5>4
        <4> QED BY <4>2, <4>3
      <3> QED BY <3>3, <3>4, <3>5
    <2>7. Balanced(bh2)'
      BY <1>5, <1>8, <2>4, <2>6, SameLinks
    <2> QED BY <2>3, <2>7 DEF Even
  <1>12. Colored'
    <2>1. ASSUME NEW m \in Hung, NEW s \in Side, m \in red', link[s][m] \in red'
          PROVE  at' \in {m, link[s][m]}
      <3>1. CASE m = w
        <4>1. link[s][m] \notin red /\ link[s][m] # w
          <5>1. s = f \/ s = Other(f)
            BY <1>6, Sides
          <5>2. link[s][w] = w => parent[w] = w
            BY <1>6, <1>9
          <5> QED BY <1>5, <1>6, <3>1, <5>1, <5>2
        <4> QED BY <1>5, <2>1, <4>1
      <3>2. CASE link[s][m] = w
        BY <1>5, <1>6, <1>9, <3>2
      <3>3. CASE m # w /\ link[s][m] # w
        BY <1>5, <1>6, <2>1, <3>3
      <3> QED BY <3>1, <3>2, <3>3
    <2> QED BY <1>5, <1>6, <1>8, <2>1 DEF Colored
  <1>13. Store'
    BY <1>5, <1>6, <1>8 DEF TreeInv, Store
  <1>14. Job'
    <2>1. root # Nil
      BY <1>5 DEF TreeInv, Job
    <2> QED BY <1>5, <1>6, <1>8, <1>10, <2>1 DEF Job
  <1> QED BY <1>8, <1>11, <1>12, <1>13, <1>14 DEF TreeInv

\* The end of remove: a red node takes the black that is lacking.
LEMMA RemoveEndInv ==
    ASSUME TreeInv, RemoveEnd
    PROVE  TreeInv'
  <1>1. /\ pc = "remove" /\ (at = root \/ at \in red) /\ red' = red \ {at} /\ pc' = "rest"
        /\ UNCHANGED <<root, link, parent, key>>
    BY DEF RemoveEnd, RemoveLoop, Return
  <1>2. Hung \subseteq Node /\ Hung \subseteq Place /\ Nil \notin Hung /\ Nil \in Place
    BY HungFacts DEF TreeInv
  <1>3. Pointers' /\ Shape' /\ Acyclic' /\ Hung' = Hung
    BY <1>1, SameShape DEF TreeInv
  <1>4. root \in Hung /\ at \in Hung /\ root \notin red
    BY <1>1 DEF TreeInv, Shape, Job, Store, Colored
  <1>5. Even'
    <2>1. PICK bh \in [Place -> Nat] : Balanced(bh)
      BY DEF TreeInv, Even
    <2>2. PICK k \in Nat : k = bh[at] + (IF at \in red THEN 1 ELSE 0)
      BY <1>2, <1>4
    <2>3. at \in Place
      BY <1>2, <1>4
    <2>4. PICK bh2 : Changed(bh2, bh, at, k, at, k)
      BY <2>3, Adjust
    <2>5. /\ bh2 \in [Place -> Nat] /\ bh2[at] = k /\ \A m \in Place \ {at} : bh2[m] = bh[m]
      BY <2>4 DEF Changed
    <2>6. bh2[Nil] = 0
      BY <1>2, <1>4, <2>1, <2>5 DEF Balanced
    <2>7. ASSUME NEW m \in Hung, NEW s \in Side
          PROVE  bh2[m] = bh2[link[s][m]] + Black(m)' + Lack(m, s)'
      <3>1. PICK b : b = link[s][m]
        OBVIOUS
      <3>2. bh[m] = bh[b] + Black(m) + Lack(m, s)
        BY <2>1, <3>1, BalanceAt
      <3>3. b \in Place /\ bh[b] \in Nat /\ bh[m] \in Nat /\ (b # Nil => b # root /\ parent[b] = m)
        BY <1>2, <3>1 DEF TreeInv, Shape
      <3>4. Lack(m, s)' = 0
        BY <1>1 DEF Lack
      <3>5. Black(m)' = Black(m) + (IF m = at /\ m \in red THEN 1 ELSE 0)
        BY <1>1 DEF Black
      <3>6. bh2[m] = bh[m] + (IF m = at /\ m \in red THEN 1 ELSE 0)
        BY <1>2, <2>2, <2>5, <3>3
      <3>7. Lack(m, s) = IF b = at THEN 1 ELSE 0
        <4>1. at # root => parent[at] \in Hung /\ link[SideOf(at)][parent[at]] = at
          BY <1>1 DEF TreeInv, Job
        <4>2. CASE b = at
          <5>1. at # root /\ parent[at] = m /\ s = SideOf(at)
            <6>1. at # root /\ parent[at] = m /\ link[s][parent[at]] = at
              BY <1>2, <1>4, <3>1, <3>3, <4>2
            <6> QED BY <1>4, <6>1, ParentSide DEF TreeInv
          <5> QED BY <1>1, <4>2, <5>1, LackIs
        <4>3. CASE b # at
          BY <3>1, <4>1, <4>3 DEF Lack, HangsOn
        <4> QED BY <4>2, <4>3
      <3>8. b = at => at \in red
        BY <1>1, <1>2, <1>4, <3>3
      <3>9. bh2[b] = bh[b] + (IF b = at THEN 1 ELSE 0)
        BY <2>2, <2>5, <3>3, <3>8
      <3>10. Black(m) \in Nat
        BY BlackIs
      <3> QED BY <3>1, <3>2, <3>3, <3>4, <3>5, <3>6, <3>7, <3>9, <3>10
    <2>8. Balanced(bh2)'
      BY <1>1, <1>3, <2>6, <2>7, SameLinks
    <2> QED BY <2>5, <2>8 DEF Even
  <1>6. Colored'
    BY <1>1, <1>3, <1>4 DEF TreeInv, Colored
  <1>7. Store' /\ Job'
    BY <1>1, <1>3 DEF TreeInv, Store, Job
  <1> QED BY <1>3, <1>5, <1>6, <1>7 DEF TreeInv

\* The steps that only move the locals of an operation.
LEMMA WalkInv ==
    ASSUME TreeInv, UNCHANGED treeVars, pc # "remove", pc' # "remove", pc # "insert", Store', Job'
    PROVE  TreeInv'
  <1>1. root' = root /\ link' = link /\ parent' = parent /\ red' = red
    BY DEF treeVars
  <1>2. Pointers' /\ Shape' /\ Acyclic' /\ Hung' = Hung
    BY <1>1, SameShape DEF TreeInv
  <1>3. Colored'
    BY <1>1, <1>2 DEF TreeInv, Colored
  <1>4. PICK bh \in [Place -> Nat] : Balanced(bh)
    BY DEF TreeInv, Even
  <1>5. Balanced(bh)'
    BY <1>1, <1>2, <1>4 DEF Balanced, Black, Lack
  <1>6. Even'
    BY <1>5 DEF Even
  <1> QED BY <1>2, <1>3, <1>6 DEF TreeInv

\* They do not change the tree.
LEMMA MovesInv ==
    ASSUME TreeInv, InsertBegin \/ InsertDescend \/ MinBegin \/ MinDescend \/ MinEnd
    PROVE  TreeInv'
  <1>1. root # Nil => root \in Hung
    BY DEF TreeInv, Shape
  <1>2. UNCHANGED treeVars
    BY DEF InsertBegin, InsertDescend, MinBegin, MinDescend, MinEnd
  <1>3. Hung' = Hung
    BY <1>2, SameShape DEF treeVars
  <1>4. CASE InsertBegin
    <2>1. PICK n \in Node \ Hung, k \in Key : key' = [key EXCEPT ![n] = k] /\ new' = n
      BY <1>4 DEF InsertBegin
    <2>2. k \in Int
      BY TreeAssumption
    <2>3. Store'
      BY <1>2, <1>3, <1>4, <2>1, <2>2 DEF InsertBegin, Store, TreeInv, treeVars
    <2>4. key'[new'] \in Key
      BY <2>1 DEF TreeInv, Store
    <2>5. Job'
      BY <1>1, <1>3, <1>4, <2>1, <2>4 DEF InsertBegin, Job
    <2> QED BY <1>2, <1>4, <2>3, <2>5, WalkInv DEF InsertBegin
  <1>5. CASE InsertDescend
    <2>1. Toward \in Side
      BY DEF Toward, Side
    <2>2. at' \in Hung
      BY <1>5, <2>1 DEF InsertDescend, TreeInv, Shape, Job
    <2>3. Store' /\ Job'
      BY <1>2, <1>3, <1>5, <2>2 DEF InsertDescend, Store, Job, TreeInv, treeVars
    <2> QED BY <1>2, <1>5, <2>3, WalkInv DEF InsertDescend
  <1>6. CASE MinBegin
    <2>1. Store' /\ Job'
      BY <1>1, <1>2, <1>3, <1>6 DEF MinBegin, Store, Job, TreeInv, treeVars
    <2> QED BY <1>2, <1>6, <2>1, WalkInv DEF MinBegin
  <1>7. CASE MinDescend
    <2>1. at' \in Hung
      BY <1>7 DEF MinDescend, TreeInv, Shape, Job, Side
    <2>2. Store' /\ Job'
      BY <1>2, <1>3, <1>7, <2>1 DEF MinDescend, Store, Job, TreeInv, treeVars
    <2> QED BY <1>2, <1>7, <2>2, WalkInv DEF MinDescend
  <1>8. CASE MinEnd
    <2>1. Store' /\ Job'
      BY <1>1, <1>2, <1>3, <1>8 DEF MinEnd, Return, Store, Job, TreeInv, treeVars
    <2> QED BY <1>2, <1>8, <2>1, WalkInv DEF MinEnd, Return
  <1> QED BY <1>4, <1>5, <1>6, <1>7, <1>8

\* The first node is black, and the root.
LEMMA InsertRootInv ==
    ASSUME TreeInv, InsertRoot
    PROVE  TreeInv'
  <1>1. pc = "rest" /\ root = Nil /\ pc' = "rest"
    BY DEF InsertRoot
  <1>2. PICK n \in Node \ Hung, k \in Key :
          /\ key' = [key EXCEPT ![n] = k]
          /\ link' = [d \in Side |-> [link[d] EXCEPT ![n] = Nil]]
          /\ parent' = [parent EXCEPT ![n] = NULL]
          /\ red' = red \ {n}
          /\ root' = n
    BY DEF InsertRoot
  <1>3. k \in Int
    BY TreeAssumption
  <1>4. key' \in [Node -> Int]
    BY <1>2, <1>3 DEF TreeInv, Store
  <1>5. Pointers' /\ Shape' /\ Acyclic' /\ Hung = {} /\ Hung' = {n}
    BY <1>1, <1>2, <1>4, FirstShape DEF TreeInv
  <1>6. red' = {}
    BY <1>2, <1>5 DEF TreeInv, Store
  <1>7. n \in Place /\ Nil \in Place /\ n # Nil
    BY <1>2, TreeAssumption DEF Place
  <1>8. \A s \in Side : link'[s][n] = Nil
    BY <1>2, <1>7 DEF TreeInv, Pointers
  <1>9. Even'
    <2> DEFINE bh == [m \in Place |-> IF m = Nil THEN 0 ELSE 1]
    <2>1. bh \in [Place -> Nat] /\ bh[Nil] = 0 /\ bh[n] = 1
      BY <1>7
    <2> HIDE DEF bh
    <2>2. Black(n)' = 1 /\ \A s \in Side : Lack(n, s)' = 0
      BY <1>1, <1>6 DEF Black, Lack
    <2>3. Balanced(bh)'
      BY <1>5, <1>8, <2>1, <2>2 DEF Balanced
    <2> QED BY <2>1, <2>3 DEF Even
  <1>10. Store' /\ Job' /\ Colored'
    BY <1>1, <1>4, <1>6 DEF Store, Job, Colored
  <1> QED BY <1>5, <1>9, <1>10 DEF TreeInv

\* A node is hung red below a node without a child there.
LEMMA InsertHangInv ==
    ASSUME TreeInv, InsertHang
    PROVE  TreeInv'
  <1>1. PICK a : a = at
    OBVIOUS
  <1>2. PICK x : x = new
    OBVIOUS
  <1>3. PICK f : f = Toward
    OBVIOUS
  <1>4. /\ pc = "descend" /\ link[f][a] = Nil /\ root' = root /\ key' = key
        /\ link' = [d \in Side |-> [m \in Place |->
                      CASE m = x -> Nil [] m = a /\ d = f -> x [] OTHER -> link[d][m]]]
        /\ parent' = [parent EXCEPT ![x] = a]
        /\ red' = red \cup {x}
        /\ pc' = "insert" /\ at' = x
    BY <1>1, <1>2, <1>3 DEF InsertHang
  <1>5. f \in Side
    BY <1>3 DEF Toward, Side
  <1>6. a \in Hung /\ x \in Node \ Hung
    BY <1>1, <1>2, <1>4 DEF TreeInv, Job
  <1>7. Pointers' /\ Shape' /\ Acyclic' /\ Hung' = Hung \cup {x}
    BY <1>4, <1>5, <1>6, LeafShape DEF TreeInv
  <1>8. Hung \subseteq Node /\ Hung \subseteq Place /\ Nil \notin Hung /\ Nil \in Place
        /\ x \in Place /\ x # Nil
    BY <1>6, HungFacts, TreeAssumption DEF TreeInv, Place
  <1>9. \A s \in Side, m \in Place :
          link'[s][m] = IF m = x THEN Nil ELSE IF m = a /\ s = f THEN x ELSE link[s][m]
    BY <1>4, <1>6
  <1>10. \A m \in Hung, s \in Side : link[s][m] \in Hung \cup {Nil}
    BY DEF TreeInv, Shape
  <1>11. Even'
    <2>1. PICK bh \in [Place -> Nat] : Balanced(bh)
      BY DEF TreeInv, Even
    <2>2. PICK bh2 : Changed(bh2, bh, x, 0, x, 0)
      BY <1>8, Adjust
    <2>3. bh2 \in [Place -> Nat] /\ bh2[x] = 0 /\ \A m \in Place \ {x} : bh2[m] = bh[m]
      BY <2>2 DEF Changed
    <2>4. bh[Nil] = 0 /\ bh2[Nil] = 0
      BY <1>8, <2>1, <2>3 DEF Balanced
    <2>5. ASSUME NEW m \in Hung \cup {x}, NEW s \in Side
          PROVE  bh2[m] = bh2[link'[s][m]] + Black(m)' + Lack(m, s)'
      <3>1. Lack(m, s)' = 0 /\ Lack(m, s) = 0
        BY <1>4 DEF Lack
      <3>2. CASE m = x
        <4>1. link'[s][m] = Nil /\ Black(m)' = 0
          BY <1>4, <1>8, <1>9, <3>2 DEF Black
        <4> QED BY <2>3, <2>4, <3>1, <3>2, <4>1
      <3>3. CASE m # x
        <4>1. m \in Hung /\ Black(m)' = Black(m)
          BY <1>4, <3>3 DEF Black
        <4>2. bh2[m] = bh[m]
          BY <1>8, <2>3, <3>3, <4>1
        <4>3. bh[m] = bh[link[s][m]] + Black(m) + 0
          BY <2>1, <3>1, <4>1, BalanceAt
        <4>4. bh2[link'[s][m]] = bh[link[s][m]]
          <5>1. CASE m = a /\ s = f
            BY <1>4, <1>8, <1>9, <2>3, <2>4, <3>3, <5>1
          <5>2. CASE ~(m = a /\ s = f)
            <6>1. link'[s][m] = link[s][m]
              BY <1>8, <1>9, <3>3, <4>1, <5>2
            <6> QED BY <1>6, <1>8, <1>10, <2>3, <4>1, <6>1
          <5> QED BY <5>1, <5>2
        <4> QED BY <3>1, <4>1, <4>2, <4>3, <4>4
      <3> QED BY <3>2, <3>3
    <2>6. Balanced(bh2)'
      BY <1>7, <2>4, <2>5 DEF Balanced
    <2> QED BY <2>3, <2>6 DEF Even
  <1>12. Colored'
    <2>1. root \notin red' /\ root # x
      BY <1>4, <1>6, <1>8 DEF TreeInv, Colored, Shape
    <2>2. ASSUME NEW m \in Hung \cup {x}, NEW s \in Side, m \in red', link'[s][m] \in red'
          PROVE  link'[s][m] = x
      <3>1. Nil \notin red'
        BY <1>4, <1>8 DEF TreeInv, Store
      <3>2. m # x
        BY <1>8, <1>9, <2>2, <3>1
      <3>3. CASE m = a /\ s = f
        BY <1>8, <1>9, <3>2, <3>3
      <3>4. CASE ~(m = a /\ s = f)
        <4>1. link'[s][m] = link[s][m] /\ m \in Hung
          BY <1>8, <1>9, <2>2, <3>2, <3>4
        <4> QED BY <1>4, <2>2, <3>2, <4>1 DEF TreeInv, Colored
      <3> QED BY <3>3, <3>4
    <2> QED BY <1>4, <1>7, <2>1, <2>2 DEF Colored
  <1>13. Store' /\ Job'
    BY <1>4, <1>7 DEF TreeInv, Store, Job
  <1> QED BY <1>7, <1>11, <1>12, <1>13 DEF TreeInv

\* remove of the root.
LEMMA RemoveRootInv ==
    ASSUME TreeInv, RemoveRoot
    PROVE  TreeInv'
  <1>1. PICK r : r = root
    OBVIOUS
  <1>2. PICK c : c = Orphan(root)
    OBVIOUS
  <1>3. /\ pc = "rest" /\ root \in Removable /\ root' = c /\ red' = red \ {r, c} /\ pc' = "rest"
        /\ link' = [d \in Side |-> [link[d] EXCEPT ![r] = NULL]]
        /\ parent' = [parent EXCEPT ![r] = NULL]
        /\ key' = [key EXCEPT ![r] = 0]
    BY <1>1, <1>2 DEF RemoveRoot, reset
  <1>4. Pointers' /\ Shape' /\ Acyclic' /\ Hung' = Hung \ {r}
    BY <1>1, <1>2, <1>3, RootGone DEF TreeInv
  <1>5. /\ r \in Hung /\ c \in Hung \cup {Nil} /\ \E d \in Side : link[d][r] = c
    BY <1>1, <1>2, <1>3, OnlyChild DEF TreeInv
  <1>6. Hung \subseteq Node /\ Hung \subseteq Place /\ Nil \notin Hung /\ Nil \in Place
    BY HungFacts DEF TreeInv
  <1>7. \A s \in Side, m \in Hung \ {r} : link'[s][m] = link[s][m]
    BY <1>3, <1>6 DEF TreeInv, Pointers
  <1>8. Even'
    <2>1. PICK bh \in [Place -> Nat] : Balanced(bh)
      BY DEF TreeInv, Even
    <2>2. c \in Place
      BY <1>5, <1>6
    <2>3. PICK k \in Nat : k = bh[c] + (IF c \in red THEN 1 ELSE 0)
      BY <2>2
    <2>4. PICK bh2 : Changed(bh2, bh, c, k, c, k)
      BY <2>2, Adjust
    <2>5. bh2 \in [Place -> Nat] /\ bh2[c] = k /\ \A m \in Place \ {c} : bh2[m] = bh[m]
      BY <2>4 DEF Changed
    <2>6. Nil \notin red /\ bh[Nil] = 0
      BY <1>6, <2>1 DEF TreeInv, Store, Balanced
    <2>7. bh2[Nil] = 0
      BY <1>6, <2>3, <2>5, <2>6
    <2>8. ASSUME NEW m \in Hung \ {r}, NEW s \in Side
          PROVE  bh2[m] = bh2[link'[s][m]] + Black(m)' + Lack(m, s)'
      <3>1. PICK b : b = link[s][m]
        OBVIOUS
      <3>2. /\ bh[m] = bh[b] + Black(m) + Lack(m, s) /\ b \in Place /\ bh[b] \in Nat /\ bh[m] \in Nat
            /\ b # Nil => parent[b] = m
        BY <1>6, <2>1, <3>1, BalanceAt DEF TreeInv, Shape
      <3>3. Lack(m, s) = 0 /\ Lack(m, s)' = 0 /\ link'[s][m] = b
        BY <1>3, <1>7, <3>1 DEF Lack
      <3>4. c # Nil => parent[c] = r
        BY <1>5 DEF TreeInv, Shape
      <3>5. bh2[b] = bh[b]
        <4>1. b = Nil \/ b # c
          BY <3>2, <3>4
        <4> QED BY <2>5, <2>6, <2>7, <3>2, <4>1
      <3>6. CASE m = c /\ m \in red
        <4>1. Black(m) = 0 /\ Black(m)' = 1 /\ bh2[m] = bh[m] + 1
          BY <1>3, <2>3, <2>5, <3>6 DEF Black
        <4> QED BY <3>2, <3>3, <3>5, <4>1
      <3>7. CASE m # c \/ m \notin red
        <4>1. Black(m) = Black(m)' /\ bh2[m] = bh[m] /\ Black(m) \in Nat
          BY <1>3, <1>6, <2>3, <2>5, <3>2, <3>7 DEF Black
        <4> QED BY <3>2, <3>3, <3>5, <4>1
      <3> QED BY <3>6, <3>7
    <2>9. Balanced(bh2)'
      BY <1>4, <2>7, <2>8 DEF Balanced
    <2> QED BY <2>5, <2>9 DEF Even
  <1>9. Colored'
    BY <1>3, <1>4, <1>7 DEF TreeInv, Colored
  <1>10. Store' /\ Job'
    <2>1. key' \in [Node -> Int]
      <3>1. key' = [key EXCEPT ![r] = 0]
        BY <1>3
      <3>2. key \in [Node -> Int]
        BY DEF TreeInv, Store
      <3>3. r \in Node /\ 0 \in Int
        BY <1>5, <1>6
      <3> QED BY <3>1, <3>2, <3>3
    <2>2. red' \subseteq Hung'
      BY <1>3, <1>4 DEF TreeInv, Store
    <2> QED BY <1>3, <2>1, <2>2 DEF Store, Job
  <1> QED BY <1>4, <1>8, <1>9, <1>10 DEF TreeInv

\* What every rotation needs of the invariant.
LEMMA RotateNeeds ==
    ASSUME TreeInv
    PROVE  /\ Hung \subseteq Place /\ Nil \notin Hung /\ Nil \in Place /\ Nil \notin red
           /\ \A m \in Hung, s \in Side : link[s][m] \in Hung \cup {Nil}
           /\ \A m \in Hung, s \in Side : link[s][m] # Nil => link[s][m] # root /\ parent[link[s][m]] = m
           /\ red \subseteq Hung
  BY HungFacts DEF TreeInv, Shape, Store

\* Red pairs after a rotation: the new ones are among the nodes it moved.
LEMMA RotatedPair ==
    ASSUME NEW d, NEW e, NEW n, NEW t, NEW i, NEW o, NEW c,
           Around(d, e, n, t, i, o, c), Turned(d, e, n, t, i, o, c), Kept(n, t, i, o, c),
           NEW m \in Hung, NEW s \in Side
    PROVE  \/ m = n /\ link'[s][m] \in {i, c}
           \/ m = t /\ link'[s][m] \in {n, o}
           \/ m \notin {n, t} /\ HangsOn(n, s, m) /\ link'[s][m] = t /\ link[s][m] = n
           \/ /\ m \notin {n, t} /\ ~HangsOn(n, s, m) /\ link'[s][m] = link[s][m]
              /\ link[s][m] \notin {n, t} /\ (link[s][m] \in {i, o, c} => link[s][m] = Nil)
  <1>1. CASE m = n
    BY <1>1 DEF Around, Turned
  <1>2. CASE m = t
    BY <1>2 DEF Around, Turned
  <1>3. CASE m \notin {n, t}
    BY <1>3 DEF Kept
  <1> QED BY <1>1, <1>2, <1>3

\* The first rotation of insert, when at is on the inside of its parent.
LEMMA InsertTurnInv ==
    ASSUME TreeInv, InsertTurn
    PROVE  TreeInv'
  <1>1. PICK p : p = parent[at]
    OBVIOUS
  <1>2. PICK g : g = Grand
    OBVIOUS
  <1>3. PICK f : f = SideOf(p)
    OBVIOUS
  <1>4. PICK e : e = SideOf(at)
    OBVIOUS
  <1>5. PICK t : t = at
    OBVIOUS
  <1>6. /\ InsertLoop /\ e # f /\ Rotate(f, p) /\ at' = p /\ pc = "insert" /\ pc' = "insert"
        /\ red' = red /\ key' = key
    BY <1>1, <1>3, <1>4 DEF InsertTurn, InsertLoop
  <1>7. /\ t \in Hung /\ p \in Hung /\ g \in Hung
        /\ t \in red /\ p \in red /\ g \notin red
        /\ f \in Side /\ e \in Side /\ link[f][g] = p /\ link[e][p] = t
        /\ t # Nil /\ t # root /\ p # root /\ t # p
    BY <1>1, <1>2, <1>3, <1>4, <1>5, <1>6, InsertAround
  <1>8. e = Other(f)
    BY <1>6, <1>7, Sides
  <1>9. PICK i : i = link[f][t]
    OBVIOUS
  <1>10. PICK o : o = link[e][t]
    OBVIOUS
  <1>11. PICK c : c = link[f][p]
    OBVIOUS
  <1>12. /\ Around(f, e, p, t, i, o, c)
         /\ Turned(f, e, p, t, i, o, c)
         /\ Kept(p, t, i, o, c)
    BY <1>6, <1>7, <1>8, <1>9, <1>10, <1>11, RotatePairs DEF TreeInv
  <1>13. Pointers' /\ Shape' /\ Acyclic' /\ Hung' = Hung
    BY <1>6, <1>7, <1>8, RotateShape DEF TreeInv
  <1>14. /\ Hung \subseteq Place /\ Nil \notin Hung /\ Nil \in Place /\ Nil \notin red
         /\ \A m \in Hung, s \in Side : link[s][m] \in Hung \cup {Nil}
         /\ red \subseteq Hung
    BY RotateNeeds
  <1>15. \A m \in Hung, s \in Side : m \in red /\ link[s][m] \in red => link[s][m] = t
    BY <1>5, <1>6 DEF TreeInv, Colored
  <1>16. Even'
    <2>1. PICK bh \in [Place -> Nat] : Balanced(bh)
      BY DEF TreeInv, Even
    <2>2. \A m \in Hung, s \in Side : Black(m)' = Black(m) /\ Lack(m, s)' = 0 /\ Lack(m, s) = 0
      BY <1>6 DEF Black, Lack
    <2>3. Black(p) = 0 /\ Black(t) = 0 /\ bh[Nil] = 0
      BY <1>7, <2>1 DEF Black, Balanced
    <2>4. bh[p] = bh[t] + 0 + 0 /\ bh[p] = bh[c] + 0 + 0 /\ bh[t] = bh[i] + 0 + 0 /\ bh[t] = bh[o] + 0 + 0
      BY <1>7, <1>9, <1>10, <1>11, <2>1, <2>2, <2>3, BalanceAt
    <2>5. \A m \in Place : bh[m] \in Nat
      OBVIOUS
    <2>6. bh[p] \in Nat /\ bh[t] \in Nat /\ bh[i] \in Nat /\ bh[o] \in Nat /\ bh[c] \in Nat
      BY <1>12, <1>14, <2>5 DEF Around
    <2>7. PICK h \in Nat : bh[p] = h /\ bh[t] = h /\ bh[i] = h /\ bh[o] = h /\ bh[c] = h
      BY <2>4, <2>6
    <2>8. o # Nil => \A s \in Side : bh[o] = bh[link[s][o]] + Black(o)' + Lack(o, s)'
      BY <1>12, <2>1, <2>2, BalanceAt DEF Around
    <2>9. /\ Black(p)' = 0 /\ Lack(p, f)' = 0 /\ Lack(p, e)' = 0
          /\ Black(t)' = 0 /\ Lack(t, f)' = 0 /\ Lack(t, e)' = 0
      BY <1>7, <2>2, <2>3
    <2>10. /\ bh[p] = bh[c] + Black(p)' + Lack(p, f)' /\ bh[p] = bh[i] + Black(p)' + Lack(p, e)'
           /\ bh[t] = bh[p] + Black(t)' + Lack(t, f)' /\ bh[t] = bh[o] + Black(t)' + Lack(t, e)'
      BY <2>7, <2>9
    <2>11. \A m \in Hung \ {p, t, o}, s \in Side : Black(m)' = Black(m) /\ Lack(m, s)' = Lack(m, s)
      BY <2>2
    <2>12. Rebalanced(f, e, p, t, i, o, c, bh, bh)
      BY <2>3, <2>7, <2>8, <2>10, <2>11 DEF Rebalanced
    <2>13. Balanced(bh)'
      BY <1>12, <1>14, <2>1, <2>12, RotateBalanced
    <2> QED BY <2>13 DEF Even
  <1>17. Colored'
    <2>1. root' = root /\ root \notin red
      BY <1>6, <1>7, <1>12, <1>5 DEF Turned, TreeInv, Colored
    <2>2. ASSUME NEW m \in Hung, NEW s \in Side, m \in red, link'[s][m] \in red
          PROVE  link'[s][m] = p
      <3>1. CASE m = p /\ link'[s][m] \in {i, c}
        <4>1. i \notin red
          BY <1>7, <1>9, <1>12, <1>15 DEF Around
        <4>2. c \notin red
          BY <1>7, <1>11, <1>12, <1>15 DEF Around
        <4> QED BY <2>2, <3>1, <4>1, <4>2
      <3>2. CASE m = t /\ link'[s][m] \in {p, o}
        <4>1. o \notin red
          BY <1>7, <1>10, <1>12, <1>15 DEF Around
        <4> QED BY <2>2, <3>2, <4>1
      <3>3. CASE HangsOn(p, s, m)
        <4>1. m = g
          BY <1>1, <1>2, <3>3 DEF HangsOn, Grand
        <4> QED BY <1>7, <2>2, <4>1
      <3>4. CASE link'[s][m] = link[s][m] /\ link[s][m] \notin {p, t}
        BY <1>15, <2>2, <3>4
      <3> QED BY <1>12, <3>1, <3>2, <3>3, <3>4, RotatedPair
    <2> QED BY <1>6, <1>13, <2>1, <2>2 DEF Colored
  <1>18. Store' /\ Job'
    BY <1>6, <1>7, <1>13 DEF TreeInv, Store, Job
  <1> QED BY <1>13, <1>16, <1>17, <1>18 DEF TreeInv

\* The last rotation of insert, at the grandparent.
LEMMA InsertRotateInv ==
    ASSUME TreeInv, InsertRotate
    PROVE  TreeInv'
  <1>1. PICK p : p = parent[at]
    OBVIOUS
  <1>2. PICK g : g = Grand
    OBVIOUS
  <1>3. PICK e : e = SideOf(at)
    OBVIOUS
  <1>4. PICK o : o = at
    OBVIOUS
  <1>5. PICK c : c = Uncle
    OBVIOUS
  <1>6. PICK d : d = Other(e)
    OBVIOUS
  <1>7. /\ InsertLoop /\ c \notin red /\ e = SideOf(p) /\ Rotate(d, g) /\ at' = o
        /\ pc = "insert" /\ pc' = "insert"
        /\ red' = (red \ {p}) \cup {g} /\ key' = key
    BY <1>1, <1>2, <1>3, <1>4, <1>5, <1>6 DEF InsertRotate, InsertLoop
  <1>8. /\ o \in Hung /\ p \in Hung /\ g \in Hung
        /\ o \in red /\ p \in red /\ g \notin red
        /\ e \in Side /\ d \in Side /\ link[e][g] = p /\ link[e][p] = o /\ link[d][g] = c
        /\ o # Nil /\ p # Nil /\ p # g /\ o # p
    BY <1>1, <1>2, <1>3, <1>4, <1>5, <1>6, <1>7, InsertAround
  <1>9. e = Other(d)
    BY <1>6, <1>8, Sides
  <1>10. PICK i : i = link[d][p]
    OBVIOUS
  <1>11. /\ Around(d, e, g, p, i, o, c)
         /\ Turned(d, e, g, p, i, o, c)
         /\ Kept(g, p, i, o, c)
    BY <1>7, <1>8, <1>9, <1>10, RotatePairs DEF TreeInv
  <1>12. Pointers' /\ Shape' /\ Acyclic' /\ Hung' = Hung
    BY <1>7, <1>8, <1>9, RotateShape DEF TreeInv
  <1>13. /\ Hung \subseteq Place /\ Nil \notin Hung /\ Nil \in Place /\ Nil \notin red
         /\ \A m \in Hung, s \in Side : link[s][m] \in Hung \cup {Nil}
         /\ red \subseteq Hung
    BY RotateNeeds
  <1>14. \A m \in Hung, s \in Side : m \in red /\ link[s][m] \in red => link[s][m] = o
    BY <1>4, <1>7 DEF TreeInv, Colored
  <1>15. Even'
    <2>1. PICK bh \in [Place -> Nat] : Balanced(bh)
      BY DEF TreeInv, Even
    <2>2. \A m \in Hung, s \in Side : Lack(m, s)' = 0 /\ Lack(m, s) = 0
      BY <1>7 DEF Lack
    <2>3. Black(p) = 0 /\ Black(o) = 0 /\ Black(g) = 1 /\ bh[Nil] = 0
      BY <1>8, <2>1 DEF Black, Balanced
    <2>4. bh[g] = bh[p] + 1 + 0 /\ bh[g] = bh[c] + 1 + 0 /\ bh[p] = bh[i] + 0 + 0 /\ bh[p] = bh[o] + 0 + 0
      BY <1>8, <1>10, <2>1, <2>2, <2>3, BalanceAt
    <2>5. \A m \in Place : bh[m] \in Nat
      OBVIOUS
    <2>6. bh[g] \in Nat /\ bh[p] \in Nat /\ bh[i] \in Nat /\ bh[o] \in Nat /\ bh[c] \in Nat
      BY <1>11, <1>13, <2>5 DEF Around
    <2>7. PICK h \in Nat : bh[p] = h /\ bh[g] = h + 1 /\ bh[i] = h /\ bh[o] = h /\ bh[c] = h
      BY <2>4, <2>6
    <2>8. g \in Place /\ p \in Place /\ g # p /\ h + 1 \in Nat
      BY <1>8, <1>13
    <2>9. PICK bh2 : Changed(bh2, bh, g, h, p, h + 1)
      BY <2>8, Adjust
    <2>10. bh2 \in [Place -> Nat] /\ bh2[g] = h /\ bh2[p] = h + 1 /\ \A m \in Place \ {g, p} : bh2[m] = bh[m]
      BY <2>9 DEF Changed
    <2>11. bh2[Nil] = 0 /\ bh2[o] = h
      BY <1>8, <1>11, <1>13, <2>3, <2>7, <2>10 DEF Around
    <2>12. Black(o)' = 0 /\ Black(g)' = 0 /\ Black(p)' = 1
      BY <1>7, <1>8, <1>11 DEF Black, Around
    <2>13. \A s \in Side : bh2[o] = bh[link[s][o]] + Black(o)' + Lack(o, s)'
      <3> SUFFICES ASSUME NEW s \in Side
                   PROVE  bh2[o] = bh[link[s][o]] + Black(o)' + Lack(o, s)'
        OBVIOUS
      <3>1. bh[o] = bh[link[s][o]] + 0 + 0
        BY <1>8, <2>1, <2>2, <2>3, BalanceAt
      <3>2. Lack(o, s)' = 0
        BY <1>8, <2>2
      <3> QED BY <2>7, <2>11, <2>12, <3>1, <3>2
    <2>14. /\ Lack(g, d)' = 0 /\ Lack(g, e)' = 0 /\ Lack(p, d)' = 0 /\ Lack(p, e)' = 0
      BY <1>8, <2>2
    <2>15. /\ bh2[g] = bh[c] + Black(g)' + Lack(g, d)' /\ bh2[g] = bh[i] + Black(g)' + Lack(g, e)'
           /\ bh2[p] = bh2[g] + Black(p)' + Lack(p, d)' /\ bh2[p] = bh2[o] + Black(p)' + Lack(p, e)'
      BY <2>7, <2>10, <2>11, <2>12, <2>14
    <2>16. \A m \in Hung \ {g, p, o} : bh2[m] = bh[m]
      BY <1>13, <2>10
    <2>17. \A m \in Hung \ {g, p, o}, s \in Side : Black(m)' = Black(m) /\ Lack(m, s)' = Lack(m, s)
      BY <1>7, <2>2 DEF Black
    <2>18. Rebalanced(d, e, g, p, i, o, c, bh, bh2)
      BY <2>7, <2>10, <2>11, <2>13, <2>15, <2>16, <2>17 DEF Rebalanced
    <2>19. Balanced(bh2)'
      BY <1>11, <1>13, <2>1, <2>18, RotateBalanced
    <2> QED BY <2>10, <2>19 DEF Even
  <1>16. Colored'
    <2>1. root' \notin red'
      <3>1. root \notin red
        BY <1>4, <1>7 DEF TreeInv, Colored, InsertLoop
      <3> QED BY <1>7, <1>8, <1>11, <3>1 DEF Turned
    <2>2. ASSUME NEW m \in Hung, NEW s \in Side, m \in red', link'[s][m] \in red'
          PROVE  FALSE
      <3>1. CASE m = g /\ link'[s][m] \in {i, c}
        <4>1. i \notin red
          BY <1>8, <1>10, <1>11, <1>14 DEF Around
        <4> QED BY <1>7, <1>11, <2>2, <3>1, <4>1 DEF Around
      <3>2. CASE m = p
        BY <1>7, <1>8, <2>2, <3>2
      <3>3. CASE link'[s][m] = p
        BY <1>7, <1>8, <2>2, <3>3
      <3>4. CASE /\ m \notin {g, p} /\ link'[s][m] = link[s][m] /\ link[s][m] \notin {g, p}
                 /\ link[s][m] \in {i, o, c} => link[s][m] = Nil
        <4>1. m \in red /\ link[s][m] \in red
          BY <1>7, <2>2, <3>4
        <4> QED BY <1>13, <1>14, <3>4, <4>1
      <3> QED BY <1>11, <3>1, <3>2, <3>3, <3>4, RotatedPair
    <2> QED BY <1>12, <2>1, <2>2 DEF Colored
  <1>17. Store' /\ Job'
    BY <1>7, <1>8, <1>12 DEF TreeInv, Store, Job
  <1> QED BY <1>12, <1>15, <1>16, <1>17 DEF TreeInv

\* The lack stays where it is when at keeps its parent and its side of it.
LEMMA SameLack ==
    ASSUME NEW a, at = a, at' = a, pc' = pc, a # root, a # root', NEW u, parent[a] = u, parent'[a] = u,
           SideOf(a)' = SideOf(a)
    PROVE  \A m, s : Lack(m, s)' = Lack(m, s)
  BY DEF Lack, HangsOn

\* A red sibling is rotated over the parent: at gets a black one.
LEMMA RemoveRedSiblingInv ==
    ASSUME TreeInv, RemoveRedSibling
    PROVE  TreeInv'
  <1>1. PICK u : u = parent[at]
    OBVIOUS
  <1>2. PICK f : f = SideOf(at)
    OBVIOUS
  <1>3. PICK w : w = Sibling
    OBVIOUS
  <1>4. PICK a : a = at
    OBVIOUS
  <1>5. PICK bh \in [Place -> Nat] : Balanced(bh)
    BY DEF TreeInv, Even
  <1>6. PICK e : e = Other(f)
    OBVIOUS
  <1>7. /\ RemoveLoop /\ w \in red /\ Rotate(f, u) /\ at' = a /\ a \notin red
        /\ red' = (red \ {w}) \cup {u} /\ pc' = "remove" /\ pc = "remove" /\ key' = key
    BY <1>1, <1>2, <1>3, <1>4 DEF RemoveRedSibling, RemoveLoop
  <1>8. /\ u \in Hung /\ f \in Side /\ e \in Side /\ e # f
        /\ a \in Hung \cup {Nil} /\ a # root
        /\ link[f][u] = a /\ link[e][u] = w
        /\ w \in Hung /\ w # Nil /\ w # root /\ w # a /\ parent[w] = u /\ u # w /\ u # Nil
        /\ bh[a] \in Nat /\ bh[w] = bh[a] + 1 /\ bh[u] = bh[a] + 1 + Black(u)
        /\ \A m \in Hung, s \in Side : ~(m = u /\ s = f) => Lack(m, s) = 0
        /\ Lack(u, f) = 1
        /\ \A m \in Hung, s \in Side : ~(m \in red /\ link[s][m] \in red)
        /\ root \notin red
    BY <1>1, <1>2, <1>3, <1>4, <1>5, <1>6, <1>7, RemoveAround
  <1>9. PICK i : i = link[f][w]
    OBVIOUS
  <1>10. PICK o : o = link[e][w]
    OBVIOUS
  <1>11. /\ Around(f, e, u, w, i, o, a)
         /\ Turned(f, e, u, w, i, o, a)
         /\ Kept(u, w, i, o, a)
    BY <1>6, <1>7, <1>8, <1>9, <1>10, RotatePairs DEF TreeInv
  <1>12. Pointers' /\ Shape' /\ Acyclic' /\ Hung' = Hung
    BY <1>6, <1>7, <1>8, RotateShape DEF TreeInv
  <1>13. /\ Hung \subseteq Place /\ Nil \notin Hung /\ Nil \in Place /\ Nil \notin red
         /\ \A m \in Hung, s \in Side : link[s][m] \in Hung \cup {Nil}
         /\ red \subseteq Hung
    BY RotateNeeds
  <1>14. u \notin red /\ i \notin red /\ o \notin red
    BY <1>7, <1>8, <1>9, <1>10
  <1>15. Black(w) = 0 /\ Black(u) = 1 /\ Black(w)' = 1 /\ Black(u)' = 0
    BY <1>7, <1>8, <1>14 DEF Black
  <1>16. Lack(w, f) = 0 /\ Lack(w, e) = 0 /\ Lack(u, e) = 0
    BY <1>8
  <1>17. bh[w] = bh[i] + 0 + 0 /\ bh[w] = bh[o] + 0 + 0
    BY <1>5, <1>8, <1>9, <1>10, <1>15, <1>16, BalanceAt
  <1>18. \A m \in Place : bh[m] \in Nat
    OBVIOUS
  <1>19. bh[i] \in Nat /\ bh[o] \in Nat
    BY <1>11, <1>13, <1>18 DEF Around
  <1>20. PICK h \in Nat : bh[a] = h /\ bh[w] = h + 1 /\ bh[u] = h + 2 /\ bh[i] = h + 1 /\ bh[o] = h + 1
    BY <1>8, <1>15, <1>17, <1>19
  <1>21. bh[Nil] = 0
    BY <1>5 DEF Balanced
  <1>22. i # Nil
    BY <1>20, <1>21
  <1>23. parent[a] = u /\ parent'[a] = u /\ a # root'
    <2>1. a \in Place /\ a # u /\ a # w /\ (a # i \/ i = Nil)
      BY <1>8, <1>11, <1>13 DEF Around
    <2> QED BY <1>1, <1>4, <1>8, <1>11, <2>1 DEF Kept, Turned
  <1>24. link'[f][u] = a /\ link'[e][u] # a
    BY <1>11, <1>22 DEF Turned, Around
  <1>25. SideOf(a)' = f
    BY <1>6, <1>8, <1>23, <1>24 DEF SideOf, Side, Other
  <1>26. \A m, s : Lack(m, s)' = Lack(m, s)
    BY <1>2, <1>4, <1>7, <1>8, <1>23, <1>25, SameLack
  <1>27. Even'
    <2>1. u \in Place /\ w \in Place /\ u # w /\ h + 1 \in Nat /\ h + 2 \in Nat
      BY <1>8, <1>13
    <2>2. PICK bh2 : Changed(bh2, bh, u, h + 1, w, h + 2)
      BY <2>1, Adjust
    <2>3. bh2 \in [Place -> Nat] /\ bh2[u] = h + 1 /\ bh2[w] = h + 2 /\ \A m \in Place \ {u, w} : bh2[m] = bh[m]
      BY <2>2 DEF Changed
    <2>4. bh2[Nil] = 0 /\ bh2[o] = h + 1
      BY <1>8, <1>11, <1>13, <1>20, <1>21, <2>3 DEF Around
    <2>5. o # Nil => \A s \in Side : bh2[o] = bh[link[s][o]] + Black(o)' + Lack(o, s)'
      <3> SUFFICES ASSUME NEW s \in Side, o # Nil
                   PROVE  bh2[o] = bh[link[s][o]] + Black(o)' + Lack(o, s)'
        OBVIOUS
      <3>1. o \in Hung /\ Black(o)' = Black(o)
        BY <1>7, <1>11 DEF Around, Black
      <3> QED BY <1>5, <1>20, <1>26, <2>4, <3>1, BalanceAt
    <2>6. Lack(u, f)' = 1 /\ Lack(u, e)' = 0 /\ Lack(w, f)' = 0 /\ Lack(w, e)' = 0
      BY <1>8, <1>16, <1>26
    <2>7. /\ bh2[u] = bh[a] + Black(u)' + Lack(u, f)' /\ bh2[u] = bh[i] + Black(u)' + Lack(u, e)'
          /\ bh2[w] = bh2[u] + Black(w)' + Lack(w, f)' /\ bh2[w] = bh2[o] + Black(w)' + Lack(w, e)'
      BY <1>15, <1>20, <2>3, <2>4, <2>6
    <2>8. \A m \in Hung \ {u, w, o} : bh2[m] = bh[m]
      BY <1>13, <2>3
    <2>9. \A m \in Hung \ {u, w, o}, s \in Side : Black(m)' = Black(m) /\ Lack(m, s)' = Lack(m, s)
      BY <1>7, <1>26 DEF Black
    <2>10. Rebalanced(f, e, u, w, i, o, a, bh, bh2)
      BY <1>20, <2>3, <2>4, <2>5, <2>7, <2>8, <2>9 DEF Rebalanced
    <2>11. Balanced(bh2)'
      BY <1>5, <1>11, <1>13, <2>10, RotateBalanced
    <2> QED BY <2>3, <2>11 DEF Even
  <1>28. Colored'
    <2>1. root' \notin red'
      BY <1>7, <1>8, <1>11 DEF Turned
    <2>2. ASSUME NEW m \in Hung, NEW s \in Side, m \in red', link'[s][m] \in red'
          PROVE  FALSE
      <3>1. CASE m = u /\ link'[s][m] \in {i, a}
        BY <1>7, <1>11, <1>14, <2>2, <3>1 DEF Around
      <3>2. CASE m = w
        BY <1>7, <1>8, <2>2, <3>2
      <3>3. CASE link'[s][m] = w
        BY <1>7, <1>8, <2>2, <3>3
      <3>4. CASE m \notin {u, w} /\ link'[s][m] = link[s][m] /\ link[s][m] \notin {u, w}
        BY <1>7, <1>8, <2>2, <3>4
      <3> QED BY <1>11, <3>1, <3>2, <3>3, <3>4, RotatedPair
    <2> QED BY <1>12, <2>1, <2>2 DEF Colored
  <1>29. Store'
    BY <1>7, <1>8, <1>12 DEF TreeInv, Store
  <1>30. Job'
    <2>1. root' # Nil
      BY <1>7, <1>8, <1>11 DEF Turned, TreeInv, Job
    <2> QED BY <1>7, <1>8, <1>12, <1>23, <1>24, <1>25, <2>1 DEF Job
  <1> QED BY <1>12, <1>27, <1>28, <1>29, <1>30 DEF TreeInv

\* A red near child of the sibling is rotated over it: the far one is red then.
LEMMA RemoveTurnInv ==
    ASSUME TreeInv, RemoveTurn
    PROVE  TreeInv'
  <1>1. PICK u : u = parent[at]
    OBVIOUS
  <1>2. PICK f : f = SideOf(at)
    OBVIOUS
  <1>3. PICK w : w = Sibling
    OBVIOUS
  <1>4. PICK a : a = at
    OBVIOUS
  <1>5. PICK bh \in [Place -> Nat] : Balanced(bh)
    BY DEF TreeInv, Even
  <1>6. PICK d : d = Other(f)
    OBVIOUS
  <1>7. PICK t : t = link[f][w]
    OBVIOUS
  <1>8. PICK c : c = link[d][w]
    OBVIOUS
  <1>9. /\ RemoveLoop /\ w \notin red /\ t \in red /\ c \notin red /\ Rotate(d, w) /\ at' = a /\ a \notin red
        /\ red' = (red \ {t}) \cup {w} /\ pc' = "remove" /\ pc = "remove" /\ key' = key
    BY <1>1, <1>2, <1>3, <1>4, <1>6, <1>7, <1>8 DEF RemoveTurn, RemoveLoop, Near, Far
  <1>10. /\ u \in Hung /\ f \in Side /\ d \in Side /\ d # f
         /\ a \in Hung \cup {Nil} /\ a # root
         /\ link[f][u] = a /\ link[d][u] = w
         /\ w \in Hung /\ w # Nil /\ w # root /\ w # a /\ parent[w] = u /\ u # w
         /\ \A m \in Hung, s \in Side : ~(m = u /\ s = f) => Lack(m, s) = 0
         /\ \A m \in Hung, s \in Side : ~(m \in red /\ link[s][m] \in red)
         /\ root \notin red
    BY <1>1, <1>2, <1>3, <1>4, <1>5, <1>6, <1>9, RemoveAround
  <1>11. f = Other(d)
    BY <1>6, <1>10, Sides
  <1>12. PICK i : i = link[d][t]
    OBVIOUS
  <1>13. PICK o : o = link[f][t]
    OBVIOUS
  <1>14. /\ Hung \subseteq Place /\ Nil \notin Hung /\ Nil \in Place /\ Nil \notin red
         /\ \A m \in Hung, s \in Side : link[s][m] \in Hung \cup {Nil}
         /\ \A m \in Hung, s \in Side : link[s][m] # Nil => link[s][m] # root /\ parent[link[s][m]] = m
         /\ red \subseteq Hung
    BY RotateNeeds
  <1>15. /\ Around(d, f, w, t, i, o, c)
         /\ Turned(d, f, w, t, i, o, c)
         /\ Kept(w, t, i, o, c)
    BY <1>7, <1>8, <1>9, <1>10, <1>11, <1>12, <1>13, <1>14, RotatePairs DEF TreeInv
  <1>16. Pointers' /\ Shape' /\ Acyclic' /\ Hung' = Hung
    BY <1>7, <1>9, <1>10, <1>11, <1>14, RotateShape DEF TreeInv
  <1>17. i \notin red /\ o \notin red /\ u \notin {w, t, i, o, c}
    BY <1>9, <1>10, <1>12, <1>13, <1>14, <1>15 DEF Around
  <1>18. Black(w) = 1 /\ Black(t) = 0 /\ Black(w)' = 0 /\ Black(t)' = 1
    BY <1>9, <1>15 DEF Black, Around
  <1>19. Lack(w, f) = 0 /\ Lack(w, d) = 0 /\ Lack(t, f) = 0 /\ Lack(t, d) = 0
    BY <1>10, <1>15, <1>17 DEF Around
  <1>20. /\ bh[w] = bh[t] + 1 + 0 /\ bh[w] = bh[c] + 1 + 0 /\ bh[t] = bh[i] + 0 + 0 /\ bh[t] = bh[o] + 0 + 0
    <2>1. t \in Hung
      BY <1>15 DEF Around
    <2> QED BY <1>5, <1>7, <1>8, <1>10, <1>12, <1>13, <1>18, <1>19, <2>1, BalanceAt
  <1>21. \A m \in Place : bh[m] \in Nat
    OBVIOUS
  <1>22. bh[w] \in Nat /\ bh[t] \in Nat /\ bh[i] \in Nat /\ bh[o] \in Nat /\ bh[c] \in Nat
    BY <1>14, <1>15, <1>21 DEF Around
  <1>23. PICK h \in Nat : bh[w] = h + 1 /\ bh[t] = h /\ bh[c] = h /\ bh[i] = h /\ bh[o] = h
    BY <1>20, <1>22
  <1>24. bh[Nil] = 0
    BY <1>5 DEF Balanced
  <1>25. parent[a] = u /\ parent'[a] = u /\ root' = root
    <2>1. a # Nil => parent[a] = u
      BY <1>10, <1>14
    <2>2. a \in Place /\ a # w /\ a # t /\ (a # i \/ i = Nil)
      BY <1>9, <1>10, <1>14, <1>15, <1>17, <2>1 DEF Around
    <2> QED BY <1>1, <1>4, <1>10, <1>15, <2>2 DEF Kept, Turned
  <1>26. link'[f][u] = a /\ link'[d][u] # a
    <2>1. HangsOn(w, d, u) /\ ~HangsOn(w, f, u)
      <3>1. SideOf(w) = d
        BY <1>10, <1>14, ChildSide DEF TreeInv
      <3> QED BY <1>10, <3>1 DEF HangsOn
    <2>2. u \in Hung \ {w, t}
      BY <1>10, <1>17
    <2>3. link'[d][u] = t /\ link'[f][u] = link[f][u]
      BY <1>10, <1>15, <2>1, <2>2 DEF Kept
    <2> QED BY <1>9, <1>10, <2>3
  <1>27. SideOf(a)' = f
    BY <1>6, <1>10, <1>25, <1>26 DEF SideOf, Side, Other
  <1>28. \A m, s : Lack(m, s)' = Lack(m, s)
    BY <1>2, <1>4, <1>9, <1>10, <1>25, <1>27, SameLack
  <1>29. Even'
    <2>1. w \in Place /\ t \in Place /\ w # t /\ h + 1 \in Nat
      BY <1>10, <1>14, <1>15 DEF Around
    <2>2. PICK bh2 : Changed(bh2, bh, w, h, t, h + 1)
      BY <2>1, Adjust
    <2>3. bh2 \in [Place -> Nat] /\ bh2[w] = h /\ bh2[t] = h + 1 /\ \A m \in Place \ {w, t} : bh2[m] = bh[m]
      BY <2>2 DEF Changed
    <2>4. bh2[Nil] = 0 /\ bh2[o] = h
      BY <1>10, <1>14, <1>15, <1>23, <1>24, <2>3 DEF Around
    <2>5. o # Nil => \A s \in Side : bh2[o] = bh[link[s][o]] + Black(o)' + Lack(o, s)'
      <3> SUFFICES ASSUME NEW s \in Side, o # Nil
                   PROVE  bh2[o] = bh[link[s][o]] + Black(o)' + Lack(o, s)'
        OBVIOUS
      <3>1. o \in Hung /\ Black(o)' = Black(o)
        BY <1>9, <1>15 DEF Around, Black
      <3> QED BY <1>5, <1>23, <1>28, <2>4, <3>1, BalanceAt
    <2>6. Lack(w, f)' = 0 /\ Lack(w, d)' = 0 /\ Lack(t, f)' = 0 /\ Lack(t, d)' = 0
      BY <1>19, <1>28
    <2>7. /\ bh2[w] = bh[c] + Black(w)' + Lack(w, d)' /\ bh2[w] = bh[i] + Black(w)' + Lack(w, f)'
          /\ bh2[t] = bh2[w] + Black(t)' + Lack(t, d)' /\ bh2[t] = bh2[o] + Black(t)' + Lack(t, f)'
      BY <1>18, <1>23, <2>3, <2>4, <2>6
    <2>8. \A m \in Hung \ {w, t, o} : bh2[m] = bh[m]
      BY <1>14, <2>3
    <2>9. \A m \in Hung \ {w, t, o}, s \in Side : Black(m)' = Black(m) /\ Lack(m, s)' = Lack(m, s)
      BY <1>9, <1>28 DEF Black
    <2>10. Rebalanced(d, f, w, t, i, o, c, bh, bh2)
      BY <1>23, <2>3, <2>4, <2>5, <2>7, <2>8, <2>9 DEF Rebalanced
    <2>11. Balanced(bh2)'
      BY <1>5, <1>14, <1>15, <2>10, RotateBalanced
    <2> QED BY <2>3, <2>11 DEF Even
  <1>30. Colored'
    <2>1. root' \notin red'
      BY <1>9, <1>10, <1>25
    <2>2. ASSUME NEW m \in Hung, NEW s \in Side, m \in red', link'[s][m] \in red'
          PROVE  FALSE
      <3>1. CASE m = w /\ link'[s][m] \in {i, c}
        BY <1>9, <1>15, <1>17, <2>2, <3>1 DEF Around
      <3>2. CASE m = t
        BY <1>9, <1>15, <2>2, <3>2 DEF Around
      <3>3. CASE link'[s][m] = t
        BY <1>9, <1>15, <2>2, <3>3 DEF Around
      <3>4. CASE m \notin {w, t} /\ link'[s][m] = link[s][m] /\ link[s][m] \notin {w, t}
        BY <1>9, <1>10, <2>2, <3>4
      <3> QED BY <1>15, <3>1, <3>2, <3>3, <3>4, RotatedPair
    <2> QED BY <1>16, <2>1, <2>2 DEF Colored
  <1>31. Store'
    BY <1>9, <1>10, <1>16 DEF TreeInv, Store
  <1>32. Job'
    <2>1. root' # Nil
      BY <1>9, <1>25 DEF TreeInv, Job
    <2> QED BY <1>9, <1>10, <1>16, <1>25, <1>26, <1>27, <2>1 DEF Job
  <1> QED BY <1>16, <1>29, <1>30, <1>31, <1>32 DEF TreeInv

\* With a red far child the last rotation gives at the black it lacks.
LEMMA RemoveRotateInv ==
    ASSUME TreeInv, RemoveRotate
    PROVE  TreeInv'
  <1>1. PICK u : u = parent[at]
    OBVIOUS
  <1>2. PICK f : f = SideOf(at)
    OBVIOUS
  <1>3. PICK w : w = Sibling
    OBVIOUS
  <1>4. PICK a : a = at
    OBVIOUS
  <1>5. PICK bh \in [Place -> Nat] : Balanced(bh)
    BY DEF TreeInv, Even
  <1>6. PICK e : e = Other(f)
    OBVIOUS
  <1>7. PICK o : o = link[e][w]
    OBVIOUS
  <1>8. PICK i : i = link[f][w]
    OBVIOUS
  <1>9. PICK R : R = IF u \in red THEN {w} ELSE {}
    OBVIOUS
  <1>10. /\ RemoveLoop /\ w \notin red /\ o \in red /\ Rotate(f, u) /\ at' = root' /\ a \notin red
         /\ red' = (red \ {u, o}) \cup R /\ pc' = "remove" /\ pc = "remove" /\ key' = key
    BY <1>1, <1>2, <1>3, <1>4, <1>6, <1>7, <1>9 DEF RemoveRotate, RemoveLoop, Far
  <1>11. /\ u \in Hung /\ f \in Side /\ e \in Side /\ e # f
         /\ a \in Hung \cup {Nil} /\ a # root
         /\ link[f][u] = a /\ link[e][u] = w
         /\ w \in Hung /\ w # Nil /\ w # root /\ w # a /\ parent[w] = u /\ u # w /\ u # Nil
         /\ bh[a] \in Nat /\ bh[w] = bh[a] + 1 /\ bh[u] = bh[a] + 1 + Black(u)
         /\ \A m \in Hung, s \in Side : ~(m = u /\ s = f) => Lack(m, s) = 0
         /\ \A m \in Hung, s \in Side : ~(m \in red /\ link[s][m] \in red)
         /\ root \notin red
    BY <1>1, <1>2, <1>3, <1>4, <1>5, <1>6, <1>10, RemoveAround
  <1>12. /\ Around(f, e, u, w, i, o, a)
         /\ Turned(f, e, u, w, i, o, a)
         /\ Kept(u, w, i, o, a)
    BY <1>6, <1>7, <1>8, <1>10, <1>11, RotatePairs DEF TreeInv
  <1>13. Pointers' /\ Shape' /\ Acyclic' /\ Hung' = Hung
    BY <1>6, <1>10, <1>11, RotateShape DEF TreeInv
  <1>14. /\ Hung \subseteq Place /\ Nil \notin Hung /\ Nil \in Place /\ Nil \notin red
         /\ \A m \in Hung, s \in Side : link[s][m] \in Hung \cup {Nil}
         /\ red \subseteq Hung
    BY RotateNeeds
  <1>15. o \in Hung /\ o # Nil /\ o # u /\ o # w
    BY <1>10, <1>12, <1>14 DEF Around
  <1>16. Black(w) = 1 /\ Black(o) = 0 /\ Black(u)' = 1 /\ Black(o)' = 1
    BY <1>9, <1>10, <1>11, <1>15 DEF Black
  <1>17. Black(w)' = Black(u) /\ Black(u) \in Nat
    BY <1>9, <1>10, <1>11 DEF Black
  <1>18. Lack(w, f) = 0 /\ Lack(w, e) = 0 /\ Lack(o, f) = 0 /\ Lack(o, e) = 0
    BY <1>11, <1>15
  <1>19. bh[w] = bh[i] + 1 + 0 /\ bh[w] = bh[o] + 1 + 0
    BY <1>5, <1>7, <1>8, <1>11, <1>16, <1>18, BalanceAt
  <1>20. \A m \in Place : bh[m] \in Nat
    OBVIOUS
  <1>21. bh[i] \in Nat /\ bh[o] \in Nat
    BY <1>12, <1>14, <1>20 DEF Around
  <1>22. PICK h \in Nat : bh[a] = h /\ bh[w] = h + 1 /\ bh[u] = h + 1 + Black(u) /\ bh[i] = h /\ bh[o] = h
    BY <1>11, <1>19, <1>21
  <1>23. bh[Nil] = 0
    BY <1>5 DEF Balanced
  <1>24. \A m, s : Lack(m, s)' = 0
    BY <1>10 DEF Lack, HangsOn
  <1>25. Even'
    <2>1. /\ u \in Place /\ w \in Place /\ o \in Place /\ u # w /\ h + 1 \in Nat
          /\ h + 1 + Black(u) \in Nat
      BY <1>11, <1>14, <1>15, <1>17
    <2>2. PICK bh1 : Changed(bh1, bh, u, h + 1, w, h + 1 + Black(u))
      BY <2>1, Adjust
    <2>3. /\ bh1 \in [Place -> Nat] /\ bh1[u] = h + 1 /\ bh1[w] = h + 1 + Black(u)
          /\ \A m \in Place \ {u, w} : bh1[m] = bh[m]
      BY <2>2 DEF Changed
    <2>4. PICK bh2 : Changed(bh2, bh1, o, h + 1, o, h + 1)
      BY <2>1, <2>3, Adjust
    <2>5. /\ bh2 \in [Place -> Nat] /\ bh2[o] = h + 1 /\ \A m \in Place \ {o} : bh2[m] = bh1[m]
      BY <2>4 DEF Changed
    <2>6. /\ bh2[u] = h + 1 /\ bh2[w] = h + 1 + Black(u)
          /\ \A m \in Place \ {u, w, o} : bh2[m] = bh[m]
      BY <1>15, <2>1, <2>3, <2>5
    <2>7. bh2[Nil] = 0
      BY <1>11, <1>14, <1>15, <1>23, <2>6
    <2>8. \A s \in Side : bh2[o] = bh[link[s][o]] + Black(o)' + Lack(o, s)'
      <3> SUFFICES ASSUME NEW s \in Side
                   PROVE  bh2[o] = bh[link[s][o]] + Black(o)' + Lack(o, s)'
        OBVIOUS
      <3>1. Lack(o, s) = 0 /\ Lack(o, s)' = 0
        BY <1>11, <1>15, <1>24
      <3>2. bh[o] = bh[link[s][o]] + 0 + 0
        BY <1>5, <1>15, <1>16, <3>1, BalanceAt
      <3>3. bh[link[s][o]] \in Nat
        BY <1>14, <1>15, <1>20
      <3> QED BY <1>16, <1>22, <2>5, <3>1, <3>2, <3>3
    <2>9. Lack(u, f)' = 0 /\ Lack(u, e)' = 0 /\ Lack(w, f)' = 0 /\ Lack(w, e)' = 0
      BY <1>24
    <2>10. /\ bh2[u] = bh[a] + Black(u)' + Lack(u, f)' /\ bh2[u] = bh[i] + Black(u)' + Lack(u, e)'
           /\ bh2[w] = bh2[u] + Black(w)' + Lack(w, f)' /\ bh2[w] = bh2[o] + Black(w)' + Lack(w, e)'
      BY <1>16, <1>17, <1>22, <2>5, <2>6, <2>9
    <2>11. \A m \in Hung \ {u, w, o} : bh2[m] = bh[m]
      BY <1>14, <2>6
    <2>12. \A m \in Hung \ {u, w, o}, s \in Side : Black(m)' = Black(m) /\ Lack(m, s)' = Lack(m, s)
      BY <1>9, <1>10, <1>11, <1>24 DEF Black
    <2>13. Rebalanced(f, e, u, w, i, o, a, bh, bh2)
      BY <1>22, <2>6, <2>7, <2>8, <2>10, <2>11, <2>12 DEF Rebalanced
    <2>14. Balanced(bh2)'
      BY <1>5, <1>12, <1>14, <2>13, RotateBalanced
    <2> QED BY <2>5, <2>14 DEF Even
  <1>26. Colored'
    <2>1. root' \notin red'
      BY <1>9, <1>10, <1>11, <1>12 DEF Turned
    <2>2. ASSUME NEW m \in Hung, NEW s \in Side, m \in red', link'[s][m] \in red'
          PROVE  FALSE
      <3>1. CASE m = u
        BY <1>9, <1>10, <1>11, <2>2, <3>1
      <3>2. CASE m = w /\ link'[s][m] \in {u, o}
        BY <1>9, <1>10, <1>11, <1>15, <2>2, <3>2
      <3>3. CASE m \notin {u, w} /\ link'[s][m] = w /\ link[s][m] = u
        BY <1>9, <1>10, <1>11, <2>2, <3>3
      <3>4. CASE m \notin {u, w} /\ link'[s][m] = link[s][m] /\ link[s][m] \notin {u, w}
        BY <1>9, <1>10, <1>11, <2>2, <3>4
      <3> QED BY <1>12, <3>1, <3>2, <3>3, <3>4, RotatedPair
    <2> QED BY <1>13, <2>1, <2>2 DEF Colored
  <1>27. Store'
    BY <1>9, <1>10, <1>11, <1>13 DEF TreeInv, Store
  <1>28. Job'
    <2>1. root' # Nil /\ root' \in Hung
      BY <1>10, <1>11, <1>12 DEF Turned, TreeInv, Job, Shape
    <2> QED BY <1>10, <1>13, <2>1 DEF Job
  <1> QED BY <1>13, <1>25, <1>26, <1>27, <1>28 DEF TreeInv

\* A node is taken out below the root: a black one leaves its side one short.
LEMMA UnhookInv ==
    ASSUME TreeInv, NEW n \in Removable, Unhook(n),
           \/ n \in red /\ UNCHANGED <<pc, at, new>>
           \/ n \notin red /\ pc' = "remove" /\ at' = Orphan(n)
    PROVE  TreeInv'
  <1>1. PICK u : u = parent[n]
    OBVIOUS
  <1>2. PICK c : c = Orphan(n)
    OBVIOUS
  <1>3. PICK f : f = SideOf(n)
    OBVIOUS
  <1>4. PICK bh \in [Place -> Nat] : Balanced(bh)
    BY DEF TreeInv, Even
  <1>5. n # root /\ pc = "rest" /\ red' = red \ {n} /\ key' = [key EXCEPT ![n] = 0]
    BY DEF Unhook, reset
  <1>6. /\ n \in Hung /\ u \in Hung /\ f \in Side /\ link[f][u] = n /\ u # n
        /\ c \in Hung \cup {Nil} /\ c # n /\ c # u
        /\ \E d \in Side : link[d][n] = c
        /\ \A s \in Side, m \in Place :
             link'[s][m] = IF m = n THEN NULL ELSE IF m = u /\ s = f THEN c ELSE link[s][m]
        /\ \A m \in Place : parent'[m] = IF m = n THEN NULL ELSE IF m = c THEN u ELSE parent[m]
        /\ Hung' = Hung \ {n} /\ root' = root
    BY <1>1, <1>2, <1>3, <1>5, UnhookLinks DEF TreeInv
  <1>7. Pointers' /\ Shape' /\ Acyclic'
    BY <1>5, UnhookShape DEF TreeInv
  <1>8. /\ Hung \subseteq Place /\ Nil \notin Hung /\ Nil \in Place /\ Nil \notin red
        /\ \A m \in Hung, s \in Side : link[s][m] \in Hung \cup {Nil}
        /\ \A m \in Hung, s \in Side : link[s][m] # Nil => link[s][m] # root /\ parent[link[s][m]] = m
        /\ red \subseteq Hung
    BY RotateNeeds
  <1>9. \A m \in Hung, s \in Side : Lack(m, s) = 0
    BY <1>5 DEF Lack
  <1>10. bh[n] = bh[c] + Black(n) + 0 /\ bh[u] = bh[n] + Black(u) + 0
    BY <1>4, <1>6, <1>9, BalanceAt
  <1>11. \A m \in Place : bh[m] \in Nat
    OBVIOUS
  <1>12. bh[n] \in Nat /\ bh[c] \in Nat /\ bh[u] \in Nat /\ Black(n) \in Nat /\ Black(u) \in Nat
    BY <1>6, <1>8, <1>11, BlackIs
  <1>13. Lack(u, f)' = Black(n) /\ \A m \in Hung, s \in Side : ~(m = u /\ s = f) => Lack(m, s)' = 0
    <2>1. CASE n \in red
      BY <1>5, <2>1 DEF Black, Lack
    <2>2. CASE n \notin red
      <3>1. Black(n) = 1 /\ pc' = "remove" /\ at' = c
        BY <1>2, <2>2 DEF Black
      <3>2. c # root' /\ parent'[c] = u
        <4>1. root # Nil
          BY <1>6 DEF TreeInv, Shape
        <4> QED BY <1>6, <1>8, <4>1
      <3>3. PICK e : e = Other(f)
        OBVIOUS
      <3>4. e \in Side /\ e # f
        BY <1>6, <3>3, Sides
      <3>5. link[e][u] # c
        <4>1. c # Nil => parent[c] = n
          BY <1>6, <1>8
        <4>2. link[e][u] # Nil
          <5>1. bh[u] = bh[link[e][u]] + Black(u) + 0
            BY <1>4, <1>6, <1>9, <3>4, BalanceAt
          <5>2. bh[Nil] = 0
            BY <1>4 DEF Balanced
          <5>3. link[e][u] = Nil => bh[u] = Black(u)
            BY <1>12, <5>1, <5>2
          <5>4. bh[u] = bh[c] + 1 + Black(u)
            BY <1>10, <1>12, <3>1
          <5> QED BY <1>12, <5>3, <5>4
        <4> QED BY <1>6, <1>8, <3>4, <4>1, <4>2
      <3>6. link'[f][u] = c /\ link'[e][u] # c
        BY <1>6, <1>8, <3>4, <3>5
      <3>7. SideOf(c)' = f
        BY <1>6, <3>2, <3>3, <3>6 DEF SideOf, Side, Other
      <3>8. \A m, s : Lack(m, s)' = IF m = u /\ s = f THEN 1 ELSE 0
        BY <3>1, <3>2, <3>7 DEF Lack, HangsOn
      <3> QED BY <3>1, <3>8
    <2> QED BY <2>1, <2>2
  <1>14. Even'
    <2>1. bh[Nil] = 0
      BY <1>4 DEF Balanced
    <2>2. ASSUME NEW m \in Hung \ {n}, NEW s \in Side
          PROVE  bh[m] = bh[link'[s][m]] + Black(m)' + Lack(m, s)'
      <3>1. Black(m)' = Black(m)
        BY <1>5 DEF Black
      <3>2. CASE m = u /\ s = f
        <4>1. link'[s][m] = c
          BY <1>6, <1>8, <3>2
        <4> QED BY <1>10, <1>12, <1>13, <3>1, <3>2, <4>1
      <3>3. CASE ~(m = u /\ s = f)
        <4>1. link'[s][m] = link[s][m] /\ Lack(m, s)' = 0
          BY <1>6, <1>8, <1>13, <3>3
        <4>2. bh[m] = bh[link[s][m]] + Black(m) + 0
          BY <1>4, <1>9, BalanceAt
        <4> QED BY <3>1, <4>1, <4>2
      <3> QED BY <3>2, <3>3
    <2>3. Balanced(bh)'
      BY <1>6, <2>1, <2>2 DEF Balanced
    <2> QED BY <2>3 DEF Even
  <1>15. Colored'
    <2>1. /\ root \notin red /\ \A m \in Hung, s \in Side : ~(m \in red /\ link[s][m] \in red)
      BY <1>5 DEF TreeInv, Colored
    <2>2. ASSUME NEW m \in Hung \ {n}, NEW s \in Side, m \in red', link'[s][m] \in red'
          PROVE  pc' = "remove" /\ link'[s][m] = at'
      <3>1. CASE m = u /\ s = f
        <4>1. link'[s][m] = c
          BY <1>6, <1>8, <3>1
        <4>2. n \notin red
          BY <1>5, <1>6, <2>1, <2>2, <3>1
        <4> QED BY <1>2, <4>1, <4>2
      <3>2. CASE ~(m = u /\ s = f)
        <4>1. link'[s][m] = link[s][m]
          BY <1>6, <1>8, <3>2
        <4> QED BY <1>5, <2>1, <2>2, <4>1
      <3> QED BY <3>1, <3>2
    <2> QED BY <1>5, <1>6, <2>1, <2>2 DEF Colored
  <1>16. Store'
    <2>1. key \in [Node -> Int] /\ 0 \in Int
      BY DEF TreeInv, Store
    <2>2. key' \in [Node -> Int]
      BY <1>5, <2>1
    <2> QED BY <1>5, <1>6, <1>8, <2>2 DEF Store
  <1>17. Job'
    <2>1. CASE n \in red
      BY <1>5, <2>1 DEF Job
    <2>2. CASE n \notin red
      <3>1. pc' = "remove" /\ at' = c
        BY <1>2, <2>2
      <3>2. root # Nil
        BY <1>6 DEF TreeInv, Shape
      <3>3. Lack(u, f)' = 1
        BY <1>13, <2>2 DEF Black
      <3>4. HangsOn(c, f, u)'
        BY <3>1, <3>3 DEF Lack
      <3>5. SideOf(c)' = f /\ parent'[c] = u
        BY <3>4 DEF HangsOn
      <3>6. link'[f][u] = c
        BY <1>6, <1>8
      <3> QED BY <1>6, <3>1, <3>2, <3>5, <3>6 DEF Job
    <2> QED BY <2>1, <2>2
  <1> QED BY <1>7, <1>14, <1>15, <1>16, <1>17 DEF TreeInv

\* The empty tree.
LEMMA InitInv ==
    ASSUME Init
    PROVE  TreeInv /\ Hung = {}
  <1>1. /\ root = Nil /\ red = {} /\ pc = "rest"
        /\ link = [d \in Side |-> [n \in Place |-> NULL]]
        /\ parent = [n \in Place |-> NULL]
        /\ key = [n \in Node |-> 0]
    BY DEF Init
  <1>2. \A d \in Side, n \in Place : link[d][n] = NULL
    BY <1>1
  <1>3. Hung = {}
    BY <1>2 DEF Hung, Side, Place
  <1>4. Pointers
    BY <1>1 DEF Pointers
  <1>5. Shape
    BY <1>1, <1>2, <1>3 DEF Shape
  <1>6. Acyclic
    <2> DEFINE rk == [n \in Node |-> 0]
    <2>1. rk \in [Node -> Nat]
      OBVIOUS
    <2> HIDE DEF rk
    <2>2. Ranked(rk)
      BY <1>3 DEF Ranked
    <2> QED BY <2>1, <2>2 DEF Acyclic
  <1>7. Store
    BY <1>1 DEF Store
  <1>8. Colored /\ Job
    BY <1>1 DEF Colored, Job
  <1>9. Even
    <2> DEFINE bh == [n \in Place |-> 0]
    <2>1. bh \in [Place -> Nat] /\ bh[Nil] = 0
      BY DEF Place
    <2> HIDE DEF bh
    <2>2. Balanced(bh)
      BY <1>3, <2>1 DEF Balanced
    <2> QED BY <2>1, <2>2 DEF Even
  <1> QED BY <1>3, <1>4, <1>5, <1>6, <1>7, <1>8, <1>9 DEF TreeInv

\* Nothing happens.
LEMMA StutterInv ==
    ASSUME TreeInv, UNCHANGED vars
    PROVE  TreeInv'
  <1>1. /\ root' = root /\ link' = link /\ parent' = parent /\ red' = red
        /\ key' = key /\ pc' = pc /\ at' = at /\ new' = new
    BY DEF vars
  <1>2. Pointers' /\ Shape' /\ Acyclic' /\ Hung' = Hung /\ \A x : SideOf(x)' = SideOf(x)
    BY <1>1, SameShape DEF TreeInv
  <1>3. Store' /\ Colored' /\ Job'
    BY <1>1, <1>2 DEF TreeInv, Store, Colored, Job
  <1>4. PICK bh \in [Place -> Nat] : Balanced(bh)
    BY DEF TreeInv, Even
  <1>5. Balanced(bh)'
    BY <1>1, <1>2, <1>4 DEF Balanced, Black, Lack, HangsOn
  <1>6. Even'
    BY <1>5 DEF Even
  <1> QED BY <1>2, <1>3, <1>6 DEF TreeInv

\* Every step keeps the tree.
LEMMA NextInv ==
    ASSUME TreeInv, [Next]_vars
    PROVE  TreeInv'
  <1>1. CASE InsertBegin \/ InsertDescend \/ MinBegin \/ MinDescend \/ MinEnd
    BY <1>1, MovesInv
  <1>2. CASE InsertRoot
    BY <1>2, InsertRootInv
  <1>3. CASE InsertHang
    BY <1>3, InsertHangInv
  <1>4. CASE InsertRecolor
    BY <1>4, InsertRecolorInv
  <1>5. CASE InsertTurn
    BY <1>5, InsertTurnInv
  <1>6. CASE InsertRotate
    BY <1>6, InsertRotateInv
  <1>7. CASE InsertEnd
    BY <1>7, InsertEndInv
  <1>8. CASE RemoveRoot
    BY <1>8, RemoveRootInv
  <1>9. CASE RemoveRed
    BY <1>9, UnhookInv DEF RemoveRed
  <1>10. CASE RemoveBlack
    BY <1>10, UnhookInv DEF RemoveBlack
  <1>11. CASE RemoveRedSibling
    BY <1>11, RemoveRedSiblingInv
  <1>12. CASE RemoveRecolor
    BY <1>12, RemoveRecolorInv
  <1>13. CASE RemoveTurn
    BY <1>13, RemoveTurnInv
  <1>14. CASE RemoveRotate
    BY <1>14, RemoveRotateInv
  <1>15. CASE RemoveEnd
    BY <1>15, RemoveEndInv
  <1>16. CASE UNCHANGED vars
    BY <1>16, StutterInv
  <1> QED
    BY <1>1, <1>2, <1>3, <1>4, <1>5, <1>6, <1>7, <1>8, <1>9, <1>10, <1>11, <1>12, <1>13, <1>14,
       <1>15, <1>16 DEF Next, Step, Call

\* The invariant holds from the empty tree on.
LEMMA TreeInvariant == Spec => []TreeInv
  <1>1. Init => TreeInv
    BY InitInv
  <1>2. TreeInv /\ [Next]_vars => TreeInv'
    BY NextInv
  <1> QED BY <1>1, <1>2, PTL DEF Spec

------------------------------------------------------------------------------
\* Every way up ends at the root.
LEMMA RootAbove ==
    ASSUME TreeInv, NEW n \in Hung
    PROVE  root \in Above(n)
  <1>1. root \in Hung
    BY DEF TreeInv, Shape
  <1>2. ASSUME NEW S \in SUBSET Hung, n \in S, \A x \in S \ {root} : parent[x] \in S
        PROVE  root \in S
    <2>1. ASSUME root \notin S
          PROVE  FALSE
      <3> DEFINE T == Hung \ S
      <3>1. root \in T
        BY <1>1, <2>1
      <3>2. \A m \in Hung \ {root} : parent[m] \in T => m \in T
        BY <1>2
      <3> HIDE DEF T
      <3>3. Hung \subseteq T
        BY <3>1, <3>2, FromRoot DEF TreeInv
      <3> QED BY <1>2, <3>3 DEF T
    <2> QED BY <2>1
  <1> QED BY <1>1, <1>2 DEF Above

\* The parent links, which the loops of insert and remove climb, agree with the
\* child links and lead to the root, whatever the nodes and the keys and in the
\* middle of an operation too.
THEOREM LinksAgree == Spec => []Linked
  <1>1. TreeInv => Linked
    <2> SUFFICES ASSUME TreeInv
                 PROVE  Linked
      OBVIOUS
    <2>1. \A n \in Hung, d \in Side : link[d][n] # Nil => link[d][n] \in Hung \ {root} /\ parent[link[d][n]] = n
      BY DEF TreeInv, Shape
    <2>2. \A n \in Hung \ {root} : \E d \in Side : link[d][parent[n]] = n
      BY DEF TreeInv, Shape
    <2>3. \A n \in Hung : root \in Above(n)
      BY RootAbove
    <2> QED BY <2>1, <2>2, <2>3 DEF Linked
  <1> QED BY <1>1, TreeInvariant, PTL

------------------------------------------------------------------------------
\* Above a node are its parent and what is above that.
LEMMA AboveParent ==
    ASSUME TreeInv, NEW m \in Hung, m # root, NEW p, p = parent[m]
    PROVE  /\ p \in Hung /\ Above(m) = Above(p) \cup {m} /\ m \notin Above(p)
  <1>1. p \in Hung /\ SideOf(m) \in Side /\ link[SideOf(m)][p] = m /\ m # Nil
    BY ParentSide, HungFacts DEF TreeInv
  <1>2. ASSUME NEW x \in Above(p)
        PROVE  x \in Above(m)
    <2>1. x \in Hung /\ \A S \in SUBSET Hung :
            p \in S /\ (\A y \in S \ {root} : parent[y] \in S) => x \in S
      BY <1>2 DEF Above
    <2>2. ASSUME NEW S \in SUBSET Hung, m \in S, \A y \in S \ {root} : parent[y] \in S
          PROVE  x \in S
      BY <2>1, <2>2
    <2> QED BY <2>1, <2>2 DEF Above
  <1>3. m \in Above(m)
    BY DEF Above
  <1>4. ASSUME NEW x \in Above(m), x # m
        PROVE  x \in Above(p)
    <2>1. x \in Hung /\ \A S \in SUBSET Hung :
            m \in S /\ (\A y \in S \ {root} : parent[y] \in S) => x \in S
      BY <1>4 DEF Above
    <2>2. ASSUME NEW S \in SUBSET Hung, p \in S, \A y \in S \ {root} : parent[y] \in S
          PROVE  x \in S
      <3>1. S \cup {m} \in SUBSET Hung /\ m \in S \cup {m}
        OBVIOUS
      <3>2. \A y \in (S \cup {m}) \ {root} : parent[y] \in S \cup {m}
        BY <2>2
      <3>3. x \in S \cup {m}
        BY <2>1, <3>1, <3>2
      <3> QED BY <1>4, <3>3
    <2> QED BY <2>1, <2>2 DEF Above
  <1>5. m \notin Above(p)
    <2>1. PICK rk \in [Node -> Nat] : Ranked(rk)
      BY DEF TreeInv, Acyclic
    <2>2. \A y \in Hung : rk[y] \in Nat
      BY <2>1, HungFacts DEF TreeInv
    <2>3. ASSUME NEW y \in Hung, y # root
          PROVE  parent[y] \in Hung /\ rk[parent[y]] < rk[y]
      <3>1. parent[y] \in Hung /\ SideOf(y) \in Side /\ link[SideOf(y)][parent[y]] = y /\ y # Nil
        BY <2>3, ParentSide, HungFacts DEF TreeInv
      <3> QED BY <2>1, <3>1 DEF Ranked
    <2> DEFINE S == {y \in Hung : rk[y] <= rk[p]}
    <2>4. S \in SUBSET Hung /\ p \in S
      BY <1>1, <2>2
    <2>5. ASSUME NEW y \in S, y # root
          PROVE  parent[y] \in S
      <3>1. y \in Hung /\ rk[y] <= rk[p]
        OBVIOUS
      <3>2. parent[y] \in Hung /\ rk[parent[y]] < rk[y]
        BY <2>3, <2>5, <3>1
      <3>3. rk[parent[y]] \in Nat /\ rk[y] \in Nat /\ rk[p] \in Nat
        BY <1>1, <2>2, <3>1, <3>2
      <3>4. rk[parent[y]] <= rk[p]
        BY <3>1, <3>2, <3>3
      <3> QED BY <3>2, <3>4
    <2>6. m \notin S
      <3>1. rk[p] < rk[m]
        BY <2>3
      <3>2. rk[p] \in Nat /\ rk[m] \in Nat
        BY <1>1, <2>2
      <3>3. ~(rk[m] <= rk[p])
        BY <3>1, <3>2
      <3> QED BY <3>3
    <2> HIDE DEF S
    <2>7. \A y \in S \ {root} : parent[y] \in S
      BY <2>5
    <2> QED BY <2>4, <2>6, <2>7 DEF Above
  <1> QED BY <1>1, <1>2, <1>3, <1>4, <1>5

\* The black nodes above n, with those below it, make up those below the root.
Counted(bh, n) ==
    /\ IsFiniteSet(Above(n) \ red)
    /\ bh[root] + Black(n) = bh[n] + Cardinality(Above(n) \ red)

\* They do at the root, and at the child of a node where they do.
LEMMA CountedAll ==
    ASSUME TreeInv, pc = "rest", NEW bh \in [Place -> Nat], Balanced(bh), NEW n \in Hung
    PROVE  Counted(bh, n)
  <1>1. root \in Hung /\ Hung \subseteq Place
    BY HungFacts DEF TreeInv, Shape
  <1>2. \A m \in Place : bh[m] \in Nat
    OBVIOUS
  <1>3. Counted(bh, root)
    <2>1. Above(root) = {root}
      <3>1. root \in Above(root)
        BY <1>1 DEF Above
      <3>2. ASSUME NEW x \in Above(root)
            PROVE  x = root
        <4>1. {root} \in SUBSET Hung /\ \A y \in {root} \ {root} : parent[y] \in {root}
          BY <1>1
        <4> QED BY <3>2, <4>1 DEF Above
      <3> QED BY <3>1, <3>2
    <2>2. root \notin red
      BY DEF TreeInv, Colored
    <2>3. Above(root) \ red = {root} /\ Black(root) = 1
      BY <2>1, <2>2 DEF Black
    <2>4. IsFiniteSet({root}) /\ Cardinality({root}) = 1
      BY FS_Singleton
    <2> QED BY <2>3, <2>4 DEF Counted
  <1>4. ASSUME NEW m \in Hung, m # root, Counted(bh, parent[m])
        PROVE  Counted(bh, m)
    <2>1. PICK p : p = parent[m]
      OBVIOUS
    <2>2. p \in Hung /\ Above(m) = Above(p) \cup {m} /\ m \notin Above(p)
      BY <1>4, <2>1, AboveParent
    <2>3. PICK A : A = Above(p) \ red
      OBVIOUS
    <2>4. IsFiniteSet(A) /\ bh[root] + Black(p) = bh[p] + Cardinality(A)
      BY <1>4, <2>1, <2>3 DEF Counted
    <2>5. Cardinality(A) \in Nat
      BY <2>4, FS_CardinalityType
    <2>6. PICK s \in Side : link[s][p] = m
      BY <1>4, <2>1, ParentSide DEF TreeInv
    <2>7. Lack(p, s) = 0
      BY DEF Lack
    <2>8. bh[p] = bh[m] + Black(p) + 0
      BY <2>2, <2>6, <2>7, BalanceAt
    <2>9. bh[p] \in Nat /\ bh[m] \in Nat /\ bh[root] \in Nat /\ Black(p) \in Nat
      BY <1>1, <1>2, <2>2, BlackIs
    <2>10. PICK q \in Nat, x \in Nat, y \in Nat, z \in Nat, v \in Nat :
             q = Cardinality(A) /\ x = bh[p] /\ y = bh[m] /\ z = bh[root] /\ v = Black(p)
      BY <2>5, <2>9
    <2>11. z + v = x + q /\ x = y + v + 0
      BY <2>4, <2>8, <2>10
    <2>12. z = y + q
      BY <2>11
    <2>13. CASE m \in red
      <3>1. Above(m) \ red = A /\ Black(m) = 0
        BY <2>2, <2>3, <2>13 DEF Black
      <3>2. z + 0 = y + q
        BY <2>12
      <3> QED BY <2>4, <2>10, <3>1, <3>2 DEF Counted
    <2>14. CASE m \notin red
      <3>1. Above(m) \ red = A \cup {m} /\ Black(m) = 1 /\ m \notin A
        BY <2>2, <2>3, <2>14 DEF Black
      <3>2. IsFiniteSet(A \cup {m}) /\ Cardinality(A \cup {m}) = q + 1
        BY <2>4, <2>10, <3>1, FS_AddElement
      <3>3. z + 1 = y + (q + 1)
        BY <2>12
      <3> QED BY <2>10, <3>1, <3>2, <3>3 DEF Counted
    <2> QED BY <2>13, <2>14
  <1> DEFINE S == {m \in Hung : Counted(bh, m)}
  <1>5. root \in S
    BY <1>1, <1>3
  <1>6. \A m \in Hung \ {root} : parent[m] \in S => m \in S
    BY <1>4
  <1> HIDE DEF S
  <1>7. Hung \subseteq S
    BY <1>5, <1>6, FromRoot DEF TreeInv
  <1> QED BY <1>7 DEF S

\* insert and remove leave a balanced tree, whatever the nodes and the keys.
THEOREM TreeBalanced == Spec => []RedBlack
  <1>1. TreeInv => RedBlack
    <2> SUFFICES ASSUME TreeInv, pc = "rest"
                 PROVE  /\ {root, Nil} \cap red = {}
                        /\ \A n \in Hung, d \in Side : n \in red => link[d][n] \notin red
                        /\ \A m, n \in Removable :
                             Cardinality(Above(m) \ red) = Cardinality(Above(n) \ red)
      BY DEF RedBlack
    <2>1. {root, Nil} \cap red = {}
      BY HungFacts DEF TreeInv, Colored, Store
    <2>2. \A n \in Hung, d \in Side : n \in red => link[d][n] \notin red
      BY DEF TreeInv, Colored
    <2>3. PICK bh \in [Place -> Nat] : Balanced(bh)
      BY DEF TreeInv, Even
    <2>4. ASSUME NEW n \in Removable
          PROVE  Cardinality(Above(n) \ red) = bh[root]
      <3>1. PICK s \in Side : n \in Hung /\ link[s][n] = Nil
        BY DEF Removable
      <3>2. Counted(bh, n)
        BY <2>3, <3>1, CountedAll
      <3>3. Lack(n, s) = 0 /\ bh[Nil] = 0
        BY <2>3 DEF Lack, Balanced
      <3>4. bh[n] = 0 + Black(n) + 0
        BY <2>3, <3>1, <3>3, BalanceAt
      <3>5. Black(n) \in Nat /\ Cardinality(Above(n) \ red) \in Nat
        BY <3>2, BlackIs, FS_CardinalityType DEF Counted
      <3>6. root \in Place
        BY <3>1, HungFacts DEF TreeInv, Shape
      <3>7. bh[root] \in Nat
        BY <3>6
      <3> QED BY <3>2, <3>4, <3>5, <3>7 DEF Counted
    <2> QED BY <2>1, <2>2, <2>4
  <1> QED BY <1>1, TreeInvariant, PTL

------------------------------------------------------------------------------
\* S holds the nodes that min() has passed on its way down the left links.
Spine(S, rng) ==
    /\ S \subseteq Hung /\ root \in S /\ at \in S
    /\ \A s \in S \ {at} : link["left"][s] \in S /\ \A k \in rng[at] : k <= key[s]

\* The keys are in order, and the descents go where the key belongs, where the
\* least key is.
Ordered ==
    \E rng \in [Node -> SUBSET Int] :
      /\ Ranged(rng)
      /\ pc = "descend" => key[new] \in rng[at]
      /\ pc = "min" => \E S : Spine(S, rng)

\* The ranges depend on the child links, the root and the keys.
LEMMA SameRanges ==
    ASSUME TreeInv, NEW rng, Ranged(rng), root' = root, link' = link, \A n \in Hung : key'[n] = key[n]
    PROVE  Ranged(rng)'
  <1>1. Hung' = Hung
    BY DEF Hung
  <1> QED BY <1>1 DEF Ranged

\* The steps after which no descent is under way.
LEMMA RangesAfter ==
    ASSUME \E rng \in [Node -> SUBSET Int] : Ranged(rng)', pc' \notin {"descend", "min"}
    PROVE  Ordered'
  BY DEF Ordered

\* Every rotation of the loops is of a hung node with a child to rise.
LEMMA RotationsTurn ==
    ASSUME TreeInv,
           InsertTurn \/ InsertRotate \/ RemoveRedSibling \/ RemoveTurn \/ RemoveRotate
    PROVE  \E d \in Side, n \in Hung : link[Other(d)][n] # Nil /\ Rotate(d, n)
  <1>1. PICK bh \in [Place -> Nat] : Balanced(bh)
    BY DEF TreeInv, Even
  <1>2. CASE InsertTurn
    <2>1. PICK p : p = parent[at]
      OBVIOUS
    <2>2. PICK f : f = SideOf(p)
      OBVIOUS
    <2>3. InsertLoop /\ Rotate(f, p) /\ SideOf(at) # f
      BY <1>2, <2>1, <2>2 DEF InsertTurn
    <2>4. p \in Hung /\ f \in Side /\ SideOf(at) \in Side /\ link[SideOf(at)][p] = at /\ at # Nil
      BY <2>1, <2>2, <2>3, InsertAround
    <2>5. link[Other(f)][p] # Nil
      BY <2>3, <2>4, Sides
    <2> QED BY <2>3, <2>4, <2>5
  <1>3. CASE InsertRotate
    <2>1. PICK g : g = Grand
      OBVIOUS
    <2>2. PICK f : f = SideOf(parent[at])
      OBVIOUS
    <2>3. InsertLoop /\ Rotate(Other(f), g)
      BY <1>3, <2>1, <2>2 DEF InsertRotate
    <2>4. g \in Hung /\ f \in Side /\ link[f][g] # Nil
      BY <2>1, <2>2, <2>3, InsertAround
    <2>5. Other(f) \in Side /\ Other(Other(f)) = f
      BY <2>4, Sides
    <2> QED BY <2>3, <2>4, <2>5
  <1>4. CASE RemoveRedSibling \/ RemoveRotate
    <2>1. PICK u : u = parent[at]
      OBVIOUS
    <2>2. PICK f : f = SideOf(at)
      OBVIOUS
    <2>3. RemoveLoop /\ Rotate(f, u)
      BY <1>4, <2>1, <2>2 DEF RemoveRedSibling, RemoveRotate
    <2>4. u \in Hung /\ f \in Side /\ link[Other(f)][u] # Nil
      BY <1>1, <2>1, <2>2, <2>3, RemoveAround
    <2> QED BY <2>3, <2>4
  <1>5. CASE RemoveTurn
    <2>1. PICK w : w = Sibling
      OBVIOUS
    <2>2. PICK f : f = SideOf(at)
      OBVIOUS
    <2>3. RemoveLoop /\ Rotate(Other(f), w) /\ link[f][w] \in red
      BY <1>5, <2>1, <2>2 DEF RemoveTurn, Near
    <2>4. w \in Hung /\ f \in Side /\ Other(f) \in Side
      BY <1>1, <2>1, <2>2, <2>3, RemoveAround
    <2>5. Other(Other(f)) = f /\ link[f][w] # Nil
      BY <2>3, <2>4, Sides, RotateNeeds
    <2> QED BY <2>3, <2>4, <2>5
  <1> QED BY <1>2, <1>3, <1>4, <1>5

\* A rotation keeps the nodes that are hung.
LEMMA RotationsHung ==
    ASSUME TreeInv,
           InsertTurn \/ InsertRotate \/ RemoveRedSibling \/ RemoveTurn \/ RemoveRotate
    PROVE  Hung' = Hung
  <1>1. PICK d \in Side, n \in Hung : link[Other(d)][n] # Nil /\ Rotate(d, n)
    BY RotationsTurn
  <1> QED BY <1>1, RotateShape DEF TreeInv

\* A rotation keeps the keys in order.
LEMMA RotationsOrdered ==
    ASSUME TreeInv, Ordered,
           InsertTurn \/ InsertRotate \/ RemoveRedSibling \/ RemoveTurn \/ RemoveRotate
    PROVE  Ordered'
  <1>1. PICK rng \in [Node -> SUBSET Int] : Ranged(rng)
    BY DEF Ordered
  <1>2. pc' \notin {"descend", "min"} /\ key' = key
    BY DEF InsertTurn, InsertRotate, RemoveRedSibling, RemoveTurn, RemoveRotate, InsertLoop, RemoveLoop
  <1>3. PICK d \in Side, n \in Hung : link[Other(d)][n] # Nil /\ Rotate(d, n)
    BY RotationsTurn
  <1>4. \E rng2 \in [Node -> SUBSET Int] : Ranged(rng2)'
    BY <1>1, <1>2, <1>3, RotateRanged DEF TreeInv
  <1> QED BY <1>2, <1>4, RangesAfter

\* The steps that hang a node or take one out.
LEMMA ChangesOrdered ==
    ASSUME TreeInv, Ordered, InsertRoot \/ InsertHang \/ RemoveRoot \/ RemoveRed \/ RemoveBlack
    PROVE  Ordered'
  <1>1. PICK rng \in [Node -> SUBSET Int] : Ranged(rng) /\ (pc = "descend" => key[new] \in rng[at])
    BY DEF Ordered
  <1>2. pc' \notin {"descend", "min"}
    BY DEF InsertRoot, InsertHang, RemoveRoot, RemoveRed, RemoveBlack, Unhook
  <1>3. CASE InsertRoot
    <2>1. PICK n \in Node \ Hung, k \in Key :
            /\ key' = [key EXCEPT ![n] = k]
            /\ link' = [d \in Side |-> [link[d] EXCEPT ![n] = Nil]]
            /\ parent' = [parent EXCEPT ![n] = NULL]
            /\ root' = n /\ root = Nil
      BY <1>3 DEF InsertRoot
    <2>2. key' \in [Node -> Int]
      <3>1. TreeInv'
        BY <1>3, InsertRootInv
      <3> QED BY <3>1 DEF TreeInv, Store
    <2>3. \E rng2 \in [Node -> SUBSET Int] : Ranged(rng2)'
      BY <2>1, <2>2, FirstShape DEF TreeInv
    <2> QED BY <1>2, <2>3, RangesAfter
  <1>4. CASE InsertHang
    <2>1. PICK a : a = at
      OBVIOUS
    <2>2. PICK x : x = new
      OBVIOUS
    <2>3. PICK f : f = Toward
      OBVIOUS
    <2>4. /\ pc = "descend" /\ link[f][a] = Nil /\ root' = root /\ key' = key
          /\ link' = [d \in Side |-> [m \in Place |->
                        CASE m = x -> Nil [] m = a /\ d = f -> x [] OTHER -> link[d][m]]]
          /\ parent' = [parent EXCEPT ![x] = a]
      BY <1>4, <2>1, <2>2, <2>3 DEF InsertHang
    <2>5. f \in Side
      BY <2>3 DEF Toward, Side
    <2>6. a \in Hung /\ x \in Node \ Hung
      BY <2>1, <2>2, <2>4 DEF TreeInv, Job
    <2>7. Hung' = Hung \cup {x}
      BY <2>4, <2>5, <2>6, LeafShape DEF TreeInv
    <2>8. key[x] \in rng[a]
      BY <1>1, <2>1, <2>2, <2>4
    <2>9. key[x] \in Int /\ key[a] \in Int
      BY <2>6, HungFacts DEF TreeInv, Store
    <2>10. Ord(f, key[x], key[a])
      BY <2>1, <2>2, <2>3, <2>9 DEF Toward, Ord
    <2>11. \E rng2 \in [Node -> SUBSET Int] : Ranged(rng2)'
      BY <1>1, <2>4, <2>5, <2>6, <2>7, <2>8, <2>10, LeafRanged DEF TreeInv
    <2> QED BY <1>2, <2>11, RangesAfter
  <1>5. CASE RemoveRoot
    <2>1. PICK r : r = root
      OBVIOUS
    <2>2. PICK c : c = Orphan(root)
      OBVIOUS
    <2>3. /\ root \in Removable /\ root' = c
          /\ link' = [d \in Side |-> [link[d] EXCEPT ![r] = NULL]]
          /\ parent' = [parent EXCEPT ![r] = NULL]
          /\ key' = [key EXCEPT ![r] = 0]
      BY <1>5, <2>1, <2>2 DEF RemoveRoot, reset
    <2>4. Hung' = Hung \ {r}
      BY <2>1, <2>2, <2>3, RootGone DEF TreeInv
    <2>5. key \in [Node -> Int]
      BY DEF TreeInv, Store
    <2>6. \E rng2 \in [Node -> SUBSET Int] : Ranged(rng2)'
      BY <1>1, <2>1, <2>2, <2>3, <2>4, <2>5, RootGoneRanged DEF TreeInv
    <2> QED BY <1>2, <2>6, RangesAfter
  <1>6. CASE RemoveRed \/ RemoveBlack
    <2>1. PICK n \in Removable : Unhook(n)
      BY <1>6 DEF RemoveRed, RemoveBlack
    <2>2. n # root
      BY <2>1 DEF Unhook
    <2>3. key \in [Node -> Int]
      BY DEF TreeInv, Store
    <2>4. Ranged(rng)'
      BY <1>1, <2>1, <2>2, <2>3, UnhookRanged DEF TreeInv
    <2> QED BY <1>2, <2>4, RangesAfter
  <1> QED BY <1>3, <1>4, <1>5, <1>6

\* The descents: that of insert widens the range of the node it comes to.
LEMMA DescentsOrdered ==
    ASSUME TreeInv, Ordered, InsertBegin \/ InsertDescend \/ MinBegin \/ MinDescend
    PROVE  Ordered'
  <1>1. PICK rng \in [Node -> SUBSET Int] :
          /\ Ranged(rng)
          /\ pc = "descend" => key[new] \in rng[at]
          /\ pc = "min" => \E S : Spine(S, rng)
    BY DEF Ordered
  <1>2. Hung \subseteq Node /\ Hung \subseteq Place /\ Nil \notin Hung
    BY HungFacts DEF TreeInv
  <1>3. /\ \A n \in Hung : key[n] \in rng[n]
        /\ \A n \in Hung, d \in Side : link[d][n] # Nil =>
             \A k \in rng[link[d][n]] : k \in rng[n] /\ Ord(d, k, key[n])
        /\ root # Nil => rng[root] = Int
    BY <1>1 DEF Ranged
  <1>4. \A n \in Hung, d \in Side : link[d][n] \in Hung \cup {Nil} /\ link[d][n] # root
    BY DEF TreeInv, Shape
  <1>5. CASE InsertBegin
    <2>1. PICK n \in Node \ Hung, k \in Key : key' = [key EXCEPT ![n] = k] /\ new' = n
      BY <1>5 DEF InsertBegin
    <2>2. root # Nil /\ at' = root /\ root' = root /\ link' = link /\ pc' = "descend"
      BY <1>5 DEF InsertBegin, treeVars
    <2>3. k \in Int
      BY TreeAssumption
    <2>4. key \in [Node -> Int]
      BY DEF TreeInv, Store
    <2>5. key'[new'] \in rng[at'] /\ \A m \in Hung : key'[m] = key[m]
      BY <1>2, <1>3, <2>1, <2>2, <2>3, <2>4
    <2>6. Ranged(rng)'
      BY <1>1, <2>2, <2>5, SameRanges
    <2> QED BY <2>2, <2>5, <2>6 DEF Ordered
  <1>6. CASE InsertDescend
    <2>1. PICK a : a = at
      OBVIOUS
    <2>2. PICK f : f = Toward
      OBVIOUS
    <2>3. PICK b : b = link[f][a]
      OBVIOUS
    <2>4. PICK k : k = key[new]
      OBVIOUS
    <2>5. /\ pc = "descend" /\ pc' = "descend" /\ b # Nil /\ at' = b /\ key'[new'] = k
          /\ root' = root /\ link' = link /\ key' = key
      BY <1>6, <2>1, <2>2, <2>3, <2>4 DEF InsertDescend, treeVars
    <2>6. f \in Side /\ a \in Hung /\ new \in Node
      BY <2>1, <2>2, <2>5 DEF Toward, Side, TreeInv, Job
    <2>7. b \in Hung /\ b # root /\ a # b
      <3>1. a # b
        BY <2>3, <2>5, <2>6, Apart DEF TreeInv
      <3> QED BY <1>4, <2>3, <2>5, <2>6, <3>1
    <2>8. k \in Int /\ key[a] \in Int
      BY <1>2, <2>4, <2>6 DEF TreeInv, Store
    <2>9. k \in rng[a] /\ Ord(f, k, key[a])
      BY <1>1, <2>1, <2>2, <2>4, <2>5, <2>8 DEF Toward, Ord
    <2> DEFINE wide == [m \in Node |-> IF m = b THEN rng[b] \cup {k} ELSE rng[m]]
    <2>10. wide \in [Node -> SUBSET Int]
      BY <1>2, <2>7, <2>8
    <2>11. wide[b] = rng[b] \cup {k} /\ \A m \in Hung : m # b => wide[m] = rng[m]
      BY <1>2, <2>7
    <2> HIDE DEF wide
    <2>12. PICK rng2 \in [Node -> SUBSET Int] :
             rng2[b] = rng[b] \cup {k} /\ \A m \in Hung : m # b => rng2[m] = rng[m]
      BY <2>10, <2>11
    <2>13. \A m \in Hung : key[m] \in rng2[m]
      BY <1>3, <2>12
    <2>14. ASSUME NEW m \in Hung, NEW d \in Side, link[d][m] # Nil, NEW j \in rng2[link[d][m]]
           PROVE  j \in rng2[m] /\ Ord(d, j, key[m])
      <3>1. \A x \in Hung : \A y \in rng[x] : y \in rng2[x]
        BY <2>12
      <3>2. CASE j \in rng[link[d][m]]
        BY <1>3, <2>14, <3>1, <3>2
      <3>3. CASE link[d][m] = b /\ j = k
        <4>1. m = a /\ d = f
          <5>1. parent[b] = m /\ parent[b] = a
            BY <2>3, <2>5, <2>6, <2>14, <3>3 DEF TreeInv, Shape
          <5>2. SideOf(b) = d /\ SideOf(b) = f
            BY <2>3, <2>5, <2>6, <2>14, <3>3, ChildSide DEF TreeInv
          <5> QED BY <5>1, <5>2
        <4> QED BY <2>6, <2>7, <2>9, <2>12, <3>3, <4>1
      <3>4. link[d][m] \in Hung
        BY <1>4, <2>14
      <3> QED BY <2>12, <2>14, <3>2, <3>3, <3>4
    <2>15. root # Nil => rng2[root] = Int
      BY <1>3, <2>7, <2>12 DEF TreeInv, Shape
    <2>16. Ranged(rng2)
      BY <2>13, <2>14, <2>15 DEF Ranged
    <2>17. Ranged(rng2)'
      BY <2>5, <2>16, SameRanges
    <2>18. key'[new'] \in rng2[at']
      BY <2>5, <2>12
    <2> QED BY <2>5, <2>17, <2>18 DEF Ordered
  <1>7. CASE MinBegin
    <2>1. pc' = "min" /\ at' = root /\ root # Nil /\ root' = root /\ link' = link /\ key' = key
      BY <1>7 DEF MinBegin, treeVars
    <2>2. Ranged(rng)'
      BY <1>1, <2>1, SameRanges
    <2>3. root \in Hung
      BY <2>1 DEF TreeInv, Shape
    <2>4. PICK S : S = {root}
      OBVIOUS
    <2>5. Hung' = Hung
      BY <2>1 DEF Hung
    <2>6. Spine(S, rng)'
      BY <2>1, <2>3, <2>4, <2>5 DEF Spine
    <2> QED BY <2>1, <2>2, <2>6 DEF Ordered
  <1>8. CASE MinDescend
    <2>1. PICK a : a = at
      OBVIOUS
    <2>2. PICK b : b = link["left"][a]
      OBVIOUS
    <2>3. /\ pc = "min" /\ pc' = "min" /\ b # Nil /\ at' = b
          /\ root' = root /\ link' = link /\ key' = key
      BY <1>8, <2>1, <2>2 DEF MinDescend, treeVars
    <2>4. Ranged(rng)'
      BY <1>1, <2>3, SameRanges
    <2>5. PICK S : Spine(S, rng)
      BY <1>1, <2>3
    <2>6. /\ S \subseteq Hung /\ root \in S /\ a \in S
          /\ \A s \in S \ {a} : link["left"][s] \in S /\ \A k \in rng[a] : k <= key[s]
      BY <2>1, <2>5 DEF Spine
    <2>7. b \in Hung
      BY <1>4, <2>2, <2>3, <2>6 DEF Side
    <2>8. \A k \in rng[b] : k \in rng[a] /\ k <= key[a]
      BY <1>3, <2>2, <2>3, <2>6 DEF Side, Ord
    <2>9. PICK S2 : S2 = S \cup {b}
      OBVIOUS
    <2>10. /\ S2 \subseteq Hung /\ root \in S2 /\ b \in S2
           /\ \A s \in S2 \ {b} : link["left"][s] \in S2 /\ \A k \in rng[b] : k <= key[s]
      BY <2>2, <2>6, <2>7, <2>8, <2>9
    <2>11. Hung' = Hung
      BY <2>3 DEF Hung
    <2>12. Spine(S2, rng)'
      BY <2>3, <2>10, <2>11 DEF Spine
    <2> QED BY <2>3, <2>4, <2>12 DEF Ordered
  <1> QED BY <1>5, <1>6, <1>7, <1>8

\* Every step keeps the keys in order.
LEMMA NextOrdered ==
    ASSUME TreeInv, Ordered, [Next]_vars
    PROVE  Ordered'
  <1>1. CASE InsertTurn \/ InsertRotate \/ RemoveRedSibling \/ RemoveTurn \/ RemoveRotate
    BY <1>1, RotationsOrdered
  <1>2. CASE InsertRoot \/ InsertHang \/ RemoveRoot \/ RemoveRed \/ RemoveBlack
    BY <1>2, ChangesOrdered
  <1>3. CASE InsertBegin \/ InsertDescend \/ MinBegin \/ MinDescend
    BY <1>3, DescentsOrdered
  <1>4. CASE InsertRecolor \/ InsertEnd \/ RemoveRecolor \/ RemoveEnd \/ MinEnd
    <2>1. root' = root /\ link' = link /\ key' = key /\ pc' \notin {"descend", "min"}
      BY <1>4 DEF InsertRecolor, InsertEnd, RemoveRecolor, RemoveEnd, MinEnd, Return, treeVars,
                  InsertLoop, RemoveLoop
    <2>2. PICK rng \in [Node -> SUBSET Int] : Ranged(rng)
      BY DEF Ordered
    <2>3. Ranged(rng)'
      BY <2>1, <2>2, SameRanges
    <2> QED BY <2>1, <2>3, RangesAfter
  <1>5. CASE UNCHANGED vars
    <2>1. root' = root /\ link' = link /\ key' = key /\ pc' = pc /\ at' = at /\ new' = new
      BY <1>5 DEF vars
    <2>2. PICK rng \in [Node -> SUBSET Int] :
            /\ Ranged(rng)
            /\ pc = "descend" => key[new] \in rng[at]
            /\ pc = "min" => \E S : Spine(S, rng)
      BY DEF Ordered
    <2>3. Ranged(rng)'
      BY <2>1, <2>2, SameRanges
    <2>4. \A S : Spine(S, rng) => Spine(S, rng)'
      BY <2>1 DEF Spine, Hung
    <2> QED BY <2>1, <2>2, <2>3, <2>4 DEF Ordered
  <1> QED BY <1>1, <1>2, <1>3, <1>4, <1>5 DEF Next, Step, Call

\* Where the left links end is a least key.
LEMMA LeastAtEnd ==
    ASSUME TreeInv, Ordered, pc = "min", link["left"][at] = Nil
    PROVE  \A m \in Hung : key[at] <= key[m]
  <1>1. PICK rng \in [Node -> SUBSET Int] : Ranged(rng) /\ \E S : Spine(S, rng)
    BY DEF Ordered
  <1>2. PICK S : Spine(S, rng)
    BY <1>1
  <1>3. /\ S \subseteq Hung /\ root \in S /\ at \in S
        /\ \A s \in S \ {at} : link["left"][s] \in S /\ \A k \in rng[at] : k <= key[s]
    BY <1>2 DEF Spine
  <1>4. /\ \A n \in Hung : key[n] \in rng[n]
        /\ \A n \in Hung, d \in Side : link[d][n] # Nil =>
             \A k \in rng[link[d][n]] : k \in rng[n] /\ Ord(d, k, key[n])
    BY <1>1 DEF Ranged
  <1>5. \A n \in Hung : key[n] \in Int /\ \A k \in rng[n] : k \in Int
    BY <1>1, HungFacts DEF TreeInv, Store
  <1>6. \A s \in S : key[at] <= key[s]
    BY <1>3, <1>4, <1>5
  <1> DEFINE T == {m \in Hung : m \in S \/ \A k \in rng[m] : key[at] <= k}
  <1>7. root \in T
    BY <1>3
  <1>8. ASSUME NEW m \in Hung, m # root, parent[m] \in T
        PROVE  m \in T
    <2>1. PICK p : p = parent[m]
      OBVIOUS
    <2>2. PICK s \in Side : p \in Hung /\ link[s][p] = m /\ m # Nil
      BY <1>8, <2>1, ParentSide, HungFacts DEF TreeInv
    <2>3. \A k \in rng[m] : k \in rng[p] /\ Ord(s, k, key[p]) /\ k \in Int
      BY <1>4, <1>5, <2>2
    <2>4. CASE p \in S /\ s = "left"
      <3>1. p # at
        BY <2>2, <2>4
      <3> QED BY <1>3, <2>2, <2>4, <3>1
    <2>5. CASE p \in S /\ s # "left"
      <3>1. key[at] <= key[p] /\ key[at] \in Int /\ key[p] \in Int
        BY <1>3, <1>5, <1>6, <2>2, <2>5
      <3>2. ASSUME NEW k \in rng[m]
            PROVE  key[at] <= k
        <4>1. key[p] <= k /\ k \in Int
          BY <2>3, <2>5 DEF Ord
        <4> QED BY <3>1, <4>1
      <3> QED BY <3>2
    <2>6. CASE p \notin S
      BY <1>8, <2>1, <2>3, <2>6
    <2> QED BY <2>4, <2>5, <2>6
  <1> HIDE DEF T
  <1>9. \A m \in Hung \ {root} : parent[m] \in T => m \in T
    BY <1>8
  <1>10. Hung \subseteq T
    BY <1>7, <1>9, FromRoot DEF TreeInv
  <1> QED BY <1>4, <1>6, <1>10 DEF T

------------------------------------------------------------------------------
\* What the collection of timers holds.
Armed == [n \in Hung |-> key[n]]

\* A step that leaves the hung nodes and their keys alone leaves the collection.
LEMMA SameArmed ==
    ASSUME Hung' = Hung, \A n \in Hung : key'[n] = key[n]
    PROVE  Armed' = Armed
  BY DEF Armed

\* A node is hung: it is armed.
LEMMA ArmStep ==
    ASSUME NEW n \in Node \ Hung, NEW k \in Key, Hung' = Hung \cup {n}, key'[n] = k,
           \A m \in Hung : key'[m] = key[m], first' = {}
    PROVE  Collection!Next
  <1>1. Armed' = [m \in Hung \cup {n} |-> IF m = n THEN k ELSE Armed[m]] /\ DOMAIN Armed = Hung
    BY DEF Armed
  <1>2. Collection!Arm(n, k)
    BY <1>1 DEF Collection!Arm, Armed
  <1> QED BY <1>2 DEF Collection!Next

\* A node is taken out: it is disarmed.
LEMMA DisarmStep ==
    ASSUME NEW n \in Node, n \in Hung, Hung' = Hung \ {n},
           \A m \in Hung \ {n} : key'[m] = key[m], first' = {}
    PROVE  Collection!Next
  <1>1. Armed' = [m \in Hung \ {n} |-> Armed[m]] /\ DOMAIN Armed = Hung
    BY DEF Armed
  <1>2. Collection!Disarm(n)
    BY <1>1 DEF Collection!Disarm, Armed
  <1> QED BY <1>2 DEF Collection!Next

\* The first node with the least key is found.
LEMMA LeastStep ==
    ASSUME NEW a \in Hung, Armed' = Armed, \A m \in Hung : key[a] <= key[m], first' = {a}
    PROVE  Collection!Next
  <1>1. DOMAIN Armed = Hung /\ \A m \in Hung : Armed[m] = key[m]
    BY DEF Armed
  <1>2. \A m \in Hung : Armed[a] <= Armed[m]
    BY <1>1
  <1>3. Collection!Least
    BY <1>1, <1>2 DEF Collection!Least, Armed
  <1> QED BY <1>3 DEF Collection!Next

\* Every step of the tree is one of the collection, or none.
LEMMA NextTimers ==
    ASSUME TreeInv, Ordered, [Next]_vars
    PROVE  [Collection!Next]_(Collection!timerVars)
  <1>1. ASSUME Armed' = Armed, first' = first
        PROVE  UNCHANGED Collection!timerVars
    BY <1>1 DEF Collection!timerVars, Armed
  <1>2. Hung \subseteq Node
    BY HungFacts DEF TreeInv
  <1>3. key \in [Node -> Int]
    BY DEF TreeInv, Store
  <1>4. CASE InsertTurn \/ InsertRotate \/ RemoveRedSibling \/ RemoveTurn \/ RemoveRotate
    <2>1. key' = key /\ first' = first
      BY <1>4 DEF InsertTurn, InsertRotate, RemoveRedSibling, RemoveTurn, RemoveRotate
    <2>2. Hung' = Hung
      BY <1>4, RotationsHung
    <2> QED BY <1>1, <2>1, <2>2, SameArmed
  <1>5. CASE \/ InsertDescend \/ MinBegin \/ MinDescend \/ UNCHANGED vars
             \/ InsertRecolor \/ InsertEnd \/ RemoveRecolor \/ RemoveEnd
    <2>1. link' = link /\ key' = key /\ first' = first
      BY <1>5 DEF InsertDescend, MinBegin, MinDescend, vars, treeVars, InsertRecolor, InsertEnd,
                  RemoveRecolor, RemoveEnd
    <2>2. Hung' = Hung
      BY <2>1 DEF Hung
    <2> QED BY <1>1, <2>1, <2>2, SameArmed
  <1>6. CASE InsertBegin
    <2>1. PICK n \in Node \ Hung, k \in Key : key' = [key EXCEPT ![n] = k]
      BY <1>6 DEF InsertBegin
    <2>2. link' = link /\ first' = first
      BY <1>6 DEF InsertBegin, treeVars
    <2>3. Hung' = Hung /\ \A m \in Hung : key'[m] = key[m]
      BY <1>2, <1>3, <2>1, <2>2 DEF Hung
    <2> QED BY <1>1, <2>2, <2>3, SameArmed
  <1>7. CASE InsertRoot
    <2>1. PICK n \in Node \ Hung, k \in Key :
            /\ key' = [key EXCEPT ![n] = k]
            /\ link' = [d \in Side |-> [link[d] EXCEPT ![n] = Nil]]
            /\ parent' = [parent EXCEPT ![n] = NULL]
            /\ root' = n /\ root = Nil /\ first' = {}
      BY <1>7 DEF InsertRoot
    <2>2. key' \in [Node -> Int]
      <3>1. TreeInv'
        BY <1>7, InsertRootInv
      <3> QED BY <3>1 DEF TreeInv, Store
    <2>3. Hung = {} /\ Hung' = {n}
      BY <2>1, <2>2, FirstShape DEF TreeInv
    <2>4. key'[n] = k /\ first' = {}
      BY <1>3, <2>1
    <2>5. Hung' = Hung \cup {n} /\ \A m \in Hung : key'[m] = key[m]
      BY <2>3
    <2> QED BY <2>4, <2>5, ArmStep
  <1>8. CASE InsertHang
    <2>1. PICK a : a = at
      OBVIOUS
    <2>2. PICK x : x = new
      OBVIOUS
    <2>3. PICK f : f = Toward
      OBVIOUS
    <2>4. /\ pc = "descend" /\ link[f][a] = Nil /\ root' = root /\ key' = key /\ first' = {}
          /\ link' = [d \in Side |-> [m \in Place |->
                        CASE m = x -> Nil [] m = a /\ d = f -> x [] OTHER -> link[d][m]]]
          /\ parent' = [parent EXCEPT ![x] = a]
      BY <1>8, <2>1, <2>2, <2>3 DEF InsertHang
    <2>5. f \in Side
      BY <2>3 DEF Toward, Side
    <2>6. a \in Hung /\ x \in Node \ Hung /\ key[x] \in Key
      BY <2>1, <2>2, <2>4 DEF TreeInv, Job
    <2>7. Hung' = Hung \cup {x}
      BY <2>4, <2>5, <2>6, LeafShape DEF TreeInv
    <2>8. PICK k : k = key[x]
      OBVIOUS
    <2>9. k \in Key /\ key'[x] = k /\ first' = {} /\ \A m \in Hung : key'[m] = key[m]
      BY <2>4, <2>6, <2>8
    <2> QED BY <2>6, <2>7, <2>9, ArmStep
  <1>9. CASE RemoveRoot
    <2>1. PICK r : r = root
      OBVIOUS
    <2>2. PICK c : c = Orphan(root)
      OBVIOUS
    <2>3. /\ root \in Removable /\ root' = c /\ first' = {}
          /\ link' = [d \in Side |-> [link[d] EXCEPT ![r] = NULL]]
          /\ parent' = [parent EXCEPT ![r] = NULL]
          /\ key' = [key EXCEPT ![r] = 0]
      BY <1>9, <2>1, <2>2 DEF RemoveRoot, reset
    <2>4. Hung' = Hung \ {r} /\ r \in Hung
      BY <2>1, <2>2, <2>3, RootGone DEF TreeInv, Removable
    <2>5. r \in Node /\ first' = {} /\ \A m \in Hung \ {r} : key'[m] = key[m]
      BY <1>2, <1>3, <2>3, <2>4
    <2> QED BY <2>4, <2>5, DisarmStep
  <1>10. CASE RemoveRed \/ RemoveBlack
    <2>1. PICK n \in Removable : Unhook(n)
      BY <1>10 DEF RemoveRed, RemoveBlack
    <2>2. n # root /\ n \in Hung /\ first' = {} /\ key' = [key EXCEPT ![n] = 0]
      BY <2>1 DEF Unhook, reset, Removable
    <2>3. Hung' = Hung \ {n}
      BY <2>1, <2>2, UnhookShape DEF TreeInv
    <2>4. n \in Node /\ \A m \in Hung \ {n} : key'[m] = key[m]
      BY <1>2, <1>3, <2>2
    <2> QED BY <2>2, <2>3, <2>4, DisarmStep
  <1>11. CASE MinEnd
    <2>1. PICK a : a = at
      OBVIOUS
    <2>2. pc = "min" /\ link["left"][a] = Nil /\ first' = {a} /\ link' = link /\ key' = key
      BY <1>11, <2>1 DEF MinEnd, treeVars
    <2>3. a \in Hung
      BY <2>1, <2>2 DEF TreeInv, Job
    <2>4. \A m \in Hung : key[a] <= key[m]
      BY <2>1, <2>2, LeastAtEnd
    <2>5. Hung' = Hung
      BY <2>2 DEF Hung
    <2>6. Armed' = Armed
      BY <2>2, <2>5, SameArmed
    <2> QED BY <2>2, <2>3, <2>4, <2>6, LeastStep
  <1> QED BY <1>4, <1>5, <1>6, <1>7, <1>8, <1>9, <1>10, <1>11 DEF Next, Step, Call

\* The empty tree is in order.
LEMMA InitOrdered == Init => Ordered
  <1> SUFFICES ASSUME Init
               PROVE  Ordered
    OBVIOUS
  <1>1. Hung = {} /\ root = Nil /\ pc = "rest"
    BY InitInv DEF Init
  <1> DEFINE rng == [n \in Node |-> Int]
  <1>2. rng \in [Node -> SUBSET Int]
    OBVIOUS
  <1> HIDE DEF rng
  <1>3. Ranged(rng)
    BY <1>1 DEF Ranged
  <1> QED BY <1>1, <1>2, <1>3 DEF Ordered

\* The tree implements the collection of timers, whatever the nodes and the
\* keys: no node is lost or duplicated, and min() returns one with the least key.
THEOREM TreeImplementsTimers == Spec => ImplementsTimers
  <1>1. Init => Ordered
    BY InitOrdered
  <1>2. Init => Collection!Init
    <2> SUFFICES ASSUME Init
                 PROVE  Collection!Init
      OBVIOUS
    <2>1. Hung = {} /\ first = {}
      BY InitInv DEF Init
    <2>2. [n \in Hung |-> key[n]] = [n \in {} |-> 0]
      BY <2>1
    <2> QED BY <2>1, <2>2 DEF Collection!Init
  <1>3. TreeInv /\ Ordered /\ [Next]_vars => Ordered'
    BY NextOrdered
  <1>4. TreeInv /\ Ordered /\ [Next]_vars => [Collection!Next]_(Collection!timerVars)
    BY NextTimers
  <1> QED BY <1>1, <1>2, <1>3, <1>4, TreeInvariant, PTL DEF Spec, ImplementsTimers, Collection!Spec


------------------------------------------------------------------------------
\* The way up from a node: one more than that of its parent, and finite.
Ladder ==
    /\ root \in Hung => Above(root) = {root}
    /\ \A m \in Hung : m \in Above(m) /\ root \in Above(m) /\ Above(m) \in SUBSET Hung
    /\ \A m \in Hung : IsFiniteSet(Above(m))
    /\ \A m \in Hung \ {root} :
         /\ parent[m] \in Hung
         /\ Above(m) = Above(parent[m]) \cup {m}
         /\ m \notin Above(parent[m])

\* Every way up is such a ladder.
LEMMA LadderHolds == TreeInv => Ladder
  <1> SUFFICES ASSUME TreeInv
               PROVE  Ladder
    OBVIOUS
  <1>1. ASSUME root \in Hung
        PROVE  Above(root) = {root}
    <2>1. {root} \in SUBSET Hung /\ \A x \in {root} \ {root} : parent[x] \in {root}
      BY <1>1
    <2>2. Above(root) \subseteq {root}
      BY <2>1 DEF Above
    <2>3. root \in Above(root)
      BY <1>1 DEF Above
    <2> QED BY <2>2, <2>3
  <1>2. \A m \in Hung : m \in Above(m) /\ Above(m) \in SUBSET Hung
    BY DEF Above
  <1>3. \A m \in Hung : root \in Above(m)
    BY RootAbove
  <1>4. \A m \in Hung \ {root} :
          /\ parent[m] \in Hung
          /\ Above(m) = Above(parent[m]) \cup {m}
          /\ m \notin Above(parent[m])
    <2> TAKE m \in Hung \ {root}
    <2>1. PICK p : p = parent[m]
      OBVIOUS
    <2> QED BY <2>1, AboveParent
  <1>5. \A m \in Hung : IsFiniteSet(Above(m))
    <2> DEFINE T == {m \in Hung : IsFiniteSet(Above(m))}
    <2>1. CASE root \in Hung
      <3>1. root \in T
        BY <1>1, <2>1, FS_Singleton
      <3>2. \A m \in Hung \ {root} : parent[m] \in T => m \in T
        BY <1>4, FS_AddElement
      <3> HIDE DEF T
      <3>3. Hung \subseteq T
        BY <3>1, <3>2, FromRoot DEF TreeInv
      <3> QED BY <3>3 DEF T
    <2>2. CASE root \notin Hung
      BY <2>2 DEF TreeInv, Shape
    <2> QED BY <2>1, <2>2
  <1> QED BY <1>1, <1>2, <1>3, <1>4, <1>5 DEF Ladder

\* The same after a step.
LEMMA LadderAfter == TreeInv' => Ladder'
  BY LadderHolds, PTL

\* A node is one level below its parent.
LEMMA OneDown ==
    ASSUME Ladder, NEW m \in Hung, m # root, NEW p, p = parent[m]
    PROVE  /\ p \in Hung /\ Above(m) = Above(p) \cup {m} /\ m \notin Above(p)
           /\ Cardinality(Above(p)) \in Nat \ {0}
           /\ Cardinality(Above(m)) = Cardinality(Above(p)) + 1
  <1>1. p \in Hung /\ Above(m) = Above(p) \cup {m} /\ m \notin Above(p)
    BY DEF Ladder
  <1>2. IsFiniteSet(Above(p)) /\ Above(p) # {}
    BY <1>1 DEF Ladder
  <1>3. Cardinality(Above(p)) \in Nat /\ Cardinality(Above(p)) # 0
    BY <1>2, FS_CardinalityType, FS_EmptySet
  <1>4. Cardinality(Above(m)) = Cardinality(Above(p)) + 1
    BY <1>1, <1>2, FS_AddElement
  <1> QED BY <1>1, <1>3, <1>4

\* The same, after a step.
LEMMA OneDownAfter ==
    ASSUME Ladder', NEW m \in Hung', m # root', NEW p, p = parent'[m]
    PROVE  /\ p \in Hung' /\ Above(m)' = Above(p)' \cup {m} /\ m \notin Above(p)'
           /\ Cardinality(Above(p)') \in Nat \ {0}
           /\ Cardinality(Above(m)') = Cardinality(Above(p)') + 1
  <1>1. p \in Hung' /\ Above(m)' = Above(p)' \cup {m} /\ m \notin Above(p)'
    BY DEF Ladder, Above
  <1>2. IsFiniteSet(Above(p)') /\ p \in Above(p)'
    BY <1>1 DEF Ladder
  <1>3. Cardinality(Above(p)') \in Nat /\ Cardinality(Above(p)') # 0
    BY <1>2, FS_CardinalityType, FS_EmptySet
  <1>4. Cardinality(Above(m)') = Cardinality(Above(p)') + 1
    BY <1>1, <1>2, FS_AddElement
  <1> QED BY <1>1, <1>3, <1>4

\* A set of nodes that holds the parent of each holds the way up from each.
LEMMA AboveLeast ==
    ASSUME NEW S \in SUBSET Hung, NEW m \in S, \A x \in S \ {root} : parent[x] \in S
    PROVE  Above(m) \subseteq S
  BY DEF Above

\* The same, after a step.
LEMMA AboveLeastAfter ==
    ASSUME NEW S \in SUBSET Hung', NEW m \in S, \A x \in S \ {root'} : parent'[x] \in S
    PROVE  Above(m)' \subseteq S
  BY DEF Above

\* The way up from any of its nodes is part of it.
LEMMA AboveClosed ==
    ASSUME Ladder, NEW m \in Hung
    PROVE  \A x \in Above(m) \ {root} : parent[x] \in Above(m)
  <1> TAKE x \in Above(m) \ {root}
  <1>1. x \in Hung /\ \A S \in SUBSET Hung :
          m \in S /\ (\A y \in S \ {root} : parent[y] \in S) => x \in S
    BY DEF Above
  <1>2. parent[x] \in Hung
    BY <1>1 DEF Ladder
  <1>3. ASSUME NEW S \in SUBSET Hung, m \in S, \A y \in S \ {root} : parent[y] \in S
        PROVE  parent[x] \in S
    BY <1>1, <1>3
  <1> QED BY <1>2, <1>3 DEF Above

\* The same, after a step.
LEMMA AboveClosedAfter ==
    ASSUME Ladder', NEW m \in Hung'
    PROVE  \A x \in Above(m)' \ {root'} : parent'[x] \in Above(m)'
  <1> TAKE x \in Above(m)' \ {root'}
  <1>1. x \in Hung' /\ \A S \in SUBSET Hung' :
          m \in S /\ (\A y \in S \ {root'} : parent'[y] \in S) => x \in S
    BY DEF Above
  <1>2. parent'[x] \in Hung'
    BY <1>1 DEF Ladder
  <1>3. ASSUME NEW S \in SUBSET Hung', m \in S, \A y \in S \ {root'} : parent'[y] \in S
        PROVE  parent'[x] \in S
    BY <1>1, <1>3
  <1> QED BY <1>2, <1>3 DEF Above

\* A rotation at n changes the way up from n, which gets that of the child that
\* rises, and of nodes below.
LEMMA RotateAbove ==
    ASSUME TreeInv, Ladder, Ladder', NEW d \in Side, NEW n \in Hung,
           NEW t, t = link[Other(d)][n], t # Nil, Rotate(d, n)
    PROVE  /\ \A m \in Hung : n \notin Above(m) => Above(m)' = Above(m)
           /\ Above(n)' = Above(t)
  <1>1. PICK e : e = Other(d)
    OBVIOUS
  <1>2. PICK i : i = link[d][t]
    OBVIOUS
  <1>3. PICK o : o = link[e][t]
    OBVIOUS
  <1>4. PICK c : c = link[d][n]
    OBVIOUS
  <1>5. Around(d, e, n, t, i, o, c) /\ Turned(d, e, n, t, i, o, c) /\ Kept(n, t, i, o, c)
    BY <1>1, <1>2, <1>3, <1>4, RotatePairs DEF TreeInv
  <1>6. /\ t \in Hung /\ t # n /\ t # root /\ parent[t] = n /\ i # root
        /\ i # Nil => parent[i] = t
        /\ n # root => parent[n] \in Hung /\ parent[n] \notin {n, t}
    BY <1>5 DEF Around
  <1>7. /\ root' = (IF n = root THEN t ELSE root) /\ Hung' = Hung
        /\ parent'[n] = t /\ parent'[t] = parent[n]
    BY <1>5 DEF Turned
  <1>8. \A m \in Hung \ {n, t} : m # i => parent'[m] = parent[m]
    BY <1>5, HungFacts DEF Kept, TreeInv
  <1>9. \A m \in Hung : m # Nil
    BY HungFacts DEF TreeInv
  <1>10. ASSUME NEW m \in Hung, n \notin Above(m)
         PROVE  Above(m)' = Above(m)
    <2>1. Above(m) \in SUBSET Hung /\ m \in Above(m) /\ root \in Above(m)
      BY DEF Ladder
    <2>2. \A x \in Above(m) \ {root} : parent[x] \in Above(m)
      BY AboveClosed
    <2>3. n # root /\ root' = root
      BY <1>7, <1>10, <2>1
    <2>4. t \notin Above(m)
      BY <1>6, <1>10, <2>2
    <2>5. i \notin Above(m)
      BY <1>6, <1>9, <2>1, <2>2, <2>4
    <2>6. \A x \in Above(m) : parent'[x] = parent[x]
      BY <1>8, <1>10, <2>1, <2>4, <2>5
    <2>7. Above(m)' \subseteq Above(m)
      <3>1. PICK S : S = Above(m)
        OBVIOUS
      <3>2. S \in SUBSET Hung' /\ m \in S /\ \A x \in S \ {root'} : parent'[x] \in S
        BY <1>7, <2>1, <2>2, <2>3, <2>6, <3>1
      <3> QED BY <3>1, <3>2, AboveLeastAfter
    <2>8. Above(m) \subseteq Above(m)'
      <3>1. PICK S : S = Above(m)'
        OBVIOUS
      <3>2. S \in SUBSET Hung /\ m \in S
        BY <1>7, <3>1 DEF Ladder
      <3>3. \A x \in S \ {root} : parent'[x] \in S
        BY <1>7, <2>3, <3>1, AboveClosedAfter
      <3>4. \A x \in S \ {root} : parent[x] \in S
        BY <2>6, <2>7, <3>1, <3>3
      <3> QED BY <3>1, <3>2, <3>4, AboveLeast
    <2> QED BY <2>7, <2>8
  <1>11. Above(n)' = Above(t)
    <2>1. Above(t) = Above(n) \cup {t}
      BY <1>6, OneDown
    <2>2. n # root' /\ Above(n)' = Above(t)' \cup {n}
      <3>1. n # root'
        BY <1>6, <1>7
      <3> QED BY <1>7, <3>1, OneDownAfter
    <2>3. CASE n = root
      <3>1. Above(n) = {n}
        BY <2>3 DEF Ladder
      <3>2. Above(t)' = {t}
        <4>1. t = root' /\ t \in Hung'
          BY <1>6, <1>7, <2>3
        <4> QED BY <4>1 DEF Ladder, Above
      <3> QED BY <2>1, <2>2, <3>1, <3>2
    <2>4. CASE n # root
      <3>1. PICK u : u = parent[n]
        OBVIOUS
      <3>2. u \in Hung /\ Above(n) = Above(u) \cup {n} /\ n \notin Above(u)
        BY <2>4, <3>1, OneDown
      <3>3. Above(u)' = Above(u)
        BY <1>10, <3>2
      <3>4. t # root' /\ t \in Hung' /\ u = parent'[t]
        BY <1>6, <1>7, <2>4, <3>1
      <3>5. Above(t)' = Above(u)' \cup {t}
        BY <3>4, OneDownAfter
      <3> QED BY <2>1, <2>2, <3>2, <3>3, <3>5
    <2> QED BY <2>3, <2>4
  <1> QED BY <1>10, <1>11

\* The way up depends on the parents, the root and the hung nodes.
LEMMA SameAbove ==
    ASSUME root' = root, parent' = parent, Hung' = Hung
    PROVE  \A m : Above(m)' = Above(m)
  BY DEF Above

\* An iteration that is not the last leaves fewer to go.
Nearer == ToGo' \in Nat /\ ToGo' < ToGo

\* What is left of the loop of insert.
LEMMA InsertToGo ==
    ASSUME InsertLoop, NEW x, x = at
    PROVE  \E b \in {0, 1} :
             /\ ToGo = 2 * Cardinality(Above(x)) + b
             /\ SideOf(at) # SideOf(parent[at]) => b = 1
  BY DEF ToGo, InsertLoop, RemoveLoop

\* The same, after a step.
LEMMA InsertToGoAfter ==
    ASSUME pc' = "insert", NEW x, x = at', NEW q, q = parent'[x]
    PROVE  \/ ToGo' = 0
           \/ /\ x # root'
              /\ \E b \in {0, 1} :
                   /\ ToGo' = 2 * Cardinality(Above(x)') + b
                   /\ SideOf(x)' = SideOf(q)' => b = 0
  <1>1. Above(at)' = Above(x)'
    BY DEF Above
  <1>2. SideOf(at)' = SideOf(x)' /\ SideOf(parent[at])' = SideOf(q)'
    BY DEF SideOf
  <1>3. ToGo' = IF at' # root' /\ parent'[at'] \in red'
                THEN 2 * Cardinality(Above(at)') + IF SideOf(at)' = SideOf(parent[at])' THEN 0 ELSE 1
                ELSE 0
    BY DEF ToGo, InsertLoop, RemoveLoop
  <1> QED BY <1>1, <1>2, <1>3

\* What is left of the loop of remove.
LEMMA RemoveToGo ==
    ASSUME RemoveLoop, NEW u, u = parent[at]
    PROVE  \E b \in {1, 2} :
             /\ ToGo = (IF u \in red THEN 0 ELSE 2 * Cardinality(Above(u))) + b
             /\ Far \notin red => b = 2
  BY DEF ToGo, RemoveLoop, InsertLoop

\* The same, after a step.
LEMMA RemoveToGoAfter ==
    ASSUME pc' = "remove", NEW u, u = parent'[at']
    PROVE  \/ ToGo' = 0
           \/ /\ at' # root' /\ at' \notin red'
              /\ \E b \in {1, 2} :
                   /\ ToGo' = (IF u \in red' THEN 0 ELSE 2 * Cardinality(Above(u)')) + b
                   /\ Far' \in red' => b = 1
  <1>1. Above(parent[at])' = Above(u)'
    BY DEF Above
  <1>2. ToGo' = IF at' # root' /\ at' \notin red'
                THEN (IF parent'[at'] \in red' THEN 0 ELSE 2 * Cardinality(Above(parent[at])'))
                       + IF Far' \in red' THEN 1 ELSE 2
                ELSE 0
    BY DEF ToGo, InsertLoop, RemoveLoop
  <1> QED BY <1>1, <1>2

\* The descents go down.
LEMMA DescentNearer ==
    ASSUME TreeInv, Ladder, IsFiniteSet(Hung), InsertDescend \/ MinDescend
    PROVE  Nearer
  <1>1. PICK a : a = at
    OBVIOUS
  <1>2. PICK d \in Side : at' = link[d][a] /\ link[d][a] # Nil
    BY <1>1 DEF InsertDescend, MinDescend, Toward, Side
  <1>3. PICK c : c = at'
    OBVIOUS
  <1>4. /\ pc \in {"descend", "min"} /\ pc' = pc
        /\ root' = root /\ parent' = parent /\ link' = link
    BY DEF InsertDescend, MinDescend, treeVars
  <1>5. Hung' = Hung
    BY <1>4 DEF Hung
  <1>6. a \in Hung
    BY <1>1, <1>4 DEF TreeInv, Job
  <1>7. c \in Hung /\ c # root /\ parent[c] = a
    BY <1>2, <1>3, <1>6 DEF TreeInv, Shape
  <1>8. Above(c) = Above(a) \cup {c} /\ c \notin Above(a)
    BY <1>7, OneDown
  <1>9. ToGo = Cardinality(Hung \ Above(a))
    BY <1>1, <1>4 DEF ToGo, InsertLoop, RemoveLoop
  <1>10. ToGo' = Cardinality(Hung \ Above(c))
    <2>1. Above(at)' = Above(c)'
      BY <1>3 DEF Above
    <2>2. Above(c)' = Above(c)
      BY <1>4, <1>5, SameAbove
    <2>3. ToGo' = Cardinality(Hung' \ Above(at)')
      BY <1>4 DEF ToGo, InsertLoop, RemoveLoop
    <2> QED BY <1>5, <2>1, <2>2, <2>3
  <1>11. PICK S : S = Hung \ Above(a)
    OBVIOUS
  <1>12. IsFiniteSet(S)
    BY <1>11, FS_Subset
  <1>13. c \in S /\ Hung \ Above(c) = S \ {c}
    BY <1>7, <1>8, <1>11
  <1>14. Cardinality(S \ {c}) = Cardinality(S) - 1 /\ IsFiniteSet(S \ {c})
    BY <1>12, <1>13, FS_RemoveElement
  <1>15. Cardinality(S) \in Nat /\ Cardinality(S \ {c}) \in Nat
    BY <1>12, <1>14, FS_CardinalityType
  <1>16. ToGo' = ToGo - 1 /\ ToGo \in Nat /\ ToGo' \in Nat
    BY <1>9, <1>10, <1>11, <1>13, <1>14, <1>15
  <1> QED BY <1>16 DEF Nearer

\* The loop of insert climbs.
LEMMA InsertRecolorNearer ==
    ASSUME TreeInv, Ladder, InsertRecolor
    PROVE  Nearer
  <1>1. PICK x : x = at
    OBVIOUS
  <1>2. PICK p : p = parent[x]
    OBVIOUS
  <1>3. PICK g : g = Grand
    OBVIOUS
  <1>4. InsertLoop /\ pc' = "insert" /\ at' = g /\ root' = root /\ parent' = parent /\ link' = link
    BY <1>3 DEF InsertRecolor, InsertLoop
  <1>5. x \in Hung /\ x # root /\ p \in Hung /\ p # root /\ g \in Hung /\ g = parent[p]
    BY <1>1, <1>2, <1>3, <1>4, InsertAround DEF Grand
  <1>6. Hung' = Hung
    BY <1>4 DEF Hung
  <1>7. Above(g)' = Above(g)
    BY <1>4, <1>6, SameAbove
  <1>8. PICK k : k = Cardinality(Above(g))
    OBVIOUS
  <1>9. k \in Nat /\ Cardinality(Above(p)) = k + 1
    BY <1>5, <1>8, OneDown
  <1>10. Cardinality(Above(x)) = k + 1 + 1
    BY <1>2, <1>5, <1>9, OneDown
  <1>11. PICK b \in {0, 1} : ToGo = 2 * Cardinality(Above(x)) + b
    BY <1>1, <1>4, InsertToGo
  <1>12. PICK q : q = parent'[g]
    OBVIOUS
  <1>13. ToGo' = 0 \/ \E b2 \in {0, 1} : ToGo' = 2 * Cardinality(Above(g)') + b2
    BY <1>4, <1>12, InsertToGoAfter
  <1>14. ToGo' = 0 \/ ToGo' = 2 * k \/ ToGo' = 2 * k + 1
    BY <1>7, <1>8, <1>9, <1>13
  <1>15. ToGo = 2 * (k + 1 + 1) + b
    BY <1>10, <1>11
  <1> QED BY <1>9, <1>11, <1>14, <1>15 DEF Nearer

\* The rotation of the parent puts the node on the outside, at the same level.
LEMMA InsertTurnNearer ==
    ASSUME TreeInv, Ladder, Ladder', InsertTurn
    PROVE  Nearer
  <1>1. PICK x : x = at
    OBVIOUS
  <1>2. PICK p : p = parent[at]
    OBVIOUS
  <1>3. PICK g : g = Grand
    OBVIOUS
  <1>4. PICK f : f = SideOf(p)
    OBVIOUS
  <1>5. PICK b : b = SideOf(at)
    OBVIOUS
  <1>6. PICK y : y = Uncle
    OBVIOUS
  <1>7. InsertLoop /\ pc' = "insert" /\ at' = p /\ Rotate(f, p) /\ b # f
    BY <1>2, <1>4, <1>5 DEF InsertTurn, InsertLoop
  <1>8. /\ x \in Hung /\ p \in Hung /\ g \in Hung /\ f \in Side /\ b \in Side /\ x # Nil
        /\ link[f][g] = p /\ link[b][p] = x /\ x # root /\ p # root /\ x # p /\ p # g /\ x # g
    BY <1>1, <1>2, <1>3, <1>4, <1>5, <1>6, <1>7, InsertAround
  <1>9. b = Other(f) /\ x = link[Other(f)][p] /\ parent[p] = g
    BY <1>2, <1>3, <1>7, <1>8, Sides DEF Grand
  <1>10. Above(p)' = Above(x)
    BY <1>7, <1>8, <1>9, RotateAbove
  <1>11. PICK k : k = Cardinality(Above(x))
    OBVIOUS
  <1>12. k \in Nat
    BY <1>8, <1>11, FS_CardinalityType DEF Ladder
  <1>13. ToGo = 2 * k + 1
    <2>1. PICK b1 \in {0, 1} : /\ ToGo = 2 * Cardinality(Above(x)) + b1
                               /\ SideOf(at) # SideOf(parent[at]) => b1 = 1
      BY <1>1, <1>7, InsertToGo
    <2>2. SideOf(at) # SideOf(parent[at])
      BY <1>7 DEF InsertTurn
    <2> QED BY <1>11, <2>1, <2>2
  <1>14. PICK i : i = link[f][x]
    OBVIOUS
  <1>15. PICK o : o = link[b][x]
    OBVIOUS
  <1>16. PICK c : c = link[f][p]
    OBVIOUS
  <1>17. Around(f, b, p, x, i, o, c) /\ Turned(f, b, p, x, i, o, c) /\ Kept(p, x, i, o, c)
    BY <1>7, <1>8, <1>9, <1>14, <1>15, <1>16, RotatePairs DEF TreeInv
  <1>18. parent'[p] = x /\ parent'[x] = g /\ link'[f][x] = p /\ link'[b][x] = o /\ o # p
    BY <1>9, <1>17 DEF Turned, Around
  <1>19. link'[f][g] = x /\ \A s \in Side : s # f => link'[s][g] # x
    <2>1. HangsOn(p, f, g) /\ \A s \in Side : s # f => ~HangsOn(p, s, g)
      BY <1>4, <1>8, <1>9 DEF HangsOn
    <2>2. link'[f][g] = x
      BY <1>8, <1>17, <2>1 DEF Kept
    <2>3. \A s \in Side : s # f => link[s][g] # x /\ link'[s][g] = link[s][g]
      BY <1>8, <1>17, <2>1 DEF Kept
    <2> QED BY <2>2, <2>3
  <1>20. SideOf(p)' = f /\ SideOf(x)' = f
    BY <1>7, <1>8, <1>18, <1>19 DEF SideOf, Side
  <1>21. ToGo' = 0 \/ \E b2 \in {0, 1} :
           ToGo' = 2 * Cardinality(Above(p)') + b2 /\ (SideOf(p)' = SideOf(x)' => b2 = 0)
    BY <1>7, <1>18, InsertToGoAfter
  <1>22. ToGo' = 0 \/ ToGo' = 2 * k + 0
    BY <1>10, <1>11, <1>20, <1>21
  <1> QED BY <1>12, <1>13, <1>22 DEF Nearer

\* The rotation of the grandparent takes the node up a level.
LEMMA InsertRotateNearer ==
    ASSUME TreeInv, Ladder, Ladder', InsertRotate
    PROVE  Nearer
  <1>1. PICK x : x = at
    OBVIOUS
  <1>2. PICK p : p = parent[at]
    OBVIOUS
  <1>3. PICK g : g = Grand
    OBVIOUS
  <1>4. PICK f : f = SideOf(p)
    OBVIOUS
  <1>5. PICK b : b = SideOf(at)
    OBVIOUS
  <1>6. PICK y : y = Uncle
    OBVIOUS
  <1>7. InsertLoop /\ pc' = "insert" /\ at' = x /\ Rotate(Other(f), g) /\ b = f
    BY <1>1, <1>2, <1>3, <1>4, <1>5 DEF InsertRotate, InsertLoop
  <1>8. /\ x \in Hung /\ p \in Hung /\ g \in Hung /\ f \in Side /\ b \in Side /\ x # Nil
        /\ link[f][g] = p /\ link[b][p] = x /\ x # root /\ p # root /\ x # p /\ p # g /\ x # g
        /\ p # Nil
    BY <1>1, <1>2, <1>3, <1>4, <1>5, <1>6, <1>7, InsertAround
  <1>9. PICK d \in Side : d = Other(f) /\ f = Other(d) /\ p = link[Other(d)][g]
    BY <1>8, Sides
  <1>10. Above(g)' = Above(p)
    BY <1>7, <1>8, <1>9, RotateAbove
  <1>11. PICK i : i = link[d][p]
    OBVIOUS
  <1>12. PICK c : c = link[d][g]
    OBVIOUS
  <1>13. Around(d, f, g, p, i, x, c) /\ Turned(d, f, g, p, i, x, c) /\ Kept(g, p, i, x, c)
    BY <1>7, <1>8, <1>9, <1>11, <1>12, RotatePairs DEF TreeInv
  <1>14. /\ Hung' = Hung /\ parent'[g] = p /\ g # root' /\ x # root'
         /\ parent'[x] = p
    <2>1. Hung' = Hung /\ parent'[g] = p /\ root' = IF g = root THEN p ELSE root
      BY <1>13 DEF Turned
    <2>2. x # i \/ i = Nil
      BY <1>8, <1>13 DEF Around
    <2>3. x \in Place \ {g, p}
      BY <1>8, HungFacts DEF TreeInv
    <2>4. parent'[x] = parent[x]
      BY <1>13, <2>2, <2>3 DEF Kept
    <2> QED BY <1>1, <1>2, <1>8, <2>1, <2>4
  <1>15. Above(g)' = Above(p)' \cup {g} /\ g \notin Above(p)' /\ p \in Hung'
    BY <1>8, <1>14, OneDownAfter
  <1>16. PICK k : k = Cardinality(Above(p)')
    OBVIOUS
  <1>17. k \in Nat /\ Cardinality(Above(g)') = k + 1
    BY <1>8, <1>14, <1>16, OneDownAfter
  <1>18. Cardinality(Above(x)') = k + 1
    BY <1>8, <1>14, <1>16, OneDownAfter
  <1>19. Cardinality(Above(x)) = k + 1 + 1
    BY <1>1, <1>2, <1>8, <1>10, <1>17, OneDown
  <1>20. PICK b1 \in {0, 1} : ToGo = 2 * Cardinality(Above(x)) + b1
    BY <1>1, <1>7, InsertToGo
  <1>21. ToGo' = 0 \/ \E b2 \in {0, 1} : ToGo' = 2 * Cardinality(Above(x)') + b2
    BY <1>7, <1>14, InsertToGoAfter
  <1>22. ToGo' = 0 \/ ToGo' = 2 * (k + 1) \/ ToGo' = 2 * (k + 1) + 1
    BY <1>17, <1>18, <1>21
  <1>23. ToGo = 2 * (k + 1 + 1) + b1
    BY <1>19, <1>20
  <1> QED BY <1>17, <1>20, <1>22, <1>23 DEF Nearer

\* The rotation for a red sibling takes the node down, below a red parent.
LEMMA RemoveRedSiblingNearer ==
    ASSUME TreeInv, Ladder, RemoveRedSibling
    PROVE  Nearer
  <1>1. PICK bh \in [Place -> Nat] : Balanced(bh)
    BY DEF TreeInv, Even
  <1>2. PICK u : u = parent[at]
    OBVIOUS
  <1>3. PICK f : f = SideOf(at)
    OBVIOUS
  <1>4. PICK w : w = Sibling
    OBVIOUS
  <1>5. PICK a : a = at
    OBVIOUS
  <1>6. /\ RemoveLoop /\ pc' = "remove" /\ at' = a /\ Rotate(f, u) /\ w \in red
        /\ red' = (red \ {w}) \cup {u}
    BY <1>2, <1>3, <1>4, <1>5 DEF RemoveRedSibling, RemoveLoop
  <1>7. /\ u \in Hung /\ f \in Side /\ Other(f) \in Side /\ a \in Hung \cup {Nil}
        /\ link[f][u] = a /\ link[Other(f)][u] = w /\ w # Nil
        /\ \A m \in Hung, s \in Side : ~(m \in red /\ link[s][m] \in red)
    BY <1>1, <1>2, <1>3, <1>4, <1>5, <1>6, RemoveAround
  <1>8. u \notin red
    BY <1>6, <1>7
  <1>9. PICK e : e = Other(f)
    OBVIOUS
  <1>10. PICK i : i = link[f][w]
    OBVIOUS
  <1>11. PICK o : o = link[e][w]
    OBVIOUS
  <1>12. Around(f, e, u, w, i, o, a) /\ Kept(u, w, i, o, a)
    BY <1>6, <1>7, <1>9, <1>10, <1>11, RotatePairs DEF TreeInv
  <1>13. parent'[a] = u
    <2>1. a \in Place \ {u, w}
      BY <1>7, <1>12, HungFacts DEF TreeInv, Around
    <2>2. a # i \/ i = Nil
      BY <1>12 DEF Around
    <2>3. parent'[a] = parent[a]
      BY <1>12, <2>1, <2>2 DEF Kept
    <2> QED BY <1>2, <1>5, <2>3
  <1>14. PICK k : k = Cardinality(Above(u))
    OBVIOUS
  <1>15. k \in Nat /\ k # 0
    <2>1. IsFiniteSet(Above(u)) /\ u \in Above(u)
      BY <1>7 DEF Ladder
    <2> QED BY <1>14, <2>1, FS_CardinalityType, FS_EmptySet
  <1>16. PICK b \in {1, 2} : ToGo = (IF u \in red THEN 0 ELSE 2 * Cardinality(Above(u))) + b
    BY <1>2, <1>6, RemoveToGo
  <1>17. ToGo = 2 * k + b
    BY <1>8, <1>14, <1>16
  <1>18. ToGo' = 0 \/ \E b2 \in {1, 2} :
           ToGo' = (IF u \in red' THEN 0 ELSE 2 * Cardinality(Above(u)')) + b2
    BY <1>6, <1>13, RemoveToGoAfter
  <1>19. ToGo' \in {0, 1, 2}
    BY <1>6, <1>18
  <1> QED BY <1>15, <1>16, <1>17, <1>19 DEF Nearer

\* The loop of remove climbs, and ends at a red node.
LEMMA RemoveRecolorNearer ==
    ASSUME TreeInv, Ladder, RemoveRecolor
    PROVE  Nearer
  <1>1. PICK bh \in [Place -> Nat] : Balanced(bh)
    BY DEF TreeInv, Even
  <1>2. PICK u : u = parent[at]
    OBVIOUS
  <1>3. PICK f : f = SideOf(at)
    OBVIOUS
  <1>4. PICK w : w = Sibling
    OBVIOUS
  <1>5. /\ RemoveLoop /\ pc' = "remove" /\ at' = u /\ red \subseteq red' /\ Far \notin red
        /\ root' = root /\ parent' = parent /\ link' = link
    BY <1>2 DEF RemoveRecolor, RemoveLoop
  <1>6. u \in Hung
    BY <1>1, <1>2, <1>3, <1>4, <1>5, RemoveAround
  <1>7. Hung' = Hung
    BY <1>5 DEF Hung
  <1>8. PICK v : v = parent[u]
    OBVIOUS
  <1>9. Above(v)' = Above(v)
    BY <1>5, <1>7, SameAbove
  <1>10. PICK k : k = Cardinality(Above(u))
    OBVIOUS
  <1>11. k \in Nat
    BY <1>6, <1>10, FS_CardinalityType DEF Ladder
  <1>12. ToGo = (IF u \in red THEN 0 ELSE 2 * k) + 2
    <2>1. PICK b \in {1, 2} : /\ ToGo = (IF u \in red THEN 0 ELSE 2 * Cardinality(Above(u))) + b
                              /\ Far \notin red => b = 2
      BY <1>2, <1>5, RemoveToGo
    <2> QED BY <1>5, <1>10, <2>1
  <1>13. ToGo' = 0 \/ (/\ u # root /\ u \notin red'
                       /\ \E b2 \in {1, 2} :
                            ToGo' = (IF v \in red' THEN 0 ELSE 2 * Cardinality(Above(v)')) + b2)
    BY <1>5, <1>8, RemoveToGoAfter
  <1>14. ASSUME u # root, u \notin red,
                NEW b2 \in {1, 2}, ToGo' = (IF v \in red' THEN 0 ELSE 2 * Cardinality(Above(v)')) + b2
         PROVE  Nearer
    <2>1. PICK j : j = Cardinality(Above(v))
      OBVIOUS
    <2>2. j \in Nat /\ k = j + 1
      BY <1>6, <1>8, <1>10, <1>14, <2>1, OneDown
    <2>3. ToGo = 2 * (j + 1) + 2
      BY <1>12, <1>14, <2>2
    <2>4. ToGo' = b2 \/ ToGo' = 2 * j + b2
      BY <1>9, <1>14, <2>1, <2>2
    <2> QED BY <1>14, <2>2, <2>3, <2>4 DEF Nearer
  <1>15. ASSUME ToGo' = 0
         PROVE  Nearer
    <2>1. ToGo = 2 \/ ToGo = 2 * k + 2
      BY <1>12
    <2> QED BY <1>11, <1>15, <2>1 DEF Nearer
  <1> QED BY <1>5, <1>13, <1>14, <1>15

\* The rotation of the sibling makes its far child red.
LEMMA RemoveTurnNearer ==
    ASSUME TreeInv, TreeInv', Ladder, Ladder', RemoveTurn
    PROVE  Nearer
  <1>1. PICK bh \in [Place -> Nat] : Balanced(bh)
    BY DEF TreeInv, Even
  <1>2. PICK u : u = parent[at]
    OBVIOUS
  <1>3. PICK f : f = SideOf(at)
    OBVIOUS
  <1>4. PICK w : w = Sibling
    OBVIOUS
  <1>5. PICK a : a = at
    OBVIOUS
  <1>6. PICK t : t = Near
    OBVIOUS
  <1>7. /\ RemoveLoop /\ pc' = "remove" /\ at' = a /\ Rotate(Other(f), w) /\ t \in red
        /\ t = link[f][w] /\ red' = (red \ {t}) \cup {w} /\ Far \notin red /\ w \notin red
    BY <1>3, <1>4, <1>5, <1>6 DEF RemoveTurn, RemoveLoop, Near
  <1>8. /\ u \in Hung /\ f \in Side /\ Other(f) \in Side /\ a \in Hung \cup {Nil}
        /\ link[f][u] = a /\ link[Other(f)][u] = w /\ w # Nil /\ w # root /\ parent[w] = u
        /\ w \in Hung /\ w # a /\ u # w /\ a # root
    BY <1>1, <1>2, <1>3, <1>4, <1>5, <1>7, RemoveAround
  <1>9. PICK d \in Side : d = Other(f) /\ f = Other(d) /\ f # d /\ \A s \in Side : s = d \/ s = f
    BY <1>8, Sides
  <1>10. t # Nil /\ t \in Hung
    BY <1>7, RotateNeeds
  <1>11. PICK i : i = link[d][t]
    OBVIOUS
  <1>12. PICK o : o = link[f][t]
    OBVIOUS
  <1>13. PICK c : c = link[d][w]
    OBVIOUS
  <1>14. Around(d, f, w, t, i, o, c) /\ Turned(d, f, w, t, i, o, c) /\ Kept(w, t, i, o, c)
    BY <1>7, <1>8, <1>9, <1>10, <1>11, <1>12, <1>13, RotatePairs DEF TreeInv
  <1>15. u # t /\ parent[t] = w
    BY <1>8, <1>14 DEF Around
  <1>16. link'[d][t] = w
    BY <1>14 DEF Turned
  <1>17. link'[d][u] = t /\ link'[f][u] = a
    <2>1. HangsOn(w, d, u) /\ ~HangsOn(w, f, u)
      <3>1. SideOf(w) = d
        BY <1>8, <1>9, ParentSide DEF TreeInv
      <3> QED BY <1>8, <1>9, <3>1 DEF HangsOn
    <2> QED BY <1>8, <1>9, <1>14, <1>15, <2>1 DEF Kept
  <1>18. a # t
    BY <1>2, <1>5, <1>8, <1>15
  <1>19. parent'[a] = u
    <2>1. a \in Place \ {w, t}
      BY <1>8, <1>18, HungFacts DEF TreeInv
    <2>2. a # i \/ i = Nil
      BY <1>2, <1>5, <1>14, <1>15 DEF Around
    <2>3. parent'[a] = parent[a]
      BY <1>14, <2>1, <2>2 DEF Kept
    <2> QED BY <1>2, <1>5, <2>3
  <1>20. Far' \in red'
    <2>1. SideOf(a)' = f
      BY <1>8, <1>9, <1>17, <1>18, <1>19 DEF SideOf, Side
    <2>2. SideOf(at)' = f
      BY <1>7, <2>1 DEF SideOf
    <2>3. Sibling' = t
      BY <1>7, <1>9, <1>17, <1>19, <2>2 DEF Sibling, Other
    <2>4. Far' = w
      BY <1>9, <1>16, <2>2, <2>3 DEF Far, Other
    <2> QED BY <1>7, <2>4
  <1>21. Above(u)' = Above(u)
    <2>1. w \notin Above(u)
      BY <1>8, OneDown
    <2> QED BY <1>7, <1>8, <1>9, <1>10, <2>1, RotateAbove
  <1>22. u \in red' <=> u \in red
    BY <1>7, <1>8, <1>15
  <1>23. PICK k : k = Cardinality(Above(u))
    OBVIOUS
  <1>24. k \in Nat
    BY <1>8, <1>23, FS_CardinalityType DEF Ladder
  <1>25. ToGo = (IF u \in red THEN 0 ELSE 2 * k) + 2
    <2>1. PICK b \in {1, 2} : /\ ToGo = (IF u \in red THEN 0 ELSE 2 * Cardinality(Above(u))) + b
                              /\ Far \notin red => b = 2
      BY <1>2, <1>7, RemoveToGo
    <2> QED BY <1>7, <1>23, <2>1
  <1>26. ToGo' = 0 \/ ToGo' = (IF u \in red THEN 0 ELSE 2 * k) + 1
    <2>1. ToGo' = 0 \/ \E b2 \in {1, 2} :
            /\ ToGo' = (IF u \in red' THEN 0 ELSE 2 * Cardinality(Above(u)')) + b2
            /\ Far' \in red' => b2 = 1
      BY <1>7, <1>19, RemoveToGoAfter
    <2> QED BY <1>20, <1>21, <1>22, <1>23, <2>1
  <1> QED BY <1>24, <1>25, <1>26 DEF Nearer

\* The last rotation ends the loop of remove.
LEMMA RemoveRotateNearer ==
    ASSUME TreeInv, Ladder, RemoveRotate
    PROVE  Nearer
  <1>1. PICK u : u = parent[at]
    OBVIOUS
  <1>2. RemoveLoop /\ pc' = "remove" /\ at' = root'
    BY DEF RemoveRotate, RemoveLoop
  <1>3. u \in Hung
    BY <1>1, <1>2 DEF TreeInv, Job, RemoveLoop
  <1>4. PICK k : k = Cardinality(Above(u))
    OBVIOUS
  <1>5. k \in Nat
    BY <1>3, <1>4, FS_CardinalityType DEF Ladder
  <1>6. PICK b \in {1, 2} : ToGo = (IF u \in red THEN 0 ELSE 2 * k) + b
    BY <1>1, <1>2, <1>4, RemoveToGo
  <1>7. ToGo' = 0
    BY <1>2, RemoveToGoAfter
  <1> QED BY <1>5, <1>6, <1>7 DEF Nearer

\* What is hung is finite: nodes are hung one at a time.
LEMMA FiniteAfter ==
    ASSUME TreeInv, Ordered, [Next]_vars, IsFiniteSet(Hung)
    PROVE  IsFiniteSet(Hung)'
  <1>1. [Collection!Next]_(Collection!timerVars)
    BY NextTimers
  <1>2. DOMAIN [n \in Hung |-> key[n]] = Hung /\ DOMAIN [n \in Hung' |-> key'[n]] = Hung'
    OBVIOUS
  <1>3. Hung' = Hung \/ \E n : Hung' = Hung \cup {n} \/ Hung' = Hung \ {n}
    BY <1>1, <1>2 DEF Collection!Next, Collection!timerVars, Collection!Arm, Collection!Disarm,
                      Collection!Least
  <1> QED BY <1>3, FS_AddElement, FS_RemoveElement

\* Each iteration that is not the last leaves fewer to go.
LEMMA NextNearer ==
    ASSUME TreeInv, TreeInv', IsFiniteSet(Hung), Next, pc # "rest", pc' = pc
    PROVE  Nearer
  <1>1. Ladder /\ Ladder'
    BY LadderHolds, LadderAfter
  <1>2. Next => \/ InsertDescend \/ MinDescend \/ InsertRecolor \/ InsertTurn \/ InsertRotate
                \/ RemoveRedSibling \/ RemoveRecolor \/ RemoveTurn \/ RemoveRotate
    BY DEF Next, Step, Call, InsertHang, InsertEnd, RemoveEnd, MinEnd, Return, InsertRoot,
           InsertBegin, RemoveRoot, RemoveRed, RemoveBlack, Unhook, MinBegin
  <1> QED BY <1>1, <1>2, DescentNearer, InsertRecolorNearer, InsertTurnNearer, InsertRotateNearer,
             RemoveRedSiblingNearer, RemoveRecolorNearer, RemoveTurnNearer, RemoveRotateNearer

\* No loop of insert, remove or min runs for ever, in a tree of any size: each
\* iteration that is not the last leaves fewer to go.
THEOREM LoopsAreFinite == Spec => LoopsEnd
  <1>1. Init => Ordered /\ IsFiniteSet(Hung)
    <2>1. Init => IsFiniteSet(Hung)
      BY InitInv, FS_EmptySet
    <2> QED BY <2>1, InitOrdered
  <1>2. TreeInv /\ Ordered /\ IsFiniteSet(Hung) /\ [Next]_vars => Ordered' /\ IsFiniteSet(Hung)'
    BY NextOrdered, FiniteAfter
  <1>3. TreeInv /\ TreeInv' /\ IsFiniteSet(Hung) /\ [Next]_vars
          => [pc # "rest" /\ pc' = pc => ToGo' \in Nat /\ ToGo' < ToGo]_vars
    BY NextNearer DEF Nearer
  <1> QED BY <1>1, <1>2, <1>3, TreeInvariant, PTL DEF Spec, LoopsEnd
==============================================================================
