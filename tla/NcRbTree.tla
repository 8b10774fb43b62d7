------------------------------- MODULE NcRbTree -------------------------------
(***************************************************************************)
(* The red-black tree of nc_rbtree.h, built with the constructor that takes *)
(* a sentinel node.  An operation of the tree runs to its end before the   *)
(* next begins; its loops are taken one iteration at a time, pc naming the *)
(* loop that is running and at, new its local variables.  An iteration of  *)
(* the loops that restore the balance ends at each rotation: the condition *)
(* of the loop still holds after the first of two.                         *)
(*                                                                         *)
(* remove() of a node with two children puts min(), the least node of the  *)
(* whole tree, in its place, and so does that of a node which is not in    *)
(* the tree, as NcConn::freeMsg calls it for every message it frees.  The  *)
(* latter returns at once in the tree of NcInstance, which has no sentinel *)
(* and no nodes.  The steps here are the removals the code gets right in a *)
(* tree that is used: of any node with a sentinel for a child, the node    *)
(* min() returned among them, which NcInstance::loop removes.              *)
(***************************************************************************)
EXTENDS Integers, FiniteSets

CONSTANTS
    Node,   \* the rbnode objects
    Key,    \* the values of rbnode::key
    Nil,    \* m_sentinel_
    NULL    \* the null pointer

ASSUME TreeAssumption == Nil \notin Node /\ NULL \notin Node \cup {Nil} /\ Key \subseteq Int

VARIABLES
    root,   \* m_root_
    link,   \* link[d][n] is n->left or n->right
    parent, \* n->parent, of the sentinel too: remove writes it
    red,    \* the nodes with color = 1
    key,    \* rbnode::key of every node
    first,  \* what min() returned last, until the tree changes
    pc,     \* the loop that is running, or "rest"
    at,     \* temp, node: where the loop is
    new     \* the argument of insert

treeVars == <<root, link, parent, red>>
vars == <<root, link, parent, red, key, first, pc, at, new>>

Side == {"left", "right"}

Other(d) == IF d = "left" THEN "right" ELSE "left"

Place == Node \cup {Nil}

Init ==
    /\ root = Nil /\ red = {}
    /\ link = [d \in Side |-> [n \in Place |-> NULL]]
    /\ parent = [n \in Place |-> NULL]
    /\ key = [n \in Node |-> 0]
    /\ first = {} /\ pc = "rest" /\ at = Nil /\ new = Nil

------------------------------------------------------------------------------
\* The nodes in the tree: insert gives a node its links, reset takes them.
Hung == {n \in Node : link["left"][n] # NULL}

\* The side of its parent on which n hangs.
SideOf(n) == IF link["left"][parent[n]] = n THEN "left" ELSE "right"

\* The link of m on side d is the one that n hangs on.
HangsOn(n, d, m) == n # root /\ m = parent[n] /\ d = SideOf(n)

\* Mutant of Rotate: the subtree that changes sides keeps its parent.
RotateParentKept(d, n) ==
    LET temp  == link[Other(d)][n]
        inner == link[d][temp]
    IN  /\ root' = IF n = root THEN temp ELSE root
        /\ link' = [s \in Side |-> [m \in Place |->
                      CASE HangsOn(n, s, m) -> temp
                        [] m = n /\ s = Other(d) -> inner
                        [] m = temp /\ s = d -> n
                        [] OTHER -> link[s][m]]]
        /\ parent' = [parent EXCEPT ![n] = temp, ![temp] = parent[n]]

\* leftRotate (d = "left") and rightRotate (d = "right").
Rotate(d, n) ==
    LET temp  == link[Other(d)][n]
        inner == link[d][temp]
    IN  /\ root' = IF n = root THEN temp ELSE root
        /\ link' = [s \in Side |-> [m \in Place |->
                      CASE HangsOn(n, s, m) -> temp
                        [] m = n /\ s = Other(d) -> inner
                        [] m = temp /\ s = d -> n
                        [] OTHER -> link[s][m]]]
        /\ parent' = [m \in Place |->
                        CASE m = n -> temp
                          [] m = temp -> parent[n]
                          [] m = inner /\ inner # Nil -> n
                          [] OTHER -> parent[m]]

\* An operation returns.
Return == pc' = "rest" /\ at' = Nil /\ new' = Nil

------------------------------------------------------------------------------
\* insert of a node that is in no tree, with the key the caller set, when the
\* tree is empty.
InsertRoot ==
    /\ pc = "rest" /\ root = Nil
    /\ \E n \in Node \ Hung, k \in Key :
         /\ key' = [key EXCEPT ![n] = k]
         /\ link' = [d \in Side |-> [link[d] EXCEPT ![n] = Nil]]
         /\ parent' = [parent EXCEPT ![n] = NULL]
         /\ red' = red \ {n}
         /\ root' = n
    /\ first' = {}
    /\ UNCHANGED <<pc, at, new>>

\* insert when it is not: the descent begins at the root.
InsertBegin ==
    /\ pc = "rest" /\ root # Nil
    /\ \E n \in Node \ Hung, k \in Key :
         key' = [key EXCEPT ![n] = k] /\ new' = n
    /\ pc' = "descend" /\ at' = root
    /\ UNCHANGED <<treeVars, first>>

\* The side on which the descent leaves at.
Toward == IF key[new] < key[at] THEN "left" ELSE "right"

InsertDescend ==
    /\ pc = "descend" /\ link[Toward][at] # Nil
    /\ at' = link[Toward][at]
    /\ UNCHANGED <<treeVars, key, first, pc, new>>

\* The node is hung where the descent ended, and is red.
InsertHang ==
    /\ pc = "descend" /\ link[Toward][at] = Nil
    /\ link' = [d \in Side |-> [m \in Place |->
                  CASE m = new -> Nil
                    [] m = at /\ d = Toward -> new
                    [] OTHER -> link[d][m]]]
    /\ parent' = [parent EXCEPT ![new] = at]
    /\ red' = red \cup {new}
    /\ first' = {}
    /\ pc' = "insert" /\ at' = new /\ new' = Nil
    /\ UNCHANGED <<root, key>>

\* The loop of insert that restores the balance, from a red node upwards.
InsertLoop == pc = "insert" /\ at # root /\ parent[at] \in red

Grand == parent[parent[at]]

Uncle == link[Other(SideOf(parent[at]))][Grand]

InsertRecolor ==
    /\ InsertLoop /\ Uncle \in red
    /\ red' = (red \ {parent[at], Uncle}) \cup {Grand}
    /\ at' = Grand
    /\ UNCHANGED <<root, link, parent, key, first, pc, new>>

\* The node is on the inside: its parent is rotated first.
InsertTurn ==
    /\ InsertLoop /\ Uncle \notin red
    /\ SideOf(at) # SideOf(parent[at])
    /\ Rotate(SideOf(parent[at]), parent[at])
    /\ at' = parent[at]
    /\ UNCHANGED <<red, key, first, pc, new>>

InsertRotate ==
    /\ InsertLoop /\ Uncle \notin red
    /\ SideOf(at) = SideOf(parent[at])
    /\ red' = (red \ {parent[at]}) \cup {Grand}
    /\ Rotate(Other(SideOf(at)), Grand)
    /\ UNCHANGED <<key, first, pc, at, new>>

InsertEnd ==
    /\ pc = "insert" /\ ~InsertLoop
    /\ red' = red \ {root}
    /\ Return
    /\ UNCHANGED <<root, link, parent, key, first>>

------------------------------------------------------------------------------
\* The nodes remove takes here, and the child that takes the place of one.
Removable == {n \in Hung : \E d \in Side : link[d][n] = Nil}

Orphan(n) == IF link["left"][n] = Nil THEN link["right"][n] ELSE link["left"][n]

\* rbnode::reset, on the links l and the parents p.
reset(n, l, p) ==
    /\ link' = [d \in Side |-> [l[d] EXCEPT ![n] = NULL]]
    /\ parent' = [p EXCEPT ![n] = NULL]
    /\ key' = [key EXCEPT ![n] = 0]

\* remove of the root.  The parent of the new root is left as it was.
RemoveRoot ==
    /\ pc = "rest" /\ root \in Removable
    /\ root' = Orphan(root)
    /\ red' = red \ {root, Orphan(root)}
    /\ reset(root, link, parent)
    /\ first' = {}
    /\ UNCHANGED <<pc, at, new>>

\* remove of another node; temp gets its parent, the sentinel too.  Nothing is
\* done for a node without a parent.
Unhook(n) ==
    /\ pc = "rest" /\ n # root /\ parent[n] # NULL
    /\ reset(n,
             [d \in Side |-> [m \in Place |->
                IF HangsOn(n, d, m) THEN Orphan(n) ELSE link[d][m]]],
             [parent EXCEPT ![Orphan(n)] = parent[n]])
    /\ red' = red \ {n}
    /\ first' = {}
    /\ UNCHANGED root

RemoveRed == \E n \in Removable : n \in red /\ Unhook(n) /\ UNCHANGED <<pc, at, new>>

\* Mutant of RemoveBlack: the balance is not restored.
RemoveBlackNoFix ==
    \E n \in Removable : n \notin red /\ Unhook(n) /\ UNCHANGED <<pc, at, new>>

RemoveBlack ==
    \E n \in Removable :
        n \notin red /\ Unhook(n) /\ pc' = "remove" /\ at' = Orphan(n) /\ UNCHANGED new

\* The loop of remove that restores the balance, from a node that is one black
\* node short upwards.
RemoveLoop == pc = "remove" /\ at # root /\ at \notin red

Sibling == link[Other(SideOf(at))][parent[at]]

Near == link[SideOf(at)][Sibling]

Far == link[Other(SideOf(at))][Sibling]

RemoveRedSibling ==
    /\ RemoveLoop /\ Sibling \in red
    /\ red' = (red \ {Sibling}) \cup {parent[at]}
    /\ Rotate(SideOf(at), parent[at])
    /\ UNCHANGED <<key, first, pc, at, new>>

\* Mutant of RemoveRecolor: temp does not climb.
RemoveRecolorStays ==
    /\ RemoveLoop /\ {Sibling, Near, Far} \cap red = {}
    /\ red' = red \cup {Sibling}
    /\ UNCHANGED <<root, link, parent, key, first, pc, at, new>>

RemoveRecolor ==
    /\ RemoveLoop /\ {Sibling, Near, Far} \cap red = {}
    /\ red' = red \cup {Sibling}
    /\ at' = parent[at]
    /\ UNCHANGED <<root, link, parent, key, first, pc, new>>

RemoveTurn ==
    /\ RemoveLoop /\ Sibling \notin red /\ Near \in red /\ Far \notin red
    /\ red' = (red \ {Near}) \cup {Sibling}
    /\ Rotate(Other(SideOf(at)), Sibling)
    /\ UNCHANGED <<key, first, pc, at, new>>

RemoveRotate ==
    /\ RemoveLoop /\ Sibling \notin red /\ Far \in red
    /\ red' = (red \ {parent[at], Far}) \cup (IF parent[at] \in red THEN {Sibling} ELSE {})
    /\ Rotate(SideOf(at), parent[at])
    /\ at' = root'
    /\ UNCHANGED <<key, first, pc, new>>

RemoveEnd ==
    /\ pc = "remove" /\ ~RemoveLoop
    /\ red' = red \ {at}
    /\ Return
    /\ UNCHANGED <<root, link, parent, key, first>>

------------------------------------------------------------------------------
\* NcInstance::loop asks for the first node to expire.  In an empty tree min
\* returns NULL at once.
MinBegin ==
    /\ pc = "rest" /\ root # Nil
    /\ pc' = "min" /\ at' = root
    /\ UNCHANGED <<treeVars, key, first, new>>

MinDescend ==
    /\ pc = "min" /\ link["left"][at] # Nil
    /\ at' = link["left"][at]
    /\ UNCHANGED <<treeVars, key, first, pc, new>>

\* Mutant of MinEnd: the descent may stop early.
MinEndEarly ==
    /\ pc = "min"
    /\ first' = {at}
    /\ Return
    /\ UNCHANGED <<treeVars, key>>

MinEnd ==
    /\ pc = "min" /\ link["left"][at] = Nil
    /\ first' = {at}
    /\ Return
    /\ UNCHANGED <<treeVars, key>>

\* A step inside an operation.
Step ==
    \/ InsertDescend \/ InsertHang
    \/ InsertRecolor \/ InsertTurn \/ InsertRotate \/ InsertEnd
    \/ RemoveRedSibling \/ RemoveRecolor \/ RemoveTurn \/ RemoveRotate \/ RemoveEnd
    \/ MinDescend \/ MinEnd

\* A call.
Call == InsertRoot \/ InsertBegin \/ RemoveRoot \/ RemoveRed \/ RemoveBlack \/ MinBegin

Next == Step \/ Call

Spec == Init /\ [][Next]_vars

------------------------------------------------------------------------------
\* The tree implements the collection of timers: whatever the insertions and
\* removals before, no node is lost or duplicated, and min() returns one with
\* the least key of all.
Collection == INSTANCE Timers WITH armed <- [n \in Hung |-> key[n]]

ImplementsTimers == Collection!Spec

\* n and the nodes above it, up to the root.
Above(n) ==
    {m \in Hung : \A S \in SUBSET Hung :
        n \in S /\ (\A x \in S \ {root} : parent[x] \in S) => m \in S}

\* insert and remove leave a balanced tree: the root and the sentinel are black,
\* no red node has a red child, and every way down has as many black nodes.
RedBlack ==
    pc = "rest" =>
      /\ {root, Nil} \cap red = {}
      /\ \A n \in Hung, d \in Side : n \in red => link[d][n] \notin red
      /\ \A m, n \in Removable : Cardinality(Above(m) \ red) = Cardinality(Above(n) \ red)

\* The parent links, which the loops climb, agree with the child links for every
\* node but the root, whose parent nothing may follow; and they lead to the root,
\* so that no node is cut off.  This holds in the middle of an operation too.
Linked ==
    /\ \A n \in Hung, d \in Side :
         LET m == link[d][n] IN m # Nil => m \in Hung \ {root} /\ parent[m] = n
    /\ \A n \in Hung \ {root} : \E d \in Side : link[d][parent[n]] = n
    /\ \A n \in Hung : root \in Above(n)

\* The iterations that are left at most of the loop that is running.
ToGo ==
    CASE pc \in {"descend", "min"} -> Cardinality(Hung \ Above(at))
      [] InsertLoop ->
           2 * Cardinality(Above(at)) + IF SideOf(at) = SideOf(parent[at]) THEN 0 ELSE 1
      [] RemoveLoop ->
           (IF parent[at] \in red THEN 0 ELSE 2 * Cardinality(Above(parent[at])))
             + IF Far \in red THEN 1 ELSE 2
      [] OTHER -> 0

\* No loop of the tree runs for ever: an iteration that is not the last leaves fewer
\* to go.  The loop of insert climbs by two levels or rotates; that of remove climbs
\* by one or rotates, and the rotation that takes it down a level is soon its last.
LoopsEnd == [][pc # "rest" /\ pc' = pc => ToGo' \in Nat /\ ToGo' < ToGo]_vars
==============================================================================
