-------------------------------- MODULE Timers --------------------------------
(***************************************************************************)
(* What the timeout tree promises its user, NcInstance::loop: a collection *)
(* of nodes with keys, out of which the node handed over by min() is one   *)
(* with the least key.                                                     *)
(***************************************************************************)
EXTENDS Naturals

CONSTANTS
    Node,   \* the rbnode objects
    Key     \* the times they are ordered by

VARIABLES
    armed,  \* the nodes in the collection, each with its key
    first   \* what min() answered last: a set of at most one node

timerVars == <<armed, first>>

Init == armed = [n \in {} |-> 0] /\ first = {}

Arm(n, k) ==
    /\ n \notin DOMAIN armed
    /\ armed' = [m \in DOMAIN armed \cup {n} |-> IF m = n THEN k ELSE armed[m]]
    /\ first' = {}

\* The answer of min(): no node at all only when the collection is empty.
Least ==
    /\ UNCHANGED armed
    /\ \/ DOMAIN armed = {} /\ first' = {}
       \/ \E n \in DOMAIN armed :
            /\ \A m \in DOMAIN armed : armed[n] <= armed[m]
            /\ first' = {n}

Disarm(n) ==
    /\ n \in DOMAIN armed
    /\ armed' = [m \in DOMAIN armed \ {n} |-> armed[m]]
    /\ first' = {}

Next ==
    \/ \E n \in Node, k \in Key : Arm(n, k)
    \/ Least
    \/ \E n \in Node : Disarm(n)

Spec == Init /\ [][Next]_timerVars
==============================================================================
