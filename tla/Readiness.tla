------------------------------ MODULE Readiness ------------------------------
(***************************************************************************)
(* What the event base promises to the connections: a registration counts  *)
(* from the call that makes it to the call that ends it, an event goes to  *)
(* the connection that registered for it, and to no connection that has     *)
(* been closed since, which gets an empty callback at most.                 *)
(*                                                                          *)
(* These are the operators of NcEvent, which the model of the whole system  *)
(* calls, as a state machine of their own: NcKqueue implements it.  The     *)
(* actions relate the state e before a step to the state f after it.        *)
(***************************************************************************)
EXTENDS NcEvent

VARIABLES
    ev,     \* the state of the event base, as in NcEvent
    rreg    \* the connections registered for reading

vars == <<ev, rreg>>

\* listen() and connect() have registered the listener and the server.
Init ==
    /\ ev = [sact |-> {Srv}, wreg |-> {Srv}, ready |-> {}, batch |-> {}, cur |-> None]
    /\ rreg = {Srv, Lsn}

Open(e, f) ==
    /\ e.cur = <<Lsn, "read">>
    /\ \E c \in Conn \ rreg, readable \in BOOLEAN :
         f = AddConn(e, c, readable) /\ rreg' = rreg \cup {c}

\* The callback of a connection closes it and returns.
Close(e, f) ==
    \E c \in Fd :
      /\ e.cur \in {<<c, "read">>, <<c, "write">>}
      /\ f = End(DelConn(e, c)) /\ rreg' = rreg \ {c}

Output(e, f) ==
    /\ e.cur # None
    /\ \E c \in Fd, sd, writable \in BOOLEAN : f = AddOutput(e, c, sd, writable)
    /\ UNCHANGED rreg

NoOutput(e, f) ==
    /\ e.cur # None
    /\ \E c \in Fd : f = DelOutput(e, c)
    /\ UNCHANGED rreg

\* The kernel finds a registered socket ready.
Happens(e, f) ==
    /\ \/ \E c \in rreg : f = Activate(e, <<c, "read">>)
       \/ \E c \in e.wreg : f = Activate(e, <<c, "write">>)
    /\ UNCHANGED rreg

Poll(e, f) ==
    /\ e.cur = None /\ e.batch = {}
    /\ f = Return(e, e.ready)
    /\ UNCHANGED rreg

Deliver(e, f) ==
    /\ e.cur = None
    /\ \E x \in e.batch : f = Begin(e, x)
    /\ UNCHANGED rreg

Finish(e, f) ==
    /\ e.cur # None /\ f = End(e)
    /\ UNCHANGED rreg

Step(e, f) ==
    \/ Open(e, f) \/ Close(e, f) \/ Output(e, f) \/ NoOutput(e, f)
    \/ Happens(e, f) \/ Poll(e, f) \/ Deliver(e, f) \/ Finish(e, f)

Next == Step(ev, ev')

Spec == Init /\ [][Next]_vars
==============================================================================
