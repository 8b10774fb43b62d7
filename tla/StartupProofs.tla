---------------------------- MODULE StartupProofs ----------------------------
(***************************************************************************)
(* main enters the loop with everything the configuration asks for.        *)
(*                                                                         *)
(* ServesWhole says nothing before the loop.  The invariant counts along:  *)
(* at names the connection that is made next, and what is made, registered *)
(* and up is what comes before it.  A failure, which leaves entries of     *)
(* change[] behind and deletes connections, ends in an exit: between it    *)
(* and the exit nothing is claimed, and nothing leads back.                *)
(***************************************************************************)
EXTENDS NcStartup, TLAPS

Early == {"options", "conf", "log", "fork", "forkagain", "signals"}

PC == Early \cup {"context", "server", "failed", "wait", "serving"} \cup Ended

\* The connections of the first n pools.
Upto(n) == UNION {{i} \X (0..conf[i]) : i \in 1..n}

\* What comes before connection at.
Before == Upto(at[1] - 1) \cup ({at[1]} \X (1..(at[2] - 1)))

Exactly(S) == made = S /\ reg = S /\ up = S /\ deleted = <<>>

Inv ==
    /\ pc \in PC /\ conf \in Seq(Nat) /\ at \in Nat \X Nat
    /\ pc \in Early => at = <<1, 1>> /\ Exactly({})
    /\ pc \in {"context", "server"} => at[1] >= 1 /\ at[2] >= 1 /\ Exactly(Before)
    /\ pc = "context" => at[2] = 1 /\ at[1] <= Len(conf) + 1
    /\ pc = "server" => at[1] <= Len(conf) /\ at[2] <= conf[at[1]] + 1
    /\ pc \in {"wait", "serving"} => Exactly(Wanted)

------------------------------------------------------------------------------
\* What comes before the next server of a pool, and before the next pool.
LEMMA BeforeNext ==
    ASSUME NEW i \in Nat, NEW j \in Nat, i >= 1, j >= 1, i <= Len(conf), conf \in Seq(Nat)
    PROVE  /\ ({i} \X (1..(j - 1))) \cup {<<i, j>>} = {i} \X (1..((j + 1) - 1))
           /\ j = conf[i] + 1 =>
                Upto(i - 1) \cup ({i} \X (1..(j - 1))) \cup {<<i, 0>>} = Upto((i + 1) - 1)
           /\ {i + 1} \X (1..(1 - 1)) = {}
  <1>1. conf[i] \in Nat
    OBVIOUS
  <1>2. 1..((j + 1) - 1) = (1..(j - 1)) \cup {j}
    OBVIOUS
  <1>3. ({i} \X (1..(j - 1))) \cup {<<i, j>>} = {i} \X (1..((j + 1) - 1))
    BY <1>2
  <1>4. 1..(1 - 1) = {}
    OBVIOUS
  <1>5. ASSUME j = conf[i] + 1
        PROVE  Upto(i - 1) \cup ({i} \X (1..(j - 1))) \cup {<<i, 0>>} = Upto((i + 1) - 1)
    <2>1. 0..conf[i] = (1..(j - 1)) \cup {0}
      BY <1>1, <1>5
    <2>2. 1..((i + 1) - 1) = (1..(i - 1)) \cup {i}
      OBVIOUS
    <2>3. {i} \X (0..conf[i]) = ({i} \X (1..(j - 1))) \cup {<<i, 0>>}
      BY <2>1
    <2>4. Upto((i + 1) - 1) = Upto(i - 1) \cup ({i} \X (0..conf[i]))
      BY <2>2 DEF Upto
    <2> QED BY <2>3, <2>4
  <1> QED BY <1>3, <1>4, <1>5

\* Before the first pool there is nothing, after the last everything.
LEMMA BeforeEnds ==
    /\ Upto(0) = {} /\ Upto(Len(conf)) = Wanted
    /\ at = <<1, 1>> => Before = {}
  <1>1. 1..0 = {} /\ 1..(1 - 1) = {} /\ 1 - 1 = 0
    OBVIOUS
  <1>2. Upto(0) = {}
    BY <1>1 DEF Upto
  <1> QED BY <1>1, <1>2 DEF Upto, Wanted, Before

\* The process starts before the first pool.
LEMMA InitInv == Init => Inv
  BY DEF Init, Inv, Exactly, PC, Early, Ended

\* Nothing is claimed of a process that has ended or whose context failed.
LEMMA StopInv ==
    ASSUME Inv, pc' \in Ended \cup {"failed"}, UNCHANGED <<conf, at>>
    PROVE  Inv'
  BY DEF Inv, PC, Early, Ended

\* The steps before the first pool.
LEMMA EarlyInv ==
    ASSUME Inv, pc \in Early, pc' \in Early \cup Ended, conf' \in Seq(Nat),
           UNCHANGED <<at, connState>>
    PROVE  Inv'
  BY DEF Inv, PC, Early, Ended, Exactly, connState

\* Steps that stay at the same connection.
LEMMA SameBefore ==
    ASSUME UNCHANGED <<conf, at>>
    PROVE  UNCHANGED Before /\ UNCHANGED Wanted
  BY DEF Before, Wanted, Upto

\* Every step keeps the invariant.
LEMMA NextInv == Inv /\ [Next]_vars => Inv'
  <1> SUFFICES ASSUME Inv, [Next]_vars PROVE Inv'
    OBVIOUS
  <1>1. ASSUME NEW o \in {"h", "V", "t", "d", "D"}, Option(o) PROVE Inv'
    BY <1>1, EarlyInv DEF Option, Early, Inv
  <1>2. CASE BadOption
    BY <1>2, EarlyInv DEF BadOption, Early, Ended, Inv
  <1>3. CASE EndOptions
    BY <1>3, EarlyInv DEF EndOptions, Early, Ended, Inv
  <1>4. CASE ReadConf
    BY <1>4, EarlyInv, StartupAssumption DEF ReadConf, Early, Ended
  <1>5. CASE ConfFails
    BY <1>5, EarlyInv DEF ConfFails, Early, Ended, Inv
  <1>6. CASE OpenLog
    BY <1>6, EarlyInv DEF OpenLog, Early, Ended, Inv
  <1>7. CASE Fork
    BY <1>7, EarlyInv DEF Fork, Early, Ended, Inv
  <1>8. CASE ForkAgain
    BY <1>8, EarlyInv DEF ForkAgain, Early, Ended, Inv
  <1>9. CASE Signals
    <2>1. /\ pc = "signals" /\ pc' = "context" /\ UNCHANGED <<conf, at, connState>>
          /\ at = <<1, 1>> /\ Exactly({}) /\ conf \in Seq(Nat)
      BY <1>9 DEF Signals, Inv, Early
    <2>2. Before = {} /\ UNCHANGED Before
      BY <2>1, BeforeEnds, SameBefore
    <2> QED BY <2>1, <2>2 DEF Inv, PC, Early, Ended, Exactly, connState
  <1>10. CASE Context
    <2>1. CASE pc' = "exit1"
      BY <1>10, <2>1, StopInv DEF Context, Ended
    <2>2. CASE pc' = "server"
      <3>1. pc = "context" /\ at[1] <= Len(conf) /\ UNCHANGED <<conf, at, connState>>
        BY <1>10 DEF Context
      <3>2. UNCHANGED Before /\ conf[at[1]] \in Nat
        BY <3>1, SameBefore DEF Inv
      <3> QED BY <2>2, <3>1, <3>2 DEF Inv, PC, Early, Ended, Exactly, connState
    <2> QED BY <1>10, <2>1, <2>2 DEF Context
  <1>11. CASE AllContexts
    <2>1. /\ pc = "context" /\ pc' = "wait" /\ UNCHANGED <<conf, at, connState>>
          /\ at[1] = Len(conf) + 1 /\ at[2] = 1 /\ Exactly(Before) /\ conf \in Seq(Nat)
      BY <1>11 DEF AllContexts, Inv
    <2>2. Before = Wanted /\ UNCHANGED Wanted
      <3>1. (Len(conf) + 1) - 1 = Len(conf) /\ 1..(1 - 1) = {}
        BY <2>1
      <3>2. Before = Upto(Len(conf))
        BY <2>1, <3>1 DEF Before
      <3> QED BY <2>1, <3>2, BeforeEnds, SameBefore
    <2> QED BY <2>1, <2>2 DEF Inv, PC, Early, Ended, Exactly, connState
  <1>12. CASE Connect
    <2>1. /\ pc = "server" /\ pc' = pc /\ at[2] <= conf[at[1]] /\ conf' = conf /\ deleted' = deleted
          /\ made' = made \cup {at} /\ reg' = reg \cup {at} /\ up' = up \cup {at}
          /\ at' = <<at[1], at[2] + 1>>
      BY <1>12 DEF Connect, ServersLeft
    <2>2. /\ at \in Nat \X Nat /\ at[1] >= 1 /\ at[2] >= 1 /\ at[1] <= Len(conf)
          /\ Exactly(Before) /\ conf \in Seq(Nat) /\ conf[at[1]] \in Nat
      BY <2>1 DEF Inv
    <2>3. Before' = Before \cup {at}
      <3>1. at = <<at[1], at[2]>> /\ at[1] \in Nat /\ at[2] \in Nat
        BY <2>2
      <3>2. ({at[1]} \X (1..(at[2] - 1))) \cup {<<at[1], at[2]>>}
              = {at[1]} \X (1..((at[2] + 1) - 1))
        BY <2>2, <3>1, BeforeNext
      <3>3. Before' = Upto(at[1] - 1) \cup ({at[1]} \X (1..((at[2] + 1) - 1)))
        BY <2>1 DEF Before, Upto
      <3> QED BY <3>1, <3>2, <3>3 DEF Before
    <2> QED BY <2>1, <2>2, <2>3 DEF Inv, PC, Early, Ended, Exactly
  <1>13. CASE ConnectFails
    BY <1>13, StopInv DEF ConnectFails
  <1>14. CASE Listen
    <2> DEFINE l == <<at[1], 0>>
    <2>1. /\ pc = "server" /\ pc' = "context" /\ ~(at[2] <= conf[at[1]]) /\ conf' = conf
          /\ deleted' = deleted
          /\ made' = made \cup {l} /\ reg' = reg \cup {l} /\ up' = up \cup {l}
          /\ at' = <<at[1] + 1, 1>>
      BY <1>14 DEF Listen, ServersLeft
    <2>2. /\ at \in Nat \X Nat /\ at[1] >= 1 /\ at[2] >= 1 /\ at[1] <= Len(conf)
          /\ Exactly(Before) /\ conf \in Seq(Nat) /\ conf[at[1]] \in Nat
          /\ at[2] <= conf[at[1]] + 1
      BY <2>1 DEF Inv
    <2>3. at[2] = conf[at[1]] + 1
      BY <2>1, <2>2
    <2>4. Before' = Before \cup {l}
      <3>1. /\ Before \cup {l} = Upto((at[1] + 1) - 1)
            /\ {at[1] + 1} \X (1..(1 - 1)) = {}
        BY <2>2, <2>3, BeforeNext DEF Before
      <3>2. Before' = Upto((at[1] + 1) - 1) \cup ({at[1] + 1} \X (1..(1 - 1)))
        BY <2>1 DEF Before, Upto
      <3> QED BY <3>1, <3>2
    <2> QED BY <2>1, <2>2, <2>4 DEF Inv, PC, Early, Ended, Exactly
  <1>15. CASE ListenFails
    BY <1>15, StopInv DEF ListenFails
  <1>16. CASE ContextFailed
    BY <1>16, StopInv DEF ContextFailed, Ended
  <1>17. CASE Wait
    <2>1. CASE pc' = "exit1"
      BY <1>17, <2>1, StopInv DEF Wait, Ended
    <2>2. CASE pc' = "serving"
      <3>1. pc = "wait" /\ UNCHANGED <<conf, at, connState>> /\ UNCHANGED Wanted
        BY <1>17, SameBefore DEF Wait
      <3> QED BY <2>2, <3>1 DEF Inv, PC, Early, Ended, Exactly, connState
    <2> QED BY <1>17, <2>1, <2>2 DEF Wait
  <1>18. CASE Hangup
    BY <1>18, StopInv DEF Hangup, Ended
  <1>19. CASE UNCHANGED vars
    <2>1. UNCHANGED <<pc, conf, at, connState>> /\ UNCHANGED Wanted /\ UNCHANGED Before
      BY <1>19, SameBefore DEF vars
    <2> QED BY <2>1 DEF Inv, Exactly, connState
  <1> QED BY <1>1, <1>2, <1>3, <1>4, <1>5, <1>6, <1>7, <1>8, <1>9, <1>10, <1>11, <1>12,
             <1>13, <1>14, <1>15, <1>16, <1>17, <1>18, <1>19 DEF Next, Step

\* When main enters the loop, every pool listens and has all of its servers, and every
\* entry of change[] is for a connection that exists, for any configuration.
THEOREM AllOrNothing == Spec => []ServesWhole
  <1>1. Inv => ServesWhole
    BY DEF Inv, ServesWhole, Exactly
  <1> QED BY <1>1, InitInv, NextInv, PTL DEF Spec
==============================================================================
