----------------------------- MODULE NcServerPool -----------------------------
(***************************************************************************)
(* The servers of a pool (nc_server.cpp) and the random distribution       *)
(* (nc_hashkit.cpp): failures eject a server for a while, update rebuilds   *)
(* the continuum from the servers that are live, dispatch picks a slot.     *)
(*                                                                          *)
(* No caller of failure(), and with it of update(), exists yet: the module  *)
(* is about what they do when there is one.  The clock is gettimeofday(),   *)
(* which may fail or be set back, so every reading of it is any time.       *)
(*                                                                          *)
(* update goes through the servers twice, to count those that are live and  *)
(* to give them slots.  Each iteration is a step here, with pc and the      *)
(* locals as variables, 0 between its loops; nothing else happens until     *)
(* update returns.                                                          *)
(*                                                                          *)
(* NcServer and NcServerPool leave m_ns_conn_q_, m_failure_count_,          *)
(* m_next_retry_ and nserver_continuum uninitialised: they are taken to be  *)
(* 0, as in memory fresh from the kernel.  auto_eject_hosts and dist_type   *)
(* are uninitialised as well and may have any value.                        *)
(***************************************************************************)
EXTENDS Integers, Sequences, FiniteSets

CONSTANTS
    NServer,                    \* server.size()
    RANDOM_CONTINUUM_ADDITION,
    server_failure_limit, server_retry_timeout,
    MaxTime                     \* bound: the clock

Server == 0..(NServer - 1)

Time == 1..MaxTime

NoTime == -1    \* gettimeofday() failed

\* Up to this many servers there is a slot for each, however few were live when the
\* continuum was extended: see Grown.
ASSUME ServerPoolAssumption ==
    /\ RANDOM_CONTINUUM_ADDITION \in Nat
    /\ NServer \in 1..((RANDOM_CONTINUUM_ADDITION + 2) \div 2)
    /\ server_failure_limit \in Nat /\ server_retry_timeout \in Nat /\ MaxTime \in Nat

VARIABLES
    auto_eject_hosts, dist_type,
    failure_count,  \* m_failure_count_ of each server
    next_retry,     \* m_next_retry_ of each server
    nlive_server, next_rebuild, nserver_continuum,
    continuum,      \* the server index of each slot
    pc,             \* "idle", or the loop of random_update that runs
    at, now, nlive, continuum_index,    \* its locals: i, now, nlive_server, continuum_index
    due,            \* history: when the last failure at the limit puts each server back in
    fit,            \* history: the servers that are to be in, by due and the times read
    updated,        \* history: whether the last failure or update went through
    picked,         \* the server of the last getConn
    crashed         \* "no", or what the process died of

poolVars == <<nlive_server, next_rebuild, nserver_continuum, continuum>>
loopVars == <<pc, at, now, nlive, continuum_index>>
history == <<due, fit, updated>>
vars == <<auto_eject_hosts, dist_type, failure_count, next_retry, poolVars, loopVars, history,
          picked, crashed>>

Init ==
    /\ auto_eject_hosts \in BOOLEAN /\ dist_type \in {"random", "other"}
    /\ failure_count = [i \in Server |-> 0]
    /\ next_retry = [i \in Server |-> 0]
    /\ nlive_server = 0 /\ next_rebuild = 0 /\ nserver_continuum = 0 /\ continuum = <<>>
    /\ pc = "idle" /\ at = 0 /\ now = NoTime /\ nlive = 0 /\ continuum_index = 0
    /\ due = next_retry /\ fit = Server /\ updated = FALSE
    /\ picked = 0 /\ crashed = "no"

------------------------------------------------------------------------------
\* random_update begins, or returns at once without a clock.  The servers of stay are in
\* until they fail; the others are from a time that is read at or after their due.
Update(stay, time) ==
    /\ fit' = stay \cup {i \in Server : due'[i] <= time}
    /\ \/ time = NoTime /\ UNCHANGED <<next_rebuild, pc, now>>
       \/ /\ time # NoTime
          /\ next_rebuild' = 0
          /\ pc' = "count" /\ now' = time
    /\ UNCHANGED <<auto_eject_hosts, dist_type, nlive_server, nserver_continuum, continuum, at,
                   nlive, continuum_index, picked, crashed>>

\* Mutant of Due: a server is out at the very moment of its retry.
DueStrict(i) == next_retry[i] < now

Due(i) == next_retry[i] <= now

\* Mutant of BackIn: the time of the retry stays.
BackInKept(i) == UNCHANGED next_retry

\* A server that is live has no retry pending.
BackIn(i) == next_retry' = [next_retry EXCEPT ![i] = 0]

\* Mutant of Sooner: next_rebuild is compared without the test for 0.
SoonerUnset(i) == next_retry[i] < next_rebuild

\* A next_rebuild of 0 stands for none.
Sooner(i) == next_rebuild = 0 \/ next_retry[i] < next_rebuild

\* The first loop.
CountServer ==
    /\ pc = "count" /\ at < NServer
    /\ at' = at + 1
    /\ \/ ~auto_eject_hosts /\ nlive' = nlive + 1 /\ UNCHANGED <<next_retry, next_rebuild>>
       \/ auto_eject_hosts /\ Due(at) /\ nlive' = nlive + 1 /\ BackIn(at)
          /\ UNCHANGED next_rebuild
       \/ /\ auto_eject_hosts /\ ~Due(at)
          /\ next_rebuild' = IF Sooner(at) THEN next_retry[at] ELSE next_rebuild
          /\ UNCHANGED <<next_retry, nlive>>
    /\ UNCHANGED <<auto_eject_hosts, dist_type, failure_count, nlive_server, nserver_continuum,
                   continuum, pc, now, continuum_index, history, picked, crashed>>

\* The slots that are pushed to a continuum of size slots to make it n: i counts up
\* as size() does, so the loop ends half way.  A new slot has index 0.
Grown(slots, n) == slots \o [k \in 1..((n - Len(slots) + 1) \div 2) |-> 0]

\* Mutant of Slots: the continuum is only ever extended by the extra slots.
SlotsExtraOnly(n) ==
    IF n > nserver_continuum THEN Grown(continuum, RANDOM_CONTINUUM_ADDITION) ELSE continuum

Slots(n) ==
    IF n > nserver_continuum THEN Grown(continuum, n + RANDOM_CONTINUUM_ADDITION)
    ELSE continuum

\* Between the loops: with no server live update returns, else there are to be slots.
Extend ==
    /\ pc = "count" /\ at = NServer
    /\ nlive_server' = nlive
    /\ at' = 0 /\ continuum_index' = 0 /\ nlive' = 0
    /\ \/ /\ nlive = 0
          /\ pc' = "idle" /\ updated' = TRUE
          /\ UNCHANGED <<nserver_continuum, continuum>>
       \/ /\ nlive > 0
          /\ continuum' = Slots(nlive)
          /\ nserver_continuum' = IF nlive > nserver_continuum
                                  THEN nlive + RANDOM_CONTINUUM_ADDITION ELSE nserver_continuum
          /\ pc' = "assign" /\ UNCHANGED updated
    /\ UNCHANGED <<auto_eject_hosts, dist_type, failure_count, next_retry, next_rebuild, now,
                   due, fit, picked, crashed>>

\* The second loop, which tests next_retry again: a server that is live gets the next
\* slot, without a test that there is one.
AssignSlot ==
    /\ pc = "assign" /\ at < NServer
    /\ at' = at + 1
    /\ \/ /\ auto_eject_hosts /\ next_retry[at] > now
          /\ UNCHANGED <<continuum, continuum_index, crashed>>
       \/ /\ auto_eject_hosts => next_retry[at] <= now
          /\ continuum' = IF continuum_index < Len(continuum)
                          THEN [continuum EXCEPT ![continuum_index + 1] = at] ELSE continuum
          /\ crashed' = IF continuum_index < Len(continuum) THEN crashed ELSE "bounds"
          /\ continuum_index' = continuum_index + 1
    /\ UNCHANGED <<auto_eject_hosts, dist_type, failure_count, next_retry, nlive_server,
                   next_rebuild, nserver_continuum, pc, now, nlive, history, picked>>

Return ==
    /\ pc = "assign" /\ at = NServer
    /\ pc' = "idle" /\ updated' = TRUE /\ at' = 0 /\ continuum_index' = 0
    /\ UNCHANGED <<auto_eject_hosts, dist_type, failure_count, next_retry, poolVars, now, nlive,
                   due, fit, picked, crashed>>

Calls == pc = "idle" /\ crashed = "no"

\* NcServer::failure below the limit; without ejection it does nothing.
FailureCounted(i) ==
    /\ Calls /\ auto_eject_hosts
    /\ failure_count[i] + 1 < server_failure_limit
    /\ failure_count' = [failure_count EXCEPT ![i] = @ + 1]
    /\ UNCHANGED <<auto_eject_hosts, dist_type, next_retry, poolVars, loopVars, history, picked,
                   crashed>>

\* NcServer::failure at the limit: the server is out for server_retry_timeout.  failure
\* and update read the clock one after the other.
Failure(i, time, then) ==
    /\ Calls /\ auto_eject_hosts
    /\ failure_count[i] + 1 >= server_failure_limit
    /\ failure_count' = [failure_count EXCEPT ![i] = 0]
    /\ next_retry' = [next_retry EXCEPT ![i] = time + server_retry_timeout]
    /\ due' = [due EXCEPT ![i] = time + server_retry_timeout] /\ updated' = FALSE
    /\ Update(fit \ {i}, then)

\* NcServer::failure at the limit when the clock fails: the count goes on.  Bound: it
\* does so once, since a count above the limit is compared as one at it.
FailureNoClock(i) ==
    /\ Calls /\ auto_eject_hosts
    /\ failure_count[i] + 1 = server_failure_limit
    /\ failure_count' = [failure_count EXCEPT ![i] = @ + 1]
    /\ UNCHANGED <<auto_eject_hosts, dist_type, next_retry, poolVars, loopVars, history, picked,
                   crashed>>

\* NcServerPool::update by itself.
UpdateNow(time) ==
    /\ Calls
    /\ UNCHANGED <<failure_count, next_retry, due, updated>>
    /\ Update(fit, time)

\* getConn with a distribution other than random, or with one: the slot is drawn from
\* all slots, those past nlive_server included, and random() % 0 ends the process.
getConn ==
    /\ Calls
    /\ \/ /\ dist_type = "other" /\ picked' = 0 % NServer
          /\ UNCHANGED crashed
       \/ /\ dist_type = "random" /\ continuum # <<>>
          /\ \E k \in DOMAIN continuum : picked' = continuum[k] % NServer
          /\ UNCHANGED crashed
       \/ /\ dist_type = "random" /\ continuum = <<>>
          /\ crashed' = "division" /\ UNCHANGED picked
    /\ UNCHANGED <<auto_eject_hosts, dist_type, failure_count, next_retry, poolVars, loopVars,
                   history>>

Next ==
    \/ \E i \in Server :
         \/ FailureCounted(i) \/ FailureNoClock(i)
         \/ \E time \in Time, then \in Time \cup {NoTime} : Failure(i, time, then)
    \/ \E time \in Time \cup {NoTime} : UpdateNow(time)
    \/ CountServer \/ Extend \/ AssignSlot \/ Return
    \/ getConn

Spec == Init /\ [][Next]_vars

------------------------------------------------------------------------------
Updated == pc = "idle" /\ updated

InSlots == {continuum[k] : k \in 1..nlive_server}

\* The two loops of update agree, although the first changes the next_retry that both
\* test: there are as many slots in use as servers were counted, one for each server
\* the second loop takes for live, whatever was in them before.
LiveServersHaveSlots ==
    LET live == {i \in Server : auto_eject_hosts => next_retry[i] <= now}
    IN  Updated /\ nlive_server > 0 => InSlots = live /\ Cardinality(live) = nlive_server

\* A server that failed to the limit has no slot in use until update reads a time at or
\* after its retry, and then it has one until it fails to the limit again, even if the
\* clock is set back before that retry in between.
InUntilFailure == Updated => InSlots = fit

\* next_rebuild is the moment the first of the servers that are out is due, and 0 if
\* and only if none is out.
RebuildInTime ==
    LET out == Server \ fit
    IN  Updated => /\ out = {} <=> next_rebuild = 0
                   /\ out # {} => next_rebuild \in {due[i] : i \in out}
                   /\ \A i \in out : next_rebuild <= due[i]

\* Update writes no slot the continuum does not have, although the loop that extends
\* it stops half way, and the number of servers that are live goes down before it
\* goes up again: as long as the servers are no more than ServerPoolAssumption says.
SlotsSuffice == crashed # "bounds"
==============================================================================
