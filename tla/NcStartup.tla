------------------------------- MODULE NcStartup -------------------------------
(***************************************************************************)
(* From main() to the event loop (nc.cpp, nc_core.cpp): options, the       *)
(* configuration, the daemon, the signals, and for each pool a context     *)
(* with its server connections and its listener, any of which may fail.    *)
(*                                                                         *)
(* A connection is <<i, j>>: server j of pool i, or its listener (j = 0).  *)
(* Of the process only the one that goes on after a fork is followed.      *)
(***************************************************************************)
EXTENDS Integers, Sequences

CONSTANTS
    Pools,      \* what the configuration may hold: the number of servers of each pool
    Rlimit,     \* the values RLIMIT_NOFILE may have
    RESERVED_FDS,
    UintMod     \* 2^32

ASSUME StartupAssumption ==
    /\ \A p \in Pools : p \in Seq(Nat)
    /\ Rlimit \subseteq Nat /\ RESERVED_FDS \in Nat /\ UintMod \in Nat \ {0}

VARIABLES
    pc,         \* what main does next, or how the process ended
    opts,       \* the options seen
    conf,       \* nci.conf.pool
    proc,       \* the process: "main", or the one after one or two forks
    kq,         \* the process that has the kqueue of nci.evb, or "none"
    hup,        \* what SIGHUP does
    at,         \* the connection that is being made
    max_ncconn,
    made,       \* the connections made and not deleted
    reg,        \* those with entries in change[]: addConn has been called
    up,         \* listening, connected or connecting
    p_pool,     \* connections given back to p_pool
    deleted     \* the connections that were deleted, in order

connState == <<made, reg, up, p_pool, deleted>>
vars == <<pc, opts, conf, proc, kq, hup, at, max_ncconn, connState>>

Ended == {"exit0", "exit1", "abort", "killed"}

\* NcInstance nci: the constructor of its event base calls kqueue(), which may fail, and
\* closes the queue again when event, a pointer not yet set, happens to be NULL.
Init ==
    /\ pc \in {"options", "exit0"} /\ opts = {} /\ conf = <<>>
    /\ proc = "main" /\ kq \in {"main", "none"} /\ hup = "default"
    /\ at = <<1, 1>> /\ max_ncconn = 0
    /\ made = {} /\ reg = {} /\ up = {} /\ p_pool = <<>> /\ deleted = <<>>

------------------------------------------------------------------------------
\* ncGetOptions: the next option; -h and -D show the version as well.
Option(o) ==
    /\ pc = "options" /\ o \notin opts
    /\ opts' = opts \cup (IF o \in {"h", "D"} THEN {o, "V"} ELSE {o})
    /\ UNCHANGED <<pc, conf, proc, kq, hup, at, max_ncconn, connState>>

\* An unknown option, or an argument that is missing, no number or out of range.
BadOption ==
    /\ pc = "options" /\ pc' = "exit1"
    /\ UNCHANGED <<opts, conf, proc, kq, hup, at, max_ncconn, connState>>

EndOptions ==
    /\ pc = "options" /\ pc' = IF "V" \in opts THEN "exit0" ELSE "conf"
    /\ UNCHANGED <<opts, conf, proc, kq, hup, at, max_ncconn, connState>>

\* openFile and parseProcess, of ncTestConf and of ncInit.
ReadConf ==
    /\ pc = "conf" /\ conf' \in Pools
    /\ pc' = IF "t" \in opts THEN "exit0" ELSE "log"
    /\ UNCHANGED <<opts, proc, kq, hup, at, max_ncconn, connState>>

ConfFails ==
    /\ pc = "conf" /\ pc' = "exit1"
    /\ UNCHANGED <<opts, conf, proc, kq, hup, at, max_ncconn, connState>>

\* NcLogger::init.
OpenLog ==
    /\ pc = "log" /\ pc' \in {IF "d" \in opts THEN "fork" ELSE "signals", "exit1"}
    /\ UNCHANGED <<opts, conf, proc, kq, hup, at, max_ncconn, connState>>

\* ncDaemonize: fork and setsid; SIGHUP is ignored from here on.
Fork ==
    /\ pc = "fork"
    /\ \/ proc' = "leader" /\ hup' = "ignore" /\ pc' = "forkagain"
       \/ proc' \in {"main", "leader"} /\ hup' = hup /\ pc' = "exit1"
    /\ UNCHANGED <<opts, conf, kq, at, max_ncconn, connState>>

\* ncDaemonize: the second fork, and /dev/null for the standard descriptors.
ForkAgain ==
    /\ pc = "forkagain"
    /\ \/ proc' = "daemon" /\ pc' = "signals"
       \/ proc' \in {"leader", "daemon"} /\ pc' = "exit1"
    /\ UNCHANGED <<opts, conf, kq, hup, at, max_ncconn, connState>>

\* new NcSignal(): every signal, SIGHUP among them, now ends the process.
Signals ==
    /\ pc = "signals" /\ hup' = "exit" /\ pc' = "context"
    /\ UNCHANGED <<opts, conf, proc, kq, at, max_ncconn, connState>>

------------------------------------------------------------------------------
\* createContext up to calcConnections: the subtraction is one of uint32_t.
\* main goes on to the loop once every pool has a context.
Context ==
    /\ pc = "context" /\ at[1] <= Len(conf)
    /\ \/ /\ \E n \in Rlimit : max_ncconn' = (n - RESERVED_FDS) % UintMod
          /\ pc' = "server"
       \/ max_ncconn' = 0 /\ pc' = "exit1"
    /\ UNCHANGED <<opts, conf, proc, kq, hup, at, connState>>

AllContexts ==
    /\ pc = "context" /\ at[1] > Len(conf)
    /\ pc' = "wait"
    /\ UNCHANGED <<opts, conf, proc, kq, hup, at, max_ncconn, connState>>

ServersLeft == at[2] <= conf[at[1]]

\* createServerConn: one server, connected or connecting (EINPROGRESS).
Connect ==
    /\ pc = "server" /\ ServersLeft
    /\ made' = made \cup {at} /\ reg' = reg \cup {at} /\ up' = up \cup {at}
    /\ at' = <<at[1], at[2] + 1>>
    /\ UNCHANGED <<pc, opts, conf, proc, kq, hup, max_ncconn, p_pool, deleted>>

\* createServerConn: NcServerConn::ref or connect fails, before or after addConn.  The
\* connection is deleted, its entries of change[] stay; createContext returns NULL.
ConnectFails ==
    /\ pc = "server" /\ ServersLeft
    /\ reg' \in {reg, reg \cup {at}}
    /\ deleted' = Append(deleted, at)
    /\ pc' = "failed"
    /\ UNCHANGED <<opts, conf, proc, kq, hup, at, max_ncconn, made, up, p_pool>>

\* createProxyConn: every step of listen succeeds.
Listen ==
    /\ pc = "server" /\ ~ServersLeft
    /\ LET l == <<at[1], 0>>
       IN  made' = made \cup {l} /\ reg' = reg \cup {l} /\ up' = up \cup {l}
    /\ at' = <<at[1] + 1, 1>> /\ pc' = "context"
    /\ UNCHANGED <<opts, conf, proc, kq, hup, max_ncconn, p_pool, deleted>>

\* createProxyConn: socket, reuse, bind, chmod, listen or ncSetNonBlocking fails.
\* close() gives the connection to p_pool, and then it is deleted.
ListenFails ==
    /\ pc = "server" /\ ~ServersLeft
    /\ p_pool' = <<<<at[1], 0>>>>
    /\ deleted' = Append(deleted, <<at[1], 0>>)
    /\ pc' = "failed"
    /\ UNCHANGED <<opts, conf, proc, kq, hup, at, max_ncconn, made, reg, up>>

\* Mutant of ContextFailed: main goes on with the next pool.
ContextFailedIgnored ==
    /\ pc = "failed"
    /\ deleted' = deleted \o p_pool /\ p_pool' = <<>>
    /\ pc' = "context" /\ at' = <<at[1] + 1, 1>>
    /\ UNCHANGED <<opts, conf, proc, kq, hup, max_ncconn, made, reg, up>>

\* Mutant of ContextFailed: main tries to create the context again.
ContextFailedRetried ==
    /\ pc = "failed"
    /\ deleted' = <<>> /\ p_pool' = <<>>
    /\ pc' = "context"
    /\ UNCHANGED <<opts, conf, proc, kq, hup, at, max_ncconn, made, reg, up>>

\* nc_delete(_ctx): the destructor of p_pool deletes what it holds, also what is
\* deleted already, which the allocator may notice.  main ends the process.
ContextFailed ==
    /\ pc = "failed"
    /\ deleted' = deleted \o p_pool /\ p_pool' = <<>>
    /\ pc' \in IF p_pool = <<>> THEN {"exit1"} ELSE {"exit1", "abort"}
    /\ UNCHANGED <<opts, conf, proc, kq, hup, at, max_ncconn, made, reg, up>>

\* loop: kevent() applies change[].  A kqueue is not inherited by a child, where its
\* descriptor is not open: wait returns -1, and main ends.
Wait ==
    /\ pc = "wait" /\ pc' = IF proc = kq THEN "serving" ELSE "exit1"
    /\ UNCHANGED <<opts, conf, proc, kq, hup, at, max_ncconn, connState>>

\* SIGHUP, at any time: the handler of NcSignal replaces the SIG_IGN of ncDaemonize.
Hangup ==
    /\ pc \notin Ended /\ hup # "ignore"
    /\ pc' = IF hup = "exit" THEN "exit0" ELSE "killed"
    /\ UNCHANGED <<opts, conf, proc, kq, hup, at, max_ncconn, connState>>

Step ==
    \/ \E o \in {"h", "V", "t", "d", "D"} : Option(o)
    \/ BadOption \/ EndOptions \/ ReadConf \/ ConfFails \/ OpenLog
    \/ Fork \/ ForkAgain \/ Signals
    \/ Context \/ AllContexts \/ Connect \/ ConnectFails \/ Listen \/ ListenFails
    \/ ContextFailed \/ Wait

Next == Step \/ Hangup

Spec == Init /\ [][Next]_vars

\* main runs: no call it makes blocks for ever.
FairSpec == Spec /\ WF_vars(Step)

------------------------------------------------------------------------------
\* The connections a configuration asks for.
Wanted == UNION {{i} \X (0..conf[i]) : i \in 1..Len(conf)}

\* All or nothing: when main enters the loop, every pool listens and has all of its
\* servers, and every entry of change[] that kevent() applies is for a connection
\* that exists.  (connect() registers a connection before it can fail, and the entry
\* outlives the connection.)
ServesWhole ==
    pc \in {"wait", "serving"} =>
      /\ up = Wanted /\ reg = Wanted /\ made = Wanted
      /\ \A i \in DOMAIN deleted : deleted[i] \notin reg

\* Once the configuration is read, main gets to the loop or ends, whatever fails.
StartupEnds == pc = "log" ~> pc \in {"serving"} \cup Ended
==============================================================================
