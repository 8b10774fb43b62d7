------------------------------- MODULE NcKqueue -------------------------------
(***************************************************************************)
(* The kqueue event base with its arrays and descriptors                   *)
(* (event/nc_kqueue.cpp): calls are entries of change[], which the next     *)
(* kevent() applies; the kernel knows descriptors, which are used again as  *)
(* soon as they are closed; event[] holds what kevent() returned.           *)
(*                                                                          *)
(* kevent(2) is external.  The order in which it returns events is not      *)
(* specified, so event is a set: the next one handled is any one of it.     *)
(***************************************************************************)
EXTENDS Integers, Sequences

CONSTANTS
    Conn, Srv, Lsn, None,   \* as in NcEvent
    Desc,                   \* the descriptors of the process
    NoSd,                   \* -1
    SrvSd, LsnSd,           \* those of the server and of the listener
    MaxChange               \* bound: entries of change[]

Fd == Conn \cup {Srv, Lsn}

Filter == {"read", "write"}

ASSUME KqueueAssumption ==
    /\ Desc \subseteq Nat /\ NoSd \notin Desc /\ SrvSd \in Desc /\ LsnSd \in Desc /\ SrvSd # LsnSd
    /\ Srv \notin Conn /\ Lsn \notin Conn /\ Srv # Lsn
    /\ None \notin [ident: Desc, filter: Filter \cup {"none"}, udata: Fd]
    /\ None \notin Fd \X (Filter \cup {"none"})
    /\ MaxChange \in Nat

VARIABLES
    sd,         \* m_sd_
    ract, sact, \* the connections with m_recv_active_, m_send_active_
    change,     \* change[0 .. nchange - 1]
    event,      \* event[nprocessed + 1 .. nreturned - 1]
    cur,        \* event[nprocessed], while its callback runs
    knote,      \* the knotes of the kernel
    active      \* the (descriptor, filter) of those that have seen their event

kernel == <<knote, active>>
vars == <<sd, ract, sact, change, event, cur, knote, active>>

Knote == [ident: Desc, filter: Filter, udata: Fd]

Key(k) == <<k.ident, k.filter>>

Taken == {sd[c] : c \in Fd} \ {NoSd}

\* NcProxyConn::listen and NcServerConn::connect have called addConn, and listen
\* has called delOutput.
Init ==
    /\ sd = [c \in Fd |-> IF c = Srv THEN SrvSd ELSE IF c = Lsn THEN LsnSd ELSE NoSd]
    /\ ract = {Srv, Lsn} /\ sact = {Srv}
    /\ change = <<[ident |-> SrvSd, filter |-> "read", op |-> "add", udata |-> Srv],
                  [ident |-> SrvSd, filter |-> "write", op |-> "add", udata |-> Srv],
                  [ident |-> LsnSd, filter |-> "read", op |-> "add", udata |-> Lsn],
                  [ident |-> LsnSd, filter |-> "write", op |-> "add", udata |-> Lsn],
                  [ident |-> LsnSd, filter |-> "write", op |-> "delete", udata |-> Lsn]>>
    /\ event = {} /\ cur = None
    /\ knote = {} /\ active = {}

------------------------------------------------------------------------------
\* EV_SET on the next entry of change[].
EV_SET(c, f, op) == [ident |-> sd[c], filter |-> f, op |-> op, udata |-> c]

\* What addInput, addOutput, delInput and delOutput append: nothing when the flag
\* of the connection says that it is so already.
Adds(flag, c, f) == IF c \in flag THEN <<>> ELSE <<EV_SET(c, f, "add")>>

Dels(flag, c, f) == IF c \notin flag THEN <<>> ELSE <<EV_SET(c, f, "delete")>>

\* The callback of c is running, for filter f.
In(c, f) == cur # None /\ cur.udata = c /\ cur.filter = f

\* A client that has read a request asks for the output of its server, or answers by
\* itself; a server that has read a response asks for the output of the client, which
\* may be closed by then.
addOutput(c) ==
    /\ \/ c = Srv /\ \E d \in Conn : In(d, "read")
       \/ c \in Conn /\ (In(c, "read") \/ In(Srv, "read"))
    /\ Len(change) < MaxChange
    /\ change' = change \o Adds(sact, c, "write")
    /\ sact' = sact \cup {c}
    /\ UNCHANGED <<sd, ract, event, cur, kernel>>

\* sendNext with nothing left to send.
delOutput(c) ==
    /\ In(c, "write") /\ Len(change) < MaxChange
    /\ change' = change \o Dels(sact, c, "write")
    /\ sact' = sact \ {c}
    /\ UNCHANGED <<sd, ract, event, cur, kernel>>

\* NcProxyConn::accept: a connection that is not in use gets the lowest
\* descriptor that is free, and addConn(conn, EVENT_READ).
Accept(c, d) ==
    /\ In(Lsn, "read") /\ Len(change) < MaxChange
    /\ sd[c] = NoSd /\ d \in Desc \ Taken /\ \A other \in Desc \ Taken : d <= other
    /\ sd' = [sd EXCEPT ![c] = d]
    /\ change' = change \o IF c \in ract THEN <<>>
                           ELSE <<[ident |-> d, filter |-> "read", op |-> "add", udata |-> c]>>
    /\ ract' = ract \cup {c}
    /\ UNCHANGED <<sact, event, cur, kernel>>

\* The events delConn may overwrite: those of the descriptor.
Matching(c) == {e \in event : e.ident = sd[c]}

Overwritten(c) ==
    IF Matching(c) = {} THEN {event}
    ELSE {(event \ {e}) \cup {[e EXCEPT !.filter = "none"]} : e \in Matching(c)}

\* close(2) of a descriptor: its knotes go.
CloseSd(c, closes) ==
    IF closes
    THEN /\ sd' = [sd EXCEPT ![c] = NoSd]
         /\ knote' = {k \in knote : k.ident # sd[c]}
         /\ active' = {k \in active : k[1] # sd[c]}
    ELSE UNCHANGED <<sd, kernel>>

\* Mutant of processClose: close(2) is left to remove the knotes.
processCloseNoDel(c) ==
    /\ \E f \in Filter : In(c, f)
    /\ Len(change) < MaxChange
    /\ ract' = ract \ {c} /\ sact' = sact \ {c}
    /\ event' \in Overwritten(c)
    /\ cur' = None
    /\ CloseSd(c, c # Srv)
    /\ UNCHANGED change

\* Mutant of processClose: the event of the descriptor that is waiting stays.
processCloseKeepsEvent(c) ==
    /\ \E f \in Filter : In(c, f)
    /\ Len(change) < MaxChange
    /\ change' = change \o Dels(sact, c, "write") \o Dels(ract, c, "read")
    /\ ract' = ract \ {c} /\ sact' = sact \ {c}
    /\ event' = event
    /\ cur' = None
    /\ CloseSd(c, c # Srv)

\* The callback of a connection fails: delConn, and close(), which is empty for a
\* server.
processClose(c) ==
    /\ \E f \in Filter : In(c, f)
    /\ Len(change) < MaxChange
    /\ change' = change \o Dels(sact, c, "write") \o Dels(ract, c, "read")
    /\ ract' = ract \ {c} /\ sact' = sact \ {c}
    /\ event' \in Overwritten(c)
    /\ cur' = None
    /\ CloseSd(c, c # Srv)

\* The callback returns.
Return ==
    /\ cur # None /\ cur' = None
    /\ UNCHANGED <<sd, ract, sact, change, event, kernel>>

\* wait: the next event of event[].  The callback of an event that was overwritten
\* runs too, with events = 0.
Callback(e) ==
    /\ cur = None /\ e \in event
    /\ cur' = e /\ event' = event \ {e}
    /\ UNCHANGED <<sd, ract, sact, change, kernel>>

------------------------------------------------------------------------------
\* The entries of change[] on a knote.
On(key) == {i \in DOMAIN change : Key(change[i]) = key}

IsLast(i) == \A j \in On(Key(change[i])) : j <= i

\* kevent applies change[] in order: the last entry on a knote decides.  An entry
\* on a descriptor that is not open fails.
Applied ==
    {k \in knote : On(Key(k)) = {}}
      \cup {[ident |-> change[i].ident, filter |-> change[i].filter, udata |-> change[i].udata] :
              i \in {j \in DOMAIN change :
                       /\ change[j].op = "add" /\ change[j].ident \in Taken
                       /\ IsLast(j)}}

\* A knote that is added again has seen nothing yet.
AppliedActive == {k \in Applied : Key(k) \in active /\ On(Key(k)) = {}}

\* An entry fails, EBADF or ENOENT, when its descriptor is not open or when it
\* deletes what is not there.
Fails(i) ==
    LET key    == Key(change[i])
        before == {j \in On(key) : j < i}
        there  == IF before = {} THEN \E k \in knote : Key(k) = key
                  ELSE change[CHOOSE j \in before : \A m \in before : m <= j].op = "add"
    IN  change[i].ident \notin Taken \/ (change[i].op = "delete" /\ ~there)

\* wait: kevent() applies change[] and returns the errors, which the loop skips, or,
\* without any, the active knotes, which EV_CLEAR makes inactive.
kevent ==
    /\ cur = None /\ event = {}
    /\ knote' = Applied /\ change' = <<>>
    /\ IF \E i \in DOMAIN change : Fails(i)
       THEN active' = {Key(k) : k \in AppliedActive} /\ event' = {}
       ELSE active' = {} /\ event' = AppliedActive
    /\ UNCHANGED <<sd, ract, sact, cur>>

\* The socket of a knote becomes ready, or is when the knote is added.  Only kevent()
\* looks at that, so the model lets it happen between two batches.
Ready(k) ==
    /\ cur = None /\ event = {}
    /\ active' = active \cup {Key(k)}
    /\ UNCHANGED <<sd, ract, sact, change, event, cur, knote>>

Next ==
    \/ \E c \in Conn \cup {Srv} : addOutput(c) \/ delOutput(c)
    \/ \E c \in Conn, d \in Desc : Accept(c, d)
    \/ \E c \in Fd : processClose(c)
    \/ Return
    \/ \E e \in event : Callback(e)
    \/ kevent
    \/ \E k \in knote : Ready(k)

Spec == Init /\ [][Next]_vars

------------------------------------------------------------------------------
\* The knotes there will be once change[] is applied belong to the connection that
\* has the descriptor now and has the flag set, and a connection that reads has its
\* knote: an entry made for a connection that is closed since never ends up on the
\* one that got its descriptor.  (A flag for writing may have no knote: addOutput on
\* a closed connection sets it, and nothing clears it before the next accept.)
KnotesFollowFlags ==
    LET meant == {k \in Knote : /\ sd[k.udata] = k.ident
                                /\ k.udata \in IF k.filter = "read" THEN ract ELSE sact}
    IN  /\ Applied \subseteq meant
        /\ {k \in meant : k.filter = "read"} \subseteq Applied

Promise == INSTANCE Readiness WITH
        rreg <- ract,
        ev   <- [sact  |-> sact,
                 wreg  |-> {k.udata : k \in {n \in Applied : n.filter = "write"}},
                 ready |-> {<<k.udata, k.filter>> : k \in AppliedActive},
                 batch |-> {<<e.udata, e.filter>> : e \in event},
                 cur   |-> IF cur = None THEN None ELSE <<cur.udata, cur.filter>>]

\* The event base, change[] and event[] included, does what the rest of the system
\* takes it to do: every call counts at once, whatever happens to its descriptor
\* before the next kevent(), and no event of a connection that was closed reaches it
\* or the one that has its descriptor now (delConn overwrites one event of the
\* descriptor: "there should be at most one other event", nc_kqueue.cpp:170).
ImplementsReadiness == Promise!Spec
==============================================================================
