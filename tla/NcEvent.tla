------------------------------- MODULE NcEvent -------------------------------
(***************************************************************************)
(* The kqueue event base (event/nc_kqueue.cpp).                            *)
(*                                                                         *)
(* The state of the event base is one record, ev, and every operation of   *)
(* NcEventBase is an operator from ev to its next value, so that a handler *)
(* composes the calls it makes in the order in which the code makes them.  *)
(*                                                                         *)
(*   sact   the connections with m_send_active_ = 1                        *)
(*   wreg   the connections with an EVFILT_WRITE knote in the kernel       *)
(*   ready  the active knotes: events the next kevent() may return         *)
(*   batch  event[nprocessed+1 .. nreturned-1]: returned, not yet handled  *)
(*   cur    event[nprocessed]: the event whose callback is running         *)
(*                                                                         *)
(* Abstractions.  An EVFILT_READ knote exists exactly while its connection *)
(* is open, so it needs no set of its own.  Entries of change[] take       *)
(* effect at once rather than at the next kevent(): nothing looks at the   *)
(* kernel in between, and a change on a descriptor that was closed in the  *)
(* meantime fails with EBADF or ENOENT, which wait() skips.  kevent() does *)
(* not promise an order, so batch is a set.                                *)
(***************************************************************************)
CONSTANTS
    Conn,   \* the NcClientConn objects
    Srv,    \* the NcServerConn object of the pool's server
    Lsn,    \* the NcProxyConn object (the listener)
    None    \* no event is being handled

Fd == Conn \cup {Srv, Lsn}

Event == Fd \X {"read", "write", "none"}

EventBase == [sact: SUBSET Fd, wreg: SUBSET Fd, ready: SUBSET Event,
              batch: SUBSET Event, cur: Event \cup {None}]

\* addOutput: a no-op while m_send_active_ is set.  An EV_ADD on a descriptor
\* of -1 (sd = FALSE) fails with EBADF, which leaves the flag set and no knote.
AddOutput(ev, c, sd, writable) ==
    IF c \in ev.sact THEN ev
    ELSE [ev EXCEPT !.sact = @ \cup {c},
                    !.wreg = IF sd THEN @ \cup {c} ELSE @,
                    !.ready = IF sd /\ writable THEN @ \cup {<<c, "write">>} ELSE @]

\* Mutant of DelOutput: m_send_active_ stays set.
DelOutputFlagKept(ev, c) ==
    IF c \notin ev.sact THEN ev
    ELSE [ev EXCEPT !.wreg = @ \ {c}, !.ready = @ \ {<<c, "write">>}]

\* delOutput
DelOutput(ev, c) ==
    IF c \notin ev.sact THEN ev
    ELSE [ev EXCEPT !.sact = @ \ {c}, !.wreg = @ \ {c},
                    !.ready = @ \ {<<c, "write">>}]

\* addConn(c, EVENT_READ): EV_ADD of a read knote, active at once when the
\* socket already has something to read.
AddConn(ev, c, readable) ==
    IF readable THEN [ev EXCEPT !.ready = @ \cup {<<c, "read">>}] ELSE ev

\* Mutant of DelConn: the event kevent() already returned stays as it is.
DelConnPendingKept(ev, c) ==
    [DelOutput(ev, c) EXCEPT !.ready = @ \ {<<c, "read">>}]

\* delConn: both knotes go, and the other event of the same descriptor that
\* kevent() already returned is overwritten with flags = filter = 0.  It stays
\* in event[]: its callback will run with events = 0.
DelConn(ev, c) ==
    LET d == DelOutput(ev, c)
    IN  [d EXCEPT !.ready = @ \ {<<c, "read">>},
                  !.batch = {IF e[1] = c THEN <<c, "none">> ELSE e : e \in @}]

\* The kernel makes a registered knote active.
Activate(ev, e) ==
    IF e[2] = "read" \/ e[1] \in ev.wreg THEN [ev EXCEPT !.ready = @ \cup {e}]
    ELSE ev

\* wait: kevent() returns the active knotes whose filter still holds, and
\* EV_CLEAR makes every one of them inactive.
Return(ev, fired) == [ev EXCEPT !.batch = fired, !.ready = {}]

\* The loop of wait() over event[].
Running(ev, e) == ev.cur = e \/ (ev.cur = None /\ e \in ev.batch)

Begin(ev, e) == [ev EXCEPT !.batch = @ \ {e}, !.cur = e]

End(ev) == [ev EXCEPT !.cur = None]

\* The event base has nothing to deliver to connection c, stale events aside.
Unregistered(ev, c) ==
    /\ c \notin ev.wreg
    /\ \A f \in {"read", "write"} : <<c, f>> \notin ev.ready \cup ev.batch \cup {ev.cur}
==============================================================================
