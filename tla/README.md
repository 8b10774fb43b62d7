# Nutcracker: specifications, model checking and proofs

This directory specifies the proxy of this repository (a C++ port of twemproxy)
in TLA+. Clients connect to a listener; what a client sends is cut into
requests; every request is queued at the one connection to the server; the
server's replies are paired with the outstanding requests by their order and
written back to the client they belong to. One thread does all of it, driven by
an edge-triggered event base (kqueue; epoll is an alternative the Makefiles do not
select). The difficulty is in the order
of things: two queues per request, connection objects and buffers that are
recycled, events that were returned and not yet handled, and peers that act
between any two system calls.

## 1. Inventory

| Component | State it keeps | Operations | What makes it correct |
|---|---|---|---|
| Event base (`event/nc_kqueue.cpp`, `event/nc_event.h`) | `change[]`, `event[]`, `nprocessed`, `m_send_active_` of each connection; the kernel's knotes | `addOutput`, `delOutput`, `addConn`, `delConn`, `wait` | no callback for a connection that was closed; no write interest lost |
| Callback loops (`nc_connection.cpp`) | `m_eof_`, `m_done_`, `m_err_`, `m_recv_ready_`, `m_send_ready_` | `callback`, `recvMsg`, `sendMsg`, `recvChain`, `sendChain`, `processClose` | every byte read is parsed once, every byte queued is written once |
| Client connection (`nc_client.cpp`) | `m_owner_`, `m_rmsg_`, `m_smsg_`, `m_omsg_q_` | `recvNext`, `recvDone`, `sendNext`, `sendDone`, `active`, `close` | replies in request order; half-closed connections are served to the end and then closed |
| Server connection (`nc_server.cpp`) | `m_imsg_q_` (waiting), `m_omsg_q_` (outstanding) | the same virtual functions | a request moves from one queue to the other when it has been written; replies are paired in that order |
| Messages (`nc_message.cpp`) | `m_peer_`, `m_data_`, `m_done_`, `m_swallow_` | `parse`, `requestFilter`, `requestForward`, `responseFilter`, `responseForward` | a response goes to the request it answers, and that request still exists |
| Listener (`nc_proxy.cpp`) | the listening socket | `recvMsg`, `accept` | no connection waits forever; the limit on clients is kept |
| Pools (`nc_core.h`, `nc_mbuf.h`) | `c_pool`, `msg_pool`, `mbuf_pool` | `alloc`, `free`, `rewind` | nothing is handed out twice; what is handed out is as good as new |
| Loop and context (`nc_core.cpp`) | the pools, `tmo_rbe`, the limits | `createContext`, `createProxyConn`, `createServerConn`, `loop` | startup unwinds what it built; the loop ends only on a signal |
| Signals (`nc_signal.h`) | none | the handler exits | |
| epoll event base (`event/nc_epoll.cpp`) | `m_send_active_`, the epoll set | the same operations | the same promises |
| Timeout tree (`nc_rbtree.h`) | a red-black tree | `insert`, `remove`, `min` | ordered, balanced, linked; `min` is the first to expire. Nothing inserts into it yet |
| Configuration (`nc_conf.cpp`) | `args`, `depth`, `seq`, the pools of servers | `parseBegin`, `parseCore`, `parseEnd`, `handler`, `parse` | what is stored is what was written; reading ends |
| Server pool, distribution (`nc_server.cpp`, `nc_hashkit.*`) | continuum, failure counts, retry times | `failure`, `update`, `index`, `getConn` | the continuum holds the servers that are live |
| Startup (`nc.cpp`, `nc_core.cpp`) | the options, the contexts | `main`, `ncInit`, `ncDaemonize`, `createContext` | all of the configuration is served or none of it |
| Logging, utilities, lua, tests, vendored code | | | not protocol state |

How they interact: `wait` calls `NcConn::callback` with the events of one
connection at a time. `requestForward` is called in a client's callback and
changes the server connection's queue and its write interest; `responseForward`
is called in the server's callback and changes a client's write interest. So the
two kinds of connection meet in shared queues and in the event base, never by
running at the same time. What does run at the same time is the outside: a
client may send, shut down or reset, the server may reply or fail, and TCP may
acknowledge, between any two system calls of a handler.

The hard behaviours, each with its line, are the `hazards` of `PROJECT.json`.
The main ones:

* a client goes away while its request is at the server, and its connection
  object is handed to the next client;
* two events of one connection are returned together and the first closes it;
* an edge is consumed by a handler that has nothing to do yet;
* two requests wait for the same write to the server;
* a recycled buffer makes a read of nothing look like the end of the stream;
* short writes, half-closed clients, a server that fails with requests queued,
  `accept` that fails;
* a descriptor that is closed and used again while `change[]` and `event[]` still
  have entries for it;
* one connection of several that fails during startup;
* a stack of scalars that three paths of the configuration parser push and pop;
* servers that are ejected and come back under a clock that may be set back.

## 2. Modules

| Module | Models |
|---|---|
| `NcEvent` | the event base as a record and its operations as operators on it |
| `NcCore` | constants, variables, initial state, pools, what the connections share |
| `NcClient` | client connections: one action per iteration of `recvMsg` or `sendMsg` |
| `NcServer` | the server connection, the same way |
| `NcProxy` | the listener: one action per call of `accept` |
| `Peers` | clients, the server behind the proxy, TCP (external) |
| `Nutcracker` | the composition: `wait`, `Next`, fairness, all properties |
| `Readiness` | the abstract event base: the operators of `NcEvent` as a state machine |
| `NcKqueue` | the event base in detail: `change[]`, `event[]`, descriptors, the kernel's knotes; implements `Readiness` |
| `Timers` | the abstract collection of timers |
| `NcRbTree` | the red-black tree: `insert`, `remove`, `min`, one iteration of their loops at a time; implements `Timers` |
| `NcConf` | the configuration parser over the events of libyaml, and the addresses |
| `NcStartup` | from `main` to the first `wait`, with every failure |
| `NcServerPool` | failures, ejection and the random distribution |
| `MCNutcracker`, `MCKqueue`, `MCRbTree`, `MCConf`, `MCStartup`, `MCServerPool` | instances for TLC |
| `TypeProofs` | type correctness and `EventsHaveOwner`; lemmas about the event base's operations |
| `ConnProofs` | the queues of requests: what keeps the two kinds of connection in step; client connections: recycled soundly, closed in time; the server's write interest |
| `ReplyProofs` | what reaches the clients, and what is freed, while the peers are calm |
| `KqueueProofs` | the detailed event base: its invariant, and that it implements `Readiness` |
| `ConfProofs` | the parser keeps its place in the document; addresses are taken apart without loss |
| `TreeProofs` | the tree: its links, its balance, that it implements `Timers` and that its loops end |
| `StartupProofs` | startup makes all connections or serves none |
| `ServerPoolProofs` | the slots of the continuum and the times of the retries |

### How state and steps correspond to the code

*The event base* is the record `ev`. `sact` is `m_send_active_`; `wreg` the write
knotes in the kernel; `ready` the active knotes; `batch` and `cur` are `event[]`
beyond and at `nprocessed`. Edge triggering is in `Return`: what `kevent`
returned is no longer ready, and becomes ready again only when a peer does
something. `DelConn` does what the code does to `event[]`: it overwrites the
filter of the pending event but leaves the entry, and so its callback.

*One action is one iteration of a loop*, because `recvMsg` and `sendMsg` make one
system call per iteration and the peers can act between two of them. The action
includes all that the iteration does, up to the end of `callback` (the checks of
`m_done_` and `m_err_`, `processClose`, `close`) when it is the last one. No other
handler runs before the callback is over: `Handling(e)` says whose turn it is.

*Data.* `NcMsg::parse` declares whatever one read returned a complete message
(its body is a stub), so bytes are abstracted to chunks `<<session, request,
part>>`, enough to tell whose bytes arrive where, in which order, and whether all
of them do. Requests are numbered in the order of forwarding.

*Pools.* `c_pool` is a sequence of connection objects. `mbuf_pool` is the number
of buffers in the pool up to 2: what later reads can observe is whether it is
empty, and only one buffer can ever leave it for good. A buffer that was given
back has `m_last_ = m_end_` (`NcMbuf::rewind`), so the next message that gets it
reads into no room, and `read(sd, buf, 0)` is 0; `Room` says when this happens.
`msg_pool` is a count per request of how often it was freed.

*Undefined behaviour.* `sendNext` and `responseFilter` take `front()` or `begin()`
of lists that may be empty. In libc++ and libstdc++ that reads the word after the
sentinel's links, the list's size, which is 0; the model uses NULL. A process
that gets SIGPIPE exits (`SendSigPipe`), as the handler does; whether a write to
a reset connection raises it or fails with an error is left open.

*Peers* (`Env` says which of these a run allows): a read may fill the buffer
exactly so that the loop goes on (`fill`); several requests may wait at once
(`burst`); a client may shut its side (`fin`) or reset (`reset`); the server may
close (`srvfin`), refuse or reset (`srvreset`), or send a reply nobody asked for
(`stray`); `accept` may fail (`acceptfail`). Kqueue makes a write knote active
when it is added to a writable socket, when the connection is established, when
bytes are acknowledged, and on a reset.

*The two event bases.* The model of the proxy uses `NcEvent`, where a call counts at
once and events are known by connection. In the code a call is an entry of
`change[]`, applied by the next `kevent`, and the kernel knows descriptors, which
the next `accept` uses again. `NcKqueue` has those; its calls come from callbacks
that do what the connections do (a client registers its server's output, a server
that of a client which may be closed, any callback may close its connection). The
refinement mapping reads `change[]` as if it were applied. The order of `event[]`
is that of the kernel, which promises none, so it is a set.

*The tree* is in the links, parents, colours and keys of its nodes, and in `root`. Its
operations run one at a time, each loop one iteration at a time: `pc` names the loop,
`at` is its `temp` or `node`. The balancing loops rotate once or twice in an iteration;
a step ends at each rotation, because the condition of the loop, read again, still
holds after the first of two and the same branch is taken. The left and right branches
are one action with the side as a parameter, as `leftRotate` and `rightRotate` are one
operator. `Hung`, the nodes in the tree, are those with links: `insert` gives a node
its links and `reset` takes them, so a caller that inserts a node twice is not
modelled. `remove` is called by `loop`, for the node `min` returned, and by `freeMsg`,
for every message it frees with `force` (nc_connection.cpp:384), in the tree or not.
`NcInstance` builds `tmo_rbe` without a sentinel and nothing is inserted, so the null
links of a message pass for the sentinel and `remove` returns because the message has no
parent; the model has the constructor with a sentinel and a tree that is used. There
`remove` of a node with two children, or of one that is not in the tree, would take
the least node of the whole tree. The actions are the removals that the code gets
right (`Removable`): of a node with a sentinel for a child, among them the one `min`
returned. Inserting timers would need `freeMsg` changed first.

*The configuration.* `at` is libyaml's place in the document and `doc` what the
document says up to there; both follow the structure of the document alone. The
other variables are those of `NcConf`. Comparing `pool` with `doc` compares what the
parser makes of `args`, `depth` and `seq` with what was written. A scalar is a word,
or an address as the list of its fields; splitting at separators, `nc_atoi` with
its wrap-around and the order in which `parse` stores and rejects are kept.

*Startup* follows the process that goes on after a fork. Connections are pairs of
pool and server; `reg` is what `addConn` put into `change[]`, `deleted` what was
deleted, in order, twice for a listener that fails (`close` puts it into `p_pool`,
`createProxyConn` deletes it, the destructor of the pool deletes it again).

*The server pool.* The clock is `gettimeofday`: each reading is any time or a failure.
`auto_eject_hosts` and `dist_type` are never set and may be anything; the counters
that are never set are taken to be 0. `random_update` goes through the servers twice,
and each iteration is a step (`CountServer`, `AssignSlot`), with `pc` for the loop, `at`
for its `i` and the locals as variables: what the second loop finds in `next_retry` is
what the first has left, and the running minimum with 0 for "none" is the code's. No other
step is enabled before `Return`. `due`, `fit` and `updated` are history, kept beside the
code's variables: which servers are to be in, by their failures and the times read.

## 3. What TLC checks

All bounds are constants: `MaxSession` client connections in a behaviour,
`MaxSend` requests per session, `MaxReq` requests forwarded, `Chunks` parts of a
message, `IovMax` scatter entries (the source has `NC_IOV_MAX`; 2 is the least
that shows the repetition). A session number is used once, a connection object
any number of times. Runs stop when the bounds are used up, hence
`CHECK_DEADLOCK FALSE`: a proxy with nothing to do waits in `kevent`.

| Run | Instance | Shows |
|---|---|---|
| `recycle` | 2 objects, 2 sessions, 2 requests, fill and reset | `TypeOK`, `InFlightSafe`, `AnsweredInOrder`, `PendingAtServer`, `EventsHaveOwner`, `ConnPoolSound`: requests outlive their client, objects are recycled, and what `responseForward` follows always exists |
| `serverfaults` | 1 client, 2 requests, all server failures, `accept` failing | `ServerOutputArmed`: while the server connection is sound, a waiting request has a write event due |
| `halfclose` | 2 clients, 3 requests, 2 chunks, half-close | `OwnRepliesInOrder`, `NoIdleHalfClosed`, `FreedOnce`: replies whole and in order through short writes, half-closed connections closed in the right callback |
| `progress` | 2 clients, 2 chunks, fairness | `ResponseDelivered`, `RequestWritten`, `ConnectionAccepted`, `LoneRequestAnswered` |
| `kqueue` | 2 connections, 3 descriptors, 5 changes | `KnotesFollowFlags`: no entry of `change[]` ends up on another connection's descriptor; `ImplementsReadiness`: the refinement of `Readiness` |
| `timeouts` | 6 nodes, 2 keys | `RedBlack`, `Linked`; `ImplementsTimers`: the refinement of `Timers`; `LoopsEnd`: no loop of the tree runs for ever |
| `conf` | 2 pools, 2 keys, lists of 2, 3 addresses, fairness | `ParserSafe`, `PoolsAsWritten`, `AddressesSpellBack`, `ParseEnds` |
| `startup` | 4 configurations of 0 to 2 pools, fairness | `ServesWhole`, `StartupEnds` |
| `server_pool` | 3 servers, failure limit 2, a clock of 2 values | `LiveServersHaveSlots`: the two loops of `random_update` agree; `InUntilFailure`: a server that failed is out until its retry, then in until it fails again, even if the clock is set back; `RebuildInTime`, `SlotsSuffice` |

Two sessions are enough for an object to be recycled or a reply to go astray;
two requests for an order, for an `in_q` with a second entry and for a queue that
survives its owner; two chunks for a write that stops half way. Three requests
in `halfclose` let a client end its stream behind, between and before replies.

Three descriptors leave one for two client connections, so that every `accept` gets
one that was closed before, with entries in both arrays; five changes are the five of
startup, and in a batch enough to close, accept and register again. Six nodes reach
every case of the two balancing loops and their mirror images; the keys repeat. Two
pools with two keys and lists of two put every kind of event behind every other;
the addresses are one with a separator in the host name, one that is rejected after
a port was stored, and a socket with permission and weight. `IntMod`, `PortMax`,
`PermMax` and `UintMod` stand for 2^32, 65535, 0777 and 2^32 on a smaller scale.
`RANDOM_CONTINUUM_ADDITION` is 4 in the run and 10 in the source. Two values of the clock
let a server return at the later one and the clock go back before its retry.

The deep properties hold under stated circumstances only, and the runs that
follow show why. `OwnRepliesInOrder` needs a server connection that never has two
requests waiting (no `burst`), and no resets; `ResponseDelivered` needs a client
that has one request at a time; `FreedOnce` fails when a client resets and its
object, with its kept out_q, is closed again: the recycled queue gives a request
to `msg_pool` a second time.

### Where the code and what the repository says differ

Each of these runs checks one statement of a comment or an assertion, which TLC
refutes. `PROJECT.json` quotes the line under `findings`.

| Run | Statement | What happens |
|---|---|---|
| `burst_pairing` | `OwnRepliesInOrder` | with two requests waiting, the first is written again in place of the second |
| `foreign_reply` | `NoForeignReply` | the reply to a client that left goes to the next one on the same object |
| `lost_wakeup` | `ResponseDelivered` | `SendWait` consumes the edge, and `addOutput` is then a no-op |

Other differences are visible in the actions, without a run of their own:

* a recycled mbuf has no room, so `read` returns 0 and `m_eof_` is set although the
  peer closed nothing (`Room`, `RecvZero`);
* a stray reply is recorded in the message and the server connection stays
  (`responseFilter`), although nc_message.cpp:369 says it is closed;
* `NcServerConn::close` is empty, so a server connection that failed is still given
  requests (`ServerStep`, `requestForward`);
* an event that `delConn` overwrote still calls `callback(0)`, which asserts an owner
  (`StaleCallback`);
* the limit on client connections is compared with a counter nothing increments;
* a document without a mapping keeps `parseBegin` in its loop for ever (`BeginSkip`);
* the loop of `random_update` that extends the continuum adds half of the slots. They
  suffice for (`RANDOM_CONTINUUM_ADDITION` + 2) div 2 servers, 6 in the source, which
  `ServerPoolAssumption` says; with more, fewer live servers at the first update than
  at a later one make it write past the end;
* with `-d` the process that calls `kevent` is not the one that called `kqueue`, so
  the first `wait` fails (`Wait` of `NcStartup`).

### Fairness

`WF_vars(Proxy)`: the process has one thread, whose loop goes on as long as
something is to be done; every step of a handler is its next step.
Weak fairness is on the whole of `Proxy`, not on each handler: which event of a
batch runs first is not promised. A batch is finite, so each event is handled.
`WF_vars(ServerAccept \/ ServerReply)`: the server is expected to accept and to
answer. `WF_vars(Ack(c))`: TCP acknowledges what a live peer received. Clients
owe nothing.

In `NcConf`, `WF_vars(Next)`: the parser is one thread that reads a file, and documents
are finite (the bounds on pools, keys and lists). In `NcStartup`, `WF_vars(Step)`: `main`
goes on from one call to the next; none of them waits for somebody else, since
sockets are non-blocking when `connect` is called. SIGHUP is not promised.

## 4. What is proved

TLAPS checks these for every value of the constants that satisfies the named
assumptions of the module they are about. Those of `NcCore`: bounds are naturals, at
least one chunk, at least two scatter entries, and the three kinds of connection are
different. Those of `NcKqueue`: descriptors are numbers, the server and the listener
have different ones. `NcConf`, `NcStartup`: the types of the constants, no more.
Those of `NcRbTree`: sentinel and null pointer are no nodes, keys are integers.
`NcServerPool`: the pool has at most (`RANDOM_CONTINUUM_ADDITION` + 2) div 2 servers,
beyond which the code writes past the continuum (section 3).

| Theorem | Establishes | By |
|---|---|---|
| `TypeCorrect` | `TypeOK` | `TypeInv` |
| `OwnersOnly` | `EventsHaveOwner` | `TypeInv` |
| `InFlightAlive` | `InFlightSafe` | `TypeInv` and `PairInv` |
| `NoneLost` | `PendingAtServer` | `PairInv` |
| `OrderKept` | `AnsweredInOrder` | `TypeInv` and `PairInv` |
| `RecyclingSound` | `ConnPoolSound` | `PoolInv`, given `TypeInv` |
| `HalfClosedClosed` | `NoIdleHalfClosed` | itself, given `TypeInv` |
| `OutputArmed` | `ServerOutputArmed` | `OutputInv`, given `TypeInv` |
| `FreedAtMostOnce` | `FreedOnce`, without resets | `FreeInv`, given `TypeInv` and `PairInv` |
| `OwnReplies` | `OwnRepliesInOrder`, for a `Calm` environment | `ReplyInv`, given `TypeInv`, `PairInv`, `PoolInv`, `FreeInv` |
| `KnotesFollow` | `KnotesFollowFlags` | `Inv` of `KqueueProofs` |
| `KqueueImplements` | `ImplementsReadiness` | `Inv` of `KqueueProofs` |
| `NoCrash` | `ParserSafe` | `ConfInv` |
| `ReadAsWritten` | `PoolsAsWritten` | `ConfInv` |
| `SpelledBack` | `AddressesSpellBack`, for addresses that are all `Plain` | `ConfInv` and `Good`, on the pools in `doc` |
| `AllOrNothing` | `ServesWhole` | `Inv` of `StartupProofs` |
| `SlotsAlways` | `SlotsSuffice` | `Inv` of `ServerPoolProofs` |
| `LiveInSlots` | `LiveServersHaveSlots` | the same |
| `OutUntilDue` | `InUntilFailure` | the same |
| `RebuildAtEarliest` | `RebuildInTime` | the same |
| `LinksAgree` | `Linked` | `TreeInv` |
| `TreeBalanced` | `RedBlack` | `TreeInv` |
| `TreeImplementsTimers` | `ImplementsTimers` | `TreeInv` and `Ordered` |
| `LoopsAreFinite` | `LoopsEnd` | `TreeInv`, and that the tree is finite |

Two theorems restrict `Env` and one the addresses; all others hold whatever the peers and the kernel do, in
particular in the behaviours of the violation runs. `FreedAtMostOnce` excludes resets,
with which `FreedOnce` does not hold (section 3). `OwnReplies` assumes `Calm`: no
`burst` and no `stray` (each alone lets TLC violate the statement), no `reset` (which
violates it when reads may fill the buffer, run `foreign_reply`), and `fill` only if a
message is one chunk, since a read that ends inside a message makes two messages of
it. The run `halfclose` is such an environment, and so is one where every read fills
the buffer, which is what keeps a conversation going in spite of `Room`. All failures
of the server connection and of `accept` are allowed.

*`TypeInv`* is `TypeOK` with two facts it cannot do without. A handler looks up
the session of its connection, which exists because the event base has events of
connections with an owner only (`Sound`).
`responseForward` follows the `m_data_` of a request, which is a client
connection because the request came through `requestForward` (`InFlightKnown`).
Proving `NextTypeInv` is the bulk of `TypeProofs`: one lemma per group of steps.

*`PairInv`.* A request stands in the out_q of its client and in one of the two
queues of the server connection; that the three agree is not inductive. The
strengthening is the order of forwarding: in_q and out_q of the server, read one
after the other (`InFlight`), are sorted by it, so is the out_q of every client,
and what has been answered comes before everything in flight (`AnsweredFirst`).
Then the request that `responseFilter` takes from the front is the oldest without
an answer, and the one that `sendNext` takes from the front of a client's queue
was answered before those behind it. `Waiting` (not freed, not done, at home in
the queue its data names) is what survives that the client connection is closed
and handed to somebody else, since `close` leaves `m_omsg_q_` alone.

*`PoolInv`.* `accept` gives an object the session at the front of the listen
queue; that no other object serves that session is a fact about the queue
(`QueueSound`), which a reset of a client that still waits in it must not break.

*`NoIdleHalfClosed`* is inductive given `TypeInv`, by the argument of
`OneCallback`: while a half-closed connection owes nothing, the callback that is
running is its own write callback, so no step of another handler can disturb it,
and the next iteration of that callback closes it.

*`OutputInv`.* `requestForward` calls `addOutput` only for an empty in_q, and
`addOutput` returns at once when `m_send_active_` is set. So what must hold is
not about requests but about the flag: when it is set, the write knote exists and
the event is pending or running, or a peer owes what will cause it. `KeepsOutput`
says that a step leaves this alone, and each operation of the event base on
another connection is shown to.

*`FreeInv`.* `close` frees what is answered in the out_q and leaves the queue as it
is. Without resets a connection is closed only in callbacks that found its out_q empty
(`ClientCases`), so a queue without a session is empty (`OwnedQueues`) and what stands
in a queue was not freed (`Unfreed`). That `sendDone` frees a request that is in no
other queue, and once in its own, comes from the order of `PairInv`.

*`ReplyInv`.* Nothing in the state says which request of its client a message is. The
client knows how many it sent; the proxy knows by the place in the out_q. `Number`
computes the one from the other: all that was sent, less what is unread, less what
stands behind it in the queue. `Home(p, s, n)` is request `p` seen from its client.
Each part of `ReplyInv` says in these terms what one buffer holds: the request that is
being written (`Requests`), the bytes on their way to the server, a whole request for
each outstanding one and the beginning of the next (`Stream`), the reply on its way
back (`ReplyWhole`), the rest of each response (`Responses`), of which only the first
in a queue can be partly written (`WholeBehind`), and how much the client got
(`GotSoFar`). A step that moves bytes then changes two of these parts by the same
amount, and one that moves a request from queue to queue leaves its home alone: the
lemmas have one step per part. What `Calm` gives is `OneAtATime`: there is one unread
request, only while in_q is empty, and it is whole. After a failure of the server
connection nothing is claimed of the bytes to it.

*`Inv` of `KqueueProofs`.* `KnotesFollowFlags` looks at entries of `change[]` on open
descriptors, but `accept` may open a descriptor that an entry of a closed connection
still names. `Expected` is what `change[]` would leave if all descriptors were open;
`KnotesSound` says that even there nothing belongs to a closed connection, because
`delConn` wrote its deletions before `close`. The lemma `AfterAppend` says what one
more entry does. `BatchSound` (at most two events for a descriptor, and all of one
connection) is what makes the one event that `delConn` overwrites the right one. The
refinement maps `Expected` to the registrations of `Readiness`; each action of
`NcKqueue` is an action of `Readiness` or a stutter.

*`Inv` of `StartupProofs`* counts along: what is made, registered and up is exactly
what comes before the connection that is next (`Before`). After a failure nothing is
claimed, and nothing leads back to the loop.

*`Inv` of `ServerPoolProofs`.* `SlotsSound`: once the continuum was extended it has a
slot for every server, although the loop that extends it adds half of the difference;
and it is never larger than `nserver_continuum`, so that difference, which the code
computes in unsigned integers, does not wrap. `Counting` and `Assigning` are the
invariants of the two loops: the servers passed (`Before`) that are to be in are
counted, `next_rebuild` is right for those that are out, and the slots up to
`continuum_index` are those of the servers passed. `Retries` ties `next_retry` to the
history; it is what makes the test of the second loop come out as that of the first,
although the first cleared `next_retry` in between. `Settled` is what is left when update
has returned, from which the properties follow (`SettledWell`).

*`ConfInv`.* That the pools are as written says nothing about the next scalar, which
goes where `args`, `depth` and `seq` send it. `Place` ties these three to the place in
the document: the depth, whether a list is open, how many scalars are stacked and
that the second of them is the key the document is at. `Current` says that `data` is
the last pool. The lemmas `PushName`, `PushKey` and `PushValue` say what one scalar
does at each of the three places.

*`SpelledBack`* has a hypothesis on `Address`, without which it is false: a number that
wraps around in `nc_atoi`, or a permission that is no number, is not stored as it is
spelled. `Plain` says that neither is the case; the run `conf` evaluates it for its
addresses (`PlainAssumption`). By `ConfInv` the pools are what `handler` makes
of the document, so it is enough that each directive leaves pools that spell back, one
lemma per form of address.

*`TreeInv`* describes the tree in the middle of its operations.
`Shape` says that child links and parent links agree, but not for the root, whose
parent `remove` leaves stale, nor for the sentinel, whose parent `remove` writes.
`Acyclic` is a rank that grows from parent to child; a rotation, which turns parent and
child round, is given a new one. From it come that every way up ends at the root and
that a rotation moves nodes that are all different. `Even` is a black height for every
node: both ways down from a node have as many black nodes, and in the loop of `remove`
the side on which `at` hangs lacks one (`Lack`). That is what makes the sibling of `at`
a node and never the sentinel, so that the loop follows no null pointer. `Colored` says
where a red node may have a red child, or the root be red: only where a loop is at work.
`Job` says where each loop is. A rotation is described once (`Around` before, `Turned`
and `Kept` after) for all five actions that do one, and `RotateBalanced` reduces
the balance after it to that of the nodes it moves, which is arithmetic for each
action. `RedBlack` counts black nodes on the way up, in sets; `CountedAll` shows, from the
root downwards, that the count at a node and its black height have the same sum
everywhere, its own colour counted once.

*`Ordered`* gives every node a range of keys that holds its own and those below it, on
the right side of it. In `insert` the new key belongs to the range of `at`; in `min` the
nodes passed so far form a `Spine` with keys no less than those in the range of
`at`, so that where the left links end is a least key. With `TreeInv` each step then is
one of `Timers` or none: hanging a node arms it, `Unhook` disarms it, the end of `min`
answers, and recolouring and rotating change nothing.

*`LoopsEnd`* states termination without fairness: `ToGo` bounds the iterations that are
left of the loop that is running, and each that is not the last makes it smaller. For
the descents it counts the nodes not yet passed. The loop of `insert` climbs two levels
or rotates, which takes the node up a level, or first to the outside of its parent. The
loop of `remove` climbs a level or rotates; the rotation for a red sibling takes it
down a level, but its parent is red then and no climb is left, because a red node ends
the loop. `RotateAbove` says what a rotation does to the way up: that from the node it
turns becomes that of the child that rises, and a way up without that node is
the same. That a loop which is not over has a step is the deadlock check of the run.

Not proved, only model-checked: the liveness properties of `progress`, `conf` and
`startup`. Fairness and `ENABLED` are out of the prover's reach.

## 5. Not modelled

* `EVENT_ERR` (`processError`): `wait` sets it only for events with `EV_ERROR`,
  which kqueue reports for failed changes, and those that occur are skipped.
* An overrun of `change[]`: nothing in the code prevents it, so `MaxChange` is a bound
  of the model and not something the code keeps.
* epoll: not selected by the Makefiles. Its `addConn` sets `m_send_active_` whatever
  it registers, so it would not implement `Readiness`.
* `quit`, `noreply`, `noforward` and repair of messages: nothing sets them; the
  parser is a stub.
* The failure to set an accepted socket non-blocking.
* More than one connection to a server: `createServerConn` makes one, and
  `server_connections` is always 1, so `NcServer::getConn` hands out that one.
  `preconnect` has no caller.
* The hash functions: `dispatch` does not use the hash value.
* Timeouts of requests: `tmo_rbe` is searched by `loop` but nothing inserts into it;
  `NcRbTree` models the tree and the use `loop` makes of it.
* `max` of the tree, and `remove` of a node with two children or of one that is not in
  the tree, as `freeMsg` calls it (section 2).
* Options that only set a value, the pid file (nothing writes it), `dump`.
* Logging, string and socket utilities, lua, tests and vendored libraries: no
  state of the protocol.

## 6. Plan

1. Done: the event base, both kinds of connection, the listener, the pools, the
   loop; the event base in detail and its refinement; the timeout tree and its
   refinement; configuration, startup, server pool; the theorems of section 4, which
   state every invariant, action property and refinement of the passing runs.
2. `OwnReplies` with resets, for reads that do not fill the buffer: TLC finds no
   violation there, because after a reset the recycled mbufs end all reading.
3. Facts about reachable states that liveness rests on, as invariants: that a client
   with a response due has a write event pending, up to the edge `SendWait` consumes.
