-------------------------------- MODULE NcConf --------------------------------
(***************************************************************************)
(* Reading the configuration (nc_conf.cpp): NcConf turns the events of      *)
(* libyaml into a list of pools, keeping the scalars of the path it is on   *)
(* in args.  libyaml is external: at is the place in the document it will   *)
(* read next, and doc what the document says so far, by the structure of    *)
(* the document alone.                                                      *)
(*                                                                          *)
(* Documents have the shape of conf/*.yml: a mapping from pool names to     *)
(* mappings, whose values are scalars or lists of scalars; a root that is   *)
(* no mapping, further documents, empty scalars and syntax errors happen.   *)
(*                                                                          *)
(* A scalar is a word or an address.  An address is its fields, split at    *)
(* the separator (' ' after a leading '/', ':' otherwise); a field is the   *)
(* number it spells, or Text, or Blank when it is empty.                    *)
(***************************************************************************)
EXTENDS Integers, Sequences

CONSTANTS
    Address,    \* the addresses a document may hold
    MaxPool,    \* bound: pools in a document
    MaxKey,     \* bound: keys of a pool
    MaxItem,    \* bound: elements of a list
    IntMod,     \* the values of an int are those modulo IntMod
    PortMax,    \* UINT16_MAX
    PermMax     \* 0777

VARIABLES
    at,         \* where libyaml is in the document
    ykey,       \* the key of the pool libyaml is at
    room,       \* how many keys and list elements it may still hold here
    doc,        \* the pools the document describes
    phase,      \* the function that is reading: begin, core, end, or the outcome
    depth, seq, args, pool, data   \* of NcConf, and parseCore's data

yamlVars == <<at, ykey, room, doc>>
confVars == <<phase, depth, seq, args, pool, data>>
vars == <<at, ykey, room, doc, phase, depth, seq, args, pool, data>>

Text == -1
Blank == -2
Unset == -3     \* a field the constructor leaves uninitialised

Field == {Text, Blank} \cup Nat

Scalar == [word: STRING, path: BOOLEAN, f: Seq(Field)]

Word(w) == [word |-> w, path |-> FALSE, f |-> <<Text>>]

Empty == [word |-> "", path |-> FALSE, f |-> <<Blank>>]

Keys == {Word("listen"), Word("servers"), Word("timeout")}

ASSUME ConfAssumption ==
    /\ Address \subseteq [word: {"address"}, path: BOOLEAN, f: Seq(Field)]
    /\ \A v \in Address : v.f # <<>>
    /\ MaxPool \in Nat /\ MaxKey \in Nat /\ MaxItem \in Nat
    /\ IntMod \in Nat \ {0} /\ PortMax \in Nat /\ PermMax \in Nat

------------------------------------------------------------------------------
\* nc_atoi on a field: an int that overflows wraps, and a negative one is an error.
nc_atoi(t) ==
    LET n == t % IntMod IN IF t < 0 \/ n >= IntMod \div 2 THEN -1 ELSE n

\* strtol in base 8: text that is no number reads as 0.
strtol(t) == IF t < 0 THEN 0 ELSE t

ncValidPort(n) == n >= 1 /\ n <= PortMax

\* nc_strrchr finds the last separator, but not one that is the first character.
Splits(f) == Len(f) >= 2 /\ ~(Len(f) = 2 /\ f[1] = Blank)

Last(f) == f[Len(f)]

Rest(f) == SubSeq(f, 1, Len(f) - 1)

\* NcConfListen::parse up to ncResolve.  A port or a permission is stored before
\* it is found to be invalid.
ListenParse(v, old) ==
    LET f      == v.f
        split  == Splits(f)
        number == IF v.path THEN strtol(Last(f)) ELSE nc_atoi(Last(f))
        good   == IF v.path THEN split => number <= PermMax
                  ELSE split /\ ncValidPort(number)
    IN  [ok   |-> good,
         name |-> IF ~good THEN old.name ELSE IF split THEN Rest(f) ELSE f,
         port |-> IF split /\ ~v.path THEN number ELSE old.port,
         perm |-> IF split /\ v.path THEN number ELSE old.perm]

\* Mutant of ServerParse: the separators are looked for from the start.
ServerParseFromStart(v) ==
    LET f    == v.f
        good == Len(f) >= 3
    IN  [ok |-> good, name |-> <<f[1]>>,
         port |-> IF good /\ ~v.path THEN f[2] ELSE Unset,
         perm |-> IF good /\ v.path THEN f[2] ELSE Unset,
         weight |-> IF good THEN f[3] ELSE 0]

\* NcConfServer::parse up to ncResolve.  Without a permission the name of a
\* socket is the whole value, its weight included.
ServerParse(v) ==
    LET f      == v.f
        g      == Rest(f)
        split  == Splits(f) /\ Splits(g)
        second == IF v.path THEN strtol(Last(g)) ELSE nc_atoi(Last(g))
        weight == nc_atoi(Last(f))
        good   == /\ weight >= 0
                  /\ IF v.path THEN Splits(f) /\ (Splits(g) => second <= PermMax)
                     ELSE split /\ ncValidPort(second)
    IN  [ok     |-> good,
         name   |-> IF ~good THEN <<>> ELSE IF split THEN Rest(g) ELSE f,
         port   |-> IF good /\ ~v.path THEN second ELSE Unset,
         perm   |-> IF good /\ v.path /\ split THEN second ELSE Unset,
         weight |-> weight]

NoListen == [valid |-> FALSE, name |-> <<>>, port |-> Unset, perm |-> Unset,
             info |-> <<>>]

NewPool == [listen |-> NoListen, server |-> <<>>]

\* What "listen: v" does to a pool; res is the outcome of ncResolve.
WithListen(p, v, res) ==
    LET r  == ListenParse(v, p.listen)
        ok == r.ok /\ res
    IN  [p EXCEPT !.listen =
            [valid |-> @.valid \/ ok, name |-> r.name, port |-> r.port, perm |-> r.perm,
             info |-> IF ok THEN <<r.name, r.port>> ELSE @.info]]

\* What an element v of "servers:" does to a pool: a server that does not parse
\* is deleted.
WithServer(p, v, res) ==
    LET r == ServerParse(v)
    IN  IF r.ok /\ res THEN [p EXCEPT !.server = Append(@, r)] ELSE p

\* A directive the code does not know is ignored.
Directive(p, key, v, res) ==
    CASE key.word = "listen"  -> WithListen(p, v, res)
      [] key.word = "servers" -> WithServer(p, v, res)
      [] OTHER                -> p

------------------------------------------------------------------------------
Init ==
    /\ at = "stream" /\ ykey = Word("") /\ doc = <<>>
    /\ room = [key |-> 0, item |-> 0]
    /\ phase = "begin" /\ depth = 0 /\ seq = FALSE /\ args = <<>>
    /\ pool = <<>> /\ data = 0

Running == phase \in {"begin", "core", "end"}

\* yaml_parser_parse fails: at any event, for a syntax error.
EventError ==
    /\ Running /\ at # "eos"
    /\ phase' = "error"
    /\ UNCHANGED <<yamlVars, depth, seq, args, pool, data>>

\* parseBegin skips what comes before the first mapping.  When the document has
\* none, libyaml has no event left after the end of the stream and the loop of
\* parseBegin does not end.
BeginSkip ==
    /\ phase = "begin"
    /\ \/ at = "stream" /\ at' = "doc"
       \/ at = "doc" /\ at' \in {"root", "eos"}
       \/ at = "root" /\ at' = "eos"
    /\ UNCHANGED <<ykey, room, doc, confVars>>

BeginMapping ==
    /\ phase = "begin" /\ at = "root"
    /\ at' = "pools"
    /\ phase' = "core" /\ depth' = depth + 1
    /\ UNCHANGED <<ykey, room, doc, seq, args, pool, data>>

\* yamlPopScalar n times, on a stack that should have that many scalars.
Popped(a, n) == SubSeq(a, 1, Len(a) - n)

CoreMappingStart ==
    /\ phase = "core" /\ at = "poolval"
    /\ at' = "keys" /\ room' = [room EXCEPT !.key = MaxKey]
    /\ depth' = depth + 1
    /\ UNCHANGED <<ykey, doc, phase, seq, args, pool, data>>

\* Mutant of CoreMappingEnd: the end of the root mapping pops a scalar as well.
CoreMappingEndPopsRoot ==
    /\ phase = "core" /\ at \in {"keys", "pools"}
    /\ at' = IF at = "keys" THEN "pools" ELSE "tail"
    /\ depth' = depth - 1
    /\ args' = Popped(args, 1)
    /\ phase' = IF args = <<>> THEN "crash" ELSE IF depth' = 0 THEN "end" ELSE "core"
    /\ UNCHANGED <<ykey, room, doc, seq, pool, data>>

CoreMappingEnd ==
    /\ phase = "core" /\ at \in {"keys", "pools"}
    /\ at' = IF at = "keys" THEN "pools" ELSE "tail"
    /\ depth' = depth - 1
    /\ IF depth' = 1
       THEN /\ args' = Popped(args, 1)
            /\ phase' = IF args = <<>> THEN "crash" ELSE "core"
       ELSE /\ args' = args
            /\ phase' = IF depth' = 0 THEN "end" ELSE "core"
    /\ UNCHANGED <<ykey, room, doc, seq, pool, data>>

CoreSequenceStart ==
    /\ phase = "core" /\ at = "val"
    /\ at' = "items" /\ room' = [room EXCEPT !.item = MaxItem]
    /\ seq' = TRUE
    /\ UNCHANGED <<ykey, doc, phase, depth, args, pool, data>>

\* Mutant of CoreSequenceEnd: seq stays set.
CoreSequenceEndSeqKept ==
    /\ phase = "core" /\ at = "items" /\ at' = "keys"
    /\ args' = Popped(args, 1)
    /\ phase' = IF args = <<>> THEN "crash" ELSE "core"
    /\ UNCHANGED <<ykey, room, doc, seq, depth, pool, data>>

CoreSequenceEnd ==
    /\ phase = "core" /\ at = "items" /\ at' = "keys"
    /\ seq' = FALSE
    /\ args' = Popped(args, 1)
    /\ phase' = IF args = <<>> THEN "crash" ELSE "core"
    /\ UNCHANGED <<ykey, room, doc, depth, pool, data>>

\* yamlPushScalar, what parseCore makes of the scalar, and handler.
Pushed(v, res) ==
    LET a       == Append(args, v)
        newPool == ~seq /\ depth = 1
        leaf    == seq \/ (depth # 1 /\ Len(a) = depth + 1)
        pools   == IF newPool THEN Append(pool, NewPool) ELSE pool
        current == IF newPool THEN Len(pools) ELSE data
        call    == (leaf \/ newPool) /\ Len(a) > 1
        key     == a[Len(a) - 1]
        npop    == IF ~leaf THEN 0 ELSE IF seq THEN 1 ELSE 2
        null    == call /\ current = 0 /\ key.word \in {"listen", "servers"}
    IN  /\ data' = current
        /\ pool' = IF call /\ ~null
                   THEN [pools EXCEPT ![current] = Directive(@, key, v, res)] ELSE pools
        /\ args' = Popped(a, npop)
        /\ phase' = IF null \/ Len(a) < npop THEN "crash" ELSE "core"
        /\ UNCHANGED <<depth, seq>>

\* An empty scalar is an error, wherever it stands.
CoreEmpty ==
    /\ phase = "core" /\ at \in {"pools", "keys", "val", "items", "poolval"}
    /\ phase' = "error"
    /\ UNCHANGED <<yamlVars, depth, seq, args, pool, data>>

CorePoolName ==
    /\ phase = "core" /\ at = "pools" /\ Len(doc) < MaxPool
    /\ at' = "poolval" /\ doc' = Append(doc, NewPool)
    /\ Pushed(Word("alpha"), TRUE)
    /\ UNCHANGED <<ykey, room>>

CoreKey ==
    /\ phase = "core" /\ at = "keys" /\ room.key > 0
    /\ \E k \in Keys : ykey' = k /\ Pushed(k, TRUE)
    /\ at' = "val" /\ room' = [room EXCEPT !.key = @ - 1]
    /\ UNCHANGED doc

\* The document gives its last pool the directive ykey: v.
CoreValue ==
    /\ phase = "core"
    /\ \/ at = "val" /\ at' = "keys" /\ UNCHANGED room
       \/ at = "items" /\ room.item > 0 /\ at' = at /\ room' = [room EXCEPT !.item = @ - 1]
    /\ \E v \in Address, res \in BOOLEAN :
         /\ doc' = [doc EXCEPT ![Len(doc)] = Directive(@, ykey, v, res)]
         /\ Pushed(v, res)
    /\ UNCHANGED ykey

\* parseEnd reads up to the end of the stream, over further documents too.
EndSkip ==
    /\ phase = "end" /\ at = "tail" /\ at' = "more"
    /\ UNCHANGED <<ykey, room, doc, confVars>>

\* Mutant of EndStream: the end of the stream is skipped like any other event.
EndStreamSkipped ==
    /\ phase = "end" /\ at \in {"tail", "more"} /\ at' = "eos"
    /\ UNCHANGED <<ykey, room, doc, confVars>>

EndStream ==
    /\ phase = "end" /\ at \in {"tail", "more"} /\ at' = "eos"
    /\ phase' = "ok"
    /\ UNCHANGED <<ykey, room, doc, depth, seq, args, pool, data>>

Next ==
    \/ EventError \/ BeginSkip \/ BeginMapping
    \/ CoreMappingStart \/ CoreMappingEnd \/ CoreSequenceStart \/ CoreSequenceEnd
    \/ CoreEmpty \/ CorePoolName \/ CoreKey \/ CoreValue
    \/ EndSkip \/ EndStream

Spec == Init /\ [][Next]_vars

FairSpec == Spec /\ WF_vars(Next)

------------------------------------------------------------------------------
\* yamlPopScalar is never called on an empty args, and handler never stores a
\* directive through a null data: nothing in the code checks either.
ParserSafe == phase # "crash"

\* The pools are those the document describes, at every moment of the reading:
\* each directive is stored in the pool and under the key it stands at, also
\* after directives that were rejected, which reach no one.
PoolsAsWritten == pool = doc

\* Every document whose root is a mapping is read to an outcome.
ParseEnds == at = "pools" ~> phase \in {"ok", "error"}

\* An address nc_atoi and strtol can take in: its numbers fit an int and a
\* permission is a number.
Plain(v) ==
    /\ \A i \in DOMAIN v.f : v.f[i] < IntMod \div 2
    /\ v.path /\ Len(v.f) >= 3 => v.f[Len(v.f) - 1] \in Nat

\* What is stored of a server, put together again.
Spelled(s) ==
    IF s.port # Unset THEN s.name \o <<s.port, s.weight>>
    ELSE IF s.perm # Unset THEN s.name \o <<s.perm, s.weight>>
    ELSE s.name

\* Taking an address apart loses nothing: what is stored of a server, put together
\* again, is an address the document holds, hostnames with colons in them included;
\* so is what a listener will be bound to, up to the permission of a socket.
AddressesSpellBack ==
    \A i \in DOMAIN pool :
      /\ \A j \in DOMAIN pool[i].server : \E v \in Address : v.f = Spelled(pool[i].server[j])
      /\ pool[i].listen.valid =>
           \E v \in Address :
             \/ v.f = Append(pool[i].listen.info[1], pool[i].listen.info[2])
             \/ v.path /\ pool[i].listen.info[1] \in {v.f, Rest(v.f)}
==============================================================================
