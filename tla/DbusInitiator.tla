---------------------------- MODULE DbusInitiator ----------------------------
(***************************************************************************)
(* src/dbus_example/otbr_object.cpp: main connects to the system bus and   *)
(* asks the border router for six properties, one after the other.  Each   *)
(* answer is unpacked by one of three overloads of query into a variable   *)
(* of main, which is then printed.                                         *)
(*                                                                         *)
(* Contents of memory are named by where they come from: a property, or    *)
(* one of "uninit", "zero", "null", "garbled" and "freed".  The bus and    *)
(* the border router are external.                                         *)
(***************************************************************************)
EXTENDS Integers, Sequences, FiniteSets

CONSTANTS
  MaxNesting,    \* variants inside the variant of a reply
  PointerBytes,  \* bytes of a pointer, the most a basic value takes: 8
  PrintedBytes,  \* bytes of an array that main prints: 16
  BufferBytes    \* bytes of main's arrays: 128

ASSUME DbusAssumption ==
  /\ MaxNesting \in Nat
  /\ PointerBytes \in Nat /\ PrintedBytes \in Nat /\ BufferBytes \in Nat
  /\ PointerBytes <= PrintedBytes /\ PrintedBytes <= BufferBytes

\* The calls of query in main: the property, the overload, the variable and
\* the type the router answers with.
Query(prop, overload, var, type) == [prop |-> prop, overload |-> overload, var |-> var, type |-> type]

Queries == <<
  Query("Channel",           "uint16_t", "channel",  "q"),
  Query("PanId",             "uint16_t", "channel",  "q"),
  Query("ExtPanId",          "uint8_t",  "extPanId", "t"),
  Query("NetworkName",       "void",     "sPtr",     "s"),
  Query("NetworkKey",        "uint8_t",  "buff",     "ay"),
  Query("ActiveDatasetTlvs", "uint8_t",  "buff",     "ay")>>

Variables == {Queries[i].var : i \in DOMAIN Queries}
Props     == {Queries[i].prop : i \in DOMAIN Queries}

\* The part of a variable that is printed, byte by byte.
Byte        == 1..PrintedBytes
Whole(x)    == [i \in Byte |-> x]
Room(v)     == IF v = "sPtr" THEN PointerBytes ELSE BufferBytes

\* What can come back: no argument, an error text, or a variant with a value
\* in it, perhaps wrapped in further variants.  Of an array of bytes the
\* length counts, up to one that is too long for the variable.
Types == {"q", "t", "s", "other"}
Reply == [top : {"none", "s"}, type : {"none"}, nesting : {0}, len : {0}]
           \cup [top : {"v"}, type : Types, nesting : 0..MaxNesting, len : {0}]
           \cup [top : {"v"}, type : {"ay"}, nesting : 0..MaxNesting, len : 0..(BufferBytes + 1)]

VARIABLES
  at,       \* the query main is at; 0 while it is in init()
  dpc,      \* "run", "recurse", "unwind", "print", "exit" or "abort"
  memory,   \* the variables of main
  reply,    \* the last reply
  bare,     \* history: the queries with a reply without arguments
  printed,  \* what main has printed last, for the query before at
  depth,    \* calls of dbus_iter_enter_recurse that have not returned
  pIter,    \* the iterator they return, by its depth; 0 for none
  iters,    \* iterators of malloc() not freed: <<query, depth>>, 0 for query's
  replies   \* replies that hold a reference

dbusVars == <<at, dpc, memory, reply, bare, printed, depth, pIter, iters, replies>>

DbusInit ==
  /\ at = 0 /\ dpc = "run"
  /\ memory = [v \in Variables |->
       Whole(IF v = "channel" THEN "uninit" ELSE IF v = "sPtr" THEN "null" ELSE "zero")]
  /\ reply = [top |-> "none", type |-> "none", nesting |-> 0, len |-> 0]
  /\ bare = {} /\ printed = Whole("nothing")
  /\ depth = 0 /\ pIter = 0 /\ iters = {} /\ replies = {}

-----------------------------------------------------------------------------
\* init(): without a connection, or as a second owner of the name, exit(1).
init ==
  /\ dpc = "run" /\ at = 0
  /\ \/ at' = 1 /\ dpc' = "run"
     \/ at' = 0 /\ dpc' = "exit"
  /\ UNCHANGED <<memory, reply, bare, printed, depth, pIter, iters, replies>>

\* method_call blocks until the reply is there; its assertions end the
\* program.  A reply without arguments makes query return at once: reply and
\* iterator stay allocated.
query ==
  /\ dpc = "run" /\ at \in DOMAIN Queries
  /\ reply' \in Reply
  /\ iters' = iters \cup {<<at, 0>>} /\ replies' = replies \cup {at}
  /\ depth' = 0
  /\ IF reply'.top = "none"
     THEN dpc' = "print" /\ bare' = bare \cup {at}
     ELSE dpc' = "recurse" /\ UNCHANGED bare
  /\ UNCHANGED <<at, memory, printed, pIter>>

\* dbus_iter_enter_recurse, entered whatever the type is, since aType = 'v'
\* is an assignment: each call allocates an iterator for the level below and
\* calls itself while that is a variant.
Recurse ==
  /\ dpc = "recurse"
  /\ depth' = depth + 1
  /\ iters' = iters \cup {<<at, depth'>>}
  /\ IF depth < reply.nesting
     THEN UNCHANGED <<dpc, pIter>>
     ELSE dpc' = "unwind" /\ pIter' = depth'
  /\ UNCHANGED <<at, memory, reply, bare, printed, replies>>

\* A plausible bug: a call frees the iterator it has got, not its own.
FreesInner(frame) == pIter
FreedBy(frame)    == frame

\* An outer call of dbus_iter_enter_recurse gets the iterator from the inner
\* one and frees its own.
Unwind ==
  /\ dpc = "unwind" /\ depth > 1
  /\ depth' = depth - 1
  /\ iters' = iters \ {<<at, FreedBy(depth')>>}
  /\ UNCHANGED <<at, dpc, memory, reply, bare, printed, pIter, replies>>

-----------------------------------------------------------------------------
\* The first n bytes of a variable are replaced; the ones behind stay.
Overlaid(old, n, x) == [i \in Byte |-> IF i <= n THEN x ELSE old[i]]

\* Memory in which the variables in hit are overwritten by chance.
Garbled(hit) == [v \in Variables |-> IF v \in hit THEN Whole("garbled") ELSE memory[v]]

\* dbus_dataTye_array_parse stores as many bytes as there are, over the end
\* of a variable that is too short.
dbus_dataTye_array_parse(q) ==
  {[Garbled(hit) EXCEPT ![q.var] =
      Overlaid(memory[q.var], reply.len, IF q.type = "ay" THEN q.prop ELSE "garbled")] :
   hit \in IF reply.len > Room(q.var) THEN SUBSET (Variables \ {q.var}) ELSE {{}}}

\* dbus_dataType_parse: a value of another type is stored as it is.
dbus_dataType_parse(q) ==
  IF reply.type = "ay" THEN dbus_dataTye_array_parse(q)
  ELSE IF reply.type = q.type THEN {[memory EXCEPT ![q.var] = Whole(q.prop)]}
  ELSE {[memory EXCEPT ![q.var] = Overlaid(@, n, "garbled")] : n \in 0..PointerBytes}

\* The memory after the reply: a text is no container, so what is taken from
\* it is undefined; the overload for uint16_t takes nothing else.
Unpacked(q) ==
  IF reply.top = "s" THEN {Garbled(hit) : hit \in SUBSET Variables}
  ELSE IF q.overload = "uint16_t" /\ reply.type # "q" THEN {memory}
  ELSE dbus_dataType_parse(q)

\* The rest of query: the value is unpacked, the inner iterator freed and
\* the reply released; the outer iterator stays.
Unpack ==
  /\ dpc = "unwind" /\ depth = 1
  /\ memory' \in Unpacked(Queries[at])
  /\ iters' = iters \ {<<at, pIter>>} /\ replies' = replies \ {at}
  /\ depth' = 0 /\ pIter' = 0 /\ dpc' = "print"
  /\ UNCHANGED <<at, reply, bare, printed>>

\* The assertions of method_call, libdbus on recursing into a text, the
\* parsers, which return no value, and the use of a pointer that is garbled
\* or freed.
aborts ==
  /\ \/ dpc = "run" /\ at \in DOMAIN Queries
     \/ dpc \in {"recurse", "unwind"}
     \/ dpc = "print" /\ Queries[at].var = "sPtr" /\ memory["sPtr"] # Whole("null")
  /\ dpc' = "abort"
  /\ UNCHANGED <<at, memory, reply, bare, printed, depth, pIter, iters, replies>>

\* The name is a pointer into the reply, which query has released: what is
\* printed is freed memory.  memset(buff, sizeof(buff), 0) clears nothing.
Shown(q) ==
  IF q.var = "sPtr" /\ memory["sPtr"] = Whole(q.prop) THEN Whole("freed") ELSE memory[q.var]

\* A plausible bug: the next property is asked for before this is printed.
PrintsNext  == IF at < Len(Queries) THEN Shown(Queries[at + 1]) ELSE Shown(Queries[at])
PrintsValue == Shown(Queries[at])

print ==
  /\ dpc = "print"
  /\ printed' = PrintsValue
  /\ at' = at + 1
  /\ dpc' = IF at = Len(Queries) THEN "exit" ELSE "run"
  /\ UNCHANGED <<memory, reply, bare, depth, pIter, iters, replies>>

DbusNext == init \/ query \/ Recurse \/ Unwind \/ Unpack \/ aborts \/ print

-----------------------------------------------------------------------------
(* However deep the variants of a reply are nested, the recursive calls     *)
(* free every iterator but the one they return, which is still there when   *)
(* the value is taken from it: a query leaves its outer iterator allocated  *)
(* and nothing else, and the reply only if it had no arguments.             *)
OneIteratorPerQuery ==
  /\ dpc = "run"    => iters = {<<i, 0>> : i \in 1..(at - 1)}
  /\ dpc = "print"  => iters = {<<i, 0>> : i \in 1..at}
  /\ dpc = "unwind" => <<at, pIter>> \in iters
  /\ dpc \in {"run", "print"} => replies = bare

\* What the last answer was to the query before at.
Good(q)  == reply.top = "v" /\ reply.type = q.type
              /\ (q.type = "ay" => reply.len \in PrintedBytes..BufferBytes)
Short(q) == reply.top = "v" /\ reply.type = "ay" /\ q.type = "ay" /\ reply.len < PrintedBytes

(* An answer of the type asked for is printed, except for the name, which   *)
(* is freed by then, although PanId reuses the variable of Channel and the  *)
(* data set that of the key.  When an array is shorter than what main       *)
(* prints, the answer is followed by bytes that are not of it: buff is not  *)
(* cleared, so behind a short data set the key is printed.                  *)
AnsweredIsPrinted ==
  LET q == Queries[at - 1] IN
  at > 1 /\ dpc \in {"run", "exit"} =>
    /\ Good(q)  => printed = Whole(IF q.var = "sPtr" THEN "freed" ELSE q.prop)
    /\ Short(q) => \A i \in Byte : printed[i] = q.prop <=> i <= reply.len

==============================================================================
