------------------------------- MODULE BlobBuf -------------------------------
(***************************************************************************)
(* src/ubus_example/lib/inc/libubox/blob.h and blobmsg.h: a message is a   *)
(* buffer of attributes, each with a header word (extended flag, id and    *)
(* length), for blobmsg a name, and a payload, padded to four bytes;       *)
(* tables nest.  A writer puts a message together; a reader takes it apart *)
(* with the for_each macros and the get functions.                         *)
(*                                                                         *)
(* The buffer is a function from offsets to attributes.  A number is the   *)
(* tuple of its bytes, the most significant first, and memory is that of a *)
(* little-endian machine.  The functions of blob.c and blobmsg.c (blob_put *)
(* and blobmsg_add_field, blob_new, the nesting) are external.             *)
(***************************************************************************)
EXTENDS Integers, Sequences, FiniteSets, SequencesExt

CONSTANTS
  Names,     \* lengths of the names
  Values,    \* the values that are added, by their type
  MaxAttrs,  \* attributes per message
  Sizes,     \* bytes of a message that was received
  RawLens    \* length fields of such a message

ASSUME BlobAssumption ==
  /\ Sizes \subseteq Nat \ {0} /\ RawLens \subseteq Nat
  /\ Names \subseteq Nat /\ MaxAttrs \in Nat

sizeof_blob_attr == 4
sizeof_hdr       == 2

-----------------------------------------------------------------------------
(* Byte order. *)
Swapped(bytes) == Reverse(bytes)  \* __constant_swap16, 32 and 64
ToMemory(reg)  == Reverse(reg)    \* a store, and a load, of this machine
FromMemory(m)  == Reverse(m)

\* A plausible bug: a 64-bit number is swapped in halves.
HalvesSwapped(bytes) ==
  IF Len(bytes) = 8 THEN Reverse(SubSeq(bytes, 1, 4)) \o Reverse(SubSeq(bytes, 5, 8)) ELSE Reverse(bytes)
cpu_to_be(bytes) == Swapped(bytes)
be_to_cpu(bytes) == Swapped(bytes)

\* blob_put_u8, u16, u32 and u64; blobmsg_add_u8 to u64, and a double as a
\* u64; a string is stored with its terminating zero.
Stored(type, v) ==
  CASE type = "INT8"   -> v
    [] type \in {"INT16", "INT32", "INT64", "DOUBLE"} -> ToMemory(cpu_to_be(v))
    [] type = "STRING" -> Append(v, 0)

\* The numbers have the widths of their types, and no byte of a string is 0.
Width == [INT8 |-> 1, INT16 |-> 2, INT32 |-> 4, INT64 |-> 8, DOUBLE |-> 8]

ASSUME ValuesAssumption == \A v \in Values :
  /\ v.value \in Seq(0..255)
  /\ \/ v.type \in DOMAIN Width /\ Len(v.value) = Width[v.type]
     \/ v.type = "STRING" /\ 0 \notin Range(v.value)

\* blob_get_u8, u16 and u32, and u64 from its two words; strings end at the
\* first zero.
Loaded(type, m) ==
  CASE type = "INT8"                -> SubSeq(m, 1, 1)
    [] type \in {"INT16", "INT32"}  -> be_to_cpu(FromMemory(m))
    [] type \in {"INT64", "DOUBLE"} -> be_to_cpu(FromMemory(SubSeq(m, 1, 4)))
                                         \o be_to_cpu(FromMemory(SubSeq(m, 5, 8)))
    [] type = "STRING"              -> SubSeq(m, 1, Min({i \in DOMAIN m : m[i] = 0}) - 1)
    [] type \in {"ARRAY", "TABLE"}  -> << >>

-----------------------------------------------------------------------------
(* Lengths. *)
Wrap == 65536  \* for the 2^32 of unsigned int: above every length here

Padded(len) == ((len + 3) \div 4) * 4

blob_len(a)     == (a.len - sizeof_blob_attr) % Wrap
blob_raw_len(a) == (blob_len(a) + sizeof_blob_attr) % Wrap
blob_pad_len(a) == Padded(blob_raw_len(a))

blobmsg_hdrlen(namelen) == Padded(sizeof_hdr + namelen + 1)

\* An attribute without the extended flag has no name.
NoName == -1
blob_is_extended(a) == a.namelen # NoName

\* Where the payload begins, counted from the header word's end.
DataOffset(a)       == IF blob_is_extended(a) THEN blobmsg_hdrlen(a.namelen) ELSE 0
blobmsg_data_len(a) == blob_len(a) - DataOffset(a)

-----------------------------------------------------------------------------
VARIABLES
  stage,  \* "write", "read" or "done"
  buf,    \* the attributes by their offsets; 0 is the outermost
  head,   \* buf->head: offsets of the open tables, the innermost last
  added,  \* what the writer added: depth, type, length of the name, value
  size,   \* of the memory of a received message, or 0
  frames, \* the loops of the reader, the innermost last: position and rest
  got     \* what the reader saw

blobVars == <<stage, buf, head, added, size, frames, got>>

Attr(type, namelen, data) ==
  LET a == [type |-> type, namelen |-> namelen, data |-> data, len |-> 0]
  IN  [a EXCEPT !.len = sizeof_blob_attr + DataOffset(a) + Len(data)]

\* A message stays below the largest length a header can give.
Fitting(most) ==
  /\ sizeof_blob_attr + most * MaxAttrs + 3 < Wrap
  /\ \A namelen \in Names \cup {NoName} :
       /\ Padded(Attr("TABLE", namelen, << >>).len) <= most
       /\ \A v \in Values : Padded(Attr(v.type, namelen, Stored(v.type, v.value)).len) <= most

ASSUME LengthAssumption == \E most \in 0..Wrap : Fitting(most)

\* blob_buf_init and blobmsg_buf_init.
NewMessage == size = 0 /\ buf = [o \in {0} |-> Attr("TABLE", NoName, << >>)]

\* What blob_for_each_attr_len is given: attr_len bytes, which may be any
\* number, with any length fields.  There is a header at every word; of the
\* last only a part may belong to the message, and its length is then partly
\* that of other memory.
RawMessage ==
  /\ size \in Sizes
  /\ \E lens \in [{4 * i : i \in 0..((size - 1) \div 4)} -> RawLens] :
       buf = [o \in DOMAIN lens |-> [Attr("TABLE", NoName, << >>) EXCEPT !.len = lens[o]]]

BlobInit ==
  /\ NewMessage \/ RawMessage
  /\ stage = "write"
  /\ head = <<0>> /\ added = << >> /\ frames = << >> /\ got = << >>

Writing   == stage = "write" /\ size = 0
Innermost == Last(head)

Item(depth, a, value) == [depth |-> depth, type |-> a.type, namelen |-> a.namelen, value |-> value]

\* blob_new: the attribute goes behind the last one of the innermost table,
\* whose length grows by what it takes in.
Behind == Innermost + blob_pad_len(buf[Innermost])
Appended(a, growth) ==
  [o \in DOMAIN buf \cup {Behind} |->
     CASE o = Behind    -> a
       [] o = Innermost -> [buf[o] EXCEPT !.len = blob_pad_len(buf[o]) + growth]
       [] OTHER         -> buf[o]]

\* blobmsg_add_field; without a name, blob_put.
Add == \E namelen \in Names \cup {NoName}, v \in Values :
  LET a == Attr(v.type, namelen, Stored(v.type, v.value)) IN
  /\ Writing /\ Len(added) < MaxAttrs
  /\ buf' = Appended(a, blob_pad_len(a))
  /\ added' = Append(added, Item(Len(head), a, v.value))
  /\ UNCHANGED <<stage, head, size, frames, got>>

\* blobmsg_open_table and blobmsg_open_array, and blob_nest_start, which
\* gives no name.
Open == \E type \in {"ARRAY", "TABLE"}, namelen \in Names \cup {NoName} :
  LET a == Attr(type, namelen, << >>) IN
  /\ Writing /\ Len(added) < MaxAttrs
  /\ buf' = Appended(a, sizeof_blob_attr)
  /\ head' = Append(head, Behind)
  /\ added' = Append(added, Item(Len(head), a, << >>))
  /\ UNCHANGED <<stage, size, frames, got>>

\* blobmsg_close_table, blobmsg_close_array, blob_nest_end.
Close ==
  /\ Writing /\ Len(head) > 1
  /\ LET outer == head[Len(head) - 1] IN
     buf' = [buf EXCEPT ![outer].len = blob_pad_len(buf[outer]) + blob_len(buf[Innermost])]
  /\ head' = Front(head)
  /\ UNCHANGED <<stage, added, size, frames, got>>

-----------------------------------------------------------------------------
(* The reader.  In a message of the writer it enters the tables it meets    *)
(* with blobmsg_for_each_attr; of a received one it only runs over the      *)
(* outermost attributes, with blob_for_each_attr_len.                       *)
Frame(o) == [pos |-> o + sizeof_blob_attr + DataOffset(buf[o]), rem |-> blobmsg_data_len(buf[o]) % Wrap]

\* A plausible bug: the loop is not told the size of the memory.
AnyRest(f) == f.rem >= sizeof_blob_attr

\* The rest is large enough for a header, and smaller than the memory.
LooksAt(f) == f.rem >= sizeof_blob_attr /\ (size > 0 => f.rem < size)

\* The condition of the loops.
Fits(f) ==
  /\ LooksAt(f)
  /\ blob_pad_len(buf[f.pos]) <= f.rem
  /\ blob_pad_len(buf[f.pos]) >= sizeof_blob_attr

Start ==
  /\ stage = "write" /\ Len(head) = 1
  /\ stage' = "read"
  /\ frames' = <<Frame(0)>>
  /\ UNCHANGED <<buf, head, added, size, got>>

\* rem -= blob_pad_len(pos), pos = blob_next(pos)
Stepped(f) == [pos |-> f.pos + blob_pad_len(buf[f.pos]), rem |-> f.rem - blob_pad_len(buf[f.pos])]

Visit ==
  /\ stage = "read" /\ Fits(Last(frames))
  /\ LET f == Last(frames)  a == buf[f.pos] IN
     /\ got' = Append(got, Item(Len(frames), a, Loaded(a.type, a.data)))
     /\ frames' = Append(Front(frames), Stepped(f))
                    \o (IF a.type \in {"ARRAY", "TABLE"} /\ size = 0 THEN <<Frame(f.pos)>> ELSE << >>)
  /\ UNCHANGED <<stage, buf, head, added, size>>

Leave ==
  /\ stage = "read" /\ ~Fits(Last(frames))
  /\ frames' = Front(frames)
  /\ stage' = IF Len(frames) = 1 THEN "done" ELSE "read"
  /\ UNCHANGED <<buf, head, added, size, got>>

BlobNext == Add \/ Open \/ Close \/ Start \/ Visit \/ Leave

-----------------------------------------------------------------------------
(* Reading a message gives back what was written: attributes of any length, *)
(* with and without names, nested in any way, numbers with their bytes in   *)
(* the right order.                                                         *)
ReadsWhatWasWritten ==
  size = 0 => IsPrefix(got, added) /\ (stage = "done" => got = added)

(* Whatever its length fields say and however many bytes it has, the loop   *)
(* that is told the size of a received message looks at no header that      *)
(* begins behind it and, if the size is a number of whole words, at none    *)
(* that ends behind it.  With other sizes up to three bytes more are read.  *)
StaysInMemory ==
  size > 0 /\ stage = "read" /\ LooksAt(Last(frames)) =>
    LET header == Last(frames).pos IN
    /\ header < size
    /\ size % sizeof_blob_attr = 0 => header + sizeof_blob_attr <= size

==============================================================================
