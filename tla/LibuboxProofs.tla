---------------------------- MODULE LibuboxProofs ----------------------------
(***************************************************************************)
(* What TLAPS proves of the inline parts of libubox.  The loop over a      *)
(* received message stays in its memory, whatever its length fields hold   *)
(* and however long it is, or reads at most 3 bytes behind it.  A message  *)
(* is read back as it was written, at every depth (BlobInv).  The pointers *)
(* of list.h are rings that implement sequences (ListInv), the list of a   *)
(* tree is one of them, sorted (AvlInv), and loops over both are exact,    *)
(* whatever their bodies delete and add, until one has lost its bound.     *)
(***************************************************************************)
EXTENDS MCLibubox, CommonFacts, SequenceTheorems, FiniteSetTheorems, TLAPS

\* The attributes of a received message have no names; their lengths are
\* what was received.
Received ==
  /\ size \in Nat \ {0}
  /\ DOMAIN buf = {4 * i : i \in 0..((size - 1) \div 4)}
  /\ \A o \in DOMAIN buf : buf[o].len \in Nat /\ buf[o].namelen = NoName

\* One loop runs.  It is at a word, and once it has stepped, position and
\* rest end before the word behind the memory.
InLoop ==
  LET f == frames[1]
  IN  /\ Len(frames) = 1
      /\ f \in [pos : Nat, rem : Nat]
      /\ f.pos % 4 = 0
      /\ f.pos = 4 \/ f.pos + f.rem < size + 4

LoopInv ==
  size # 0 =>
    /\ Received
    /\ stage \in {"write", "read", "done"}
    /\ stage = "read" => frames \in Seq([pos : Nat, rem : Nat]) /\ InLoop

-----------------------------------------------------------------------------
(* A padded length is a whole number of words. *)
LEMMA PaddedIsWords ==
  ASSUME NEW a, a.len \in Nat
  PROVE  blob_pad_len(a) \in Nat /\ blob_pad_len(a) % 4 = 0
<1>1. PICK n \in Nat : n = blob_raw_len(a)
  BY DEF blob_raw_len, blob_len, Wrap, sizeof_blob_attr
<1>2. PICK q \in Nat : q = (n + 3) \div 4 BY <1>1
<1>3. blob_pad_len(a) = q * 4 BY <1>1, <1>2 DEF blob_pad_len, Padded
<1> QED BY <1>2, <1>3

(* Words add up to words. *)
LEMMA WordsAdd ==
  ASSUME NEW m \in Nat, NEW n \in Nat, m % 4 = 0, n % 4 = 0
  PROVE  (m + n) % 4 = 0
OBVIOUS

(* The loop looks only at headers that begin in the memory, and end in it   *)
(* if it is a number of words.                                              *)
LEMMA LookIsInside ==
  ASSUME size # 0, Received, stage = "read", InLoop, NEW f, f = frames[1], LooksAt(f)
  PROVE  f.pos < size /\ (size % 4 = 0 => f.pos + 4 <= size) /\ f.pos \in DOMAIN buf
<1>1. PICK z \in Nat : z = size /\ z # 0 BY DEF Received
<1>2. PICK p \in Nat, r \in Nat : p = f.pos /\ r = f.rem BY DEF InLoop
<1>3. r >= 4 /\ r < z BY <1>1, <1>2 DEF LooksAt, sizeof_blob_attr
<1>4. p % 4 = 0 /\ (p = 4 \/ p + r < z + 4) BY <1>1, <1>2 DEF InLoop
<1>5. p + r < z + 4 BY <1>3, <1>4
<1>6. p < z BY <1>3, <1>5
<1>7. PICK q \in Nat : p = 4 * q BY <1>4
<1>8. z % 4 = 0 => p + 4 <= z
  <2> SUFFICES ASSUME z % 4 = 0 PROVE p + 4 <= z OBVIOUS
  <2>1. PICK c \in Nat : z = 4 * c OBVIOUS
  <2> QED BY <1>6, <1>7, <2>1
<1>9. q \in 0..((z - 1) \div 4) BY <1>1, <1>6, <1>7
<1> QED BY <1>1, <1>2, <1>6, <1>7, <1>8, <1>9 DEF Received

LEMMA LoopStep ==
  ASSUME LoopInv, Next \/ UNCHANGED vars
  PROVE  LoopInv'
<1> SUFFICES ASSUME size' # 0 PROVE LoopInv' BY DEF LoopInv
<1>1. size' = size /\ size # 0
  BY DEF Next, vars, blobVars, BlobNext, Add, Open, Close, Start, Visit, Leave
<1>2. Received /\ stage \in {"write", "read", "done"}
      /\ (stage = "read" => frames \in Seq([pos : Nat, rem : Nat]) /\ InLoop)
  BY <1>1 DEF LoopInv
<1>3. CASE UNCHANGED blobVars BY <1>1, <1>2, <1>3 DEF LoopInv, Received, InLoop, blobVars
<1>4. CASE Start
  <2>1. UNCHANGED <<buf, size>> /\ stage' = "read" /\ frames' = <<Frame(0)>>
    BY <1>4 DEF Start
  <2>2. 0 \in DOMAIN buf
    <3>1. PICK z \in Nat : z = size /\ z # 0 BY <1>2 DEF Received
    <3>2. 0 \in 0..((z - 1) \div 4) BY <3>1
    <3> QED BY <1>2, <3>1, <3>2 DEF Received
  <2>3. Frame(0) \in [pos : Nat, rem : Nat] /\ Frame(0).pos = 4
    <3>1. buf[0].len \in Nat /\ buf[0].namelen = NoName BY <1>2, <2>2 DEF Received
    <3> QED BY <3>1 DEF Frame, DataOffset, blob_is_extended, blobmsg_data_len, blob_len, Wrap, sizeof_blob_attr
  <2>4. Received' BY <1>2, <2>1 DEF Received
  <2>5. InLoop' BY <2>1, <2>3 DEF InLoop
  <2> QED BY <2>1, <2>3, <2>4, <2>5 DEF LoopInv
<1>5. CASE Visit
  <2> DEFINE f == frames[1]
  <2>1. /\ UNCHANGED <<buf, size, stage>> /\ stage = "read" /\ Fits(Last(frames))
        /\ frames' = Append(Front(frames), Stepped(Last(frames))) \o << >>
    BY <1>1, <1>5 DEF Visit
  <2>2. Last(frames) = f /\ Front(frames) = << >>
    <3>1. frames \in Seq([pos : Nat, rem : Nat]) /\ Len(frames) = 1 BY <1>2, <2>1 DEF InLoop
    <3>2. SubSeq(frames, 1, 0) = << >> BY <3>1
    <3> QED BY <3>1, <3>2 DEF Last, Front
  <2>3. frames' = <<Stepped(f)>> BY <2>1, <2>2
  <2>4. f.pos \in DOMAIN buf BY <1>1, <1>2, <2>1, <2>2, LookIsInside DEF Fits
  <2>5. PICK n \in Nat : n = blob_pad_len(buf[f.pos]) /\ n % 4 = 0
    BY <1>2, <2>4, PaddedIsWords DEF Received
  <2>6. PICK p \in Nat, r \in Nat : p = f.pos /\ r = f.rem /\ p % 4 = 0
    BY <1>2, <2>1 DEF InLoop
  <2>7. n <= r /\ r < size BY <1>1, <1>2, <2>1, <2>2, <2>5, <2>6 DEF Fits, LooksAt, Received
  <2>8. Stepped(f) = [pos |-> p + n, rem |-> r - n] BY <2>5, <2>6 DEF Stepped
  <2>9. (p + n) % 4 = 0 BY <2>5, <2>6, WordsAdd
  <2>10. p = 4 \/ p + r < size + 4 BY <1>2, <2>1, <2>6 DEF InLoop
  <2>11. size \in Nat BY <1>2 DEF Received
  <2>12. (p + n) + (r - n) < size + 4 /\ r - n \in Nat
    BY <2>5, <2>6, <2>7, <2>10, <2>11
  <2>13. InLoop'
    <3> DEFINE g == [pos |-> p + n, rem |-> r - n]
    <3>1. g \in [pos : Nat, rem : Nat] /\ g.pos % 4 = 0 /\ g.pos + g.rem < size + 4
      BY <2>9, <2>12
    <3>2. frames' = <<g>> BY <2>3, <2>8
    <3> HIDE DEF g
    <3>3. Len(frames') = 1 /\ frames'[1] = g BY <3>2
    <3> QED BY <2>1, <3>1, <3>3, Zenon DEF InLoop
  <2>14. frames' \in Seq([pos : Nat, rem : Nat]) BY <2>3, <2>8, <2>12
  <2>15. Received' BY <1>2, <2>1 DEF Received
  <2> QED BY <2>1, <2>13, <2>14, <2>15 DEF LoopInv
<1>6. CASE Leave
  <2>1. UNCHANGED <<buf, size>> /\ stage' = "done"
    BY <1>2, <1>6 DEF Leave, InLoop
  <2> QED BY <1>2, <2>1 DEF LoopInv, Received
<1>7. ~(Add \/ Open \/ Close) BY <1>1 DEF Add, Open, Close, Writing
<1> QED BY <1>3, <1>4, <1>5, <1>6, <1>7 DEF Next, BlobNext, vars

(* The inductive invariant holds in every state. *)
THEOREM Invariance == Spec => []LoopInv
<1>1. ASSUME Init PROVE LoopInv
  <2>1. CASE NoBlob BY <2>1 DEF NoBlob, LoopInv
  <2>2. CASE BlobInit
    <3>1. CASE size = 0 BY <3>1 DEF LoopInv
    <3>2. CASE size # 0
      <4>1. stage = "write" /\ RawMessage BY <2>2, <3>2 DEF BlobInit, NewMessage
      <4>2. size \in Nat \ {0} BY <4>1, BlobAssumption DEF RawMessage
      <4>3. PICK lens \in [{4 * i : i \in 0..((size - 1) \div 4)} -> RawLens] :
              buf = [o \in DOMAIN lens |-> [Attr("TABLE", NoName, << >>) EXCEPT !.len = lens[o]]]
        BY <4>1 DEF RawMessage
      <4>4. \A o \in DOMAIN buf : buf[o].len \in Nat /\ buf[o].namelen = NoName
        BY <4>3, BlobAssumption DEF Attr
      <4> QED BY <4>1, <4>2, <4>3, <4>4 DEF LoopInv, Received
    <3> QED BY <3>1, <3>2
  <2> QED BY <1>1, <2>1, <2>2 DEF Init
<1>2. LoopInv /\ [Next]_vars => LoopInv' BY LoopStep
<1> QED BY <1>1, <1>2, PTL DEF Spec

(* blob_for_each_attr_len looks only at headers that begin in the message   *)
(* it was given, and end in it if its size is a number of words, for every  *)
(* size of a received message and any length fields.                        *)
THEOREM AlwaysStaysInMemory == Spec => []StaysInMemory
<1>1. LoopInv => StaysInMemory
  <2> SUFFICES ASSUME LoopInv, size > 0, stage = "read", LooksAt(Last(frames))
               PROVE  /\ Last(frames).pos < size
                      /\ size % sizeof_blob_attr = 0 => Last(frames).pos + sizeof_blob_attr <= size
    BY DEF StaysInMemory
  <2>1. size # 0 OBVIOUS
  <2>2. Received /\ InLoop BY <2>1 DEF LoopInv
  <2>3. Last(frames) = frames[1] BY <2>2 DEF InLoop, Last
  <2> QED BY <2>1, <2>2, <2>3, LookIsInside DEF sizeof_blob_attr
<1> QED BY <1>1, Invariance, PTL

-----------------------------------------------------------------------------
(* A message is read back as it was written. *)

\* The types of attributes that hold others.
Containers == {"ARRAY", "TABLE"}

-----------------------------------------------------------------------------
(* Lengths are exact while they do not wrap. *)
LEMMA PadLen ==
  ASSUME NEW a, a.len \in Nat, 4 <= a.len, a.len + 3 < Wrap
  PROVE  /\ blob_len(a) = a.len - 4
         /\ blob_pad_len(a) = Padded(a.len)
         /\ blob_pad_len(a) \in Nat
         /\ a.len <= blob_pad_len(a) /\ blob_pad_len(a) % 4 = 0
         /\ a.len % 4 = 0 => blob_pad_len(a) = a.len
<1>1. blob_len(a) = a.len - 4 BY DEF blob_len, Wrap, sizeof_blob_attr
<1>2. blob_raw_len(a) = a.len BY <1>1 DEF blob_raw_len, Wrap, sizeof_blob_attr
<1>3. PICK n \in Nat : n = a.len OBVIOUS
<1>4. PICK q \in Nat : q = (n + 3) \div 4 BY <1>3
<1>5. blob_pad_len(a) = q * 4 /\ Padded(a.len) = q * 4 BY <1>2, <1>3, <1>4 DEF blob_pad_len, Padded
<1>6. n <= q * 4 /\ (n % 4 = 0 => n = q * 4) BY <1>3, <1>4
<1> QED BY <1>1, <1>3, <1>5, <1>6

(* The header in front of the data, with its name, is a whole number of     *)
(* words.                                                                   *)
LEMMA HeaderWords ==
  ASSUME NEW a, a.namelen \in Names \cup {NoName}
  PROVE  DataOffset(a) \in Nat /\ DataOffset(a) % 4 = 0
<1>1. CASE a.namelen = NoName BY <1>1 DEF DataOffset, blob_is_extended
<1>2. CASE a.namelen # NoName
  <2>1. PICK n \in Nat : n = sizeof_hdr + a.namelen + 1
    <3>1. a.namelen \in Nat BY <1>2, BlobAssumption
    <3> QED BY <3>1 DEF sizeof_hdr
  <2>2. PICK q \in Nat : q = (n + 3) \div 4 BY <2>1
  <2>3. DataOffset(a) = q * 4 BY <1>2, <2>1, <2>2 DEF DataOffset, blob_is_extended, blobmsg_hdrlen, Padded
  <2> QED BY <2>2, <2>3
<1> QED BY <1>1, <1>2

(* A value turned around twice is the value. *)
LEMMA ReverseTwice ==
  ASSUME NEW S, NEW s \in Seq(S)
  PROVE  Reverse(Reverse(s)) = s /\ Reverse(s) \in Seq(S) /\ Len(Reverse(s)) = Len(s)
<1>1. s = [i \in 1..Len(s) |-> s[i]] OBVIOUS
<1>2. Reverse(s) \in Seq(S) /\ Len(Reverse(s)) = Len(s) BY DEF Reverse
<1>3. Reverse(s) = [i \in 1..Len(s) |-> s[(Len(s) - i) + 1]] BY DEF Reverse
<1>4. Reverse(Reverse(s)) = [i \in 1..Len(s) |-> Reverse(s)[(Len(s) - i) + 1]] BY <1>2 DEF Reverse
<1>5. ASSUME NEW i \in 1..Len(s) PROVE Reverse(s)[(Len(s) - i) + 1] = s[i] BY <1>3
<1> QED BY <1>1, <1>2, <1>4, <1>5

(* What a value is stored as is loaded as that value. *)
LEMMA LoadsWhatWasStored ==
  ASSUME NEW v \in Values
  PROVE  /\ Stored(v.type, v.value) \in Seq(0..255)
         /\ Loaded(v.type, Stored(v.type, v.value)) = v.value
         /\ v.type \notin Containers
<1>1. PICK t, x : t = v.type /\ x = v.value OBVIOUS
<1>2. x \in Seq(0..255) BY <1>1, ValuesAssumption
<1>3. /\ Reverse(Reverse(x)) = x /\ Reverse(x) \in Seq(0..255)
      /\ Len(x) = 8 => Reverse(Reverse(SubSeq(x, 1, 4))) \o Reverse(Reverse(SubSeq(x, 5, 8))) = x
  <2>1. CASE Len(x) = 8
    <3>1. \A i \in 1..8 : x[i] \in 0..255 BY <1>2, <2>1, ElementOfSeq
    <3>2. SubSeq(x, 1, 4) \in Seq(0..255) /\ SubSeq(x, 5, 8) \in Seq(0..255)
      <4> HIDE <1>2, <2>1
      <4> QED BY <3>1, SubSeqProperties
    <3>3. SubSeq(x, 1, 4) \o SubSeq(x, 5, 8) = x
      <4>1. SubSeq(x, 1, 4) \o SubSeq(x, 5, 8) = SubSeq(x, 1, 8)
        BY <1>2, <2>1, ConcatAdjacentSubSeq, 1 \in 1..9, 4 \in 0..8, 8 \in 4..8
      <4> QED BY <1>2, <2>1, <4>1, SubSeqFull
    <3>4. /\ Reverse(Reverse(SubSeq(x, 1, 4))) = SubSeq(x, 1, 4)
          /\ Reverse(Reverse(SubSeq(x, 5, 8))) = SubSeq(x, 5, 8)
      BY <3>2, ReverseTwice
    <3> QED BY <1>2, <3>3, <3>4, ReverseTwice
  <2> QED BY <1>2, <2>1, ReverseTwice
<1>4. CASE t \in {"INT8", "INT16", "INT32", "INT64", "DOUBLE"}
  <2>1. Len(x) = IF t = "INT8" THEN 1 ELSE IF t = "INT16" THEN 2 ELSE IF t = "INT32" THEN 4 ELSE 8
    BY <1>1, <1>4, ValuesAssumption DEF Width
  <2>2. Stored(t, x) = x BY <1>3, <1>4 DEF Stored, ToMemory, cpu_to_be, Swapped
  <2>3. CASE t = "INT8"
    <3>1. SubSeq(x, 1, 1) = x BY <1>2, <2>1, <2>3
    <3> QED BY <1>1, <1>2, <2>2, <2>3, <3>1 DEF Loaded, Containers
  <2>4. CASE t \in {"INT16", "INT32"}
    BY <1>1, <1>2, <1>3, <2>2, <2>4 DEF Loaded, Containers, FromMemory, be_to_cpu, Swapped
  <2>5. CASE t \in {"INT64", "DOUBLE"}
    BY <1>1, <1>2, <1>3, <2>1, <2>2, <2>5 DEF Loaded, Containers, FromMemory, be_to_cpu, Swapped
  <2> QED BY <1>4, <2>3, <2>4, <2>5
<1>5. CASE t = "STRING"
  <2> DEFINE m == Append(x, 0)
             Z == {i \in DOMAIN m : m[i] = 0}
  <2>1. m = Stored(t, x) BY <1>5 DEF Stored
  <2>2. m \in Seq(0..255) /\ Len(m) = Len(x) + 1 /\ \A i \in 1..Len(x) : m[i] = x[i] BY <1>2
  <2>3. \A i \in 1..Len(x) : x[i] # 0
    <3>1. v.type \notin DOMAIN Width BY <1>1, <1>5 DEF Width
    <3>2. 0 \notin Range(x) BY <1>1, <3>1, ValuesAssumption
    <3> QED BY <1>2, <3>2 DEF Range
  <2>4. Z = {Len(x) + 1} BY <1>2, <2>2, <2>3
  <2>5. Min(Z) = Len(x) + 1
    <3> HIDE DEF Z
    <3>1. Z \in SUBSET Nat /\ Z # {} BY <1>2, <2>4
    <3> QED BY <2>4, <3>1, MinIsLeast
  <2>6. SubSeq(m, 1, Min(Z) - 1) = x
    <3> HIDE DEF m, Z
    <3>1. SubSeq(m, 1, Len(x)) = [i \in 1..Len(x) |-> m[i]] BY <1>2, <2>2
    <3>2. x = [i \in 1..Len(x) |-> x[i]] BY <1>2
    <3>3. SubSeq(m, 1, Len(x)) = x BY <2>2, <3>1, <3>2
    <3>4. Min(Z) - 1 = Len(x) BY <1>2, <2>5
    <3> QED BY <3>3, <3>4
  <2>7. Loaded(t, m) = SubSeq(m, 1, Min(Z) - 1) BY <1>5 DEF Loaded
  <2> QED BY <1>1, <1>5, <2>1, <2>2, <2>6, <2>7 DEF Containers
<1>6. t \in {"INT8", "INT16", "INT32", "INT64", "DOUBLE", "STRING"} BY <1>1, ValuesAssumption DEF Width
<1> QED BY <1>4, <1>5, <1>6

\* What an attribute takes at most, by LengthAssumption.
Most == CHOOSE most \in 0..Wrap : Fitting(most)

\* The types of all attributes.
Types == Containers \cup {"INT8", "INT16", "INT32", "INT64", "DOUBLE", "STRING"}

\* What the writer adds and the reader gets, and what is stored for it.
ItemType == [depth : Nat \ {0}, type : Types, namelen : Int, value : Seq(0..255)]
AttrType == [type : Types, namelen : Names \cup {NoName}, data : Seq(0..255), len : Nat]

\* An attribute of the writer: its length field has not wrapped, and the
\* length of a table is a whole number of words.
IsAttr(a) ==
  /\ a \in AttrType
  /\ 4 <= a.len /\ a.len <= 4 + Most * MaxAttrs
  /\ a.type \in Containers => a.len % 4 = 0

\* off tells where each attribute of the message starts, in the order in
\* which they were added, and last where the message ends.
Offsets(off) ==
  /\ added \in Seq(ItemType) /\ Len(added) <= MaxAttrs
  /\ off \in [1..(Len(added) + 1) -> Nat] /\ off[1] = 4
  /\ \A i, j \in 1..(Len(added) + 1) : i < j => off[i] + 4 <= off[j]
  /\ off[Len(added) + 1] <= 4 + Most * Len(added)
  /\ DOMAIN buf = {0} \cup {off[i] : i \in 1..Len(added)}

\* Each attribute holds what was added, and the first one in a table
\* follows the header of the table.
Items(off) ==
  /\ IsAttr(buf[0]) /\ buf[0].type = "TABLE" /\ buf[0].namelen = NoName
  /\ Len(added) > 0 => added[1].depth = 1
  /\ \A i \in 1..Len(added) :
       /\ IsAttr(buf[off[i]])
       /\ added[i] = Item(added[i].depth, buf[off[i]], Loaded(buf[off[i]].type, buf[off[i]].data))
       /\ added[i].type \in Containers =>
            off[i + 1] = off[i] + 4 + DataOffset(buf[off[i]])
       /\ i < Len(added) => added[i + 1].depth <= added[i].depth
                                + IF added[i].type \in Containers THEN 1 ELSE 0

\* Attribute j, or the end of the message, is the first behind attribute i
\* that is not in it.
Ends(i, j) ==
  /\ j \in (i + 1)..(Len(added) + 1)
  /\ \A k \in (i + 1)..(j - 1) : added[k].depth > added[i].depth
  /\ j <= Len(added) => added[j].depth <= added[i].depth

\* The tables that are open: each reaches up to the header of the next
\* inner one, the innermost one to the end of the message, and what was
\* added behind the header of a table is in the table.
Heads(off) ==
  /\ head \in Seq(Nat) /\ Len(head) >= 1 /\ head[1] = 0
  /\ \A k, l \in 1..Len(head) : k < l => head[k] < head[l]
  /\ \A l \in 2..Len(head) : \E i \in 1..Len(added) :
       head[l] = off[i] /\ added[i].type \in Containers /\ added[i].depth = l - 1
  /\ \A l \in 1..Len(head), i \in 1..Len(added) : off[i] > head[l] => added[i].depth >= l
  /\ \A l \in 1..(Len(head) - 1) : head[l] + buf[head[l]].len = head[l + 1] + 4
  /\ head[Len(head)] + buf[head[Len(head)]].len = off[Len(added) + 1]

\* An attribute that is no open table ends where the first attribute
\* behind it starts that is not in it.
Closed(off) ==
  \A i \in 1..Len(added) :
    (\A l \in 1..Len(head) : head[l] # off[i]) =>
      \E j \in 1..(Len(added) + 1) :
        /\ Ends(i, j)
        /\ off[i] + blob_pad_len(buf[off[i]]) = off[j]
        /\ j = Len(added) + 1 => added[i].depth >= Len(head)

\* The message as the writer leaves it between its calls.
Layout(off) == Offsets(off) /\ Items(off) /\ Heads(off) /\ Closed(off)

-----------------------------------------------------------------------------
(* The layout is one of three variables. *)
LEMMA LayoutKept ==
  ASSUME NEW off, Layout(off), UNCHANGED <<buf, head, added>>
  PROVE  Layout(off)'
<1>1. buf' = buf /\ head' = head /\ added' = added OBVIOUS
<1>2. Offsets(off)' BY <1>1 DEF Layout, Offsets
<1>3. Items(off)' BY <1>1 DEF Layout, Items
<1>4. Heads(off)' BY <1>1 DEF Layout, Heads
<1>5. Closed(off)' BY <1>1 DEF Layout, Closed, Ends
<1> QED BY <1>2, <1>3, <1>4, <1>5 DEF Layout

(* There is such a bound. *)
LEMMA MostFits == Most \in Nat /\ Fitting(Most)
<1>1. Most \in 0..Wrap /\ Fitting(Most) BY LengthAssumption DEF Most
<1>2. Wrap \in Nat BY DEF Wrap
<1> QED BY <1>1, <1>2

(* Products with the bound, one factor larger. *)
LEMMA Products ==
  ASSUME NEW n \in Nat, NEW m \in Nat, n <= m
  PROVE  Most * n \in Nat /\ Most * n <= Most * m /\ Most * (n + 1) = Most * n + Most
<1>1. PICK M \in Nat : M = Most BY MostFits
<1>2. PICK d \in Nat : m = n + d
  <2>1. m - n \in Nat /\ m = n + (m - n) OBVIOUS
  <2> QED BY <2>1
<1>3. M * m = M * n + M * d BY <1>2
<1>4. M * n \in Nat /\ M * d \in Nat OBVIOUS
<1>5. M * (n + 1) = M * n + M OBVIOUS
<1> QED BY <1>1, <1>3, <1>4, <1>5

(* The lengths of one of the writer's attributes are what they seem. *)
LEMMA AttrLengths ==
  ASSUME NEW a, IsAttr(a)
  PROVE  /\ a.len \in Nat
         /\ blob_len(a) = a.len - 4
         /\ blob_pad_len(a) \in Nat
         /\ 4 <= a.len /\ a.len <= blob_pad_len(a)
         /\ a.type \in Containers => blob_pad_len(a) = a.len
         /\ blob_len(a) % Wrap = a.len - 4
         /\ DataOffset(a) \in Nat
<1>1. a.len \in Nat /\ 4 <= a.len /\ a.len <= 4 + Most * MaxAttrs /\ a.namelen \in Names \cup {NoName}
  BY DEF IsAttr, AttrType
<1>2. PICK k : k = Most * MaxAttrs OBVIOUS
<1>3. k \in Nat /\ 4 + k + 3 < Wrap
  BY <1>2, MostFits, Products, BlobAssumption DEF Fitting, sizeof_blob_attr
<1>4. a.len + 3 < Wrap BY <1>1, <1>2, <1>3 DEF Wrap
<1>5. (a.len - 4) % Wrap = a.len - 4 BY <1>1, <1>4 DEF Wrap
<1> QED BY <1>1, <1>4, <1>5, PadLen, HeaderWords DEF IsAttr

(* The open tables are attributes of the buffer. *)
LEMMA OpenTables ==
  ASSUME NEW off, Offsets(off), Items(off), Heads(off), NEW l \in 1..Len(head)
  PROVE  /\ head[l] \in DOMAIN buf /\ IsAttr(buf[head[l]])
         /\ blob_pad_len(buf[head[l]]) = buf[head[l]].len
         /\ buf[head[l]].type \in Containers
<1>1. CASE l = 1
  BY <1>1, AttrLengths DEF Heads, Items, Offsets, Containers
<1>2. CASE l # 1
  <2>1. l \in 2..Len(head) BY <1>2 DEF Heads
  <2>2. PICK i \in 1..Len(added) : head[l] = off[i] /\ added[i].type \in Containers
    BY <2>1 DEF Heads
  <2>3. IsAttr(buf[off[i]]) /\ added[i] = Item(added[i].depth, buf[off[i]], Loaded(buf[off[i]].type, buf[off[i]].data))
    BY DEF Items
  <2>4. buf[off[i]].type \in Containers BY <2>2, <2>3 DEF Item
  <2> QED BY <2>2, <2>3, <2>4, AttrLengths DEF Offsets
<1> QED BY <1>1, <1>2

\* What Attr makes, when its length is no more than the bound.
NewAttr(a, type, namelen, data) ==
  /\ type \in Types /\ namelen \in Names \cup {NoName} /\ data \in Seq(0..255)
  /\ type \in Containers => data = << >>
  /\ a = Attr(type, namelen, data) /\ Padded(a.len) <= Most
  /\ 0 < MaxAttrs

(* A new attribute is one of the writer's. *)
LEMMA AttrIsAttr ==
  ASSUME NEW type, NEW namelen, NEW data, NEW a, NewAttr(a, type, namelen, data)
  PROVE  /\ IsAttr(a)
         /\ a.type = type /\ a.namelen = namelen /\ a.data = data
         /\ blob_pad_len(a) <= Most
         /\ type \in Containers => blob_pad_len(a) = 4 + DataOffset(a)
<1> DEFINE b == [type |-> type, namelen |-> namelen, data |-> data, len |-> 0]
<1>1. /\ type \in Types /\ namelen \in Names \cup {NoName} /\ data \in Seq(0..255)
      /\ type \in Containers => data = << >>
      /\ a = Attr(type, namelen, data) /\ Padded(a.len) <= Most
      /\ 0 < MaxAttrs
  BY DEF NewAttr
<1>2. PICK d \in Nat : d = DataOffset(b) /\ d % 4 = 0 BY <1>1, HeaderWords
<1>3. a = [type |-> type, namelen |-> namelen, data |-> data, len |-> 4 + d + Len(data)]
  BY <1>1, <1>2 DEF Attr, sizeof_blob_attr
<1>4. DataOffset(a) = d BY <1>2, <1>3 DEF DataOffset, blob_is_extended
<1>5. a.len \in Nat /\ 4 <= a.len BY <1>1, <1>3
<1>6. PICK n \in Nat : n = a.len BY <1>5
<1>7. PICK q \in Nat : q = (n + 3) \div 4 BY <1>6
<1>8. n <= q * 4 /\ q * 4 = Padded(n) BY <1>6, <1>7 DEF Padded
<1>9. a.len <= Most BY <1>1, <1>6, <1>8, MostFits
<1>10. Most <= Most * MaxAttrs
  <2>1. Most * 1 <= Most * MaxAttrs BY <1>1, Products, BlobAssumption
  <2> QED BY <2>1, MostFits
<1>11. type \in Containers => a.len = 4 + d /\ a.len % 4 = 0
  BY <1>1, <1>2, <1>3
<1>12. a \in AttrType BY <1>1, <1>3, <1>5 DEF AttrType
<1>13. PICK k \in Nat, M \in Nat : k = Most * MaxAttrs /\ M = Most BY Products, MostFits, BlobAssumption
<1>14. a.len <= 4 + Most * MaxAttrs BY <1>5, <1>9, <1>10, <1>13
<1>15. IsAttr(a) BY <1>3, <1>5, <1>11, <1>12, <1>14 DEF IsAttr
<1>16. a.len + 3 < Wrap
  BY <1>5, <1>13, <1>14, MostFits DEF Fitting, sizeof_blob_attr, Wrap
<1>17. blob_pad_len(a) = Padded(a.len) /\ a.len <= blob_pad_len(a) /\ blob_pad_len(a) \in Nat
       /\ (a.len % 4 = 0 => blob_pad_len(a) = a.len)
  BY <1>5, <1>16, PadLen
<1> QED BY <1>1, <1>3, <1>4, <1>5, <1>11, <1>15, <1>17

\* What Add and Open have in common.
Extension(a, item, growth) ==
  /\ Len(added) < MaxAttrs
  /\ IsAttr(a) /\ blob_pad_len(a) <= Most
  /\ a.type \in Containers => blob_pad_len(a) = 4 + DataOffset(a)
  /\ item \in ItemType /\ item = Item(Len(head), a, Loaded(a.type, a.data))
  /\ growth = IF a.type \in Containers THEN 4 ELSE blob_pad_len(a)
  /\ buf' = Appended(a, growth) /\ added' = Append(added, item)
  /\ head' = IF a.type \in Containers THEN Append(head, Behind) ELSE head

(* blob_new, with the attribute added to the innermost open table, keeps     *)
(* the layout: every open table grows when the one inside it is closed.      *)
LEMMA AppendKeepsLayout ==
  ASSUME NEW off, Layout(off), NEW a, NEW item, NEW growth, Extension(a, item, growth)
  PROVE  \E o : Layout(o)'
<1>1. PICK N \in Nat : N = Len(added) BY DEF Layout, Offsets
<1>2. PICK m \in Nat : m = Len(head) /\ 1 <= m BY DEF Layout, Heads
<1>3. PICK top : top = head[m] OBVIOUS
<1>4. PICK b \in Nat : b = off[N + 1] BY <1>1 DEF Layout, Offsets
<1>5. PICK pa : pa = blob_pad_len(a) OBVIOUS
<1>6. pa \in Nat /\ 4 <= pa /\ pa % 4 = 0 /\ a.len \in Nat /\ a.len <= pa
  <2>1. PICK k \in Nat : k = Most * MaxAttrs BY Products, BlobAssumption
  <2>2. a.len + 3 < Wrap BY <2>1, MostFits DEF Extension, IsAttr, AttrType, Fitting, sizeof_blob_attr, Wrap
  <2> QED BY <1>5, <2>2, PadLen DEF Extension, IsAttr, AttrType
<1>7. growth \in Nat /\ 4 <= growth /\ growth <= pa /\ growth % 4 = 0 /\ pa <= Most
  BY <1>5, <1>6 DEF Extension
<1>8. /\ top \in Nat /\ top \in DOMAIN buf /\ IsAttr(buf[top]) /\ buf[top].type \in Containers
      /\ blob_pad_len(buf[top]) = buf[top].len /\ top + buf[top].len = b
      /\ buf[top].len \in Nat /\ buf[top].len % 4 = 0 /\ top < b
  <2>1. top \in Nat BY <1>2, <1>3 DEF Layout, Heads
  <2>2. /\ top \in DOMAIN buf /\ IsAttr(buf[top]) /\ buf[top].type \in Containers
        /\ blob_pad_len(buf[top]) = buf[top].len
    BY <1>2, <1>3, OpenTables DEF Layout
  <2>3. top + buf[top].len = b BY <1>1, <1>2, <1>3, <1>4 DEF Layout, Heads
  <2> QED BY <2>1, <2>2, <2>3 DEF IsAttr, AttrType
<1>9. Behind = b BY <1>2, <1>3, <1>8 DEF Behind, Innermost, Last
<1>10. b \notin DOMAIN buf
  BY <1>1, <1>4 DEF Layout, Offsets
<1>11. /\ DOMAIN buf' = DOMAIN buf \cup {b}
       /\ buf'[b] = a
       /\ buf'[top] = [buf[top] EXCEPT !.len = buf[top].len + growth]
       /\ \A o \in DOMAIN buf : o # top => buf'[o] = buf[o]
  <2>1. Innermost = top BY <1>2, <1>3 DEF Innermost, Last
  <2> QED BY <1>8, <1>9, <1>10, <2>1 DEF Appended, Extension
<1>12. /\ buf'[top].type = buf[top].type /\ buf'[top].namelen = buf[top].namelen
       /\ buf'[top].data = buf[top].data /\ buf'[top].len = buf[top].len + growth
       /\ buf'[top] \in AttrType
  <2>1. PICK len \in Nat : len = buf[top].len + growth BY <1>7, <1>8
  <2>2. buf'[top] = [buf[top] EXCEPT !.len = len] BY <1>11, <2>1
  <2>3. buf[top] \in AttrType BY <1>8 DEF IsAttr
  <2> QED BY <2>1, <2>2, <2>3 DEF AttrType
<1>13. PICK M \in Nat, X \in Nat, Y \in Nat, Z \in Nat :
         M = Most /\ X = Most * N /\ Y = Most * MaxAttrs /\ Z = Most * (N + 1) /\ Z = X + M /\ Z <= Y
  <2>1. N + 1 <= MaxAttrs BY <1>1, BlobAssumption DEF Extension
  <2>2. Most * N \in Nat /\ Most * (N + 1) = Most * N + Most /\ Most \in Nat
        /\ Most * (N + 1) \in Nat /\ Most * (N + 1) <= Most * MaxAttrs /\ Most * MaxAttrs \in Nat
    BY <1>1, <2>1, Products, MostFits, BlobAssumption
  <2> QED BY <2>2
<1>14. b <= 4 + X BY <1>1, <1>4, <1>13 DEF Layout, Offsets
<1>141. b + pa <= 4 + Z /\ Z <= Y
  <2>1. pa <= M /\ Z = X + M /\ Z <= Y BY <1>7, <1>13
  <2> QED BY <1>6, <1>14, <2>1
<1>15. IsAttr(buf'[top])
  <2>1. buf[top].len + growth <= 4 + Y BY <1>6, <1>7, <1>8, <1>141
  <2>2. (buf[top].len + growth) % 4 = 0 /\ 4 <= buf[top].len + growth BY <1>7, <1>8
  <2> QED BY <1>12, <1>13, <2>1, <2>2 DEF IsAttr
<1>16. /\ Len(added') = N + 1 /\ added' \in Seq(ItemType)
       /\ added'[N + 1] = item
       /\ \A i \in 1..N : added'[i] = added[i]
       /\ item.depth = m /\ item.type = a.type /\ item = Item(m, a, Loaded(a.type, a.data))
  BY <1>1, <1>2 DEF Extension, Layout, Offsets, Item
<1>17. PICK o2 : o2 = [i \in 1..(N + 2) |-> IF i <= N + 1 THEN off[i] ELSE b + pa] OBVIOUS
<1>18. /\ o2 \in [1..(N + 2) -> Nat]
       /\ \A i \in 1..(N + 1) : o2[i] = off[i]
       /\ o2[N + 1] = b /\ o2[N + 2] = b + pa
  <2>1. off \in [1..(N + 1) -> Nat] BY <1>1 DEF Layout, Offsets
  <2> QED BY <1>4, <1>6, <1>17, <2>1
<1>19. Offsets(o2)'
  <2>1. Len(added') <= MaxAttrs BY <1>1, <1>16, BlobAssumption DEF Extension
  <2>2. o2[1] = 4 BY <1>1, <1>18 DEF Layout, Offsets
  <2>3. ASSUME NEW i \in 1..(N + 2), NEW j \in 1..(N + 2), i < j PROVE o2[i] + 4 <= o2[j]
    <3>1. CASE j <= N + 1 BY <1>1, <1>18, <2>3, <3>1 DEF Layout, Offsets
    <3>2. CASE j = N + 2
      <4>1. i \in 1..(N + 1) BY <2>3, <3>2
      <4>2. off[i] \in Nat /\ off[i] <= b BY <1>1, <1>4, <4>1 DEF Layout, Offsets
      <4> QED BY <1>6, <1>18, <3>2, <4>1, <4>2
    <3> QED BY <3>1, <3>2
  <2>4. o2[N + 2] <= 4 + Most * (N + 1) BY <1>13, <1>141, <1>18
  <2>5. DOMAIN buf' = {0} \cup {o2[i] : i \in 1..(N + 1)}
    <3>1. DOMAIN buf = {0} \cup {off[i] : i \in 1..N} BY <1>1 DEF Layout, Offsets
    <3>2. {o2[i] : i \in 1..(N + 1)} = {off[i] : i \in 1..N} \cup {b}
      <4>1. ASSUME NEW i \in 1..(N + 1) PROVE o2[i] \in {off[k] : k \in 1..N} \cup {b}
        <5>1. i = N + 1 \/ i \in 1..N OBVIOUS
        <5> QED BY <1>18, <5>1
      <4>2. ASSUME NEW i \in 1..N PROVE off[i] \in {o2[k] : k \in 1..(N + 1)}
        <5>1. i \in 1..(N + 1) /\ o2[i] = off[i] BY <1>18
        <5> QED BY <5>1
      <4>3. b \in {o2[k] : k \in 1..(N + 1)} BY <1>18
      <4> QED BY <4>1, <4>2, <4>3
    <3> QED BY <1>11, <3>1, <3>2
  <2>6. N + 1 + 1 = N + 2 OBVIOUS
  <2> QED BY <1>16, <1>18, <2>1, <2>2, <2>3, <2>4, <2>5, <2>6 DEF Offsets
<1>20. \A i \in 1..N : /\ off[i] \in Nat /\ off[i] < b /\ off[i] \in DOMAIN buf /\ off[i] # 0
                       /\ IsAttr(buf'[off[i]])
                       /\ buf'[off[i]].type = buf[off[i]].type
                       /\ buf'[off[i]].namelen = buf[off[i]].namelen
                       /\ buf'[off[i]].data = buf[off[i]].data
                       /\ DataOffset(buf'[off[i]]) = DataOffset(buf[off[i]])
                       /\ off[i] # top => buf'[off[i]] = buf[off[i]]
  <2> TAKE i \in 1..N
  <2>1. off[i] \in Nat /\ off[i] < b /\ off[i] \in DOMAIN buf /\ off[i] # 0
    <3>1. /\ off \in [1..(N + 1) -> Nat] /\ off[1] = 4 /\ \A k, j \in 1..(N + 1) : k < j => off[k] + 4 <= off[j]
          /\ DOMAIN buf = {0} \cup {off[k] : k \in 1..N}
      BY <1>1 DEF Layout, Offsets
    <3>2. i \in 1..(N + 1) /\ N + 1 \in 1..(N + 1) /\ i < N + 1 OBVIOUS
    <3>3. off[i] \in Nat /\ off[i] + 4 <= b BY <1>4, <3>1, <3>2
    <3>4. off[i] # 0 BY <3>1, <3>2
    <3> QED BY <3>1, <3>3, <3>4
  <2>2. IsAttr(buf[off[i]]) BY <1>1 DEF Layout, Items
  <2>3. CASE off[i] = top BY <1>12, <1>15, <2>1, <2>3 DEF DataOffset, blob_is_extended
  <2>4. CASE off[i] # top BY <1>11, <2>1, <2>2, <2>4
  <2> QED BY <2>1, <2>3, <2>4
<1>21. Items(o2)'
  <2>1. IsAttr(buf'[0]) /\ buf'[0].type = "TABLE" /\ buf'[0].namelen = NoName
    <3>1. IsAttr(buf[0]) /\ buf[0].type = "TABLE" /\ buf[0].namelen = NoName /\ 0 \in DOMAIN buf
      BY DEF Layout, Items, Offsets
    <3> QED BY <1>11, <1>12, <1>15, <3>1
  <2>2. added'[1].depth = 1
    <3>1. CASE N = 0
      <4>1. m = 1
        <5>1. ASSUME m # 1 PROVE FALSE
          <6>1. 2 \in 2..Len(head) BY <1>2, <5>1
          <6> QED BY <1>1, <3>1, <6>1 DEF Layout, Heads
        <5> QED BY <5>1
      <4> QED BY <1>16, <3>1, <4>1
    <3>2. CASE N > 0 BY <1>1, <1>16, <3>2 DEF Layout, Items
    <3> QED BY <3>1, <3>2
  <2>3. ASSUME NEW i \in 1..(N + 1)
        PROVE  /\ IsAttr(buf'[o2[i]])
               /\ added'[i] = Item(added'[i].depth, buf'[o2[i]], Loaded(buf'[o2[i]].type, buf'[o2[i]].data))
               /\ added'[i].type \in Containers => o2[i + 1] = o2[i] + 4 + DataOffset(buf'[o2[i]])
               /\ i < N + 1 => added'[i + 1].depth <= added'[i].depth
                                                  + IF added'[i].type \in Containers THEN 1 ELSE 0
    <3>1. CASE i = N + 1
      <4>1. o2[i] = b /\ o2[i + 1] = b + pa BY <1>18, <3>1
      <4>2. IsAttr(a) /\ (a.type \in Containers => pa = 4 + DataOffset(a)) BY <1>5 DEF Extension
      <4>3. added'[i] = item /\ buf'[o2[i]] = a BY <1>11, <1>16, <3>1, <4>1
      <4>4. DataOffset(a) \in Nat BY <4>2, AttrLengths
      <4>5. added'[i].type \in Containers => o2[i + 1] = o2[i] + 4 + DataOffset(buf'[o2[i]])
        <5>1. added'[i].type = a.type /\ buf'[o2[i]] = a BY <1>16, <4>3
        <5> SUFFICES ASSUME a.type \in Containers PROVE o2[i + 1] = o2[i] + 4 + DataOffset(a) BY <5>1
        <5>2. o2[i + 1] = b + (4 + DataOffset(a)) BY <4>1, <4>2
        <5> QED BY <4>1, <4>4, <5>2
      <4> QED BY <1>16, <3>1, <4>2, <4>3, <4>5
    <3>2. CASE i <= N
      <4>1. o2[i] = off[i] /\ o2[i + 1] = off[i + 1] /\ added'[i] = added[i] BY <1>16, <1>18, <3>2
      <4>2. /\ added[i] = Item(added[i].depth, buf[off[i]], Loaded(buf[off[i]].type, buf[off[i]].data))
            /\ added[i].type \in Containers => off[i + 1] = off[i] + 4 + DataOffset(buf[off[i]])
            /\ i < N => added[i + 1].depth <= added[i].depth
                                                  + IF added[i].type \in Containers THEN 1 ELSE 0
        BY <1>1, <3>2 DEF Layout, Items
      <4>3. IsAttr(buf'[o2[i]]) BY <1>20, <3>2, <4>1
      <4>4. added'[i] = Item(added'[i].depth, buf'[o2[i]], Loaded(buf'[o2[i]].type, buf'[o2[i]].data))
        BY <1>20, <3>2, <4>1, <4>2 DEF Item
      <4>5. added'[i].type \in Containers => o2[i + 1] = o2[i] + 4 + DataOffset(buf'[o2[i]])
        BY <1>20, <3>2, <4>1, <4>2
      <4>6. added'[i + 1].depth <= added'[i].depth + IF added'[i].type \in Containers THEN 1 ELSE 0
        <5>1. CASE i < N
          <6>1. added'[i + 1] = added[i + 1] BY <1>16, <5>1
          <6> QED BY <4>1, <4>2, <5>1, <6>1
        <5>2. CASE i = N
          <6>1. added'[i + 1].depth = m BY <1>16, <5>2
          <6>2. added[N] \in ItemType /\ added[N].depth \in Nat
            <7>1. N \in 1..Len(added) /\ added \in Seq(ItemType) BY <1>1, <5>2 DEF Layout, Offsets
            <7>2. added[N] \in ItemType BY <7>1, ElementOfSeq
            <7> QED BY <7>2 DEF ItemType
          <6>3. CASE off[N] > top
            <7>1. \A l \in 1..Len(head), k \in 1..Len(added) : off[k] > head[l] => added[k].depth >= l
              BY DEF Layout, Heads
            <7>2. added[N].depth >= m
              <8>1. m \in 1..Len(head) /\ N \in 1..Len(added) BY <1>1, <1>2, <5>2
              <8> QED BY <1>3, <6>3, <7>1, <8>1
            <7> QED BY <1>2, <4>1, <5>2, <6>1, <6>2, <7>2
          <6>4. CASE ~(off[N] > top)
            <7>1. m # 1 BY <1>3, <1>20, <5>2, <6>4 DEF Layout, Heads
            <7>2. m \in 2..Len(head) BY <1>2, <7>1
            <7>3. PICK k \in 1..N : top = off[k] /\ added[k].type \in Containers /\ added[k].depth = m - 1
              BY <1>1, <1>3, <7>2 DEF Layout, Heads
            <7>4. k = N
              <8>1. \A x, y \in 1..(N + 1) : x < y => off[x] + 4 <= off[y] BY <1>1 DEF Layout, Offsets
              <8>2. k < N => off[k] + 4 <= off[N] BY <5>2, <8>1
              <8> QED BY <1>20, <5>2, <6>4, <7>3, <8>2
            <7> QED BY <1>2, <4>1, <5>2, <6>1, <7>3, <7>4
          <6> QED BY <6>3, <6>4
        <5> QED BY <3>2, <5>1, <5>2
      <4> QED BY <4>3, <4>4, <4>5, <4>6
    <3> QED BY <3>1, <3>2
  <2> QED BY <1>16, <2>1, <2>2, <2>3 DEF Items
<1>22. PICK m2 \in Nat : m2 = Len(head') /\ m2 = IF a.type \in Containers THEN m + 1 ELSE m
  BY <1>2 DEF Extension, Layout, Heads
<1>23. /\ head' \in Seq(Nat)
       /\ \A l \in 1..m : head'[l] = head[l] /\ head[l] \in Nat
       /\ a.type \in Containers => head'[m + 1] = b
  <2>1. /\ head \in Seq(Nat)
        /\ head' = IF a.type \in Containers THEN Append(head, b) ELSE head
    BY <1>9 DEF Extension, Layout, Heads
  <2>2. \A l \in 1..m : head[l] \in Nat BY <1>2, <2>1, ElementOfSeq
  <2>3. CASE a.type \in Containers BY <1>2, <2>1, <2>2, <2>3
  <2>4. CASE a.type \notin Containers BY <2>1, <2>2, <2>4
  <2> QED BY <2>3, <2>4
<1>24. \A l \in 1..m : head[l] <= top /\ (l # m => head[l] < top)
  BY <1>2, <1>3 DEF Layout, Heads
<1>25. /\ \A l \in 1..m : head[l] \in DOMAIN buf
       /\ \A l \in 1..(m - 1) : buf'[head[l]] = buf[head[l]] /\ head[l] + buf[head[l]].len = head[l + 1] + 4
  <2>1. \A l \in 1..m : head[l] \in DOMAIN buf BY <1>2, OpenTables DEF Layout
  <2>2. \A l \in 1..(m - 1) : head[l] # top /\ l \in 1..m BY <1>2, <1>8, <1>23, <1>24
  <2> QED BY <1>2, <1>11, <2>1, <2>2 DEF Layout, Heads
<1>26. Heads(o2)'
  <2>1. Len(head') >= 1 /\ head'[1] = 0
    BY <1>2, <1>22, <1>23 DEF Layout, Heads
  <2>2. ASSUME NEW k \in 1..m2, NEW l \in 1..m2, k < l PROVE head'[k] < head'[l]
    <3>1. CASE l \in 1..m
      <4>1. k \in 1..m BY <2>2, <3>1
      <4>2. head[k] < head[l] BY <1>2, <2>2, <3>1, <4>1 DEF Layout, Heads
      <4> QED BY <1>23, <3>1, <4>1, <4>2
    <3>2. CASE l \notin 1..m
      <4>1. l = m + 1 /\ head'[l] = b /\ k \in 1..m BY <1>22, <1>23, <2>2, <3>2
      <4>2. head'[k] = head[k] /\ head[k] \in Nat /\ head[k] <= top BY <1>23, <1>24, <4>1
      <4> QED BY <1>8, <4>1, <4>2
    <3> QED BY <3>1, <3>2
  <2>3. ASSUME NEW l \in 2..m2
        PROVE  \E i \in 1..(N + 1) : head'[l] = o2[i] /\ added'[i].type \in Containers /\ added'[i].depth = l - 1
    <3>1. CASE l <= m
      <4>1. PICK i \in 1..N : head[l] = off[i] /\ added[i].type \in Containers /\ added[i].depth = l - 1
        BY <1>1, <1>2, <3>1 DEF Layout, Heads
      <4>2. i \in 1..(N + 1) /\ o2[i] = off[i] /\ added'[i] = added[i] /\ head'[l] = head[l]
        BY <1>16, <1>18, <1>23, <3>1
      <4> QED BY <4>1, <4>2
    <3>2. CASE ~(l <= m)
      <4>1. l = m + 1 /\ head'[l] = b /\ a.type \in Containers BY <1>2, <1>22, <1>23, <3>2
      <4>2. added'[N + 1].type \in Containers /\ added'[N + 1].depth = m
        BY <1>16, <4>1
      <4>3. N + 1 \in 1..(N + 1) /\ o2[N + 1] = b BY <1>18
      <4> QED BY <4>1, <4>2, <4>3
    <3> QED BY <3>1, <3>2
  <2>4. ASSUME NEW l \in 1..m2, NEW i \in 1..(N + 1), o2[i] > head'[l] PROVE added'[i].depth >= l
    <3>1. CASE l <= m /\ i <= N
      BY <1>1, <1>2, <1>16, <1>18, <1>23, <2>4, <3>1, SMTT(30) DEF Layout, Heads
    <3>2. CASE l <= m /\ i = N + 1 BY <1>2, <1>16, <3>2
    <3>3. CASE ~(l <= m)
      <4>1. head'[l] = b BY <1>22, <1>23, <3>3
      <4>2. o2[i] <= b
        <5>1. CASE i = N + 1 BY <1>4, <1>18, <5>1
        <5>2. CASE i \in 1..N BY <1>18, <1>20, <1>4, <5>2
        <5> QED BY <5>1, <5>2
      <4>3. o2[i] \in Nat BY <1>18
      <4> QED BY <1>4, <2>4, <4>1, <4>2, <4>3
    <3> QED BY <3>1, <3>2, <3>3
  <2>5. ASSUME NEW l \in 1..(m2 - 1) PROVE head'[l] + buf'[head'[l]].len = head'[l + 1] + 4
    <3>1. CASE l < m
      <4>1. l \in 1..(m - 1) /\ l + 1 \in 1..m /\ l \in 1..m BY <1>2, <3>1
      <4> QED BY <1>23, <1>25, <4>1
    <3>2. CASE ~(l < m)
      <4>1. l = m /\ a.type \in Containers BY <1>2, <1>22, <3>2
      <4>2. growth = 4 /\ head'[l] = top /\ head'[l + 1] = b BY <1>2, <1>3, <1>23, <4>1 DEF Extension
      <4> QED BY <1>8, <1>12, <4>2
    <3> QED BY <3>1, <3>2
  <2>6. head'[m2] + buf'[head'[m2]].len = o2[N + 2]
    <3>1. CASE a.type \in Containers
      <4>1. head'[m2] = b /\ buf'[b] = a /\ o2[N + 2] = b + pa BY <1>11, <1>18, <1>22, <1>23, <3>1
      <4>2. a.len = pa
        BY <3>1, <1>5, AttrLengths DEF Extension
      <4> QED BY <4>1, <4>2
    <3>2. CASE a.type \notin Containers
      <4>1. head'[m2] = top /\ growth = pa BY <1>2, <1>3, <1>5, <1>22, <1>23, <3>2 DEF Extension
      <4>2. buf'[top].len = buf[top].len + pa BY <1>12, <4>1
      <4> QED BY <1>6, <1>8, <1>18, <4>1, <4>2
    <3> QED BY <3>1, <3>2
  <2> QED BY <1>16, <1>22, <1>23, <2>1, <2>2, <2>3, <2>4, <2>5, <2>6, SMTT(30) DEF Heads
<1>27. Closed(o2)'
  <2> SUFFICES ASSUME NEW i \in 1..(N + 1), \A l \in 1..m2 : head'[l] # o2[i]
               PROVE  \E j \in 1..(N + 2) :
                        /\ Ends(i, j)'
                        /\ o2[i] + blob_pad_len(buf'[o2[i]]) = o2[j]
                        /\ j = N + 2 => added'[i].depth >= m2
    BY <1>16, <1>22 DEF Closed
  <2>1. CASE i = N + 1
    <3>1. a.type \notin Containers /\ m2 = m
      <4>1. o2[i] = b BY <1>18, <2>1
      <4>2. a.type \in Containers => head'[m2] = b /\ m2 \in 1..m2 BY <1>2, <1>22, <1>23
      <4> QED BY <1>22, <4>1, <4>2
    <3>2. Ends(i, N + 2)' BY <1>16, <2>1 DEF Ends
    <3>3. o2[i] + blob_pad_len(buf'[o2[i]]) = o2[N + 2] BY <1>5, <1>11, <1>18, <2>1
    <3>4. added'[i].depth >= m2 BY <1>2, <1>16, <2>1, <3>1
    <3> QED BY <3>2, <3>3, <3>4
  <2>2. CASE i \in 1..N
    <3>1. \A l \in 1..m : head[l] # off[i] BY <1>18, <1>22, <1>23, <2>2
    <3>2. PICK j \in 1..(N + 1) :
            /\ Ends(i, j)
            /\ off[i] + blob_pad_len(buf[off[i]]) = off[j]
            /\ j = N + 1 => added[i].depth >= m
      BY <1>1, <1>2, <2>2, <3>1 DEF Layout, Closed
    <3>3. Ends(i, j)'
      <4>1. /\ j \in (i + 1)..(N + 1)
            /\ \A k \in (i + 1)..(j - 1) : added[k].depth > added[i].depth
            /\ j <= N => added[j].depth <= added[i].depth
        BY <1>1, <3>2 DEF Ends
      <4>2. added'[i] = added[i] /\ \A k \in (i + 1)..(j - 1) : added'[k] = added[k]
        BY <1>16, <2>2, <4>1
      <4>3. added'[j].depth <= added'[i].depth
        <5>1. CASE j <= N BY <1>16, <2>2, <4>1, <5>1
        <5>2. CASE j = N + 1
          <6>1. added'[j].depth = m BY <1>16, <5>2
          <6>2. added[i].depth \in Nat
            <7>1. added[i] \in ItemType BY <1>1, <2>2, ElementOfSeq DEF Layout, Offsets
            <7> QED BY <7>1 DEF ItemType
          <6> QED BY <3>2, <4>2, <5>2, <6>1, <6>2
        <5> QED BY <4>1, <5>1, <5>2
      <4> QED BY <1>16, <4>1, <4>2, <4>3 DEF Ends
    <3>4. buf'[off[i]] = buf[off[i]] BY <1>2, <1>3, <1>20, <2>2, <3>1
    <3> QED BY <1>18, <2>2, <3>2, <3>3, <3>4
  <2> QED BY <2>1, <2>2
<1> QED BY <1>19, <1>21, <1>26, <1>27 DEF Layout

(* The types of the values are types of attributes. *)
LEMMA ValueTypes ==
  ASSUME NEW v \in Values
  PROVE  v.type \in Types /\ v.value \in Seq(0..255)
<1>1. v.type \in DOMAIN Width \/ v.type = "STRING" BY ValuesAssumption
<1>2. DOMAIN Width = {"INT8", "INT16", "INT32", "INT64", "DOUBLE"} BY DEF Width
<1>3. DOMAIN Width \subseteq Types /\ "STRING" \in Types BY <1>2 DEF Types
<1> QED BY <1>1, <1>3, ValuesAssumption

(* blobmsg_add_field and blob_put keep the layout. *)
LEMMA AddKeepsLayout ==
  ASSUME NEW off, Layout(off), Add
  PROVE  \E o : Layout(o)'
<1>1. PICK namelen \in Names \cup {NoName}, v \in Values :
        /\ Len(added) < MaxAttrs
        /\ buf' = Appended(Attr(v.type, namelen, Stored(v.type, v.value)),
                           blob_pad_len(Attr(v.type, namelen, Stored(v.type, v.value))))
        /\ added' = Append(added, Item(Len(head), Attr(v.type, namelen, Stored(v.type, v.value)), v.value))
        /\ head' = head
  BY DEF Add
<1>2. PICK a : a = Attr(v.type, namelen, Stored(v.type, v.value)) OBVIOUS
<1>3. PICK item : item = Item(Len(head), a, v.value) OBVIOUS
<1>4. /\ Stored(v.type, v.value) \in Seq(0..255)
      /\ Loaded(v.type, Stored(v.type, v.value)) = v.value
      /\ v.type \notin Containers
  BY LoadsWhatWasStored
<1>5. Padded(a.len) <= Most BY <1>2, MostFits DEF Fitting
<1>6. 0 < MaxAttrs BY <1>1, BlobAssumption DEF Layout, Offsets
<1>7. /\ IsAttr(a) /\ a.type = v.type /\ a.namelen = namelen /\ a.data = Stored(v.type, v.value)
      /\ blob_pad_len(a) <= Most
  <2>1. PICK t \in Types, d \in Seq(0..255) : t = v.type /\ d = Stored(v.type, v.value)
    BY <1>4, ValueTypes
  <2>2. a = Attr(t, namelen, d) /\ Padded(a.len) <= Most BY <1>2, <1>5, <2>1
  <2>3. t \in Containers => d = << >> BY <1>4, <2>1
  <2>4. /\ IsAttr(a) /\ a.type = t /\ a.namelen = namelen /\ a.data = d
        /\ blob_pad_len(a) <= Most
        /\ t \in Containers => blob_pad_len(a) = 4 + DataOffset(a)
    <3>1. NewAttr(a, t, namelen, d) BY <1>6, <2>2, <2>3 DEF NewAttr
    <3> QED BY <3>1, AttrIsAttr
  <2> QED BY <1>4, <2>1, <2>4
<1>8. Len(head) \in Nat \ {0} BY DEF Layout, Heads
<1>9. namelen \in Int BY BlobAssumption DEF NoName
<1>10. item = [depth |-> Len(head), type |-> v.type, namelen |-> namelen, value |-> v.value]
  BY <1>3, <1>7 DEF Item
<1>11. item \in ItemType BY <1>8, <1>9, <1>10, ValueTypes DEF ItemType
<1>12. Extension(a, item, blob_pad_len(a))
  BY <1>1, <1>2, <1>3, <1>4, <1>7, <1>11 DEF Extension
<1> QED BY <1>12, AppendKeepsLayout

(* blobmsg_open_table, blobmsg_open_array and blob_nest_start keep it. *)
LEMMA OpenKeepsLayout ==
  ASSUME NEW off, Layout(off), Open
  PROVE  \E o : Layout(o)'
<1>1. PICK type \in {"ARRAY", "TABLE"}, namelen \in Names \cup {NoName} :
        /\ Len(added) < MaxAttrs
        /\ buf' = Appended(Attr(type, namelen, << >>), 4)
        /\ head' = Append(head, Behind)
        /\ added' = Append(added, Item(Len(head), Attr(type, namelen, << >>), << >>))
  BY DEF Open, sizeof_blob_attr
<1>2. PICK a : a = Attr(type, namelen, << >>) OBVIOUS
<1>3. PICK item : item = Item(Len(head), a, << >>) OBVIOUS
<1>4. type \in Containers /\ type \in Types /\ Loaded(type, << >>) = << >>
  <2>1. type \in Containers /\ type \in Types BY DEF Types, Containers
  <2>2. Loaded(type, << >>) = << >> BY DEF Loaded
  <2> QED BY <2>1, <2>2
<1>5. Padded(a.len) <= Most
  <2>1. Attr(type, namelen, << >>).len = Attr("TABLE", namelen, << >>).len
    BY DEF Attr, DataOffset, blob_is_extended
  <2> QED BY <1>2, <2>1, MostFits DEF Fitting
<1>6. 0 < MaxAttrs BY <1>1, BlobAssumption DEF Layout, Offsets
<1>7. << >> \in Seq(0..255) OBVIOUS
<1>8. /\ IsAttr(a) /\ a.type = type /\ a.namelen = namelen /\ a.data = << >>
      /\ blob_pad_len(a) <= Most /\ blob_pad_len(a) = 4 + DataOffset(a)
  <2>1. PICK t \in Types, d \in Seq(0..255) : t = type /\ d = << >> BY <1>4, <1>7
  <2>2. a = Attr(t, namelen, d) /\ Padded(a.len) <= Most BY <1>2, <1>5, <2>1
  <2>3. t \in Containers => d = << >> BY <2>1
  <2>4. /\ IsAttr(a) /\ a.type = t /\ a.namelen = namelen /\ a.data = d
        /\ blob_pad_len(a) <= Most
        /\ t \in Containers => blob_pad_len(a) = 4 + DataOffset(a)
    <3>1. NewAttr(a, t, namelen, d) BY <1>6, <2>2, <2>3 DEF NewAttr
    <3> QED BY <3>1, AttrIsAttr
  <2> QED BY <1>4, <2>1, <2>4
<1>9. Len(head) \in Nat \ {0} BY DEF Layout, Heads
<1>10. namelen \in Int BY BlobAssumption DEF NoName
<1>11. item = [depth |-> Len(head), type |-> type, namelen |-> namelen, value |-> << >>]
  BY <1>3, <1>8 DEF Item
<1>12. item \in ItemType BY <1>4, <1>7, <1>9, <1>10, <1>11 DEF ItemType
<1>13. Extension(a, item, 4)
  BY <1>1, <1>2, <1>3, <1>4, <1>8, <1>12 DEF Extension
<1> QED BY <1>13, AppendKeepsLayout

(* blobmsg_close_table, blobmsg_close_array and blob_nest_end keep it: the  *)
(* outer table grows by what the inner one took in.                         *)
LEMMA CloseKeepsLayout ==
  ASSUME NEW off, Layout(off), Close
  PROVE  Layout(off)'
<1>1. PICK N \in Nat : N = Len(added) BY DEF Layout, Offsets
<1>2. PICK m \in Nat : m = Len(head) /\ 2 <= m BY DEF Layout, Heads, Close
<1>3. PICK inner, outer : inner = head[m] /\ outer = head[m - 1] OBVIOUS
<1>4. PICK b : b = off[N + 1] OBVIOUS
<1>5. /\ inner \in Nat /\ outer \in Nat /\ outer < inner /\ b \in Nat
      /\ outer + buf[outer].len = inner + 4 /\ inner + buf[inner].len = b
      /\ b <= 4 + Most * N
  <2>1. m - 1 \in 1..(Len(head) - 1) /\ m - 1 \in 1..Len(head) /\ m \in 1..Len(head)
        /\ m - 1 < m /\ (m - 1) + 1 = m
    BY <1>2
  <2>2. inner \in Nat /\ outer \in Nat BY <1>3, <2>1, ElementOfSeq DEF Layout, Heads
  <2>3. outer < inner BY <1>3, <2>1 DEF Layout, Heads
  <2>4. outer + buf[outer].len = inner + 4 BY <1>3, <2>1 DEF Layout, Heads
  <2>5. inner + buf[inner].len = b BY <1>1, <1>2, <1>3, <1>4 DEF Layout, Heads
  <2>6. b \in Nat /\ b <= 4 + Most * N BY <1>1, <1>4 DEF Layout, Offsets
  <2> QED BY <2>2, <2>3, <2>4, <2>5, <2>6
<1>6. /\ outer \in DOMAIN buf /\ IsAttr(buf[outer]) /\ blob_pad_len(buf[outer]) = buf[outer].len
      /\ buf[outer].type \in Containers
      /\ inner \in DOMAIN buf /\ IsAttr(buf[inner]) /\ blob_pad_len(buf[inner]) = buf[inner].len
      /\ buf[inner].type \in Containers
  BY <1>2, <1>3, OpenTables DEF Layout
<1>7. /\ buf[outer].len \in Nat /\ buf[inner].len \in Nat /\ 4 <= buf[inner].len
      /\ buf[outer].len % 4 = 0 /\ buf[inner].len % 4 = 0 /\ blob_len(buf[inner]) = buf[inner].len - 4
      /\ 4 <= buf[outer].len
  BY <1>6, AttrLengths DEF IsAttr
<1>8. PICK len \in Nat : len = buf[outer].len + (buf[inner].len - 4) BY <1>7
<1>9. outer + len = b /\ len % 4 = 0 /\ 4 <= len BY <1>5, <1>7, <1>8
<1>10. buf' = [buf EXCEPT ![outer].len = len]
  <2>1. Innermost = inner BY <1>2, <1>3 DEF Innermost, Last
  <2> QED BY <1>2, <1>3, <1>6, <1>7, <1>8, <2>1 DEF Close
<1>11. /\ DOMAIN buf' = DOMAIN buf /\ \A o \in DOMAIN buf : o # outer => buf'[o] = buf[o]
       /\ buf'[outer] = [buf[outer] EXCEPT !.len = len]
  BY <1>6, <1>10
<1>12. /\ buf'[outer].type = buf[outer].type /\ buf'[outer].namelen = buf[outer].namelen
       /\ buf'[outer].data = buf[outer].data /\ buf'[outer].len = len
       /\ buf'[outer] \in AttrType
  <2>1. buf[outer] \in AttrType BY <1>6 DEF IsAttr
  <2> QED BY <1>11, <2>1 DEF AttrType
<1>13. IsAttr(buf'[outer])
  <2>1. N <= MaxAttrs BY <1>1 DEF Layout, Offsets
  <2>2. PICK X \in Nat, Y \in Nat : X = Most * N /\ Y = Most * MaxAttrs /\ X <= Y
    BY <2>1, Products, BlobAssumption
  <2>3. b <= 4 + X BY <1>5, <2>2
  <2>4. len <= 4 + Y BY <1>5, <1>9, <2>2, <2>3
  <2> QED BY <1>9, <1>12, <2>2, <2>4 DEF IsAttr
<1>14. added' = added /\ head' = Front(head) BY DEF Close
<1>15. /\ head' \in Seq(Nat) /\ Len(head') = m - 1
       /\ \A l \in 1..(m - 1) : head'[l] = head[l] /\ head[l] \in DOMAIN buf /\ head[l] \in Nat
       /\ \A l \in 1..(m - 2) : head[l] # outer
  <2>1. head \in Seq(Nat) /\ Len(head) = m BY <1>2 DEF Layout, Heads
  <2>2. \A l \in 1..(m - 1) : head[l] \in Nat BY <1>2, <2>1, ElementOfSeq
  <2>3. head' = SubSeq(head, 1, m - 1) BY <1>14, <2>1 DEF Front
  <2>4. head' \in Seq(Nat) /\ Len(head') = m - 1 /\ \A l \in 1..(m - 1) : head'[l] = head[l]
    BY <1>2, <2>1, <2>2, <2>3, SubSeqProperties
  <2>5. \A l \in 1..(m - 1) : head[l] \in DOMAIN buf BY <1>2, OpenTables DEF Layout
  <2>6. ASSUME NEW l \in 1..(m - 2) PROVE head[l] # outer
    <3>1. head[l] < head[m - 1]
      <4>1. l \in 1..Len(head) /\ m - 1 \in 1..Len(head) /\ l < m - 1 BY <1>2
      <4> QED BY <4>1 DEF Layout, Heads
    <3> QED BY <1>2, <1>3, <2>2, <3>1
  <2> QED BY <2>2, <2>4, <2>5, <2>6
<1>16. Offsets(off)' BY <1>11, <1>14 DEF Layout, Offsets
<1>17. \A i \in 1..N : /\ off[i] \in DOMAIN buf
                       /\ IsAttr(buf'[off[i]])
                       /\ buf'[off[i]].type = buf[off[i]].type
                       /\ buf'[off[i]].namelen = buf[off[i]].namelen
                       /\ buf'[off[i]].data = buf[off[i]].data
                       /\ DataOffset(buf'[off[i]]) = DataOffset(buf[off[i]])
                       /\ off[i] # outer => buf'[off[i]] = buf[off[i]]
  <2> TAKE i \in 1..N
  <2>1. off[i] \in DOMAIN buf BY <1>1 DEF Layout, Offsets
  <2>2. IsAttr(buf[off[i]]) BY <1>1 DEF Layout, Items
  <2>3. CASE off[i] = outer BY <1>12, <1>13, <2>1, <2>3 DEF DataOffset, blob_is_extended
  <2>4. CASE off[i] # outer BY <1>11, <2>1, <2>2, <2>4
  <2> QED BY <2>1, <2>3, <2>4
<1>18. Items(off)'
  <2>1. IsAttr(buf'[0]) /\ buf'[0].type = "TABLE" /\ buf'[0].namelen = NoName
    <3>1. IsAttr(buf[0]) /\ buf[0].type = "TABLE" /\ buf[0].namelen = NoName /\ 0 \in DOMAIN buf
      BY DEF Layout, Items, Offsets
    <3> QED BY <1>11, <1>12, <1>13, <3>1
  <2>2. ASSUME NEW i \in 1..N
        PROVE  /\ IsAttr(buf'[off[i]])
               /\ added[i] = Item(added[i].depth, buf'[off[i]], Loaded(buf'[off[i]].type, buf'[off[i]].data))
               /\ added[i].type \in Containers => off[i + 1] = off[i] + 4 + DataOffset(buf'[off[i]])
    <3>1. /\ added[i] = Item(added[i].depth, buf[off[i]], Loaded(buf[off[i]].type, buf[off[i]].data))
          /\ added[i].type \in Containers => off[i + 1] = off[i] + 4 + DataOffset(buf[off[i]])
      BY <1>1 DEF Layout, Items
    <3> QED BY <1>17, <3>1 DEF Item
  <2>3. /\ N > 0 => added[1].depth = 1
        /\ \A i \in 1..N : i < N => added[i + 1].depth <= added[i].depth
                                      + IF added[i].type \in Containers THEN 1 ELSE 0
    BY <1>1 DEF Layout, Items
  <2> QED BY <1>1, <1>14, <2>1, <2>2, <2>3 DEF Items
<1>19. Heads(off)'
  <2>1. head'[1] = 0 /\ Len(head') >= 1
    <3>1. 1 \in 1..(m - 1) BY <1>2
    <3>2. head[1] = 0 BY DEF Layout, Heads
    <3> QED BY <1>2, <1>15, <3>1, <3>2
  <2>2. ASSUME NEW k \in 1..(m - 1), NEW l \in 1..(m - 1), k < l PROVE head'[k] < head'[l]
    <3>1. k \in 1..Len(head) /\ l \in 1..Len(head) BY <1>2
    <3>2. head[k] < head[l] BY <2>2, <3>1 DEF Layout, Heads
    <3> QED BY <1>15, <3>2
  <2>3. ASSUME NEW l \in 2..(m - 1)
        PROVE  \E i \in 1..N : head'[l] = off[i] /\ added[i].type \in Containers /\ added[i].depth = l - 1
    <3>1. l \in 2..Len(head) /\ l \in 1..(m - 1) BY <1>2
    <3> QED BY <1>1, <1>15, <3>1 DEF Layout, Heads
  <2>4. ASSUME NEW l \in 1..(m - 1), NEW i \in 1..N, off[i] > head'[l] PROVE added[i].depth >= l
    <3>1. l \in 1..Len(head) /\ off[i] > head[l] BY <1>2, <1>15, <2>4
    <3> QED BY <1>1, <3>1 DEF Layout, Heads
  <2>5. ASSUME NEW l \in 1..(m - 2) PROVE head'[l] + buf'[head'[l]].len = head'[l + 1] + 4
    <3>1. l \in 1..(m - 1) /\ l + 1 \in 1..(m - 1) /\ l \in 1..(Len(head) - 1) BY <1>2
    <3>2. head[l] + buf[head[l]].len = head[l + 1] + 4 BY <3>1 DEF Layout, Heads
    <3>3. buf'[head[l]] = buf[head[l]] BY <1>11, <1>15, <3>1
    <3> QED BY <1>15, <3>1, <3>2, <3>3
  <2>6. head'[m - 1] + buf'[head'[m - 1]].len = off[N + 1]
    BY <1>2, <1>3, <1>4, <1>9, <1>12, <1>15
  <2>7. (m - 1) - 1 = m - 2 BY <1>2
  <2> QED BY <1>1, <1>14, <1>15, <2>1, <2>2, <2>3, <2>4, <2>5, <2>6, <2>7 DEF Heads
<1>20. Closed(off)'
  <2> SUFFICES ASSUME NEW i \in 1..N, \A l \in 1..(m - 1) : head'[l] # off[i]
               PROVE  \E j \in 1..(N + 1) :
                        /\ Ends(i, j)
                        /\ off[i] + blob_pad_len(buf'[off[i]]) = off[j]
                        /\ j = N + 1 => added[i].depth >= m - 1
    <3>1. Len(added') = N /\ Len(head') = m - 1 /\ added' = added BY <1>1, <1>14, <1>15
    <3>2. \A i, j : Ends(i, j)' <=> Ends(i, j) BY <1>14 DEF Ends
    <3> QED BY <3>1, <3>2 DEF Closed
  <2>1. buf'[off[i]] = buf[off[i]]
    <3>1. off[i] # outer BY <1>2, <1>3, <1>15
    <3> QED BY <1>17, <3>1
  <2>2. CASE off[i] = inner
    <3>1. PICK k \in 1..N : inner = off[k] /\ added[k].depth = m - 1
      <4>1. m \in 2..Len(head) BY <1>2
      <4> QED BY <1>1, <1>3, <4>1 DEF Layout, Heads
    <3>2. /\ off \in [1..(N + 1) -> Nat]
          /\ \A x, y \in 1..(N + 1) : x < y => off[x] + 4 <= off[y]
      BY <1>1 DEF Layout, Offsets
    <3>3. k = i
      <4>1. ~(k < i) BY <2>2, <3>1, <3>2
      <4>2. ~(i < k) BY <2>2, <3>1, <3>2
      <4> QED BY <4>1, <4>2
    <3>4. ASSUME NEW x \in (i + 1)..N PROVE added[x].depth > added[i].depth
      <4>1. i < x /\ x \in 1..N /\ x \in 1..(N + 1) /\ i \in 1..(N + 1) BY <3>4
      <4>2. off[i] + 4 <= off[x] /\ off[x] \in Nat /\ off[i] \in Nat BY <3>2, <4>1
      <4>3. off[x] > head[m] BY <1>3, <2>2, <4>2
      <4>4. added[x].depth >= m BY <1>1, <1>2, <4>1, <4>3 DEF Layout, Heads
      <4>5. added[x] \in ItemType BY <1>1, <4>1, ElementOfSeq DEF Layout, Offsets
      <4>6. added[x].depth \in Nat BY <4>5 DEF ItemType
      <4> QED BY <1>2, <3>1, <3>3, <4>4, <4>6
    <3>5. Ends(i, N + 1)
      <4>1. N + 1 \in (i + 1)..(N + 1) /\ (N + 1) - 1 = N OBVIOUS
      <4> QED BY <1>1, <3>4, <4>1 DEF Ends
    <3>6. off[i] + blob_pad_len(buf'[off[i]]) = off[N + 1] BY <1>4, <1>5, <1>6, <2>1, <2>2
    <3>7. added[i].depth >= m - 1 BY <1>2, <3>1, <3>3
    <3> QED BY <3>5, <3>6, <3>7
  <2>3. CASE off[i] # inner
    <3>1. ASSUME NEW l \in 1..m PROVE head[l] # off[i]
      <4>1. CASE l = m BY <1>3, <2>3, <4>1
      <4>2. CASE l # m
        <5>1. l \in 1..(m - 1) /\ l \in 1..Len(head') BY <1>15, <4>2
        <5>2. head'[l] = head[l] BY <1>15, <5>1
        <5> QED BY <5>1, <5>2
      <4> QED BY <4>1, <4>2
    <3>2. PICK j \in 1..(N + 1) :
            /\ Ends(i, j)
            /\ off[i] + blob_pad_len(buf[off[i]]) = off[j]
            /\ j = N + 1 => added[i].depth >= m
      BY <1>1, <1>2, <3>1 DEF Layout, Closed
    <3>3. added[i] \in ItemType BY <1>1, ElementOfSeq DEF Layout, Offsets
    <3>4. added[i].depth \in Nat BY <3>3 DEF ItemType
    <3> QED BY <1>2, <2>1, <3>2, <3>4
  <2> QED BY <2>2, <2>3
<1> QED BY <1>16, <1>18, <1>19, <1>20 DEF Layout

\* A loop of the reader.
FrameType == [pos : Nat, rem : Nat]

\* Loop l is at attribute c[l] and will end at attribute e[l], which is
\* the first behind its table; the loop outside it goes on there.
Reading(off, c, e) ==
  /\ frames \in Seq(FrameType) /\ Len(frames) >= 1
  /\ c \in [1..Len(frames) -> Nat \ {0}] /\ e \in [1..Len(frames) -> Nat \ {0}]
  /\ c[Len(frames)] = Len(got) + 1 /\ e[1] = Len(added) + 1
  /\ \A l \in 1..Len(frames) :
       /\ c[l] <= e[l] /\ e[l] <= Len(added) + 1
       /\ frames[l] = [pos |-> off[c[l]], rem |-> off[e[l]] - off[c[l]]]
       /\ \A i \in c[l]..(e[l] - 1) : added[i].depth >= l
       /\ c[l] < e[l] => added[c[l]].depth = l
       /\ e[l] <= Len(added) => added[e[l]].depth < l
  /\ \A l \in 1..(Len(frames) - 1) : c[l] = e[l + 1]

\* The reader got what was added first.
GotPrefix ==
  /\ got \in Seq(ItemType) /\ Len(got) <= Len(added)
  /\ \A i \in 1..Len(got) : got[i] = added[i]

\* The inductive invariant of a message that is written and read.
BlobInv ==
  /\ stage = "none" => got = << >> /\ added = << >>
  /\ size = 0 /\ stage # "none" => \E off :
       /\ Layout(off) /\ GotPrefix
       /\ stage \in {"write", "read", "done"}
       /\ stage = "write" => got = << >>
       /\ stage # "write" => head = << 0 >>
       /\ stage = "read" => \E c, e : Reading(off, c, e)
       /\ stage = "done" => Len(got) = Len(added)

-----------------------------------------------------------------------------
(* The loop over the outermost attributes starts at the first one and ends  *)
(* behind the last.                                                         *)
LEMMA StartReads ==
  ASSUME NEW off, Layout(off), Start, size = 0, got = << >>
  PROVE  (\E c, e : Reading(off, c, e))' /\ head = << 0 >>
<1>1. PICK N \in Nat : N = Len(added) BY DEF Layout, Offsets
<1>2. /\ off[1] = 4 /\ off[N + 1] \in Nat /\ added \in Seq(ItemType)
  BY <1>1 DEF Layout, Offsets
<1>3. /\ IsAttr(buf[0]) /\ buf[0].namelen = NoName BY DEF Layout, Items
<1>4. head \in Seq(Nat) /\ Len(head) = 1 /\ head[1] = 0 BY DEF Layout, Heads, Start
<1>5. head = << 0 >> BY <1>4
<1>6. buf[0].len = off[N + 1]
  <2>1. 0 + buf[0].len = off[N + 1] BY <1>1, <1>4 DEF Layout, Heads
  <2>2. buf[0].len \in Nat BY <1>3, AttrLengths
  <2> QED BY <2>1, <2>2
<1>7. Frame(0) = [pos |-> 4, rem |-> off[N + 1] - 4] /\ off[N + 1] - 4 \in Nat
  <2>1. DataOffset(buf[0]) = 0 BY <1>3 DEF DataOffset, blob_is_extended
  <2>2. blob_len(buf[0]) = off[N + 1] - 4 /\ blob_len(buf[0]) % Wrap = off[N + 1] - 4 /\ 4 <= off[N + 1]
    BY <1>3, <1>6, AttrLengths
  <2>3. blobmsg_data_len(buf[0]) = off[N + 1] - 4 BY <1>2, <2>1, <2>2 DEF blobmsg_data_len
  <2> QED BY <1>2, <2>1, <2>2, <2>3 DEF Frame, sizeof_blob_attr
<1>8. PICK r \in Nat : r = off[N + 1] - 4 BY <1>7
<1>9. frames' = <<[pos |-> 4, rem |-> r]>> /\ added' = added /\ got' = << >>
  BY <1>7, <1>8 DEF Start
<1>10. PICK c : c = [l \in 1..1 |-> 1] OBVIOUS
<1>11. PICK e : e = [l \in 1..1 |-> N + 1] OBVIOUS
<1>12. frames' \in Seq(FrameType) /\ Len(frames') = 1 /\ frames'[1] = [pos |-> off[1], rem |-> off[N + 1] - off[1]]
  BY <1>2, <1>8, <1>9 DEF FrameType
<1>13. \A i \in 1..N : added[i].depth >= 1
  <2> TAKE i \in 1..N
  <2>1. added[i] \in ItemType BY <1>1, <1>2, ElementOfSeq
  <2> QED BY <2>1 DEF ItemType
<1>14. N > 0 => added[1].depth = 1 BY <1>1 DEF Layout, Items
<1>15. Reading(off, c, e)'
  <2>1. c \in [1..1 -> Nat \ {0}] /\ e \in [1..1 -> Nat \ {0}] /\ c[1] = 1 /\ e[1] = N + 1
    BY <1>10, <1>11
  <2>2. Len(got') + 1 = 1 BY <1>9
  <2>3. (N + 1) - 1 = N OBVIOUS
  <2> QED BY <1>1, <1>9, <1>12, <1>13, <1>14, <2>1, <2>2, <2>3 DEF Reading
<1> QED BY <1>5, <1>15

(* The loop looks at an attribute just when one is left in its table. *)
LEMMA FitsAtItem ==
  ASSUME NEW off, Layout(off), NEW c, NEW e, Reading(off, c, e), size = 0, head = << 0 >>,
         NEW m \in Nat, m = Len(frames)
  PROVE  /\ Fits(Last(frames)) <=> c[m] < e[m]
         /\ c[m] < e[m] => \E j \in 1..(Len(added) + 1) :
              /\ Ends(c[m], j) /\ j <= e[m] /\ c[m] \in 1..Len(added)
              /\ off[c[m]] + blob_pad_len(buf[off[c[m]]]) = off[j]
<1>1. PICK N \in Nat : N = Len(added) BY DEF Layout, Offsets
<1>2. PICK x \in Nat, y \in Nat : x = c[m] /\ y = e[m] /\ 1 <= x /\ x <= y /\ y <= N + 1
  <2>1. m \in 1..Len(frames) /\ m >= 1 BY DEF Reading
  <2>2. c[m] \in Nat \ {0} /\ e[m] \in Nat \ {0} /\ c[m] <= e[m] /\ e[m] <= Len(added) + 1
    BY <2>1 DEF Reading
  <2> QED BY <1>1, <2>2
<1>3. /\ off \in [1..(N + 1) -> Nat] /\ \A i, j \in 1..(N + 1) : i < j => off[i] + 4 <= off[j]
  BY <1>1 DEF Layout, Offsets
<1>4. off[x] \in Nat /\ off[y] \in Nat BY <1>2, <1>3
<1>5. Last(frames) = [pos |-> off[x], rem |-> off[y] - off[x]] BY <1>2 DEF Reading, Last
<1>6. CASE x = y
  <2>1. ~Fits(Last(frames)) BY <1>4, <1>5, <1>6 DEF Fits, LooksAt, sizeof_blob_attr
  <2> QED BY <1>2, <1>6, <2>1
<1>7. CASE x < y
  <2>1. x \in 1..N BY <1>2, <1>7
  <2>2. added[x].depth = m /\ (y <= N => added[y].depth < m)
    <3>1. m \in 1..Len(frames) BY DEF Reading
    <3>2. /\ c[m] < e[m] => added[c[m]].depth = m
          /\ e[m] <= Len(added) => added[e[m]].depth < m
      BY <3>1 DEF Reading
    <3> QED BY <1>1, <1>2, <1>7, <3>2
  <2>3. \A l \in 1..Len(head) : head[l] # off[x]
    <3>1. off[x] # 0
      <4>1. off[1] = 4 BY DEF Layout, Offsets
      <4>2. 1 < x => off[1] + 4 <= off[x]
        <5>1. 1 \in 1..(N + 1) /\ x \in 1..(N + 1) BY <1>2, <2>1
        <5> QED BY <1>3, <5>1
      <4> QED BY <1>2, <1>4, <4>1, <4>2
    <3> QED BY <3>1
  <2>4. PICK j \in 1..(N + 1) : Ends(x, j) /\ off[x] + blob_pad_len(buf[off[x]]) = off[j]
    BY <1>1, <2>1, <2>3 DEF Layout, Closed
  <2>5. j <= y
    <3> SUFFICES ASSUME y < j PROVE FALSE BY <1>2
    <3>1. y \in (x + 1)..(j - 1) /\ y <= N BY <1>2, <1>7
    <3>2. added[y].depth > added[x].depth BY <2>4, <3>1 DEF Ends
    <3>3. added[y] \in ItemType BY <1>1, <1>2, <3>1, ElementOfSeq DEF Layout, Offsets
    <3>4. added[y].depth \in Nat BY <3>3 DEF ItemType
    <3> QED BY <2>2, <3>1, <3>2, <3>4
  <2>6. PICK p \in Nat : p = blob_pad_len(buf[off[x]]) /\ 4 <= p
    <3>1. IsAttr(buf[off[x]]) BY <1>1, <2>1 DEF Layout, Items
    <3> QED BY <3>1, AttrLengths
  <2>7. off[x] + 4 <= off[y] /\ off[j] <= off[y] /\ off[j] \in Nat
    <3>1. off[j] \in Nat BY <1>3
    <3>2. j < y => off[j] + 4 <= off[y] BY <1>2, <1>3, <1>7
    <3>3. x < y => off[x] + 4 <= off[y] BY <1>2, <1>3, <1>7
    <3>4. j = y \/ j < y BY <2>5
    <3> QED BY <1>4, <1>7, <3>1, <3>2, <3>3, <3>4
  <2>8. Fits(Last(frames))
    <3>1. LooksAt(Last(frames)) BY <1>4, <1>5, <2>7 DEF LooksAt, sizeof_blob_attr
    <3>2. Last(frames).pos = off[x] /\ Last(frames).rem = off[y] - off[x] BY <1>5
    <3>3. p <= off[y] - off[x] BY <1>4, <2>4, <2>6, <2>7
    <3> QED BY <2>6, <3>1, <3>2, <3>3 DEF Fits, sizeof_blob_attr
  <2> QED BY <1>1, <1>2, <1>7, <2>1, <2>4, <2>5, <2>8
<1> QED BY <1>2, <1>6, <1>7

(* When a loop ends, the one outside it is where it should be. *)
LEMMA ReadLeaves ==
  ASSUME NEW off, Layout(off), NEW c, NEW e, Reading(off, c, e), size = 0, head = << 0 >>,
         GotPrefix, Leave
  PROVE  /\ stage' = "read" => (\E d, f : Reading(off, d, f))'
         /\ stage' = "done" => Len(got) = Len(added)
<1>1. PICK m \in Nat : m = Len(frames) /\ m >= 1 BY DEF Reading
<1>2. c[m] = e[m]
  <2>1. ~Fits(Last(frames)) BY DEF Leave
  <2>2. ~(c[m] < e[m]) BY <1>1, <2>1, FitsAtItem
  <2>3. m \in 1..Len(frames) BY <1>1
  <2>4. c[m] \in Nat /\ e[m] \in Nat /\ c[m] <= e[m] BY <2>3 DEF Reading
  <2> QED BY <2>2, <2>4
<1>3. CASE m = 1
  <2>1. c[1] = Len(got) + 1 /\ e[1] = Len(added) + 1 BY <1>1, <1>3 DEF Reading
  <2>2. Len(got) \in Nat /\ Len(added) \in Nat BY DEF GotPrefix, Layout, Offsets
  <2>3. stage' = "done" BY <1>1, <1>3 DEF Leave
  <2> QED BY <1>2, <1>3, <2>1, <2>2, <2>3
<1>4. CASE m > 1
  <2>1. stage' = "read" /\ frames' = Front(frames) /\ added' = added /\ got' = got
    BY <1>1, <1>4 DEF Leave
  <2>2. /\ frames' \in Seq(FrameType) /\ Len(frames') = m - 1
        /\ \A l \in 1..(m - 1) : frames'[l] = frames[l]
    <3>1. frames \in Seq(FrameType) BY DEF Reading
    <3>2. \A l \in 1..(m - 1) : frames[l] \in FrameType BY <1>1, <3>1, ElementOfSeq
    <3>3. frames' = SubSeq(frames, 1, m - 1) BY <1>1, <2>1 DEF Front
    <3> QED BY <1>1, <1>4, <3>2, <3>3, SubSeqProperties
  <2>3. PICK d : d = [l \in 1..(m - 1) |-> c[l]] OBVIOUS
  <2>4. PICK f : f = [l \in 1..(m - 1) |-> e[l]] OBVIOUS
  <2>5. /\ c \in [1..m -> Nat \ {0}] /\ e \in [1..m -> Nat \ {0}]
        /\ c[m] = Len(got) + 1 /\ e[1] = Len(added) + 1 /\ c[m - 1] = e[m]
    <3>1. m - 1 \in 1..(Len(frames) - 1) /\ (m - 1) + 1 = m BY <1>1, <1>4
    <3> QED BY <1>1, <3>1 DEF Reading
  <2>6. /\ d \in [1..(m - 1) -> Nat \ {0}] /\ f \in [1..(m - 1) -> Nat \ {0}]
        /\ d[m - 1] = Len(got) + 1 /\ f[1] = Len(added) + 1
        /\ \A l \in 1..(m - 1) : d[l] = c[l] /\ f[l] = e[l]
    BY <1>1, <1>2, <1>4, <2>3, <2>4, <2>5
  <2>7. ASSUME NEW l \in 1..(m - 1)
        PROVE  /\ d[l] <= f[l] /\ f[l] <= Len(added) + 1
               /\ frames'[l] = [pos |-> off[d[l]], rem |-> off[f[l]] - off[d[l]]]
               /\ \A i \in d[l]..(f[l] - 1) : added[i].depth >= l
               /\ d[l] < f[l] => added[d[l]].depth = l
               /\ f[l] <= Len(added) => added[f[l]].depth < l
    <3>1. l \in 1..Len(frames) BY <1>1
    <3> QED BY <2>2, <2>6, <3>1 DEF Reading
  <2>8. ASSUME NEW l \in 1..((m - 1) - 1) PROVE d[l] = f[l + 1]
    <3>1. l \in 1..(Len(frames) - 1) /\ l \in 1..(m - 1) /\ l + 1 \in 1..(m - 1) BY <1>1
    <3>2. c[l] = e[l + 1] BY <3>1 DEF Reading
    <3> QED BY <2>6, <3>1, <3>2
  <2>9. Reading(off, d, f)' BY <1>1, <1>4, <2>1, <2>2, <2>6, <2>7, <2>8 DEF Reading
  <2> QED BY <2>1, <2>9
<1> QED BY <1>1, <1>3, <1>4

(* The attribute a loop visits is the next one that was added, and the      *)
(* loop that is entered for a table runs over what is in the table.         *)
LEMMA ReadVisits ==
  ASSUME NEW off, Layout(off), NEW c, NEW e, Reading(off, c, e), size = 0, head = << 0 >>,
         GotPrefix, Visit
  PROVE  (\E d, f : Reading(off, d, f))' /\ GotPrefix'
<1>1. PICK m \in Nat : m = Len(frames) /\ m >= 1 /\ m \in 1..Len(frames) BY DEF Reading
<1>2. PICK N \in Nat : N = Len(added) /\ added \in Seq(ItemType) BY DEF Layout, Offsets
<1>3. PICK k \in Nat : k = Len(got) BY DEF GotPrefix
<1>4. /\ c \in [1..m -> Nat \ {0}] /\ e \in [1..m -> Nat \ {0}] /\ frames \in Seq(FrameType)
      /\ c[m] = k + 1 /\ e[1] = N + 1
  BY <1>1, <1>2, <1>3 DEF Reading
<1>5. c[m] < e[m]
  <2>1. Fits(Last(frames)) BY DEF Visit
  <2> QED BY <1>1, <2>1, FitsAtItem
<1>6. PICK x \in 1..N : x = k + 1 BY <1>1, <1>2, <1>4, <1>5, FitsAtItem
<1>7. PICK j \in 1..(N + 1) :
        Ends(x, j) /\ j <= e[m] /\ off[x] + blob_pad_len(buf[off[x]]) = off[j]
  <2>1. PICK i \in 1..(Len(added) + 1) :
          /\ Ends(c[m], i) /\ i <= e[m]
          /\ off[c[m]] + blob_pad_len(buf[off[c[m]]]) = off[i]
    BY <1>1, <1>5, FitsAtItem
  <2>2. c[m] = x BY <1>4, <1>6
  <2> QED BY <1>2, <2>1, <2>2
<1>8. PICK a : a = buf[off[x]] OBVIOUS
<1>9. /\ IsAttr(a) /\ added[x] = Item(added[x].depth, a, Loaded(a.type, a.data)) /\ a.type = added[x].type
      /\ added[x].type \in Containers => off[x + 1] = off[x] + 4 + DataOffset(a)
      /\ x < N => added[x + 1].depth <= added[x].depth + IF added[x].type \in Containers THEN 1 ELSE 0
  <2>1. /\ IsAttr(a) /\ added[x] = Item(added[x].depth, a, Loaded(a.type, a.data))
        /\ added[x].type \in Containers => off[x + 1] = off[x] + 4 + DataOffset(a)
        /\ x < N => added[x + 1].depth <= added[x].depth + IF added[x].type \in Containers THEN 1 ELSE 0
    BY <1>2, <1>8 DEF Layout, Items
  <2>2. Item(added[x].depth, a, Loaded(a.type, a.data)).type = a.type BY DEF Item
  <2> QED BY <2>1, <2>2
<1>10. /\ added[x].depth = m
       /\ \A i \in x..(e[m] - 1) : added[i].depth >= m
       /\ e[m] <= N => added[e[m]].depth < m
       /\ e[m] <= N + 1
       /\ frames[m] = [pos |-> off[x], rem |-> off[e[m]] - off[x]]
  BY <1>1, <1>2, <1>4, <1>5, <1>6 DEF Reading
<1>11. Last(frames) = frames[m] /\ Last(frames).pos = off[x] BY <1>1, <1>10 DEF Last
<1>12. /\ UNCHANGED <<stage, buf, head, added, size>>
       /\ got' = Append(got, Item(m, a, Loaded(a.type, a.data)))
       /\ frames' = Append(Front(frames), Stepped(Last(frames)))
                      \o (IF a.type \in Containers THEN <<Frame(off[x])>> ELSE << >>)
  BY <1>1, <1>8, <1>11 DEF Visit, Containers
<1>13. got' = Append(got, added[x]) /\ added[x] \in ItemType
  <2>1. added[x] \in ItemType BY <1>2, ElementOfSeq
  <2> QED BY <1>9, <1>10, <1>12, <2>1
<1>14. GotPrefix' /\ Len(got') = k + 1
  <2>1. /\ got \in Seq(ItemType) /\ \A i \in 1..k : got[i] = added[i] BY <1>3 DEF GotPrefix
  <2>2. got' \in Seq(ItemType) /\ Len(got') = k + 1 /\ got'[k + 1] = added[x]
        /\ \A i \in 1..k : got'[i] = got[i]
    BY <1>3, <1>13, <2>1
  <2>3. \A i \in 1..(k + 1) : got'[i] = added[i] BY <1>6, <2>1, <2>2
  <2> QED BY <1>2, <1>6, <1>12, <2>2, <2>3 DEF GotPrefix
<1>15. /\ \A i \in (x + 1)..(j - 1) : added[i].depth > m
       /\ j \in (x + 1)..(N + 1) /\ j <= e[m]
       /\ j <= N => added[j].depth <= m
  BY <1>2, <1>7, <1>10 DEF Ends
<1>16. off \in [1..(N + 1) -> Nat] /\ \A p, q \in 1..(N + 1) : p < q => off[p] + 4 <= off[q]
  BY <1>2 DEF Layout, Offsets
<1>17. Stepped(Last(frames)) = [pos |-> off[j], rem |-> off[e[m]] - off[j]]
  <2>1. PICK p \in Nat : p = blob_pad_len(a) /\ off[x] + p = off[j] BY <1>7, <1>8, <1>9, AttrLengths
  <2>2. Stepped(Last(frames)) = [pos |-> off[x] + p, rem |-> (off[e[m]] - off[x]) - p]
    BY <1>8, <1>10, <1>11, <2>1 DEF Stepped
  <2>3. off[x] \in Nat /\ off[e[m]] \in Nat
    <3>1. e[m] \in Nat \ {0} BY <1>1, <1>4
    <3>2. e[m] \in 1..(N + 1) BY <1>2, <1>10, <3>1
    <3> QED BY <1>16, <3>2
  <2>4. (off[e[m]] - off[x]) - p = off[e[m]] - off[j] BY <2>1, <2>3
  <2> QED BY <2>1, <2>2, <2>4
<1>18. PICK fr : fr = Append(Front(frames), Stepped(Last(frames))) OBVIOUS
<1>19. PICK y \in 1..(N + 1) : y = e[m] /\ j <= y /\ off[y] \in Nat /\ off[j] \in Nat /\ off[j] <= off[y]
  <2>1. e[m] \in Nat \ {0} BY <1>1, <1>4
  <2>2. e[m] \in 1..(N + 1) BY <1>2, <1>10, <2>1
  <2>3. j < e[m] => off[j] + 4 <= off[e[m]] BY <1>16, <2>2
  <2> QED BY <1>15, <1>16, <2>1, <2>2, <2>3
<1>20. /\ fr \in Seq(FrameType) /\ Len(fr) = m
       /\ fr[m] = [pos |-> off[j], rem |-> off[y] - off[j]]
       /\ \A l \in 1..(m - 1) : fr[l] = frames[l]
  <2>1. \A l \in 1..(m - 1) : frames[l] \in FrameType BY <1>1, <1>4, ElementOfSeq
  <2>2. Front(frames) = SubSeq(frames, 1, m - 1) BY <1>1 DEF Front
  <2>3. PICK s : s = Front(frames) OBVIOUS
  <2>4. s \in Seq(FrameType) /\ Len(s) = m - 1 /\ \A l \in 1..(m - 1) : s[l] = frames[l]
    BY <1>1, <2>1, <2>2, <2>3, SubSeqProperties
  <2>5. PICK st \in FrameType : st = [pos |-> off[j], rem |-> off[y] - off[j]]
    <3>1. off[y] - off[j] \in Nat /\ off[j] \in Nat BY <1>19
    <3> QED BY <3>1 DEF FrameType
  <2>6. fr = Append(s, st) BY <1>17, <1>18, <1>19, <2>3, <2>5
  <2> QED BY <1>1, <2>4, <2>5, <2>6
<1>21. PICK d0 : d0 = [l \in 1..m |-> IF l = m THEN j ELSE c[l]] OBVIOUS
<1>22. /\ d0 \in [1..m -> Nat \ {0}] /\ d0[m] = j /\ \A l \in 1..(m - 1) : d0[l] = c[l]
  BY <1>1, <1>4, <1>21
<1>23. ASSUME NEW l \in 1..m
       PROVE  /\ d0[l] <= e[l] /\ e[l] <= N + 1
              /\ fr[l] = [pos |-> off[d0[l]], rem |-> off[e[l]] - off[d0[l]]]
              /\ \A i \in d0[l]..(e[l] - 1) : added[i].depth >= l
              /\ d0[l] < e[l] => added[d0[l]].depth = l
              /\ e[l] <= N => added[e[l]].depth < l
  <2>1. CASE l = m
    <3>1. \A i \in j..(y - 1) : added[i].depth >= m BY <1>10, <1>15, <1>19
    <3>2. j < y => added[j].depth = m
      <4> SUFFICES ASSUME j < y PROVE added[j].depth = m OBVIOUS
      <4>1. j <= N /\ j \in j..(y - 1) /\ j \in 1..N BY <1>19
      <4>2. added[j] \in ItemType BY <1>2, <4>1, ElementOfSeq
      <4>3. added[j].depth \in Nat BY <4>2 DEF ItemType
      <4> QED BY <1>15, <3>1, <4>1, <4>3
    <3> QED BY <1>10, <1>19, <1>20, <1>22, <2>1, <3>1, <3>2
  <2>2. CASE l # m
    <3>1. l \in 1..Len(frames) /\ l \in 1..(m - 1) BY <1>1, <2>2
    <3>2. fr[l] = frames[l] /\ d0[l] = c[l] BY <1>20, <1>22, <3>1
    <3> QED BY <1>2, <3>1, <3>2 DEF Reading
  <2> QED BY <2>1, <2>2
<1>24. \A l \in 1..(m - 1) : c[l] = e[l + 1] BY <1>1 DEF Reading
<1>25. CASE a.type \notin Containers
  <2>1. frames' = fr
    <3>1. frames' = fr \o << >> BY <1>12, <1>18, <1>25
    <3> QED BY <1>20, <3>1
  <2>2. j = x + 1
    <3> SUFFICES ASSUME j # x + 1 PROVE FALSE OBVIOUS
    <3>1. x + 1 \in (x + 1)..(j - 1) /\ x < N /\ x + 1 \in 1..N BY <1>15
    <3>2. added[x + 1].depth > m BY <1>15, <3>1
    <3>3. added[x + 1] \in ItemType BY <1>2, <3>1, ElementOfSeq
    <3>4. added[x + 1].depth \in Nat BY <3>3 DEF ItemType
    <3>5. added[x + 1].depth <= m + 0 BY <1>9, <1>10, <1>25, <3>1
    <3> QED BY <3>2, <3>4, <3>5
  <2>3. d0[m] = Len(got') + 1 BY <1>6, <1>14, <1>22, <2>2
  <2>4. \A l \in 1..(m - 1) : d0[l] = e[l + 1] BY <1>22, <1>24
  <2>5. Reading(off, d0, e)'
    BY <1>1, <1>2, <1>4, <1>12, <1>20, <1>22, <1>23, <2>1, <2>3, <2>4 DEF Reading
  <2> QED BY <1>14, <2>5
<1>26. CASE a.type \in Containers
  <2>1. /\ off[x + 1] = off[x] + 4 + DataOffset(a) /\ a.len \in Nat /\ blob_len(a) = a.len - 4
        /\ off[j] = off[x] + a.len /\ 4 <= a.len /\ blob_len(a) % Wrap = a.len - 4 /\ DataOffset(a) \in Nat
        /\ off[x] \in Nat /\ off[x + 1] \in Nat
    <3>1. /\ a.len \in Nat /\ blob_len(a) = a.len - 4 /\ 4 <= a.len /\ blob_len(a) % Wrap = a.len - 4
          /\ DataOffset(a) \in Nat /\ blob_pad_len(a) = a.len
      BY <1>9, <1>26, AttrLengths
    <3>2. x \in 1..(N + 1) /\ x + 1 \in 1..(N + 1) OBVIOUS
    <3>3. off[x] \in Nat /\ off[x + 1] \in Nat BY <1>16, <3>2
    <3>4. off[x + 1] = off[x] + 4 + DataOffset(a) BY <1>9, <1>26
    <3>5. off[j] = off[x] + a.len BY <1>7, <1>8, <3>1
    <3> QED BY <3>1, <3>3, <3>4, <3>5
  <2>2. off[x + 1] <= off[j]
    <3>1. x + 1 \in 1..(N + 1) OBVIOUS
    <3>2. x + 1 < j => off[x + 1] + 4 <= off[j] BY <1>16, <3>1
    <3>3. x + 1 = j \/ x + 1 < j BY <1>15
    <3> QED BY <1>19, <2>1, <3>2, <3>3
  <2>3. PICK r \in Nat : r = off[j] - off[x + 1] BY <1>19, <2>1, <2>2
  <2>4. blobmsg_data_len(a) = r BY <1>19, <2>1, <2>3 DEF blobmsg_data_len
  <2>5. r % Wrap = r
    <3>1. PICK K \in Nat : K = a.len - 4 /\ K % Wrap = K BY <2>1
    <3>2. K < Wrap BY <3>1 DEF Wrap
    <3>3. r <= K BY <1>19, <2>1, <2>3, <3>1
    <3> QED BY <3>2, <3>3 DEF Wrap
  <2>6. Frame(off[x]) = [pos |-> off[x + 1], rem |-> r]
    BY <1>8, <2>1, <2>4, <2>5 DEF Frame, sizeof_blob_attr
  <2>7. PICK g \in FrameType : g = [pos |-> off[x + 1], rem |-> off[j] - off[x + 1]]
    BY <2>1, <2>3 DEF FrameType
  <2>8. frames' = fr \o <<g>> BY <1>12, <1>18, <1>26, <2>3, <2>6, <2>7
  <2>9. /\ frames' \in Seq(FrameType) /\ Len(frames') = m + 1 /\ frames'[m + 1] = g
        /\ \A l \in 1..m : frames'[l] = fr[l]
    <3>1. fr \in Seq(FrameType) /\ Len(fr) = m BY <1>20
    <3>2. /\ fr \o <<g>> \in Seq(FrameType) /\ Len(fr \o <<g>>) = Len(fr) + 1
          /\ (fr \o <<g>>)[Len(fr) + 1] = g
          /\ \A l \in 1..Len(fr) : (fr \o <<g>>)[l] = fr[l]
      BY <3>1, <2>7, OneMore
    <3> QED BY <2>8, <3>1, <3>2
  <2>10. PICK d : d = [l \in 1..(m + 1) |-> IF l = m + 1 THEN x + 1 ELSE d0[l]] OBVIOUS
  <2>11. PICK f : f = [l \in 1..(m + 1) |-> IF l = m + 1 THEN j ELSE e[l]] OBVIOUS
  <2>12. /\ d \in [1..(m + 1) -> Nat \ {0}] /\ f \in [1..(m + 1) -> Nat \ {0}]
         /\ d[m + 1] = x + 1 /\ f[m + 1] = j /\ \A l \in 1..m : d[l] = d0[l] /\ f[l] = e[l]
    BY <1>4, <1>22, <2>10, <2>11, SMTT(30)
  <2>13. ASSUME NEW l \in 1..(m + 1)
         PROVE  /\ d[l] <= f[l] /\ f[l] <= N + 1
                /\ frames'[l] = [pos |-> off[d[l]], rem |-> off[f[l]] - off[d[l]]]
                /\ \A i \in d[l]..(f[l] - 1) : added[i].depth >= l
                /\ d[l] < f[l] => added[d[l]].depth = l
                /\ f[l] <= N => added[f[l]].depth < l
    <3>1. CASE l \in 1..m
      <4>1. d[l] = d0[l] /\ f[l] = e[l] /\ frames'[l] = fr[l] BY <2>9, <2>12, <3>1
      <4> QED BY <1>23, <3>1, <4>1
    <3>2. CASE l = m + 1
      <4>0. \A i \in 1..N : added[i].depth \in Nat
        <5> TAKE i \in 1..N
        <5>1. added[i] \in ItemType BY <1>2, ElementOfSeq
        <5> QED BY <5>1 DEF ItemType
      <4>1. \A i \in (x + 1)..(j - 1) : added[i].depth >= m + 1
        <5> TAKE i \in (x + 1)..(j - 1)
        <5>1. i \in 1..N BY <1>15
        <5> QED BY <1>15, <4>0, <5>1
      <4>2. x + 1 < j => added[x + 1].depth = m + 1
        <5> SUFFICES ASSUME x + 1 < j PROVE added[x + 1].depth = m + 1 OBVIOUS
        <5>1. x < N /\ x + 1 \in 1..N /\ x + 1 \in (x + 1)..(j - 1) BY <1>15
        <5>2. added[x + 1].depth <= m + 1 BY <1>9, <1>10, <1>26, <5>1
        <5> QED BY <4>0, <4>1, <5>1, <5>2
      <4>3. j <= N => added[j].depth < m + 1
        <5> SUFFICES ASSUME j <= N PROVE added[j].depth < m + 1 OBVIOUS
        <5>1. j \in 1..N OBVIOUS
        <5> QED BY <1>15, <4>0, <5>1
      <4> QED BY <1>15, <2>7, <2>9, <2>12, <3>2, <4>1, <4>2, <4>3
    <3> QED BY <3>1, <3>2
  <2>14. ASSUME NEW l \in 1..m PROVE d[l] = f[l + 1]
    <3>1. CASE l = m
      <4> QED BY <1>1, <1>22, <2>12, <3>1
    <3>2. CASE l < m
      <4>1. l \in 1..(m - 1) /\ l + 1 \in 1..m BY <3>2
      <4> QED BY <1>22, <1>24, <2>12, <4>1
    <3> QED BY <3>1, <3>2
  <2>15. d[m + 1] = Len(got') + 1 /\ f[1] = N + 1
    <3>1. 1 \in 1..m BY <1>1
    <3> QED BY <1>4, <1>6, <1>14, <2>12, <3>1
  <2>16. (m + 1) - 1 = m OBVIOUS
  <2>17. Reading(off, d, f)'
    <3>1. added' = added /\ Len(added') = N /\ m + 1 >= 1 BY <1>2, <1>12
    <3>2. /\ \A l \in 1..Len(frames') :
               /\ d[l] <= f[l] /\ f[l] <= Len(added') + 1
               /\ frames'[l] = [pos |-> off[d[l]], rem |-> off[f[l]] - off[d[l]]]
               /\ \A i \in d[l]..(f[l] - 1) : added'[i].depth >= l
               /\ d[l] < f[l] => added'[d[l]].depth = l
               /\ f[l] <= Len(added') => added'[f[l]].depth < l
          /\ \A l \in 1..(Len(frames') - 1) : d[l] = f[l + 1]
      BY <2>9, <2>13, <2>14, <2>16, <3>1
    <3>3. /\ frames' \in Seq(FrameType) /\ Len(frames') >= 1
          /\ d \in [1..Len(frames') -> Nat \ {0}] /\ f \in [1..Len(frames') -> Nat \ {0}]
          /\ d[Len(frames')] = Len(got') + 1 /\ f[1] = Len(added') + 1
      BY <2>9, <2>12, <2>15, <3>1
    <3> QED BY <3>2, <3>3, Zenon DEF Reading
  <2> QED BY <1>14, <2>17
<1> QED BY <1>25, <1>26

(* The empty message. *)
LEMMA BlobStart ==
  ASSUME Init
  PROVE  BlobInv
<1> SUFFICES ASSUME size = 0, stage # "none" PROVE BlobInv
  <2>1. stage = "none" => got = << >> /\ added = << >> BY DEF Init, NoBlob, BlobInit
  <2> QED BY <2>1 DEF BlobInv
<1>1. BlobInit BY DEF Init, NoBlob
<1>2. buf = [o \in {0} |-> Attr("TABLE", NoName, << >>)]
  <2>1. ~RawMessage BY BlobAssumption DEF RawMessage
  <2> QED BY <1>1, <2>1 DEF BlobInit, NewMessage
<1>3. /\ stage = "write" /\ head = << 0 >> /\ added = << >> /\ got = << >>
  BY <1>1 DEF BlobInit
<1>4. PICK a : a = Attr("TABLE", NoName, << >>) OBVIOUS
<1>5. a = [type |-> "TABLE", namelen |-> NoName, data |-> << >>, len |-> 4]
  BY <1>4 DEF Attr, DataOffset, blob_is_extended, sizeof_blob_attr
<1>6. IsAttr(a) /\ a.type = "TABLE" /\ a.namelen = NoName /\ a.len = 4
  <2>1. a \in AttrType BY <1>5 DEF AttrType, Types, Containers
  <2>2. PICK X \in Nat : X = Most * MaxAttrs BY Products, BlobAssumption
  <2> QED BY <1>5, <2>1, <2>2 DEF IsAttr
<1>7. PICK off : off = [i \in 1..1 |-> 4] OBVIOUS
<1>8. Offsets(off)
  <2>1. Len(added) = 0 /\ added \in Seq(ItemType) BY <1>3
  <2>2. DOMAIN buf = {0} BY <1>2
  <2>3. {off[i] : i \in 1..0} = {} OBVIOUS
  <2>4. off \in [1..1 -> Nat] /\ off[1] = 4 BY <1>7
  <2>5. Most * 0 = 0 BY MostFits
  <2> QED BY <2>1, <2>2, <2>3, <2>4, <2>5, BlobAssumption DEF Offsets
<1>9. Items(off) BY <1>2, <1>3, <1>4, <1>6 DEF Items
<1>10. Heads(off)
  <2>1. head \in Seq(Nat) /\ Len(head) = 1 /\ head[1] = 0 /\ Len(added) = 0 BY <1>3
  <2>2. buf[0] = a /\ off[1] = 4 BY <1>2, <1>4, <1>7
  <2> QED BY <1>6, <2>1, <2>2 DEF Heads
<1>11. Closed(off) BY <1>3 DEF Closed
<1>12. GotPrefix BY <1>3 DEF GotPrefix
<1> QED BY <1>3, <1>8, <1>9, <1>10, <1>11, <1>12 DEF BlobInv, Layout

(* Every call keeps the invariant. *)
LEMMA BlobStep ==
  ASSUME BlobInv, Next \/ UNCHANGED vars
  PROVE  BlobInv'
<1>1. CASE UNCHANGED blobVars
  <2>1. UNCHANGED <<stage, buf, head, added, size, frames, got>> BY <1>1 DEF blobVars
  <2>2. ASSUME NEW off, Layout(off) PROVE Layout(off)'
    BY <2>1, <2>2, LayoutKept
  <2>3. GotPrefix => GotPrefix' BY <2>1 DEF GotPrefix
  <2>4. ASSUME NEW off, NEW c, NEW e, Reading(off, c, e) PROVE Reading(off, c, e)'
    BY <2>1, <2>4 DEF Reading
  <2> QED BY <2>1, <2>2, <2>3, <2>4 DEF BlobInv
<1>2. CASE BlobNext
  <2>0. stage # "none" /\ stage' # "none"
    BY <1>2 DEF BlobNext, Add, Open, Close, Start, Visit, Leave, Writing
  <2> SUFFICES ASSUME size' = 0 PROVE BlobInv' BY <2>0 DEF BlobInv
  <2>1. size = 0 /\ stage # "none"
    BY <1>2, <2>0 DEF BlobNext, Add, Open, Close, Start, Visit, Leave, Writing
  <2>2. PICK off :
          /\ Layout(off) /\ GotPrefix
          /\ stage \in {"write", "read", "done"}
          /\ stage = "write" => got = << >>
          /\ stage # "write" => head = << 0 >>
          /\ stage = "read" => \E c, e : Reading(off, c, e)
          /\ stage = "done" => Len(got) = Len(added)
    BY <2>1 DEF BlobInv
  <2>3. CASE Add \/ Open \/ Close
    <3>1. stage = "write" /\ stage' = "write" /\ got' = got /\ got = << >>
      BY <2>2, <2>3 DEF Add, Open, Close, Writing
    <3>2. PICK o : Layout(o)'
      BY <2>2, <2>3, AddKeepsLayout, OpenKeepsLayout, CloseKeepsLayout
    <3>3. GotPrefix'
      <4>1. Len(added') \in Nat BY <3>2 DEF Layout, Offsets
      <4> QED BY <3>1, <4>1 DEF GotPrefix
    <3> QED BY <3>1, <3>2, <3>3 DEF BlobInv
  <2>4. CASE Start
    <3>1. /\ stage = "write" /\ stage' = "read" /\ UNCHANGED <<buf, head, added, size, got>>
      BY <2>4 DEF Start
    <3>2. (\E c, e : Reading(off, c, e))' /\ head = << 0 >>
      BY <2>1, <2>2, <2>4, <3>1, StartReads
    <3>3. Layout(off)' /\ GotPrefix' BY <2>2, <3>1, LayoutKept DEF GotPrefix
    <3> QED BY <3>1, <3>2, <3>3 DEF BlobInv
  <2>5. CASE Visit
    <3>1. stage = "read" /\ stage' = "read" /\ UNCHANGED <<buf, head, added, size>> BY <2>5 DEF Visit
    <3>2. PICK c, e : Reading(off, c, e) BY <2>2, <3>1
    <3>3. (\E d, f : Reading(off, d, f))' /\ GotPrefix'
      BY <2>1, <2>2, <2>5, <3>1, <3>2, ReadVisits
    <3>4. Layout(off)' BY <2>2, <3>1, LayoutKept
    <3> QED BY <2>2, <3>1, <3>3, <3>4 DEF BlobInv
  <2>6. CASE Leave
    <3>1. stage = "read" /\ stage' \in {"read", "done"} /\ UNCHANGED <<buf, head, added, size, got>>
      BY <2>6 DEF Leave
    <3>2. PICK c, e : Reading(off, c, e) BY <2>2, <3>1
    <3>3. /\ stage' = "read" => (\E d, f : Reading(off, d, f))'
          /\ stage' = "done" => Len(got) = Len(added)
      BY <2>1, <2>2, <2>6, <3>1, <3>2, ReadLeaves
    <3>4. Layout(off)' /\ GotPrefix' BY <2>2, <3>1, LayoutKept DEF GotPrefix
    <3> QED BY <2>2, <3>1, <3>3, <3>4 DEF BlobInv
  <2> QED BY <1>2, <2>3, <2>4, <2>5, <2>6 DEF BlobNext
<1> QED BY <1>1, <1>2 DEF Next, vars

(* Reading a message gives back what was written, attribute by attribute,   *)
(* for names and values of any length, any number of attributes and any     *)
(* nesting.                                                                 *)
THEOREM AlwaysReadsWhatWasWritten == Spec => []ReadsWhatWasWritten
<1>1. Init => BlobInv BY BlobStart
<1>2. BlobInv /\ [Next]_vars => BlobInv' BY BlobStep
<1>3. BlobInv => ReadsWhatWasWritten
  <2> SUFFICES ASSUME BlobInv, size = 0
               PROVE  IsPrefix(got, added) /\ (stage = "done" => got = added)
    BY DEF ReadsWhatWasWritten
  <2>1. CASE stage = "none"
    <3>1. got = << >> /\ added = << >> BY <2>1 DEF BlobInv
    <3> QED BY <2>1, <3>1 DEF IsPrefix
  <2>2. CASE stage # "none"
    <3>1. /\ GotPrefix /\ added \in Seq(ItemType)
          /\ stage = "done" => Len(got) = Len(added)
      BY <2>2 DEF BlobInv, Layout, Offsets
    <3>2. PICK k \in Nat : k = Len(got) BY <3>1 DEF GotPrefix
    <3>3. /\ got \in Seq(ItemType) /\ k <= Len(added)
          /\ \A i \in 1..k : got[i] = added[i] /\ got[i] \in ItemType /\ added[i] \in ItemType
      BY <3>1, <3>2, ElementOfSeq DEF GotPrefix
    <3>4. SubSeq(got, 1, k) = SubSeq(added, 1, k)
      <4>1. /\ SubSeq(got, 1, k) \in Seq(ItemType) /\ Len(SubSeq(got, 1, k)) = k
            /\ \A i \in 1..k : SubSeq(got, 1, k)[i] = got[i]
        BY <3>2, <3>3, SubSeqProperties
      <4>2. /\ SubSeq(added, 1, k) \in Seq(ItemType) /\ Len(SubSeq(added, 1, k)) = k
            /\ \A i \in 1..k : SubSeq(added, 1, k)[i] = added[i]
        BY <3>2, <3>3, SubSeqProperties
      <4> QED BY <3>3, <4>1, <4>2, SeqEqual
    <3>5. stage = "done" => got = added BY <3>1, <3>2, <3>3, SeqEqual
    <3> QED BY <3>2, <3>3, <3>4, <3>5 DEF IsPrefix
  <2> QED BY <2>1, <2>2
<1> QED BY <1>1, <1>2, <1>3, PTL DEF Spec

-----------------------------------------------------------------------------
(* Lists are rings, in both directions, and loops over them visit what was in them. *)

\* The defining equation of the function in Along.
IsStep(link, h, N, g) ==
  g = [i \in 1..N |-> IF i = 1 THEN link[h]
                      ELSE IF g[i - 1] \in {h, NULL} THEN g[i - 1] ELSE link[g[i - 1]]]

\* The parts of Along: its bound, its function and where that has ended.
AlongParts(link, h, N, step, ends) ==
  /\ N = Cardinality(DOMAIN link)
  /\ step = CHOOSE g : IsStep(link, h, N, g)
  /\ ends = {i \in 1..N : step[i] \in {h, NULL}}
  /\ Along(link, h) = [i \in 1..(IF ends = {} THEN N ELSE Min(ends) - 1) |-> step[i]]

(* Along has these parts. *)
LEMMA AlongByStep ==
  ASSUME NEW link, NEW h
  PROVE  \E N, step, ends : AlongParts(link, h, N, step, ends)
<1> DEFINE N    == Cardinality(DOMAIN link)
           step == CHOOSE g : IsStep(link, h, N, g)
           ends == {i \in 1..N : step[i] \in {h, NULL}}
<1>1. Along(link, h) = [i \in 1..(IF ends = {} THEN N ELSE Min(ends) - 1) |-> step[i]]
  BY DEF Along, IsStep
<1>2. AlongParts(link, h, N, step, ends) BY <1>1 DEF AlongParts
<1> HIDE DEF N, step, ends
<1> QED BY <1>2

(* Following the links of a ring gives its entries. *)
LEMMA AlongIs ==
  ASSUME NEW S, IsFiniteSet(S), NULL \notin S, NEW h \in S, NEW link, DOMAIN link = S,
         NEW q \in Seq(S \ {h}), Distinct(q),
         \A i \in 0..Len(q) : link[Spot(h, q, i)] = Spot(h, q, i + 1)
  PROVE  Along(link, h) = q
<1>0. PICK M, step, ends : AlongParts(link, h, M, step, ends) BY AlongByStep
<1>1. PICK N \in Nat : N = M /\ N = Cardinality(S)
  BY <1>0, FS_CardinalityType DEF AlongParts
<1>2. PICK L \in Nat : L = Len(q) OBVIOUS
<1>3. L < N
  <2>1. IsFiniteSet(S \ {h}) /\ Cardinality(S \ {h}) = N - 1 BY <1>1, FS_RemoveElement
  <2>2. L <= Cardinality(S \ {h}) BY <1>2, <2>1, NoRepetition
  <2> QED BY <1>1, <2>1, <2>2
<1>4. PICK w : w = [i \in 1..N |-> Spot(h, q, i)] OBVIOUS
<1>5. \A i \in 1..L : q[i] \in S /\ q[i] # h /\ q[i] # NULL
  <2> TAKE i \in 1..L
  <2>1. q[i] \in S \ {h} BY <1>2, ElementOfSeq
  <2> QED BY <2>1
<1>6. \A i \in 1..N : w[i] = IF i <= L THEN q[i] ELSE h BY <1>2, <1>4 DEF Spot
<1>7. ASSUME NEW i \in 1..N
      PROVE  w[i] = IF i = 1 THEN link[h]
                    ELSE IF w[i - 1] \in {h, NULL} THEN w[i - 1] ELSE link[w[i - 1]]
  <2>1. \A j \in 0..L : link[Spot(h, q, j)] = Spot(h, q, j + 1) BY <1>2
  <2>2. CASE i = 1
    <3>1. link[Spot(h, q, 0)] = Spot(h, q, 0 + 1) BY <1>2, <2>1
    <3>2. Spot(h, q, 0) = h BY <1>2 DEF Spot
    <3> QED BY <1>4, <2>2, <3>1, <3>2
  <2>3. CASE i # 1 /\ i - 1 <= L
    <3>1. i - 1 \in 1..L /\ i - 1 \in 1..N BY <1>3, <2>3
    <3>2. w[i - 1] = q[i - 1] BY <1>6, <3>1
    <3>3. Spot(h, q, i - 1) = q[i - 1] BY <1>2, <3>1 DEF Spot
    <3>4. link[q[i - 1]] = Spot(h, q, (i - 1) + 1) BY <2>1, <3>1, <3>3
    <3>5. (i - 1) + 1 = i OBVIOUS
    <3> QED BY <1>4, <1>5, <2>3, <3>1, <3>2, <3>4, <3>5
  <2>4. CASE i # 1 /\ ~(i - 1 <= L)
    <3>1. i - 1 \in 1..N /\ ~(i <= L) BY <2>4
    <3> QED BY <1>6, <2>4, <3>1
  <2> QED BY <2>2, <2>3, <2>4
<1>8. IsStep(link, h, N, w)
  <2>1. w = [i \in 1..N |-> IF i = 1 THEN link[h]
                            ELSE IF w[i - 1] \in {h, NULL} THEN w[i - 1] ELSE link[w[i - 1]]]
    BY <1>4, <1>7
  <2> QED BY <2>1 DEF IsStep
<1>9. step = CHOOSE g : IsStep(link, h, N, g) BY <1>0, <1>1 DEF AlongParts
<1>10. IsStep(link, h, N, step) BY <1>8, <1>9
<1>11. \A i \in 1..N : step[i] = IF i = 1 THEN link[h]
                    ELSE IF step[i - 1] \in {h, NULL} THEN step[i - 1] ELSE link[step[i - 1]]
  BY <1>10 DEF IsStep
<1>12. \A i \in 1..N : step[i] = w[i]
  <2> DEFINE T == {i \in Nat : i + 1 \in 1..N => step[i + 1] = w[i + 1]}
  <2>1. 0 \in T BY <1>7, <1>11
  <2>2. ASSUME NEW i \in Nat, i \in T PROVE i + 1 \in T
    <3> SUFFICES ASSUME (i + 1) + 1 \in 1..N PROVE step[(i + 1) + 1] = w[(i + 1) + 1] OBVIOUS
    <3>1. PICK k \in 1..N : k = (i + 1) + 1 OBVIOUS
    <3>2. k # 1 /\ k - 1 = i + 1 /\ i + 1 \in 1..N BY <3>1
    <3>3. step[k - 1] = w[k - 1] BY <2>2, <3>2
    <3> QED BY <1>7, <1>11, <3>1, <3>2, <3>3
  <2> HIDE DEF T
  <2>3. Nat \subseteq T BY <2>1, <2>2, NatSetInduction
  <2>4. ASSUME NEW i \in 1..N PROVE step[i] = w[i]
    <3>1. i - 1 \in Nat /\ (i - 1) + 1 = i OBVIOUS
    <3>2. i - 1 \in T BY <2>3, <3>1
    <3> QED BY <3>1, <3>2 DEF T
  <2> QED BY <2>4
<1>13. ends = {i \in 1..N : step[i] \in {h, NULL}} BY <1>0, <1>1 DEF AlongParts
<1>14. ASSUME NEW i \in 1..N PROVE i \in ends <=> L < i
  <2>1. CASE i <= L
    <3>1. step[i] = q[i] /\ q[i] # h /\ q[i] # NULL BY <1>5, <1>6, <1>12, <2>1
    <3> QED BY <1>13, <2>1, <3>1
  <2>2. CASE L < i
    <3>1. step[i] = h BY <1>6, <1>12, <2>2
    <3> QED BY <1>13, <2>2, <3>1
  <2> QED BY <2>1, <2>2
<1>15. ends # {} /\ Min(ends) = L + 1
  <2>1. L + 1 \in 1..N /\ ends \subseteq 1..N BY <1>3, <1>13
  <2>2. L + 1 \in ends BY <1>14, <2>1
  <2>3. \A x \in ends : L + 1 <= x BY <1>14, <2>1
  <2>4. ends \in SUBSET Nat BY <2>1
  <2>5. Min(ends) \in ends /\ Min(ends) <= L + 1 BY <2>2, <2>4, MinIsLeast
  <2>6. PICK x \in Nat : x = Min(ends) BY <2>4, <2>5
  <2>7. x <= L + 1 /\ L + 1 <= x BY <2>3, <2>5, <2>6
  <2>8. x = L + 1 BY <2>7
  <2> QED BY <2>2, <2>6, <2>8
<1>16. Along(link, h) = [i \in 1..(IF ends = {} THEN N ELSE Min(ends) - 1) |-> step[i]]
  BY <1>0, <1>1 DEF AlongParts
<1>17. Along(link, h) = [i \in 1..L |-> step[i]] BY <1>15, <1>16
<1>18. q = [i \in 1..L |-> q[i]] BY <1>2
<1>19. \A i \in 1..L : step[i] = q[i] BY <1>3, <1>6, <1>12
<1> QED BY <1>17, <1>18, <1>19

\* No sequence has e.
Absent(H, q, e) == \A h \in H : \A i \in 1..Len(q[h]) : q[h][i] # e

\* A heap for the heads H and the entries E.
Links(H, E) == [H \cup E -> H \cup E \cup {NULL}]

\* The heads U have rings with the entries q; the other heads still point
\* at an entry; an entry in no ring is zero or points at itself.
Rings(hp, H, E, U, q) ==
  /\ IsFiniteSet(H \cup E) /\ H \cap E = {} /\ NULL \notin H \cup E
  /\ hp \in [next : Links(H, E), prev : Links(H, E)]
  /\ U \subseteq H /\ q \in [H -> Seq(E)]
  /\ \A h \in U : \A i \in 0..Len(q[h]) :
       /\ hp.next[Spot(h, q[h], i)] = Spot(h, q[h], i + 1)
       /\ hp.prev[Spot(h, q[h], i + 1)] = Spot(h, q[h], i)
  /\ \A h \in H \ U : q[h] = << >> /\ hp.next[h] \in E
  /\ \A g, h \in H : \A i \in 1..Len(q[g]), j \in 1..Len(q[h]) : q[g][i] = q[h][j] => g = h /\ i = j
  /\ \A e \in E : Absent(H, q, e) => hp.next[e] = hp.prev[e] /\ hp.next[e] \in {NULL, e}

-----------------------------------------------------------------------------
(* Nodes of rings are different, except the head at both ends. *)
LEMMA SpotsDiffer ==
  ASSUME NEW hp, NEW H, NEW E, NEW U, NEW q, Rings(hp, H, E, U, q),
         NEW g \in H, NEW h \in H, NEW i \in 0..Len(q[g]), NEW j \in 0..Len(q[h]),
         Spot(g, q[g], i) = Spot(h, q[h], j)
  PROVE  g = h /\ i = j
<1>1. Len(q[g]) \in Nat /\ Len(q[h]) \in Nat /\ q[g] \in Seq(E) /\ q[h] \in Seq(E) BY DEF Rings
<1>2. H \cap E = {} BY DEF Rings
<1>3. i # 0 => i \in 1..Len(q[g]) /\ q[g][i] \in E /\ Spot(g, q[g], i) = q[g][i]
  <2> SUFFICES ASSUME i # 0 PROVE i \in 1..Len(q[g]) /\ q[g][i] \in E /\ Spot(g, q[g], i) = q[g][i] OBVIOUS
  <2>1. i \in 1..Len(q[g]) BY <1>1
  <2> QED BY <1>1, <2>1, ElementOfSeq DEF Spot
<1>4. j # 0 => j \in 1..Len(q[h]) /\ q[h][j] \in E /\ Spot(h, q[h], j) = q[h][j]
  <2> SUFFICES ASSUME j # 0 PROVE j \in 1..Len(q[h]) /\ q[h][j] \in E /\ Spot(h, q[h], j) = q[h][j] OBVIOUS
  <2>1. j \in 1..Len(q[h]) BY <1>1
  <2> QED BY <1>1, <2>1, ElementOfSeq DEF Spot
<1>5. i = 0 => Spot(g, q[g], i) = g BY DEF Spot
<1>6. j = 0 => Spot(h, q[h], j) = h BY DEF Spot
<1>7. CASE i = 0 /\ j = 0 BY <1>5, <1>6, <1>7
<1>8. CASE i = 0 /\ j # 0 BY <1>2, <1>4, <1>5, <1>8
<1>9. CASE i # 0 /\ j = 0 BY <1>2, <1>3, <1>6, <1>9
<1>10. CASE i # 0 /\ j # 0
  <2>1. q[g][i] = q[h][j] /\ i \in 1..Len(q[g]) /\ j \in 1..Len(q[h]) BY <1>3, <1>4, <1>10
  <2> QED BY <2>1 DEF Rings
<1> QED BY <1>7, <1>8, <1>9, <1>10

(* A node of a ring is the head or one of its entries. *)
LEMMA SpotTypes ==
  ASSUME NEW hp, NEW H, NEW E, NEW U, NEW q, Rings(hp, H, E, U, q), NEW h \in H, NEW i \in Int
  PROVE  /\ Spot(h, q[h], i) \in H \cup E
         /\ i \in 1..Len(q[h]) => Spot(h, q[h], i) = q[h][i] /\ q[h][i] \in E
         /\ i \notin 1..Len(q[h]) => Spot(h, q[h], i) = h
         /\ Len(q[h]) \in Nat /\ q[h] \in Seq(E) /\ Distinct(q[h])
<1>1. q[h] \in Seq(E) /\ Len(q[h]) \in Nat BY DEF Rings
<1>2. i \in 1..Len(q[h]) => q[h][i] \in E BY <1>1, ElementOfSeq
<1>3. Distinct(q[h]) BY DEF Rings, Distinct
<1> QED BY <1>1, <1>2, <1>3 DEF Spot

(* Which heads are rings, and what a reader sees of them. *)
LEMMA RingsAreUsable ==
  ASSUME NEW hp, NEW H, NEW E, NEW U, NEW q, Rings(hp, H, E, U, q), NEW h \in H
  PROVE  IsRing(hp, h) <=> h \in U
<1>1. CASE h \in U
  <2>1. PICK n \in Nat : n = Len(q[h]) BY SpotTypes
  <2>2. hp.next[Spot(h, q[h], 0)] = Spot(h, q[h], 0 + 1) /\ hp.prev[Spot(h, q[h], 0 + 1)] = Spot(h, q[h], 0)
    <3>1. 0 \in 0..Len(q[h]) BY <2>1
    <3> QED BY <1>1, <3>1 DEF Rings
  <2>3. hp.next[Spot(h, q[h], n)] = Spot(h, q[h], n + 1) /\ hp.prev[Spot(h, q[h], n + 1)] = Spot(h, q[h], n)
    <3>1. n \in 0..Len(q[h]) BY <2>1
    <3> QED BY <1>1, <3>1 DEF Rings
  <2>4. Spot(h, q[h], 0) = h /\ Spot(h, q[h], n + 1) = h BY <2>1 DEF Spot
  <2>5. Spot(h, q[h], 0 + 1) \in H \cup E /\ Spot(h, q[h], n) \in H \cup E BY <2>1, SpotTypes
  <2>6. NULL \notin H \cup E BY DEF Rings
  <2> QED BY <1>1, <2>2, <2>3, <2>4, <2>5, <2>6 DEF IsRing
<1>2. CASE h \notin U
  <2>1. PICK e \in E : e = hp.next[h] BY <1>2 DEF Rings
  <2>2. hp.prev[e] # h
    <3>1. CASE Absent(H, q, e)
      <4>1. hp.prev[e] \in {NULL, e} BY <2>1, <3>1 DEF Rings
      <4>2. NULL \notin H \cup E /\ H \cap E = {} BY DEF Rings
      <4> QED BY <2>1, <4>1, <4>2
    <3>2. CASE ~Absent(H, q, e)
      <4>1. PICK g \in H : \E i \in 1..Len(q[g]) : q[g][i] = e BY <3>2 DEF Absent
      <4>11. PICK i \in 1..Len(q[g]) : q[g][i] = e BY <4>1
      <4>2. g \in U
        <5> SUFFICES ASSUME g \notin U PROVE FALSE OBVIOUS
        <5>1. q[g] = << >> BY DEF Rings
        <5> QED BY <4>11, <5>1
      <4>3. Len(q[g]) \in Nat BY SpotTypes
      <4>4. i - 1 \in 0..Len(q[g]) /\ (i - 1) + 1 = i BY <4>11, <4>3
      <4>5. hp.prev[Spot(g, q[g], i)] = Spot(g, q[g], i - 1) BY <4>2, <4>4 DEF Rings
      <4>6. Spot(g, q[g], i) = e BY <4>11 DEF Spot
      <4>7. Spot(g, q[g], i - 1) # h
        <5>1. Spot(h, q[h], 0) = h BY DEF Spot
        <5>2. 0 \in 0..Len(q[h]) BY SpotTypes
        <5>3. g # h BY <1>2, <4>2
        <5> QED BY <4>4, <5>1, <5>2, <5>3, SpotsDiffer
      <4> QED BY <4>5, <4>6, <4>7
    <3> QED BY <3>1, <3>2
  <2> QED BY <1>2, <2>1, <2>2 DEF IsRing
<1> QED BY <1>1, <1>2

\* Node i of the one ring is node i from the end of the other.
Mirrored(h, s, b) == \A i \in 0..(Len(s) + 1) : Spot(h, b, i) = Spot(h, s, Len(s) + 1 - i)

(* Backwards turns the nodes around. *)
LEMMA BackwardSpots ==
  ASSUME NEW h, NEW E, NEW s \in Seq(E)
  PROVE  /\ Backwards(s) \in Seq(E) /\ Len(Backwards(s)) = Len(s)
         /\ Mirrored(h, s, Backwards(s))
         /\ Distinct(s) => Distinct(Backwards(s))
<1>1. PICK n \in Nat : n = Len(s) OBVIOUS
<1>2. Backwards(s) = [k \in 1..n |-> s[n + 1 - k]] BY <1>1 DEF Backwards
<1>3. \A k \in 1..n : n + 1 - k \in 1..n /\ s[n + 1 - k] \in E
  <2> TAKE k \in 1..n
  <2>1. n + 1 - k \in 1..n BY <1>1
  <2> QED BY <1>1, <2>1, ElementOfSeq
<1>4. Backwards(s) \in Seq(E) /\ Len(Backwards(s)) = n BY <1>2, <1>3
<1>5. ASSUME NEW i \in 0..(n + 1) PROVE Spot(h, Backwards(s), i) = Spot(h, s, n + 1 - i)
  <2>1. CASE i \in 1..n BY <1>1, <1>2, <1>3, <1>4, <2>1 DEF Spot
  <2>2. CASE i \notin 1..n
    <3>1. n + 1 - i \notin 1..n BY <1>1, <2>2
    <3> QED BY <1>1, <1>4, <2>2, <3>1 DEF Spot
  <2> QED BY <2>1, <2>2
<1>6. ASSUME Distinct(s), NEW k \in 1..n, NEW l \in 1..n, Backwards(s)[k] = Backwards(s)[l] PROVE k = l
  <2>1. s[n + 1 - k] = s[n + 1 - l] /\ n + 1 - k \in 1..n /\ n + 1 - l \in 1..n BY <1>2, <1>3, <1>6
  <2>2. n + 1 - k = n + 1 - l BY <1>1, <1>6, <2>1 DEF Distinct
  <2> QED BY <2>2
<1>7. Distinct(s) => Distinct(Backwards(s)) BY <1>4, <1>6 DEF Distinct
<1>8. Mirrored(h, s, Backwards(s)) BY <1>1, <1>5 DEF Mirrored
<1> QED BY <1>1, <1>4, <1>7, <1>8

(* Following the links of a usable head gives its entries. *)
LEMMA RingsAreFollowed ==
  ASSUME NEW hp, NEW H, NEW E, NEW U, NEW q, Rings(hp, H, E, U, q), NEW h \in U
  PROVE  Along(hp.next, h) = q[h] /\ Along(hp.prev, h) = Backwards(q[h])
<1>1. /\ IsFiniteSet(H \cup E) /\ NULL \notin H \cup E /\ h \in H /\ h \in H \cup E
      /\ DOMAIN hp.next = H \cup E /\ DOMAIN hp.prev = H \cup E
  BY DEF Rings, Links
<1>2. q[h] \in Seq(E) /\ Distinct(q[h]) /\ Len(q[h]) \in Nat BY <1>1, SpotTypes
<1>3. E \subseteq (H \cup E) \ {h} BY <1>1 DEF Rings
<1>4. q[h] \in Seq((H \cup E) \ {h})
  <2>1. \A i \in 1..Len(q[h]) : q[h][i] \in (H \cup E) \ {h} BY <1>2, <1>3, ElementOfSeq
  <2> QED BY <1>2, <2>1
<1>5. \A i \in 0..Len(q[h]) : hp.next[Spot(h, q[h], i)] = Spot(h, q[h], i + 1) BY DEF Rings
<1>6. Along(hp.next, h) = q[h] BY <1>1, <1>2, <1>4, <1>5, AlongIs
<1>7. PICK b : b = Backwards(q[h]) OBVIOUS
<1>8. b \in Seq((H \cup E) \ {h}) /\ Len(b) = Len(q[h]) /\ Distinct(b)
  BY <1>2, <1>4, <1>7, BackwardSpots
<1>9. ASSUME NEW i \in 0..Len(b) PROVE hp.prev[Spot(h, b, i)] = Spot(h, b, i + 1)
  <2>1. PICK n \in Nat : n = Len(q[h]) BY <1>2
  <2>2. i \in 0..(n + 1) /\ i + 1 \in 0..(n + 1) /\ n - i \in 0..n /\ i \in Int BY <1>8, <2>1
  <2>3. Spot(h, b, i) = Spot(h, q[h], n + 1 - i) /\ Spot(h, b, i + 1) = Spot(h, q[h], n + 1 - (i + 1))
    <3>1. Mirrored(h, q[h], b) BY <1>2, <1>7, BackwardSpots
    <3> QED BY <2>1, <2>2, <3>1 DEF Mirrored
  <2>4. n + 1 - i = (n - i) + 1 /\ n + 1 - (i + 1) = n - i
    <3>1. \A k, l \in Int : k + 1 - l = (k - l) + 1 /\ k + 1 - (l + 1) = k - l OBVIOUS
    <3>2. n \in Int /\ i \in Int BY <2>2
    <3> HIDE <1>9
    <3> QED BY <3>1, <3>2, Zenon
  <2>5. hp.prev[Spot(h, q[h], (n - i) + 1)] = Spot(h, q[h], n - i) BY <2>1, <2>2 DEF Rings
  <2> QED BY <2>3, <2>4, <2>5
<1>10. Along(hp.prev, h) = b BY <1>1, <1>8, <1>9, AlongIs
<1> QED BY <1>6, <1>7, <1>10

(* The same nodes, counted from 1. *)
LEMMA SpotsBehindDiffer ==
  ASSUME NEW hp, NEW H, NEW E, NEW U, NEW q, Rings(hp, H, E, U, q),
         NEW g \in H, NEW h \in H, NEW i \in 1..(Len(q[g]) + 1), NEW j \in 1..(Len(q[h]) + 1),
         Spot(g, q[g], i) = Spot(h, q[h], j)
  PROVE  g = h /\ i = j
<1>1. PICK m \in Nat, n \in Nat : m = Len(q[g]) /\ n = Len(q[h]) BY SpotTypes
<1>2. PICK a \in 0..m : a = IF i = m + 1 THEN 0 ELSE i BY <1>1
<1>3. PICK b \in 0..n : b = IF j = n + 1 THEN 0 ELSE j BY <1>1
<1>4. Spot(g, q[g], a) = Spot(g, q[g], i) BY <1>1, <1>2 DEF Spot
<1>5. Spot(h, q[h], b) = Spot(h, q[h], j) BY <1>1, <1>3 DEF Spot
<1>6. g = h /\ a = b BY <1>1, <1>4, <1>5, SpotsDiffer
<1> QED BY <1>1, <1>2, <1>3, <1>6

\* The links of hp2 are those of hp, with e between the nodes p and x.
IsLinked(S, T, hp, hp2, e, p, x) ==
  /\ hp2 \in [next : [S -> T], prev : [S -> T]]
  /\ \A z \in S : /\ hp2.next[z] = IF z = p THEN e ELSE IF z = e THEN x ELSE hp.next[z]
                  /\ hp2.prev[z] = IF z = x THEN e ELSE IF z = e THEN p ELSE hp.prev[z]

(* One pointer is assigned. *)
LEMMA SetNext ==
  ASSUME NEW nx, NEW pv, NEW x, NEW y
  PROVE  [[next |-> nx, prev |-> pv] EXCEPT !.next[x] = y] = [next |-> [nx EXCEPT ![x] = y], prev |-> pv]
OBVIOUS

(* And so is its other pointer. *)
LEMMA SetPrev ==
  ASSUME NEW nx, NEW pv, NEW x, NEW y
  PROVE  [[next |-> nx, prev |-> pv] EXCEPT !.prev[x] = y] = [next |-> nx, prev |-> [pv EXCEPT ![x] = y]]
OBVIOUS

(* What _list_add leaves. *)
LEMMA LinkedIs ==
  ASSUME NEW S, NEW T, NEW hp \in [next : [S -> T], prev : [S -> T]],
         NEW e \in S, NEW p \in S, NEW x \in S, S \subseteq T, e # p, e # x
  PROVE  IsLinked(S, T, hp, Linked(hp, e, p, x), e, p, x)
<1>1. PICK nx, pv : nx = hp.next /\ pv = hp.prev OBVIOUS
<1>2. hp = [next |-> nx, prev |-> pv] /\ nx \in [S -> T] /\ pv \in [S -> T] BY <1>1
<1>3. PICK nx2, pv2 : nx2 = [nx EXCEPT ![e] = x, ![p] = e] /\ pv2 = [pv EXCEPT ![x] = e, ![e] = p] OBVIOUS
<1>4. Linked(hp, e, p, x) = [next |-> nx2, prev |-> pv2]
  <2>11. PICK r1 : r1 = [hp EXCEPT !.prev[x] = e] OBVIOUS
  <2>12. PICK r2 : r2 = [r1 EXCEPT !.next[e] = x] OBVIOUS
  <2>13. PICK r3 : r3 = [r2 EXCEPT !.prev[e] = p] OBVIOUS
  <2>14. PICK r4 : r4 = [r3 EXCEPT !.next[p] = e] OBVIOUS
  <2>2. Linked(hp, e, p, x) = r4 BY <2>11, <2>12, <2>13, <2>14, Zenon DEF Linked
  <2>3. PICK nx1, pv1 : nx1 = [nx EXCEPT ![e] = x] /\ pv1 = [pv EXCEPT ![x] = e] OBVIOUS
  <2>4. nx2 = [nx1 EXCEPT ![p] = e] /\ pv2 = [pv1 EXCEPT ![e] = p] BY <1>3, <2>3, Zenon
  <2>5. r1 = [next |-> nx, prev |-> pv1] BY <1>2, <2>11, <2>3, SetPrev, Zenon
  <2>6. r2 = [next |-> nx1, prev |-> pv1] BY <2>12, <2>3, <2>5, SetNext
  <2>7. r3 = [next |-> nx1, prev |-> pv2] BY <2>13, <2>4, <2>6, SetPrev
  <2>8. r4 = [next |-> nx2, prev |-> pv2] BY <2>14, <2>4, <2>7, SetNext
  <2> QED BY <2>2, <2>8
<1>5. nx2 \in [S -> T] /\ pv2 \in [S -> T] BY <1>2, <1>3
<1>6. \A z \in S : /\ nx2[z] = IF z = p THEN e ELSE IF z = e THEN x ELSE nx[z]
                   /\ pv2[z] = IF z = x THEN e ELSE IF z = e THEN p ELSE pv[z]
  BY <1>2, <1>3
<1> QED BY <1>1, <1>4, <1>5, <1>6 DEF IsLinked

(* list_add, list_add_tail and avl_insert put a free entry between two      *)
(* neighbours of a ring.                                                    *)
LEMMA RingsLink ==
  ASSUME NEW hp, NEW H, NEW E, NEW U, NEW q, Rings(hp, H, E, U, q),
         NEW h \in U, NEW k \in 0..Len(q[h]), NEW e \in E, Absent(H, q, e)
  PROVE  Rings(Linked(hp, e, Spot(h, q[h], k), Spot(h, q[h], k + 1)), H, E, U, [q EXCEPT ![h] = Ins(q[h], k, e)])
<1>1. PICK s \in Seq(E), n \in Nat : s = q[h] /\ n = Len(s)
  <2>1. h \in H BY DEF Rings
  <2> QED BY <2>1, SpotTypes
<1>2. PICK S, T : S = H \cup E /\ T = S \cup {NULL} OBVIOUS
<1>3. PICK p \in S, x \in S : p = Spot(h, s, k) /\ x = Spot(h, s, k + 1)
  <2>1. h \in H /\ k \in Int /\ k + 1 \in Int BY DEF Rings
  <2> QED BY <1>1, <1>2, <2>1, SpotTypes
<1>4. /\ U \subseteq H /\ h \in H /\ H \cap E = {} /\ q \in [H -> Seq(E)] /\ S \subseteq T /\ e \in S
      /\ hp \in [next : [S -> T], prev : [S -> T]]
  BY <1>2 DEF Rings, Links
<1>5. \A g \in H, i \in Int : Spot(g, q[g], i) # e
  <2> TAKE g \in H, i \in Int
  <2>1. CASE i \in 1..Len(q[g]) BY <2>1, SpotTypes DEF Absent
  <2>2. CASE i \notin 1..Len(q[g]) BY <1>4, <2>2, SpotTypes
  <2> QED BY <2>1, <2>2
<1>6. e # p /\ e # x /\ k + 1 \in Int BY <1>1, <1>3, <1>4, <1>5
<1>7. PICK hp2 : hp2 = Linked(hp, e, p, x) OBVIOUS
<1>8. /\ hp2 \in [next : [S -> T], prev : [S -> T]]
      /\ \A z \in S : /\ hp2.next[z] = IF z = p THEN e ELSE IF z = e THEN x ELSE hp.next[z]
                      /\ hp2.prev[z] = IF z = x THEN e ELSE IF z = e THEN p ELSE hp.prev[z]
  <2>1. p \in S /\ x \in S BY <1>3
  <2>2. IsLinked(S, T, hp, Linked(hp, e, p, x), e, p, x) BY <1>4, <1>6, <2>1, LinkedIs
  <2> QED BY <1>7, <2>2 DEF IsLinked
<1>9. PICK r : r = Ins(s, k, e) OBVIOUS
<1>10. /\ r \in Seq(E) /\ Len(r) = n + 1
       /\ \A i \in 0..(n + 2) : Spot(h, r, i) = IF i <= k THEN Spot(h, s, i) ELSE IF i = k + 1 THEN e ELSE Spot(h, s, i - 1)
  <2>1. MayInsert(E, s, k, e, n) BY <1>1 DEF MayInsert
  <2>2. Ins(s, k, e) \in Seq(E) /\ Len(Ins(s, k, e)) = n + 1 /\ Inserted1(h, s, k, e, Ins(s, k, e))
    BY <2>1, InsSpots
  <2> QED BY <1>1, <1>9, <2>2 DEF Inserted1
<1>11. PICK q2 : q2 = [q EXCEPT ![h] = r] OBVIOUS
<1>12. q2 \in [H -> Seq(E)] /\ q2[h] = r /\ \A g \in H : g # h => q2[g] = q[g] BY <1>4, <1>10, <1>11
<1>13. \A g \in H, i \in Int : Spot(g, q[g], i) \in S BY <1>2, SpotTypes
<1>14. ASSUME NEW g \in U, NEW i \in 0..Len(q2[g])
       PROVE  /\ hp2.next[Spot(g, q2[g], i)] = Spot(g, q2[g], i + 1)
              /\ hp2.prev[Spot(g, q2[g], i + 1)] = Spot(g, q2[g], i)
  <2>0. g \in H BY <1>4
  <2>1. CASE g # h
    <3>1. q2[g] = q[g] /\ i \in 0..Len(q[g]) /\ Len(q[g]) \in Nat BY <1>12, <1>14, <2>0, <2>1, SpotTypes
    <3>2. Spot(g, q[g], i) # p
      <4>1. k \in 0..Len(q[h]) /\ p = Spot(h, q[h], k) BY <1>1, <1>3
      <4> QED BY <1>4, <2>0, <2>1, <3>1, <4>1, SpotsDiffer
    <3>3. Spot(g, q[g], i + 1) # x
      <4>1. k + 1 \in 1..(Len(q[h]) + 1) /\ x = Spot(h, q[h], k + 1) /\ i + 1 \in 1..(Len(q[g]) + 1)
        BY <1>1, <1>3, <3>1
      <4>2. Spot(g, q[g], i + 1) = Spot(h, q[h], k + 1) => g = h
        BY <1>4, <2>0, <4>1, SpotsBehindDiffer
      <4> QED BY <2>1, <4>1, <4>2
    <3>4. i \in Int /\ i + 1 \in Int BY <3>1
    <3>5. Spot(g, q[g], i) \in S /\ Spot(g, q[g], i) # e /\ Spot(g, q[g], i + 1) \in S /\ Spot(g, q[g], i + 1) # e
      BY <1>5, <1>13, <2>0, <3>4
    <3>6. hp.next[Spot(g, q[g], i)] = Spot(g, q[g], i + 1) /\ hp.prev[Spot(g, q[g], i + 1)] = Spot(g, q[g], i)
      BY <3>1 DEF Rings
    <3> QED BY <1>8, <3>1, <3>2, <3>3, <3>5, <3>6
  <2>2. CASE g = h
    <3>1. q2[g] = r /\ i \in 0..(n + 1) BY <1>10, <1>12, <2>2
    <3>2. \A j \in 0..n : /\ hp.next[Spot(h, s, j)] = Spot(h, s, j + 1)
                          /\ hp.prev[Spot(h, s, j + 1)] = Spot(h, s, j)
      BY <1>1 DEF Rings
    <3>3. \A j \in 0..n : j # k => Spot(h, s, j) # p
      BY <1>1, <1>3, <1>4, SpotsDiffer
    <3>4. \A j \in 1..(n + 1) : j # k + 1 => Spot(h, s, j) # x
      <4>1. k + 1 \in 1..(Len(q[h]) + 1) BY <1>1
      <4> QED BY <1>1, <1>3, <1>4, <4>1, SpotsBehindDiffer
    <3>5. \A j \in Int : Spot(h, s, j) \in S /\ Spot(h, s, j) # e BY <1>1, <1>4, <1>5, <1>13
    <3>6. CASE i + 1 <= k
      <4>1. i \in 0..n /\ i # k /\ i + 1 \in 1..(n + 1) /\ i + 1 # k + 1 /\ i \in Int /\ i + 1 \in Int BY <1>1, <3>1, <3>6
      <4>2. Spot(h, r, i) = Spot(h, s, i) /\ Spot(h, r, i + 1) = Spot(h, s, i + 1) BY <1>10, <3>6, <4>1
      <4>3. hp2.next[Spot(h, s, i)] = hp.next[Spot(h, s, i)] BY <1>8, <3>3, <3>5, <4>1
      <4>4. hp2.prev[Spot(h, s, i + 1)] = hp.prev[Spot(h, s, i + 1)] BY <1>8, <3>4, <3>5, <4>1
      <4> QED BY <2>2, <3>1, <3>2, <4>1, <4>2, <4>3, <4>4
    <3>7. CASE i = k
      <4>1. Spot(h, r, i) = p /\ Spot(h, r, i + 1) = e BY <1>1, <1>3, <1>10, <3>7
      <4> QED BY <1>4, <1>6, <1>8, <2>2, <3>1, <4>1
    <3>8. CASE i = k + 1
      <4>1. Spot(h, r, i) = e /\ Spot(h, r, i + 1) = x BY <1>1, <1>3, <1>10, <3>8
      <4> QED BY <1>4, <1>6, <1>8, <2>2, <3>1, <4>1
    <3>9. CASE i > k + 1
      <4>1. /\ i - 1 \in 0..n /\ i - 1 # k /\ (i - 1) + 1 = i /\ i \in 1..(n + 1) /\ i # k + 1 /\ i \in Int /\ i - 1 \in Int
            /\ (i + 1) - 1 = i
        BY <1>1, <3>1, <3>9
      <4>2. Spot(h, r, i) = Spot(h, s, i - 1) /\ Spot(h, r, i + 1) = Spot(h, s, i) BY <1>10, <3>1, <3>9, <4>1
      <4>3. hp2.next[Spot(h, s, i - 1)] = hp.next[Spot(h, s, i - 1)] BY <1>8, <3>3, <3>5, <4>1
      <4>4. hp2.prev[Spot(h, s, i)] = hp.prev[Spot(h, s, i)] BY <1>8, <3>4, <3>5, <4>1
      <4> QED BY <2>2, <3>1, <3>2, <4>1, <4>2, <4>3, <4>4
    <3> QED BY <3>1, <3>6, <3>7, <3>8, <3>9
  <2> QED BY <2>1, <2>2
<1>15. ASSUME NEW g \in H \ U PROVE q2[g] = << >> /\ hp2.next[g] \in E
  <2>1. g # h /\ q[g] = << >> /\ hp.next[g] \in E /\ g \in S /\ g # e BY <1>2, <1>4 DEF Rings
  <2>2. p \in E \cup {h}
    <3>1. k \in Int /\ h \in H BY <1>4
    <3> QED BY <1>1, <1>3, <3>1, SpotTypes
  <2>3. g # p BY <1>4, <2>1, <2>2
  <2> QED BY <1>8, <1>12, <2>1, <2>3
<1>16. \A i \in 1..(n + 1) : r[i] = IF i <= k THEN s[i] ELSE IF i = k + 1 THEN e ELSE s[i - 1]
  BY <1>1, <1>9 DEF Ins
<1>17. ASSUME NEW f \in H, NEW g \in H, NEW i \in 1..Len(q2[f]), NEW j \in 1..Len(q2[g]), q2[f][i] = q2[g][j]
       PROVE  f = g /\ i = j
  <2>1. \A d \in H : \A l \in 1..Len(q2[d]) :
          (d = h /\ l = k + 1 /\ q2[d][l] = e)
          \/ \E m \in 1..Len(q[d]) : q2[d][l] = q[d][m] /\ m = IF d = h /\ l > k THEN l - 1 ELSE l
    <3> TAKE d \in H
    <3> TAKE l \in 1..Len(q2[d])
    <3>1. CASE d # h BY <1>12, <3>1
    <3>2. CASE d = h
      <4>1. q2[d] = r /\ l \in 1..(n + 1) BY <1>10, <1>12, <3>2
      <4>2. CASE l <= k
        <5>1. l \in 1..Len(q[d]) /\ r[l] = q[d][l] BY <1>1, <1>16, <3>2, <4>1, <4>2
        <5> QED BY <4>1, <4>2, <5>1
      <4>3. CASE l = k + 1 BY <1>16, <3>2, <4>1, <4>3
      <4>4. CASE l > k + 1
        <5>1. l - 1 \in 1..Len(q[d]) /\ r[l] = q[d][l - 1] BY <1>1, <1>16, <3>2, <4>1, <4>4
        <5> QED BY <3>2, <4>1, <4>4, <5>1, SMTT(30)
      <4> QED BY <4>1, <4>2, <4>3, <4>4
    <3> QED BY <3>1, <3>2
  <2>2. \A d \in H : \A m \in 1..Len(q[d]) : q[d][m] # e BY DEF Absent
  <2>3. CASE q2[f][i] = e
    <3>1. f = h /\ i = k + 1 BY <2>1, <2>2, <2>3
    <3>2. g = h /\ j = k + 1
      <4>1. q2[g][j] = e BY <1>17, <2>3
      <4> QED BY <2>1, <2>2, <4>1
    <3> QED BY <3>1, <3>2
  <2>4. CASE q2[f][i] # e
    <3>1. PICK a \in 1..Len(q[f]) : q2[f][i] = q[f][a] /\ a = IF f = h /\ i > k THEN i - 1 ELSE i BY <2>1, <2>4
    <3>2. PICK b \in 1..Len(q[g]) : q2[g][j] = q[g][b] /\ b = IF g = h /\ j > k THEN j - 1 ELSE j BY <1>17, <2>1, <2>4
    <3>3. f = g /\ a = b
      <4>1. \A c, d \in H : \A l \in 1..Len(q[c]), m \in 1..Len(q[d]) : q[c][l] = q[d][m] => c = d /\ l = m
        BY DEF Rings
      <4>2. q[f][a] = q[g][b] BY <1>17, <3>1, <3>2
      <4> QED BY <4>1, <4>2, SMTT(30)
    <3>4. Len(q2[f]) \in Nat /\ i \in Nat /\ j \in Nat
      <4>1. q2[f] \in Seq(E) /\ q2[g] \in Seq(E) BY <1>12
      <4> QED BY <4>1
    <3>5. ~(f = h /\ i = k + 1) /\ ~(g = h /\ j = k + 1)
      <4>1. k + 1 \in 1..(n + 1) /\ r[k + 1] = e
        <5>1. k + 1 \in 1..(n + 1) BY <1>1
        <5>2. ~(k + 1 <= k) BY <1>1
        <5> QED BY <1>16, <5>1, <5>2
      <4> QED BY <1>12, <1>17, <2>4, <4>1
    <3> QED BY <3>1, <3>2, <3>3, <3>4, <3>5
  <2> QED BY <2>3, <2>4
<1>18. ASSUME NEW z \in E, Absent(H, q2, z) PROVE hp2.next[z] = hp2.prev[z] /\ hp2.next[z] \in {NULL, z}
  <2>1. \A i \in 1..(n + 1) : r[i] # z BY <1>4, <1>10, <1>12, <1>18 DEF Absent
  <2>2. z # e
    <3>1. k + 1 \in 1..(n + 1) /\ r[k + 1] = e BY <1>1, <1>16
    <3> QED BY <2>1, <3>1
  <2>3. \A i \in 1..n : s[i] # z
    <3> TAKE i \in 1..n
    <3>1. CASE i <= k
      <4>1. i \in 1..(n + 1) /\ r[i] = s[i] BY <1>16, <3>1
      <4> QED BY <2>1, <4>1
    <3>2. CASE i > k
      <4>1. i + 1 \in 1..(n + 1) /\ r[i + 1] = s[i] BY <1>16, <3>2
      <4> QED BY <2>1, <4>1
    <3> QED BY <3>1, <3>2
  <2>4. Absent(H, q, z) BY <1>1, <1>12, <1>18, <2>3 DEF Absent
  <2>5. z # p /\ z # x
    <3>1. \A i \in Int : Spot(h, s, i) # z
      <4> TAKE i \in Int
      <4>1. CASE i \in 1..n BY <1>1, <2>3, <4>1 DEF Spot
      <4>2. CASE i \notin 1..n BY <1>1, <1>4, <4>2 DEF Spot
      <4> QED BY <4>1, <4>2
    <3>2. k \in Int /\ k + 1 \in Int OBVIOUS
    <3> QED BY <1>3, <3>1, <3>2
  <2>6. hp.next[z] = hp.prev[z] /\ hp.next[z] \in {NULL, z} /\ z \in S BY <1>2, <2>4 DEF Rings
  <2> QED BY <1>8, <2>2, <2>5, <2>6
<1>19. IsFiniteSet(H \cup E) /\ NULL \notin H \cup E BY DEF Rings
<1>20. hp2 \in [next : Links(H, E), prev : Links(H, E)] BY <1>2, <1>8 DEF Links
<1>21. Rings(hp2, H, E, U, q2)
  BY <1>4, <1>12, <1>14, <1>15, <1>17, <1>18, <1>19, <1>20 DEF Rings
<1> QED BY <1>1, <1>3, <1>7, <1>9, <1>11, <1>21

\* e has left its ring: its neighbours x and y are linked, its own links
\* are v.
Left(hp, e, x, y, v) ==
  [next |-> [z \in DOMAIN hp.next |-> IF z = e THEN v ELSE IF z = x THEN y ELSE hp.next[z]],
   prev |-> [z \in DOMAIN hp.prev |-> IF z = e THEN v ELSE IF z = y THEN x ELSE hp.prev[z]]]

(* An entry leaves its ring. *)
LEMMA RingsUnlink ==
  ASSUME NEW hp, NEW H, NEW E, NEW U, NEW q, Rings(hp, H, E, U, q),
         NEW h \in U, NEW k \in 1..Len(q[h]), NEW e, e = q[h][k], NEW v \in {NULL, e}
  PROVE  Rings(Left(hp, e, Spot(h, q[h], k - 1), Spot(h, q[h], k + 1), v), H, E, U, [q EXCEPT ![h] = Del(q[h], k)])
<1>1. PICK s \in Seq(E), n \in Nat : s = q[h] /\ n = Len(s)
  <2>1. h \in H BY DEF Rings
  <2> QED BY <2>1, SpotTypes
<1>2. PICK S, T : S = H \cup E /\ T = S \cup {NULL} OBVIOUS
<1>3. PICK x \in S, y \in S : x = Spot(h, s, k - 1) /\ y = Spot(h, s, k + 1)
  <2>1. h \in H /\ k - 1 \in Int /\ k + 1 \in Int BY DEF Rings
  <2> QED BY <1>1, <1>2, <2>1, SpotTypes
<1>4. /\ U \subseteq H /\ h \in H /\ H \cap E = {} /\ q \in [H -> Seq(E)] /\ S \subseteq T
      /\ hp \in [next : [S -> T], prev : [S -> T]]
  BY <1>2 DEF Rings, Links
<1>5. e \in E /\ e \in S /\ e = Spot(h, s, k) /\ v \in T /\ k \in Int
  <2>1. k \in Int OBVIOUS
  <2> QED BY <1>1, <1>2, <1>4, <2>1, SpotTypes
<1>7. PICK hp2 : hp2 = Left(hp, e, x, y, v) OBVIOUS
<1>8. /\ hp2 \in [next : [S -> T], prev : [S -> T]]
      /\ \A z \in S : /\ hp2.next[z] = IF z = e THEN v ELSE IF z = x THEN y ELSE hp.next[z]
                      /\ hp2.prev[z] = IF z = e THEN v ELSE IF z = y THEN x ELSE hp.prev[z]
  <2>1. PICK nx, pv : /\ nx = [z \in S |-> IF z = e THEN v ELSE IF z = x THEN y ELSE hp.next[z]]
                      /\ pv = [z \in S |-> IF z = e THEN v ELSE IF z = y THEN x ELSE hp.prev[z]]
    OBVIOUS
  <2>2. DOMAIN hp.next = S /\ DOMAIN hp.prev = S BY <1>4
  <2>3. hp2 = [next |-> nx, prev |-> pv] BY <1>7, <2>1, <2>2 DEF Left
  <2>4. \A z \in S : hp.next[z] \in T /\ hp.prev[z] \in T BY <1>4
  <2>5. nx \in [S -> T] /\ pv \in [S -> T] BY <1>3, <1>4, <1>5, <2>1, <2>4
  <2> QED BY <2>1, <2>3, <2>5
<1>9. PICK r : r = Del(s, k) OBVIOUS
<1>10. /\ r \in Seq(E) /\ Len(r) = n - 1
       /\ \A i \in 0..n : Spot(h, r, i) = IF i < k THEN Spot(h, s, i) ELSE Spot(h, s, i + 1)
  BY <1>1, <1>9, DelSpots, ZenonT(40)
<1>11. PICK q2 : q2 = [q EXCEPT ![h] = r] OBVIOUS
<1>12. q2 \in [H -> Seq(E)] /\ q2[h] = r /\ \A g \in H : g # h => q2[g] = q[g] BY <1>4, <1>10, <1>11
<1>13. \A g \in H, i \in Int : Spot(g, q[g], i) \in S BY <1>2, SpotTypes
<1>131. k - 1 \in 0..Len(q[h]) /\ k \in 0..Len(q[h]) /\ k \in 1..(Len(q[h]) + 1) /\ k + 1 \in 1..(Len(q[h]) + 1)
  BY <1>1
<1>14. ASSUME NEW g \in U, NEW i \in 0..Len(q2[g])
       PROVE  /\ hp2.next[Spot(g, q2[g], i)] = Spot(g, q2[g], i + 1)
              /\ hp2.prev[Spot(g, q2[g], i + 1)] = Spot(g, q2[g], i)
  <2>0. g \in H BY <1>4
  <2>1. CASE g # h
    <3>1. q2[g] = q[g] /\ i \in 0..Len(q[g]) /\ Len(q[g]) \in Nat BY <1>12, <1>14, <2>0, <2>1, SpotTypes
    <3>11. i + 1 \in 1..(Len(q[g]) + 1) /\ i \in Int /\ i + 1 \in Int BY <3>1
    <3>2. Spot(g, q[g], i) # x /\ Spot(g, q[g], i) # e
      BY <1>1, <1>3, <1>4, <1>5, <1>131, <2>0, <2>1, <3>1, SpotsDiffer
    <3>3. Spot(g, q[g], i + 1) # y /\ Spot(g, q[g], i + 1) # e
      BY <1>1, <1>3, <1>4, <1>5, <1>131, <2>0, <2>1, <3>11, SpotsBehindDiffer
    <3>5. Spot(g, q[g], i) \in S /\ Spot(g, q[g], i + 1) \in S BY <1>13, <2>0, <3>11
    <3>6. hp.next[Spot(g, q[g], i)] = Spot(g, q[g], i + 1) /\ hp.prev[Spot(g, q[g], i + 1)] = Spot(g, q[g], i)
      BY <3>1 DEF Rings
    <3> QED BY <1>8, <3>1, <3>2, <3>3, <3>5, <3>6
  <2>2. CASE g = h
    <3>1. q2[g] = r /\ i \in 0..(n - 1) BY <1>10, <1>12, <2>2
    <3>2. \A j \in 0..n : /\ hp.next[Spot(h, s, j)] = Spot(h, s, j + 1)
                          /\ hp.prev[Spot(h, s, j + 1)] = Spot(h, s, j)
      BY <1>1 DEF Rings
    <3>3. \A j \in 0..n : (j # k - 1 => Spot(h, s, j) # x) /\ (j # k => Spot(h, s, j) # e)
      BY <1>1, <1>3, <1>4, <1>5, <1>131, SpotsDiffer
    <3>4. \A j \in 1..(n + 1) : (j # k + 1 => Spot(h, s, j) # y) /\ (j # k => Spot(h, s, j) # e)
      BY <1>1, <1>3, <1>4, <1>5, <1>131, SpotsBehindDiffer
    <3>5. \A j \in Int : Spot(h, s, j) \in S BY <1>1, <1>4, <1>13
    <3>6. CASE i + 1 < k
      <4>1. /\ i \in 0..n /\ i # k - 1 /\ i # k /\ i + 1 \in 1..(n + 1) /\ i + 1 # k + 1 /\ i + 1 # k
            /\ i \in Int /\ i + 1 \in Int /\ i + 1 \in 0..n
        BY <1>1, <3>1, <3>6
      <4>2. Spot(h, r, i) = Spot(h, s, i) /\ Spot(h, r, i + 1) = Spot(h, s, i + 1) BY <1>10, <3>6, <4>1
      <4>3. hp2.next[Spot(h, s, i)] = hp.next[Spot(h, s, i)] BY <1>8, <3>3, <3>5, <4>1
      <4>4. hp2.prev[Spot(h, s, i + 1)] = hp.prev[Spot(h, s, i + 1)] BY <1>8, <3>4, <3>5, <4>1
      <4> QED BY <2>2, <3>1, <3>2, <4>1, <4>2, <4>3, <4>4
    <3>7. CASE i + 1 = k
      <4>1. i = k - 1 /\ i \in 0..n /\ i + 1 \in 0..n /\ i # k /\ k + 1 \in 1..(n + 1) /\ k + 1 # k /\ k - 1 \in 0..n /\ k - 1 # k
        BY <1>1, <3>1, <3>7
      <4>2. Spot(h, r, i) = x /\ Spot(h, r, i + 1) = y BY <1>3, <1>10, <3>7, <4>1
      <4>3. x # e /\ y # e BY <1>3, <3>3, <3>4, <4>1
      <4> QED BY <1>3, <1>8, <2>2, <3>1, <4>2, <4>3
    <3>8. CASE i + 1 > k
      <4>1. /\ i + 1 \in 0..n /\ i + 1 # k - 1 /\ i + 1 # k /\ i + 2 \in 1..(n + 1) /\ i + 2 # k + 1 /\ i + 2 # k
            /\ i + 1 \in Int /\ i + 2 \in Int /\ (i + 1) + 1 = i + 2 /\ i \in 0..n /\ ~(i < k) /\ ~(i + 1 < k)
        BY <1>1, <3>1, <3>8
      <4>2. Spot(h, r, i) = Spot(h, s, i + 1) /\ Spot(h, r, i + 1) = Spot(h, s, i + 2) BY <1>10, <4>1
      <4>3. hp2.next[Spot(h, s, i + 1)] = hp.next[Spot(h, s, i + 1)] BY <1>8, <3>3, <3>5, <4>1
      <4>4. hp2.prev[Spot(h, s, i + 2)] = hp.prev[Spot(h, s, i + 2)] BY <1>8, <3>4, <3>5, <4>1
      <4>5. hp.next[Spot(h, s, i + 1)] = Spot(h, s, i + 2) /\ hp.prev[Spot(h, s, i + 2)] = Spot(h, s, i + 1)
        BY <3>2, <4>1
      <4> QED BY <2>2, <3>1, <4>2, <4>3, <4>4, <4>5
    <3> QED BY <3>1, <3>6, <3>7, <3>8
  <2> QED BY <2>1, <2>2
<1>15. ASSUME NEW g \in H \ U PROVE q2[g] = << >> /\ hp2.next[g] \in E
  <2>1. g # h /\ q[g] = << >> /\ hp.next[g] \in E /\ g \in S /\ g # e BY <1>2, <1>4, <1>5 DEF Rings
  <2>2. x \in E \cup {h}
    <3>1. k - 1 \in Int /\ h \in H BY <1>4
    <3> QED BY <1>1, <1>3, <3>1, SpotTypes
  <2>3. g # x BY <1>4, <2>1, <2>2
  <2> QED BY <1>8, <1>12, <2>1, <2>3
<1>16. \A i \in 1..(n - 1) : r[i] = IF i < k THEN s[i] ELSE s[i + 1]
  BY <1>1, <1>9 DEF Del
<1>17. ASSUME NEW f \in H, NEW g \in H, NEW i \in 1..Len(q2[f]), NEW j \in 1..Len(q2[g]), q2[f][i] = q2[g][j]
       PROVE  f = g /\ i = j
  <2>1. \A d \in H : \A l \in 1..Len(q2[d]) :
          \E m \in 1..Len(q[d]) : q2[d][l] = q[d][m] /\ m = IF d = h /\ l >= k THEN l + 1 ELSE l
    <3> TAKE d \in H
    <3> TAKE l \in 1..Len(q2[d])
    <3>1. CASE d # h BY <1>12, <3>1
    <3>2. CASE d = h
      <4>1. q2[d] = r /\ l \in 1..(n - 1) BY <1>10, <1>12, <3>2
      <4>2. CASE l < k
        <5>1. l \in 1..Len(q[d]) /\ r[l] = q[d][l] BY <1>1, <1>16, <3>2, <4>1, <4>2
        <5> QED BY <4>1, <4>2, <5>1
      <4>3. CASE ~(l < k)
        <5>1. l + 1 \in 1..Len(q[d]) /\ r[l] = q[d][l + 1] /\ l >= k BY <1>1, <1>16, <3>2, <4>1, <4>3
        <5> QED BY <3>2, <4>1, <5>1
      <4> QED BY <4>2, <4>3
    <3> QED BY <3>1, <3>2
  <2>2. PICK a \in 1..Len(q[f]) : q2[f][i] = q[f][a] /\ a = IF f = h /\ i >= k THEN i + 1 ELSE i BY <2>1
  <2>3. PICK b \in 1..Len(q[g]) : q2[g][j] = q[g][b] /\ b = IF g = h /\ j >= k THEN j + 1 ELSE j BY <2>1
  <2>4. f = g /\ a = b
    <3>1. \A c, d \in H : \A l \in 1..Len(q[c]), m \in 1..Len(q[d]) : q[c][l] = q[d][m] => c = d /\ l = m
      BY DEF Rings
    <3>2. q[f][a] = q[g][b] BY <1>17, <2>2, <2>3
    <3> QED BY <3>1, <3>2
  <2>5. Len(q2[f]) \in Nat /\ i \in Nat /\ j \in Nat
    <3>1. q2[f] \in Seq(E) /\ q2[g] \in Seq(E) BY <1>12
    <3> QED BY <3>1
  <2> QED BY <2>2, <2>3, <2>4, <2>5
<1>18. ASSUME NEW z \in E, Absent(H, q2, z) PROVE hp2.next[z] = hp2.prev[z] /\ hp2.next[z] \in {NULL, z}
  <2>0. CASE z = e BY <1>5, <1>8, <2>0
  <2>00. CASE z # e
    <3>1. \A i \in 1..(n - 1) : r[i] # z BY <1>4, <1>10, <1>12, <1>18 DEF Absent
    <3>2. \A i \in 1..n : s[i] # z
      <4> TAKE i \in 1..n
      <4>1. CASE i < k
        <5>1. i \in 1..(n - 1) /\ r[i] = s[i] BY <1>1, <1>16, <4>1
        <5> QED BY <3>1, <5>1
      <4>2. CASE i = k BY <1>1, <2>00, <4>2
      <4>3. CASE i > k
        <5>1. i - 1 \in 1..(n - 1) /\ r[i - 1] = s[i] BY <1>1, <1>16, <4>3
        <5> QED BY <3>1, <5>1
      <4> QED BY <4>1, <4>2, <4>3
    <3>3. Absent(H, q, z) BY <1>1, <1>12, <1>18, <3>2 DEF Absent
    <3>4. z # x /\ z # y
      <4>1. \A i \in Int : Spot(h, s, i) # z
        <5> TAKE i \in Int
        <5>1. CASE i \in 1..n BY <1>1, <3>2, <5>1 DEF Spot
        <5>2. CASE i \notin 1..n BY <1>1, <1>4, <5>2 DEF Spot
        <5> QED BY <5>1, <5>2
      <4>2. k - 1 \in Int /\ k + 1 \in Int OBVIOUS
      <4> QED BY <1>3, <4>1, <4>2
    <3>5. hp.next[z] = hp.prev[z] /\ hp.next[z] \in {NULL, z} /\ z \in S BY <1>2, <3>3 DEF Rings
    <3> QED BY <1>8, <2>00, <3>4, <3>5
  <2> QED BY <2>0, <2>00
<1>19. IsFiniteSet(H \cup E) /\ NULL \notin H \cup E BY DEF Rings
<1>20. hp2 \in [next : Links(H, E), prev : Links(H, E)] BY <1>2, <1>8 DEF Links
<1>21. Rings(hp2, H, E, U, q2)
  BY <1>4, <1>12, <1>14, <1>15, <1>17, <1>18, <1>19, <1>20 DEF Rings
<1> QED BY <1>1, <1>3, <1>7, <1>9, <1>11, <1>21

(* An entry that is in no ring stays in none. *)
LEMMA RingsUnlinkFree ==
  ASSUME NEW hp, NEW H, NEW E, NEW U, NEW q, Rings(hp, H, E, U, q),
         NEW e \in E, Absent(H, q, e), NEW v \in {NULL, e}
  PROVE  Rings(Left(hp, e, e, e, v), H, E, U, q)
<1>1. PICK S, T : S = H \cup E /\ T = S \cup {NULL} OBVIOUS
<1>2. /\ U \subseteq H /\ H \cap E = {} /\ q \in [H -> Seq(E)] /\ S \subseteq T
      /\ hp \in [next : [S -> T], prev : [S -> T]] /\ e \in S /\ v \in T
  BY <1>1 DEF Rings, Links
<1>3. PICK hp2 : hp2 = Left(hp, e, e, e, v) OBVIOUS
<1>4. /\ hp2 \in [next : [S -> T], prev : [S -> T]]
      /\ \A z \in S : /\ hp2.next[z] = IF z = e THEN v ELSE hp.next[z]
                      /\ hp2.prev[z] = IF z = e THEN v ELSE hp.prev[z]
  <2>1. PICK nx, pv : /\ nx = [z \in S |-> IF z = e THEN v ELSE IF z = e THEN e ELSE hp.next[z]]
                      /\ pv = [z \in S |-> IF z = e THEN v ELSE IF z = e THEN e ELSE hp.prev[z]]
    OBVIOUS
  <2>2. DOMAIN hp.next = S /\ DOMAIN hp.prev = S BY <1>2
  <2>3. hp2 = [next |-> nx, prev |-> pv] BY <1>3, <2>1, <2>2 DEF Left
  <2>4. \A z \in S : hp.next[z] \in T /\ hp.prev[z] \in T BY <1>2
  <2>5. nx \in [S -> T] /\ pv \in [S -> T] BY <1>2, <2>1, <2>4
  <2> QED BY <2>1, <2>3, <2>5
<1>5. \A g \in H, i \in Int : Spot(g, q[g], i) # e /\ Spot(g, q[g], i) \in S
  <2> TAKE g \in H, i \in Int
  <2>1. CASE i \in 1..Len(q[g]) BY <1>1, <2>1, SpotTypes DEF Absent
  <2>2. CASE i \notin 1..Len(q[g]) BY <1>1, <1>2, <2>2, SpotTypes
  <2> QED BY <2>1, <2>2
<1>6. ASSUME NEW g \in U, NEW i \in 0..Len(q[g])
      PROVE  /\ hp2.next[Spot(g, q[g], i)] = Spot(g, q[g], i + 1)
             /\ hp2.prev[Spot(g, q[g], i + 1)] = Spot(g, q[g], i)
  <2>1. g \in H /\ i \in Int /\ i + 1 \in Int BY <1>2
  <2>2. hp.next[Spot(g, q[g], i)] = Spot(g, q[g], i + 1) /\ hp.prev[Spot(g, q[g], i + 1)] = Spot(g, q[g], i)
    BY DEF Rings
  <2> QED BY <1>4, <1>5, <2>1, <2>2
<1>7. ASSUME NEW g \in H \ U PROVE q[g] = << >> /\ hp2.next[g] \in E
  <2>1. q[g] = << >> /\ hp.next[g] \in E BY DEF Rings
  <2>2. g \in S /\ g # e BY <1>1, <1>2
  <2> QED BY <1>4, <2>1, <2>2
<1>8. ASSUME NEW z \in E, Absent(H, q, z) PROVE hp2.next[z] = hp2.prev[z] /\ hp2.next[z] \in {NULL, z}
  <2>1. hp.next[z] = hp.prev[z] /\ hp.next[z] \in {NULL, z} /\ z \in S BY <1>1, <1>8 DEF Rings
  <2> QED BY <1>4, <2>1
<1>9. IsFiniteSet(H \cup E) /\ NULL \notin H \cup E BY DEF Rings
<1>10. hp2 \in [next : Links(H, E), prev : Links(H, E)] BY <1>1, <1>4 DEF Links
<1>11. \A g, h \in H : \A i \in 1..Len(q[g]), j \in 1..Len(q[h]) : q[g][i] = q[h][j] => g = h /\ i = j
  BY DEF Rings
<1> QED BY <1>2, <1>3, <1>6, <1>7, <1>8, <1>9, <1>10, <1>11 DEF Rings

(* What _list_del leaves of well-typed links. *)
LEMMA UnlinkedIs ==
  ASSUME NEW hp, NEW nx, NEW pv, hp = [next |-> nx, prev |-> pv], NEW S, NEW T,
         nx \in [S -> T], pv \in [S -> T], NEW e \in S, nx[e] \in S, pv[e] \in S
  PROVE  Unlinked(hp, e) = [next |-> [nx EXCEPT ![pv[e]] = nx[e]], prev |-> [pv EXCEPT ![nx[e]] = pv[e]]]
<1>1. PICK x \in S, y \in S : x = pv[e] /\ y = nx[e] OBVIOUS
<1>2. hp.next[e] = y /\ hp.prev[e] = x BY <1>1
<1>3. PICK r1 : r1 = [hp EXCEPT !.prev[hp.next[e]] = hp.prev[e]] OBVIOUS
<1>4. PICK pv1 : pv1 = [pv EXCEPT ![y] = x] OBVIOUS
<1>5. r1 = [next |-> nx, prev |-> pv1]
  <2>1. r1 = [hp EXCEPT !.prev[y] = x] BY <1>2, <1>3, Zenon
  <2> QED BY <1>4, <2>1, SetPrev
<1>6. r1.prev[e] = x /\ r1.next[e] = y
  <2>1. pv1[e] = x BY <1>1, <1>4
  <2> QED BY <1>1, <1>5, <2>1
<1>7. PICK r2 : r2 = [r1 EXCEPT !.next[r1.prev[e]] = r1.next[e]] OBVIOUS
<1>8. Unlinked(hp, e) = r2 BY <1>3, <1>7, Zenon DEF Unlinked
<1>9. PICK nx1 : nx1 = [nx EXCEPT ![x] = y] OBVIOUS
<1>10. r2 = [next |-> nx1, prev |-> pv1]
  <2>1. r2 = [r1 EXCEPT !.next[x] = y] BY <1>6, <1>7, Zenon
  <2> QED BY <1>5, <1>9, <2>1, SetNext
<1> QED BY <1>1, <1>4, <1>8, <1>9, <1>10

(* list_del and list_del_init take an entry out of its ring, and the entry  *)
(* may be linked at once to somewhere else, as list_move does.              *)
LEMMA LeavesBy ==
  ASSUME NEW hp, NEW S, NEW T, hp \in [next : [S -> T], prev : [S -> T]], S \subseteq T, NULL \in T,
         NEW e \in S, NEW x \in S, NEW y \in S, x = hp.prev[e], y = hp.next[e]
  PROVE  /\ list_del(hp, e) = Left(hp, e, x, y, NULL)
         /\ list_del_init(hp, e) = Left(hp, e, x, y, e)
         /\ \A h \in S \ {e} :
              /\ list_del(hp, e).next[h] \in S \ {e} => list_move(hp, e, h) = list_add(list_del(hp, e), e, h)
              /\ list_del(hp, e).prev[h] \in S \ {e} => list_move_tail(hp, e, h) = list_add_tail(list_del(hp, e), e, h)
<1>1. PICK nx, pv : nx = hp.next /\ pv = hp.prev OBVIOUS
<1>2. hp = [next |-> nx, prev |-> pv] /\ nx \in [S -> T] /\ pv \in [S -> T] /\ x = pv[e] /\ y = nx[e] BY <1>1
<1>3. PICK nx1, pv1 : nx1 = [nx EXCEPT ![x] = y] /\ pv1 = [pv EXCEPT ![y] = x] OBVIOUS
<1>4. Unlinked(hp, e) = [next |-> nx1, prev |-> pv1]
  <2>1. nx[e] \in S /\ pv[e] \in S BY <1>2
  <2>2. Unlinked(hp, e) = [next |-> [nx EXCEPT ![pv[e]] = nx[e]], prev |-> [pv EXCEPT ![nx[e]] = pv[e]]]
    BY <1>2, <2>1, UnlinkedIs
  <2> QED BY <1>2, <1>3, <2>2
<1>5. nx1 \in [S -> T] /\ pv1 \in [S -> T] BY <1>2, <1>3
<1>6. ASSUME NEW v \in T
      PROVE  Left(hp, e, x, y, v) = [next |-> [nx1 EXCEPT ![e] = v], prev |-> [pv1 EXCEPT ![e] = v]]
  <2>1. DOMAIN nx = S /\ DOMAIN pv = S BY <1>2
  <2>2. [nx1 EXCEPT ![e] = v] = [z \in S |-> IF z = e THEN v ELSE IF z = x THEN y ELSE nx[z]] BY <1>2, <1>3
  <2>3. [pv1 EXCEPT ![e] = v] = [z \in S |-> IF z = e THEN v ELSE IF z = y THEN x ELSE pv[z]] BY <1>2, <1>3
  <2> QED BY <1>1, <2>1, <2>2, <2>3 DEF Left
<1>7. list_del(hp, e) = [next |-> [nx1 EXCEPT ![e] = NULL], prev |-> [pv1 EXCEPT ![e] = NULL]]
  <2>1. PICK r0, r1, r2 : r0 = Unlinked(hp, e) /\ r1 = [r0 EXCEPT !.next[e] = NULL] /\ r2 = [r1 EXCEPT !.prev[e] = NULL]
    OBVIOUS
  <2>2. list_del(hp, e) = r2 BY <2>1, Zenon DEF list_del
  <2>3. r1 = [r0 EXCEPT !.next[e] = NULL] /\ r0 = [next |-> nx1, prev |-> pv1] BY <1>4, <2>1
  <2>4. r1 = [next |-> [nx1 EXCEPT ![e] = NULL], prev |-> pv1] BY <2>3, SetNext
  <2>5. r2 = [r1 EXCEPT !.prev[e] = NULL] BY <2>1
  <2>6. r2 = [next |-> [nx1 EXCEPT ![e] = NULL], prev |-> [pv1 EXCEPT ![e] = NULL]] BY <2>4, <2>5, SetPrev
  <2> QED BY <2>2, <2>6
<1>8. list_del_init(hp, e) = [next |-> [nx1 EXCEPT ![e] = e], prev |-> [pv1 EXCEPT ![e] = e]]
  <2>1. PICK r0, r1, r2 : r0 = Unlinked(hp, e) /\ r1 = [r0 EXCEPT !.next[e] = e] /\ r2 = [r1 EXCEPT !.prev[e] = e]
    OBVIOUS
  <2>2. list_del_init(hp, e) = r2 BY <2>1, Zenon DEF list_del_init, INIT_LIST_HEAD
  <2>3. r1 = [r0 EXCEPT !.next[e] = e] /\ r0 = [next |-> nx1, prev |-> pv1] BY <1>4, <2>1
  <2>4. r1 = [next |-> [nx1 EXCEPT ![e] = e], prev |-> pv1] BY <2>3, SetNext
  <2>5. r2 = [r1 EXCEPT !.prev[e] = e] BY <2>1
  <2>6. r2 = [next |-> [nx1 EXCEPT ![e] = e], prev |-> [pv1 EXCEPT ![e] = e]] BY <2>4, <2>5, SetPrev
  <2> QED BY <2>2, <2>6
<1>9. ASSUME NEW p \in S, NEW n \in S, p # e, n # e
      PROVE  Linked(Unlinked(hp, e), e, p, n) = Linked(list_del(hp, e), e, p, n)
  <2>1. PICK a, b : a = Unlinked(hp, e) /\ b = list_del(hp, e) OBVIOUS
  <2>2. /\ a \in [next : [S -> T], prev : [S -> T]] /\ b \in [next : [S -> T], prev : [S -> T]]
        /\ \A z \in S : z # e => a.next[z] = b.next[z] /\ a.prev[z] = b.prev[z]
    <3>1. PICK nx2, pv2 : nx2 = [nx1 EXCEPT ![e] = NULL] /\ pv2 = [pv1 EXCEPT ![e] = NULL] OBVIOUS
    <3>2. nx2 \in [S -> T] /\ pv2 \in [S -> T] /\ \A z \in S : z # e => nx1[z] = nx2[z] /\ pv1[z] = pv2[z]
      BY <1>5, <3>1
    <3>3. a = [next |-> nx1, prev |-> pv1] /\ b = [next |-> nx2, prev |-> pv2] BY <1>4, <1>7, <2>1, <3>1
    <3> QED BY <1>5, <3>2, <3>3
  <2>3. PICK a2, b2 : a2 = Linked(a, e, p, n) /\ b2 = Linked(b, e, p, n) OBVIOUS
  <2>4. IsLinked(S, T, a, a2, e, p, n) /\ IsLinked(S, T, b, b2, e, p, n) BY <1>9, <2>2, <2>3, LinkedIs
  <2>5. a2.next = b2.next
    <3>1. a2.next \in [S -> T] /\ b2.next \in [S -> T] BY <2>4 DEF IsLinked
    <3>2. \A z \in S : a2.next[z] = b2.next[z] BY <2>2, <2>4 DEF IsLinked
    <3> QED BY <3>1, <3>2
  <2>6. a2.prev = b2.prev
    <3>1. a2.prev \in [S -> T] /\ b2.prev \in [S -> T] BY <2>4 DEF IsLinked
    <3>2. \A z \in S : a2.prev[z] = b2.prev[z] BY <2>2, <2>4 DEF IsLinked
    <3> QED BY <3>1, <3>2
  <2>7. a2 = [next |-> a2.next, prev |-> a2.prev] /\ b2 = [next |-> b2.next, prev |-> b2.prev]
    BY <2>4 DEF IsLinked
  <2> QED BY <2>1, <2>3, <2>5, <2>6, <2>7
<1>10. ASSUME NEW h \in S \ {e}, NEW n, n = Unlinked(hp, e).next[h] PROVE n = list_del(hp, e).next[h]
  BY <1>4, <1>5, <1>7, <1>10
<1>11. ASSUME NEW h \in S \ {e}, NEW n, n = Unlinked(hp, e).prev[h] PROVE n = list_del(hp, e).prev[h]
  BY <1>4, <1>5, <1>7, <1>11
<1>12. list_del(hp, e) = Left(hp, e, x, y, NULL) BY <1>6, <1>7
<1>13. list_del_init(hp, e) = Left(hp, e, x, y, e) BY <1>6, <1>8
<1>14. ASSUME NEW h \in S \ {e}, list_del(hp, e).next[h] \in S \ {e}
       PROVE  list_move(hp, e, h) = list_add(list_del(hp, e), e, h)
  <2>1. PICK n : n = Unlinked(hp, e).next[h] OBVIOUS
  <2>2. n = list_del(hp, e).next[h] BY <1>10, <2>1
  <2>3. n \in S /\ n # e /\ h \in S /\ h # e BY <1>14, <2>2
  <2>4. Linked(Unlinked(hp, e), e, h, n) = Linked(list_del(hp, e), e, h, n) BY <1>9, <2>3
  <2>5. list_move(hp, e, h) = Linked(Unlinked(hp, e), e, h, n) BY <2>1, Zenon DEF list_move, list_add
  <2>6. list_add(list_del(hp, e), e, h) = Linked(list_del(hp, e), e, h, n) BY <2>2, Zenon DEF list_add
  <2> QED BY <2>4, <2>5, <2>6
<1>15. ASSUME NEW h \in S \ {e}, list_del(hp, e).prev[h] \in S \ {e}
       PROVE  list_move_tail(hp, e, h) = list_add_tail(list_del(hp, e), e, h)
  <2>1. PICK n : n = Unlinked(hp, e).prev[h] OBVIOUS
  <2>2. n = list_del(hp, e).prev[h] BY <1>11, <2>1
  <2>3. n \in S /\ n # e /\ h \in S /\ h # e BY <1>15, <2>2
  <2>4. Linked(Unlinked(hp, e), e, n, h) = Linked(list_del(hp, e), e, n, h) BY <1>9, <2>3
  <2>5. list_move_tail(hp, e, h) = Linked(Unlinked(hp, e), e, n, h) BY <2>1, Zenon DEF list_move_tail, list_add_tail
  <2>6. list_add_tail(list_del(hp, e), e, h) = Linked(list_del(hp, e), e, n, h) BY <2>2, Zenon DEF list_add_tail
  <2> QED BY <2>4, <2>5, <2>6
<1> QED BY <1>12, <1>13, <1>14, <1>15

(* The links of an entry that is in a ring are those of its neighbours. *)
LEMMA RingsNeighbours ==
  ASSUME NEW hp, NEW H, NEW E, NEW U, NEW q, Rings(hp, H, E, U, q),
         NEW h \in U, NEW k \in 1..Len(q[h]), NEW e, e = q[h][k]
  PROVE  /\ h \in H /\ e \in E /\ Spot(h, q[h], k) = e
         /\ hp.next[e] = Spot(h, q[h], k + 1) /\ hp.prev[e] = Spot(h, q[h], k - 1)
         /\ hp.next[e] \in (H \cup E) \ {e} /\ hp.prev[e] \in (H \cup E) \ {e}
<1>1. h \in H BY DEF Rings
<1>2. PICK n \in Nat : n = Len(q[h]) BY <1>1, SpotTypes
<1>3. k \in Int /\ k + 1 \in Int /\ k - 1 \in Int /\ k \in 0..n /\ k - 1 \in 0..n /\ (k - 1) + 1 = k BY <1>2
<1>4. e \in E /\ Spot(h, q[h], k) = e BY <1>1, <1>3, SpotTypes
<1>5. hp.next[e] = Spot(h, q[h], k + 1) /\ hp.prev[e] = Spot(h, q[h], k - 1)
  <2>1. hp.next[Spot(h, q[h], k)] = Spot(h, q[h], k + 1) BY <1>2, <1>3 DEF Rings
  <2>2. hp.prev[Spot(h, q[h], (k - 1) + 1)] = Spot(h, q[h], k - 1) BY <1>2, <1>3 DEF Rings
  <2> QED BY <1>3, <1>4, <2>1, <2>2
<1>6. Spot(h, q[h], k + 1) \in H \cup E /\ Spot(h, q[h], k - 1) \in H \cup E BY <1>1, <1>3, SpotTypes
<1>7. Spot(h, q[h], k - 1) # e
  <2>1. k - 1 # k OBVIOUS
  <2> QED BY <1>1, <1>2, <1>3, <1>4, <2>1, SpotsDiffer
<1>8. Spot(h, q[h], k + 1) # e
  <2>1. k + 1 # k /\ k \in 1..(n + 1) /\ k + 1 \in 1..(n + 1) BY <1>2
  <2> QED BY <1>1, <1>2, <1>4, <2>1, SpotsBehindDiffer
<1> QED BY <1>1, <1>4, <1>5, <1>6, <1>7, <1>8

(* An entry is in no ring just when it is unused. *)
LEMMA UnusedIsAbsent ==
  ASSUME NEW hp, NEW H, NEW E, NEW U, NEW q, Rings(hp, H, E, U, q), NEW e \in E
  PROVE  Absent(H, q, e) <=> hp.next[e] \in {NULL, e}
<1>1. Absent(H, q, e) => hp.next[e] \in {NULL, e} BY DEF Rings
<1>2. ASSUME ~Absent(H, q, e) PROVE hp.next[e] \notin {NULL, e}
  <2>1. PICK h \in H : \E k \in 1..Len(q[h]) : q[h][k] = e BY <1>2 DEF Absent
  <2>2. PICK k \in 1..Len(q[h]) : q[h][k] = e BY <2>1
  <2>3. h \in U
    <3> SUFFICES ASSUME h \notin U PROVE FALSE OBVIOUS
    <3>1. q[h] = << >> BY DEF Rings
    <3> QED BY <2>2, <3>1
  <2>4. hp.next[e] \in (H \cup E) \ {e} BY <2>2, <2>3, RingsNeighbours
  <2>5. NULL \notin H \cup E BY DEF Rings
  <2> QED BY <2>4, <2>5
<1> QED BY <1>1, <1>2

(* An entry of a sequence that has lost it is in none. *)
LEMMA DeletedIsAbsent ==
  ASSUME NEW hp, NEW H, NEW E, NEW U, NEW q, Rings(hp, H, E, U, q),
         NEW h \in U, NEW k \in 1..Len(q[h]), NEW e, e = q[h][k]
  PROVE  Absent(H, [q EXCEPT ![h] = Del(q[h], k)], e)
<1>1. h \in H /\ q \in [H -> Seq(E)] BY DEF Rings
<1>2. \A f, g \in H : \A i \in 1..Len(q[f]), j \in 1..Len(q[g]) : q[f][i] = q[g][j] => f = g /\ i = j BY DEF Rings
<1>3. PICK s \in Seq(E), n \in Nat : s = q[h] /\ n = Len(s) BY <1>1, SpotTypes
<1>4. PICK q2 : q2 = [q EXCEPT ![h] = Del(s, k)] OBVIOUS
<1>5. q2[h] = Del(s, k) /\ \A g \in H : g # h => q2[g] = q[g] BY <1>1, <1>4
<1>6. Len(Del(s, k)) = n - 1 /\ \A i \in 1..(n - 1) : Del(s, k)[i] = IF i < k THEN s[i] ELSE s[i + 1]
  BY <1>3, DelSpots DEF Del
<1>7. ASSUME NEW g \in H, NEW i \in 1..Len(q2[g]) PROVE q2[g][i] # e
  <2>1. CASE g # h BY <1>1, <1>2, <1>5, <1>7, <2>1
  <2>2. CASE g = h
    <3>1. i \in 1..(n - 1) /\ q2[g] = Del(s, k) BY <1>5, <1>6, <2>2
    <3>2. CASE i < k
      <4>1. i \in 1..n /\ i # k BY <1>3, <3>1, <3>2
      <4>2. s[i] # s[k] BY <1>1, <1>2, <1>3, <4>1
      <4> QED BY <1>3, <1>6, <3>1, <3>2, <4>2
    <3>3. CASE ~(i < k)
      <4>1. i + 1 \in 1..n /\ i + 1 # k BY <1>3, <3>1, <3>3
      <4>2. s[i + 1] # s[k] BY <1>1, <1>2, <1>3, <4>1
      <4> QED BY <1>3, <1>6, <3>1, <3>3, <4>2
    <3> QED BY <3>2, <3>3
  <2> QED BY <2>1, <2>2
<1> QED BY <1>3, <1>4, <1>7 DEF Absent

(* list_del and list_del_init of an entry that is in a ring. *)
LEMMA RingsDel ==
  ASSUME NEW hp, NEW H, NEW E, NEW U, NEW q, Rings(hp, H, E, U, q),
         NEW h \in U, NEW k \in 1..Len(q[h]), NEW e, e = q[h][k]
  PROVE  /\ Rings(list_del(hp, e), H, E, U, [q EXCEPT ![h] = Del(q[h], k)])
         /\ Rings(list_del_init(hp, e), H, E, U, [q EXCEPT ![h] = Del(q[h], k)])
<1>1. PICK S, T : S = H \cup E /\ T = S \cup {NULL} OBVIOUS
<1>2. hp \in [next : [S -> T], prev : [S -> T]] BY <1>1 DEF Rings, Links
<1>3. e \in S /\ hp.next[e] = Spot(h, q[h], k + 1) /\ hp.prev[e] = Spot(h, q[h], k - 1)
      /\ hp.next[e] \in S /\ hp.prev[e] \in S
  BY <1>1, RingsNeighbours
<1>4. PICK x \in S, y \in S : x = hp.prev[e] /\ y = hp.next[e] BY <1>3
<1>5. S \subseteq T /\ NULL \in T BY <1>1
<1>6. list_del(hp, e) = Left(hp, e, x, y, NULL) /\ list_del_init(hp, e) = Left(hp, e, x, y, e)
  BY <1>2, <1>3, <1>4, <1>5, LeavesBy
<1>7. x = Spot(h, q[h], k - 1) /\ y = Spot(h, q[h], k + 1) BY <1>3, <1>4
<1>8. NULL \in {NULL, e} /\ e \in {NULL, e} OBVIOUS
<1>9. Rings(Left(hp, e, x, y, NULL), H, E, U, [q EXCEPT ![h] = Del(q[h], k)]) BY <1>7, <1>8, RingsUnlink
<1>10. Rings(Left(hp, e, x, y, e), H, E, U, [q EXCEPT ![h] = Del(q[h], k)]) BY <1>7, <1>8, RingsUnlink
<1> QED BY <1>6, <1>9, <1>10

(* Of one that points at itself. *)
LEMMA RingsDelFree ==
  ASSUME NEW hp, NEW H, NEW E, NEW U, NEW q, Rings(hp, H, E, U, q),
         NEW e \in E, Absent(H, q, e), hp.next[e] # NULL
  PROVE  Rings(list_del(hp, e), H, E, U, q) /\ Rings(list_del_init(hp, e), H, E, U, q)
<1>1. PICK S, T : S = H \cup E /\ T = S \cup {NULL} OBVIOUS
<1>2. hp \in [next : [S -> T], prev : [S -> T]] BY <1>1 DEF Rings, Links
<1>3. e \in S /\ hp.next[e] = e /\ hp.prev[e] = e BY <1>1 DEF Rings
<1>5. S \subseteq T /\ NULL \in T BY <1>1
<1>6. list_del(hp, e) = Left(hp, e, e, e, NULL) /\ list_del_init(hp, e) = Left(hp, e, e, e, e)
  BY <1>2, <1>3, <1>5, LeavesBy
<1>8. NULL \in {NULL, e} /\ e \in {NULL, e} OBVIOUS
<1>9. Rings(Left(hp, e, e, e, NULL), H, E, U, q) BY <1>8, RingsUnlinkFree
<1>10. Rings(Left(hp, e, e, e, e), H, E, U, q) BY <1>8, RingsUnlinkFree
<1> QED BY <1>6, <1>9, <1>10

(* list_add and list_add_tail. *)
LEMMA RingsAdd ==
  ASSUME NEW hp, NEW H, NEW E, NEW U, NEW q, Rings(hp, H, E, U, q),
         NEW h \in U, NEW e \in E, Absent(H, q, e)
  PROVE  /\ Rings(list_add(hp, e, h), H, E, U, [q EXCEPT ![h] = Ins(q[h], 0, e)])
         /\ Rings(list_add_tail(hp, e, h), H, E, U, [q EXCEPT ![h] = Ins(q[h], Len(q[h]), e)])
         /\ hp.next[h] \in (H \cup E) \ {e} /\ hp.prev[h] \in (H \cup E) \ {e}
<1>1. h \in H /\ H \cap E = {} BY DEF Rings
<1>2. PICK n \in Nat : n = Len(q[h]) BY <1>1, SpotTypes
<1>3. 0 \in 0..n /\ n \in 0..n /\ 0 \in Int /\ n \in Int /\ n + 1 \in Int /\ 1 \in Int /\ n + 1 \notin 1..n OBVIOUS
<1>4. Spot(h, q[h], 0) = h /\ Spot(h, q[h], n + 1) = h BY <1>1, <1>2, <1>3 DEF Spot
<1>5. hp.next[h] = Spot(h, q[h], 0 + 1)
  <2>1. hp.next[Spot(h, q[h], 0)] = Spot(h, q[h], 0 + 1) BY <1>2, <1>3 DEF Rings
  <2> QED BY <1>4, <2>1
<1>6. hp.prev[h] = Spot(h, q[h], n)
  <2>1. hp.prev[Spot(h, q[h], n + 1)] = Spot(h, q[h], n) BY <1>2, <1>3 DEF Rings
  <2> QED BY <1>4, <2>1
<1>7. list_add(hp, e, h) = Linked(hp, e, Spot(h, q[h], 0), Spot(h, q[h], 0 + 1))
  BY <1>4, <1>5, Zenon DEF list_add
<1>8. list_add_tail(hp, e, h) = Linked(hp, e, Spot(h, q[h], n), Spot(h, q[h], n + 1))
  BY <1>4, <1>6, Zenon DEF list_add_tail
<1>9. Rings(list_add(hp, e, h), H, E, U, [q EXCEPT ![h] = Ins(q[h], 0, e)])
  BY <1>2, <1>3, <1>7, RingsLink
<1>10. Rings(list_add_tail(hp, e, h), H, E, U, [q EXCEPT ![h] = Ins(q[h], n, e)])
  BY <1>2, <1>3, <1>8, RingsLink
<1>11. \A i \in Int : Spot(h, q[h], i) \in H \cup E /\ Spot(h, q[h], i) # e
  <2> TAKE i \in Int
  <2>1. CASE i \in 1..Len(q[h]) BY <1>1, <2>1, SpotTypes DEF Absent
  <2>2. CASE i \notin 1..Len(q[h]) BY <1>1, <2>2, SpotTypes
  <2> QED BY <2>1, <2>2
<1> QED BY <1>2, <1>3, <1>5, <1>6, <1>9, <1>10, <1>11

(* list_move and list_move_tail, once list_del is known. *)
LEMMA RingsMove ==
  ASSUME NEW hp, NEW H, NEW E, NEW U, NEW q, NEW q2, Rings(hp, H, E, U, q),
         NEW e \in E, hp.next[e] \in H \cup E, hp.prev[e] \in H \cup E,
         Rings(list_del(hp, e), H, E, U, q2), Absent(H, q2, e), NEW h \in U
  PROVE  /\ Rings(list_move(hp, e, h), H, E, U, [q2 EXCEPT ![h] = Ins(q2[h], 0, e)])
         /\ Rings(list_move_tail(hp, e, h), H, E, U, [q2 EXCEPT ![h] = Ins(q2[h], Len(q2[h]), e)])
<1>1. PICK S, T : S = H \cup E /\ T = S \cup {NULL} OBVIOUS
<1>2. hp \in [next : [S -> T], prev : [S -> T]] BY <1>1 DEF Rings, Links
<1>3. h \in S /\ h # e /\ e \in S BY <1>1 DEF Rings
<1>4. PICK x \in S, y \in S : x = hp.prev[e] /\ y = hp.next[e] BY <1>1
<1>5. S \subseteq T /\ NULL \in T BY <1>1
<1>6. PICK d : d = list_del(hp, e) OBVIOUS
<1>7. /\ Rings(list_add(d, e, h), H, E, U, [q2 EXCEPT ![h] = Ins(q2[h], 0, e)])
      /\ Rings(list_add_tail(d, e, h), H, E, U, [q2 EXCEPT ![h] = Ins(q2[h], Len(q2[h]), e)])
      /\ d.next[h] \in S \ {e} /\ d.prev[h] \in S \ {e}
  BY <1>1, <1>6, RingsAdd
<1>8. \A g \in S \ {e} :
        /\ list_del(hp, e).next[g] \in S \ {e} => list_move(hp, e, g) = list_add(list_del(hp, e), e, g)
        /\ list_del(hp, e).prev[g] \in S \ {e} => list_move_tail(hp, e, g) = list_add_tail(list_del(hp, e), e, g)
  BY <1>2, <1>3, <1>4, <1>5, LeavesBy
<1>9. list_move(hp, e, h) = list_add(d, e, h) /\ list_move_tail(hp, e, h) = list_add_tail(d, e, h)
  BY <1>3, <1>6, <1>7, <1>8
<1> QED BY <1>7, <1>9

\* The links of hp2 are those of hp, with the nodes a to b between p and x.
IsSpliced(S, T, hp, hp2, a, b, p, x) ==
  /\ hp2 \in [next : [S -> T], prev : [S -> T]]
  /\ \A z \in S : /\ hp2.next[z] = IF z = p THEN a ELSE IF z = b THEN x ELSE hp.next[z]
                  /\ hp2.prev[z] = IF z = x THEN b ELSE IF z = a THEN p ELSE hp.prev[z]

(* What _list_splice leaves. *)
LEMMA SplicedIs ==
  ASSUME NEW S, NEW T, NEW hp \in [next : [S -> T], prev : [S -> T]], NEW f \in S,
         NEW a \in S, NEW b \in S, NEW p \in S, NEW x \in S, S \subseteq T,
         a = hp.next[f], b = hp.prev[f], a # f, a # x, b # p
  PROVE  IsSpliced(S, T, hp, Spliced(hp, f, p, x), a, b, p, x)
<1>1. PICK nx, pv : nx = hp.next /\ pv = hp.prev OBVIOUS
<1>2. hp = [next |-> nx, prev |-> pv] /\ nx \in [S -> T] /\ pv \in [S -> T] BY <1>1
<1>3. PICK nx2, pv2 : nx2 = [nx EXCEPT ![p] = a, ![b] = x] /\ pv2 = [pv EXCEPT ![a] = p, ![x] = b] OBVIOUS
<1>4. Spliced(hp, f, p, x) = [next |-> nx2, prev |-> pv2]
  <2>11. PICK r1 : r1 = [hp EXCEPT !.prev[a] = p] OBVIOUS
  <2>12. PICK r2 : r2 = [r1 EXCEPT !.next[p] = a] OBVIOUS
  <2>13. PICK r3 : r3 = [r2 EXCEPT !.next[b] = x] OBVIOUS
  <2>14. PICK r4 : r4 = [r3 EXCEPT !.prev[x] = b] OBVIOUS
  <2>2. Spliced(hp, f, p, x) = r4
    <3>1. ~list_empty(hp, f) BY DEF list_empty
    <3>2. Spliced(hp, f, p, x) = [hp EXCEPT !.prev[a] = p, !.next[p] = a, !.next[b] = x, !.prev[x] = b]
      BY <3>1, Zenon DEF Spliced
    <3> QED BY <2>11, <2>12, <2>13, <2>14, <3>2, Zenon
  <2>3. PICK nx1, pv1 : nx1 = [nx EXCEPT ![p] = a] /\ pv1 = [pv EXCEPT ![a] = p] OBVIOUS
  <2>4. nx2 = [nx1 EXCEPT ![b] = x] /\ pv2 = [pv1 EXCEPT ![x] = b] BY <1>3, <2>3, Zenon
  <2>5. r1 = [next |-> nx, prev |-> pv1] BY <1>2, <2>11, <2>3, SetPrev, Zenon
  <2>6. r2 = [next |-> nx1, prev |-> pv1] BY <2>12, <2>3, <2>5, SetNext
  <2>7. r3 = [next |-> nx2, prev |-> pv1] BY <2>13, <2>4, <2>6, SetNext
  <2>8. r4 = [next |-> nx2, prev |-> pv2] BY <2>14, <2>4, <2>7, SetPrev
  <2> QED BY <2>2, <2>8
<1>5. nx2 \in [S -> T] /\ pv2 \in [S -> T] BY <1>2, <1>3
<1>6. \A z \in S : /\ nx2[z] = IF z = p THEN a ELSE IF z = b THEN x ELSE nx[z]
                   /\ pv2[z] = IF z = x THEN b ELSE IF z = a THEN p ELSE pv[z]
  BY <1>2, <1>3
<1> QED BY <1>1, <1>4, <1>5, <1>6 DEF IsSpliced

\* The entries after those of f went behind element k of the entries of h.
Moved(q, f, h, k) == [q EXCEPT ![h] = Mix(q[h], k, q[f]), ![f] = << >>]

(* Only one of the two sequences is the longer. *)
LEMMA MovedIs ==
  ASSUME NEW H, NEW E, NEW q \in [H -> Seq(E)], NEW f \in H, NEW h \in H, f # h, NEW k \in 0..Len(q[h])
  PROVE  /\ Moved(q, f, h, k) \in [H -> Seq(E)]
         /\ Moved(q, f, h, k)[f] = << >> /\ Moved(q, f, h, k)[h] = Mix(q[h], k, q[f])
         /\ \A g \in H : g # f /\ g # h => Moved(q, f, h, k)[g] = q[g]
<1>1. PICK w : w = Mix(q[h], k, q[f]) OBVIOUS
<1>2. w \in Seq(E)
  <2>1. PICK s \in Seq(E), r \in Seq(E), n \in Nat, m \in Nat : s = q[h] /\ r = q[f] /\ n = Len(s) /\ m = Len(r)
    OBVIOUS
  <2>2. MayMix(E, s, k, r, n, m) BY <2>1 DEF MayMix
  <2> QED BY <1>1, <2>1, <2>2, MixSpots
<1>3. Moved(q, f, h, k) = [q EXCEPT ![h] = w, ![f] = << >>] BY <1>1 DEF Moved
<1>4. << >> \in Seq(E) OBVIOUS
<1> QED BY <1>1, <1>2, <1>3, <1>4

\* Element l of the sequence of d was an element of one sequence.
ComesFrom(H, q, f, h, k, d, l) ==
  /\ d # f
  /\ \E c \in H : \E a \in 1..Len(q[c]) :
       /\ Moved(q, f, h, k)[d][l] = q[c][a]
       /\ c = IF d = h /\ k < l /\ l <= k + Len(q[f]) THEN f ELSE d
       /\ a = IF d # h \/ l <= k THEN l ELSE IF l <= k + Len(q[f]) THEN l - k ELSE l - Len(q[f])

(* Where the elements come from. *)
LEMMA MovedFrom ==
  ASSUME NEW H, NEW E, NEW q \in [H -> Seq(E)], NEW f \in H, NEW h \in H, f # h, NEW k \in 0..Len(q[h]),
         NEW d \in H, NEW l \in 1..Len(Moved(q, f, h, k)[d])
  PROVE  ComesFrom(H, q, f, h, k, d, l)
<1>1. PICK q2 : q2 = Moved(q, f, h, k) OBVIOUS
<1>2. q2 \in [H -> Seq(E)] /\ q2[f] = << >> /\ q2[h] = Mix(q[h], k, q[f]) /\ \A g \in H : g # f /\ g # h => q2[g] = q[g]
  BY <1>1, MovedIs
<1>3. d # f BY <1>1, <1>2
<1>4. CASE d # h BY <1>1, <1>2, <1>3, <1>4 DEF ComesFrom
<1>5. CASE d = h
  <2>1. PICK s \in Seq(E), r \in Seq(E), n \in Nat, m \in Nat : s = q[h] /\ r = q[f] /\ n = Len(s) /\ m = Len(r)
    OBVIOUS
  <2>2. MayMix(E, s, k, r, n, m) BY <2>1 DEF MayMix
  <2>21. Len(Mix(s, k, r)) = n + m BY <2>2, MixLen
  <2>3. q2[h] = Mix(s, k, r) /\ Len(q2[h]) = n + m BY <1>2, <2>1, <2>21
  <2>4. l \in 1..(n + m) /\ q2[h][l] = IF l <= k THEN s[l] ELSE IF l <= k + m THEN r[l - k] ELSE s[l - m]
    BY <1>1, <1>5, <2>1, <2>3 DEF Mix
  <2>5. CASE l <= k
    <3>1. l \in 1..n /\ ~(k < l) BY <2>1, <2>4, <2>5
    <3> QED BY <1>1, <1>5, <2>1, <2>4, <2>5, <3>1 DEF ComesFrom
  <2>6. CASE k < l /\ l <= k + m
    <3>1. l - k \in 1..m /\ ~(l <= k) BY <2>1, <2>4, <2>6
    <3> QED BY <1>1, <1>5, <2>1, <2>4, <2>6, <3>1 DEF ComesFrom
  <2>7. CASE k + m < l
    <3>1. l - m \in 1..n /\ ~(l <= k) /\ ~(l <= k + m) BY <2>1, <2>4, <2>7
    <3> QED BY <1>1, <1>5, <2>1, <2>4, <2>7, <3>1 DEF ComesFrom
  <2> QED BY <1>3, <2>1, <2>4, <2>5, <2>6, <2>7
<1> QED BY <1>3, <1>4, <1>5

(* Nothing gets lost. *)
LEMMA MovedKeeps ==
  ASSUME NEW H, NEW E, NEW q \in [H -> Seq(E)], NEW f \in H, NEW h \in H, f # h, NEW k \in 0..Len(q[h]), NEW z
  PROVE  Absent(H, Moved(q, f, h, k), z) <=> Absent(H, q, z)
<1>1. PICK q2 : q2 = Moved(q, f, h, k) OBVIOUS
<1>2. q2 \in [H -> Seq(E)] /\ q2[f] = << >> /\ q2[h] = Mix(q[h], k, q[f]) /\ \A g \in H : g # f /\ g # h => q2[g] = q[g]
  <2>1. /\ Moved(q, f, h, k) \in [H -> Seq(E)]
        /\ Moved(q, f, h, k)[f] = << >> /\ Moved(q, f, h, k)[h] = Mix(q[h], k, q[f])
        /\ \A g \in H : g # f /\ g # h => Moved(q, f, h, k)[g] = q[g]
    BY MovedIs, SMTT(30)
  <2> QED BY <1>1, <2>1
<1>3. PICK s \in Seq(E), r \in Seq(E), n \in Nat, m \in Nat : s = q[h] /\ r = q[f] /\ n = Len(s) /\ m = Len(r)
  OBVIOUS
<1>4. Len(q2[h]) = n + m
  <2>1. MayMix(E, s, k, r, n, m) BY <1>3 DEF MayMix
  <2>2. Len(Mix(s, k, r)) = n + m BY <2>1, MixLen
  <2> QED BY <1>2, <1>3, <2>2
<1>5. \A l \in 1..(n + m) : q2[h][l] = IF l <= k THEN s[l] ELSE IF l <= k + m THEN r[l - k] ELSE s[l - m]
  BY <1>2, <1>3 DEF Mix
<1>6. ASSUME Absent(H, q, z), NEW d \in H, NEW l \in 1..Len(q2[d]) PROVE q2[d][l] # z
  <2>0. l \in 1..Len(Moved(q, f, h, k)[d]) BY <1>1, <1>6
  <2>1. ComesFrom(H, q, f, h, k, d, l)
    <3> HIDE <1>6
    <3> QED BY <2>0, MovedFrom
  <2>2. \E c \in H : \E a \in 1..Len(q[c]) : q2[d][l] = q[c][a] BY <1>1, <2>1 DEF ComesFrom
  <2> QED BY <1>6, <2>2 DEF Absent
<1>7. ASSUME Absent(H, q2, z), NEW d \in H, NEW l \in 1..Len(q[d]) PROVE q[d][l] # z
  <2>1. \A i \in 1..(n + m) : q2[h][i] # z BY <1>4, <1>7 DEF Absent
  <2>2. CASE d # f /\ d # h BY <1>2, <1>7, <2>2 DEF Absent
  <2>3. CASE d = f
    <3>1. l \in 1..m /\ l + k \in 1..(n + m) /\ ~(l + k <= k) /\ l + k <= k + m /\ (l + k) - k = l BY <1>3, <1>7, <2>3
    <3>2. q2[h][l + k] = r[l] BY <1>5, <3>1
    <3> QED BY <1>3, <2>1, <2>3, <3>1, <3>2
  <2>4. CASE d = h /\ l <= k
    <3>1. l \in 1..(n + m) BY <1>3, <1>7, <2>4
    <3>2. q2[h][l] = s[l] BY <1>5, <2>4, <3>1
    <3> QED BY <1>3, <2>1, <2>4, <3>1, <3>2
  <2>5. CASE d = h /\ ~(l <= k)
    <3>1. l + m \in 1..(n + m) /\ ~(l + m <= k) /\ ~(l + m <= k + m) /\ (l + m) - m = l BY <1>3, <1>7, <2>5
    <3>2. q2[h][l + m] = s[l] BY <1>5, <3>1
    <3> QED BY <1>3, <2>1, <2>5, <3>1, <3>2
  <2> QED BY <2>2, <2>3, <2>4, <2>5
<1>8. Absent(H, q2, z) => Absent(H, q, z) BY <1>7 DEF Absent
<1>9. Absent(H, q, z) => Absent(H, q2, z) BY <1>6 DEF Absent
<1> QED BY <1>1, <1>8, <1>9

(* The entries after a head go into another ring, and the head is left      *)
(* with its pointers.                                                       *)
LEMMA RingsSplice ==
  ASSUME NEW hp, NEW H, NEW E, NEW U, NEW q, Rings(hp, H, E, U, q),
         NEW f \in U, NEW h \in U, f # h, q[f] # << >>, NEW k \in 0..Len(q[h])
  PROVE  Rings(Spliced(hp, f, Spot(h, q[h], k), Spot(h, q[h], k + 1)), H, E, U \ {f}, Moved(q, f, h, k))
<1>0. f \in H /\ h \in H /\ U \subseteq H /\ H \cap E = {} /\ q \in [H -> Seq(E)] BY DEF Rings
<1>1. PICK s \in Seq(E), n \in Nat, r \in Seq(E), m \in Nat : s = q[h] /\ n = Len(s) /\ r = q[f] /\ m = Len(r) /\ m >= 1
  BY <1>0
<1>2. PICK S, T : S = H \cup E /\ T = S \cup {NULL} OBVIOUS
<1>3. PICK p \in S, x \in S : p = Spot(h, s, k) /\ x = Spot(h, s, k + 1)
  <2>1. k \in Int /\ k + 1 \in Int OBVIOUS
  <2> QED BY <1>0, <1>1, <1>2, <2>1, SpotTypes
<1>4. hp \in [next : [S -> T], prev : [S -> T]] /\ S \subseteq T BY <1>2 DEF Rings, Links
<1>5. PICK a \in E, b \in E : a = r[1] /\ b = r[m] BY <1>1, ElementOfSeq
<1>6. a = hp.next[f] /\ b = hp.prev[f]
  <2>1. hp.next[Spot(f, r, 0)] = Spot(f, r, 0 + 1) BY <1>1 DEF Rings
  <2>2. hp.prev[Spot(f, r, m + 1)] = Spot(f, r, m) BY <1>1 DEF Rings
  <2>3. Spot(f, r, 0) = f /\ Spot(f, r, 0 + 1) = a /\ Spot(f, r, m + 1) = f /\ Spot(f, r, m) = b
    BY <1>1, <1>5 DEF Spot
  <2> QED BY <2>1, <2>2, <2>3
<1>7. \A g \in H, i \in Int : Spot(g, q[g], i) \in S BY <1>2, SpotTypes
<1>8. \A j \in 0..m : \A g \in H : \A i \in 0..Len(q[g]) : Spot(f, r, j) = Spot(g, q[g], i) => g = f /\ i = j
  BY <1>0, <1>1, SpotsDiffer
<1>9. \A j \in 1..(m + 1) : \A g \in H : \A i \in 1..(Len(q[g]) + 1) : Spot(f, r, j) = Spot(g, q[g], i) => g = f /\ i = j
  BY <1>0, <1>1, SpotsBehindDiffer
<1>10. \A j \in 0..n : \A g \in H : \A i \in 0..Len(q[g]) : Spot(h, s, j) = Spot(g, q[g], i) => g = h /\ i = j
  BY <1>0, <1>1, SpotsDiffer
<1>11. \A j \in 1..(n + 1) : \A g \in H : \A i \in 1..(Len(q[g]) + 1) : Spot(h, s, j) = Spot(g, q[g], i) => g = h /\ i = j
  BY <1>0, <1>1, SpotsBehindDiffer
<1>12. \A i \in 1..m : Spot(f, r, i) = r[i] BY <1>1 DEF Spot
<1>13. a # f /\ a # x /\ b # p /\ a \in S /\ b \in S /\ f \in S
  <2>1. a # f /\ a \in S /\ b \in S /\ f \in S BY <1>0, <1>2, <1>5
  <2>2. a # x
    <3>1. 1 \in 1..(m + 1) /\ 1 \in 1..m /\ k + 1 \in 1..(Len(q[h]) + 1) BY <1>1
    <3>2. Spot(f, r, 1) = a BY <1>5, <1>12, <3>1
    <3>3. Spot(f, r, 1) # Spot(h, q[h], k + 1) BY <1>0, <1>9, <3>1
    <3> QED BY <1>1, <1>3, <3>2, <3>3
  <2>3. b # p
    <3>1. m \in 0..m /\ m \in 1..m /\ k \in 0..Len(q[h]) BY <1>1
    <3>2. Spot(f, r, m) = b BY <1>5, <1>12, <3>1
    <3>3. Spot(f, r, m) # Spot(h, q[h], k) BY <1>0, <1>8, <3>1
    <3> QED BY <1>1, <1>3, <3>2, <3>3
  <2> QED BY <2>1, <2>2, <2>3
<1>14. PICK hp2 : hp2 = Spliced(hp, f, p, x) OBVIOUS
<1>15. /\ hp2 \in [next : [S -> T], prev : [S -> T]]
       /\ \A z \in S : /\ hp2.next[z] = IF z = p THEN a ELSE IF z = b THEN x ELSE hp.next[z]
                       /\ hp2.prev[z] = IF z = x THEN b ELSE IF z = a THEN p ELSE hp.prev[z]
  <2>1. a \in S /\ b \in S /\ f \in S /\ p \in S /\ x \in S BY <1>3, <1>13
  <2>2. IsSpliced(S, T, hp, Spliced(hp, f, p, x), a, b, p, x) BY <1>4, <1>6, <1>13, <2>1, SplicedIs
  <2> QED BY <1>14, <2>2 DEF IsSpliced
<1>16. PICK q2 : q2 = Moved(q, f, h, k) OBVIOUS
<1>17. PICK w : w = Mix(s, k, r) OBVIOUS
<1>18. /\ q2 \in [H -> Seq(E)] /\ q2[f] = << >> /\ q2[h] = w
       /\ \A g \in H : g # f /\ g # h => q2[g] = q[g]
  BY <1>0, <1>1, <1>16, <1>17, MovedIs
<1>19. /\ w \in Seq(E) /\ Len(w) = n + m
       /\ \A i \in 0..(n + m + 1) :
            Spot(h, w, i) = IF i <= k THEN Spot(h, s, i) ELSE IF i <= k + m THEN r[i - k] ELSE Spot(h, s, i - m)
  <2>1. MayMix(E, s, k, r, n, m) BY <1>1 DEF MayMix
  <2>2. Len(w) = n + m BY <1>17, <2>1, MixLen
  <2>3. w \in Seq(E) /\ Mixed(h, s, k, r, w) BY <1>17, <2>1, MixSpots
  <2> QED BY <1>1, <2>2, <2>3 DEF Mixed
<1>20. \A g \in U : \A i \in 0..Len(q[g]) : /\ hp.next[Spot(g, q[g], i)] = Spot(g, q[g], i + 1)
                                       /\ hp.prev[Spot(g, q[g], i + 1)] = Spot(g, q[g], i)
  BY DEF Rings
<1>21. ASSUME NEW g \in U \ {f}, NEW i \in 0..Len(q2[g])
       PROVE  /\ hp2.next[Spot(g, q2[g], i)] = Spot(g, q2[g], i + 1)
              /\ hp2.prev[Spot(g, q2[g], i + 1)] = Spot(g, q2[g], i)
  <2>0. g \in H /\ g # f BY <1>0
  <2>1. CASE g # h
    <3>1. q2[g] = q[g] /\ i \in 0..Len(q[g]) /\ Len(q[g]) \in Nat BY <1>18, <1>21, <2>0, <2>1, SpotTypes
    <3>2. i \in Int /\ i + 1 \in Int /\ i + 1 \in 1..(Len(q[g]) + 1) BY <3>1
    <3>3. k \in 0..n /\ k + 1 \in 1..(n + 1) /\ 1 \in 1..(m + 1) /\ 1 \in 1..m /\ m \in 0..m /\ m \in 1..m BY <1>1
    <3>4. Spot(g, q[g], i) # p /\ Spot(g, q[g], i + 1) # x BY <1>3, <1>10, <1>11, <2>0, <2>1, <3>1, <3>2, <3>3
    <3>5. Spot(g, q[g], i) # b /\ Spot(g, q[g], i + 1) # a BY <1>5, <1>8, <1>9, <1>12, <2>0, <3>1, <3>2, <3>3
    <3>6. Spot(g, q[g], i) \in S /\ Spot(g, q[g], i + 1) \in S BY <1>7, <2>0, <3>2
    <3>7. hp.next[Spot(g, q[g], i)] = Spot(g, q[g], i + 1) /\ hp.prev[Spot(g, q[g], i + 1)] = Spot(g, q[g], i)
      BY <1>20, <3>1
    <3> QED BY <1>15, <3>1, <3>4, <3>5, <3>6, <3>7
  <2>2. CASE g = h
    <3>1. q2[g] = w /\ i \in 0..(n + m) BY <1>18, <1>19, <2>2
    <3>2. \A j \in 0..n : /\ hp.next[Spot(h, s, j)] = Spot(h, s, j + 1)
                          /\ hp.prev[Spot(h, s, j + 1)] = Spot(h, s, j)
      BY <1>1, <1>20
    <3>3. \A j \in 0..m : /\ hp.next[Spot(f, r, j)] = Spot(f, r, j + 1)
                          /\ hp.prev[Spot(f, r, j + 1)] = Spot(f, r, j)
      BY <1>1, <1>20
    <3>4. \A j \in 0..n : (j # k => Spot(h, s, j) # p) /\ Spot(h, s, j) # b /\ Spot(h, s, j) \in S
      <4> TAKE j \in 0..n
      <4>1. k \in 0..n /\ m \in 0..m /\ m \in 1..m /\ j \in Int BY <1>1
      <4> QED BY <1>0, <1>1, <1>3, <1>5, <1>7, <1>8, <1>10, <1>12, <4>1
    <3>5. \A j \in 1..(n + 1) : (j # k + 1 => Spot(h, s, j) # x) /\ Spot(h, s, j) # a /\ Spot(h, s, j) \in S
      <4> TAKE j \in 1..(n + 1)
      <4>1. k + 1 \in 1..(n + 1) /\ 1 \in 1..(m + 1) /\ 1 \in 1..m /\ j \in Int BY <1>1
      <4> QED BY <1>0, <1>1, <1>3, <1>5, <1>7, <1>9, <1>11, <1>12, <4>1
    <3>6. \A j \in 1..m : /\ r[j] # p /\ r[j] # x /\ r[j] \in S
                          /\ j # 1 => r[j] # a
                          /\ j # m => r[j] # b
      <4> TAKE j \in 1..m
      <4>1. k \in 0..n /\ k + 1 \in 1..(n + 1) /\ 1 \in 1..(m + 1) /\ 1 \in 1..m /\ m \in 1..m /\ m \in 0..m
            /\ j \in 0..m /\ j \in 1..(m + 1) /\ j \in Int
        BY <1>1
      <4>2. r[j] = Spot(f, r, j) BY <1>12
      <4>3. r[j] \in S BY <1>0, <1>1, <1>7, <4>1, <4>2
      <4>4. r[j] # p BY <1>0, <1>1, <1>3, <1>8, <4>1, <4>2
      <4>5. r[j] # x BY <1>0, <1>1, <1>3, <1>9, <4>1, <4>2
      <4>6. j # 1 => r[j] # a BY <1>0, <1>1, <1>5, <1>9, <1>12, <4>1, <4>2
      <4>7. j # m => r[j] # b BY <1>0, <1>1, <1>5, <1>8, <1>12, <4>1, <4>2
      <4> QED BY <4>3, <4>4, <4>5, <4>6, <4>7
    <3>12. m \in Nat /\ n \in Nat /\ k \in Int /\ 0 <= k /\ k <= n /\ i \in Int /\ 0 <= i /\ i <= n + m /\ 1 <= m
      <4>1. m \in Int /\ n \in Int /\ m >= 1 BY <1>1
      <4>2. \A u, v, y \in Int : y \in 0..(u + v) => y \in Int /\ 0 <= y /\ y <= u + v OBVIOUS
      <4>3. i \in Int
        <5>1. q2[g] \in Seq(E) BY <1>18, <2>0
        <5> QED BY <5>1
      <4>4. 0 <= i /\ i <= n + m BY <3>1, <4>1, <4>2, <4>3, Zenon
      <4>5. k \in Int /\ 0 <= k /\ k <= n BY <1>1
      <4> QED BY <4>1, <4>3, <4>4, <4>5
    <3>7. CASE i + 1 <= k
      <4>1. i \in 0..n /\ i # k /\ i + 1 \in 1..(n + 1) /\ i + 1 # k + 1 /\ i <= k /\ i \in 0..(n + m + 1) /\ i + 1 \in 0..(n + m + 1)
        BY <3>12, <3>7, SMTT(40)
      <4>2. Spot(h, w, i) = Spot(h, s, i) /\ Spot(h, w, i + 1) = Spot(h, s, i + 1) BY <1>19, <3>7, <4>1
      <4>3. hp2.next[Spot(h, s, i)] = hp.next[Spot(h, s, i)] BY <1>15, <3>4, <4>1
      <4>4. hp2.prev[Spot(h, s, i + 1)] = hp.prev[Spot(h, s, i + 1)] BY <1>15, <3>5, <4>1
      <4> QED BY <2>2, <3>1, <3>2, <4>1, <4>2, <4>3, <4>4
    <3>8. CASE i = k
      <4>1. i \in 0..(n + m + 1) /\ i + 1 \in 0..(n + m + 1) /\ i <= k /\ ~(i + 1 <= k) /\ i + 1 <= k + m /\ (i + 1) - k = 1
        BY <3>12, <3>8, SMTT(40)
      <4>2. Spot(h, w, i) = p /\ Spot(h, w, i + 1) = a
        <5>1. Spot(h, w, i) = Spot(h, s, i) BY <1>19, <4>1
        <5>2. Spot(h, w, i + 1) = r[(i + 1) - k] BY <1>19, <4>1
        <5> QED BY <1>3, <1>5, <3>8, <4>1, <5>1, <5>2
      <4> QED BY <1>3, <1>13, <1>15, <2>2, <3>1, <4>2
    <3>9. CASE k < i /\ i < k + m
      <4>1. /\ i \in 0..(n + m + 1) /\ i + 1 \in 0..(n + m + 1) /\ ~(i <= k) /\ ~(i + 1 <= k) /\ i <= k + m /\ i + 1 <= k + m
            /\ i - k \in 1..m /\ i - k # m /\ i - k \in 0..m /\ (i + 1) - k = (i - k) + 1
            /\ (i - k) + 1 \in 1..m /\ (i - k) + 1 # 1
        BY <3>12, <3>9, SMTT(40)
      <4>2. PICK j \in 1..m : j = i - k BY <4>1
      <4>3. Spot(h, w, i) = r[j] BY <1>19, <4>1, <4>2
      <4>4. Spot(h, w, i + 1) = r[j + 1]
        <5>1. Spot(h, w, i + 1) = r[(i + 1) - k] BY <1>19, <4>1
        <5> QED BY <4>1, <4>2, <5>1
      <4>5. j \in 0..m /\ j # m /\ j + 1 \in 1..m /\ j + 1 # 1 BY <4>1, <4>2
      <4>6. hp.next[r[j]] = r[j + 1] /\ hp.prev[r[j + 1]] = r[j] BY <1>12, <3>3, <4>5
      <4>7. hp2.next[r[j]] = hp.next[r[j]] BY <1>15, <3>6, <4>5
      <4>8. hp2.prev[r[j + 1]] = hp.prev[r[j + 1]] BY <1>15, <3>6, <4>5
      <4> QED BY <2>2, <3>1, <4>3, <4>4, <4>6, <4>7, <4>8
    <3>10. CASE i = k + m
      <4>1. /\ i \in 0..(n + m + 1) /\ i + 1 \in 0..(n + m + 1) /\ ~(i <= k) /\ i <= k + m /\ i - k = m
            /\ ~(i + 1 <= k) /\ ~(i + 1 <= k + m) /\ (i + 1) - m = k + 1
        BY <3>12, <3>10, SMTT(40)
      <4>2. Spot(h, w, i) = r[i - k] BY <1>19, <4>1
      <4>3. Spot(h, w, i + 1) = Spot(h, s, (i + 1) - m) BY <1>19, <4>1
      <4>4. Spot(h, w, i) = b /\ Spot(h, w, i + 1) = x BY <1>3, <1>5, <4>1, <4>2, <4>3
      <4> QED BY <1>3, <1>13, <1>15, <2>2, <3>1, <4>4
    <3>11. CASE i > k + m
      <4>1. PICK j \in 0..n : j = i - m BY <3>12, <3>11, SMTT(40)
      <4>2. /\ i \in 0..(n + m + 1) /\ i + 1 \in 0..(n + m + 1) /\ ~(i <= k) /\ ~(i <= k + m)
            /\ ~(i + 1 <= k) /\ ~(i + 1 <= k + m) /\ (i + 1) - m = j + 1 /\ j # k /\ j + 1 # k + 1 /\ j + 1 \in 1..(n + 1)
        BY <3>12, <3>11, <4>1, SMTT(40)
      <4>3. Spot(h, w, i) = Spot(h, s, j) BY <1>19, <4>1, <4>2
      <4>4. Spot(h, w, i + 1) = Spot(h, s, j + 1)
        <5>1. Spot(h, w, i + 1) = Spot(h, s, (i + 1) - m) BY <1>19, <4>2
        <5> QED BY <4>2, <5>1
      <4>5. hp2.next[Spot(h, s, j)] = hp.next[Spot(h, s, j)] BY <1>15, <3>4, <4>2
      <4>6. hp2.prev[Spot(h, s, j + 1)] = hp.prev[Spot(h, s, j + 1)] BY <1>15, <3>5, <4>2
      <4> QED BY <2>2, <3>1, <3>2, <4>3, <4>4, <4>5, <4>6
    <3> QED BY <1>1, <3>1, <3>7, <3>8, <3>9, <3>10, <3>11
  <2> QED BY <2>1, <2>2
<1>22. ASSUME NEW g \in H \ (U \ {f}) PROVE q2[g] = << >> /\ hp2.next[g] \in E
  <2>1. g \in S /\ g # b BY <1>0, <1>2, <1>5
  <2>2. p \in E \cup {h}
    <3>1. k \in Int OBVIOUS
    <3> QED BY <1>0, <1>1, <1>3, <3>1, SpotTypes
  <2>3. g # p BY <1>0, <1>22, <2>2
  <2>4. hp2.next[g] = hp.next[g] BY <1>15, <2>1, <2>3
  <2>5. CASE g = f BY <1>5, <1>6, <1>18, <2>4, <2>5
  <2>6. CASE g # f
    <3>1. q[g] = << >> /\ hp.next[g] \in E BY <2>6 DEF Rings
    <3>2. g # h BY <1>22
    <3> QED BY <1>18, <2>4, <2>6, <3>1, <3>2
  <2> QED BY <2>5, <2>6
<1>23. ASSUME NEW d \in H, NEW g \in H, NEW i \in 1..Len(q2[d]), NEW j \in 1..Len(q2[g]), q2[d][i] = q2[g][j]
       PROVE  d = g /\ i = j
  <2>1. ComesFrom(H, q, f, h, k, d, i) /\ ComesFrom(H, q, f, h, k, g, j)
    <3>1. i \in 1..Len(Moved(q, f, h, k)[d]) /\ j \in 1..Len(Moved(q, f, h, k)[g]) BY <1>16
    <3> QED BY <1>0, <3>1, MovedFrom
  <2>2. PICK c1 \in H : \E l \in 1..Len(q[c1]) :
          /\ q2[d][i] = q[c1][l]
          /\ c1 = IF d = h /\ k < i /\ i <= k + m THEN f ELSE d
          /\ l = IF d # h \/ i <= k THEN i ELSE IF i <= k + m THEN i - k ELSE i - m
    BY <1>1, <1>16, <2>1 DEF ComesFrom
  <2>3. PICK l1 \in 1..Len(q[c1]) :
          /\ q2[d][i] = q[c1][l1]
          /\ c1 = IF d = h /\ k < i /\ i <= k + m THEN f ELSE d
          /\ l1 = IF d # h \/ i <= k THEN i ELSE IF i <= k + m THEN i - k ELSE i - m
    BY <2>2
  <2>4. PICK c2 \in H : \E l \in 1..Len(q[c2]) :
          /\ q2[g][j] = q[c2][l]
          /\ c2 = IF g = h /\ k < j /\ j <= k + m THEN f ELSE g
          /\ l = IF g # h \/ j <= k THEN j ELSE IF j <= k + m THEN j - k ELSE j - m
    BY <1>1, <1>16, <2>1 DEF ComesFrom
  <2>5. PICK l2 \in 1..Len(q[c2]) :
          /\ q2[g][j] = q[c2][l2]
          /\ c2 = IF g = h /\ k < j /\ j <= k + m THEN f ELSE g
          /\ l2 = IF g # h \/ j <= k THEN j ELSE IF j <= k + m THEN j - k ELSE j - m
    BY <2>4
  <2>6. c1 = c2 /\ l1 = l2
    <3>1. \A c, e \in H : \A l \in 1..Len(q[c]), o \in 1..Len(q[e]) : q[c][l] = q[e][o] => c = e /\ l = o
      BY DEF Rings
    <3>2. q[c1][l1] = q[c2][l2] BY <1>23, <2>3, <2>5
    <3> QED BY <3>1, <3>2
  <2>7. d # f /\ g # f BY <2>1 DEF ComesFrom
  <2>8. i \in Int /\ j \in Int /\ k \in Int /\ m \in Int OBVIOUS
  <2>9. d = g
    <3> SUFFICES ASSUME d # g PROVE FALSE OBVIOUS
    <3> QED BY <2>3, <2>5, <2>6, <2>7
  <2>10. CASE d # h BY <2>3, <2>5, <2>6, <2>9, <2>10
  <2>11. CASE d = h /\ c1 = f
    <3>1. k < i /\ i <= k + m /\ k < j /\ j <= k + m BY <2>3, <2>5, <2>6, <2>7, <2>9, <2>11
    <3>2. ~(i <= k) /\ ~(j <= k) BY <2>8, <3>1
    <3>3. l1 = i - k /\ l2 = j - k BY <2>3, <2>5, <2>9, <2>11, <3>1, <3>2
    <3>4. i - k = j - k BY <2>6, <3>3
    <3> QED BY <2>8, <2>9, <3>4
  <2>12. CASE d = h /\ c1 # f
    <3>1. ~(k < i /\ i <= k + m) /\ ~(k < j /\ j <= k + m) BY <2>3, <2>5, <2>6, <2>9, <2>12
    <3>2. l1 = (IF i <= k THEN i ELSE i - m) /\ l2 = IF j <= k THEN j ELSE j - m
      BY <2>3, <2>5, <2>8, <2>9, <2>12, <3>1
    <3>3. (IF i <= k THEN i ELSE i - m) = IF j <= k THEN j ELSE j - m BY <2>6, <3>2
    <3>4. i = j BY <2>8, <3>1, <3>3
    <3> QED BY <2>9, <3>4
  <2> QED BY <2>10, <2>11, <2>12
<1>24. ASSUME NEW z \in E, Absent(H, q2, z) PROVE hp2.next[z] = hp2.prev[z] /\ hp2.next[z] \in {NULL, z}
  <2>1. Absent(H, q, z)
    <3>1. Absent(H, Moved(q, f, h, k), z) BY <1>16, <1>24
    <3> QED BY <1>0, <3>1, MovedKeeps
  <2>2. z # a /\ z # b
    <3>1. 1 \in 1..Len(q[f]) /\ m \in 1..Len(q[f]) BY <1>1
    <3> QED BY <1>0, <1>1, <1>5, <2>1, <3>1 DEF Absent
  <2>3. \A i \in Int : Spot(h, s, i) # z
    <3> TAKE i \in Int
    <3>1. CASE i \in 1..n BY <1>0, <1>1, <2>1, <3>1 DEF Spot, Absent
    <3>2. CASE i \notin 1..n BY <1>0, <1>1, <3>2 DEF Spot
    <3> QED BY <3>1, <3>2
  <2>4. k \in Int /\ k + 1 \in Int OBVIOUS
  <2>5. z # p /\ z # x BY <1>3, <2>3, <2>4
  <2>6. hp.next[z] = hp.prev[z] /\ hp.next[z] \in {NULL, z} /\ z \in S BY <1>2, <2>1 DEF Rings
  <2> QED BY <1>15, <2>2, <2>5, <2>6
<1>25. IsFiniteSet(H \cup E) /\ NULL \notin H \cup E BY DEF Rings
<1>26. hp2 \in [next : Links(H, E), prev : Links(H, E)] BY <1>2, <1>15 DEF Links
<1>27. U \ {f} \subseteq H BY <1>0
<1>28. Rings(hp2, H, E, U \ {f}, q2)
  BY <1>0, <1>18, <1>21, <1>22, <1>23, <1>24, <1>25, <1>26, <1>27 DEF Rings
<1> QED BY <1>1, <1>3, <1>14, <1>16, <1>28

\* The links of hp2 are those of hp, but h points at itself.
IsInit(S, T, hp, hp2, h) ==
  /\ hp2 \in [next : [S -> T], prev : [S -> T]]
  /\ \A z \in S : /\ hp2.next[z] = IF z = h THEN h ELSE hp.next[z]
                  /\ hp2.prev[z] = IF z = h THEN h ELSE hp.prev[z]

(* What INIT_LIST_HEAD leaves. *)
LEMMA InitIs ==
  ASSUME NEW S, NEW T, NEW hp \in [next : [S -> T], prev : [S -> T]], NEW h \in S, h \in T
  PROVE  IsInit(S, T, hp, INIT_LIST_HEAD(hp, h), h)
<1>0. PICK hp2 : hp2 = INIT_LIST_HEAD(hp, h) OBVIOUS
<1>1. PICK nx, pv : nx = hp.next /\ pv = hp.prev OBVIOUS
<1>2. hp = [next |-> nx, prev |-> pv] /\ nx \in [S -> T] /\ pv \in [S -> T] BY <1>1
<1>3. PICK nx2, pv2 : nx2 = [nx EXCEPT ![h] = h] /\ pv2 = [pv EXCEPT ![h] = h] OBVIOUS
<1>4. hp2 = [next |-> nx2, prev |-> pv2]
  <2>1. PICK r1, r2 : r1 = [hp EXCEPT !.next[h] = h] /\ r2 = [r1 EXCEPT !.prev[h] = h] OBVIOUS
  <2>2. hp2 = r2 BY <1>0, <2>1, Zenon DEF INIT_LIST_HEAD
  <2>3. r1 = [next |-> nx2, prev |-> pv] BY <1>2, <1>3, <2>1, SetNext, Zenon
  <2>31. r2 = [r1 EXCEPT !.prev[h] = h] BY <2>1
  <2>4. r2 = [next |-> nx2, prev |-> pv2] BY <1>3, <2>31, <2>3, SetPrev
  <2> QED BY <2>2, <2>4
<1>5. nx2 \in [S -> T] /\ pv2 \in [S -> T] BY <1>2, <1>3
<1>6. \A z \in S : nx2[z] = (IF z = h THEN h ELSE nx[z]) /\ pv2[z] = IF z = h THEN h ELSE pv[z] BY <1>2, <1>3
<1> QED BY <1>0, <1>1, <1>4, <1>5, <1>6 DEF IsInit

(* A head without entries is initialised, for the first time or again. *)
LEMMA RingsInit ==
  ASSUME NEW hp, NEW H, NEW E, NEW U, NEW q, Rings(hp, H, E, U, q), NEW h \in H, q[h] = << >>
  PROVE  Rings(INIT_LIST_HEAD(hp, h), H, E, U \cup {h}, q)
<1>1. PICK S, T : S = H \cup E /\ T = S \cup {NULL} OBVIOUS
<1>2. /\ U \subseteq H /\ H \cap E = {} /\ q \in [H -> Seq(E)] /\ S \subseteq T
      /\ hp \in [next : [S -> T], prev : [S -> T]] /\ h \in S /\ h \in T
  BY <1>1 DEF Rings, Links
<1>3. PICK hp2 : hp2 = INIT_LIST_HEAD(hp, h) OBVIOUS
<1>4. /\ hp2 \in [next : [S -> T], prev : [S -> T]]
      /\ \A z \in S : /\ hp2.next[z] = IF z = h THEN h ELSE hp.next[z]
                      /\ hp2.prev[z] = IF z = h THEN h ELSE hp.prev[z]
  <2>1. IsInit(S, T, hp, INIT_LIST_HEAD(hp, h), h) BY <1>2, InitIs
  <2> QED BY <1>3, <2>1 DEF IsInit
<1>5. ASSUME NEW g \in U \cup {h}, NEW i \in 0..Len(q[g])
      PROVE  /\ hp2.next[Spot(g, q[g], i)] = Spot(g, q[g], i + 1)
             /\ hp2.prev[Spot(g, q[g], i + 1)] = Spot(g, q[g], i)
  <2>1. CASE g = h
    <3>1. i = 0 BY <2>1
    <3>2. Spot(g, q[g], i) = h /\ Spot(g, q[g], i + 1) = h BY <2>1, <3>1 DEF Spot
    <3> QED BY <1>2, <1>4, <3>2
  <2>2. CASE g # h
    <3>1. g \in H /\ g \in U BY <1>2, <2>2
    <3>2. Len(q[g]) \in Nat BY <3>1, SpotTypes
    <3>3. i \in Int /\ i + 1 \in Int BY <3>2
    <3>4. \A j \in Int : Spot(g, q[g], j) \in S /\ Spot(g, q[g], j) # h
      <4> TAKE j \in Int
      <4>1. CASE j \in 1..Len(q[g])
        <5>1. Spot(g, q[g], j) \in E BY <3>1, <4>1, SpotTypes
        <5> QED BY <1>1, <1>2, <5>1
      <4>2. CASE j \notin 1..Len(q[g])
        <5>1. Spot(g, q[g], j) = g BY <4>2 DEF Spot
        <5> QED BY <1>1, <2>2, <3>1, <5>1
      <4> QED BY <4>1, <4>2
    <3>5. hp.next[Spot(g, q[g], i)] = Spot(g, q[g], i + 1) /\ hp.prev[Spot(g, q[g], i + 1)] = Spot(g, q[g], i)
      BY <3>1 DEF Rings
    <3> QED BY <1>4, <3>3, <3>4, <3>5
  <2> QED BY <2>1, <2>2
<1>6. ASSUME NEW g \in H \ (U \cup {h}) PROVE q[g] = << >> /\ hp2.next[g] \in E
  <2>1. g \in S /\ g # h /\ q[g] = << >> /\ hp.next[g] \in E BY <1>1 DEF Rings
  <2> QED BY <1>4, <2>1
<1>7. ASSUME NEW z \in E, Absent(H, q, z) PROVE hp2.next[z] = hp2.prev[z] /\ hp2.next[z] \in {NULL, z}
  <2>1. z \in S /\ z # h /\ hp.next[z] = hp.prev[z] /\ hp.next[z] \in {NULL, z} BY <1>1, <1>2, <1>7 DEF Rings
  <2> QED BY <1>4, <2>1
<1>8. hp2 \in [next : Links(H, E), prev : Links(H, E)] BY <1>1, <1>4 DEF Links
<1>9. IsFiniteSet(H \cup E) /\ NULL \notin H \cup E
      /\ \A f, g \in H : \A i \in 1..Len(q[f]), j \in 1..Len(q[g]) : q[f][i] = q[g][j] => f = g /\ i = j
  BY DEF Rings
<1>10. U \cup {h} \subseteq H BY <1>2
<1> QED BY <1>2, <1>3, <1>5, <1>6, <1>7, <1>8, <1>9, <1>10 DEF Rings

(* Nothing is spliced from an empty ring. *)
LEMMA SpliceOfNothing ==
  ASSUME NEW hp, NEW H, NEW E, NEW U, NEW q, Rings(hp, H, E, U, q),
         NEW f \in U, NEW h \in U, f # h, q[f] = << >>, NEW k \in 0..Len(q[h]), NEW p, NEW x
  PROVE  Spliced(hp, f, p, x) = hp /\ Moved(q, f, h, k) = q
<1>1. f \in H /\ h \in H /\ q \in [H -> Seq(E)] BY DEF Rings
<1>2. hp.next[f] = f
  <2>1. 0 \in 0..Len(q[f]) OBVIOUS
  <2>2. hp.next[Spot(f, q[f], 0)] = Spot(f, q[f], 0 + 1) BY <2>1 DEF Rings
  <2>3. Spot(f, q[f], 0) = f /\ Spot(f, q[f], 0 + 1) = f BY DEF Spot
  <2> QED BY <2>2, <2>3
<1>3. Spliced(hp, f, p, x) = hp BY <1>2 DEF Spliced, list_empty
<1>4. Mix(q[h], k, q[f]) = q[h]
  <2>1. PICK s \in Seq(E), n \in Nat : s = q[h] /\ n = Len(s) BY <1>1
  <2>2. Len(q[f]) = 0 OBVIOUS
  <2>3. Mix(s, k, q[f]) = [i \in 1..n |-> IF i <= k THEN s[i] ELSE IF i <= k + 0 THEN q[f][i - k] ELSE s[i - 0]]
    BY <2>1, <2>2 DEF Mix
  <2>4. \A i \in 1..n : (IF i <= k THEN s[i] ELSE IF i <= k + 0 THEN q[f][i - k] ELSE s[i - 0]) = s[i] OBVIOUS
  <2>5. s = [i \in 1..n |-> s[i]] BY <2>1
  <2> QED BY <2>1, <2>3, <2>4, <2>5
<1>5. Moved(q, f, h, k) = q
  <2>1. q \in [H -> Seq(E)] /\ f \in H /\ h \in H /\ f # h BY <1>1
  <2>2. PICK q2 : q2 = Moved(q, f, h, k) OBVIOUS
  <2>3. q2 \in [H -> Seq(E)] /\ q2[f] = << >> /\ q2[h] = Mix(q[h], k, q[f]) /\ \A g \in H : g # f /\ g # h => q2[g] = q[g]
    BY <2>1, <2>2, MovedIs, SMTT(30)
  <2>4. \A g \in H : q2[g] = q[g] BY <1>4, <2>3
  <2>5. q2 = q BY <2>1, <2>3, <2>4
  <2> QED BY <2>2, <2>5
<1> QED BY <1>3, <1>5

(* list_splice, list_splice_tail and their forms that initialise the head. *)
LEMMA RingsSpliceCalls ==
  ASSUME NEW hp, NEW H, NEW E, NEW U, NEW q, Rings(hp, H, E, U, q), NEW f \in U, NEW h \in U, f # h
  PROVE  /\ \E U2 \in {U, U \ {f}} : Rings(list_splice(hp, f, h), H, E, U2, Moved(q, f, h, 0))
         /\ \E U2 \in {U, U \ {f}} : Rings(list_splice_tail(hp, f, h), H, E, U2, Moved(q, f, h, Len(q[h])))
         /\ Rings(list_splice_init(hp, f, h), H, E, U, Moved(q, f, h, 0))
         /\ Rings(list_splice_tail_init(hp, f, h), H, E, U, Moved(q, f, h, Len(q[h])))
<1>1. f \in H /\ h \in H /\ q \in [H -> Seq(E)] BY DEF Rings
<1>2. PICK n \in Nat : n = Len(q[h]) BY <1>1, SpotTypes
<1>3. 0 \in 0..n /\ n \in 0..n /\ n + 1 \notin 1..n OBVIOUS
<1>4. Spot(h, q[h], 0) = h /\ Spot(h, q[h], n + 1) = h BY <1>1, <1>2, <1>3 DEF Spot
<1>5. hp.next[h] = Spot(h, q[h], 0 + 1)
  <2>1. hp.next[Spot(h, q[h], 0)] = Spot(h, q[h], 0 + 1) BY <1>2, <1>3 DEF Rings
  <2> QED BY <1>4, <2>1
<1>6. hp.prev[h] = Spot(h, q[h], n)
  <2>1. hp.prev[Spot(h, q[h], n + 1)] = Spot(h, q[h], n) BY <1>2, <1>3 DEF Rings
  <2> QED BY <1>4, <2>1
<1>7. list_splice(hp, f, h) = Spliced(hp, f, Spot(h, q[h], 0), Spot(h, q[h], 0 + 1))
  BY <1>4, <1>5, Zenon DEF list_splice
<1>8. list_splice_tail(hp, f, h) = Spliced(hp, f, Spot(h, q[h], n), Spot(h, q[h], n + 1))
  BY <1>4, <1>6, Zenon DEF list_splice_tail
<1>9. ASSUME NEW k \in 0..n
      PROVE  \E U2 \in {U, U \ {f}} :
               Rings(Spliced(hp, f, Spot(h, q[h], k), Spot(h, q[h], k + 1)), H, E, U2, Moved(q, f, h, k))
  <2>1. CASE q[f] = << >> BY <1>2, <2>1, SpliceOfNothing
  <2>2. CASE q[f] # << >> BY <1>2, <2>2, RingsSplice
  <2> QED BY <2>1, <2>2
<1>10. PICK U2 \in {U, U \ {f}} : Rings(list_splice(hp, f, h), H, E, U2, Moved(q, f, h, 0)) BY <1>3, <1>7, <1>9
<1>11. PICK U3 \in {U, U \ {f}} : Rings(list_splice_tail(hp, f, h), H, E, U3, Moved(q, f, h, n)) BY <1>3, <1>8, <1>9
<1>12. U2 \cup {f} = U /\ U3 \cup {f} = U OBVIOUS
<1>13. Moved(q, f, h, 0)[f] = << >> /\ Moved(q, f, h, n)[f] = << >> BY <1>1, <1>2, <1>3, MovedIs
<1>14. Rings(list_splice_init(hp, f, h), H, E, U, Moved(q, f, h, 0))
  BY <1>1, <1>10, <1>12, <1>13, RingsInit DEF list_splice_init
<1>15. Rings(list_splice_tail_init(hp, f, h), H, E, U, Moved(q, f, h, n))
  BY <1>1, <1>11, <1>12, <1>13, RingsInit DEF list_splice_tail_init
<1> QED BY <1>2, <1>10, <1>11, <1>14, <1>15

\* What a loop has visited and then what lies before it: elements c + 1 to t.
Trip(S, c, t, vis) ==
  [i \in 1..(Len(vis) + t - c) |-> IF i <= Len(vis) THEN vis[i] ELSE S[c + i - Len(vis)]]

\* A loop that has visited vis and goes on behind element c up to element t
\* of S visits nothing twice, and what is in mem in that order.
Course(E, S, c, t, vis, mem) ==
  /\ S \in Seq(E) /\ vis \in Seq(E) /\ mem \in Seq(E)
  /\ t \in 0..Len(S) /\ c \in 0..t
  /\ Distinct(Trip(S, c, t, vis)) /\ InOrder(mem, Trip(S, c, t, vis))

\* The parts of a course, with numbers for the lengths.
CourseOf(E, S, c, t, vis, mem, n, v) ==
  /\ S \in Seq(E) /\ vis \in Seq(E) /\ mem \in Seq(E)
  /\ n \in Nat /\ n = Len(S) /\ v \in Nat /\ v = Len(vis)
  /\ c \in Int /\ t \in Int /\ 0 <= c /\ c <= t /\ t <= n

(* These are the parts. *)
LEMMA CourseParts ==
  ASSUME NEW E, NEW S, NEW c, NEW t, NEW vis, NEW mem, Course(E, S, c, t, vis, mem)
  PROVE  CourseOf(E, S, c, t, vis, mem, Len(S), Len(vis))
<1>1. S \in Seq(E) /\ vis \in Seq(E) /\ mem \in Seq(E) /\ t \in 0..Len(S) /\ c \in 0..t BY DEF Course
<1>2. Len(S) \in Nat /\ Len(vis) \in Nat BY <1>1
<1>3. c \in Int /\ t \in Int /\ 0 <= c /\ c <= t /\ t <= Len(S) BY <1>1, <1>2
<1> QED BY <1>1, <1>2, <1>3 DEF CourseOf

(* A trip is a sequence of the elements. *)
LEMMA TripIs ==
  ASSUME NEW E, NEW S, NEW c, NEW t, NEW vis, NEW mem, NEW n, NEW v, CourseOf(E, S, c, t, vis, mem, n, v)
  PROVE  /\ Trip(S, c, t, vis) = [i \in 1..(v + t - c) |-> IF i <= v THEN vis[i] ELSE S[c + i - v]]
         /\ Trip(S, c, t, vis) \in Seq(E) /\ Len(Trip(S, c, t, vis)) = v + t - c
<1>1. /\ S \in Seq(E) /\ vis \in Seq(E)
      /\ n \in Nat /\ n = Len(S) /\ v \in Nat /\ v = Len(vis)
      /\ c \in Int /\ t \in Int /\ 0 <= c /\ c <= t /\ t <= n
  BY DEF CourseOf
<1>2. PICK w : w = [i \in 1..(v + t - c) |-> IF i <= v THEN vis[i] ELSE S[c + i - v]] OBVIOUS
<1>3. Trip(S, c, t, vis) = w BY <1>1, <1>2 DEF Trip
<1>4. \A i \in 1..(v + t - c) : w[i] \in E
  <2> TAKE i \in 1..(v + t - c)
  <2>1. CASE i <= v
    <3>1. i \in 1..Len(vis) BY <1>1, <2>1
    <3> QED BY <1>1, <1>2, <2>1, <3>1, ElementOfSeq
  <2>2. CASE ~(i <= v)
    <3>1. c + i - v \in 1..Len(S) BY <1>1, <2>2
    <3> QED BY <1>1, <1>2, <2>2, <3>1, ElementOfSeq
  <2> QED BY <2>1, <2>2
<1>5. v + t - c \in Nat BY <1>1
<1>6. w \in Seq(E) /\ Len(w) = v + t - c BY <1>2, <1>4, <1>5
<1> QED BY <1>2, <1>3, <1>6

(* A course that has the same trip. *)
LEMMA SameTrip ==
  ASSUME NEW E, NEW S, NEW c, NEW t, NEW vis, NEW mem, Course(E, S, c, t, vis, mem),
         NEW S2, NEW c2, NEW t2, NEW vis2, CourseOf(E, S2, c2, t2, vis2, mem, Len(S2), Len(vis2)),
         Trip(S2, c2, t2, vis2) = Trip(S, c, t, vis)
  PROVE  Course(E, S2, c2, t2, vis2, mem)
<1>1. t2 \in 0..Len(S2) /\ c2 \in 0..t2 /\ S2 \in Seq(E) /\ vis2 \in Seq(E) /\ mem \in Seq(E) BY DEF CourseOf
<1>2. Distinct(Trip(S2, c2, t2, vis2)) /\ InOrder(mem, Trip(S2, c2, t2, vis2)) BY DEF Course
<1> QED BY <1>1, <1>2 DEF Course

(* The next element is visited. *)
LEMMA CourseVisits ==
  ASSUME NEW E, NEW S, NEW c, NEW t, NEW vis, NEW mem, Course(E, S, c, t, vis, mem), c < t
  PROVE  Course(E, S, c + 1, t, Append(vis, S[c + 1]), mem)
<1>1. PICK n, v : n = Len(S) /\ v = Len(vis) OBVIOUS
<1>2. CourseOf(E, S, c, t, vis, mem, n, v) BY <1>1, CourseParts
<1>3. /\ S \in Seq(E) /\ vis \in Seq(E) /\ mem \in Seq(E)
      /\ n \in Nat /\ v \in Nat /\ c \in Int /\ t \in Int /\ 0 <= c /\ c <= t /\ t <= n
  BY <1>2 DEF CourseOf
<1>4. S[c + 1] \in E
  <2>1. c + 1 \in 1..Len(S) BY <1>1, <1>3
  <2> QED BY <1>3, <2>1, ElementOfSeq
<1>5. PICK x \in E, vis2 \in Seq(E) : x = S[c + 1] /\ vis2 = Append(vis, x)
  <2>1. Append(vis, S[c + 1]) \in Seq(E) BY <1>3, <1>4
  <2> QED BY <1>4, <2>1
<1>6. Len(vis2) = v + 1 /\ \A i \in 1..(v + 1) : vis2[i] = IF i <= v THEN vis[i] ELSE x BY <1>1, <1>3, <1>5
<1>7. CourseOf(E, S, c + 1, t, vis2, mem, n, v + 1)
  <2>1. c + 1 \in Int /\ 0 <= c + 1 /\ c + 1 <= t /\ v + 1 \in Nat BY <1>3
  <2> QED BY <1>1, <1>3, <1>5, <1>6, <2>1 DEF CourseOf
<1>8. Trip(S, c, t, vis) = [i \in 1..(v + t - c) |-> IF i <= v THEN vis[i] ELSE S[c + i - v]] BY <1>2, TripIs
<1>9. Trip(S, c + 1, t, vis2) = [i \in 1..((v + 1) + t - (c + 1)) |-> IF i <= v + 1 THEN vis2[i] ELSE S[(c + 1) + i - (v + 1)]]
  BY <1>7, TripIs
<1>10. (v + 1) + t - (c + 1) = v + t - c BY <1>3
<1>11. ASSUME NEW i \in 1..(v + t - c)
       PROVE  (IF i <= v + 1 THEN vis2[i] ELSE S[(c + 1) + i - (v + 1)]) = IF i <= v THEN vis[i] ELSE S[c + i - v]
  <2>1. v + t - c \in Nat /\ i \in Int BY <1>3
  <2>2. CASE i <= v
    <3>1. i <= v + 1 /\ i \in 1..(v + 1) BY <1>3, <2>2
    <3> QED BY <1>6, <2>2, <3>1
  <2>3. CASE i = v + 1
    <3>1. i \in 1..(v + 1) /\ ~(i <= v) /\ i <= v + 1 /\ c + i - v = c + 1 BY <1>3, <2>3
    <3> QED BY <1>5, <1>6, <3>1
  <2>4. CASE v + 1 < i
    <3>1. ~(i <= v) /\ ~(i <= v + 1) /\ (c + 1) + i - (v + 1) = c + i - v BY <1>3, <2>1, <2>4
    <3> QED BY <3>1
  <2> QED BY <1>3, <2>1, <2>2, <2>3, <2>4
<1>12. Trip(S, c + 1, t, vis2) = Trip(S, c, t, vis) BY <1>8, <1>9, <1>10, <1>11
<1>13. CourseOf(E, S, c + 1, t, vis2, mem, Len(S), Len(vis2)) BY <1>1, <1>6, <1>7
<1> QED BY <1>5, <1>12, <1>13, SameTrip

(* The elements that lie before the loop have moved in the sequence. *)
LEMMA CourseShifts ==
  ASSUME NEW E, NEW S, NEW c, NEW t, NEW vis, NEW mem, Course(E, S, c, t, vis, mem),
         NEW S2 \in Seq(E), NEW c2 \in Int, NEW t2 \in Int, 0 <= c2, t2 <= Len(S2), t2 - c2 = t - c,
         \A j \in 1..(t - c) : S2[c2 + j] = S[c + j]
  PROVE  Course(E, S2, c2, t2, vis, mem)
<1>1. PICK n, v : n = Len(S) /\ v = Len(vis) OBVIOUS
<1>2. CourseOf(E, S, c, t, vis, mem, n, v) BY <1>1, CourseParts
<1>3. /\ S \in Seq(E) /\ vis \in Seq(E) /\ mem \in Seq(E)
      /\ n \in Nat /\ v \in Nat /\ c \in Int /\ t \in Int /\ 0 <= c /\ c <= t /\ t <= n
  BY <1>2 DEF CourseOf
<1>4. PICK n2 \in Nat : n2 = Len(S2) OBVIOUS
<1>5. CourseOf(E, S2, c2, t2, vis, mem, n2, v)
  <2>1. c2 <= t2 /\ t2 <= n2 BY <1>3, <1>4
  <2> QED BY <1>1, <1>3, <1>4, <2>1 DEF CourseOf
<1>6. Trip(S, c, t, vis) = [i \in 1..(v + t - c) |-> IF i <= v THEN vis[i] ELSE S[c + i - v]] BY <1>2, TripIs
<1>7. Trip(S2, c2, t2, vis) = [i \in 1..(v + t2 - c2) |-> IF i <= v THEN vis[i] ELSE S2[c2 + i - v]] BY <1>5, TripIs
<1>8. v + t2 - c2 = v + t - c BY <1>3
<1>9. ASSUME NEW i \in 1..(v + t - c)
      PROVE  (IF i <= v THEN vis[i] ELSE S2[c2 + i - v]) = IF i <= v THEN vis[i] ELSE S[c + i - v]
  <2>1. CASE i <= v BY <2>1
  <2>2. CASE ~(i <= v)
    <3>1. PICK j \in 1..(t - c) : j = i - v BY <1>3, <2>2
    <3>2. c2 + i - v = c2 + j /\ c + i - v = c + j BY <1>3, <3>1
    <3> QED BY <2>2, <3>2
  <2> QED BY <2>1, <2>2
<1>10. Trip(S2, c2, t2, vis) = Trip(S, c, t, vis) BY <1>6, <1>7, <1>8, <1>9
<1>11. CourseOf(E, S2, c2, t2, vis, mem, Len(S2), Len(vis)) BY <1>1, <1>4, <1>5
<1> QED BY <1>10, <1>11, SameTrip

(* An element is put in behind the loop, or beyond its bound. *)
LEMMA CourseInsOutside ==
  ASSUME NEW E, NEW S, NEW c, NEW t, NEW vis, NEW mem, Course(E, S, c, t, vis, mem),
         NEW k \in 0..Len(S), NEW e \in E
  PROVE  /\ k <= c => Course(E, Ins(S, k, e), c + 1, t + 1, vis, mem)
         /\ k >= t => Course(E, Ins(S, k, e), c, t, vis, mem)
<1>1. PICK n : n = Len(S) OBVIOUS
<1>2. CourseOf(E, S, c, t, vis, mem, n, Len(vis)) BY <1>1, CourseParts
<1>3. S \in Seq(E) /\ n \in Nat /\ c \in Int /\ t \in Int /\ 0 <= c /\ c <= t /\ t <= n
  BY <1>2 DEF CourseOf
<1>4. PICK S2 \in Seq(E) : S2 = Ins(S, k, e) /\ Len(S2) = n + 1
  <2>1. MayInsert(E, S, k, e, n) BY <1>1, <1>3 DEF MayInsert
  <2> QED BY <1>3, <2>1, InsSpots
<1>5. \A i \in 1..(n + 1) : S2[i] = IF i <= k THEN S[i] ELSE IF i = k + 1 THEN e ELSE S[i - 1]
  BY <1>1, <1>4 DEF Ins
<1>6. k \in Int /\ 0 <= k /\ k <= n BY <1>1, <1>3
<1>7. ASSUME k <= c PROVE Course(E, S2, c + 1, t + 1, vis, mem)
  <2>1. ASSUME NEW j \in 1..(t - c) PROVE S2[(c + 1) + j] = S[c + j]
    <3>1. (c + 1) + j \in 1..(n + 1) /\ ~((c + 1) + j <= k) /\ (c + 1) + j # k + 1 /\ ((c + 1) + j) - 1 = c + j
      BY <1>3, <1>6, <1>7
    <3> QED BY <1>5, <3>1
  <2>2. c + 1 \in Int /\ t + 1 \in Int /\ 0 <= c + 1 /\ t + 1 <= Len(S2) /\ (t + 1) - (c + 1) = t - c BY <1>3, <1>4
  <2> QED BY <1>3, <2>1, <2>2, CourseShifts
<1>8. ASSUME k >= t PROVE Course(E, S2, c, t, vis, mem)
  <2>1. ASSUME NEW j \in 1..(t - c) PROVE S2[c + j] = S[c + j]
    <3>1. c + j \in 1..(n + 1) /\ c + j <= k BY <1>3, <1>6, <1>8
    <3> QED BY <1>5, <3>1
  <2>2. t <= Len(S2) BY <1>3, <1>4
  <2> QED BY <1>3, <2>1, <2>2, CourseShifts
<1> QED BY <1>4, <1>7, <1>8

(* An element that the loop has passed is taken out. *)
LEMMA CourseDel ==
  ASSUME NEW E, NEW S, NEW c, NEW t, NEW vis, NEW mem, Course(E, S, c, t, vis, mem), NEW k \in 1..Len(S), k <= c
  PROVE  Course(E, Del(S, k), c - 1, t - 1, vis, mem)
<1>1. PICK n : n = Len(S) OBVIOUS
<1>2. CourseOf(E, S, c, t, vis, mem, n, Len(vis)) BY <1>1, CourseParts
<1>3. S \in Seq(E) /\ n \in Nat /\ c \in Int /\ t \in Int /\ 0 <= c /\ c <= t /\ t <= n
  BY <1>2 DEF CourseOf
<1>4. PICK S2 \in Seq(E) : S2 = Del(S, k) /\ Len(S2) = n - 1 BY <1>1, <1>3, DelSpots
<1>5. \A i \in 1..(n - 1) : S2[i] = IF i < k THEN S[i] ELSE S[i + 1] BY <1>1, <1>4 DEF Del
<1>6. k \in Int /\ 1 <= k /\ k <= n BY <1>1, <1>3
<1>7. ASSUME NEW j \in 1..(t - c) PROVE S2[(c - 1) + j] = S[c + j]
  <2>1. (c - 1) + j \in 1..(n - 1) /\ ~((c - 1) + j < k) /\ ((c - 1) + j) + 1 = c + j BY <1>3, <1>6
  <2> QED BY <1>5, <2>1
<1>8. c - 1 \in Int /\ t - 1 \in Int /\ 0 <= c - 1 /\ t - 1 <= Len(S2) /\ (t - 1) - (c - 1) = t - c BY <1>3, <1>4, <1>6
<1> QED BY <1>4, <1>7, <1>8, CourseShifts

\* e is not in s.
Lacks(s, e) == \A i \in 1..Len(s) : s[i] # e

\* InOrder of two sequences.
Ordered(t, s) ==
  /\ \A i \in 1..Len(t) : \E k \in 1..Len(s) : s[k] = t[i]
  /\ \A i, j \in 1..Len(t), k, l \in 1..Len(s) : i < j /\ s[k] = t[i] /\ s[l] = t[j] => k < l

(* What InOrder says of sequences. *)
LEMMA InOrderIs ==
  ASSUME NEW E, NEW t \in Seq(E), NEW s \in Seq(E)
  PROVE  InOrder(t, s) <=> Ordered(t, s)
<1>1. DOMAIN t = 1..Len(t) /\ DOMAIN s = 1..Len(s) OBVIOUS
<1>2. Range(t) \subseteq Range(s) <=> \A i \in 1..Len(t) : \E k \in 1..Len(s) : s[k] = t[i]
  BY <1>1 DEF Range
<1> QED BY <1>1, <1>2 DEF InOrder, Ordered

(* A new element does not disturb the order of the others. *)
LEMMA InsKeepsOrder ==
  ASSUME NEW E, NEW s \in Seq(E), NEW mem \in Seq(E), NEW k \in 0..Len(s), NEW e \in E, Lacks(s, e),
         Distinct(s), InOrder(mem, s)
  PROVE  Distinct(Ins(s, k, e)) /\ InOrder(mem, Ins(s, k, e))
<1>1. PICK n \in Nat, m \in Nat : n = Len(s) /\ m = Len(mem) OBVIOUS
<1>2. PICK w \in Seq(E) : w = Ins(s, k, e) /\ Len(w) = n + 1
  <2>1. MayInsert(E, s, k, e, n) BY <1>1 DEF MayInsert
  <2> QED BY <1>1, <2>1, InsSpots
<1>3. \A i \in 1..(n + 1) : w[i] = IF i <= k THEN s[i] ELSE IF i = k + 1 THEN e ELSE s[i - 1] BY <1>1, <1>2 DEF Ins
<1>4. \A i \in 1..(n + 1) : w[i] # e => \E a \in 1..n : w[i] = s[a] /\ a = IF i <= k THEN i ELSE i - 1
  <2> TAKE i \in 1..(n + 1)
  <2>1. CASE i <= k
    <3>1. i \in 1..n BY <1>1, <2>1
    <3> QED BY <1>3, <2>1, <3>1
  <2>2. CASE i = k + 1 BY <1>3, <2>2
  <2>3. CASE i > k + 1
    <3>1. i - 1 \in 1..n /\ ~(i <= k) /\ i # k + 1 BY <1>1, <2>3
    <3> QED BY <1>3, <3>1
  <2> QED BY <2>1, <2>2, <2>3
<1>5. \A i \in 1..(n + 1) : w[i] = e => i = k + 1
  <2> TAKE i \in 1..(n + 1)
  <2> SUFFICES ASSUME i # k + 1 PROVE w[i] # e OBVIOUS
  <2>1. CASE i <= k
    <3>1. i \in 1..n BY <1>1, <2>1
    <3> QED BY <1>1, <1>3, <2>1, <3>1 DEF Lacks
  <2>2. CASE i > k + 1
    <3>1. i - 1 \in 1..n /\ ~(i <= k) BY <1>1, <2>2
    <3> QED BY <1>1, <1>3, <2>2, <3>1 DEF Lacks
  <2> QED BY <2>1, <2>2
<1>6. \A a \in 1..n : \E i \in 1..(n + 1) : w[i] = s[a]
  <2> TAKE a \in 1..n
  <2>1. CASE a <= k
    <3>1. a \in 1..(n + 1) BY <1>1
    <3> QED BY <1>3, <2>1, <3>1
  <2>2. CASE a > k
    <3>1. a + 1 \in 1..(n + 1) /\ ~(a + 1 <= k) /\ a + 1 # k + 1 /\ (a + 1) - 1 = a BY <1>1, <2>2
    <3>2. w[a + 1] = s[a] BY <1>3, <3>1
    <3> QED BY <3>1, <3>2
  <2> QED BY <2>1, <2>2
<1>7. Distinct(w)
  <2> SUFFICES ASSUME NEW i \in 1..(n + 1), NEW j \in 1..(n + 1), w[i] = w[j] PROVE i = j BY <1>2 DEF Distinct
  <2>1. CASE w[i] = e BY <1>5, <2>1
  <2>2. CASE w[i] # e
    <3>1. PICK a \in 1..n : w[i] = s[a] /\ a = IF i <= k THEN i ELSE i - 1 BY <1>4, <2>2
    <3>2. PICK b \in 1..n : w[j] = s[b] /\ b = IF j <= k THEN j ELSE j - 1 BY <1>4, <2>2
    <3>3. a = b BY <1>1, <3>1, <3>2 DEF Distinct
    <3>4. i # k + 1 /\ j # k + 1 BY <1>3, <2>2
    <3>5. i \in Int /\ j \in Int /\ k \in Int BY <1>1
    <3> QED BY <3>1, <3>2, <3>3, <3>4, <3>5
  <2> QED BY <2>1, <2>2
<1>8. /\ \A i \in 1..m : \E a \in 1..n : s[a] = mem[i]
      /\ \A i, j \in 1..m, a, b \in 1..n : i < j /\ s[a] = mem[i] /\ s[b] = mem[j] => a < b
  <2>1. Ordered(mem, s) BY InOrderIs
  <2> QED BY <1>1, <2>1 DEF Ordered
<1>9. \A i \in 1..m : (\E l \in 1..(n + 1) : w[l] = mem[i]) /\ mem[i] # e
  <2> TAKE i \in 1..m
  <2>1. PICK a \in 1..n : s[a] = mem[i] BY <1>8
  <2>2. mem[i] # e BY <1>1, <2>1 DEF Lacks
  <2> QED BY <1>6, <2>1, <2>2
<1>10. ASSUME NEW i \in 1..m, NEW j \in 1..m, NEW l \in 1..(n + 1), NEW o \in 1..(n + 1), i < j, w[l] = mem[i], w[o] = mem[j]
       PROVE  l < o
  <2>1. PICK a \in 1..n : w[l] = s[a] /\ a = IF l <= k THEN l ELSE l - 1 BY <1>4, <1>9, <1>10
  <2>2. PICK b \in 1..n : w[o] = s[b] /\ b = IF o <= k THEN o ELSE o - 1 BY <1>4, <1>9, <1>10
  <2>3. a < b BY <1>8, <1>10, <2>1, <2>2, ZenonT(40)
  <2>4. l # k + 1 /\ o # k + 1 BY <1>3, <1>9, <1>10, SMTT(30)
  <2>5. l \in Int /\ o \in Int /\ k \in Int BY <1>1
  <2> QED BY <2>1, <2>2, <2>3, <2>4, <2>5
<1>11. InOrder(mem, w)
  <2>1. Ordered(mem, w) BY <1>1, <1>2, <1>9, <1>10 DEF Ordered
  <2> QED BY <2>1, InOrderIs
<1> QED BY <1>2, <1>7, <1>11

(* An element is put in ahead of the loop. *)
LEMMA CourseInsAhead ==
  ASSUME NEW E, NEW S, NEW c, NEW t, NEW vis, NEW mem, Course(E, S, c, t, vis, mem),
         NEW k \in c..t, NEW e \in E, Lacks(S, e), Lacks(vis, e)
  PROVE  Course(E, Ins(S, k, e), c, t + 1, vis, mem)
<1>1. PICK n, v : n = Len(S) /\ v = Len(vis) OBVIOUS
<1>2. CourseOf(E, S, c, t, vis, mem, n, v) BY <1>1, CourseParts
<1>3. /\ S \in Seq(E) /\ vis \in Seq(E) /\ mem \in Seq(E)
      /\ n \in Nat /\ v \in Nat /\ c \in Int /\ t \in Int /\ 0 <= c /\ c <= t /\ t <= n
  BY <1>2 DEF CourseOf
<1>4. k \in Int /\ c <= k /\ k <= t /\ k \in 0..n BY <1>3
<1>5. PICK S2 \in Seq(E) : S2 = Ins(S, k, e) /\ Len(S2) = n + 1
  <2>1. MayInsert(E, S, k, e, n) BY <1>1, <1>3, <1>4 DEF MayInsert
  <2> QED BY <1>3, <2>1, InsSpots
<1>6. \A i \in 1..(n + 1) : S2[i] = IF i <= k THEN S[i] ELSE IF i = k + 1 THEN e ELSE S[i - 1]
  BY <1>1, <1>5 DEF Ins
<1>7. CourseOf(E, S2, c, t + 1, vis, mem, n + 1, v)
  <2>1. n + 1 \in Nat /\ t + 1 \in Int /\ c <= t + 1 /\ t + 1 <= n + 1 BY <1>3
  <2> QED BY <1>1, <1>3, <1>5, <2>1 DEF CourseOf
<1>8. PICK T \in Seq(E), L \in Nat : T = Trip(S, c, t, vis) /\ L = v + t - c /\ Len(T) = L
                                    /\ T = [i \in 1..L |-> IF i <= v THEN vis[i] ELSE S[c + i - v]]
  <2>1. v + t - c \in Nat BY <1>3
  <2> QED BY <1>2, <2>1, TripIs
<1>9. PICK T2 \in Seq(E) : T2 = Trip(S2, c, t + 1, vis)
                           /\ T2 = [i \in 1..(L + 1) |-> IF i <= v THEN vis[i] ELSE S2[c + i - v]]
  <2>1. v + (t + 1) - c = L + 1 BY <1>3, <1>8
  <2> QED BY <1>7, <2>1, TripIs
<1>10. PICK o \in 0..L : o = v + k - c BY <1>3, <1>4, <1>8
<1>11. Ins(T, o, e) = [i \in 1..(L + 1) |-> IF i <= o THEN T[i] ELSE IF i = o + 1 THEN e ELSE T[i - 1]]
  BY <1>8 DEF Ins
<1>12. ASSUME NEW i \in 1..(L + 1)
       PROVE  (IF i <= v THEN vis[i] ELSE S2[c + i - v]) = IF i <= o THEN T[i] ELSE IF i = o + 1 THEN e ELSE T[i - 1]
  <2>1. i \in Int /\ 1 <= i /\ i <= L + 1 /\ o \in Int /\ o >= v BY <1>3, <1>4, <1>8, <1>10
  <2>2. CASE i <= v
    <3>1. i <= o /\ i \in 1..L BY <1>3, <1>4, <1>8, <1>10, <2>1, <2>2
    <3> QED BY <1>8, <2>2, <3>1
  <2>3. CASE ~(i <= v) /\ i <= o
    <3>1. i \in 1..L /\ c + i - v \in 1..(n + 1) /\ c + i - v <= k BY <1>3, <1>4, <1>8, <1>10, <2>1, <2>3
    <3> QED BY <1>6, <1>8, <2>3, <3>1
  <2>4. CASE i = o + 1
    <3>1. ~(i <= v) /\ ~(i <= o) /\ c + i - v = k + 1 /\ k + 1 \in 1..(n + 1) /\ ~(k + 1 <= k)
      BY <1>3, <1>4, <1>8, <1>10, <2>1, <2>4
    <3>2. S2[k + 1] = e BY <1>6, <3>1
    <3> QED BY <2>4, <3>1, <3>2
  <2>5. CASE i > o + 1
    <3>1. /\ ~(i <= v) /\ ~(i <= o) /\ i # o + 1 /\ c + i - v \in 1..(n + 1) /\ ~(c + i - v <= k) /\ c + i - v # k + 1
          /\ i - 1 \in 1..L /\ ~(i - 1 <= v) /\ c + (i - 1) - v = (c + i - v) - 1
      BY <1>3, <1>4, <1>8, <1>10, <2>1, <2>5
    <3>2. S2[c + i - v] = S[(c + i - v) - 1] BY <1>6, <3>1
    <3>3. T[i - 1] = S[c + (i - 1) - v] BY <1>8, <3>1
    <3> QED BY <3>1, <3>2, <3>3
  <2> QED BY <2>1, <2>2, <2>3, <2>4, <2>5
<1>13. T2 = Ins(T, o, e) BY <1>9, <1>11, <1>12
<1>14. Distinct(T) /\ InOrder(mem, T) BY <1>8 DEF Course
<1>15. Lacks(T, e)
  <2> SUFFICES ASSUME NEW i \in 1..L PROVE T[i] # e BY <1>8 DEF Lacks
  <2>1. CASE i <= v
    <3>1. i \in 1..Len(vis) BY <1>1, <1>3, <2>1
    <3> QED BY <1>8, <2>1, <3>1 DEF Lacks
  <2>2. CASE ~(i <= v)
    <3>1. c + i - v \in 1..Len(S) BY <1>1, <1>3, <1>8, <2>2
    <3> QED BY <1>8, <2>2, <3>1 DEF Lacks
  <2> QED BY <2>1, <2>2
<1>16. Distinct(T2) /\ InOrder(mem, T2)
  <2>1. o \in 0..Len(T) BY <1>8
  <2> QED BY <1>3, <1>13, <1>14, <1>15, <2>1, InsKeepsOrder
<1>17. c \in 0..(t + 1) /\ t + 1 \in 0..Len(S2) BY <1>3, <1>5
<1> QED BY <1>3, <1>5, <1>9, <1>16, <1>17 DEF Course

(* A loop starts before element c + 1, with what lies before it. *)
LEMMA CourseStarts ==
  ASSUME NEW E, NEW S \in Seq(E), Distinct(S), NEW t \in 0..Len(S), NEW c \in 0..t
  PROVE  Course(E, S, c, t, << >>, SubSeq(S, c + 1, t))
<1>1. PICK n \in Nat : n = Len(S) OBVIOUS
<1>2. t \in Int /\ c \in Int /\ 0 <= c /\ c <= t /\ t <= n BY <1>1
<1>3. PICK mem : mem = SubSeq(S, c + 1, t) OBVIOUS
<1>4. mem \in Seq(E) /\ Len(mem) = t - c /\ \A i \in 1..(t - c) : mem[i] = S[c + i]
  <2>1. \A i \in (c + 1)..t : S[i] \in E
    <3> TAKE i \in (c + 1)..t
    <3>1. i \in 1..Len(S) BY <1>1, <1>2
    <3> QED BY <3>1, ElementOfSeq
  <2>2. mem = [i \in 1..(t - c) |-> S[c + i]]
    <3>1. \A i \in 1..(t - c) : i + (c + 1) - 1 = c + i BY <1>2
    <3>2. c + 1 \in Int /\ 1 + t - (c + 1) = t - c /\ t - (c + 1) + 1 = t - c BY <1>2
    <3>3. SubSeq(S, c + 1, t) = [i \in 1..(1 + t - (c + 1)) |-> S[i + (c + 1) - 1]] BY <1>2, <3>2
    <3> QED BY <1>3, <3>1, <3>2, <3>3
  <2>3. t - c \in Nat BY <1>2
  <2>4. \A i \in 1..(t - c) : S[c + i] \in E
    <3> TAKE i \in 1..(t - c)
    <3>1. c + i \in (c + 1)..t BY <1>2
    <3> QED BY <2>1, <3>1
  <2> QED BY <2>2, <2>3, <2>4
<1>5. CourseOf(E, S, c, t, << >>, mem, n, 0)
  <2>1. << >> \in Seq(E) /\ Len(<< >>) = 0 OBVIOUS
  <2> QED BY <1>1, <1>2, <1>4, <2>1 DEF CourseOf
<1>6. Trip(S, c, t, << >>) = [i \in 1..(0 + t - c) |-> IF i <= 0 THEN << >>[i] ELSE S[c + i - 0]] BY <1>5, TripIs, SMTT(30)
<1>7. 0 + t - c = t - c BY <1>2
<1>8. \A i \in 1..(t - c) : (IF i <= 0 THEN << >>[i] ELSE S[c + i - 0]) = mem[i]
  <2> TAKE i \in 1..(t - c)
  <2>1. ~(i <= 0) /\ c + i - 0 = c + i BY <1>2
  <2> QED BY <1>4, <2>1
<1>9. mem = [i \in 1..(t - c) |-> mem[i]] BY <1>4
<1>10. Trip(S, c, t, << >>) = mem BY <1>6, <1>7, <1>8, <1>9
<1>11. ASSUME NEW i \in 1..(t - c), NEW j \in 1..(t - c), mem[i] = mem[j] PROVE i = j
  <2>1. c + i \in 1..Len(S) /\ c + j \in 1..Len(S) BY <1>1, <1>2
  <2>2. c + i = c + j BY <1>4, <1>11, <2>1 DEF Distinct
  <2> QED BY <1>2, <2>2
<1>12. Distinct(mem) BY <1>4, <1>11 DEF Distinct
<1>13. InOrder(mem, mem)
  <2>1. \A i, j \in 1..Len(mem), k, l \in 1..Len(mem) : i < j /\ mem[k] = mem[i] /\ mem[l] = mem[j] => k < l
    BY <1>4, <1>12 DEF Distinct
  <2>2. Ordered(mem, mem) BY <2>1 DEF Ordered
  <2> QED BY <1>4, <2>2, InOrderIs
<1>14. << >> \in Seq(E) OBVIOUS
<1> QED BY <1>3, <1>4, <1>10, <1>12, <1>13, <1>14 DEF Course

(* What it has visited, and at the end. *)
LEMMA CourseEnds ==
  ASSUME NEW E, NEW S, NEW c, NEW t, NEW vis, NEW mem, Course(E, S, c, t, vis, mem)
  PROVE  vis \in Seq(E) /\ Distinct(vis) /\ (c = t => InOrder(mem, vis))
<1>1. PICK n, v : n = Len(S) /\ v = Len(vis) OBVIOUS
<1>2. CourseOf(E, S, c, t, vis, mem, n, v) BY <1>1, CourseParts
<1>3. /\ S \in Seq(E) /\ vis \in Seq(E) /\ mem \in Seq(E)
      /\ n \in Nat /\ v \in Nat /\ c \in Int /\ t \in Int /\ 0 <= c /\ c <= t /\ t <= n
  BY <1>2 DEF CourseOf
<1>4. PICK T : T = Trip(S, c, t, vis) OBVIOUS
<1>5. T = [i \in 1..(v + t - c) |-> IF i <= v THEN vis[i] ELSE S[c + i - v]] /\ Len(T) = v + t - c
  BY <1>2, <1>4, TripIs
<1>6. Distinct(T) /\ InOrder(mem, T) BY <1>4 DEF Course
<1>7. \A i \in 1..v : i \in 1..(v + t - c) /\ T[i] = vis[i] BY <1>3, <1>5
<1>8. Distinct(vis)
  <2> SUFFICES ASSUME NEW i \in 1..v, NEW j \in 1..v, vis[i] = vis[j] PROVE i = j BY <1>1 DEF Distinct
  <2>1. i \in 1..Len(T) /\ j \in 1..Len(T) /\ T[i] = T[j] BY <1>5, <1>7
  <2> QED BY <1>6, <2>1 DEF Distinct
<1>9. c = t => T = vis
  <2> SUFFICES ASSUME c = t PROVE T = vis OBVIOUS
  <2>1. v + t - c = v BY <1>3
  <2>2. T = [i \in 1..v |-> vis[i]] BY <1>5, <2>1
  <2> QED BY <1>1, <1>3, <2>2
<1> QED BY <1>3, <1>6, <1>8, <1>9

\* Where the pointers p and n of a loop over the elements up to t of the ring
\* S of head h are: behind the last element; before element c + 1; the same,
\* with n behind element d (the _safe loops); at element c; at an element that
\* may have gone, with n behind element c.
AtEnd(E, h, S, t, p, vis, mem) == p = Spot(h, S, t + 1) /\ Course(E, S, t, t, vis, mem)

AtPlain(E, h, S, t, p, vis, mem, c) ==
  c \in 0..(t - 1) /\ p = Spot(h, S, c + 1) /\ Course(E, S, c, t, vis, mem)

AtSafe(E, h, S, t, p, n, vis, mem, c, d) ==
  /\ c \in 0..(t - 1) /\ d \in (c + 1)..t /\ p = Spot(h, S, c + 1) /\ n = Spot(h, S, d + 1)
  /\ vis \in Seq(E) /\ Course(E, S, d, t, Append(vis, p), mem)

BehindPlain(E, h, S, t, p, vis, mem, c) ==
  c \in 1..t /\ p = Spot(h, S, c) /\ Course(E, S, c, t, vis, mem)

BehindSafe(E, h, S, t, p, n, vis, mem, c) ==
  c \in 0..t /\ p \in E /\ n = Spot(h, S, c + 1) /\ Course(E, S, c, t, vis, mem)

Turn(E, h, S, t, at, safe, p, n, vis, mem) ==
  \/ at = "test" /\ AtEnd(E, h, S, t, p, vis, mem)
  \/ at = "test" /\ ~safe /\ \E c : AtPlain(E, h, S, t, p, vis, mem, c)
  \/ at = "test" /\ safe /\ \E c, d : AtSafe(E, h, S, t, p, n, vis, mem, c, d)
  \/ at = "next" /\ ~safe /\ \E c : BehindPlain(E, h, S, t, p, vis, mem, c)
  \/ at = "next" /\ safe /\ \E c : BehindSafe(E, h, S, t, p, n, vis, mem, c)

\* The sequence and its bound.
Within(E, S, t, n) == S \in Seq(E) /\ n \in Nat /\ n = Len(S) /\ t \in Int /\ 0 <= t /\ t <= n

(* Every turn is about a sequence and a bound. *)
LEMMA TurnWithin ==
  ASSUME NEW E, NEW h, NEW S, NEW t, NEW at, NEW safe, NEW p, NEW n, NEW vis, NEW mem,
         Turn(E, h, S, t, at, safe, p, n, vis, mem)
  PROVE  Within(E, S, t, Len(S))
<1>1. ASSUME NEW c, NEW v, Course(E, S, c, t, v, mem) PROVE Within(E, S, t, Len(S))
  <2>1. CourseOf(E, S, c, t, v, mem, Len(S), Len(v)) BY <1>1, CourseParts
  <2> QED BY <2>1 DEF CourseOf, Within
<1>2. \E c, v : Course(E, S, c, t, v, mem) BY DEF Turn, AtEnd, AtPlain, AtSafe, BehindPlain, BehindSafe
<1> QED BY <1>1, <1>2

(* A loop starts. *)
LEMMA TurnStarts ==
  ASSUME NEW E, NEW h, NEW S \in Seq(E), Distinct(S), NEW t \in 0..Len(S), NEW c \in 0..t, NEW safe \in BOOLEAN,
         NEW p, NEW n, p = Spot(h, S, c + 1), c < t => n = Spot(h, S, c + 2)
  PROVE  Turn(E, h, S, t, "test", safe, p, n, << >>, SubSeq(S, c + 1, t))
<1>1. PICK mem : mem = SubSeq(S, c + 1, t) OBVIOUS
<1>2. Course(E, S, c, t, << >>, mem) BY <1>1, CourseStarts
<1>3. c \in Int /\ t \in Int /\ 0 <= c /\ c <= t /\ t <= Len(S) OBVIOUS
<1>4. CASE c = t
  <2>1. AtEnd(E, h, S, t, p, << >>, mem) BY <1>2, <1>4 DEF AtEnd
  <2> QED BY <1>1, <2>1 DEF Turn
<1>5. CASE c < t /\ ~safe
  <2>1. c \in 0..(t - 1) BY <1>3, <1>5
  <2>2. AtPlain(E, h, S, t, p, << >>, mem, c) BY <1>2, <2>1 DEF AtPlain
  <2> QED BY <1>1, <1>5, <2>2 DEF Turn
<1>6. CASE c < t /\ safe
  <2>1. c \in 0..(t - 1) /\ c + 1 \in (c + 1)..t /\ (c + 1) + 1 = c + 2 /\ c + 1 \in 1..Len(S) BY <1>3, <1>6
  <2>2. Course(E, S, c + 1, t, Append(<< >>, S[c + 1]), mem) BY <1>2, <1>6, CourseVisits
  <2>3. p = S[c + 1] BY <2>1 DEF Spot
  <2>4. << >> \in Seq(E) OBVIOUS
  <2>5. AtSafe(E, h, S, t, p, n, << >>, mem, c, c + 1) BY <1>6, <2>1, <2>2, <2>3, <2>4 DEF AtSafe
  <2> QED BY <1>1, <1>6, <2>5 DEF Turn
<1> QED BY <1>3, <1>4, <1>5, <1>6

\* Element c + 1 is visited, and perhaps taken out.
Visits(E, h, S, t, safe, p, n, vis, mem, c) ==
  /\ c \in 0..(t - 1) /\ c + 1 \in 1..Len(S) /\ p = S[c + 1] /\ p \in E
  /\ Turn(E, h, S, t, "next", safe, p, n, Append(vis, p), mem)
  /\ safe => Turn(E, h, Del(S, c + 1), t - 1, "next", safe, p, n, Append(vis, p), mem)

(* The body runs for the element at the pointer. *)
LEMMA TurnBody ==
  ASSUME NEW E, NEW h, NEW S, NEW t, NEW safe \in BOOLEAN, NEW p, NEW n, NEW vis, NEW mem,
         Turn(E, h, S, t, "test", safe, p, n, vis, mem), ~AtEnd(E, h, S, t, p, vis, mem)
  PROVE  \E c : Visits(E, h, S, t, safe, p, n, vis, mem, c)
<1>1. PICK m : m = Len(S) OBVIOUS
<1>2. S \in Seq(E) /\ m \in Nat /\ t \in Int /\ 0 <= t /\ t <= m BY <1>1, TurnWithin DEF Within
<1>3. CASE ~safe
  <2>1. PICK c : AtPlain(E, h, S, t, p, vis, mem, c) BY <1>3 DEF Turn
  <2>2. c \in 0..(t - 1) /\ p = Spot(h, S, c + 1) /\ Course(E, S, c, t, vis, mem) BY <2>1 DEF AtPlain
  <2>3. c \in Int /\ c + 1 \in 1..Len(S) /\ c < t /\ c + 1 \in 1..t BY <1>1, <1>2, <2>2
  <2>4. p = S[c + 1] /\ p \in E
    <3>1. p = S[c + 1] BY <2>2, <2>3 DEF Spot
    <3> QED BY <1>2, <2>3, <3>1, ElementOfSeq
  <2>5. Course(E, S, c + 1, t, Append(vis, p), mem) BY <2>2, <2>3, <2>4, CourseVisits
  <2>6. BehindPlain(E, h, S, t, p, Append(vis, p), mem, c + 1) BY <2>2, <2>3, <2>5 DEF BehindPlain
  <2>7. Turn(E, h, S, t, "next", safe, p, n, Append(vis, p), mem) BY <1>3, <2>6 DEF Turn
  <2>8. Visits(E, h, S, t, safe, p, n, vis, mem, c) BY <1>3, <2>2, <2>3, <2>4, <2>7 DEF Visits
  <2> QED BY <2>8
<1>4. CASE safe
  <2>1. PICK c, d : AtSafe(E, h, S, t, p, n, vis, mem, c, d) BY <1>4 DEF Turn
  <2>2. /\ c \in 0..(t - 1) /\ d \in (c + 1)..t /\ p = Spot(h, S, c + 1) /\ n = Spot(h, S, d + 1)
        /\ Course(E, S, d, t, Append(vis, p), mem)
    BY <2>1 DEF AtSafe
  <2>3. c \in Int /\ d \in Int /\ c + 1 \in 1..Len(S) /\ c + 1 <= d /\ d \in 0..t BY <1>1, <1>2, <2>2
  <2>4. p = S[c + 1] /\ p \in E
    <3>1. p = S[c + 1] BY <2>2, <2>3 DEF Spot
    <3> QED BY <1>2, <2>3, <3>1, ElementOfSeq
  <2>5. BehindSafe(E, h, S, t, p, n, Append(vis, p), mem, d) BY <2>2, <2>3, <2>4 DEF BehindSafe
  <2>6. Turn(E, h, S, t, "next", safe, p, n, Append(vis, p), mem) BY <1>4, <2>5 DEF Turn
  <2>7. Course(E, Del(S, c + 1), d - 1, t - 1, Append(vis, p), mem) BY <2>2, <2>3, CourseDel
  <2>8. n = Spot(h, Del(S, c + 1), (d - 1) + 1)
    <3>1. /\ \A i \in 0..m : Spot(h, Del(S, c + 1), i) = IF i < c + 1 THEN Spot(h, S, i) ELSE Spot(h, S, i + 1)
      BY <1>1, <1>2, <2>3, DelSpots, ZenonT(40)
    <3>2. d \in 0..m /\ ~(d < c + 1) /\ (d - 1) + 1 = d BY <1>2, <2>2, <2>3
    <3> QED BY <2>2, <3>1, <3>2
  <2>9. d - 1 \in 0..(t - 1) BY <1>2, <2>2, <2>3
  <2>10. BehindSafe(E, h, Del(S, c + 1), t - 1, p, n, Append(vis, p), mem, d - 1)
    BY <2>4, <2>7, <2>8, <2>9 DEF BehindSafe
  <2>11. Turn(E, h, Del(S, c + 1), t - 1, "next", safe, p, n, Append(vis, p), mem) BY <1>4, <2>10 DEF Turn
  <2>12. Visits(E, h, S, t, safe, p, n, vis, mem, c) BY <2>2, <2>3, <2>4, <2>6, <2>11 DEF Visits
  <2> QED BY <2>12
<1> QED BY <1>3, <1>4

(* The pointer goes on to the next element. *)
LEMMA TurnNext ==
  ASSUME NEW E, NEW h, NEW S, NEW t, NEW safe \in BOOLEAN, NEW p, NEW n, NEW vis, NEW mem,
         Turn(E, h, S, t, "next", safe, p, n, vis, mem),
         NEW link, \A i \in 0..Len(S) : link[Spot(h, S, i)] = Spot(h, S, i + 1),
         NEW p2, p2 = IF safe THEN n ELSE link[p],
         NEW n2, safe => n2 = link[p2]
  PROVE  Turn(E, h, S, t, "test", safe, p2, n2, vis, mem)
<1>1. PICK m : m = Len(S) OBVIOUS
<1>2. S \in Seq(E) /\ m \in Nat /\ t \in Int /\ 0 <= t /\ t <= m BY <1>1, TurnWithin DEF Within
<1>3. ASSUME NEW c \in 0..t, Course(E, S, c, t, vis, mem), p2 = Spot(h, S, c + 1)
      PROVE  Turn(E, h, S, t, "test", safe, p2, n2, vis, mem)
  <2>1. c \in Int /\ 0 <= c /\ c <= t BY <1>2
  <2>2. CASE c = t
    <3>1. AtEnd(E, h, S, t, p2, vis, mem) BY <1>3, <2>2 DEF AtEnd
    <3> QED BY <3>1 DEF Turn
  <2>3. CASE c < t /\ ~safe
    <3>1. c \in 0..(t - 1) BY <1>2, <2>1, <2>3
    <3>2. AtPlain(E, h, S, t, p2, vis, mem, c) BY <1>3, <3>1 DEF AtPlain
    <3> QED BY <2>3, <3>2 DEF Turn
  <2>4. CASE c < t /\ safe
    <3>1. c \in 0..(t - 1) /\ c + 1 \in (c + 1)..t /\ c + 1 \in 1..Len(S) /\ c + 1 \in 0..Len(S) BY <1>1, <1>2, <2>1, <2>4
    <3>2. n2 = Spot(h, S, (c + 1) + 1) BY <1>3, <2>4, <3>1
    <3>3. p2 = S[c + 1] BY <1>3, <3>1 DEF Spot
    <3>4. Course(E, S, c + 1, t, Append(vis, p2), mem) BY <1>3, <2>4, <3>3, CourseVisits
    <3>5. vis \in Seq(E) BY <1>3 DEF Course
    <3>6. AtSafe(E, h, S, t, p2, n2, vis, mem, c, c + 1) BY <1>3, <3>1, <3>2, <3>4, <3>5 DEF AtSafe
    <3> QED BY <2>4, <3>6 DEF Turn
  <2> QED BY <1>2, <2>1, <2>2, <2>3, <2>4
<1>4. CASE safe
  <2>1. PICK c : BehindSafe(E, h, S, t, p, n, vis, mem, c) BY <1>4 DEF Turn
  <2>2. c \in 0..t /\ p2 = Spot(h, S, c + 1) /\ Course(E, S, c, t, vis, mem) BY <1>4, <2>1 DEF BehindSafe
  <2> QED BY <1>3, <2>2
<1>5. CASE ~safe
  <2>1. PICK c : BehindPlain(E, h, S, t, p, vis, mem, c) BY <1>5 DEF Turn
  <2>2. c \in 1..t /\ p = Spot(h, S, c) /\ Course(E, S, c, t, vis, mem) BY <2>1 DEF BehindPlain
  <2>3. c \in 0..t /\ c \in 0..Len(S) BY <1>1, <1>2, <2>2
  <2>4. p2 = Spot(h, S, c + 1) BY <1>5, <2>2, <2>3
  <2> QED BY <1>3, <2>2, <2>3, <2>4
<1> QED BY <1>4, <1>5

(* Where the nodes of a ring are once an entry was put in. *)
LEMMA InsMoves ==
  ASSUME NEW h, NEW E, NEW s, NEW k, NEW e, NEW n, MayInsert(E, s, k, e, n), NEW j \in 0..(n + 1)
  PROVE  /\ j <= k => Spot(h, Ins(s, k, e), j) = Spot(h, s, j)
         /\ j > k => Spot(h, Ins(s, k, e), j + 1) = Spot(h, s, j)
<1>1. n \in Nat /\ n = Len(s) /\ k \in 0..n BY DEF MayInsert
<1>2. PICK w : w = Ins(s, k, e) OBVIOUS
<1>3. \A i \in 0..(n + 2) : Spot(h, w, i) = IF i <= k THEN Spot(h, s, i) ELSE IF i = k + 1 THEN e ELSE Spot(h, s, i - 1)
  <2>1. Inserted1(h, s, k, e, w) BY <1>2, InsSpots
  <2> QED BY <1>1, <2>1 DEF Inserted1
<1>4. j \in 0..(n + 2) /\ j + 1 \in 0..(n + 2) /\ (j + 1) - 1 = j /\ (j > k => ~(j + 1 <= k) /\ j + 1 # k + 1) BY <1>1
<1>5. j <= k => Spot(h, w, j) = Spot(h, s, j) BY <1>3, <1>4
<1>6. j > k => Spot(h, w, j + 1) = Spot(h, s, j) BY <1>3, <1>4
<1> QED BY <1>2, <1>5, <1>6

\* A new entry may be put behind element k of the ring.
NewEntry(E, S, k, e, vis, m) == MayInsert(E, S, k, e, m) /\ Lacks(S, e) /\ Lacks(vis, e)

(* An entry is put into the ring of a loop over all of it. *)
LEMMA TurnInserts ==
  ASSUME NEW E, NEW h, NEW S, NEW at, NEW safe \in BOOLEAN, NEW p, NEW n, NEW vis, NEW mem, NEW m,
         Turn(E, h, S, m, at, safe, p, n, vis, mem), NEW k, NEW e, NewEntry(E, S, k, e, vis, m)
  PROVE  Turn(E, h, Ins(S, k, e), m + 1, at, safe, p, n, vis, mem)
<1>1. S \in Seq(E) /\ m \in Nat /\ m = Len(S) /\ k \in 0..m /\ k \in Int /\ 0 <= k /\ k <= m /\ e \in E /\ k \in 0..Len(S)
  BY DEF NewEntry, MayInsert
<1>2. PICK w : w = Ins(S, k, e) OBVIOUS
<1>3. ASSUME NEW j \in 0..(m + 1)
      PROVE  (j <= k => Spot(h, w, j) = Spot(h, S, j)) /\ (j > k => Spot(h, w, j + 1) = Spot(h, S, j))
  <2>1. MayInsert(E, S, k, e, m) BY DEF NewEntry
  <2> QED BY <1>2, <2>1, InsMoves
<1>4. ASSUME NEW c \in Int, NEW v, Course(E, S, c, m, v, mem), k <= c PROVE Course(E, w, c + 1, m + 1, v, mem)
  BY <1>1, <1>2, <1>4, CourseInsOutside
<1>5. ASSUME NEW c \in Int, NEW v, Course(E, S, c, m, v, mem), c <= k, Lacks(v, e) PROVE Course(E, w, c, m + 1, v, mem)
  <2>1. k \in c..m /\ Lacks(S, e) BY <1>1, <1>5 DEF NewEntry
  <2> QED BY <1>1, <1>2, <1>5, <2>1, CourseInsAhead
<1>6. Lacks(vis, e) BY DEF NewEntry
<1>7. CASE at = "test" /\ AtEnd(E, h, S, m, p, vis, mem)
  <2>1. p = Spot(h, S, m + 1) /\ Course(E, S, m, m, vis, mem) BY <1>7 DEF AtEnd
  <2>2. m + 1 \in 0..(m + 1) /\ m + 1 > k BY <1>1
  <2>3. p = Spot(h, w, (m + 1) + 1) BY <1>3, <2>1, <2>2
  <2>4. Course(E, w, m + 1, m + 1, vis, mem) BY <1>1, <1>4, <2>1
  <2>5. AtEnd(E, h, w, m + 1, p, vis, mem) BY <2>3, <2>4 DEF AtEnd
  <2> QED BY <1>2, <1>7, <2>5 DEF Turn
<1>8. CASE at = "test" /\ ~safe /\ \E c : AtPlain(E, h, S, m, p, vis, mem, c)
  <2>1. PICK c : AtPlain(E, h, S, m, p, vis, mem, c) BY <1>8
  <2>2. c \in 0..(m - 1) /\ p = Spot(h, S, c + 1) /\ Course(E, S, c, m, vis, mem) BY <2>1 DEF AtPlain
  <2>3. c \in Int /\ 0 <= c /\ c + 1 <= m /\ c + 1 \in 0..(m + 1) BY <1>1, <2>2
  <2>4. CASE k <= c
    <3>1. c + 1 > k /\ c + 1 \in 0..((m + 1) - 1) BY <1>1, <2>3, <2>4
    <3>2. p = Spot(h, w, (c + 1) + 1) BY <1>3, <2>2, <2>3, <3>1
    <3>3. Course(E, w, c + 1, m + 1, vis, mem) BY <1>4, <2>2, <2>3, <2>4
    <3>4. AtPlain(E, h, w, m + 1, p, vis, mem, c + 1) BY <3>1, <3>2, <3>3 DEF AtPlain
    <3> QED BY <1>2, <1>8, <3>4 DEF Turn
  <2>5. CASE c < k
    <3>1. c + 1 <= k /\ c <= k /\ c \in 0..((m + 1) - 1) BY <1>1, <2>3, <2>5
    <3>2. p = Spot(h, w, c + 1) BY <1>3, <2>2, <2>3, <3>1
    <3>3. Course(E, w, c, m + 1, vis, mem) BY <1>5, <1>6, <2>2, <2>3, <3>1
    <3>4. AtPlain(E, h, w, m + 1, p, vis, mem, c) BY <3>1, <3>2, <3>3 DEF AtPlain
    <3> QED BY <1>2, <1>8, <3>4 DEF Turn
  <2> QED BY <1>1, <2>3, <2>4, <2>5
<1>9. CASE at = "test" /\ safe /\ \E c, d : AtSafe(E, h, S, m, p, n, vis, mem, c, d)
  <2>1. PICK c, d : AtSafe(E, h, S, m, p, n, vis, mem, c, d) BY <1>9
  <2>2. /\ c \in 0..(m - 1) /\ d \in (c + 1)..m /\ p = Spot(h, S, c + 1) /\ n = Spot(h, S, d + 1)
        /\ vis \in Seq(E) /\ Course(E, S, d, m, Append(vis, p), mem)
    BY <2>1 DEF AtSafe
  <2>3. /\ c \in Int /\ 0 <= c /\ c + 1 <= m /\ c + 1 \in 0..(m + 1)
        /\ d \in Int /\ c + 1 <= d /\ d <= m /\ d + 1 \in 0..(m + 1)
    BY <1>1, <2>2
  <2>4. Lacks(Append(vis, p), e)
    <3>1. p # e
      <4>1. c + 1 \in 1..Len(S) BY <1>1, <2>3
      <4>2. p = S[c + 1] BY <2>2, <4>1 DEF Spot
      <4> QED BY <4>1, <4>2 DEF NewEntry, Lacks
    <3>2. p \in E
      <4>1. c + 1 \in 1..Len(S) BY <1>1, <2>3
      <4>2. p = S[c + 1] BY <2>2, <4>1 DEF Spot
      <4> QED BY <1>1, <4>1, <4>2, ElementOfSeq
    <3>3. PICK v \in Nat : v = Len(vis) BY <2>2
    <3>4. /\ Len(Append(vis, p)) = v + 1
          /\ \A i \in 1..(v + 1) : Append(vis, p)[i] = IF i <= v THEN vis[i] ELSE p
      BY <2>2, <3>2, <3>3
    <3>5. ASSUME NEW i \in 1..(v + 1) PROVE Append(vis, p)[i] # e
      <4>1. CASE i <= v
        <5>1. i \in 1..Len(vis) BY <3>3, <4>1
        <5> QED BY <1>6, <3>4, <4>1, <5>1 DEF Lacks
      <4>2. CASE ~(i <= v) BY <3>1, <3>4, <4>2
      <4> QED BY <4>1, <4>2
    <3> QED BY <3>4, <3>5 DEF Lacks
  <2>5. CASE k <= c
    <3>1. c + 1 > k /\ d + 1 > k /\ k <= d /\ c + 1 \in 0..((m + 1) - 1) /\ d + 1 \in ((c + 1) + 1)..(m + 1)
      BY <1>1, <2>3, <2>5
    <3>2. p = Spot(h, w, (c + 1) + 1) /\ n = Spot(h, w, (d + 1) + 1) BY <1>3, <2>2, <2>3, <3>1
    <3>3. Course(E, w, d + 1, m + 1, Append(vis, p), mem) BY <1>4, <2>2, <2>3, <3>1
    <3>4. AtSafe(E, h, w, m + 1, p, n, vis, mem, c + 1, d + 1) BY <2>2, <3>1, <3>2, <3>3 DEF AtSafe
    <3> QED BY <1>2, <1>9, <3>4 DEF Turn
  <2>6. CASE c < k /\ k <= d
    <3>1. c + 1 <= k /\ d + 1 > k /\ c \in 0..((m + 1) - 1) /\ d + 1 \in (c + 1)..(m + 1) BY <1>1, <2>3, <2>6
    <3>2. p = Spot(h, w, c + 1) /\ n = Spot(h, w, (d + 1) + 1) BY <1>3, <2>2, <2>3, <3>1
    <3>3. Course(E, w, d + 1, m + 1, Append(vis, p), mem) BY <1>4, <2>2, <2>3, <2>6
    <3>4. AtSafe(E, h, w, m + 1, p, n, vis, mem, c, d + 1) BY <2>2, <3>1, <3>2, <3>3 DEF AtSafe
    <3> QED BY <1>2, <1>9, <3>4 DEF Turn
  <2>7. CASE d < k
    <3>1. c + 1 <= k /\ d + 1 <= k /\ d <= k /\ c \in 0..((m + 1) - 1) /\ d \in (c + 1)..(m + 1) BY <1>1, <2>3, <2>7
    <3>2. p = Spot(h, w, c + 1) /\ n = Spot(h, w, d + 1) BY <1>3, <2>2, <2>3, <3>1
    <3>3. Course(E, w, d, m + 1, Append(vis, p), mem) BY <1>5, <2>2, <2>3, <2>4, <3>1
    <3>4. AtSafe(E, h, w, m + 1, p, n, vis, mem, c, d) BY <2>2, <3>1, <3>2, <3>3 DEF AtSafe
    <3> QED BY <1>2, <1>9, <3>4 DEF Turn
  <2> QED BY <1>1, <2>3, <2>5, <2>6, <2>7
<1>10. CASE at = "next" /\ ~safe /\ \E c : BehindPlain(E, h, S, m, p, vis, mem, c)
  <2>1. PICK c : BehindPlain(E, h, S, m, p, vis, mem, c) BY <1>10
  <2>2. c \in 1..m /\ p = Spot(h, S, c) /\ Course(E, S, c, m, vis, mem) BY <2>1 DEF BehindPlain
  <2>3. c \in Int /\ 1 <= c /\ c <= m /\ c \in 0..(m + 1) BY <1>1, <2>2
  <2>4. CASE k < c
    <3>1. c > k /\ k <= c /\ c + 1 \in 1..(m + 1) BY <1>1, <2>3, <2>4
    <3>2. p = Spot(h, w, c + 1) BY <1>3, <2>2, <2>3, <3>1
    <3>3. Course(E, w, c + 1, m + 1, vis, mem) BY <1>4, <2>2, <2>3, <3>1
    <3>4. BehindPlain(E, h, w, m + 1, p, vis, mem, c + 1) BY <3>1, <3>2, <3>3 DEF BehindPlain
    <3> QED BY <1>2, <1>10, <3>4 DEF Turn
  <2>5. CASE c <= k
    <3>1. c \in 1..(m + 1) BY <1>1, <2>3
    <3>2. p = Spot(h, w, c) BY <1>3, <2>2, <2>3, <2>5
    <3>3. Course(E, w, c, m + 1, vis, mem) BY <1>5, <1>6, <2>2, <2>3, <2>5
    <3>4. BehindPlain(E, h, w, m + 1, p, vis, mem, c) BY <3>1, <3>2, <3>3 DEF BehindPlain
    <3> QED BY <1>2, <1>10, <3>4 DEF Turn
  <2> QED BY <1>1, <2>3, <2>4, <2>5
<1>11. CASE at = "next" /\ safe /\ \E c : BehindSafe(E, h, S, m, p, n, vis, mem, c)
  <2>1. PICK c : BehindSafe(E, h, S, m, p, n, vis, mem, c) BY <1>11
  <2>2. c \in 0..m /\ p \in E /\ n = Spot(h, S, c + 1) /\ Course(E, S, c, m, vis, mem) BY <2>1 DEF BehindSafe
  <2>3. c \in Int /\ 0 <= c /\ c <= m /\ c + 1 \in 0..(m + 1) BY <1>1, <2>2
  <2>4. CASE k <= c
    <3>1. c + 1 > k /\ c + 1 \in 0..(m + 1) BY <1>1, <2>3, <2>4
    <3>2. n = Spot(h, w, (c + 1) + 1) BY <1>3, <2>2, <2>3, <3>1
    <3>3. Course(E, w, c + 1, m + 1, vis, mem) BY <1>4, <2>2, <2>3, <2>4
    <3>4. BehindSafe(E, h, w, m + 1, p, n, vis, mem, c + 1) BY <2>2, <3>1, <3>2, <3>3 DEF BehindSafe
    <3> QED BY <1>2, <1>11, <3>4 DEF Turn
  <2>5. CASE c < k
    <3>1. c + 1 <= k /\ c <= k /\ c \in 0..(m + 1) BY <1>1, <2>3, <2>5
    <3>2. n = Spot(h, w, c + 1) BY <1>3, <2>2, <2>3, <3>1
    <3>3. Course(E, w, c, m + 1, vis, mem) BY <1>5, <1>6, <2>2, <2>3, <3>1
    <3>4. BehindSafe(E, h, w, m + 1, p, n, vis, mem, c) BY <2>2, <3>1, <3>2, <3>3 DEF BehindSafe
    <3> QED BY <1>2, <1>11, <3>4 DEF Turn
  <2> QED BY <1>1, <2>3, <2>4, <2>5
<1> QED BY <1>7, <1>8, <1>9, <1>10, <1>11 DEF Turn

(* An entry is put into the ring of a plain loop that has run its body and  *)
(* goes on to an element t: at t it may count as before it or behind it.    *)
LEMMA TurnInsertsBounded ==
  ASSUME NEW E, NEW h, NEW S, NEW t, NEW safe \in BOOLEAN, NEW p, NEW n, NEW vis, NEW mem, NEW m, ~safe,
         Turn(E, h, S, t, "next", safe, p, n, vis, mem), NEW k, NEW e, NewEntry(E, S, k, e, vis, m)
  PROVE  /\ k <= t => Turn(E, h, Ins(S, k, e), t + 1, "next", safe, p, n, vis, mem)
         /\ k >= t => Turn(E, h, Ins(S, k, e), t, "next", safe, p, n, vis, mem)
<1>1. S \in Seq(E) /\ m \in Nat /\ m = Len(S) /\ k \in 0..m /\ k \in Int /\ 0 <= k /\ k <= m /\ e \in E /\ k \in 0..Len(S)
  BY DEF NewEntry, MayInsert
<1>2. PICK w : w = Ins(S, k, e) OBVIOUS
<1>3. PICK c : BehindPlain(E, h, S, t, p, vis, mem, c) BY DEF Turn
<1>4. c \in 1..t /\ p = Spot(h, S, c) /\ Course(E, S, c, t, vis, mem) BY <1>3 DEF BehindPlain
<1>5. t \in Int /\ t <= m BY <1>1, TurnWithin DEF Within
<1>6. c \in Int /\ 1 <= c /\ c <= t /\ c \in 0..(m + 1) BY <1>1, <1>4, <1>5
<1>7. (c <= k => Spot(h, w, c) = Spot(h, S, c)) /\ (c > k => Spot(h, w, c + 1) = Spot(h, S, c))
  <2>1. MayInsert(E, S, k, e, m) BY DEF NewEntry
  <2> QED BY <1>2, <1>6, <2>1, InsMoves
<1>8. ASSUME k < c PROVE Turn(E, h, w, t + 1, "next", safe, p, n, vis, mem)
  <2>1. Course(E, w, c + 1, t + 1, vis, mem) BY <1>1, <1>2, <1>4, <1>6, <1>8, CourseInsOutside
  <2>2. c + 1 \in 1..(t + 1) /\ c > k BY <1>1, <1>5, <1>6, <1>8
  <2>3. BehindPlain(E, h, w, t + 1, p, vis, mem, c + 1) BY <1>4, <1>7, <2>1, <2>2 DEF BehindPlain
  <2> QED BY <2>3 DEF Turn
<1>9. ASSUME c <= k, k <= t PROVE Turn(E, h, w, t + 1, "next", safe, p, n, vis, mem)
  <2>1. k \in c..t /\ Lacks(S, e) /\ Lacks(vis, e) BY <1>1, <1>5, <1>6, <1>9 DEF NewEntry
  <2>2. Course(E, w, c, t + 1, vis, mem) BY <1>1, <1>2, <1>4, <2>1, CourseInsAhead
  <2>3. c \in 1..(t + 1) BY <1>5, <1>6
  <2>4. BehindPlain(E, h, w, t + 1, p, vis, mem, c) BY <1>4, <1>7, <1>9, <2>2, <2>3 DEF BehindPlain
  <2> QED BY <2>4 DEF Turn
<1>10. ASSUME k >= t PROVE Turn(E, h, w, t, "next", safe, p, n, vis, mem)
  <2>1. Course(E, w, c, t, vis, mem) BY <1>1, <1>2, <1>4, <1>10, CourseInsOutside
  <2>2. c <= k BY <1>1, <1>5, <1>6, <1>10
  <2>3. BehindPlain(E, h, w, t, p, vis, mem, c) BY <1>4, <1>7, <2>1, <2>2 DEF BehindPlain
  <2> QED BY <2>3 DEF Turn
<1>11. k < c \/ c <= k BY <1>1, <1>6
<1> QED BY <1>2, <1>8, <1>9, <1>10, <1>11

(* The same with a _safe loop, unless the entry comes between element t and *)
(* the saved pointer behind it.                                             *)
LEMMA TurnInsertsSafe ==
  ASSUME NEW E, NEW h, NEW S, NEW t, NEW safe \in BOOLEAN, NEW p, NEW n, NEW vis, NEW mem, NEW m, safe,
         Turn(E, h, S, t, "next", safe, p, n, vis, mem), NEW k, NEW e, NewEntry(E, S, k, e, vis, m),
         k = t => n # Spot(h, S, t + 1)
  PROVE  Turn(E, h, Ins(S, k, e), IF k < t THEN t + 1 ELSE t, "next", safe, p, n, vis, mem)
<1>1. S \in Seq(E) /\ m \in Nat /\ m = Len(S) /\ k \in 0..m /\ k \in Int /\ 0 <= k /\ k <= m /\ e \in E /\ k \in 0..Len(S)
  BY DEF NewEntry, MayInsert
<1>2. PICK w : w = Ins(S, k, e) OBVIOUS
<1>3. PICK c : BehindSafe(E, h, S, t, p, n, vis, mem, c) BY DEF Turn
<1>4. c \in 0..t /\ p \in E /\ n = Spot(h, S, c + 1) /\ Course(E, S, c, t, vis, mem) BY <1>3 DEF BehindSafe
<1>5. t \in Int /\ t <= m BY <1>1, TurnWithin DEF Within
<1>6. c \in Int /\ 0 <= c /\ c <= t /\ c + 1 \in 0..(m + 1) BY <1>1, <1>4, <1>5
<1>7. (c + 1 <= k => Spot(h, w, c + 1) = Spot(h, S, c + 1)) /\ (c + 1 > k => Spot(h, w, (c + 1) + 1) = Spot(h, S, c + 1))
  <2>1. MayInsert(E, S, k, e, m) BY DEF NewEntry
  <2> QED BY <1>2, <1>6, <2>1, InsMoves
<1>8. CASE k < t /\ k <= c
  <2>1. Course(E, w, c + 1, t + 1, vis, mem) BY <1>1, <1>2, <1>4, <1>8, CourseInsOutside
  <2>2. c + 1 \in 0..(t + 1) /\ c + 1 > k BY <1>1, <1>5, <1>6, <1>8
  <2>3. BehindSafe(E, h, w, t + 1, p, n, vis, mem, c + 1) BY <1>4, <1>7, <2>1, <2>2 DEF BehindSafe
  <2>4. Turn(E, h, w, t + 1, "next", safe, p, n, vis, mem) BY <2>3 DEF Turn
  <2> QED BY <1>2, <1>8, <2>4
<1>9. CASE k < t /\ c < k
  <2>1. k \in c..t /\ c + 1 <= k /\ Lacks(S, e) /\ Lacks(vis, e) BY <1>1, <1>5, <1>6, <1>9 DEF NewEntry
  <2>2. Course(E, w, c, t + 1, vis, mem) BY <1>1, <1>2, <1>4, <2>1, CourseInsAhead
  <2>3. c \in 0..(t + 1) BY <1>5, <1>6
  <2>4. BehindSafe(E, h, w, t + 1, p, n, vis, mem, c) BY <1>4, <1>7, <2>1, <2>2, <2>3 DEF BehindSafe
  <2>5. Turn(E, h, w, t + 1, "next", safe, p, n, vis, mem) BY <2>4 DEF Turn
  <2> QED BY <1>2, <1>9, <2>5
<1>10. CASE ~(k < t)
  <2>1. k >= t BY <1>1, <1>5, <1>10
  <2>2. Course(E, w, c, t, vis, mem) BY <1>1, <1>2, <1>4, <2>1, CourseInsOutside
  <2>3. c + 1 <= k
    <3>1. ~(c = t /\ k = t) BY <1>4
    <3> QED BY <1>1, <1>5, <1>6, <2>1, <3>1
  <2>4. BehindSafe(E, h, w, t, p, n, vis, mem, c) BY <1>4, <1>7, <2>2, <2>3 DEF BehindSafe
  <2>5. Turn(E, h, w, t, "next", safe, p, n, vis, mem) BY <2>4 DEF Turn
  <2> QED BY <1>2, <1>10, <2>5
<1>11. (k < t /\ k <= c) \/ (k < t /\ c < k) \/ ~(k < t) BY <1>1, <1>6
<1> QED BY <1>8, <1>9, <1>10, <1>11, Zenon

(* A loop that goes on to element t has not run its body for it.            *)
LEMMA CourseMisses ==
  ASSUME NEW E, NEW S, NEW c, NEW t, NEW vis, NEW mem, Course(E, S, c, t, vis, mem), c < t
  PROVE  \A i \in 1..Len(vis) : vis[i] # S[t]
<1>1. PICK n, v : n = Len(S) /\ v = Len(vis) OBVIOUS
<1>2. CourseOf(E, S, c, t, vis, mem, n, v) BY <1>1, CourseParts
<1>3. v \in Nat /\ c \in Int /\ t \in Int /\ 0 <= c /\ t <= n BY <1>2 DEF CourseOf
<1>4. PICK T : T = Trip(S, c, t, vis) OBVIOUS
<1>5. T = [i \in 1..(v + t - c) |-> IF i <= v THEN vis[i] ELSE S[c + i - v]] /\ Len(T) = v + t - c BY <1>2, <1>4, TripIs
<1>6. PICK l \in 1..(v + t - c) : l = v + t - c /\ ~(l <= v) /\ c + l - v = t BY <1>3
<1>7. T[l] = S[t] BY <1>5, <1>6
<1>8. ASSUME NEW i \in 1..v PROVE vis[i] # S[t]
  <2>1. i \in 1..(v + t - c) /\ i <= v BY <1>3
  <2>2. T[i] = vis[i] BY <1>5, <2>1
  <2>3. i # l BY <1>6
  <2>4. Distinct(T) BY <1>4 DEF Course
  <2> QED BY <1>5, <1>6, <1>7, <2>1, <2>2, <2>3, <2>4 DEF Distinct
<1> QED BY <1>1, <1>8

(* What holds in every turn. *)
LEMMA TurnIsExact ==
  ASSUME NEW E, NEW h, NEW S, NEW t, NEW at, NEW safe \in BOOLEAN, NEW p, NEW n, NEW vis, NEW mem,
         Turn(E, h, S, t, at, safe, p, n, vis, mem)
  PROVE  /\ vis \in Seq(E) /\ Distinct(vis) /\ p \in E \cup {h}
         /\ AtEnd(E, h, S, t, p, vis, mem) => InOrder(mem, vis)
<1>1. PICK m : m = Len(S) OBVIOUS
<1>2. S \in Seq(E) /\ m \in Nat /\ t \in Int /\ 0 <= t /\ t <= m BY <1>1, TurnWithin DEF Within
<1>3. \A i \in Int : Spot(h, S, i) \in E \cup {h}
  <2> TAKE i \in Int
  <2>1. CASE i \in 1..Len(S) BY <1>2, <2>1, ElementOfSeq DEF Spot
  <2>2. CASE i \notin 1..Len(S) BY <2>2 DEF Spot
  <2> QED BY <2>1, <2>2
<1>4. AtEnd(E, h, S, t, p, vis, mem) => InOrder(mem, vis) BY CourseEnds DEF AtEnd
<1>5. p \in E \cup {h}
  <2>1. CASE AtEnd(E, h, S, t, p, vis, mem)
    <3>1. t + 1 \in Int BY <1>2
    <3> QED BY <1>3, <2>1, <3>1 DEF AtEnd
  <2>2. ASSUME NEW c, AtPlain(E, h, S, t, p, vis, mem, c) PROVE p \in E \cup {h}
    <3>1. c \in 0..(t - 1) /\ p = Spot(h, S, c + 1) BY <2>2 DEF AtPlain
    <3>2. c + 1 \in Int BY <1>2, <3>1
    <3> QED BY <1>3, <3>1, <3>2
  <2>3. ASSUME NEW c, NEW d, AtSafe(E, h, S, t, p, n, vis, mem, c, d) PROVE p \in E \cup {h}
    <3>1. c \in 0..(t - 1) /\ p = Spot(h, S, c + 1) BY <2>3 DEF AtSafe
    <3>2. c + 1 \in Int BY <1>2, <3>1
    <3> QED BY <1>3, <3>1, <3>2
  <2>4. ASSUME NEW c, BehindPlain(E, h, S, t, p, vis, mem, c) PROVE p \in E \cup {h}
    <3>1. c \in 1..t /\ p = Spot(h, S, c) BY <2>4 DEF BehindPlain
    <3>2. c \in Int BY <1>2, <3>1
    <3> QED BY <1>3, <3>1, <3>2
  <2>5. ASSUME NEW c, BehindSafe(E, h, S, t, p, n, vis, mem, c) PROVE p \in E \cup {h}
    BY <2>5 DEF BehindSafe
  <2> QED BY <2>1, <2>2, <2>3, <2>4, <2>5 DEF Turn
<1>6. vis \in Seq(E) /\ Distinct(vis)
  <2>1. ASSUME NEW c, Course(E, S, c, t, vis, mem) PROVE vis \in Seq(E) /\ Distinct(vis) BY <2>1, CourseEnds
  <2>2. ASSUME NEW c, NEW d, AtSafe(E, h, S, t, p, n, vis, mem, c, d) PROVE vis \in Seq(E) /\ Distinct(vis)
    <3>1. vis \in Seq(E) /\ Course(E, S, d, t, Append(vis, p), mem) BY <2>2 DEF AtSafe
    <3>2. PICK v2 : v2 = Append(vis, p) OBVIOUS
    <3>3. v2 \in Seq(E) /\ Distinct(v2) BY <3>1, <3>2, CourseEnds
    <3>4. PICK v \in Nat : v = Len(vis) BY <3>1
    <3>5. Len(v2) = v + 1 /\ \A i \in 1..v : v2[i] = vis[i] BY <3>1, <3>2, <3>4
    <3>6. ASSUME NEW i \in 1..v, NEW j \in 1..v, vis[i] = vis[j] PROVE i = j
      <4>1. i \in 1..Len(v2) /\ j \in 1..Len(v2) BY <3>5
      <4>2. v2[i] = v2[j] BY <3>5, <3>6
      <4> QED BY <3>3, <4>1, <4>2 DEF Distinct
    <3> QED BY <3>1, <3>4, <3>6 DEF Distinct
  <2> QED BY <2>1, <2>2 DEF Turn, AtEnd, AtPlain, BehindPlain, BehindSafe
<1> QED BY <1>4, <1>5, <1>6

(* Counting from the other end. *)
LEMMA Flip ==
  ASSUME NEW n \in Nat, NEW i \in 0..n
  PROVE  n - i \in 0..n /\ n + 1 - i = (n - i) + 1 /\ n + 1 - (i + 1) = n - i
OBVIOUS

(* The same, from 1. *)
LEMMA FlipOne ==
  ASSUME NEW n \in Nat, NEW i \in 1..n
  PROVE  n + 1 - i \in 1..n
OBVIOUS

\* A sequence and the links in the direction of a loop.
Oriented(s, back) == IF back THEN Backwards(s) ELSE s
Toward(hp, back)  == IF back THEN hp.prev ELSE hp.next

\* Position k of a sequence of n elements in the direction of a loop, and the
\* gap behind the first k elements.
Turned(n, k, back)    == IF back THEN n + 1 - k ELSE k
TurnedGap(n, k, back) == IF back THEN n - k ELSE k

\* S has the elements of s, in the direction of a loop.
IsOriented(E, s, back, S) ==
  /\ s \in Seq(E) /\ S \in Seq(E) /\ Len(S) = Len(s) /\ S = Oriented(s, back)
  /\ \A i \in 1..Len(s) : S[i] = s[Turned(Len(s), i, back)]
  /\ Distinct(s) => Distinct(S)

(* A sequence seen in one direction. *)
LEMMA OrientedIs ==
  ASSUME NEW E, NEW s \in Seq(E), NEW back \in BOOLEAN
  PROVE  IsOriented(E, s, back, Oriented(s, back))
<1>1. CASE ~back BY <1>1 DEF IsOriented, Oriented, Turned
<1>2. CASE back
  <2>1. PICK n \in Nat : n = Len(s) OBVIOUS
  <2>2. PICK b : b = Backwards(s) OBVIOUS
  <2>3. b \in Seq(E) /\ Len(b) = n /\ (Distinct(s) => Distinct(b)) BY <2>1, <2>2, BackwardSpots
  <2>4. \A i \in 1..n : b[i] = s[n + 1 - i] BY <2>1, <2>2 DEF Backwards
  <2> QED BY <1>2, <2>1, <2>2, <2>3, <2>4 DEF IsOriented, Oriented, Turned
<1> QED BY <1>1, <1>2

\* What a loop over a ring follows.
Followed(hp, E, h, s, back, S) ==
  /\ IsOriented(E, s, back, S) /\ Distinct(S)
  /\ \A i \in 0..Len(S) : Toward(hp, back)[Spot(h, S, i)] = Spot(h, S, i + 1)
  /\ \A i \in 0..Len(S) : Toward(hp, ~back)[Spot(h, S, i + 1)] = Spot(h, S, i)

(* The links in either direction. *)
LEMMA RingsOriented ==
  ASSUME NEW hp, NEW H, NEW E, NEW U, NEW q, Rings(hp, H, E, U, q), NEW h \in U, NEW back \in BOOLEAN
  PROVE  /\ Followed(hp, E, h, q[h], back, Oriented(q[h], back))
         /\ Along(Toward(hp, back), h) = Oriented(q[h], back)
<1>1. h \in H /\ \A i \in 0..Len(q[h]) : /\ hp.next[Spot(h, q[h], i)] = Spot(h, q[h], i + 1)
                                         /\ hp.prev[Spot(h, q[h], i + 1)] = Spot(h, q[h], i)
  BY DEF Rings
<1>2. PICK s \in Seq(E), n \in Nat : s = q[h] /\ n = Len(s) /\ Distinct(s) BY <1>1, SpotTypes
<1>3. PICK S : S = Oriented(s, back) OBVIOUS
<1>4. IsOriented(E, s, back, S) BY <1>2, <1>3, OrientedIs
<1>5. S \in Seq(E) /\ Len(S) = n /\ Distinct(S) BY <1>2, <1>4 DEF IsOriented
<1>6. CASE ~back
  <2>1. S = s BY <1>3, <1>6 DEF Oriented
  <2> QED BY <1>1, <1>2, <1>3, <1>4, <1>5, <1>6, <2>1, RingsAreFollowed DEF Followed, Toward, Oriented
<1>7. CASE back
  <2>1. S = Backwards(s) BY <1>3, <1>7 DEF Oriented
  <2>2. \A i \in 0..(n + 1) : Spot(h, S, i) = Spot(h, s, n + 1 - i)
    <3>1. Mirrored(h, s, Backwards(s)) BY <1>2, BackwardSpots
    <3> QED BY <1>2, <2>1, <3>1 DEF Mirrored
  <2>3. ASSUME NEW i \in 0..n
        PROVE  hp.prev[Spot(h, S, i)] = Spot(h, S, i + 1) /\ hp.next[Spot(h, S, i + 1)] = Spot(h, S, i)
    <3>1. PICK j \in 0..n : j = n - i /\ n + 1 - i = j + 1 /\ n + 1 - (i + 1) = j BY Flip
    <3>2. i \in 0..(n + 1) /\ i + 1 \in 0..(n + 1) BY <1>2
    <3>3. Spot(h, S, i) = Spot(h, s, j + 1) /\ Spot(h, S, i + 1) = Spot(h, s, j)
      <4>1. Spot(h, S, i) = Spot(h, s, n + 1 - i) /\ Spot(h, S, i + 1) = Spot(h, s, n + 1 - (i + 1)) BY <2>2, <3>2
      <4> QED BY <3>1, <4>1
    <3> QED BY <1>1, <1>2, <3>1, <3>3
  <2>4. Toward(hp, back) = hp.prev /\ Toward(hp, ~back) = hp.next BY <1>7 DEF Toward
  <2>5. Along(hp.prev, h) = S BY <1>2, <2>1, RingsAreFollowed
  <2>6. Followed(hp, E, h, s, back, S) BY <1>4, <1>5, <2>3, <2>4 DEF Followed
  <2> QED BY <1>2, <1>3, <2>4, <2>5, <2>6
<1> QED BY <1>6, <1>7

(* One entry more, in the direction of a loop. *)
LEMMA OrientedIns ==
  ASSUME NEW E, NEW s, NEW n, NEW k, NEW e, MayInsert(E, s, k, e, n), NEW back \in BOOLEAN
  PROVE  Oriented(Ins(s, k, e), back) = Ins(Oriented(s, back), TurnedGap(n, k, back), e)
<1>1. s \in Seq(E) /\ n \in Nat /\ n = Len(s) /\ k \in 0..n /\ e \in E BY DEF MayInsert
<1>2. CASE ~back BY <1>2 DEF Oriented, TurnedGap
<1>3. CASE back
  <2>1. PICK w : w = Ins(s, k, e) OBVIOUS
  <2>2. w \in Seq(E) /\ Len(w) = n + 1 BY <2>1, InsSpots
  <2>3. \A i \in 1..(n + 1) : w[i] = IF i <= k THEN s[i] ELSE IF i = k + 1 THEN e ELSE s[i - 1] BY <1>1, <2>1 DEF Ins
  <2>4. PICK b : b = Backwards(s) OBVIOUS
  <2>5. Len(b) = n /\ \A i \in 1..n : b[i] = s[n + 1 - i]
    <3>1. Len(b) = n BY <1>1, <2>4, BackwardSpots
    <3> QED BY <1>1, <2>4, <3>1 DEF Backwards
  <2>6. Backwards(w) = [i \in 1..(n + 1) |-> w[(n + 1) + 1 - i]] BY <2>2 DEF Backwards
  <2>7. Ins(b, n - k, e) = [i \in 1..(n + 1) |-> IF i <= n - k THEN b[i] ELSE IF i = n - k + 1 THEN e ELSE b[i - 1]]
    BY <2>5 DEF Ins
  <2>8. ASSUME NEW i \in 1..(n + 1)
        PROVE  w[(n + 1) + 1 - i] = IF i <= n - k THEN b[i] ELSE IF i = n - k + 1 THEN e ELSE b[i - 1]
    <3>1. i \in Int /\ 1 <= i /\ i <= n + 1 /\ k \in Int /\ 0 <= k /\ k <= n BY <1>1
    <3>2. PICK j \in 1..(n + 1) : j = (n + 1) + 1 - i
      <4>1. n + 1 \in Nat BY <1>1
      <4> QED BY <4>1, FlipOne
    <3>3. CASE i <= n - k
      <4>1. i \in 1..n /\ ~(j <= k) /\ j # k + 1 /\ j - 1 = n + 1 - i BY <1>1, <3>1, <3>2, <3>3
      <4> QED BY <2>3, <2>5, <3>2, <3>3, <4>1
    <3>4. CASE i = n - k + 1
      <4>1. ~(i <= n - k) /\ j = k + 1 /\ ~(j <= k) BY <1>1, <3>1, <3>2, <3>4
      <4> QED BY <2>3, <3>2, <3>4, <4>1
    <3>5. CASE i > n - k + 1
      <4>1. ~(i <= n - k) /\ i # n - k + 1 /\ j <= k /\ i - 1 \in 1..n /\ n + 1 - (i - 1) = j BY <1>1, <3>1, <3>2, <3>5
      <4> QED BY <2>3, <2>5, <3>2, <4>1
    <3> QED BY <1>1, <3>1, <3>3, <3>4, <3>5
  <2>9. Backwards(w) = Ins(b, n - k, e) BY <2>6, <2>7, <2>8
  <2> QED BY <1>3, <2>1, <2>4, <2>9 DEF Oriented, TurnedGap
<1> QED BY <1>2, <1>3

(* One entry less. *)
LEMMA OrientedDel ==
  ASSUME NEW E, NEW s \in Seq(E), NEW n \in Nat, n = Len(s), NEW k \in 1..n, NEW back \in BOOLEAN
  PROVE  Oriented(Del(s, k), back) = Del(Oriented(s, back), Turned(n, k, back))
<1>1. CASE ~back BY <1>1 DEF Oriented, Turned
<1>2. CASE back
  <2>1. PICK w : w = Del(s, k) OBVIOUS
  <2>2. w \in Seq(E) /\ Len(w) = n - 1 BY <2>1, DelSpots
  <2>3. \A i \in 1..(n - 1) : w[i] = IF i < k THEN s[i] ELSE s[i + 1] BY <2>1 DEF Del
  <2>4. PICK b : b = Backwards(s) OBVIOUS
  <2>5. Len(b) = n /\ \A i \in 1..n : b[i] = s[n + 1 - i]
    <3>1. Len(b) = n BY <2>4, BackwardSpots
    <3> QED BY <2>4, <3>1 DEF Backwards
  <2>6. Backwards(w) = [i \in 1..(n - 1) |-> w[(n - 1) + 1 - i]] BY <2>2 DEF Backwards
  <2>7. Del(b, n + 1 - k) = [i \in 1..(n - 1) |-> IF i < n + 1 - k THEN b[i] ELSE b[i + 1]] BY <2>5 DEF Del
  <2>8. ASSUME NEW i \in 1..(n - 1) PROVE w[(n - 1) + 1 - i] = IF i < n + 1 - k THEN b[i] ELSE b[i + 1]
    <3>1. PICK j \in 1..(n - 1) : j = (n - 1) + 1 - i
      <4>1. n - 1 \in Nat OBVIOUS
      <4> QED BY <4>1, FlipOne
    <3>2. CASE i < n + 1 - k
      <4>1. ~(j < k) /\ j + 1 = n + 1 - i /\ i \in 1..n BY <3>1, <3>2
      <4> QED BY <2>3, <2>5, <3>1, <3>2, <4>1
    <3>3. CASE ~(i < n + 1 - k)
      <4>1. j < k /\ i + 1 \in 1..n /\ n + 1 - (i + 1) = j BY <3>1, <3>3
      <4> QED BY <2>3, <2>5, <3>1, <3>3, <4>1
    <3> QED BY <3>2, <3>3
  <2>10. [i \in 1..(n - 1) |-> w[(n - 1) + 1 - i]] = [i \in 1..(n - 1) |-> IF i < n + 1 - k THEN b[i] ELSE b[i + 1]]
    BY <2>8, ZenonT(30)
  <2>9. Backwards(w) = Del(b, n + 1 - k) BY <2>6, <2>7, <2>10, ZenonT(30)
  <2> QED BY <1>2, <2>1, <2>4, <2>9 DEF Oriented, Turned
<1> QED BY <1>1, <1>2

\* The heads that may be used, and what a reader sees behind every head.
HeadsOf(hp) == {h \in ListHead : IsRing(hp, h)}
ListsIn(hp) == [h \in ListHead |-> IF IsRing(hp, h) THEN Along(hp.next, h) ELSE << >>]

\* The heap is rings of these.
Sound(hp) == Rings(hp, ListHead, Entry, HeadsOf(hp), ListsIn(hp))

\* The loop is between two elements of its ring.
LoopState(hp, lp, vis, mem) ==
  \E at \in {"test", "next"}, h \in HeadsOf(hp), back, safe \in BOOLEAN : \E p, n :
    /\ lp = [at |-> at, head |-> h, back |-> back, safe |-> safe, p |-> p, n |-> n]
    /\ Turn(Entry, h, Oriented(ListsIn(hp)[h], back), Len(ListsIn(hp)[h]), at, safe, p, n, vis, mem)

\* The inductive invariant of the lists.
ListInv ==
  /\ Sound(heap)
  /\ \/ loop = Idle /\ visited = << >> /\ members = << >>
     \/ LoopState(heap, loop, visited, members)

(* A reader sees the rings as they are. *)
LEMMA RingsAreRead ==
  ASSUME NEW hp, NEW U, NEW q, Rings(hp, ListHead, Entry, U, q)
  PROVE  HeadsOf(hp) = U /\ ListsIn(hp) = q /\ Sound(hp)
<1>1. U \subseteq ListHead /\ q \in [ListHead -> Seq(Entry)] BY DEF Rings
<1>2. \A h \in ListHead : IsRing(hp, h) <=> h \in U BY RingsAreUsable
<1>3. HeadsOf(hp) = U BY <1>1, <1>2 DEF HeadsOf
<1>4. ASSUME NEW h \in ListHead PROVE (IF IsRing(hp, h) THEN Along(hp.next, h) ELSE << >>) = q[h]
  <2>1. CASE h \in U
    <3>1. Along(hp.next, h) = q[h] BY <2>1, RingsAreFollowed
    <3> QED BY <1>2, <2>1, <3>1
  <2>2. CASE h \notin U
    <3>1. q[h] = << >> BY <2>2 DEF Rings
    <3> QED BY <1>2, <2>2, <3>1
  <2> QED BY <2>1, <2>2
<1>5. ListsIn(hp) = q BY <1>1, <1>4 DEF ListsIn
<1>6. Sound(hp) BY <1>3, <1>5 DEF Sound
<1> QED BY <1>3, <1>5, <1>6

(* The mapping of the refinement is this reading. *)
LEMMA ListsInAre ==
  [h \in ListHead |-> IF Usable(h) THEN Along(heap.next, h) ELSE << >>] = ListsIn(heap)
BY DEF ListsIn, Usable

(* LIST_HEAD() makes empty rings. *)
LEMMA ListInitSound == ListInit => ListInv /\ ListsIn(heap) = [h \in ListHead |-> << >>]
<1> SUFFICES ASSUME ListInit PROVE ListInv /\ ListsIn(heap) = [h \in ListHead |-> << >>] OBVIOUS
<1>1. /\ IsFiniteSet(ListHead) /\ IsFiniteSet(Entry) /\ ListHead \cap Entry = {} /\ NULL \notin ListHead \cup Entry
  BY ListAssumption
<1>2. PICK S, T : S = ListHead \cup Entry /\ T = S \cup {NULL} OBVIOUS
<1>3. PICK l : l = [x \in S |-> IF x \in ListHead THEN x ELSE NULL] OBVIOUS
<1>4. l \in [S -> T] /\ \A x \in S : l[x] = IF x \in ListHead THEN x ELSE NULL BY <1>2, <1>3
<1>5. heap = [next |-> l, prev |-> l] BY <1>2, <1>3 DEF ListInit
<1>6. PICK q : q = [h \in ListHead |-> << >>] OBVIOUS
<1>7. q \in [ListHead -> Seq(Entry)] /\ \A h \in ListHead : q[h] = << >> /\ Len(q[h]) = 0 BY <1>6
<1>8. IsFiniteSet(ListHead \cup Entry) BY <1>1, FS_Union
<1>9. heap \in [next : Links(ListHead, Entry), prev : Links(ListHead, Entry)] BY <1>2, <1>4, <1>5 DEF Links
<1>10. ASSUME NEW h \in ListHead, NEW i \in 0..Len(q[h])
       PROVE  heap.next[Spot(h, q[h], i)] = Spot(h, q[h], i + 1) /\ heap.prev[Spot(h, q[h], i + 1)] = Spot(h, q[h], i)
  <2>1. Spot(h, q[h], i) = h /\ Spot(h, q[h], i + 1) = h
    <3>1. i = 0 /\ i \notin 1..Len(q[h]) /\ i + 1 \notin 1..Len(q[h]) BY <1>7
    <3> QED BY <3>1 DEF Spot
  <2>2. h \in S /\ l[h] = h BY <1>2, <1>4
  <2> QED BY <1>5, <2>1, <2>2
<1>11. \A g, h \in ListHead : \A i \in 1..Len(q[g]), j \in 1..Len(q[h]) : q[g][i] = q[h][j] => g = h /\ i = j BY <1>7
<1>12. \A e \in Entry : heap.next[e] = heap.prev[e] /\ heap.next[e] \in {NULL, e}
  <2> TAKE e \in Entry
  <2>1. e \in S /\ e \notin ListHead BY <1>1, <1>2
  <2> QED BY <1>4, <1>5, <2>1
<1>13. Rings(heap, ListHead, Entry, ListHead, q) BY <1>1, <1>7, <1>8, <1>9, <1>10, <1>11, <1>12 DEF Rings
<1>14. Sound(heap) /\ ListsIn(heap) = q BY <1>13, RingsAreRead
<1> QED BY <1>6, <1>14 DEF ListInv, ListInit

(* RingsAreSound follows. *)
LEMMA ListInvSound == ListInv => RingsAreSound
<1> SUFFICES ASSUME ListInv, NEW h \in ListHead, Usable(h)
    PROVE  LET s == Along(heap.next, h) IN
           /\ Backwards(s) = Along(heap.prev, h)
           /\ Range(s) \subseteq Entry /\ IsInjective(s)
           /\ \A g \in ListHead \ {h} : Usable(g) => Range(s) \cap Range(Along(heap.next, g)) = {}
           /\ list_empty(heap, h) <=> s = << >>
           /\ \A e \in Range(s) : /\ list_is_first(heap, e, h) <=> e = s[1]
                                  /\ list_is_last(heap, e, h) <=> e = s[Len(s)]
  BY DEF RingsAreSound
<1>1. PICK U, q : U = HeadsOf(heap) /\ q = ListsIn(heap) OBVIOUS
<1>2. Rings(heap, ListHead, Entry, U, q) /\ h \in U BY <1>1 DEF ListInv, Sound, HeadsOf, Usable
<1>3. PICK s \in Seq(Entry), n \in Nat : s = q[h] /\ n = Len(s) /\ Distinct(s) BY <1>2, SpotTypes
<1>4. Along(heap.next, h) = s /\ Along(heap.prev, h) = Backwards(s) BY <1>2, <1>3, RingsAreFollowed
<1>5. DOMAIN s = 1..n /\ Range(s) = {s[i] : i \in 1..n} BY <1>3 DEF Range
<1>6. Range(s) \subseteq Entry
  <2>1. \A i \in 1..n : s[i] \in Entry BY <1>3, ElementOfSeq
  <2> QED BY <1>5, <2>1
<1>7. IsInjective(s) BY <1>3, <1>5 DEF IsInjective, Distinct
<1>8. ASSUME NEW g \in ListHead \ {h}, Usable(g) PROVE Range(s) \cap Range(Along(heap.next, g)) = {}
  <2>1. g \in U BY <1>1, <1>8 DEF HeadsOf, Usable
  <2>2. PICK r \in Seq(Entry), m \in Nat : r = q[g] /\ m = Len(r) BY <1>2, <1>8, SpotTypes
  <2>3. Along(heap.next, g) = r BY <1>2, <2>1, <2>2, RingsAreFollowed
  <2>4. Range(r) = {r[i] : i \in 1..m} BY <2>2 DEF Range
  <2>5. \A c, d \in ListHead : \A i \in 1..Len(q[c]), j \in 1..Len(q[d]) : q[c][i] = q[d][j] => c = d /\ i = j
    BY <1>2 DEF Rings
  <2>6. \A i \in 1..n, j \in 1..m : s[i] # r[j] BY <1>3, <1>8, <2>2, <2>5
  <2> QED BY <1>5, <2>3, <2>4, <2>6
<1>9. \A i \in 0..n : heap.next[Spot(h, s, i)] = Spot(h, s, i + 1) /\ heap.prev[Spot(h, s, i + 1)] = Spot(h, s, i)
  BY <1>2, <1>3 DEF Rings
<1>10. list_empty(heap, h) <=> s = << >>
  <2>1. 0 \in 0..n /\ 0 \notin 1..n BY <1>3
  <2>2. heap.next[Spot(h, s, 0)] = Spot(h, s, 0 + 1) BY <1>9, <2>1
  <2>3. Spot(h, s, 0) = h BY <1>3, <2>1 DEF Spot
  <2>4. CASE n = 0
    <3>1. Spot(h, s, 0 + 1) = h BY <1>3, <2>4 DEF Spot
    <3>2. s = << >> BY <1>3, <2>4, EmptySeq
    <3> QED BY <2>2, <2>3, <3>1, <3>2 DEF list_empty
  <2>5. CASE n > 0
    <3>1. 1 \in 1..n /\ 1 \in 1..Len(q[h]) BY <1>3, <2>5
    <3>2. Spot(h, s, 0 + 1) = s[1] BY <1>3, <3>1 DEF Spot
    <3>3. s[1] # h
      <4>1. s[1] \in Entry BY <1>3, <3>1, ElementOfSeq
      <4> QED BY <4>1, ListAssumption
    <3>4. s # << >> BY <1>3, <2>5
    <3> QED BY <2>2, <2>3, <3>2, <3>3, <3>4 DEF list_empty
  <2> QED BY <1>3, <2>4, <2>5
<1>11. ASSUME NEW e \in Range(s)
       PROVE  (list_is_first(heap, e, h) <=> e = s[1]) /\ (list_is_last(heap, e, h) <=> e = s[n])
  <2>1. PICK k \in 1..n : e = s[k] BY <1>5
  <2>2. /\ heap.next[e] = Spot(h, s, k + 1) /\ heap.prev[e] = Spot(h, s, k - 1)
    BY <1>2, <1>3, <2>1, RingsNeighbours
  <2>3. \A i \in 0..n : i # 0 => Spot(h, s, i) # h
    <3> TAKE i \in 0..n
    <3>1. i # 0 => i \in 1..n BY <1>3
    <3>2. i \in 1..n => s[i] \in Entry BY <1>3, ElementOfSeq
    <3> QED BY <1>3, <3>1, <3>2, ListAssumption DEF Spot
  <2>4. heap.prev[e] = h <=> k = 1
    <3>1. CASE k = 1
      <4>1. Spot(h, s, k - 1) = h BY <1>3, <3>1 DEF Spot
      <4> QED BY <2>2, <3>1, <4>1
    <3>2. CASE k # 1
      <4>1. k - 1 \in 0..n /\ k - 1 # 0 BY <1>3, <3>2
      <4> QED BY <2>2, <2>3, <3>2, <4>1
    <3> QED BY <3>1, <3>2
  <2>5. heap.next[e] = h <=> k = n
    <3>1. CASE k = n
      <4>1. Spot(h, s, k + 1) = h BY <1>3, <3>1 DEF Spot
      <4> QED BY <2>2, <3>1, <4>1
    <3>2. CASE k # n
      <4>1. k + 1 \in 0..n /\ k + 1 # 0 BY <1>3, <3>2
      <4> QED BY <2>2, <2>3, <3>2, <4>1
    <3> QED BY <3>1, <3>2
  <2>6. 1 \in 1..n /\ n \in 1..n BY <1>3
  <2>7. (e = s[1] <=> k = 1) /\ (e = s[n] <=> k = n) BY <1>3, <2>1, <2>6 DEF Distinct
  <2> QED BY <2>4, <2>5, <2>7 DEF list_is_first, list_is_last
<1> QED BY <1>3, <1>4, <1>6, <1>7, <1>8, <1>10, <1>11

(* And LoopIsExact. *)
LEMMA ListInvExact == ListInv => LoopIsExact
<1> SUFFICES ASSUME ListInv, loop.at # "idle"
    PROVE  /\ loop.p # NULL /\ loop.p \notin ListHead \ {loop.head}
           /\ IsInjective(visited)
           /\ loop.at = "test" /\ loop.p = loop.head => InOrder(members, visited)
  BY DEF LoopIsExact
<1>1. LoopState(heap, loop, visited, members)
  <2>1. loop # Idle BY DEF Idle
  <2> QED BY <2>1 DEF ListInv
<1>2. PICK at \in {"test", "next"}, h \in HeadsOf(heap), back \in BOOLEAN, safe \in BOOLEAN : \E p, n :
          /\ loop = [at |-> at, head |-> h, back |-> back, safe |-> safe, p |-> p, n |-> n]
          /\ Turn(Entry, h, Oriented(ListsIn(heap)[h], back), Len(ListsIn(heap)[h]), at, safe, p, n, visited, members)
  BY <1>1 DEF LoopState
<1>2a. PICK p, n :
        /\ loop = [at |-> at, head |-> h, back |-> back, safe |-> safe, p |-> p, n |-> n]
        /\ Turn(Entry, h, Oriented(ListsIn(heap)[h], back), Len(ListsIn(heap)[h]), at, safe, p, n, visited, members)
  BY <1>2
<1>3. PICK s, S : s = ListsIn(heap)[h] /\ S = Oriented(s, back) OBVIOUS
<1>4. h \in ListHead /\ ListHead \cap Entry = {} /\ NULL \notin ListHead \cup Entry BY ListAssumption DEF HeadsOf
<1>5. Rings(heap, ListHead, Entry, HeadsOf(heap), ListsIn(heap)) BY DEF ListInv, Sound
<1>6. Followed(heap, Entry, h, s, back, S) BY <1>2, <1>3, <1>5, RingsOriented
<1>7. S \in Seq(Entry) /\ Len(S) = Len(s) BY <1>6 DEF Followed, IsOriented
<1>8. PICK m \in Nat : m = Len(S) BY <1>7
<1>9. Turn(Entry, h, S, m, at, safe, p, n, visited, members) BY <1>2a, <1>3, <1>7, <1>8
<1>10. /\ visited \in Seq(Entry) /\ Distinct(visited) /\ p \in Entry \cup {h}
       /\ AtEnd(Entry, h, S, m, p, visited, members) => InOrder(members, visited)
  BY <1>9, TurnIsExact
<1>11. loop.p = p /\ loop.head = h /\ loop.at = at BY <1>2a
<1>12. IsInjective(visited) BY <1>10 DEF IsInjective, Distinct
<1>13. ASSUME at = "test", p = h PROVE AtEnd(Entry, h, S, m, p, visited, members)
  <2> SUFFICES ASSUME ~AtEnd(Entry, h, S, m, p, visited, members) PROVE FALSE OBVIOUS
  <2>1. \E c : Visits(Entry, h, S, m, safe, p, n, visited, members, c) BY <1>9, <1>13, TurnBody
  <2>2. p \in Entry BY <2>1 DEF Visits
  <2> QED BY <1>4, <1>13, <2>2
<1> QED BY <1>4, <1>10, <1>11, <1>12, <1>13

(* Putting in front and behind, in the words of EntryLists. *)
LEMMA InsIs ==
  ASSUME NEW E, NEW s \in Seq(E), NEW e \in E
  PROVE  Ins(s, 0, e) = << e >> \o s /\ Ins(s, Len(s), e) = Append(s, e)
<1>1. PICK n \in Nat : n = Len(s) OBVIOUS
<1>2. MayInsert(E, s, 0, e, n) /\ MayInsert(E, s, n, e, n) BY <1>1 DEF MayInsert
<1>3. PICK v, w : v = Ins(s, 0, e) /\ w = Ins(s, n, e) OBVIOUS
<1>4. v \in Seq(E) /\ Len(v) = n + 1 /\ w \in Seq(E) /\ Len(w) = n + 1 BY <1>2, <1>3, InsSpots
<1>5. \A i \in 1..(n + 1) : v[i] = (IF i <= 0 THEN s[i] ELSE IF i = 0 + 1 THEN e ELSE s[i - 1])
                            /\ w[i] = (IF i <= n THEN s[i] ELSE IF i = n + 1 THEN e ELSE s[i - 1])
  BY <1>1, <1>3 DEF Ins
<1>6. v = << e >> \o s
  <2>0. << e >> \in Seq(E) /\ << e >> \o s \in Seq(E) BY ConcatProperties
  <2>1. PICK u \in Seq(E) : u = << e >> \o s BY <2>0
  <2>2. Len(u) = n + 1 /\ \A i \in 1..(n + 1) : u[i] = IF i = 1 THEN e ELSE s[i - 1] BY <1>1, <2>1
  <2>3. ASSUME NEW i \in 1..(n + 1) PROVE v[i] = u[i] BY <1>1, <1>5, <2>2
  <2> QED BY <1>4, <2>1, <2>2, <2>3, SeqEqual
<1>7. w = Append(s, e)
  <2>0. Append(s, e) \in Seq(E) BY AppendProperties
  <2>1. PICK u \in Seq(E) : u = Append(s, e) BY <2>0
  <2>2. Len(u) = n + 1 /\ \A i \in 1..(n + 1) : u[i] = IF i <= n THEN s[i] ELSE e BY <1>1, <2>1
  <2>3. ASSUME NEW i \in 1..(n + 1) PROVE w[i] = u[i] BY <1>1, <1>5, <2>2
  <2> QED BY <1>4, <2>1, <2>2, <2>3, SeqEqual
<1> QED BY <1>1, <1>3, <1>6, <1>7

(* Taking out. *)
LEMMA WithoutIs ==
  ASSUME NEW E, NEW s \in Seq(E), Distinct(s), NEW e
  PROVE  /\ Lacks(s, e) => Lists!Without(s, e) = s
         /\ \A k \in 1..Len(s) : s[k] = e => Lists!Without(s, e) = Del(s, k)
<1>1. PICK n \in Nat : n = Len(s) OBVIOUS
<1>2. DOMAIN s = 1..n /\ Range(s) = {s[i] : i \in 1..n} BY <1>1 DEF Range
<1>3. ASSUME Lacks(s, e) PROVE Lists!Without(s, e) = s
  <2>1. e \notin Lists!Range(s) BY <1>1, <1>2, <1>3 DEF Lacks, Lists!Range
  <2> QED BY <2>1 DEF Lists!Without
<1>4. ASSUME NEW k \in 1..n, s[k] = e PROVE Lists!Without(s, e) = Del(s, k)
  <2>1. e \in Lists!Range(s) BY <1>2, <1>4 DEF Lists!Range
  <2>2. Lists!Place(s, e) = k
    <3>1. \A i \in DOMAIN s : s[i] = e <=> i = k BY <1>1, <1>2, <1>4 DEF Distinct
    <3>2. Lists!Place(s, e) \in DOMAIN s /\ s[Lists!Place(s, e)] = e BY <1>2, <1>4 DEF Lists!Place
    <3> QED BY <3>1, <3>2
  <2>3. PICK a, b : a = SubSeq(s, 1, k - 1) /\ b = SubSeq(s, k + 1, n) OBVIOUS
  <2>4. /\ a \in Seq(E) /\ b \in Seq(E) /\ Len(a) = k - 1 /\ Len(b) = n - k
        /\ \A i \in 1..(k - 1) : a[i] = s[i]
        /\ \A i \in 1..(n - k) : b[i] = s[i + k]
    BY <1>1, <1>4, <2>3
  <2>5. PICK w : w = a \o b OBVIOUS
  <2>6. w \in Seq(E) /\ Len(w) = n - 1 BY <1>1, <1>4, <2>4, <2>5
  <2>7. ASSUME NEW i \in 1..(n - 1) PROVE w[i] = IF i < k THEN s[i] ELSE s[i + 1]
    <3>1. w[i] = IF i <= k - 1 THEN a[i] ELSE b[i - (k - 1)] BY <1>1, <1>4, <2>4, <2>5, <2>7
    <3>2. CASE i < k
      <4>1. i <= k - 1 /\ i \in 1..(k - 1) BY <1>4, <2>7, <3>2
      <4> QED BY <2>4, <3>1, <3>2, <4>1
    <3>3. CASE ~(i < k)
      <4>1. ~(i <= k - 1) /\ i - (k - 1) \in 1..(n - k) /\ i - (k - 1) + k = i + 1 BY <1>1, <1>4, <2>7, <3>3
      <4> QED BY <2>4, <3>1, <3>3, <4>1
    <3> QED BY <3>2, <3>3
  <2>8. w = [i \in 1..(n - 1) |-> IF i < k THEN s[i] ELSE s[i + 1]]
    <3>1. w = [i \in 1..(n - 1) |-> w[i]] BY <2>6
    <3> QED BY <2>7, <3>1
  <2>9. Lists!Without(s, e) = w BY <1>1, <2>1, <2>2, <2>3, <2>5 DEF Lists!Without
  <2> QED BY <1>1, <2>8, <2>9 DEF Del
<1> QED BY <1>1, <1>3, <1>4

\* Everything without e, and with e in front of or behind what h has.
Lost(q, e)       == [g \in ListHead |-> Lists!Without(q[g], e)]
PutFront(q, e, h) == [q EXCEPT ![h] = Ins(q[h], 0, e)]
PutBack(q, e, h)  == [q EXCEPT ![h] = Ins(q[h], Len(q[h]), e)]

(* A ring without an entry, in the words of EntryLists. *)
LEMMA LostIs ==
  ASSUME NEW hp, NEW U, NEW q, Rings(hp, ListHead, Entry, U, q), NEW e \in Entry
  PROVE  /\ Absent(ListHead, q, e) => Lost(q, e) = q
         /\ \A h \in ListHead : \A k \in 1..Len(q[h]) :
              q[h][k] = e => h \in U /\ Lost(q, e) = [q EXCEPT ![h] = Del(q[h], k)]
<1>1. q \in [ListHead -> Seq(Entry)] /\ U \subseteq ListHead /\ \A h \in ListHead \ U : q[h] = << >> BY DEF Rings
<1>2. \A h \in ListHead : q[h] \in Seq(Entry) /\ Distinct(q[h]) BY SpotTypes
<1>3. ASSUME NEW h \in ListHead, Lacks(q[h], e) PROVE Lists!Without(q[h], e) = q[h]
  BY <1>2, <1>3, WithoutIs
<1>4. ASSUME Absent(ListHead, q, e) PROVE Lost(q, e) = q
  <2>1. \A h \in ListHead : Lacks(q[h], e) BY <1>4 DEF Absent, Lacks
  <2> QED BY <1>1, <1>3, <2>1 DEF Lost
<1>5. ASSUME NEW h \in ListHead, NEW k \in 1..Len(q[h]), q[h][k] = e
      PROVE  h \in U /\ Lost(q, e) = [q EXCEPT ![h] = Del(q[h], k)]
  <2>1. h \in U
    <3>1. q[h] # << >> BY <1>5, EmptySeq
    <3> QED BY <1>1, <3>1
  <2>2. Lists!Without(q[h], e) = Del(q[h], k) BY <1>2, <1>5, WithoutIs
  <2>3. ASSUME NEW g \in ListHead, g # h PROVE Lists!Without(q[g], e) = q[g]
    <3>1. \A i \in 1..Len(q[g]) : q[g][i] # e BY <1>5, <2>3 DEF Rings
    <3> QED BY <1>3, <3>1 DEF Lacks
  <2> QED BY <1>1, <2>1, <2>2, <2>3 DEF Lost
<1> QED BY <1>4, <1>5

\* The loop between two elements, in parts.
Running(lp, q, h, back, safe, at, p, n, vis, mem) ==
  /\ lp = [at |-> at, head |-> h, back |-> back, safe |-> safe, p |-> p, n |-> n]
  /\ at \in {"test", "next"} /\ back \in BOOLEAN /\ safe \in BOOLEAN
  /\ Turn(Entry, h, Oriented(q[h], back), Len(q[h]), at, safe, p, n, vis, mem)

\* The heap hp is rings with heads U and entries q.
Reads(hp, U, q) == Rings(hp, ListHead, Entry, U, q) /\ HeadsOf(hp) = U /\ ListsIn(hp) = q

(* What the invariant says, in parts. *)
LEMMA ListInvOpens ==
  ASSUME ListInv
  PROVE  /\ Reads(heap, HeadsOf(heap), ListsIn(heap))
         /\ loop.at = "idle" => loop = Idle /\ visited = << >> /\ members = << >>
         /\ loop.at # "idle" => \E h \in HeadsOf(heap) : \E back, safe, at, p, n :
              Running(loop, ListsIn(heap), h, back, safe, at, p, n, visited, members)
<1>1. Reads(heap, HeadsOf(heap), ListsIn(heap)) BY DEF ListInv, Sound, Reads
<1>2. ASSUME LoopState(heap, loop, visited, members)
      PROVE  /\ loop.at # "idle"
             /\ \E h \in HeadsOf(heap) : \E back, safe, at, p, n :
                  Running(loop, ListsIn(heap), h, back, safe, at, p, n, visited, members)
  <2>1. PICK at \in {"test", "next"}, h \in HeadsOf(heap), back \in BOOLEAN, safe \in BOOLEAN : \E p, n :
          /\ loop = [at |-> at, head |-> h, back |-> back, safe |-> safe, p |-> p, n |-> n]
          /\ Turn(Entry, h, Oriented(ListsIn(heap)[h], back), Len(ListsIn(heap)[h]), at, safe, p, n, visited, members)
    BY <1>2 DEF LoopState
  <2>2. PICK p, n : Running(loop, ListsIn(heap), h, back, safe, at, p, n, visited, members) BY <2>1 DEF Running
  <2>3. loop.at # "idle" BY <2>2 DEF Running
  <2> QED BY <2>2, <2>3
<1>3. CASE LoopState(heap, loop, visited, members) BY <1>1, <1>2, <1>3
<1>4. CASE loop = Idle /\ visited = << >> /\ members = << >>
  <2>1. loop.at = "idle" BY <1>4 DEF Idle
  <2> QED BY <1>1, <1>4, <2>1
<1> QED BY <1>3, <1>4 DEF ListInv

(* The invariant, from its parts, when no loop runs. *)
LEMMA IdleKept ==
  ASSUME NEW hp2, NEW U2, NEW q2, Rings(hp2, ListHead, Entry, U2, q2),
         heap' = hp2, loop' = Idle, visited' = << >>, members' = << >>
  PROVE  ListInv' /\ ListsIn(heap)' = q2
<1>1. Sound(hp2) /\ ListsIn(hp2) = q2 BY RingsAreRead
<1> QED BY <1>1 DEF ListInv

(* And when one runs. *)
LEMMA LoopKept ==
  ASSUME NEW hp2, NEW U2, NEW q2, Rings(hp2, ListHead, Entry, U2, q2), heap' = hp2, NEW h \in U2,
         NEW lp, NEW vis, NEW mem, loop' = lp, visited' = vis, members' = mem,
         NEW back, NEW safe, NEW at, NEW p, NEW n, Running(lp, q2, h, back, safe, at, p, n, vis, mem)
  PROVE  ListInv' /\ ListsIn(heap)' = q2
<1>1. Sound(hp2) /\ ListsIn(hp2) = q2 /\ HeadsOf(hp2) = U2 BY RingsAreRead
<1>2. LoopState(hp2, lp, vis, mem) BY <1>1 DEF LoopState, Running
<1> QED BY <1>1, <1>2 DEF ListInv

-----------------------------------------------------------------------------
\* A step of the sequences.
AbstractStep(q, q2) ==
  \/ q2 = q
  \/ \E e \in Entry : q2 = Lost(q, e)
  \/ \E e \in Entry, h \in ListHead : Absent(ListHead, q, e) /\ q2 \in {PutFront(q, e, h), PutBack(q, e, h)}
  \/ \E e \in Entry, h \in ListHead : q2 \in {PutFront(Lost(q, e), e, h), PutBack(Lost(q, e), e, h)}
  \/ \E f, h \in ListHead : f # h /\ q2 \in {Moved(q, f, h, 0), Moved(q, f, h, Len(q[h]))}

(* Putting an entry into one of the sequences. *)
LEMMA PutIs ==
  ASSUME NEW q \in [ListHead -> Seq(Entry)], NEW e \in Entry, NEW h \in ListHead
  PROVE  Lists!Put(q, e, h) = {PutFront(q, e, h), PutBack(q, e, h)}
<1>1. q[h] \in Seq(Entry) OBVIOUS
<1>2. Ins(q[h], 0, e) = << e >> \o q[h] /\ Ins(q[h], Len(q[h]), e) = Append(q[h], e) BY <1>1, InsIs
<1> QED BY <1>2 DEF Lists!Put, PutFront, PutBack

\* The mapping of the refinement.
ReadLists == [h \in ListHead |-> IF Usable(h) THEN Along(heap.next, h) ELSE << >>]

(* A step of the heap that is one of these is a step of EntryLists. *)
LEMMA StepIsNext ==
  ASSUME ListInv, NEW q, NEW q2, q = ListsIn(heap), q2 = ListsIn(heap)', AbstractStep(q, q2)
  PROVE  Lists!Next \/ UNCHANGED ReadLists
<1>1. Rings(heap, ListHead, Entry, HeadsOf(heap), q) BY DEF ListInv, Sound
<1>2. q \in [ListHead -> Seq(Entry)] BY <1>1 DEF Rings
<1>3. ReadLists = q BY ListsInAre DEF ReadLists
<1>4. ReadLists' = q2 BY DEF ListsIn, Usable, ReadLists
<1>5. CASE q2 = q BY <1>3, <1>4, <1>5
<1>6. CASE \E e \in Entry : q2 = Lost(q, e)
  BY <1>3, <1>4, <1>6 DEF Lists!Next, Lists!Remove, Lost, ReadLists
<1>7. ASSUME NEW e \in Entry, NEW h \in ListHead, Absent(ListHead, q, e), q2 \in {PutFront(q, e, h), PutBack(q, e, h)}
      PROVE  Lists!Next
  <2>1. q2 \in Lists!Put(q, e, h) BY <1>2, <1>7, PutIs
  <2>2. Lists!Free(q, e)
    <3>1. ASSUME NEW g \in ListHead PROVE e \notin Lists!Range(q[g])
      <4>1. DOMAIN q[g] = 1..Len(q[g]) BY <1>2
      <4> QED BY <1>7, <4>1 DEF Absent, Lists!Range
    <3> QED BY <3>1 DEF Lists!Free
  <2> QED BY <1>3, <1>4, <2>1, <2>2 DEF Lists!Next, Lists!Add, ReadLists
<1>8. ASSUME NEW e \in Entry, NEW h \in ListHead, q2 \in {PutFront(Lost(q, e), e, h), PutBack(Lost(q, e), e, h)}
      PROVE  Lists!Next
  <2>1. Lost(q, e) \in [ListHead -> Seq(Entry)]
    <3>1. ASSUME NEW g \in ListHead PROVE Lists!Without(q[g], e) \in Seq(Entry)
      <4>1. q[g] \in Seq(Entry) /\ Distinct(q[g]) BY <1>1, SpotTypes
      <4>2. CASE Lacks(q[g], e) BY <4>1, <4>2, WithoutIs
      <4>3. CASE ~Lacks(q[g], e)
        <5>1. PICK k \in 1..Len(q[g]) : q[g][k] = e BY <4>3 DEF Lacks
        <5>2. Lists!Without(q[g], e) = Del(q[g], k) BY <4>1, <5>1, WithoutIs
        <5>3. PICK n \in Nat : n = Len(q[g]) BY <4>1
        <5>4. Del(q[g], k) \in Seq(Entry) BY <4>1, <5>1, <5>3, DelSpots
        <5> QED BY <5>2, <5>4
      <4> QED BY <4>2, <4>3
    <3> QED BY <3>1 DEF Lost
  <2>2. q2 \in Lists!Put(Lost(q, e), e, h) BY <1>8, <2>1, PutIs
  <2> QED BY <1>3, <1>4, <2>2 DEF Lists!Next, Lists!Move, Lost, ReadLists
<1>9. ASSUME NEW f \in ListHead, NEW h \in ListHead, f # h, q2 \in {Moved(q, f, h, 0), Moved(q, f, h, Len(q[h]))}
      PROVE  Lists!Next
  <2>1. q[f] \in Seq(Entry) /\ q[h] \in Seq(Entry) BY <1>2
  <2>2. Mix(q[h], 0, q[f]) = q[f] \o q[h] /\ Mix(q[h], Len(q[h]), q[f]) = q[h] \o q[f] BY <2>1, MixIs
  <2>3. q2 \in {[q EXCEPT ![f] = << >>, ![h] = q[f] \o q[h]], [q EXCEPT ![f] = << >>, ![h] = q[h] \o q[f]]}
    <3>1. ASSUME NEW x PROVE [q EXCEPT ![h] = x, ![f] = << >>] = [q EXCEPT ![f] = << >>, ![h] = x] BY <1>2, <1>9
    <3>2. PICK a, b : a = q[f] \o q[h] /\ b = q[h] \o q[f] OBVIOUS
    <3>3. Moved(q, f, h, 0) = [q EXCEPT ![h] = a, ![f] = << >>] BY <2>2, <3>2 DEF Moved
    <3>4. Moved(q, f, h, Len(q[h])) = [q EXCEPT ![h] = b, ![f] = << >>] BY <2>2, <3>2 DEF Moved
    <3>5. /\ Moved(q, f, h, 0) = [q EXCEPT ![f] = << >>, ![h] = a]
          /\ Moved(q, f, h, Len(q[h])) = [q EXCEPT ![f] = << >>, ![h] = b]
      BY <3>1, <3>3, <3>4
    <3> QED BY <1>9, <3>2, <3>5
  <2>4. Lists!Splice(f, h) BY <1>2, <1>3, <1>4, <1>9, <2>3 DEF Lists!Splice, ReadLists
  <2> QED BY <2>4 DEF Lists!Next
<1> QED BY <1>5, <1>6, <1>7, <1>8, <1>9 DEF AbstractStep

\* What every step keeps: the invariant, and the promise of EntryLists.
ListStep == ListInv' /\ AbstractStep(ListsIn(heap), ListsIn(heap)')

(* An entry comes into the ring of a loop, or into another. *)
LEMMA AddedWhileRunning ==
  ASSUME NEW hp, NEW U, NEW q, Rings(hp, ListHead, Entry, U, q), NEW g \in U, NEW h \in U,
         NEW lp, NEW back, NEW safe, NEW at, NEW p, NEW n, NEW vis, NEW mem,
         Running(lp, q, g, back, safe, at, p, n, vis, mem),
         NEW e \in Entry, Absent(ListHead, q, e), Lacks(vis, e), NEW k \in 0..Len(q[h])
  PROVE  Running(lp, [q EXCEPT ![h] = Ins(q[h], k, e)], g, back, safe, at, p, n, vis, mem)
<1>1. g \in ListHead /\ h \in ListHead /\ q \in [ListHead -> Seq(Entry)] BY DEF Rings
<1>2. PICK q2 : q2 = [q EXCEPT ![h] = Ins(q[h], k, e)] OBVIOUS
<1>3. CASE g # h
  <2>1. q2[g] = q[g] BY <1>1, <1>2, <1>3
  <2> QED BY <1>2, <2>1 DEF Running
<1>4. CASE g = h
  <2>1. PICK s \in Seq(Entry), m \in Nat : s = q[h] /\ m = Len(s) BY <1>1
  <2>2. back \in BOOLEAN /\ safe \in BOOLEAN BY DEF Running
  <2>3. PICK S \in Seq(Entry) : S = Oriented(s, back) /\ Len(S) = m /\ IsOriented(Entry, s, back, S)
    <3>1. PICK S : S = Oriented(s, back) OBVIOUS
    <3>2. IsOriented(Entry, s, back, S) BY <2>1, <2>2, <3>1, OrientedIs
    <3>3. S \in Seq(Entry) /\ Len(S) = m BY <2>1, <3>2 DEF IsOriented
    <3> QED BY <3>1, <3>2, <3>3
  <2>4. Turn(Entry, h, S, m, at, safe, p, n, vis, mem) BY <1>4, <2>1, <2>3 DEF Running
  <2>5. MayInsert(Entry, s, k, e, m) BY <2>1 DEF MayInsert
  <2>6. Oriented(Ins(s, k, e), back) = Ins(S, TurnedGap(m, k, back), e) BY <2>2, <2>3, <2>5, OrientedIns
  <2>7. PICK j \in 0..m : j = TurnedGap(m, k, back)
    <3>1. k \in 0..m BY <2>1
    <3>2. m - k \in 0..m BY <3>1
    <3> QED BY <3>1, <3>2 DEF TurnedGap
  <2>8. Lacks(s, e) BY <1>1, <2>1 DEF Absent, Lacks
  <2>9. Lacks(S, e)
    <3>1. ASSUME NEW i \in 1..m PROVE S[i] # e
      <4>1. S[i] = s[Turned(m, i, back)] BY <2>1, <2>3, <3>1 DEF IsOriented
      <4>2. Turned(m, i, back) \in 1..m BY <3>1, FlipOne DEF Turned
      <4> QED BY <2>1, <2>8, <4>1, <4>2 DEF Lacks
    <3> QED BY <2>3, <3>1 DEF Lacks
  <2>10. NewEntry(Entry, S, j, e, vis, m) BY <2>3, <2>7, <2>9 DEF NewEntry, MayInsert
  <2>11. Turn(Entry, h, Ins(S, j, e), m + 1, at, safe, p, n, vis, mem) BY <2>2, <2>4, <2>10, TurnInserts
  <2>12. q2[h] = Ins(s, k, e) /\ Len(Ins(s, k, e)) = m + 1 BY <1>1, <1>2, <2>1, <2>5, InsSpots
  <2> QED BY <1>2, <1>4, <2>6, <2>7, <2>11, <2>12 DEF Running
<1> QED BY <1>3, <1>4

(* list_add and list_add_tail. *)
LEMMA ListAddKeeps == ASSUME ListInv, ListAdd PROVE ListStep
<1>1. PICK e \in Entry, h \in ListHead :
        /\ Usable(h) /\ Unused(e) /\ e \notin Range(visited)
        /\ Calls(list_add(heap, e, h)) \/ Calls(list_add_tail(heap, e, h))
  BY DEF ListAdd
<1>2. PICK hp, U, q : hp = heap /\ U = HeadsOf(heap) /\ q = ListsIn(heap) OBVIOUS
<1>3. Rings(hp, ListHead, Entry, U, q) BY <1>2, ListInvOpens DEF Reads
<1>4. h \in U /\ q \in [ListHead -> Seq(Entry)] BY <1>1, <1>2, <1>3 DEF HeadsOf, Usable, Rings
<1>5. Absent(ListHead, q, e) BY <1>1, <1>2, <1>3, UnusedIsAbsent DEF Unused
<1>6. PICK m \in Nat : m = Len(q[h]) BY <1>4
<1>7. ASSUME NEW hp2, NEW k \in {0, m}, heap' = hp2, UNCHANGED <<loop, visited, members>>,
             Rings(hp2, ListHead, Entry, U, [q EXCEPT ![h] = Ins(q[h], k, e)])
      PROVE  ListInv' /\ ListsIn(heap)' = [q EXCEPT ![h] = Ins(q[h], k, e)]
  <2>1. PICK q2 : q2 = [q EXCEPT ![h] = Ins(q[h], k, e)] OBVIOUS
  <2>2. CASE loop.at = "idle"
    <3>1. loop = Idle /\ visited = << >> /\ members = << >> BY <2>2, ListInvOpens
    <3>2. loop' = Idle /\ visited' = << >> /\ members' = << >> BY <1>7, <3>1
    <3> QED BY <1>7, <3>2, IdleKept
  <2>3. CASE loop.at # "idle"
    <3>1. PICK lp, vis, mem : lp = loop /\ vis = visited /\ mem = members OBVIOUS
    <3>2. PICK g \in U : \E back, safe, at, p, n : Running(lp, q, g, back, safe, at, p, n, vis, mem)
      BY <1>2, <2>3, <3>1, ListInvOpens
    <3>3. PICK back, safe, at, p, n : Running(lp, q, g, back, safe, at, p, n, vis, mem) BY <3>2
    <3>4. Lacks(vis, e)
      <4>1. PICK S, t : Turn(Entry, g, S, t, at, safe, p, n, vis, mem) BY <3>3 DEF Running
      <4>2. safe \in BOOLEAN BY <3>3 DEF Running
      <4>3. vis \in Seq(Entry) BY <4>1, <4>2, TurnIsExact
      <4>4. DOMAIN vis = 1..Len(vis) BY <4>3
      <4> QED BY <1>1, <3>1, <4>4 DEF Lacks, Range
    <3>5. k \in 0..Len(q[h]) BY <1>6
    <3>6. Running(lp, q2, g, back, safe, at, p, n, vis, mem)
      BY <1>3, <1>4, <1>5, <2>1, <3>3, <3>4, <3>5, AddedWhileRunning
    <3>7. loop' = lp /\ visited' = vis /\ members' = mem BY <1>7, <3>1
    <3> QED BY <1>7, <2>1, <3>6, <3>7, LoopKept
  <2> QED BY <2>2, <2>3
<1>8. ASSUME Calls(list_add(heap, e, h)) PROVE ListStep
  <2>1. PICK hp2 : hp2 = list_add(hp, e, h) OBVIOUS
  <2>2. heap' = hp2 /\ UNCHANGED <<loop, visited, members>> BY <1>2, <1>8, <2>1 DEF Calls
  <2>3. Rings(hp2, ListHead, Entry, U, [q EXCEPT ![h] = Ins(q[h], 0, e)]) BY <1>3, <1>4, <1>5, <2>1, RingsAdd
  <2>4. ListInv' /\ ListsIn(heap)' = PutFront(q, e, h) BY <1>7, <2>2, <2>3 DEF PutFront
  <2>5. AbstractStep(q, PutFront(q, e, h)) BY <1>5 DEF AbstractStep
  <2> QED BY <1>2, <2>4, <2>5 DEF ListStep
<1>9. ASSUME Calls(list_add_tail(heap, e, h)) PROVE ListStep
  <2>1. PICK hp2 : hp2 = list_add_tail(hp, e, h) OBVIOUS
  <2>2. heap' = hp2 /\ UNCHANGED <<loop, visited, members>> BY <1>2, <1>9, <2>1 DEF Calls
  <2>3. Rings(hp2, ListHead, Entry, U, [q EXCEPT ![h] = Ins(q[h], m, e)]) BY <1>3, <1>4, <1>5, <1>6, <2>1, RingsAdd
  <2>4. ListInv' /\ ListsIn(heap)' = PutBack(q, e, h) BY <1>6, <1>7, <2>2, <2>3 DEF PutBack
  <2>5. AbstractStep(q, PutBack(q, e, h)) BY <1>5 DEF AbstractStep
  <2> QED BY <1>2, <2>4, <2>5 DEF ListStep
<1> QED BY <1>1, <1>8, <1>9

(* Taking out an entry that is in a ring, or points at itself. *)
LEMMA TakenOut ==
  ASSUME NEW hp, NEW U, NEW q, Rings(hp, ListHead, Entry, U, q), NEW e \in Entry, hp.next[e] # NULL
  PROVE  /\ Rings(list_del(hp, e), ListHead, Entry, U, Lost(q, e))
         /\ Rings(list_del_init(hp, e), ListHead, Entry, U, Lost(q, e))
         /\ Absent(ListHead, Lost(q, e), e)
         /\ hp.next[e] \in ListHead \cup Entry /\ hp.prev[e] \in ListHead \cup Entry
<1>1. CASE Absent(ListHead, q, e)
  <2>1. Lost(q, e) = q BY <1>1, LostIs
  <2>2. hp.next[e] = e /\ hp.prev[e] = e BY <1>1 DEF Rings
  <2> QED BY <1>1, <2>1, <2>2, RingsDelFree
<1>2. CASE ~Absent(ListHead, q, e)
  <2>1. PICK h \in ListHead : \E k \in 1..Len(q[h]) : e = q[h][k] BY <1>2 DEF Absent
  <2>2. PICK k \in 1..Len(q[h]) : e = q[h][k] BY <2>1
  <2>3. h \in U /\ Lost(q, e) = [q EXCEPT ![h] = Del(q[h], k)] BY <2>2, LostIs
  <2>4. Absent(ListHead, Lost(q, e), e) BY <2>2, <2>3, DeletedIsAbsent
  <2>5. /\ Rings(list_del(hp, e), ListHead, Entry, U, Lost(q, e))
        /\ Rings(list_del_init(hp, e), ListHead, Entry, U, Lost(q, e))
    BY <2>2, <2>3, RingsDel
  <2>6. hp.next[e] \in ListHead \cup Entry /\ hp.prev[e] \in ListHead \cup Entry BY <2>2, <2>3, RingsNeighbours
  <2> QED BY <2>4, <2>5, <2>6
<1> QED BY <1>1, <1>2

(* What a call outside a loop leaves. *)
LEMMA CallKeeps ==
  ASSUME ListInv, NoLoop, NEW hp2, NEW U2, NEW q2, Rings(hp2, ListHead, Entry, U2, q2), Calls(hp2),
         AbstractStep(ListsIn(heap), q2)
  PROVE  ListStep
<1>1. loop = Idle /\ visited = << >> /\ members = << >> BY ListInvOpens DEF NoLoop
<1>2. heap' = hp2 /\ loop' = Idle /\ visited' = << >> /\ members' = << >> BY <1>1 DEF Calls
<1>3. ListInv' /\ ListsIn(heap)' = q2 BY <1>2, IdleKept
<1> QED BY <1>3 DEF ListStep

(* list_del and list_del_init. *)
LEMMA ListDeleteKeeps == ASSUME ListInv, ListDelete PROVE ListStep
<1>1. PICK e \in Entry :
        NoLoop /\ Deletable(e) /\ (Calls(list_del(heap, e)) \/ Calls(list_del_init(heap, e)))
  BY DEF ListDelete
<1>2. PICK hp, U, q : hp = heap /\ U = HeadsOf(heap) /\ q = ListsIn(heap) OBVIOUS
<1>3. Rings(hp, ListHead, Entry, U, q) BY <1>2, ListInvOpens DEF Reads
<1>4. hp.next[e] # NULL BY <1>1, <1>2 DEF Deletable
<1>5. PICK a, b : a = list_del(hp, e) /\ b = list_del_init(hp, e) OBVIOUS
<1>6. Rings(a, ListHead, Entry, U, Lost(q, e)) /\ Rings(b, ListHead, Entry, U, Lost(q, e)) BY <1>3, <1>4, <1>5, TakenOut
<1>7. AbstractStep(q, Lost(q, e)) BY DEF AbstractStep
<1>8. Calls(a) \/ Calls(b) BY <1>1, <1>2, <1>5
<1> QED BY <1>1, <1>2, <1>6, <1>7, <1>8, CallKeeps

(* list_move and list_move_tail. *)
LEMMA ListMoveKeeps == ASSUME ListInv, ListMove PROVE ListStep
<1>1. PICK e \in Entry, h \in ListHead :
        /\ NoLoop /\ Usable(h) /\ Deletable(e)
        /\ Calls(list_move(heap, e, h)) \/ Calls(list_move_tail(heap, e, h))
  BY DEF ListMove
<1>2. PICK hp, U, q : hp = heap /\ U = HeadsOf(heap) /\ q = ListsIn(heap) OBVIOUS
<1>3. Rings(hp, ListHead, Entry, U, q) BY <1>2, ListInvOpens DEF Reads
<1>4. hp.next[e] # NULL /\ h \in U BY <1>1, <1>2 DEF Deletable, Usable, HeadsOf
<1>5. PICK a, b, r : a = list_move(hp, e, h) /\ b = list_move_tail(hp, e, h) /\ r = Lost(q, e) OBVIOUS
<1>6. /\ Rings(list_del(hp, e), ListHead, Entry, U, r) /\ Absent(ListHead, r, e)
      /\ hp.next[e] \in ListHead \cup Entry /\ hp.prev[e] \in ListHead \cup Entry
  BY <1>3, <1>4, <1>5, TakenOut
<1>7. /\ Rings(a, ListHead, Entry, U, PutFront(r, e, h))
      /\ Rings(b, ListHead, Entry, U, PutBack(r, e, h))
  BY <1>3, <1>4, <1>5, <1>6, RingsMove DEF PutFront, PutBack
<1>8. AbstractStep(q, PutFront(r, e, h)) /\ AbstractStep(q, PutBack(r, e, h)) BY <1>5 DEF AbstractStep
<1>9. Calls(a) \/ Calls(b) BY <1>1, <1>2, <1>5
<1> QED BY <1>1, <1>2, <1>7, <1>8, <1>9, CallKeeps

(* list_splice and its forms. *)
LEMMA ListSpliceKeeps == ASSUME ListInv, ListSplice PROVE ListStep
<1>1. PICK f \in ListHead, h \in ListHead :
        /\ NoLoop /\ f # h /\ Usable(f) /\ Usable(h)
        /\ \/ Calls(list_splice(heap, f, h)) \/ Calls(list_splice_tail(heap, f, h))
           \/ Calls(list_splice_init(heap, f, h)) \/ Calls(list_splice_tail_init(heap, f, h))
  BY DEF ListSplice
<1>2. PICK hp, U, q : hp = heap /\ U = HeadsOf(heap) /\ q = ListsIn(heap) OBVIOUS
<1>3. Rings(hp, ListHead, Entry, U, q) BY <1>2, ListInvOpens DEF Reads
<1>4. f \in U /\ h \in U BY <1>1, <1>2 DEF Usable, HeadsOf
<1>5. PICK a, b, c, d : /\ a = list_splice(hp, f, h) /\ b = list_splice_tail(hp, f, h)
                        /\ c = list_splice_init(hp, f, h) /\ d = list_splice_tail_init(hp, f, h)
  OBVIOUS
<1>6. PICK x, y : x = Moved(q, f, h, 0) /\ y = Moved(q, f, h, Len(q[h])) OBVIOUS
<1>7. /\ \E U2 : Rings(a, ListHead, Entry, U2, x)
      /\ \E U2 : Rings(b, ListHead, Entry, U2, y)
      /\ Rings(c, ListHead, Entry, U, x) /\ Rings(d, ListHead, Entry, U, y)
  BY <1>1, <1>3, <1>4, <1>5, <1>6, RingsSpliceCalls
<1>8. AbstractStep(q, x) /\ AbstractStep(q, y) BY <1>1, <1>6 DEF AbstractStep
<1>9. Calls(a) \/ Calls(b) \/ Calls(c) \/ Calls(d) BY <1>1, <1>2, <1>5
<1> QED BY <1>1, <1>2, <1>7, <1>8, <1>9, CallKeeps

(* INIT_LIST_HEAD of a head that was spliced away. *)
LEMMA ListReinitKeeps == ASSUME ListInv, ListReinit PROVE ListStep
<1>1. PICK h \in ListHead : NoLoop /\ ~Usable(h) /\ Calls(INIT_LIST_HEAD(heap, h)) BY DEF ListReinit
<1>2. PICK hp, U, q : hp = heap /\ U = HeadsOf(heap) /\ q = ListsIn(heap) OBVIOUS
<1>3. Rings(hp, ListHead, Entry, U, q) BY <1>2, ListInvOpens DEF Reads
<1>4. h \notin U BY <1>1, <1>2 DEF Usable, HeadsOf
<1>5. q[h] = << >> BY <1>3, <1>4 DEF Rings
<1>6. PICK a : a = INIT_LIST_HEAD(hp, h) OBVIOUS
<1>7. Rings(a, ListHead, Entry, U \cup {h}, q) BY <1>3, <1>5, <1>6, RingsInit
<1>8. AbstractStep(q, q) BY DEF AbstractStep
<1>9. Calls(a) BY <1>1, <1>2, <1>6
<1> QED BY <1>1, <1>2, <1>7, <1>8, <1>9, CallKeeps

(* Turning a position around twice. *)
LEMMA TurnedTwice ==
  ASSUME NEW n \in Nat, NEW i \in 1..n, NEW back \in BOOLEAN
  PROVE  Turned(n, i, back) \in 1..n /\ Turned(n, Turned(n, i, back), back) = i
<1>1. n + 1 - i \in 1..n /\ n + 1 - (n + 1 - i) = i OBVIOUS
<1> QED BY <1>1 DEF Turned

(* A loop starts. *)
LEMMA LoopStartKeeps == ASSUME ListInv, LoopStart PROVE ListStep
<1>1. PICK h \in ListHead, back \in BOOLEAN, safe \in BOOLEAN :
        /\ NoLoop /\ Usable(h)
        /\ loop' = [at |-> "test", head |-> h, back |-> back, safe |-> safe,
                    p |-> Link(back)[h], n |-> Link(back)[Link(back)[h]]]
        /\ visited' = << >>
        /\ members' = Along(Link(back), h)
        /\ UNCHANGED heap
  BY DEF LoopStart
<1>2. PICK hp, U, q : hp = heap /\ U = HeadsOf(heap) /\ q = ListsIn(heap) OBVIOUS
<1>3. Rings(hp, ListHead, Entry, U, q) BY <1>2, ListInvOpens DEF Reads
<1>4. h \in U /\ q \in [ListHead -> Seq(Entry)] BY <1>1, <1>2, <1>3 DEF HeadsOf, Usable, Rings
<1>5. PICK link : link = Link(back) OBVIOUS
<1>6. link = Toward(hp, back) BY <1>2, <1>5 DEF Link, Toward
<1>7. PICK s \in Seq(Entry), m \in Nat : s = q[h] /\ m = Len(s) BY <1>4
<1>8. PICK S : S = Oriented(s, back) OBVIOUS
<1>9. Followed(hp, Entry, h, s, back, S) /\ Along(link, h) = S BY <1>3, <1>4, <1>6, <1>7, <1>8, RingsOriented
<1>10. /\ S \in Seq(Entry) /\ Len(S) = m /\ Distinct(S)
       /\ \A i \in 0..m : link[Spot(h, S, i)] = Spot(h, S, i + 1)
  BY <1>6, <1>7, <1>9 DEF Followed, IsOriented
<1>11. link[h] = Spot(h, S, 0 + 1)
  <2>1. Spot(h, S, 0) = h BY DEF Spot
  <2> QED BY <1>10, <2>1
<1>12. PICK p, n : p = link[h] /\ n = link[p] OBVIOUS
<1>13. 0 < m => n = Spot(h, S, 0 + 2)
  <2> SUFFICES ASSUME 0 < m PROVE n = Spot(h, S, 2) OBVIOUS
  <2>1. 1 \in 0..m /\ 1 + 1 = 2 OBVIOUS
  <2>2. link[Spot(h, S, 1)] = Spot(h, S, 1 + 1) BY <1>10, <2>1
  <2> QED BY <1>11, <1>12, <2>2
<1>14. 0 \in 0..m /\ m \in 0..Len(S) BY <1>10
<1>15. Turn(Entry, h, S, m, "test", safe, p, n, << >>, SubSeq(S, 0 + 1, m))
  BY <1>10, <1>11, <1>12, <1>13, <1>14, TurnStarts
<1>16. SubSeq(S, 0 + 1, m) = S
  <2>1. PICK v : v = SubSeq(S, 1, m) OBVIOUS
  <2>2. v \in Seq(Entry) /\ Len(v) = m /\ \A i \in 1..m : v[i] = S[i] BY <1>10, <2>1
  <2>3. v = S BY <1>10, <2>2, SeqEqual
  <2> QED BY <2>1, <2>3
<1>17. PICK lp : lp = [at |-> "test", head |-> h, back |-> back, safe |-> safe, p |-> p, n |-> n] OBVIOUS
<1>18. Running(lp, q, h, back, safe, "test", p, n, << >>, S) BY <1>7, <1>8, <1>15, <1>16, <1>17 DEF Running
<1>19. heap' = hp /\ loop' = lp /\ visited' = << >> /\ members' = S BY <1>1, <1>2, <1>5, <1>9, <1>12, <1>17
<1>20. ListInv' /\ ListsIn(heap)' = q BY <1>3, <1>4, <1>18, <1>19, LoopKept
<1> QED BY <1>2, <1>20 DEF ListStep, AbstractStep

(* A loop ends. *)
LEMMA LoopEndKeeps == ASSUME ListInv, LoopEnd PROVE ListStep
<1>1. PICK hp, U, q : hp = heap /\ U = HeadsOf(heap) /\ q = ListsIn(heap) OBVIOUS
<1>2. Rings(hp, ListHead, Entry, U, q) BY <1>1, ListInvOpens DEF Reads
<1>3. heap' = hp /\ loop' = Idle /\ visited' = << >> /\ members' = << >> BY <1>1 DEF LoopEnd
<1>4. ListInv' /\ ListsIn(heap)' = q BY <1>2, <1>3, IdleKept
<1> QED BY <1>1, <1>4 DEF ListStep, AbstractStep

(* What the invariant says of a loop that runs. *)
LEMMA LoopRuns ==
  ASSUME ListInv, loop.at # "idle"
  PROVE  \E hp, U, q, h, back, safe, at, p, n, vis, mem :
           /\ hp = heap /\ q = ListsIn(heap) /\ vis = visited /\ mem = members
           /\ Rings(hp, ListHead, Entry, U, q) /\ h \in U
           /\ Running(loop, q, h, back, safe, at, p, n, vis, mem)
           /\ \A g \in ListHead : Usable(g) <=> g \in U
<1>1. PICK hp, U, q, vis, mem : hp = heap /\ U = HeadsOf(heap) /\ q = ListsIn(heap) /\ vis = visited /\ mem = members
  OBVIOUS
<1>2. Rings(hp, ListHead, Entry, U, q) BY <1>1, ListInvOpens DEF Reads
<1>3. PICK h \in U : \E back, safe, at, p, n : Running(loop, q, h, back, safe, at, p, n, vis, mem) BY <1>1, ListInvOpens
<1>4. \A g \in ListHead : Usable(g) <=> g \in U BY <1>1 DEF HeadsOf, Usable
<1> QED BY <1>1, <1>2, <1>3, <1>4

(* A loop goes on to the next element. *)
LEMMA LoopNextKeeps == ASSUME ListInv, LoopNext PROVE ListStep
<1>1. loop.at = "next" /\ loop.at # "idle" BY DEF LoopNext
<1>2. PICK hp, U, q, h, back, safe, at, p, n, vis, mem :
        /\ hp = heap /\ q = ListsIn(heap) /\ vis = visited /\ mem = members
        /\ Rings(hp, ListHead, Entry, U, q) /\ h \in U
        /\ Running(loop, q, h, back, safe, at, p, n, vis, mem)
  BY <1>1, LoopRuns
<1>3. /\ loop = [at |-> "next", head |-> h, back |-> back, safe |-> safe, p |-> p, n |-> n]
      /\ back \in BOOLEAN /\ safe \in BOOLEAN
      /\ Turn(Entry, h, Oriented(q[h], back), Len(q[h]), "next", safe, p, n, vis, mem)
  BY <1>1, <1>2 DEF Running
<1>4. PICK link : link = Link(back) OBVIOUS
<1>5. link = Toward(hp, back) BY <1>2, <1>4 DEF Link, Toward
<1>6. PICK s, S, m : s = q[h] /\ m = Len(s) /\ S = Oriented(s, back) OBVIOUS
<1>7. Followed(hp, Entry, h, s, back, S) BY <1>2, <1>3, <1>6, RingsOriented
<1>8. \A i \in 0..Len(S) : link[Spot(h, S, i)] = Spot(h, S, i + 1) BY <1>5, <1>7 DEF Followed
<1>9. PICK p2 : p2 = IF safe THEN n ELSE link[p] OBVIOUS
<1>10. PICK n2 : n2 = IF safe THEN link[p2] ELSE n OBVIOUS
<1>11. safe => n2 = link[p2] BY <1>10
<1>12. Turn(Entry, h, S, m, "next", safe, p, n, vis, mem) BY <1>3, <1>6
<1>13. Turn(Entry, h, S, m, "test", safe, p2, n2, vis, mem) BY <1>3, <1>8, <1>9, <1>11, <1>12, TurnNext
<1>14. PICK lp : lp = [at |-> "test", head |-> h, back |-> back, safe |-> safe, p |-> p2, n |-> n2] OBVIOUS
<1>15. Running(lp, q, h, back, safe, "test", p2, n2, vis, mem) BY <1>3, <1>6, <1>13, <1>14 DEF Running
<1>16. Successor = p2 BY <1>3, <1>4, <1>9 DEF Successor
<1>17. loop' = lp
  <2>1. loop' = [loop EXCEPT !.at = "test", !.p = p2, !.n = IF loop.safe THEN Link(loop.back)[p2] ELSE loop.n]
    BY <1>16 DEF LoopNext
  <2>2. loop.safe = safe /\ loop.back = back /\ loop.n = n BY <1>3
  <2>3. (IF loop.safe THEN Link(loop.back)[p2] ELSE loop.n) = n2 BY <1>4, <1>10, <2>2
  <2>4. loop' = [loop EXCEPT !.at = "test", !.p = p2, !.n = n2] BY <2>1, <2>3
  <2>5. PICK r : r = [at |-> "next", head |-> h, back |-> back, safe |-> safe, p |-> p, n |-> n] OBVIOUS
  <2>6. [r EXCEPT !.at = "test", !.p = p2, !.n = n2] = lp
    <3>1. PICK r1 : r1 = [r EXCEPT !.at = "test"] OBVIOUS
    <3>2. r1 = [at |-> "test", head |-> h, back |-> back, safe |-> safe, p |-> p, n |-> n] BY <2>5, <3>1
    <3>3. PICK r2 : r2 = [r1 EXCEPT !.p = p2] OBVIOUS
    <3>4. r2 = [at |-> "test", head |-> h, back |-> back, safe |-> safe, p |-> p2, n |-> n] BY <3>2, <3>3
    <3>5. [r2 EXCEPT !.n = n2] = lp BY <1>14, <3>4
    <3>6. [r EXCEPT !.at = "test", !.p = p2, !.n = n2] = [r2 EXCEPT !.n = n2] BY <3>1, <3>3, Zenon
    <3> QED BY <3>5, <3>6
  <2>7. loop = r BY <1>3, <2>5
  <2>8. [loop EXCEPT !.at = "test", !.p = p2, !.n = n2] = lp BY <2>6, <2>7, Zenon
  <2> QED BY <2>4, <2>8
<1>18. heap' = hp /\ visited' = vis /\ members' = mem BY <1>2 DEF LoopNext
<1>19. ListInv' /\ ListsIn(heap)' = q BY <1>2, <1>15, <1>17, <1>18, LoopKept
<1> QED BY <1>2, <1>19 DEF ListStep, AbstractStep

\* The body of a loop goes on with the heap hp2.
BodyGoesOn(hp2) ==
  /\ heap' = hp2 /\ loop' = [loop EXCEPT !.at = "next"]
  /\ visited' = Append(visited, loop.p) /\ members' = members

(* The body of a loop. *)
LEMMA LoopBodyKeeps == ASSUME ListInv, LoopBody PROVE ListStep
<1>1. loop.at = "test" /\ loop.at # "idle" /\ loop.p # loop.head BY DEF LoopBody
<1>2. PICK hp, U, q, h, back, safe, at, p, n, vis, mem :
        /\ hp = heap /\ q = ListsIn(heap) /\ vis = visited /\ mem = members
        /\ Rings(hp, ListHead, Entry, U, q) /\ h \in U
        /\ Running(loop, q, h, back, safe, at, p, n, vis, mem)
        /\ \A g \in ListHead : Usable(g) <=> g \in U
  BY <1>1, LoopRuns
<1>3. /\ loop = [at |-> "test", head |-> h, back |-> back, safe |-> safe, p |-> p, n |-> n]
      /\ back \in BOOLEAN /\ safe \in BOOLEAN
      /\ Turn(Entry, h, Oriented(q[h], back), Len(q[h]), "test", safe, p, n, vis, mem)
  BY <1>1, <1>2 DEF Running
<1>4. h \in ListHead /\ q \in [ListHead -> Seq(Entry)] BY <1>2 DEF Rings
<1>5. PICK s \in Seq(Entry), m \in Nat : s = q[h] /\ m = Len(s) BY <1>4
<1>6. PICK S : S = Oriented(s, back) OBVIOUS
<1>7. IsOriented(Entry, s, back, S) BY <1>3, <1>5, <1>6, OrientedIs
<1>8. S \in Seq(Entry) /\ Len(S) = m /\ \A i \in 1..m : S[i] = s[Turned(m, i, back)] BY <1>5, <1>7 DEF IsOriented
<1>9. Turn(Entry, h, S, m, "test", safe, p, n, vis, mem) BY <1>3, <1>5, <1>6
<1>10. ~AtEnd(Entry, h, S, m, p, vis, mem)
  <2>1. m + 1 \notin 1..m OBVIOUS
  <2>2. Spot(h, S, m + 1) = h BY <1>8, <2>1 DEF Spot
  <2>3. p # h BY <1>1, <1>3
  <2> QED BY <2>2, <2>3 DEF AtEnd
<1>11. PICK c : Visits(Entry, h, S, m, safe, p, n, vis, mem, c) BY <1>3, <1>9, <1>10, TurnBody
<1>12. PICK vis2 : vis2 = Append(vis, p) OBVIOUS
<1>13. PICK j \in 1..m : j = c + 1 BY <1>8, <1>11 DEF Visits
<1>14. /\ p = S[j] /\ p \in Entry
       /\ Turn(Entry, h, S, m, "next", safe, p, n, vis2, mem)
       /\ safe => Turn(Entry, h, Del(S, j), m - 1, "next", safe, p, n, vis2, mem)
  BY <1>11, <1>12, <1>13 DEF Visits
<1>15. PICK k \in 1..m : k = Turned(m, j, back) /\ Turned(m, k, back) = j BY <1>3, TurnedTwice
<1>16. p = s[k] BY <1>8, <1>14, <1>15
<1>17. PICK lp : lp = [at |-> "next", head |-> h, back |-> back, safe |-> safe, p |-> p, n |-> n] OBVIOUS
<1>18. loop' = lp /\ visited' = vis2 /\ members' = mem
  <2>1. loop' = [loop EXCEPT !.at = "next"] BY DEF LoopBody
  <2>2. loop' = lp BY <1>3, <1>17, <2>1
  <2>3. loop.p = p BY <1>3
  <2> QED BY <1>2, <1>12, <2>2, <2>3 DEF LoopBody
<1>19. ASSUME UNCHANGED heap PROVE ListStep
  <2>1. Running(lp, q, h, back, safe, "next", p, n, vis2, mem) BY <1>3, <1>5, <1>6, <1>14, <1>17 DEF Running
  <2>2. heap' = hp BY <1>2, <1>19
  <2>3. ListInv' /\ ListsIn(heap)' = q BY <1>2, <1>18, <2>1, <2>2, LoopKept
  <2> QED BY <1>2, <2>3 DEF ListStep, AbstractStep
<1>20. Lost(q, p) = [q EXCEPT ![h] = Del(q[h], k)]
  <2>1. k \in 1..Len(q[h]) /\ q[h][k] = p BY <1>5, <1>15, <1>16
  <2>2. \A g \in ListHead : \A i \in 1..Len(q[g]) : q[g][i] = p => Lost(q, p) = [q EXCEPT ![g] = Del(q[g], i)]
    BY <1>2, <1>14, LostIs
  <2> QED BY <1>4, <2>1, <2>2
<1>21. Lost(q, p)[h] = Del(s, k) BY <1>4, <1>5, <1>20
<1>22. ASSUME safe, NEW q2, q2 \in [ListHead -> Seq(Entry)], q2[h] = Del(s, k)
       PROVE  Running(lp, q2, h, back, safe, "next", p, n, vis2, mem)
  <2>1. Oriented(Del(s, k), back) = Del(S, j) BY <1>3, <1>5, <1>6, <1>15, OrientedDel
  <2>2. Len(Del(s, k)) = m - 1 BY <1>5, DelSpots
  <2> QED BY <1>3, <1>14, <1>17, <1>22, <2>1, <2>2 DEF Running
<1>23. PICK r : r = Lost(q, p) OBVIOUS
<1>24. hp.next[p] # NULL
  <2>1. ~Absent(ListHead, q, p) BY <1>4, <1>5, <1>15, <1>16 DEF Absent
  <2> QED BY <1>2, <1>14, <2>1, UnusedIsAbsent
<1>25. PICK a, b : a = list_del(hp, p) /\ b = list_del_init(hp, p) OBVIOUS
<1>26. /\ Rings(a, ListHead, Entry, U, r) /\ Rings(b, ListHead, Entry, U, r) /\ Absent(ListHead, r, p)
       /\ hp.next[p] \in ListHead \cup Entry /\ hp.prev[p] \in ListHead \cup Entry
  BY <1>2, <1>14, <1>23, <1>24, <1>25, TakenOut
<1>27. r \in [ListHead -> Seq(Entry)] BY <1>26 DEF Rings
<1>28. ASSUME safe, NEW x \in {a, b}, heap' = x PROVE ListStep
  <2>1. Running(lp, r, h, back, safe, "next", p, n, vis2, mem) BY <1>21, <1>22, <1>23, <1>27, <1>28
  <2>2. Rings(x, ListHead, Entry, U, r) BY <1>26, <1>28
  <2>3. ListInv' /\ ListsIn(heap)' = r BY <1>2, <1>18, <1>28, <2>1, <2>2, LoopKept
  <2>4. AbstractStep(q, r) BY <1>14, <1>23 DEF AbstractStep
  <2> QED BY <1>2, <2>3, <2>4 DEF ListStep
<1>29. ASSUME safe, NEW g \in ListHead \ {h}, Usable(g), heap' = list_move_tail(hp, p, g) PROVE ListStep
  <2>1. PICK x, q2 : x = list_move_tail(hp, p, g) /\ q2 = PutBack(r, p, g) OBVIOUS
  <2>2. g \in U BY <1>2, <1>29
  <2>3. Rings(x, ListHead, Entry, U, q2) BY <1>2, <1>14, <1>25, <1>26, <2>1, <2>2, RingsMove DEF PutBack
  <2>4. q2 \in [ListHead -> Seq(Entry)] BY <2>3 DEF Rings
  <2>5. q2[h] = r[h] BY <1>4, <1>27, <1>29, <2>1 DEF PutBack
  <2>6. Running(lp, q2, h, back, safe, "next", p, n, vis2, mem) BY <1>21, <1>22, <1>23, <1>29, <2>4, <2>5
  <2>7. ListInv' /\ ListsIn(heap)' = q2 BY <1>2, <1>18, <1>29, <2>1, <2>3, <2>6, LoopKept
  <2>8. AbstractStep(q, q2) BY <1>14, <1>23, <1>29, <2>1 DEF AbstractStep
  <2> QED BY <1>2, <2>7, <2>8 DEF ListStep
<1>30. \/ UNCHANGED heap
       \/ /\ safe
          /\ \/ heap' = a \/ heap' = b
             \/ \E g \in ListHead \ {h} : Usable(g) /\ heap' = list_move_tail(hp, p, g)
  <2>1. loop.safe = safe /\ loop.p = p /\ loop.head = h BY <1>3
  <2> QED BY <1>2, <1>25, <2>1 DEF LoopBody
<1> QED BY <1>19, <1>28, <1>29, <1>30

-----------------------------------------------------------------------------
(* Every step keeps the invariant and is one of EntryLists. *)
LEMMA ListNextKeeps == ASSUME ListInv, ListNext PROVE ListStep
BY ListAddKeeps, ListDeleteKeeps, ListMoveKeeps, ListSpliceKeeps, ListReinitKeeps,
   LoopStartKeeps, LoopBodyKeeps, LoopNextKeeps, LoopEndKeeps
   DEF ListNext

(* The lists do not change when nothing is done with them. *)
LEMMA ListRests == ASSUME ListInv, UNCHANGED listVars PROVE ListInv' /\ ListsIn(heap)' = ListsIn(heap)
<1>1. heap' = heap /\ loop' = loop /\ visited' = visited /\ members' = members BY DEF listVars
<1> QED BY <1>1 DEF ListInv

(* The invariant holds, and every step is a step of the sequences. *)
LEMMA ListsHold ==
  /\ Init => ListInv /\ ListsIn(heap) = [h \in ListHead |-> << >>]
  /\ ListInv /\ [Next]_vars => ListInv' /\ AbstractStep(ListsIn(heap), ListsIn(heap)')
<1>1. Init => ListInv /\ ListsIn(heap) = [h \in ListHead |-> << >>] BY ListInitSound DEF Init
<1>2. ASSUME ListInv, [Next]_vars PROVE ListInv' /\ AbstractStep(ListsIn(heap), ListsIn(heap)')
  <2>1. CASE ListNext BY <1>2, <2>1, ListNextKeeps DEF ListStep
  <2>2. CASE UNCHANGED listVars BY <1>2, <2>2, ListRests DEF AbstractStep
  <2>3. ListNext \/ UNCHANGED listVars BY <1>2 DEF Next, vars
  <2> QED BY <2>1, <2>2, <2>3
<1> QED BY <1>1, <1>2

(* The invariant of the lists always holds. *)
LEMMA ListsAlwaysHold == Spec => []ListInv
<1>1. Init => ListInv BY ListsHold
<1>2. ListInv /\ [Next]_vars => ListInv' BY ListsHold
<1> QED BY <1>1, <1>2, PTL DEF Spec

(* The pointers of list.h implement one sequence of entries for every head, *)
(* for any number of heads and entries.                                     *)
THEOREM AlwaysImplementsLists == Spec => ImplementsLists
<1>1. Init => Lists!Init BY ListsHold, ListsInAre DEF Lists!Init
<1>2. ListInv /\ [Next]_vars => [Lists!Next]_ReadLists
  <2> SUFFICES ASSUME ListInv, [Next]_vars PROVE Lists!Next \/ UNCHANGED ReadLists OBVIOUS
  <2>1. PICK q, q2 : q = ListsIn(heap) /\ q2 = ListsIn(heap)' OBVIOUS
  <2>2. AbstractStep(q, q2) BY <2>1, ListsHold
  <2> QED BY <2>1, <2>2, StepIsNext
<1> QED BY <1>1, <1>2, ListsAlwaysHold, PTL DEF Spec, ImplementsLists, Lists!Spec, ReadLists

-----------------------------------------------------------------------------
(* The list of a tree is one such ring, sorted, also after the tree was emptied. *)

\* The list of a tree, with the elements s.
OneRing(hp, s) == Rings(hp, {Tree}, Element, {Tree}, [h \in {Tree} |-> s])

Sorted(s) == \A i, j \in 1..Len(s) : i <= j => KeyOf[s[i]] <= KeyOf[s[j]]

\* A tree with the elements s.
Holds(tr, s) ==
  /\ tr = [heap |-> tr.heap, count |-> Len(s), root |-> s # << >>]
  /\ s \in Seq(Element) /\ OneRing(tr.heap, s) /\ Sorted(s)

\* What OneRing says of the links.
Chained(hp, s) ==
  /\ s \in Seq(Element) /\ Distinct(s) /\ Len(s) \in Nat
  /\ \A i \in 0..Len(s) : hp.next[Spot(Tree, s, i)] = Spot(Tree, s, i + 1) /\ hp.prev[Spot(Tree, s, i + 1)] = Spot(Tree, s, i)
  /\ Along(hp.next, Tree) = s /\ Along(hp.prev, Tree) = Backwards(s)

(* One ring is followed. *)
LEMMA RingIsChained == ASSUME NEW hp, NEW s, OneRing(hp, s) PROVE Chained(hp, s)
<1>1. PICK q : q = [h \in {Tree} |-> s] OBVIOUS
<1>2. q[Tree] = s /\ Rings(hp, {Tree}, Element, {Tree}, q) BY <1>1 DEF OneRing
<1>3. s \in Seq(Element) /\ Distinct(s) /\ Len(s) \in Nat BY <1>2, SpotTypes
<1>4. Along(hp.next, Tree) = s /\ Along(hp.prev, Tree) = Backwards(s) BY <1>2, RingsAreFollowed
<1>5. ASSUME NEW i \in 0..Len(s)
      PROVE  hp.next[Spot(Tree, s, i)] = Spot(Tree, s, i + 1) /\ hp.prev[Spot(Tree, s, i + 1)] = Spot(Tree, s, i)
  BY <1>2 DEF Rings
<1> QED BY <1>3, <1>4, <1>5 DEF Chained

(* Nodes of the ring are different. *)
LEMMA NodesDiffer ==
  ASSUME NEW hp, NEW s, OneRing(hp, s), NEW i \in 0..Len(s), NEW j \in 0..Len(s), Spot(Tree, s, i) = Spot(Tree, s, j)
  PROVE  i = j
<1>1. PICK q : q = [h \in {Tree} |-> s] OBVIOUS
<1>2. q[Tree] = s /\ Rings(hp, {Tree}, Element, {Tree}, q) BY <1>1 DEF OneRing
<1> QED BY <1>2, SpotsDiffer

(* The links of the loops over it. *)
LEMMA RingIsFollowed ==
  ASSUME NEW hp, NEW s, OneRing(hp, s), NEW back \in BOOLEAN
  PROVE  Followed(hp, Element, Tree, s, back, Oriented(s, back))
<1>1. PICK q : q = [h \in {Tree} |-> s] OBVIOUS
<1>2. q[Tree] = s /\ Rings(hp, {Tree}, Element, {Tree}, q) BY <1>1 DEF OneRing
<1> QED BY <1>2, RingsOriented

(* An element more. *)
LEMMA RingGrows ==
  ASSUME NEW hp, NEW s, OneRing(hp, s), NEW k \in 0..Len(s), NEW e \in Element, Lacks(s, e)
  PROVE  OneRing(Linked(hp, e, Spot(Tree, s, k), Spot(Tree, s, k + 1)), Ins(s, k, e))
<1>1. PICK q : q = [h \in {Tree} |-> s] OBVIOUS
<1>2. q[Tree] = s /\ Rings(hp, {Tree}, Element, {Tree}, q) BY <1>1 DEF OneRing
<1>3. Absent({Tree}, q, e) BY <1>2 DEF Absent, Lacks
<1>4. [q EXCEPT ![Tree] = Ins(q[Tree], k, e)] = [h \in {Tree} |-> Ins(s, k, e)] BY <1>1, <1>2
<1>5. Rings(Linked(hp, e, Spot(Tree, s, k), Spot(Tree, s, k + 1)), {Tree}, Element, {Tree},
            [q EXCEPT ![Tree] = Ins(q[Tree], k, e)])
  BY <1>2, <1>3, RingsLink
<1> QED BY <1>4, <1>5 DEF OneRing

(* And one less. *)
LEMMA RingShrinks ==
  ASSUME NEW hp, NEW s, OneRing(hp, s), NEW k \in 1..Len(s), NEW e, e = s[k]
  PROVE  OneRing(list_del(hp, e), Del(s, k))
<1>1. PICK q : q = [h \in {Tree} |-> s] OBVIOUS
<1>2. q[Tree] = s /\ Rings(hp, {Tree}, Element, {Tree}, q) BY <1>1 DEF OneRing
<1>4. [q EXCEPT ![Tree] = Del(q[Tree], k)] = [h \in {Tree} |-> Del(s, k)] BY <1>1, <1>2
<1>5. Rings(list_del(hp, e), {Tree}, Element, {Tree}, [q EXCEPT ![Tree] = Del(q[Tree], k)]) BY <1>2, RingsDel
<1> QED BY <1>4, <1>5 DEF OneRing

(* Where an element is inserted. *)
InsertedAt(s, e, k) ==
  /\ k \in 0..Len(s)
  /\ \A i \in 1..Len(s) : IF i <= k THEN KeyOf[s[i]] <= KeyOf[e] ELSE KeyOf[e] <= KeyOf[s[i]]

(* The order is kept by an insertion there. *)
LEMMA InsKeepsSorted ==
  ASSUME NEW s \in Seq(Element), Sorted(s), NEW e \in Element, NEW k, InsertedAt(s, e, k)
  PROVE  Sorted(Ins(s, k, e))
<1>1. PICK n \in Nat : n = Len(s) OBVIOUS
<1>2. k \in 0..n /\ MayInsert(Element, s, k, e, n) BY <1>1 DEF InsertedAt, MayInsert
<1>3. PICK w : w = Ins(s, k, e) /\ Len(w) = n + 1 BY <1>2, InsSpots
<1>4. \A i \in 1..(n + 1) : w[i] = IF i <= k THEN s[i] ELSE IF i = k + 1 THEN e ELSE s[i - 1] BY <1>1, <1>3 DEF Ins
<1>5. \A i \in 1..n : s[i] \in Element BY <1>1, ElementOfSeq
<1>6. KeyOf \in [Element -> Int] BY AvlAssumption
<1>7. PICK f : f = [i \in 1..n |-> KeyOf[s[i]]] OBVIOUS
<1>8. PICK x \in Int : x = KeyOf[e] BY <1>6
<1>9. /\ \A i \in 1..n : f[i] \in Int /\ f[i] = KeyOf[s[i]]
      /\ \A i, j \in 1..n : i <= j => f[i] <= f[j]
      /\ \A i \in 1..n : (i <= k => f[i] <= x) /\ (i > k => x <= f[i])
  BY <1>1, <1>2, <1>5, <1>6, <1>7, <1>8 DEF Sorted, InsertedAt
<1>10. \A i \in 1..(n + 1) : KeyOf[w[i]] = IF i <= k THEN f[i] ELSE IF i = k + 1 THEN x ELSE f[i - 1]
  <2> TAKE i \in 1..(n + 1)
  <2>1. CASE i <= k
    <3>1. i \in 1..n BY <1>2, <2>1
    <3> QED BY <1>4, <1>9, <2>1, <3>1
  <2>2. CASE i = k + 1
    <3>1. ~(i <= k) BY <1>2, <2>2
    <3> QED BY <1>4, <1>8, <2>2, <3>1
  <2>3. CASE i > k + 1
    <3>1. i - 1 \in 1..n /\ ~(i <= k) /\ i # k + 1 BY <1>2, <2>3
    <3> QED BY <1>4, <1>9, <2>3, <3>1
  <2> QED BY <1>2, <2>1, <2>2, <2>3
<1>11. ASSUME NEW i \in 1..(n + 1), NEW j \in 1..(n + 1), i <= j PROVE KeyOf[w[i]] <= KeyOf[w[j]]
  <2>0. KeyOf[w[i]] = (IF i <= k THEN f[i] ELSE IF i = k + 1 THEN x ELSE f[i - 1]) BY <1>10
  <2>00. KeyOf[w[j]] = (IF j <= k THEN f[j] ELSE IF j = k + 1 THEN x ELSE f[j - 1]) BY <1>10
  <2>1. CASE j <= k
    <3>1. i \in 1..n /\ j \in 1..n /\ i <= k BY <1>2, <1>11, <2>1
    <3> QED BY <1>9, <1>11, <2>0, <2>00, <2>1, <3>1
  <2>2. CASE j = k + 1
    <3>1. ~(j <= k) /\ (i <= k => i \in 1..n) /\ (i <= k \/ i = k + 1) BY <1>2, <1>11, <2>2
    <3> QED BY <1>9, <2>0, <2>00, <2>2, <3>1
  <2>3. CASE j > k + 1
    <3>1. ~(j <= k) /\ j # k + 1 /\ j - 1 \in 1..n /\ j - 1 > k BY <1>2, <1>11, <2>3
    <3>2. (i <= k => i \in 1..n /\ i <= j - 1) /\ (i > k + 1 => i - 1 \in 1..n /\ i - 1 <= j - 1) BY <1>2, <1>11, <2>3
    <3>3. CASE i <= k BY <1>9, <2>0, <2>00, <3>1, <3>2, <3>3
    <3>4. CASE i = k + 1
      <4>1. ~(i <= k) BY <1>2, <3>4
      <4> QED BY <1>9, <2>0, <2>00, <3>1, <3>4, <4>1
    <3>5. CASE i > k + 1
      <4>1. ~(i <= k) /\ i # k + 1 BY <1>2, <3>5
      <4> QED BY <1>9, <2>0, <2>00, <3>1, <3>2, <3>5, <4>1
    <3> QED BY <1>2, <3>3, <3>4, <3>5
  <2> QED BY <1>2, <2>1, <2>2, <2>3
<1> QED BY <1>3, <1>11 DEF Sorted

(* And by a deletion. *)
LEMMA DelKeepsSorted ==
  ASSUME NEW s \in Seq(Element), Sorted(s), NEW k \in 1..Len(s)
  PROVE  Sorted(Del(s, k))
<1>1. PICK n \in Nat : n = Len(s) OBVIOUS
<1>2. PICK w : w = Del(s, k) /\ Len(w) = n - 1 BY <1>1, DelSpots
<1>3. \A i \in 1..(n - 1) : w[i] = IF i < k THEN s[i] ELSE s[i + 1] BY <1>1, <1>2 DEF Del
<1>4. ASSUME NEW i \in 1..(n - 1), NEW j \in 1..(n - 1), i <= j PROVE KeyOf[w[i]] <= KeyOf[w[j]]
  <2>1. PICK a \in 1..n : a = IF i < k THEN i ELSE i + 1 BY <1>1
  <2>2. PICK b \in 1..n : b = IF j < k THEN j ELSE j + 1 BY <1>1
  <2>3. a <= b BY <1>1, <1>4, <2>1, <2>2
  <2>4. w[i] = s[a] /\ w[j] = s[b] BY <1>3, <2>1, <2>2
  <2> QED BY <1>1, <2>3, <2>4 DEF Sorted
<1> QED BY <1>2, <1>4 DEF Sorted

\* A tree with one element more, behind the first k of s.
Grown(hp, s, k, e) ==
  [heap |-> Linked(hp, e, Spot(Tree, s, k), Spot(Tree, s, k + 1)), count |-> Len(s) + 1, root |-> TRUE]

(* Where an insertion puts its element. *)
LEMMA InsertedIs ==
  ASSUME NEW tr, NEW s, Holds(tr, s), NEW e \in Element
  PROVE  \E k : InsertedAt(s, e, k) /\ Inserted(tr, e) = Grown(tr.heap, s, k, e)
<1>1. PICK hp : hp = tr.heap OBVIOUS
<1>2. tr.count = Len(s) /\ OneRing(hp, s) /\ Sorted(s) BY <1>1 DEF Holds
<1>3. Chained(hp, s) BY <1>2, RingIsChained
<1>4. PICK n \in Nat : n = Len(s) BY <1>3 DEF Chained
<1>5. s \in Seq(Element) /\ DOMAIN s = 1..n /\ Along(hp.next, Tree) = s BY <1>3, <1>4 DEF Chained
<1>6. PICK A : A = {i \in 1..n : KeyOf[s[i]] > KeyOf[e]} OBVIOUS
<1>7. PICK x : x = IF A = {} THEN Tree ELSE s[Min(A)] OBVIOUS
<1>8. Inserted(tr, e) = [heap |-> Linked(hp, e, hp.prev[x], x), count |-> n + 1, root |-> TRUE]
  BY <1>1, <1>2, <1>4, <1>5, <1>6, <1>7 DEF Inserted
<1>9. \A i \in 1..n : KeyOf[s[i]] \in Int
  <2>1. \A i \in 1..n : s[i] \in Element BY <1>4, <1>5, ElementOfSeq
  <2> QED BY <2>1, AvlAssumption
<1>10. KeyOf[e] \in Int BY AvlAssumption
<1>11. ASSUME NEW k \in 0..n, x = Spot(Tree, s, k + 1), InsertedAt(s, e, k)
       PROVE  \E j : InsertedAt(s, e, j) /\ Inserted(tr, e) = Grown(tr.heap, s, j, e)
  <2>1. hp.prev[x] = Spot(Tree, s, k) BY <1>3, <1>4, <1>11 DEF Chained
  <2>2. Inserted(tr, e) = Grown(tr.heap, s, k, e) BY <1>1, <1>4, <1>8, <1>11, <2>1 DEF Grown
  <2> QED BY <1>11, <2>2
<1>12. CASE A = {}
  <2>1. n \in 0..n /\ n + 1 \notin 1..n OBVIOUS
  <2>2. x = Spot(Tree, s, n + 1) BY <1>4, <1>7, <1>12, <2>1 DEF Spot
  <2>3. ASSUME NEW i \in 1..n PROVE i <= n /\ KeyOf[s[i]] <= KeyOf[e]
    <3>1. ~(KeyOf[s[i]] > KeyOf[e]) BY <1>6, <1>12
    <3> QED BY <1>9, <1>10, <3>1
  <2>4. InsertedAt(s, e, n) BY <1>4, <2>1, <2>3 DEF InsertedAt
  <2> QED BY <1>11, <2>1, <2>2, <2>4
<1>13. CASE A # {}
  <2>1. A \in SUBSET Nat BY <1>6
  <2>2. PICK m : m = Min(A) OBVIOUS
  <2>3. m \in A /\ \A i \in A : m <= i BY <1>13, <2>1, <2>2, MinIsLeast
  <2>4. m \in 1..n /\ KeyOf[s[m]] > KeyOf[e] BY <1>6, <2>3
  <2>5. PICK k \in 0..n : k = m - 1 /\ k + 1 = m BY <2>4
  <2>6. x = Spot(Tree, s, k + 1) BY <1>4, <1>7, <1>13, <2>2, <2>4, <2>5 DEF Spot
  <2>7. ASSUME NEW i \in 1..n PROVE IF i <= k THEN KeyOf[s[i]] <= KeyOf[e] ELSE KeyOf[e] <= KeyOf[s[i]]
    <3>1. CASE i <= k
      <4>1. ~(m <= i) BY <2>4, <2>5, <3>1
      <4>2. ~(KeyOf[s[i]] > KeyOf[e]) BY <1>6, <2>3, <4>1
      <4>3. KeyOf[s[i]] <= KeyOf[e] BY <1>9, <1>10, <4>2
      <4> QED BY <3>1, <4>3
    <3>2. CASE ~(i <= k)
      <4>1. m <= i BY <2>4, <2>5, <3>2
      <4>2. KeyOf[s[m]] <= KeyOf[s[i]] BY <1>2, <1>4, <2>4, <4>1 DEF Sorted
      <4>3. KeyOf[e] <= KeyOf[s[i]] BY <1>9, <1>10, <2>4, <4>2
      <4> QED BY <3>2, <4>3
    <3> QED BY <3>1, <3>2
  <2>8. InsertedAt(s, e, k) BY <1>4, <2>7 DEF InsertedAt
  <2> QED BY <1>11, <2>6, <2>8
<1> QED BY <1>12, <1>13

(* The tree after an insertion. *)
LEMMA HoldsMore ==
  ASSUME NEW tr, NEW s, Holds(tr, s), NEW e \in Element, Lacks(s, e), NEW k, InsertedAt(s, e, k)
  PROVE  Holds(Grown(tr.heap, s, k, e), Ins(s, k, e))
<1>1. PICK hp : hp = tr.heap OBVIOUS
<1>2. s \in Seq(Element) /\ OneRing(hp, s) /\ Sorted(s) BY <1>1 DEF Holds
<1>3. k \in 0..Len(s) BY DEF InsertedAt
<1>4. PICK n \in Nat : n = Len(s) BY <1>2
<1>5. MayInsert(Element, s, k, e, n) BY <1>2, <1>3, <1>4 DEF MayInsert
<1>6. PICK w : w = Ins(s, k, e) OBVIOUS
<1>7. w \in Seq(Element) /\ Len(w) = n + 1 BY <1>5, <1>6, InsSpots
<1>8. Sorted(w) BY <1>2, <1>6, InsKeepsSorted
<1>9. PICK hp2 : hp2 = Linked(hp, e, Spot(Tree, s, k), Spot(Tree, s, k + 1)) OBVIOUS
<1>10. OneRing(hp2, w) BY <1>2, <1>3, <1>6, <1>9, RingGrows
<1>11. w # << >> BY <1>4, <1>7, EmptySeq
<1>12. Grown(hp, s, k, e) = [heap |-> hp2, count |-> Len(w), root |-> TRUE] BY <1>4, <1>7, <1>9 DEF Grown
<1>13. TRUE = (w # << >>) BY <1>11
<1>14. PICK t : t = Grown(hp, s, k, e) OBVIOUS
<1>15. t = [heap |-> hp2, count |-> Len(w), root |-> w # << >>] BY <1>12, <1>13, <1>14
<1>16. t.heap = hp2 BY <1>15
<1>17. Holds(t, w) BY <1>7, <1>8, <1>10, <1>15, <1>16 DEF Holds
<1> QED BY <1>1, <1>6, <1>14, <1>17

(* And after a deletion. *)
LEMMA HoldsLess ==
  ASSUME NEW tr, NEW s, Holds(tr, s), NEW k \in 1..Len(s), NEW e, e = s[k]
  PROVE  Holds(Deleted(tr, e), Del(s, k))
<1>1. PICK hp : hp = tr.heap OBVIOUS
<1>2. s \in Seq(Element) /\ OneRing(hp, s) /\ Sorted(s) /\ tr.count = Len(s) BY <1>1 DEF Holds
<1>3. PICK n \in Nat : n = Len(s) BY <1>2
<1>4. PICK w : w = Del(s, k) OBVIOUS
<1>5. w \in Seq(Element) /\ Len(w) = n - 1 BY <1>2, <1>3, <1>4, DelSpots
<1>6. Sorted(w) BY <1>2, <1>4, DelKeepsSorted
<1>7. PICK hp2 : hp2 = list_del(hp, e) OBVIOUS
<1>8. OneRing(hp2, w) BY <1>2, <1>4, <1>7, RingShrinks
<1>9. (n > 1) = (w # << >>)
  <2>1. w = << >> => Len(w) = 0 BY EmptySeq
  <2>2. Len(w) = 0 => w = << >> BY <1>5, EmptySeq
  <2> QED BY <1>3, <1>5, <2>1, <2>2
<1>10. PICK t : t = Deleted(tr, e) OBVIOUS
<1>11. t = [heap |-> hp2, count |-> n - 1, root |-> n > 1] BY <1>1, <1>2, <1>3, <1>7, <1>10 DEF Deleted
<1>12. t = [heap |-> hp2, count |-> Len(w), root |-> w # << >>] BY <1>5, <1>9, <1>11
<1>13. t.heap = hp2 BY <1>12
<1>14. Holds(t, w) BY <1>5, <1>6, <1>8, <1>12, <1>13 DEF Holds
<1> QED BY <1>4, <1>10, <1>14

\* The positions of the elements with key k, with none above and none below it.
Equal(s, k)  == {i \in 1..Len(s) : KeyOf[s[i]] = k}
UpTo(s, k)   == {i \in 1..Len(s) : KeyOf[s[i]] <= k}
DownTo(s, k) == {i \in 1..Len(s) : KeyOf[s[i]] >= k}

(* What a reader of the tree sees. *)
LEMMA TreeIsRead ==
  ASSUME NEW s, Holds(tree, s)
  PROVE  /\ Order = s /\ Along(prev, Tree) = Backwards(s) /\ InTree = {s[i] : i \in 1..Len(s)}
         /\ tree.count = Len(s) /\ tree.root = (s # << >>)
         /\ DOMAIN s = 1..Len(s) /\ Len(s) \in Nat /\ s \in Seq(Element)
         /\ \E hp : hp = tree.heap /\ OneRing(hp, s) /\ Chained(hp, s)
<1>1. PICK hp : hp = tree.heap OBVIOUS
<1>2. OneRing(hp, s) /\ tree.count = Len(s) /\ tree.root = (s # << >>) BY <1>1 DEF Holds
<1>3. Chained(hp, s) BY <1>2, RingIsChained
<1>4. s \in Seq(Element) /\ Along(hp.next, Tree) = s /\ Along(hp.prev, Tree) = Backwards(s) BY <1>3 DEF Chained
<1>5. Order = s /\ Along(prev, Tree) = Backwards(s) BY <1>1, <1>4 DEF Order, next, prev
<1>6. DOMAIN s = 1..Len(s) /\ Len(s) \in Nat BY <1>4
<1>7. InTree = {s[i] : i \in 1..Len(s)} BY <1>5, <1>6 DEF InTree, Range
<1> QED BY <1>1, <1>2, <1>3, <1>4, <1>5, <1>6, <1>7

(* What the searches find. *)
LEMMA Finds ==
  ASSUME NEW tr, NEW s, Holds(tr, s), NEW k
  PROVE  /\ avl_find_element(tr, k) = IF Equal(s, k) = {} THEN NULL ELSE s[Min(Equal(s, k))]
         /\ avl_find_le_element(tr, k) = IF UpTo(s, k) = {} THEN NULL ELSE s[Max(UpTo(s, k))]
         /\ avl_find_ge_element(tr, k) = IF DownTo(s, k) = {} THEN NULL ELSE s[Min(DownTo(s, k))]
<1>1. Along(tr.heap.next, Tree) = s /\ DOMAIN s = 1..Len(s)
  <2>1. OneRing(tr.heap, s) /\ s \in Seq(Element) BY DEF Holds
  <2>2. Along(tr.heap.next, Tree) = s BY <2>1, RingIsChained DEF Chained
  <2> QED BY <2>1, <2>2
<1>2. avl_find_element(tr, k) = IF Equal(s, k) = {} THEN NULL ELSE s[Min(Equal(s, k))]
  BY <1>1 DEF avl_find_element, find_element, Equal
<1>3. avl_find_le_element(tr, k) = IF UpTo(s, k) = {} THEN NULL ELSE s[Max(UpTo(s, k))]
  BY <1>1 DEF avl_find_le_element, find_element, UpTo
<1>4. avl_find_ge_element(tr, k) = IF DownTo(s, k) = {} THEN NULL ELSE s[Min(DownTo(s, k))]
  BY <1>1 DEF avl_find_ge_element, find_element, DownTo
<1> QED BY <1>2, <1>3, <1>4

(* The search for the last element that is not above a key. *)
LEMMA FindsBound ==
  ASSUME NEW tr, NEW s, Holds(tr, s), NEW key, NEW t \in 1..Len(s),
         \A i \in 1..Len(s) : KeyOf[s[i]] <= key <=> i <= t
  PROVE  avl_find_le_element(tr, key) = s[t]
<1>1. PICK m \in Nat : m = Len(s) BY DEF Holds
<1>2. PICK L : L = UpTo(s, key) OBVIOUS
<1>3. L = {i \in 1..m : KeyOf[s[i]] <= key} BY <1>1, <1>2 DEF UpTo
<1>4. t \in 1..m /\ t \in L BY <1>1, <1>3
<1>5. PICK x : x = Max(L) OBVIOUS
<1>6. x \in L /\ x >= t
  <2>1. L \in SUBSET (1..m) /\ L # {} BY <1>3, <1>4
  <2> QED BY <1>4, <1>5, <2>1, MaxIsGreatest
<1>7. x \in 1..m /\ x <= t BY <1>1, <1>3, <1>6
<1>8. x = t BY <1>4, <1>6, <1>7
<1>9. L # {} BY <1>4
<1> QED BY <1>2, <1>5, <1>8, <1>9, Finds

(* The keys are numbers. *)
LEMMA KeysAreNumbers ==
  ASSUME NEW s \in Seq(Element)
  PROVE  Keys \subseteq Int /\ \A i \in 1..Len(s) : KeyOf[s[i]] \in Int /\ s[i] \in Element
<1>1. KeyOf \in [Element -> Int] BY AvlAssumption
<1>2. Range(KeyOf) \subseteq Int BY <1>1 DEF Range
<1>3. Keys \subseteq Int BY <1>2 DEF Keys
<1>4. \A i \in 1..Len(s) : s[i] \in Element BY ElementOfSeq
<1> QED BY <1>1, <1>3, <1>4

(* TreeIsConsistent of a tree with the elements s. *)
LEMMA HoldsIsConsistent == ASSUME NEW s, Holds(tree, s) PROVE TreeIsConsistent
<1>1. PICK n \in Nat : n = Len(s) BY TreeIsRead
<1>2. /\ Order = s /\ Along(prev, Tree) = Backwards(s) /\ InTree = {s[i] : i \in 1..n}
      /\ tree.count = n /\ tree.root = (s # << >>) /\ s \in Seq(Element) /\ Sorted(s)
  BY <1>1, TreeIsRead DEF Holds
<1>3. PICK hp : hp = tree.heap /\ OneRing(hp, s) /\ Chained(hp, s) BY TreeIsRead
<1>4. \A i \in 1..n : KeyOf[s[i]] \in Int /\ s[i] \in Element BY <1>1, <1>2, KeysAreNumbers
<1>5. \A i, j \in 1..n : i <= j => KeyOf[s[i]] <= KeyOf[s[j]] BY <1>1, <1>2 DEF Sorted
<1>6. ASSUME NEW i \in 1..(n - 1) PROVE KeyOf[s[i]] <= KeyOf[s[i + 1]]
  <2>1. i \in 1..n /\ i + 1 \in 1..n /\ i <= i + 1 OBVIOUS
  <2> QED BY <1>5, <2>1
<1>7. avl_is_empty <=> s = << >>
  <2>1. n = 0 <=> s = << >> BY <1>1, <1>2, EmptySeq
  <2> QED BY <1>2, <2>1 DEF avl_is_empty
<1>8. ASSUME NEW k \in Keys, avl_find_element(tree, k) # NULL
      PROVE  KeyOf[avl_find_le_element(tree, k)] = k /\ KeyOf[avl_find_ge_element(tree, k)] = k
  <2>1. k \in Int BY <1>2, KeysAreNumbers
  <2>2. Equal(s, k) # {} BY <1>8, Finds
  <2>3. PICK i \in 1..n : KeyOf[s[i]] = k BY <1>1, <2>2 DEF Equal
  <2>4. PICK L, G : L = UpTo(s, k) /\ G = DownTo(s, k) OBVIOUS
  <2>5. L = {j \in 1..n : KeyOf[s[j]] <= k} /\ G = {j \in 1..n : KeyOf[s[j]] >= k} BY <1>1, <2>4 DEF UpTo, DownTo
  <2>6. i \in L /\ i \in G BY <2>1, <2>3, <2>5
  <2>7. L \in SUBSET (1..n) /\ L # {} /\ G \in SUBSET Nat /\ G # {} BY <2>5, <2>6
  <2>8. PICK a : a = Max(L) OBVIOUS
  <2>9. PICK b : b = Min(G) OBVIOUS
  <2>10. a \in L /\ a >= i BY <2>6, <2>7, <2>8, MaxIsGreatest
  <2>11. b \in G /\ b <= i BY <2>6, <2>7, <2>9, MinIsLeast
  <2>12. a \in 1..n /\ KeyOf[s[a]] <= k /\ b \in 1..n /\ KeyOf[s[b]] >= k BY <2>5, <2>10, <2>11
  <2>13. KeyOf[s[a]] >= k
    <3>1. KeyOf[s[i]] <= KeyOf[s[a]] BY <1>5, <2>10, <2>12
    <3> QED BY <1>4, <2>1, <2>3, <2>12, <3>1
  <2>14. KeyOf[s[b]] <= k
    <3>1. KeyOf[s[b]] <= KeyOf[s[i]] BY <1>5, <2>11, <2>12
    <3> QED BY <1>4, <2>1, <2>3, <2>12, <3>1
  <2>15. KeyOf[s[a]] = k BY <1>4, <2>1, <2>12, <2>13
  <2>16. KeyOf[s[b]] = k BY <1>4, <2>1, <2>12, <2>14
  <2>17. avl_find_le_element(tree, k) = s[a] /\ avl_find_ge_element(tree, k) = s[b] BY <2>4, <2>7, <2>8, <2>9, Finds
  <2> QED BY <2>15, <2>16, <2>17
<1>9. ASSUME NEW e \in InTree PROVE avl_is_first(e) = (e = s[1]) /\ avl_is_last(e) = (e = s[n])
  <2>1. PICK k \in 1..n : e = s[k] BY <1>2
  <2>2. 1 \in 1..n /\ n \in 1..n /\ 0 \in 0..n /\ n \in 0..n /\ 0 \notin 1..n /\ n + 1 \notin 1..n OBVIOUS
  <2>3. hp.next[Spot(Tree, s, 0)] = Spot(Tree, s, 0 + 1) /\ hp.prev[Spot(Tree, s, n + 1)] = Spot(Tree, s, n)
    BY <1>1, <1>3, <2>2 DEF Chained
  <2>4. Spot(Tree, s, 0) = Tree /\ Spot(Tree, s, n + 1) = Tree /\ Spot(Tree, s, n) = s[n] BY <1>1, <2>2 DEF Spot
  <2>5. Spot(Tree, s, 0 + 1) = s[1] BY <1>1, <2>2 DEF Spot
  <2>6. next[Tree] = s[1] /\ prev[Tree] = s[n] BY <1>3, <2>3, <2>4, <2>5 DEF next, prev
  <2>7. avl_is_first(e) <=> e = s[1] BY <2>6 DEF avl_is_first
  <2>8. avl_is_last(e) <=> e = s[n] BY <2>6 DEF avl_is_last
  <2>9. avl_is_first(e) = (e = s[1]) BY <2>6 DEF avl_is_first
  <2>10. avl_is_last(e) = (e = s[n]) BY <2>6 DEF avl_is_last
  <2> QED BY <2>9, <2>10
<1> QED BY <1>1, <1>2, <1>6, <1>7, <1>8, <1>9 DEF TreeIsConsistent

\* The loop ends behind element t of S: the bound, or the last of all.
BoundAt(S, t, bound) == IF bound = Tree THEN t = Len(S) ELSE t \in 1..Len(S) /\ S[t] = bound

\* A loop over the elements s is between two of them.
Walking(wk, s, from, to, back, safe, key, at, p, n, t, vis, mem) ==
  /\ wk = [at |-> at, from |-> from, to |-> to, back |-> back, safe |-> safe, key |-> key, element |-> p, ptr |-> n]
  /\ at \in {"test", "next"} /\ back \in BOOLEAN /\ safe \in BOOLEAN
  /\ Turn(Element, Tree, Oriented(s, back), t, at, safe, p, n, vis, mem)
  /\ BoundAt(Oriented(s, back), t, IF back THEN from ELSE to)

\* Where it stops.  With a fixed bound b, b is the last that it visits; the
\* bound of acl_for_each is the last element with the key.
Bounded(S, b, at, p, t, vis, mem) ==
  b # Tree =>
    /\ \A i \in 1..(Len(vis) - 1) : vis[i] # b
    /\ at = "test" => AtEnd(Element, Tree, S, t, p, vis, mem) \/ \A i \in 1..Len(vis) : vis[i] # b

Keyed(s, to, back, safe, key, p, t, vis) ==
  /\ key \in Int /\ ~back /\ ~safe /\ to # Tree
  /\ \A i \in 1..Len(s) : KeyOf[s[i]] <= key <=> i <= t
  /\ p \in Element => KeyOf[p] >= key
  /\ \A i \in 1..Len(vis) : KeyOf[vis[i]] = key

Stops(s, from, to, back, safe, key, at, p, t, vis, mem) ==
  /\ key = NULL => Bounded(Oriented(s, back), IF back THEN from ELSE to, at, p, t, vis, mem)
  /\ key # NULL => Keyed(s, to, back, safe, key, p, t, vis)

\* The bound a condition is compared with.
Bound(w) == IF w.back THEN FirstOf(w) ELSE LastOf(w)

(* It is element t. *)
LEMMA BoundIs ==
  ASSUME NEW s, Holds(tree, s), NEW back \in BOOLEAN, NEW from, NEW to, NEW w,
         w.back = back, w.from = from, w.to = to,
         NEW S, S = Oriented(s, back), NEW t, t \in 0..Len(S), BoundAt(S, t, IF back THEN from ELSE to)
  PROVE  Bound(w) = Spot(Tree, S, t)
<1>1. PICK hp : hp = tree.heap /\ OneRing(hp, s) BY TreeIsRead
<1>2. Followed(hp, Element, Tree, s, back, S) BY <1>1, RingIsFollowed
<1>3. PICK m : m = Len(S) OBVIOUS
<1>4. m \in Nat BY <1>2, <1>3 DEF Followed, IsOriented
<1>5. PICK b : b = IF back THEN from ELSE to OBVIOUS
<1>6. PICK x : x = Toward(hp, ~back)[Tree] OBVIOUS
<1>7. x = IF back THEN next[Tree] ELSE prev[Tree] BY <1>1, <1>6 DEF Toward, next, prev
<1>8. Bound(w) = IF b = Tree THEN x ELSE b BY <1>5, <1>7 DEF Bound, FirstOf, LastOf
<1>9. CASE b = Tree
  <2>1. t = m BY <1>3, <1>5, <1>9 DEF BoundAt
  <2>2. Toward(hp, ~back)[Spot(Tree, S, m + 1)] = Spot(Tree, S, m) BY <1>2, <1>3, <1>4 DEF Followed
  <2>3. m + 1 \notin 1..m BY <1>4
  <2>4. Spot(Tree, S, m + 1) = Tree BY <1>3, <2>3 DEF Spot
  <2> QED BY <1>6, <1>8, <1>9, <2>1, <2>2, <2>4
<1>10. CASE b # Tree
  <2>1. t \in 1..m /\ S[t] = b BY <1>3, <1>5, <1>10 DEF BoundAt
  <2>2. Spot(Tree, S, t) = b BY <1>3, <2>1 DEF Spot
  <2> QED BY <1>8, <1>10, <2>2
<1> QED BY <1>9, <1>10

(* The condition of a loop is true just when an element of the range is     *)
(* left.                                                                    *)
LEMMA ContinuesIs ==
  ASSUME NEW s, Holds(tree, s), NEW from, NEW to, NEW back, NEW safe, NEW key, NEW p, NEW n, NEW t, NEW vis, NEW mem,
         Walking(walk, s, from, to, back, safe, key, "test", p, n, t, vis, mem)
  PROVE  Continues <=> ~AtEnd(Element, Tree, Oriented(s, back), t, p, vis, mem)
<1>1. /\ walk.back = back /\ walk.from = from /\ walk.to = to /\ walk.element = p
      /\ back \in BOOLEAN /\ safe \in BOOLEAN
  BY DEF Walking
<1>2. PICK S : S = Oriented(s, back) OBVIOUS
<1>3. Turn(Element, Tree, S, t, "test", safe, p, n, vis, mem) /\ BoundAt(S, t, IF back THEN from ELSE to)
  BY <1>2 DEF Walking
<1>4. PICK m : m = Len(S) OBVIOUS
<1>5. S \in Seq(Element) /\ m \in Nat /\ t \in Int /\ 0 <= t /\ t <= m BY <1>3, <1>4, TurnWithin DEF Within
<1>6. t \in 0..m BY <1>5
<1>7. Bound(walk) = Spot(Tree, S, t) BY <1>1, <1>2, <1>3, <1>4, <1>6, BoundIs
<1>8. PICK hp : hp = tree.heap /\ OneRing(hp, s) BY TreeIsRead
<1>9. Followed(hp, Element, Tree, s, back, S) BY <1>1, <1>2, <1>8, RingIsFollowed
<1>10. Continues <=> Toward(hp, ~back)[p] # Spot(Tree, S, t)
  BY <1>1, <1>7, <1>8 DEF Continues, Toward, next, prev, Bound
<1>11. \A i \in 0..m : Toward(hp, ~back)[Spot(Tree, S, i + 1)] = Spot(Tree, S, i) BY <1>4, <1>9 DEF Followed
<1>12. CASE AtEnd(Element, Tree, S, t, p, vis, mem)
  <2>1. p = Spot(Tree, S, t + 1) BY <1>12 DEF AtEnd
  <2> QED BY <1>2, <1>6, <1>10, <1>11, <1>12, <2>1
<1>13. CASE ~AtEnd(Element, Tree, S, t, p, vis, mem)
  <2>1. PICK c : Visits(Element, Tree, S, t, safe, p, n, vis, mem, c) BY <1>1, <1>3, <1>13, TurnBody
  <2>2. c \in 0..(t - 1) /\ c + 1 \in 1..Len(S) /\ p = S[c + 1] BY <2>1 DEF Visits
  <2>3. p = Spot(Tree, S, c + 1) BY <2>2 DEF Spot
  <2>4. c \in 0..m /\ c # t BY <1>5, <2>2
  <2>5. Distinct(S) /\ Tree \notin Element BY <1>9, AvlAssumption DEF Followed
  <2>6. Spot(Tree, S, c) # Spot(Tree, S, t) BY <1>4, <1>5, <1>6, <2>4, <2>5, SpotsOfDistinct
  <2> QED BY <1>2, <1>10, <1>11, <1>13, <2>3, <2>4, <2>6
<1> QED BY <1>12, <1>13

(* A loop over a tree that gets another element, but not between its bound  *)
(* and the pointer that it has saved behind it.                             *)
LEMMA WalkingGrows ==
  ASSUME NEW s \in Seq(Element), NEW wk, NEW from, NEW to, NEW back, NEW safe, NEW key, NEW p, NEW n, NEW t, NEW vis, NEW mem,
         Walking(wk, s, from, to, back, safe, key, "next", p, n, t, vis, mem),
         NEW e \in Element, Lacks(s, e), Lacks(vis, e), NEW k \in 0..Len(s),
         NEW b, b = IF back THEN from ELSE to,
         safe /\ b # Tree /\ TurnedGap(Len(s), k, back) = t => n # Spot(Tree, Oriented(s, back), t + 1)
  PROVE  \E t2 : Walking(wk, Ins(s, k, e), from, to, back, safe, key, "next", p, n, t2, vis, mem)
<1>1. PICK m \in Nat : m = Len(s) OBVIOUS
<1>2. back \in BOOLEAN /\ safe \in BOOLEAN BY DEF Walking
<1>3. PICK S : S = Oriented(s, back) OBVIOUS
<1>4. IsOriented(Element, s, back, S) BY <1>2, <1>3, OrientedIs
<1>5. S \in Seq(Element) /\ Len(S) = m BY <1>1, <1>4 DEF IsOriented
<1>7. Turn(Element, Tree, S, t, "next", safe, p, n, vis, mem) /\ BoundAt(S, t, b) BY <1>3 DEF Walking
<1>8. MayInsert(Element, s, k, e, m) BY <1>1 DEF MayInsert
<1>9. PICK j \in 0..m : j = TurnedGap(m, k, back)
  <2>1. k \in 0..m /\ m - k \in 0..m BY <1>1
  <2> QED BY <2>1 DEF TurnedGap
<1>10. PICK S2 : S2 = Ins(S, j, e) OBVIOUS
<1>11. Oriented(Ins(s, k, e), back) = S2 BY <1>2, <1>3, <1>8, <1>9, <1>10, OrientedIns
<1>12. Lacks(S, e)
  <2>1. ASSUME NEW i \in 1..m PROVE S[i] # e
    <3>1. S[i] = s[Turned(m, i, back)] BY <1>1, <1>4, <2>1 DEF IsOriented
    <3>2. Turned(m, i, back) \in 1..m BY <2>1, FlipOne DEF Turned
    <3> QED BY <1>1, <3>1, <3>2 DEF Lacks
  <2> QED BY <1>5, <2>1 DEF Lacks
<1>13. NewEntry(Element, S, j, e, vis, m) BY <1>5, <1>9, <1>12 DEF NewEntry, MayInsert
<1>14. ASSUME NEW t2, Turn(Element, Tree, S2, t2, "next", safe, p, n, vis, mem), BoundAt(S2, t2, b)
       PROVE  Walking(wk, Ins(s, k, e), from, to, back, safe, key, "next", p, n, t2, vis, mem)
  BY <1>11, <1>14 DEF Walking
<1>15. MayInsert(Element, S, j, e, m) BY <1>13 DEF NewEntry
<1>16. Len(S2) = m + 1 /\ \A i \in 1..(m + 1) : S2[i] = IF i <= j THEN S[i] ELSE IF i = j + 1 THEN e ELSE S[i - 1]
  <2>1. Len(S2) = m + 1 BY <1>10, <1>15, InsSpots
  <2> QED BY <1>5, <1>10, <2>1 DEF Ins
<1>17. CASE b = Tree
  <2>1. t = m BY <1>5, <1>7, <1>17 DEF BoundAt
  <2>2. Turn(Element, Tree, S2, m + 1, "next", safe, p, n, vis, mem) BY <1>2, <1>7, <1>10, <1>13, <2>1, TurnInserts
  <2>3. BoundAt(S2, m + 1, b) BY <1>16, <1>17 DEF BoundAt
  <2> QED BY <1>14, <2>2, <2>3
<1>18. CASE b # Tree
  <2>2. t \in 1..m /\ S[t] = b BY <1>5, <1>7, <1>18 DEF BoundAt
  <2>3. PICK t2 : t2 = IF j < t THEN t + 1 ELSE t OBVIOUS
  <2>4. Turn(Element, Tree, S2, t2, "next", safe, p, n, vis, mem)
    <3>1. CASE safe
      <4>1. j = t => n # Spot(Tree, S, t + 1) BY <1>1, <1>3, <1>9, <1>18, <3>1
      <4> QED BY <1>2, <1>7, <1>10, <1>13, <2>3, <3>1, <4>1, TurnInsertsSafe
    <3>2. CASE ~safe
      <4>1. /\ j <= t => Turn(Element, Tree, S2, t + 1, "next", safe, p, n, vis, mem)
            /\ j >= t => Turn(Element, Tree, S2, t, "next", safe, p, n, vis, mem)
        BY <1>2, <1>7, <1>10, <1>13, <3>2, TurnInsertsBounded
      <4>2. CASE j < t
        <5>1. j <= t BY <1>9, <2>2, <4>2
        <5> QED BY <2>3, <4>1, <4>2, <5>1
      <4>3. CASE ~(j < t)
        <5>1. j >= t BY <1>9, <2>2, <4>3
        <5> QED BY <2>3, <4>1, <4>3, <5>1
      <4> QED BY <4>2, <4>3
    <3> QED BY <3>1, <3>2
  <2>5. t2 \in 1..(m + 1) /\ S2[t2] = S[t]
    <3>1. CASE j < t
      <4>1. t2 = t + 1 /\ t2 \in 1..(m + 1) /\ ~(t2 <= j) /\ t2 # j + 1 /\ t2 - 1 = t BY <2>2, <2>3, <3>1
      <4> QED BY <1>16, <4>1
    <3>2. CASE ~(j < t)
      <4>1. t2 = t /\ t2 \in 1..(m + 1) /\ t2 <= j BY <2>2, <2>3, <3>2
      <4> QED BY <1>16, <4>1
    <3> QED BY <3>1, <3>2
  <2>6. BoundAt(S2, t2, b) BY <1>16, <1>18, <2>2, <2>5 DEF BoundAt
  <2> QED BY <1>14, <2>4, <2>6
<1> QED BY <1>17, <1>18

(* The same with the loop of acl_for_each, whose bound may become the new   *)
(* element.                                                                 *)
LEMMA KeyedGrows ==
  ASSUME NEW s \in Seq(Element), NEW wk, NEW from, NEW to, NEW back, NEW safe, NEW key, NEW p, NEW n, NEW t, NEW vis, NEW mem,
         Walking(wk, s, from, to, back, safe, key, "next", p, n, t, vis, mem), Keyed(s, to, back, safe, key, p, t, vis),
         NEW e \in Element, Lacks(s, e), Lacks(vis, e), NEW k, InsertedAt(s, e, k), NEW s2, s2 = Ins(s, k, e)
  PROVE  \E t2 \in 1..Len(s2) :
           /\ Walking([wk EXCEPT !.to = s2[t2]], s2, from, s2[t2], back, safe, key, "next", p, n, t2, vis, mem)
           /\ Keyed(s2, s2[t2], back, safe, key, p, t2, vis)
<1>1. PICK m \in Nat : m = Len(s) OBVIOUS
<1>2. /\ key \in Int /\ back = FALSE /\ safe = FALSE /\ to # Tree
      /\ \A i \in 1..m : KeyOf[s[i]] <= key <=> i <= t
  BY <1>1 DEF Keyed, Walking
<1>3. Turn(Element, Tree, s, t, "next", safe, p, n, vis, mem) /\ BoundAt(s, t, to) BY <1>2 DEF Walking, Oriented
<1>4. t \in 1..m BY <1>1, <1>2, <1>3 DEF BoundAt
<1>5. k \in 0..m /\ k \in Int /\ 0 <= k /\ k <= m BY <1>1 DEF InsertedAt
<1>6. NewEntry(Element, s, k, e, vis, m) BY <1>1, <1>5 DEF NewEntry, MayInsert
<1>7. s2 \in Seq(Element) /\ Len(s2) = m + 1
  <2>1. MayInsert(Element, s, k, e, m) BY <1>6 DEF NewEntry
  <2> QED BY <2>1, InsSpots
<1>8. \A i \in 1..(m + 1) : s2[i] = IF i <= k THEN s[i] ELSE IF i = k + 1 THEN e ELSE s[i - 1] BY <1>1, <1>7 DEF Ins
<1>9. (\A i \in 1..m : KeyOf[s[i]] \in Int) /\ KeyOf[e] \in Int
  <2>1. \A i \in 1..m : s[i] \in Element BY <1>1, ElementOfSeq
  <2> QED BY <2>1, AvlAssumption
<1>10. \A i \in 1..m : (i <= k => KeyOf[s[i]] <= KeyOf[e]) /\ (~(i <= k) => KeyOf[e] <= KeyOf[s[i]]) BY <1>1 DEF InsertedAt
<1>11. /\ k <= t => Turn(Element, Tree, s2, t + 1, "next", safe, p, n, vis, mem)
       /\ k >= t => Turn(Element, Tree, s2, t, "next", safe, p, n, vis, mem)
  BY <1>2, <1>3, <1>6, TurnInsertsBounded
<1>12. PICK t2 \in 1..(m + 1) : t2 = IF KeyOf[e] <= key THEN t + 1 ELSE t BY <1>4
<1>13. /\ Turn(Element, Tree, s2, t2, "next", safe, p, n, vis, mem)
       /\ KeyOf[e] <= key => k <= t
       /\ ~(KeyOf[e] <= key) => k >= t
  <2>1. CASE KeyOf[e] <= key
    <3>1. SUFFICES ASSUME ~(k <= t) PROVE FALSE BY <1>11, <1>12, <2>1
    <3>2. t + 1 \in 1..m /\ t + 1 <= k /\ ~(t + 1 <= t) BY <1>4, <1>5, <3>1
    <3>3. KeyOf[s[t + 1]] <= KeyOf[e] /\ KeyOf[s[t + 1]] \in Int BY <1>9, <1>10, <3>2
    <3>4. KeyOf[s[t + 1]] <= key BY <1>2, <1>9, <2>1, <3>3
    <3> QED BY <1>2, <3>2, <3>4
  <2>2. CASE ~(KeyOf[e] <= key)
    <3>1. SUFFICES ASSUME ~(k >= t) PROVE FALSE BY <1>11, <1>12, <2>2
    <3>2. ~(t <= k) /\ t <= t BY <1>4, <1>5, <3>1
    <3>3. KeyOf[e] <= KeyOf[s[t]] /\ KeyOf[s[t]] \in Int BY <1>4, <1>9, <1>10, <3>2
    <3>4. KeyOf[s[t]] <= key BY <1>2, <1>4, <3>2
    <3>5. KeyOf[e] <= key BY <1>2, <1>9, <3>3, <3>4
    <3> QED BY <2>2, <3>5
  <2> QED BY <2>1, <2>2
<1>14. ASSUME NEW i \in 1..(m + 1) PROVE KeyOf[s2[i]] <= key <=> i <= t2
  <2>1. CASE i <= k
    <3>1. i \in 1..m /\ s2[i] = s[i] BY <1>5, <1>8, <2>1
    <3>2. KeyOf[s2[i]] <= key <=> i <= t BY <1>2, <3>1
    <3>3. KeyOf[e] <= key => i <= t /\ i <= t + 1 BY <1>4, <1>5, <1>13, <2>1
    <3> QED BY <1>12, <3>2, <3>3
  <2>2. CASE i = k + 1
    <3>1. ~(i <= k) BY <1>5, <2>2
    <3>2. s2[i] = e BY <1>8, <2>2, <3>1
    <3>3. (KeyOf[e] <= key => i <= t + 1) /\ (~(KeyOf[e] <= key) => ~(i <= t)) BY <1>4, <1>5, <1>13, <2>2
    <3> QED BY <1>12, <3>2, <3>3
  <2>3. CASE i > k + 1
    <3>1. i - 1 \in 1..m /\ ~(i <= k) /\ i # k + 1 BY <1>5, <2>3
    <3>2. s2[i] = s[i - 1] BY <1>8, <3>1
    <3>3. KeyOf[s2[i]] <= key <=> i - 1 <= t BY <1>2, <3>1, <3>2
    <3>4. i - 1 <= t <=> i <= t + 1 BY <1>4
    <3>5. ~(KeyOf[e] <= key) => ~(i - 1 <= t) /\ ~(i <= t) BY <1>4, <1>5, <1>13, <2>3
    <3> QED BY <1>12, <3>3, <3>4, <3>5
  <2> QED BY <1>5, <2>1, <2>2, <2>3
<1>15. PICK to2 : to2 = s2[t2] OBVIOUS
<1>16. to2 \in Element /\ to2 # Tree
  <2>1. to2 \in Element BY <1>7, <1>12, <1>15, ElementOfSeq
  <2> QED BY <2>1, AvlAssumption
<1>17. Keyed(s2, to2, back, safe, key, p, t2, vis)
  <2>1. (p \in Element => KeyOf[p] >= key) /\ \A i \in 1..Len(vis) : KeyOf[vis[i]] = key BY DEF Keyed
  <2> QED BY <1>2, <1>7, <1>14, <1>16, <2>1 DEF Keyed
<1>18. Walking([wk EXCEPT !.to = to2], s2, from, to2, back, safe, key, "next", p, n, t2, vis, mem)
  <2>1. wk = [at |-> "next", from |-> from, to |-> to, back |-> back, safe |-> safe, key |-> key, element |-> p, ptr |-> n]
    BY DEF Walking
  <2>2. [wk EXCEPT !.to = to2]
          = [at |-> "next", from |-> from, to |-> to2, back |-> back, safe |-> safe, key |-> key, element |-> p, ptr |-> n]
    <3>1. PICK bk, sf : bk = back /\ sf = safe OBVIOUS
    <3>2. wk = [at |-> "next", from |-> from, to |-> to, back |-> bk, safe |-> sf, key |-> key, element |-> p, ptr |-> n]
      BY <2>1, <3>1, Zenon
    <3>3. [wk EXCEPT !.to = to2]
            = [at |-> "next", from |-> from, to |-> to2, back |-> bk, safe |-> sf, key |-> key, element |-> p, ptr |-> n]
      BY <3>2
    <3> QED BY <3>1, <3>3, Zenon
  <2>3. BoundAt(s2, t2, to2) BY <1>7, <1>12, <1>15, <1>16 DEF BoundAt
  <2>4. Oriented(s2, back) = s2 BY <1>2 DEF Oriented
  <2>5. back \in BOOLEAN /\ safe \in BOOLEAN /\ (IF back THEN from ELSE to2) = to2 BY <1>2
  <2> QED BY <1>13, <2>2, <2>3, <2>4, <2>5 DEF Walking
<1> QED BY <1>7, <1>12, <1>15, <1>17, <1>18

\* The loop after its body ran for p.
WentOn(from, to, back, safe, key, p, n) ==
  [at |-> "next", from |-> from, to |-> to, back |-> back, safe |-> safe, key |-> key, element |-> p, ptr |-> n]

(* The body of a loop runs, and may delete the element it runs for. *)
LEMMA WalkingVisits ==
  ASSUME NEW s \in Seq(Element), NEW wk, NEW from, NEW to, NEW back, NEW safe, NEW key, NEW p, NEW n, NEW t, NEW vis, NEW mem,
         Walking(wk, s, from, to, back, safe, key, "test", p, n, t, vis, mem),
         ~AtEnd(Element, Tree, Oriented(s, back), t, p, vis, mem)
  PROVE  \E k \in 1..Len(s) :
           /\ p = s[k] /\ p \in Element
           /\ Walking(WentOn(from, to, back, safe, key, p, n), s, from, to, back, safe, key, "next", p, n, t, Append(vis, p), mem)
           /\ safe /\ p # (IF back THEN from ELSE to) =>
                Walking(WentOn(from, to, back, safe, key, p, n), Del(s, k), from, to, back, safe, key, "next", p, n, t - 1,
                        Append(vis, p), mem)
<1>1. PICK m \in Nat : m = Len(s) OBVIOUS
<1>2. back \in BOOLEAN /\ safe \in BOOLEAN BY DEF Walking
<1>3. PICK S : S = Oriented(s, back) OBVIOUS
<1>4. IsOriented(Element, s, back, S) BY <1>2, <1>3, OrientedIs
<1>5. S \in Seq(Element) /\ Len(S) = m /\ \A i \in 1..m : S[i] = s[Turned(m, i, back)] BY <1>1, <1>4 DEF IsOriented
<1>6. PICK b : b = IF back THEN from ELSE to OBVIOUS
<1>7. Turn(Element, Tree, S, t, "test", safe, p, n, vis, mem) /\ BoundAt(S, t, b) BY <1>3, <1>6 DEF Walking
<1>8. t \in Int /\ 0 <= t /\ t <= m BY <1>5, <1>7, TurnWithin DEF Within
<1>9. PICK c : Visits(Element, Tree, S, t, safe, p, n, vis, mem, c) BY <1>2, <1>3, <1>7, TurnBody
<1>10. PICK j \in 1..m : j = c + 1 /\ c \in 0..(t - 1) BY <1>5, <1>9 DEF Visits
<1>11. PICK vis2 : vis2 = Append(vis, p) OBVIOUS
<1>12. /\ p = S[j] /\ p \in Element
       /\ Turn(Element, Tree, S, t, "next", safe, p, n, vis2, mem)
       /\ safe => Turn(Element, Tree, Del(S, j), t - 1, "next", safe, p, n, vis2, mem)
  BY <1>9, <1>10, <1>11 DEF Visits
<1>13. PICK k \in 1..m : k = Turned(m, j, back) /\ Turned(m, k, back) = j BY <1>2, TurnedTwice
<1>14. p = s[k] BY <1>5, <1>12, <1>13
<1>15. PICK wk2 : wk2 = WentOn(from, to, back, safe, key, p, n) OBVIOUS
<1>16. Walking(wk2, s, from, to, back, safe, key, "next", p, n, t, vis2, mem)
  BY <1>2, <1>3, <1>6, <1>7, <1>12, <1>15 DEF Walking, WentOn
<1>17. ASSUME safe, p # b PROVE Walking(wk2, Del(s, k), from, to, back, safe, key, "next", p, n, t - 1, vis2, mem)
  <2>1. PICK S2 : S2 = Del(S, j) OBVIOUS
  <2>2. Oriented(Del(s, k), back) = S2 BY <1>1, <1>2, <1>3, <1>13, <2>1, OrientedDel
  <2>3. j \in 1..Len(S) BY <1>5
  <2>4. Len(S2) = m - 1 BY <1>5, <2>1, <2>3, DelSpots
  <2>5. \A i \in 1..(m - 1) : S2[i] = IF i < j THEN S[i] ELSE S[i + 1] BY <1>5, <2>1 DEF Del
  <2>6. BoundAt(S2, t - 1, b)
    <3>1. CASE b = Tree BY <1>5, <1>7, <2>4, <3>1 DEF BoundAt
    <3>2. CASE b # Tree
      <4>1. t \in 1..m /\ S[t] = b BY <1>5, <1>7, <3>2 DEF BoundAt
      <4>2. j # t BY <1>12, <1>17, <4>1
      <4>3. t - 1 \in 1..(m - 1) /\ ~(t - 1 < j) /\ (t - 1) + 1 = t BY <1>10, <4>1, <4>2
      <4>4. S2[t - 1] = b BY <2>5, <4>1, <4>3
      <4> QED BY <2>4, <3>2, <4>3, <4>4 DEF BoundAt
    <3> QED BY <3>1, <3>2
  <2> QED BY <1>2, <1>6, <1>12, <1>15, <1>17, <2>1, <2>2, <2>6 DEF Walking, WentOn
<1> QED BY <1>1, <1>6, <1>11, <1>12, <1>13, <1>14, <1>15, <1>16, <1>17

(* It stops where it should. *)
LEMMA StopsVisits ==
  ASSUME NEW s, NEW wk, NEW from, NEW to, NEW back, NEW safe, NEW key, NEW p, NEW n, NEW t, NEW vis, NEW mem,
         Walking(wk, s, from, to, back, safe, key, "test", p, n, t, vis, mem),
         Stops(s, from, to, back, safe, key, "test", p, t, vis, mem),
         ~AtEnd(Element, Tree, Oriented(s, back), t, p, vis, mem),
         NEW s2, NEW t2, safe \/ (s2 = s /\ t2 = t)
  PROVE  Stops(s2, from, to, back, safe, key, "next", p, t2, Append(vis, p), mem)
<1>1. back \in BOOLEAN /\ safe \in BOOLEAN BY DEF Walking
<1>2. PICK S : S = Oriented(s, back) OBVIOUS
<1>3. Turn(Element, Tree, S, t, "test", safe, p, n, vis, mem) BY <1>2 DEF Walking
<1>4. PICK c : Visits(Element, Tree, S, t, safe, p, n, vis, mem, c) BY <1>1, <1>2, <1>3, TurnBody
<1>5. c \in 0..(t - 1) /\ c + 1 \in 1..Len(S) /\ p = S[c + 1] /\ p \in Element BY <1>4 DEF Visits
<1>6. vis \in Seq(Element) BY <1>1, <1>3, TurnIsExact
<1>7. PICK v \in Nat : v = Len(vis) BY <1>6
<1>8. PICK vis2 : vis2 = Append(vis, p) OBVIOUS
<1>9. Len(vis2) = v + 1 /\ (\A i \in 1..v : vis2[i] = vis[i]) /\ vis2[v + 1] = p BY <1>5, <1>6, <1>7, <1>8
<1>10. ASSUME key = NULL
       PROVE  Bounded(Oriented(s2, back), IF back THEN from ELSE to, "next", p, t2, vis2, mem)
  <2>1. PICK b : b = IF back THEN from ELSE to OBVIOUS
  <2>2. Bounded(S, b, "test", p, t, vis, mem) BY <1>2, <1>10, <2>1 DEF Stops
  <2>3. b # Tree => \A i \in 1..v : vis[i] # b BY <1>2, <1>7, <2>2 DEF Bounded
  <2>4. (v + 1) - 1 = v OBVIOUS
  <2>5. b # Tree => \A i \in 1..(Len(vis2) - 1) : vis2[i] # b BY <1>9, <2>3, <2>4
  <2> QED BY <2>1, <2>5 DEF Bounded
<1>11. ASSUME key # NULL PROVE Keyed(s2, to, back, safe, key, p, t2, vis2)
  <2>1. Keyed(s, to, back, safe, key, p, t, vis) BY <1>11 DEF Stops
  <2>2. ~back /\ ~safe BY <2>1 DEF Keyed
  <2>3. S = s /\ s2 = s /\ t2 = t BY <1>2, <2>2 DEF Oriented
  <2>4. t \in Int BY <1>2, <1>3, TurnWithin DEF Within
  <2>5. key \in Int /\ KeyOf[p] \in Int BY <1>5, <2>1, AvlAssumption DEF Keyed
  <2>6. KeyOf[p] = key
    <3>1. c + 1 <= t BY <1>5, <2>4
    <3>2. KeyOf[p] <= key BY <1>5, <2>1, <2>3, <3>1 DEF Keyed
    <3>3. KeyOf[p] >= key BY <1>5, <2>1 DEF Keyed
    <3> QED BY <2>5, <3>2, <3>3
  <2>7. \A i \in 1..v : KeyOf[vis[i]] = key BY <1>7, <2>1 DEF Keyed
  <2>8. ASSUME NEW i \in 1..(v + 1) PROVE KeyOf[vis2[i]] = key
    <3>1. CASE i = v + 1 BY <1>9, <2>6, <3>1
    <3>2. CASE i # v + 1
      <4>1. i \in 1..v BY <3>2
      <4> QED BY <1>9, <2>7, <4>1
    <3> QED BY <3>1, <3>2
  <2> QED BY <1>9, <2>1, <2>3, <2>8 DEF Keyed
<1> QED BY <1>8, <1>10, <1>11 DEF Stops

\* The nodes of a ring.
NodesOf(s) == {s[i] : i \in 1..Len(s)} \cup {Tree}

(* The same in either direction. *)
LEMMA NodesTurned ==
  ASSUME NEW s \in Seq(Element), NEW back \in BOOLEAN
  PROVE  \A x : x \in NodesOf(Oriented(s, back)) <=> x \in NodesOf(s)
<1>1. PICK m \in Nat : m = Len(s) OBVIOUS
<1>2. PICK S : S = Oriented(s, back) OBVIOUS
<1>3. Len(S) = m /\ \A i \in 1..m : S[i] = s[Turned(m, i, back)] BY <1>1, <1>2, OrientedIs DEF IsOriented
<1>4. \A i \in 1..m : Turned(m, i, back) \in 1..m /\ Turned(m, Turned(m, i, back), back) = i BY TurnedTwice
<1>5. \A i \in 1..m : \E j \in 1..m : S[i] = s[j] BY <1>3, <1>4
<1>6. \A i \in 1..m : \E j \in 1..m : s[i] = S[j]
  <2> TAKE i \in 1..m
  <2>1. PICK j \in 1..m : j = Turned(m, i, back) /\ Turned(m, j, back) = i BY <1>4
  <2> QED BY <1>3, <2>1
<1>7. ASSUME NEW x PROVE x \in NodesOf(S) <=> x \in NodesOf(s)
  <2>1. x \in NodesOf(S) <=> (x = Tree \/ \E i \in 1..m : x = S[i]) BY <1>3 DEF NodesOf
  <2>2. x \in NodesOf(s) <=> (x = Tree \/ \E i \in 1..m : x = s[i]) BY <1>1 DEF NodesOf
  <2> QED BY <1>5, <1>6, <2>1, <2>2
<1> QED BY <1>2, <1>7

(* What Spot reaches. *)
LEMMA SpotIsNode == ASSUME NEW s, NEW i PROVE Spot(Tree, s, i) \in NodesOf(s)
BY DEF Spot, NodesOf

(* A node is at a spot. *)
LEMMA NodeIsSpot ==
  ASSUME NEW s \in Seq(Element), NEW x \in NodesOf(s)
  PROVE  \E i \in 0..Len(s) : x = Spot(Tree, s, i)
<1>1. PICK m \in Nat : m = Len(s) OBVIOUS
<1>2. CASE x = Tree
  <2>1. 0 \in 0..m /\ 0 \notin 1..m OBVIOUS
  <2>2. Spot(Tree, s, 0) = Tree BY <1>1, <2>1 DEF Spot
  <2> QED BY <1>1, <1>2, <2>1, <2>2
<1>3. CASE x # Tree
  <2>1. PICK i \in 1..m : x = s[i] BY <1>1, <1>3 DEF NodesOf
  <2>2. Spot(Tree, s, i) = x /\ i \in 0..m BY <1>1, <2>1 DEF Spot
  <2> QED BY <1>1, <2>2
<1> QED BY <1>2, <1>3

(* The links of the nodes lead to nodes, and to themselves only at the head. *)
LEMMA NodesStay ==
  ASSUME NEW hp, NEW s, OneRing(hp, s), NEW back \in BOOLEAN, NEW x \in NodesOf(s)
  PROVE  Toward(hp, back)[x] \in NodesOf(s) /\ (Toward(hp, back)[x] = x => x = Tree)
<1>1. PICK S : S = Oriented(s, back) OBVIOUS
<1>2. Followed(hp, Element, Tree, s, back, S) BY <1>1, RingIsFollowed
<1>3. PICK m \in Nat : m = Len(S) BY <1>2 DEF Followed, IsOriented
<1>4. /\ s \in Seq(Element) /\ S \in Seq(Element) /\ Distinct(S)
      /\ \A i \in 0..m : Toward(hp, back)[Spot(Tree, S, i)] = Spot(Tree, S, i + 1)
  BY <1>2, <1>3 DEF Followed, IsOriented
<1>5. x \in NodesOf(S) BY <1>1, <1>4, NodesTurned
<1>6. PICK i \in 0..m : x = Spot(Tree, S, i) BY <1>3, <1>4, <1>5, NodeIsSpot
<1>7. Toward(hp, back)[x] = Spot(Tree, S, i + 1) BY <1>4, <1>6
<1>8. Toward(hp, back)[x] \in NodesOf(s)
  <2>1. Spot(Tree, S, i + 1) \in NodesOf(S) BY SpotIsNode
  <2> QED BY <1>1, <1>4, <1>7, <2>1, NodesTurned
<1>9. ASSUME Spot(Tree, S, i + 1) = Spot(Tree, S, i) PROVE x = Tree
  <2>1. CASE i = m
    <3>1. i + 1 \notin 1..m BY <2>1
    <3> QED BY <1>3, <1>6, <1>9, <3>1 DEF Spot
  <2>2. CASE i # m
    <3>1. i + 1 \in 0..m /\ i + 1 # i BY <2>2
    <3>2. Tree \notin Element BY AvlAssumption
    <3> QED BY <1>3, <1>4, <1>9, <3>1, <3>2, SpotsOfDistinct
  <2> QED BY <2>1, <2>2
<1> QED BY <1>6, <1>7, <1>8, <1>9

(* Other nodes stay when one is taken out, and all when one is put in. *)
LEMMA NodesChange ==
  ASSUME NEW s \in Seq(Element), NEW x \in NodesOf(s)
  PROVE  /\ \A k \in 1..Len(s) : x # s[k] => x \in NodesOf(Del(s, k))
         /\ \A k \in 0..Len(s) : \A e \in Element : x \in NodesOf(Ins(s, k, e))
<1>1. PICK m \in Nat : m = Len(s) OBVIOUS
<1>2. ASSUME NEW k \in 1..m, x # s[k] PROVE x \in NodesOf(Del(s, k))
  <2>1. PICK w : w = Del(s, k) OBVIOUS
  <2>2. Len(w) = m - 1 BY <1>1, <2>1, DelSpots
  <2>3. \A i \in 1..(m - 1) : w[i] = IF i < k THEN s[i] ELSE s[i + 1] BY <1>1, <2>1 DEF Del
  <2>4. SUFFICES ASSUME NEW i \in 1..m, x = s[i] PROVE \E j \in 1..(m - 1) : x = w[j]
    BY <1>1, <2>1, <2>2 DEF NodesOf
  <2>5. CASE i < k
    <3>1. i \in 1..(m - 1) BY <2>5
    <3> QED BY <2>3, <2>4, <2>5, <3>1
  <2>6. CASE i > k
    <3>1. i - 1 \in 1..(m - 1) /\ ~(i - 1 < k) /\ (i - 1) + 1 = i BY <2>6
    <3> QED BY <2>3, <2>4, <3>1
  <2> QED BY <1>2, <2>4, <2>5, <2>6
<1>3. ASSUME NEW k \in 0..m, NEW e \in Element PROVE x \in NodesOf(Ins(s, k, e))
  <2>1. PICK w : w = Ins(s, k, e) OBVIOUS
  <2>2. Len(w) = m + 1
    <3>1. MayInsert(Element, s, k, e, m) BY <1>1 DEF MayInsert
    <3> QED BY <2>1, <3>1, InsSpots
  <2>3. \A i \in 1..(m + 1) : w[i] = IF i <= k THEN s[i] ELSE IF i = k + 1 THEN e ELSE s[i - 1] BY <1>1, <2>1 DEF Ins
  <2>4. SUFFICES ASSUME NEW i \in 1..m, x = s[i] PROVE \E j \in 1..(m + 1) : x = w[j]
    BY <1>1, <2>1, <2>2 DEF NodesOf
  <2>5. CASE i <= k
    <3>1. i \in 1..(m + 1) OBVIOUS
    <3> QED BY <2>3, <2>4, <2>5, <3>1
  <2>6. CASE ~(i <= k)
    <3>1. i + 1 \in 1..(m + 1) /\ ~(i + 1 <= k) /\ i + 1 # k + 1 /\ (i + 1) - 1 = i BY <2>6
    <3> QED BY <2>3, <2>4, <3>1
  <2> QED BY <2>5, <2>6
<1> QED BY <1>1, <1>2, <1>3

(* The pointer that a _safe loop has saved is a node, another one. *)
LEMMA SavedIsNode ==
  ASSUME NEW s \in Seq(Element), NEW wk, NEW from, NEW to, NEW back, NEW safe, NEW key, NEW p, NEW n, NEW t, NEW vis, NEW mem,
         Distinct(s), safe
  PROVE  /\ Walking(wk, s, from, to, back, safe, key, "next", p, n, t, vis, mem) => n \in NodesOf(s)
         /\ /\ Walking(wk, s, from, to, back, safe, key, "test", p, n, t, vis, mem)
            /\ ~AtEnd(Element, Tree, Oriented(s, back), t, p, vis, mem)
            => n \in NodesOf(s) /\ n # p
<1>1. PICK S : S = Oriented(s, back) OBVIOUS
<1>2. PICK m \in Nat : m = Len(s) OBVIOUS
<1>3. ASSUME NEW at, Walking(wk, s, from, to, back, safe, key, at, p, n, t, vis, mem)
      PROVE  /\ back \in BOOLEAN /\ S \in Seq(Element) /\ Len(S) = m /\ Distinct(S) /\ t \in Int /\ t <= m
             /\ Turn(Element, Tree, S, t, at, safe, p, n, vis, mem)
             /\ \A i : Spot(Tree, S, i) \in NodesOf(s)
  <2>1. back \in BOOLEAN /\ Turn(Element, Tree, S, t, at, safe, p, n, vis, mem) BY <1>1, <1>3 DEF Walking
  <2>2. S \in Seq(Element) /\ Len(S) = m /\ Distinct(S) BY <1>1, <1>2, <2>1, OrientedIs DEF IsOriented
  <2>3. t \in Int /\ t <= m BY <2>1, <2>2, TurnWithin DEF Within
  <2>4. \A i : Spot(Tree, S, i) \in NodesOf(s) BY <1>1, <2>1, NodesTurned, SpotIsNode
  <2> QED BY <2>1, <2>2, <2>3, <2>4
<1>4. ASSUME Walking(wk, s, from, to, back, safe, key, "next", p, n, t, vis, mem) PROVE n \in NodesOf(s)
  <2>0. Turn(Element, Tree, S, t, "next", safe, p, n, vis, mem) BY <1>3, <1>4
  <2>1. PICK c : BehindSafe(Element, Tree, S, t, p, n, vis, mem, c) BY <2>0 DEF Turn
  <2>2. n = Spot(Tree, S, c + 1) BY <2>1 DEF BehindSafe
  <2> QED BY <1>3, <1>4, <2>2
<1>5. ASSUME Walking(wk, s, from, to, back, safe, key, "test", p, n, t, vis, mem),
             ~AtEnd(Element, Tree, S, t, p, vis, mem)
      PROVE  n \in NodesOf(s) /\ n # p
  <2>0. Turn(Element, Tree, S, t, "test", safe, p, n, vis, mem) BY <1>3, <1>5
  <2>1. PICK c, d : AtSafe(Element, Tree, S, t, p, n, vis, mem, c, d) BY <1>5, <2>0 DEF Turn
  <2>2. c \in 0..(t - 1) /\ d \in (c + 1)..t /\ p = Spot(Tree, S, c + 1) /\ n = Spot(Tree, S, d + 1) BY <2>1 DEF AtSafe
  <2>3. t \in Int /\ t <= m /\ Len(S) = m /\ S \in Seq(Element) /\ Distinct(S) BY <1>3, <1>5
  <2>4. c + 1 \in 1..m /\ c + 1 \in 0..m /\ d \in Int /\ c + 1 <= d /\ d <= m BY <2>2, <2>3
  <2>5. p = S[c + 1] /\ p \in Element BY <2>2, <2>3, <2>4, ElementOfSeq DEF Spot
  <2>6. Tree \notin Element BY AvlAssumption
  <2>7. CASE d = m
    <3>1. d + 1 \notin 1..m BY <2>7
    <3>2. n = Tree BY <2>2, <2>3, <3>1 DEF Spot
    <3> QED BY <1>3, <1>5, <2>2, <2>5, <2>6, <3>2
  <2>8. CASE d # m
    <3>1. d + 1 \in 0..m /\ d + 1 # c + 1 BY <2>4, <2>8
    <3>2. n # p BY <2>2, <2>3, <2>4, <2>6, <3>1, SpotsOfDistinct
    <3> QED BY <1>3, <1>5, <2>2, <3>2
  <2> QED BY <2>7, <2>8
<1> QED BY <1>1, <1>4, <1>5

(* A loop goes on to the next element. *)
LEMMA WalkingNext ==
  ASSUME NEW hp, NEW s, OneRing(hp, s), NEW wk, NEW from, NEW to, NEW back, NEW safe, NEW key, NEW p, NEW n, NEW t, NEW vis,
         NEW mem, Walking(wk, s, from, to, back, safe, key, "next", p, n, t, vis, mem),
         NEW p2, p2 = IF safe THEN n ELSE Toward(hp, back)[p],
         NEW n2, n2 = IF safe THEN Toward(hp, back)[p2] ELSE n,
         NEW wk2, wk2 = [at |-> "test", from |-> from, to |-> to, back |-> back, safe |-> safe, key |-> key, element |-> p2, ptr |-> n2]
  PROVE  Walking(wk2, s, from, to, back, safe, key, "test", p2, n2, t, vis, mem)
<1>1. back \in BOOLEAN /\ safe \in BOOLEAN BY DEF Walking
<1>2. PICK S, link : S = Oriented(s, back) /\ link = Toward(hp, back) OBVIOUS
<1>3. Followed(hp, Element, Tree, s, back, S) BY <1>1, <1>2, RingIsFollowed
<1>4. \A i \in 0..Len(S) : link[Spot(Tree, S, i)] = Spot(Tree, S, i + 1) BY <1>2, <1>3 DEF Followed
<1>5. /\ Turn(Element, Tree, S, t, "next", safe, p, n, vis, mem)
      /\ BoundAt(S, t, IF back THEN from ELSE to)
  BY <1>2 DEF Walking
<1>6. safe => n2 = link[p2] BY <1>2
<1>7. p2 = IF safe THEN n ELSE link[p] BY <1>2
<1>8. Turn(Element, Tree, S, t, "test", safe, p2, n2, vis, mem) BY <1>1, <1>4, <1>5, <1>6, <1>7, TurnNext
<1> QED BY <1>1, <1>2, <1>5, <1>8 DEF Walking

(* And stops where it should. *)
LEMMA StopsNext ==
  ASSUME NEW hp, NEW s, OneRing(hp, s), Sorted(s), NEW wk, NEW from, NEW to, NEW back, NEW safe, NEW key, NEW p, NEW n, NEW t,
         NEW vis, NEW mem, Walking(wk, s, from, to, back, safe, key, "next", p, n, t, vis, mem),
         Stops(s, from, to, back, safe, key, "next", p, t, vis, mem),
         NEW p2, p2 = IF safe THEN n ELSE Toward(hp, back)[p]
  PROVE  Stops(s, from, to, back, safe, key, "test", p2, t, vis, mem)
<1>1. back \in BOOLEAN /\ safe \in BOOLEAN BY DEF Walking
<1>2. PICK S, link : S = Oriented(s, back) /\ link = Toward(hp, back) OBVIOUS
<1>3. Followed(hp, Element, Tree, s, back, S) BY <1>1, <1>2, RingIsFollowed
<1>4. PICK m \in Nat : m = Len(S) BY <1>3 DEF Followed, IsOriented
<1>5. S \in Seq(Element) /\ \A i \in 0..m : link[Spot(Tree, S, i)] = Spot(Tree, S, i + 1)
  BY <1>2, <1>3, <1>4 DEF Followed, IsOriented
<1>6. PICK b : b = IF back THEN from ELSE to OBVIOUS
<1>7. Turn(Element, Tree, S, t, "next", safe, p, n, vis, mem) /\ BoundAt(S, t, b) BY <1>2, <1>6 DEF Walking
<1>8. t \in Int /\ 0 <= t /\ t <= m BY <1>4, <1>7, TurnWithin DEF Within
<1>9. PICK c \in 0..t : /\ Course(Element, S, c, t, vis, mem) /\ p2 = Spot(Tree, S, c + 1)
                        /\ ~safe => c \in 1..t /\ p = Spot(Tree, S, c)
  <2>1. CASE safe
    <3>1. PICK c : BehindSafe(Element, Tree, S, t, p, n, vis, mem, c) BY <1>7, <2>1 DEF Turn
    <3> QED BY <2>1, <3>1 DEF BehindSafe
  <2>2. CASE ~safe
    <3>1. PICK c : BehindPlain(Element, Tree, S, t, p, vis, mem, c) BY <1>7, <2>2 DEF Turn
    <3>2. c \in 1..t /\ p = Spot(Tree, S, c) /\ Course(Element, S, c, t, vis, mem) BY <3>1 DEF BehindPlain
    <3>3. c \in 0..t /\ c \in 0..m BY <1>8, <3>2
    <3>4. p2 = Spot(Tree, S, c + 1) BY <1>2, <1>5, <2>2, <3>2, <3>3
    <3> QED BY <3>2, <3>3, <3>4
  <2> QED BY <2>1, <2>2
<1>10. ASSUME key = NULL PROVE Bounded(S, b, "test", p2, t, vis, mem)
  <2>1. Bounded(S, b, "next", p, t, vis, mem) BY <1>2, <1>6, <1>10 DEF Stops
  <2>2. ASSUME b # Tree PROVE AtEnd(Element, Tree, S, t, p2, vis, mem) \/ \A i \in 1..Len(vis) : vis[i] # b
    <3>1. S[t] = b BY <1>7, <2>2 DEF BoundAt
    <3>2. CASE c = t BY <1>9, <3>2 DEF AtEnd
    <3>3. CASE c # t
      <4>1. c < t BY <1>8, <3>3
      <4> QED BY <1>9, <3>1, <4>1, CourseMisses
    <3> QED BY <3>2, <3>3
  <2> QED BY <2>1, <2>2 DEF Bounded
<1>11. ASSUME key # NULL PROVE Keyed(s, to, back, safe, key, p2, t, vis)
  <2>1. Keyed(s, to, back, safe, key, p, t, vis) BY <1>11 DEF Stops
  <2>2. ~back /\ ~safe /\ key \in Int BY <2>1 DEF Keyed
  <2>3. S = s /\ c \in 1..t /\ p = Spot(Tree, s, c) BY <1>2, <1>9, <2>2 DEF Oriented
  <2>4. c \in 1..m /\ p = s[c] /\ p \in Element
    <3>1. c \in 1..m BY <1>8, <2>3
    <3> QED BY <1>4, <1>5, <2>3, <3>1, ElementOfSeq DEF Spot
  <2>5. ASSUME p2 \in Element PROVE KeyOf[p2] >= key
    <3>1. c + 1 \in 1..m
      <4>1. ASSUME c + 1 \notin 1..m PROVE FALSE
        <5>1. p2 = Tree BY <1>4, <1>9, <4>1 DEF Spot
        <5> QED BY <2>5, <5>1, AvlAssumption
      <4> QED BY <4>1
    <3>2. p2 = s[c + 1] BY <1>4, <1>9, <2>3, <3>1 DEF Spot
    <3>3. KeyOf[p] <= KeyOf[p2]
      <4>1. c <= c + 1 BY <2>4
      <4> QED BY <1>4, <2>3, <2>4, <3>1, <3>2, <4>1 DEF Sorted
    <3>4. KeyOf[p] >= key BY <2>1, <2>4 DEF Keyed
    <3>5. KeyOf[p] \in Int /\ KeyOf[p2] \in Int BY <2>4, <2>5, AvlAssumption
    <3> QED BY <2>2, <3>3, <3>4, <3>5
  <2> QED BY <2>1, <2>5 DEF Keyed
<1> QED BY <1>2, <1>6, <1>10, <1>11 DEF Stops

(* A part of a sequence, from behind. *)
LEMMA BackwardsSub ==
  ASSUME NEW E, NEW s \in Seq(E), NEW n \in Nat, n = Len(s), NEW a \in 1..(n + 1), NEW b \in (a - 1)..n
  PROVE  Backwards(SubSeq(s, a, b)) = SubSeq(Backwards(s), n + 1 - b, n + 1 - a)
<1>1. PICK r : r = SubSeq(s, a, b) OBVIOUS
<1>2. PICK l \in Nat : l = b - a + 1 OBVIOUS
<1>3. r \in Seq(E) /\ Len(r) = l /\ \A i \in 1..l : r[i] = s[a + i - 1] BY <1>1, <1>2, SubSeqProperties
<1>4. PICK w : w = Backwards(s) OBVIOUS
<1>5. w \in Seq(E) /\ Len(w) = n /\ w = [i \in 1..n |-> s[n + 1 - i]] BY <1>4, BackwardSpots DEF Backwards
<1>6. PICK c, d : c = n + 1 - b /\ d = n + 1 - a OBVIOUS
<1>7. c \in 1..(n + 1) /\ d \in (c - 1)..n /\ d - c + 1 = l BY <1>2, <1>6
<1>8. PICK v : v = SubSeq(w, c, d) OBVIOUS
<1>9. v \in Seq(E) /\ Len(v) = l /\ \A i \in 1..l : v[i] = w[c + i - 1] BY <1>5, <1>7, <1>8, SubSeqProperties
<1>10. PICK u : u = Backwards(r) OBVIOUS
<1>11. u \in Seq(E) /\ Len(u) = l /\ u = [i \in 1..l |-> r[l + 1 - i]] BY <1>3, <1>10, BackwardSpots DEF Backwards
<1>12. ASSUME NEW i \in 1..l PROVE u[i] = v[i]
  <2>1. l + 1 - i \in 1..l /\ a + (l + 1 - i) - 1 = b + 1 - i BY <1>2
  <2>2. u[i] = s[b + 1 - i] BY <1>3, <1>11, <2>1
  <2>3. c + i - 1 \in 1..n /\ n + 1 - (c + i - 1) = b + 1 - i BY <1>2, <1>6
  <2>4. v[i] = s[b + 1 - i] BY <1>5, <1>9, <2>3
  <2> QED BY <2>2, <2>4
<1>13. u = v BY <1>9, <1>11, <1>12, SeqEqual
<1> QED BY <1>1, <1>4, <1>6, <1>8, <1>10, <1>13

\* The range from .. to is elements a to b of s.
RangeIs(s, from, to, a, b) ==
  /\ a \in 1..(Len(s) + 1) /\ b \in (a - 1)..Len(s)
  /\ IF from = Tree THEN a = 1 ELSE a \in 1..Len(s) /\ s[a] = from
  /\ IF to = Tree THEN b = Len(s) ELSE b \in 1..Len(s) /\ s[b] = to

(* The position of an element. *)
LEMMA IndexIs == ASSUME NEW s, Holds(tree, s), NEW k \in 1..Len(s) PROVE Index(s[k]) = k
<1>1. Order = s /\ DOMAIN s = 1..Len(s) BY TreeIsRead
<1>2. Distinct(s)
  <2>1. PICK hp : Chained(hp, s) BY TreeIsRead
  <2> QED BY <2>1 DEF Chained
<1>3. \A i \in 1..Len(s) : s[i] = s[k] <=> i = k BY <1>2 DEF Distinct
<1> QED BY <1>1, <1>3 DEF Index

(* The elements of a range. *)
LEMMA BetweenIs ==
  ASSUME NEW s, Holds(tree, s), NEW from, NEW to, NEW a, NEW b, RangeIs(s, from, to, a, b)
  PROVE  Between(from, to) = SubSeq(s, a, b)
<1>1. Order = s BY TreeIsRead
<1>2. (IF from = Tree THEN 1 ELSE Index(from)) = a BY IndexIs DEF RangeIs
<1>3. (IF to = Tree THEN Len(s) ELSE Index(to)) = b BY IndexIs DEF RangeIs
<1> QED BY <1>1, <1>2, <1>3 DEF Between

\* Where the loop of acl_for_each starts.
KeyRange(s, from, to, back, safe, key, b) ==
  /\ key \in Int /\ ~back /\ ~safe /\ from # Tree /\ to # Tree /\ KeyOf[from] >= key
  /\ \A i \in 1..Len(s) : KeyOf[s[i]] <= key <=> i <= b

\* A loop has started.
Started(s, from, to, back, safe, key) ==
  \E p, n, t, mem : /\ within' = mem /\ seen' = << >> /\ tree' = tree /\ lost' = FALSE
                    /\ Stops(s, from, to, back, safe, key, "test", p, t, << >>, mem)
                    /\ Walking(walk', s, from, to, back, safe, key, "test", p, n, t, << >>, mem)

(* A loop over it starts. *)
LEMMA RangeStarts ==
  ASSUME NEW s, Holds(tree, s), NEW from, NEW to, NEW a, NEW b, RangeIs(s, from, to, a, b),
         NEW back \in BOOLEAN, NEW safe \in BOOLEAN, NEW key, StartRange(from, to, back, safe, key),
         key # NULL => KeyRange(s, from, to, back, safe, key, b)
  PROVE  Started(s, from, to, back, safe, key)
<1>1. PICK hp : hp = tree.heap /\ OneRing(hp, s) BY TreeIsRead
<1>2. PICK m \in Nat : m = Len(s) BY TreeIsRead
<1>3. s \in Seq(Element) BY TreeIsRead
<1>4. PICK S, link : S = Oriented(s, back) /\ link = Toward(hp, back) OBVIOUS
<1>5. Followed(hp, Element, Tree, s, back, S) BY <1>1, <1>4, RingIsFollowed
<1>6. /\ S \in Seq(Element) /\ Len(S) = m /\ Distinct(S)
      /\ \A i \in 1..m : S[i] = s[Turned(m, i, back)]
      /\ \A i \in 0..m : link[Spot(Tree, S, i)] = Spot(Tree, S, i + 1)
  BY <1>2, <1>4, <1>5 DEF Followed, IsOriented
<1>7. a \in 1..(m + 1) /\ b \in (a - 1)..m BY <1>2 DEF RangeIs
<1>8. PICK c \in 0..m : c = IF back THEN m - b ELSE a - 1 BY <1>7
<1>23. a \in Int /\ 1 <= a /\ a <= m + 1 /\ b \in Int /\ a - 1 <= b /\ b <= m BY <1>7
<1>24. m + 1 - a \in 0..m /\ b \in 0..m BY <1>23
<1>9. PICK t \in 0..m : t = IF back THEN m + 1 - a ELSE b BY <1>24
<1>10. c <= t /\ c \in 0..t BY <1>7, <1>8, <1>9
<1>11. PICK w : w = [from |-> from, to |-> to] OBVIOUS
<1>12. PICK p : p = IF back THEN LastOf(w) ELSE FirstOf(w) OBVIOUS
<1>13. p = Spot(Tree, S, c + 1)
  <2>1. CASE ~back
    <3>1. S = s /\ c + 1 = a /\ p = FirstOf(w) /\ w.from = from BY <1>4, <1>7, <1>8, <1>11, <1>12, <2>1 DEF Oriented
    <3>2. CASE from = Tree
      <4>1. a = 1 /\ p = next[Tree] BY <3>1, <3>2 DEF RangeIs, FirstOf
      <4>2. link[Spot(Tree, S, 0)] = Spot(Tree, S, 0 + 1) /\ 0 \notin 1..m BY <1>6
      <4>3. Spot(Tree, S, 0) = Tree BY <1>6, <4>2 DEF Spot
      <4>4. link = next BY <1>1, <1>4, <2>1 DEF Toward, next
      <4> QED BY <3>1, <4>1, <4>2, <4>3, <4>4
    <3>3. CASE from # Tree
      <4>1. a \in 1..m /\ p = s[a] BY <1>2, <3>1, <3>3 DEF RangeIs, FirstOf
      <4> QED BY <1>6, <3>1, <4>1 DEF Spot
    <3> QED BY <3>2, <3>3
  <2>2. CASE back
    <3>1. c + 1 = m + 1 - b /\ p = LastOf(w) /\ w.to = to BY <1>7, <1>8, <1>11, <1>12, <2>2
    <3>2. CASE to = Tree
      <4>1. b = m /\ p = prev[Tree] BY <1>2, <3>1, <3>2 DEF RangeIs, LastOf
      <4>2. link[Spot(Tree, S, 0)] = Spot(Tree, S, 0 + 1) /\ 0 \notin 1..m BY <1>6
      <4>3. Spot(Tree, S, 0) = Tree BY <1>6, <4>2 DEF Spot
      <4>4. link = prev BY <1>1, <1>4, <2>2 DEF Toward, prev
      <4>5. c + 1 = 0 + 1 BY <3>1, <4>1
      <4> QED BY <4>1, <4>2, <4>3, <4>4, <4>5
    <3>3. CASE to # Tree
      <4>1. b \in 1..m /\ p = s[b] BY <1>2, <3>1, <3>3 DEF RangeIs, LastOf
      <4>2. c + 1 \in 1..m /\ m + 1 - (c + 1) = b BY <3>1, <4>1
      <4>3. S[c + 1] = s[b] BY <1>6, <2>2, <4>2 DEF Turned
      <4> QED BY <1>6, <4>1, <4>2, <4>3 DEF Spot
    <3> QED BY <3>2, <3>3
  <2> QED BY <2>1, <2>2
<1>14. PICK n : n = link[p] OBVIOUS
<1>15. c < t => n = Spot(Tree, S, c + 2)
  <2> SUFFICES ASSUME c < t PROVE n = Spot(Tree, S, c + 2) OBVIOUS
  <2>1. c + 1 \in 0..m /\ (c + 1) + 1 = c + 2 OBVIOUS
  <2>2. link[Spot(Tree, S, c + 1)] = Spot(Tree, S, (c + 1) + 1) BY <1>6, <2>1
  <2> QED BY <1>13, <1>14, <2>1, <2>2
<1>16. PICK mem : mem = SubSeq(S, c + 1, t) OBVIOUS
<1>17. Turn(Element, Tree, S, t, "test", safe, p, n, << >>, mem)
  <2>1. t \in 0..Len(S) BY <1>6
  <2> QED BY <1>6, <1>10, <1>13, <1>15, <1>16, <2>1, TurnStarts
<1>18. BoundAt(S, t, IF back THEN from ELSE to)
  <2>1. CASE ~back BY <1>2, <1>4, <1>6, <1>9, <2>1 DEF BoundAt, RangeIs, Oriented
  <2>2. CASE back
    <3>1. CASE from = Tree
      <4>1. a = 1 BY <3>1 DEF RangeIs
      <4>2. t = m BY <1>9, <2>2, <4>1
      <4> QED BY <1>6, <2>2, <3>1, <4>2 DEF BoundAt
    <3>2. CASE from # Tree
      <4>1. a \in 1..m /\ s[a] = from BY <1>2, <3>2 DEF RangeIs
      <4>2. t \in 1..m /\ m + 1 - t = a BY <1>9, <2>2, <4>1
      <4>3. S[t] = from BY <1>6, <2>2, <4>1, <4>2 DEF Turned
      <4> QED BY <1>6, <2>2, <3>2, <4>2, <4>3 DEF BoundAt
    <3> QED BY <3>1, <3>2
  <2> QED BY <2>1, <2>2
<1>19. (IF back THEN Backwards(Between(from, to)) ELSE Between(from, to)) = mem
  <2>1. Between(from, to) = SubSeq(s, a, b) BY BetweenIs
  <2>2. CASE ~back
    <3>1. S = s /\ c + 1 = a /\ t = b BY <1>4, <1>7, <1>8, <1>9, <2>2 DEF Oriented
    <3> QED BY <1>16, <2>1, <2>2, <3>1
  <2>3. CASE back
    <3>1. S = Backwards(s) /\ c + 1 = m + 1 - b /\ t = m + 1 - a BY <1>4, <1>7, <1>8, <1>9, <2>3 DEF Oriented
    <3>2. Backwards(SubSeq(s, a, b)) = SubSeq(Backwards(s), m + 1 - b, m + 1 - a) BY <1>2, <1>3, <1>7, BackwardsSub
    <3> QED BY <1>16, <2>1, <2>3, <3>1, <3>2
  <2> QED BY <2>2, <2>3
<1>20. walk' = [at |-> "test", from |-> from, to |-> to, back |-> back, safe |-> safe, key |-> key, element |-> p, ptr |-> n]
  <2>1. n = IF back THEN prev[p] ELSE next[p] BY <1>1, <1>4, <1>14 DEF Toward, next, prev
  <2> QED BY <1>11, <1>12, <2>1 DEF StartRange
<1>21. within' = mem /\ seen' = << >> /\ tree' = tree /\ lost' = FALSE BY <1>19 DEF StartRange
<1>22. Walking(walk', s, from, to, back, safe, key, "test", p, n, t, << >>, mem)
  BY <1>4, <1>17, <1>18, <1>20 DEF Walking
<1>25. Stops(s, from, to, back, safe, key, "test", p, t, << >>, mem)
  <2>1. Len(<< >>) = 0 OBVIOUS
  <2>2. \A x : \A i \in 1..Len(<< >>) : << >>[i] # x BY <2>1
  <2>3. Bounded(Oriented(s, back), IF back THEN from ELSE to, "test", p, t, << >>, mem) BY <2>1 DEF Bounded
  <2>4. ASSUME key # NULL PROVE Keyed(s, to, back, safe, key, p, t, << >>)
    <3>1. KeyRange(s, from, to, back, safe, key, b) BY <2>4
    <3>2. ~back /\ from # Tree BY <3>1 DEF KeyRange
    <3>3. t = b /\ p = from BY <1>9, <1>11, <1>12, <3>2 DEF FirstOf
    <3> QED BY <2>1, <3>1, <3>3 DEF KeyRange, Keyed
  <2> QED BY <2>3, <2>4 DEF Stops
<1> QED BY <1>21, <1>22, <1>25 DEF Started

\* No loop runs.
Resting(wk, vis, mem) == wk = [at |-> "idle"] /\ vis = << >> /\ mem = << >>

\* A tree with the elements s, and perhaps a loop over it.
Intact(tr, wk, vis, mem, s) ==
  /\ Holds(tr, s)
  /\ \/ Resting(wk, vis, mem)
     \/ \E from, to, back, safe, key, at, p, n, t :
          /\ Walking(wk, s, from, to, back, safe, key, at, p, n, t, vis, mem)
          /\ Stops(s, from, to, back, safe, key, at, p, t, vis, mem)

\* A loop whose bound was lost: it may go on for ever, from node to node.
Strays(wk, s, from, to, back, safe, key, at, p, n) ==
  /\ wk = [at |-> at, from |-> from, to |-> to, back |-> back, safe |-> safe, key |-> key, element |-> p, ptr |-> n]
  /\ at \in {"test", "next"} /\ back \in BOOLEAN /\ safe \in BOOLEAN
  /\ safe => n \in NodesOf(s)
  /\ at = "test" \/ ~safe => p \in NodesOf(s)
  /\ at = "test" /\ safe /\ n = p => p = Tree

Stray(tr, wk, s) ==
  /\ Holds(tr, s)
  /\ \/ wk = [at |-> "fault"]
     \/ \E from, to, back, safe, key, at, p, n : Strays(wk, s, from, to, back, safe, key, at, p, n)

\* The list of a tree that is emptied: its head is in a ring of its own, the
\* elements behind element k of s still point at their successors, the others
\* are in no list.
Emptied(hp, s, k) ==
  /\ hp \in [next : Links({Tree}, Element), prev : Links({Tree}, Element)]
  /\ hp.next[Tree] = Tree /\ hp.prev[Tree] = Tree
  /\ \A i \in (k + 1)..Len(s) : hp.next[s[i]] = Spot(Tree, s, i + 1)
  /\ \A e \in Element : (\A i \in (k + 1)..Len(s) : s[i] # e) => hp.next[e] = hp.prev[e] /\ hp.next[e] \in {NULL, e}

\* The tree had the elements s, the first k of which were freed.
Clearing(tr, wk, vis, mem, s, k) ==
  /\ s \in Seq(Element) /\ Distinct(s) /\ k \in 0..Len(s)
  /\ mem = s /\ vis = SubSeq(s, 1, k)
  /\ tr = [heap |-> tr.heap, count |-> Len(s) - k, root |-> FALSE] /\ Emptied(tr.heap, s, k)
  /\ wk = [at |-> "clear", element |-> Spot(Tree, s, k + 1), ptr |-> Spot(Tree, s, k + 2)]

\* The invariant of a tree and the loop over it.
AvlInv ==
  \/ lost = FALSE /\ \E s : Intact(tree, walk, seen, within, s)
  \/ lost = FALSE /\ \E s, k : Clearing(tree, walk, seen, within, s, k)
  \/ lost = TRUE /\ \E s : Stray(tree, walk, s)

(* Which part of the invariant holds. *)
LEMMA AvlInvOpens ==
  ASSUME AvlInv
  PROVE  /\ walk.at = "idle" => lost = FALSE /\ \E s : Holds(tree, s) /\ Resting(walk, seen, within)
         /\ walk.at \in {"test", "next"} /\ lost = FALSE => \E s, from, to, back, safe, key, p, n, t :
              /\ Holds(tree, s) /\ Walking(walk, s, from, to, back, safe, key, walk.at, p, n, t, seen, within)
              /\ Stops(s, from, to, back, safe, key, walk.at, p, t, seen, within)
         /\ walk.at \in {"test", "next"} /\ lost = TRUE => \E s, from, to, back, safe, key, p, n :
              Holds(tree, s) /\ Strays(walk, s, from, to, back, safe, key, walk.at, p, n)
         /\ walk.at = "clear" => lost = FALSE /\ \E s, k : Clearing(tree, walk, seen, within, s, k)
         /\ walk.at = "fault" => lost = TRUE
         /\ walk.at # "clear" => \E s : Holds(tree, s)
         /\ walk.at \in {"idle", "test", "next", "clear", "fault"} /\ lost \in BOOLEAN
<1>1. CASE lost = FALSE /\ \E s : Intact(tree, walk, seen, within, s)
  <2>1. PICK s : Intact(tree, walk, seen, within, s) BY <1>1
  <2>2. CASE Resting(walk, seen, within)
    <3>1. walk.at = "idle" BY <2>2 DEF Resting
    <3> QED BY <1>1, <2>1, <2>2, <3>1 DEF Intact
  <2>3. CASE \E from, to, back, safe, key, at, p, n, t :
               /\ Walking(walk, s, from, to, back, safe, key, at, p, n, t, seen, within)
               /\ Stops(s, from, to, back, safe, key, at, p, t, seen, within)
    <3>1. PICK from, to, back, safe, key, at, p, n, t :
            /\ Walking(walk, s, from, to, back, safe, key, at, p, n, t, seen, within)
            /\ Stops(s, from, to, back, safe, key, at, p, t, seen, within)
      BY <2>3
    <3>2. walk.at = at /\ at \in {"test", "next"} BY <3>1 DEF Walking
    <3>3. /\ Walking(walk, s, from, to, back, safe, key, walk.at, p, n, t, seen, within)
          /\ Stops(s, from, to, back, safe, key, walk.at, p, t, seen, within)
      BY <3>1, <3>2
    <3>4. Holds(tree, s) BY <2>1 DEF Intact
    <3> QED BY <1>1, <3>2, <3>3, <3>4
  <2> QED BY <2>1, <2>2, <2>3 DEF Intact
<1>2. CASE lost = FALSE /\ \E s, k : Clearing(tree, walk, seen, within, s, k)
  <2>1. PICK s, k : Clearing(tree, walk, seen, within, s, k) BY <1>2
  <2>2. walk.at = "clear" BY <2>1 DEF Clearing
  <2> QED BY <1>2, <2>2
<1>3. CASE lost = TRUE /\ \E s : Stray(tree, walk, s)
  <2>1. PICK s : Stray(tree, walk, s) BY <1>3
  <2>2. Holds(tree, s) BY <2>1 DEF Stray
  <2>3. CASE walk = [at |-> "fault"]
    <3>1. walk.at = "fault" BY <2>3
    <3> QED BY <1>3, <2>2, <3>1
  <2>4. CASE \E from, to, back, safe, key, at, p, n : Strays(walk, s, from, to, back, safe, key, at, p, n)
    <3>1. PICK from, to, back, safe, key, at, p, n : Strays(walk, s, from, to, back, safe, key, at, p, n) BY <2>4
    <3>2. walk.at = at /\ at \in {"test", "next"} BY <3>1 DEF Strays
    <3>3. Strays(walk, s, from, to, back, safe, key, walk.at, p, n) BY <3>1, <3>2
    <3> QED BY <1>3, <2>2, <3>2, <3>3
  <2> QED BY <2>1, <2>3, <2>4 DEF Stray
<1> QED BY <1>1, <1>2, <1>3 DEF AvlInv

(* The invariant, from its parts. *)
LEMMA RestingKept ==
  ASSUME NEW tr, NEW s, Holds(tr, s), tree' = tr, walk' = [at |-> "idle"], seen' = << >>, within' = << >>, lost' = FALSE
  PROVE  AvlInv'
<1>1. Intact(tr, walk', seen', within', s) BY DEF Intact, Resting
<1> QED BY <1>1 DEF AvlInv

(* And with a loop. *)
LEMMA WalkingKept ==
  ASSUME NEW tr, NEW s, Holds(tr, s), NEW wk, NEW vis, NEW mem,
         tree' = tr, walk' = wk, seen' = vis, within' = mem, lost' = FALSE,
         NEW from, NEW to, NEW back, NEW safe, NEW key, NEW at, NEW p, NEW n, NEW t,
         Walking(wk, s, from, to, back, safe, key, at, p, n, t, vis, mem),
         Stops(s, from, to, back, safe, key, at, p, t, vis, mem)
  PROVE  AvlInv'
<1>1. Intact(tr, wk, vis, mem, s) BY DEF Intact
<1> QED BY <1>1 DEF AvlInv

(* And with a loop that has lost its bound. *)
LEMMA StrayKept ==
  ASSUME NEW tr, NEW s, Holds(tr, s), NEW wk, tree' = tr, walk' = wk, lost' = TRUE,
         \/ wk = [at |-> "fault"]
         \/ \E from, to, back, safe, key, at, p, n : Strays(wk, s, from, to, back, safe, key, at, p, n)
  PROVE  AvlInv'
<1>1. Stray(tr, wk, s) BY DEF Stray
<1> QED BY <1>1 DEF AvlInv

(* And while the tree is emptied. *)
LEMMA ClearingKept ==
  ASSUME NEW tr, NEW wk, NEW vis, NEW mem, tree' = tr, walk' = wk, seen' = vis, within' = mem, lost' = FALSE,
         NEW s, NEW k, Clearing(tr, wk, vis, mem, s, k)
  PROVE  AvlInv'
BY DEF AvlInv

(* An empty ring. *)
LEMMA RingIsEmpty ==
  ASSUME NEW hp \in [next : Links({Tree}, Element), prev : Links({Tree}, Element)],
         hp.next[Tree] = Tree, hp.prev[Tree] = Tree,
         \A e \in Element : hp.next[e] = hp.prev[e] /\ hp.next[e] \in {NULL, e}
  PROVE  OneRing(hp, << >>)
<1>1. PICK q : q = [h \in {Tree} |-> << >>] OBVIOUS
<1>2. IsFiniteSet({Tree} \cup Element)
  <2>1. IsFiniteSet({Tree}) BY FS_Singleton
  <2> QED BY <2>1, AvlAssumption, FS_Union
<1>3. {Tree} \cap Element = {} /\ NULL \notin {Tree} \cup Element BY AvlAssumption DEF Node
<1>4. q \in [{Tree} -> Seq(Element)] /\ q[Tree] = << >> BY <1>1
<1>5. Len(q[Tree]) = 0 BY <1>4
<1>6. \A i \in 0..0 : Spot(Tree, q[Tree], i) = Tree /\ Spot(Tree, q[Tree], i + 1) = Tree BY <1>5 DEF Spot
<1>7. \A h \in {Tree} : \A i \in 0..Len(q[h]) :
        /\ hp.next[Spot(h, q[h], i)] = Spot(h, q[h], i + 1)
        /\ hp.prev[Spot(h, q[h], i + 1)] = Spot(h, q[h], i)
  BY <1>5, <1>6
<1>8. \A g, h \in {Tree} : \A i \in 1..Len(q[g]), j \in 1..Len(q[h]) : q[g][i] = q[h][j] => g = h /\ i = j
  BY <1>5
<1>9. \A h \in {Tree} \ {Tree} : q[h] = << >> /\ hp.next[h] \in Element OBVIOUS
<1>10. \A e \in Element : Absent({Tree}, q, e) => hp.next[e] = hp.prev[e] /\ hp.next[e] \in {NULL, e} OBVIOUS
<1>11. {Tree} \subseteq {Tree} OBVIOUS
<1> QED BY <1>1, <1>2, <1>3, <1>4, <1>7, <1>8, <1>9, <1>10, <1>11 DEF Rings, OneRing

(* An empty tree. *)
LEMMA HoldsNothing ==
  ASSUME NEW tr, NEW hp, OneRing(hp, << >>), tr = [heap |-> hp, count |-> 0, root |-> FALSE]
  PROVE  Holds(tr, << >>)
<1>1. tr.heap = hp OBVIOUS
<1>2. << >> \in Seq(Element) /\ Len(<< >>) = 0 OBVIOUS
<1>3. Sorted(<< >>) BY <1>2 DEF Sorted
<1>4. (<< >> # << >>) = FALSE OBVIOUS
<1>5. tr = [heap |-> tr.heap, count |-> Len(<< >>), root |-> << >> # << >>] BY <1>1, <1>2, <1>4
<1> QED BY <1>1, <1>2, <1>3, <1>5 DEF Holds

(* AVL_TREE_INIT makes one. *)
LEMMA AvlInitSound == AvlInit => AvlInv
<1> SUFFICES ASSUME AvlInit PROVE AvlInv OBVIOUS
<1>1. PICK z : z = Zeroed(Node) OBVIOUS
<1>2. PICK S, T : S = {Tree} \cup Element /\ T = {Tree} \cup Element \cup {NULL} OBVIOUS
<1>3. S = Node BY <1>2 DEF Node
<1>4. z = [next |-> [x \in S |-> NULL], prev |-> [x \in S |-> NULL]] BY <1>1, <1>3 DEF Zeroed
<1>5. [x \in S |-> NULL] \in [S -> T] BY <1>2
<1>6. z \in [next : [S -> T], prev : [S -> T]] BY <1>4, <1>5
<1>7. PICK hp : hp = INIT_LIST_HEAD(z, Tree) OBVIOUS
<1>8. Tree \in S /\ Tree \in T BY <1>2
<1>9. IsInit(S, T, z, hp, Tree) BY <1>6, <1>7, <1>8, InitIs
<1>10. hp \in [next : Links({Tree}, Element), prev : Links({Tree}, Element)] BY <1>2, <1>9 DEF IsInit, Links
<1>11. hp.next[Tree] = Tree /\ hp.prev[Tree] = Tree BY <1>8, <1>9 DEF IsInit
<1>12. ASSUME NEW e \in Element PROVE hp.next[e] = hp.prev[e] /\ hp.next[e] \in {NULL, e}
  <2>1. e # Tree /\ e \in S BY <1>2, AvlAssumption
  <2>2. z.next[e] = NULL /\ z.prev[e] = NULL BY <1>4, <2>1
  <2> QED BY <1>9, <2>1, <2>2 DEF IsInit
<1>13. OneRing(hp, << >>) BY <1>10, <1>11, <1>12, RingIsEmpty
<1>14. PICK tr : tr = [heap |-> hp, count |-> 0, root |-> FALSE] OBVIOUS
<1>15. Holds(tr, << >>) BY <1>13, <1>14, HoldsNothing
<1>16. tree = tr /\ walk = [at |-> "idle"] /\ seen = << >> /\ within = << >> /\ lost = FALSE BY <1>1, <1>7, <1>14 DEF AvlInit
<1>17. Intact(tree, walk, seen, within, << >>) BY <1>15, <1>16 DEF Intact, Resting
<1> QED BY <1>16, <1>17 DEF AvlInv

\* What an insertion does to a tree with the elements s.
Inserts(s, e, k, tr) == s \in Seq(Element) /\ Lacks(s, e) /\ InsertedAt(s, e, k) /\ k \in 0..Len(s) /\ Holds(tr, Ins(s, k, e))

\* Gap k is the one between the bound of a loop and the pointer it has saved.
Straddles(s, k, from, to, back, safe, n, t) ==
  /\ safe /\ (IF back THEN from ELSE to) # Tree
  /\ TurnedGap(Len(s), k, back) = t /\ n = Spot(Tree, Oriented(s, back), t + 1)

(* What a loop and its saved pointer see of an insertion at gap k. *)
LEMMA PartsIs ==
  ASSUME NEW s, Holds(tree, s), NEW tr, NEW e \in Element, NEW k, Inserts(s, e, k, tr),
         NEW from, NEW to, NEW back, NEW safe, NEW key, NEW p, NEW n, NEW t,
         Walking(walk, s, from, to, back, safe, key, "next", p, n, t, seen, within),
         Straddles(s, k, from, to, back, safe, n, t)
  PROVE  Parts(tr)
<1>0. PICK b : /\ b = IF back THEN from ELSE to
               /\ safe /\ b # Tree /\ TurnedGap(Len(s), k, back) = t /\ n = Spot(Tree, Oriented(s, back), t + 1)
  BY DEF Straddles
<1>30. Lacks(s, e) /\ k \in 0..Len(s) /\ Holds(tr, Ins(s, k, e)) BY DEF Inserts
<1>1. back \in BOOLEAN /\ safe = TRUE BY <1>0 DEF Walking
<1>2. /\ walk.at = "next" /\ walk.back = back /\ walk.safe = safe /\ walk.ptr = n
      /\ walk.from = from /\ walk.to = to
  BY DEF Walking
<1>3. BoundOf = b BY <1>0, <1>2 DEF BoundOf
<1>4. PICK S, m, s2 : S = Oriented(s, back) /\ m = Len(s) /\ s2 = Ins(s, k, e) OBVIOUS
<1>5. PICK hp, hp2 : hp = tree.heap /\ hp2 = tr.heap OBVIOUS
<1>6. s \in Seq(Element) /\ m \in Nat /\ OneRing(hp, s) /\ OneRing(hp2, s2) BY <1>4, <1>5, <1>30 DEF Holds
<1>7. Followed(hp, Element, Tree, s, back, S) BY <1>1, <1>4, <1>6, RingIsFollowed
<1>8. S \in Seq(Element) /\ Len(S) = m BY <1>4, <1>7 DEF Followed, IsOriented
<1>9. \A i \in 0..m : Toward(hp, back)[Spot(Tree, S, i)] = Spot(Tree, S, i + 1) BY <1>7, <1>8 DEF Followed
<1>10. BoundAt(S, t, b) BY <1>0, <1>4 DEF Walking
<1>11. t \in 1..m /\ S[t] = b BY <1>0, <1>8, <1>10 DEF BoundAt
<1>12. Spot(Tree, S, t) = b BY <1>8, <1>11 DEF Spot
<1>13. Toward(hp, back)[b] = n
  <2>1. t \in 0..m BY <1>11
  <2> QED BY <1>0, <1>4, <1>9, <1>12, <2>1
<1>14. PICK S2 : S2 = Ins(S, t, e) OBVIOUS
<1>15. Oriented(s2, back) = S2
  <2>1. MayInsert(Element, s, k, e, m) BY <1>4, <1>6, <1>30 DEF MayInsert
  <2>2. TurnedGap(m, k, back) = t BY <1>0, <1>4
  <2> QED BY <1>1, <1>4, <1>14, <2>1, <2>2, OrientedIns
<1>16. Followed(hp2, Element, Tree, s2, back, S2) BY <1>1, <1>6, <1>15, RingIsFollowed
<1>17. Len(S2) = m + 1
  <2>1. MayInsert(Element, S, t, e, m) BY <1>6, <1>8, <1>11 DEF MayInsert
  <2> QED BY <1>14, <2>1, InsSpots
<1>18. \A i \in 1..(m + 1) : S2[i] = IF i <= t THEN S[i] ELSE IF i = t + 1 THEN e ELSE S[i - 1]
  BY <1>8, <1>14, <1>17 DEF Ins
<1>19. Spot(Tree, S2, t) = b /\ Spot(Tree, S2, t + 1) = e
  <2>1. t \in 1..(m + 1) /\ t <= t /\ t + 1 \in 1..(m + 1) /\ ~(t + 1 <= t) BY <1>6, <1>11
  <2>2. S2[t] = b /\ S2[t + 1] = e BY <1>11, <1>18, <2>1
  <2> QED BY <1>17, <2>1, <2>2 DEF Spot
<1>20. Toward(hp2, back)[b] = e
  <2>1. t \in 0..(m + 1) BY <1>6, <1>11
  <2> QED BY <1>16, <1>17, <1>19, <2>1 DEF Followed
<1>21. e # n
  <2>1. n \in NodesOf(S) BY <1>0, <1>4, SpotIsNode
  <2>2. n \in NodesOf(s) BY <1>1, <1>4, <1>6, <2>1, NodesTurned
  <2>3. e \notin NodesOf(s) BY <1>30, AvlAssumption DEF NodesOf, Lacks
  <2> QED BY <2>2, <2>3
<1>22. Ahead(tree) = Toward(hp, back) /\ Ahead(tr) = Toward(hp2, back) BY <1>2, <1>5 DEF Ahead, Toward
<1> QED BY <1>0, <1>1, <1>2, <1>3, <1>13, <1>20, <1>21, <1>22 DEF Parts

(* A loop gets another element and keeps its bound, or loses it. *)
LEMMA InsertWhileWalking ==
  ASSUME NEW s, Holds(tree, s), NEW tr, NEW e \in Element, NEW k, Inserts(s, e, k, tr),
         NEW wk, NEW vis, NEW mem, wk = walk, vis = seen, mem = within, Lacks(vis, e),
         NEW from, NEW to, NEW back, NEW safe, NEW key, NEW p, NEW n, NEW t,
         Walking(wk, s, from, to, back, safe, key, "next", p, n, t, vis, mem),
         Stops(s, from, to, back, safe, key, "next", p, t, vis, mem),
         tree' = tr, walk' = Relooked(tr), seen' = vis, within' = mem, lost' = Parts(tr)
  PROVE  AvlInv'
<1>1. PICK s2 : s2 = Ins(s, k, e) OBVIOUS
<1>2. /\ s \in Seq(Element) /\ Lacks(s, e) /\ InsertedAt(s, e, k) /\ k \in 0..Len(s) /\ Holds(tr, s2)
  BY <1>1 DEF Inserts
<1>3. wk.at = "next" /\ wk.key = key /\ wk.safe = safe /\ safe \in BOOLEAN /\ back \in BOOLEAN BY DEF Walking
<1>4. PICK b : b = IF back THEN from ELSE to OBVIOUS
<1>5. CASE key # NULL
  <2>1. Keyed(s, to, back, safe, key, p, t, vis) BY <1>5 DEF Stops
  <2>2. PICK t2 \in 1..Len(s2) :
          /\ Walking([wk EXCEPT !.to = s2[t2]], s2, from, s2[t2], back, safe, key, "next", p, n, t2, vis, mem)
          /\ Keyed(s2, s2[t2], back, safe, key, p, t2, vis)
    BY <1>1, <1>2, <2>1, KeyedGrows
  <2>3. PICK to2 : to2 = s2[t2] OBVIOUS
  <2>4. avl_find_le_element(tr, key) = to2
    <3>1. \A i \in 1..Len(s2) : KeyOf[s2[i]] <= key <=> i <= t2 BY <2>2 DEF Keyed
    <3> QED BY <1>2, <2>3, <3>1, FindsBound
  <2>5. walk' = [wk EXCEPT !.to = to2] BY <1>3, <1>5, <2>4 DEF Relooked
  <2>6. lost' = FALSE
    <3>1. ~safe BY <2>1 DEF Keyed
    <3>2. ~walk.safe BY <1>3, <3>1
    <3>3. Parts(tr) = FALSE BY <3>2 DEF Parts
    <3> QED BY <3>3
  <2>7. PICK wk2 : wk2 = [wk EXCEPT !.to = to2] OBVIOUS
  <2>8. Walking(wk2, s2, from, to2, back, safe, key, "next", p, n, t2, vis, mem) BY <2>2, <2>3, <2>7
  <2>9. Stops(s2, from, to2, back, safe, key, "next", p, t2, vis, mem) BY <1>5, <2>2, <2>3 DEF Stops
  <2>10. walk' = wk2 BY <2>5, <2>7
  <2> QED BY <1>2, <2>6, <2>8, <2>9, <2>10, WalkingKept
<1>6. CASE key = NULL /\ Parts(tr)
  <2>1. walk' = wk BY <1>3, <1>6 DEF Relooked
  <2>2. safe BY <1>3, <1>6 DEF Parts
  <2>3. n \in NodesOf(s)
    <3>1. Distinct(s)
      <4>1. PICK hp : Chained(hp, s) BY TreeIsRead
      <4> QED BY <4>1 DEF Chained
    <3> QED BY <1>2, <2>2, <3>1, SavedIsNode
  <2>4. n \in NodesOf(s2) BY <1>1, <1>2, <2>3, NodesChange
  <2>5. Strays(wk, s2, from, to, back, safe, key, "next", p, n) BY <2>2, <2>4 DEF Strays, Walking
  <2>6. lost' = TRUE
    <3>1. Parts(tr) = TRUE BY <1>6 DEF Parts
    <3> QED BY <3>1
  <2> QED BY <1>2, <2>1, <2>5, <2>6, StrayKept
<1>7. CASE key = NULL /\ ~Parts(tr)
  <2>1. walk' = wk BY <1>3, <1>7 DEF Relooked
  <2>2. ASSUME safe, b # Tree, TurnedGap(Len(s), k, back) = t, n = Spot(Tree, Oriented(s, back), t + 1) PROVE FALSE
    <3>1. Walking(walk, s, from, to, back, safe, key, "next", p, n, t, seen, within) OBVIOUS
    <3>2. Straddles(s, k, from, to, back, safe, n, t) BY <1>4, <2>2 DEF Straddles
    <3>3. Parts(tr) BY <3>1, <3>2, PartsIs, Zenon
    <3> QED BY <1>7, <3>3
  <2>3. PICK t2 : Walking(wk, s2, from, to, back, safe, key, "next", p, n, t2, vis, mem)
    BY <1>1, <1>2, <1>4, <2>2, WalkingGrows
  <2>4. Stops(s2, from, to, back, safe, key, "next", p, t2, vis, mem)
    <3>1. Bounded(Oriented(s, back), b, "next", p, t, vis, mem) BY <1>4, <1>7 DEF Stops
    <3>2. Bounded(Oriented(s2, back), b, "next", p, t2, vis, mem) BY <3>1 DEF Bounded
    <3> QED BY <1>4, <1>7, <3>2 DEF Stops
  <2>5. lost' = FALSE
    <3>1. Parts(tr) = FALSE BY <1>7 DEF Parts
    <3> QED BY <3>1
  <2> QED BY <1>2, <2>1, <2>3, <2>4, <2>5, WalkingKept
<1> QED BY <1>5, <1>6, <1>7

(* Something is inserted into the tree. *)
LEMMA InsertKeeps == ASSUME AvlInv, Insert PROVE AvlInv'
<1>1. PICK e \in Element \ (InTree \cup Range(seen)) :
        /\ walk.at \in {"idle", "next"}
        /\ tree' = Inserted(tree, e)
        /\ walk' = Relooked(tree')
        /\ lost' = (lost \/ Parts(tree'))
        /\ UNCHANGED <<seen, within>>
  BY DEF Insert
<1>2. PICK tr, wk, vis, mem : tr = tree' /\ wk = walk /\ vis = seen /\ mem = within OBVIOUS
<1>3. walk' = Relooked(tr) /\ lost' = (lost \/ Parts(tr)) /\ seen' = vis /\ within' = mem /\ tree' = tr BY <1>1, <1>2
<1>4. ASSUME NEW s, Holds(tree, s) PROVE \E k : Inserts(s, e, k, tr)
  <2>1. s \in Seq(Element) /\ InTree = {s[i] : i \in 1..Len(s)} BY <1>4, TreeIsRead
  <2>2. Lacks(s, e) BY <1>1, <2>1 DEF Lacks
  <2>3. PICK tr0 : tr0 = tree OBVIOUS
  <2>4. Holds(tr0, s) BY <1>4, <2>3
  <2>5. PICK k : InsertedAt(s, e, k) /\ Inserted(tr0, e) = Grown(tr0.heap, s, k, e) BY <1>1, <2>4, InsertedIs
  <2>6. Holds(Grown(tr0.heap, s, k, e), Ins(s, k, e)) BY <1>1, <2>2, <2>4, <2>5, HoldsMore
  <2>7. Holds(tr, Ins(s, k, e)) BY <1>1, <1>2, <2>3, <2>5, <2>6
  <2>8. k \in 0..Len(s) BY <2>5 DEF InsertedAt
  <2> QED BY <2>1, <2>2, <2>5, <2>7, <2>8 DEF Inserts
<1>5. CASE walk.at = "idle"
  <2>1. lost = FALSE /\ \E s : Holds(tree, s) /\ Resting(walk, seen, within) BY <1>5, AvlInvOpens
  <2>2. PICK s : Holds(tree, s) /\ Resting(walk, seen, within) BY <2>1
  <2>3. PICK k : Inserts(s, e, k, tr) BY <1>4, <2>2
  <2>4. PICK s2 : s2 = Ins(s, k, e) /\ Holds(tr, s2) BY <2>3 DEF Inserts
  <2>5. walk' = walk BY <1>3, <1>5 DEF Relooked
  <2>6. walk' = [at |-> "idle"] /\ seen' = << >> /\ within' = << >> BY <1>2, <1>3, <2>2, <2>5 DEF Resting
  <2>7. lost' = FALSE
    <3>1. Parts(tr) = FALSE BY <1>5 DEF Parts
    <3> QED BY <1>3, <2>1, <3>1
  <2> QED BY <1>3, <2>4, <2>6, <2>7, RestingKept
<1>6. CASE walk.at = "next" /\ lost = FALSE
  <2>1. PICK s, from, to, back, safe, key, p, n, t :
          /\ Holds(tree, s) /\ Walking(walk, s, from, to, back, safe, key, walk.at, p, n, t, seen, within)
          /\ Stops(s, from, to, back, safe, key, walk.at, p, t, seen, within)
    BY <1>6, AvlInvOpens
  <2>2. /\ Walking(wk, s, from, to, back, safe, key, "next", p, n, t, vis, mem)
        /\ Stops(s, from, to, back, safe, key, "next", p, t, vis, mem)
    BY <1>2, <1>6, <2>1
  <2>3. PICK k : Inserts(s, e, k, tr) BY <1>4, <2>1
  <2>4. Lacks(vis, e)
    <3>1. vis \in Seq(Element)
      <4>1. safe \in BOOLEAN /\ Turn(Element, Tree, Oriented(s, back), t, "next", safe, p, n, vis, mem) BY <2>2 DEF Walking
      <4> QED BY <4>1, TurnIsExact
    <3>2. \A i \in 1..Len(vis) : vis[i] \in Range(vis) BY <3>1 DEF Range
    <3> QED BY <1>1, <1>2, <3>2 DEF Lacks
  <2>5. lost' = Parts(tr)
    <3>1. Parts(tr) \in BOOLEAN BY DEF Parts
    <3> QED BY <1>3, <1>6, <3>1
  <2> QED BY <1>1, <1>2, <1>3, <2>1, <2>2, <2>3, <2>4, <2>5, InsertWhileWalking
<1>7. CASE walk.at = "next" /\ lost = TRUE
  <2>1. PICK s, from, to, back, safe, key, p, n :
          Holds(tree, s) /\ Strays(walk, s, from, to, back, safe, key, walk.at, p, n)
    BY <1>7, AvlInvOpens
  <2>2. PICK k : Inserts(s, e, k, tr) BY <1>4, <2>1
  <2>3. PICK s2 : s2 = Ins(s, k, e) /\ Holds(tr, s2) /\ s \in Seq(Element) /\ k \in 0..Len(s) BY <2>2 DEF Inserts
  <2>4. \A x \in NodesOf(s) : x \in NodesOf(s2) BY <1>1, <2>3, NodesChange
  <2>5. wk = [at |-> "next", from |-> from, to |-> to, back |-> back, safe |-> safe, key |-> key, element |-> p, ptr |-> n]
    BY <1>2, <1>7, <2>1 DEF Strays
  <2>6. PICK to2 : walk' = [at |-> "next", from |-> from, to |-> to2, back |-> back, safe |-> safe, key |-> key,
                            element |-> p, ptr |-> n]
    <3>1. PICK bk, sf : bk = back /\ sf = safe OBVIOUS
    <3>2. wk = [at |-> "next", from |-> from, to |-> to, back |-> bk, safe |-> sf, key |-> key, element |-> p, ptr |-> n]
      BY <2>5, <3>1, Zenon
    <3>3. \A x : [wk EXCEPT !.to = x]
            = [at |-> "next", from |-> from, to |-> x, back |-> bk, safe |-> sf, key |-> key, element |-> p, ptr |-> n]
      BY <3>2
    <3>4. walk' = wk \/ \E x : walk' = [wk EXCEPT !.to = x] BY <1>2, <1>3 DEF Relooked
    <3>5. CASE walk' = wk BY <2>5, <3>5
    <3>6. CASE \E x : walk' = [wk EXCEPT !.to = x] BY <3>1, <3>3, <3>6, Zenon
    <3> QED BY <3>4, <3>5, <3>6
  <2>7. PICK wk2 : wk2 = [at |-> "next", from |-> from, to |-> to2, back |-> back, safe |-> safe, key |-> key,
                          element |-> p, ptr |-> n]
    OBVIOUS
  <2>8. Strays(wk2, s2, from, to2, back, safe, key, "next", p, n) BY <1>7, <2>1, <2>4, <2>7 DEF Strays
  <2>9. lost' = TRUE BY <1>3, <1>7
  <2> QED BY <1>3, <2>3, <2>6, <2>7, <2>8, <2>9, StrayKept
<1> QED BY <1>1, <1>5, <1>6, <1>7, AvlInvOpens

(* An element of a tree that nobody loops over is deleted. *)
LEMMA DeleteKeeps == ASSUME AvlInv, Delete PROVE AvlInv'
<1>1. PICK e \in InTree : walk.at = "idle" /\ tree' = Deleted(tree, e) /\ UNCHANGED <<walk, seen, within, lost>> BY DEF Delete
<1>2. lost = FALSE /\ \E s : Holds(tree, s) /\ Resting(walk, seen, within) BY <1>1, AvlInvOpens
<1>8. PICK s : Holds(tree, s) /\ Resting(walk, seen, within) BY <1>2
<1>3. PICK k \in 1..Len(s) : e = s[k] BY <1>1, <1>8, TreeIsRead
<1>4. PICK tr : tr = tree OBVIOUS
<1>5. PICK tr2, s2 : tr2 = Deleted(tr, e) /\ s2 = Del(s, k) OBVIOUS
<1>6. Holds(tr2, s2) BY <1>3, <1>4, <1>5, <1>8, HoldsLess
<1>7. tree' = tr2 /\ walk' = [at |-> "idle"] /\ seen' = << >> /\ within' = << >> /\ lost' = FALSE BY <1>1, <1>2, <1>4, <1>5, <1>8 DEF Resting
<1> QED BY <1>6, <1>7, RestingKept

(* A loop starts over the tree. *)
LEMMA StartedKeeps ==
  ASSUME NEW s, Holds(tree, s), NEW from, NEW to, NEW a, NEW b, RangeIs(s, from, to, a, b),
         NEW back \in BOOLEAN, NEW safe \in BOOLEAN, NEW key, StartRange(from, to, back, safe, key),
         key # NULL => KeyRange(s, from, to, back, safe, key, b)
  PROVE  AvlInv'
<1>1. Started(s, from, to, back, safe, key) BY RangeStarts
<1>2. PICK wk, vis, tr : wk = walk' /\ vis = << >> /\ tr = tree OBVIOUS
<1>3. PICK p, n, t, mem : /\ within' = mem /\ seen' = vis /\ tree' = tr /\ lost' = FALSE
                          /\ Stops(s, from, to, back, safe, key, "test", p, t, vis, mem)
                          /\ Walking(wk, s, from, to, back, safe, key, "test", p, n, t, vis, mem)
  BY <1>1, <1>2 DEF Started
<1> QED BY <1>2, <1>3, WalkingKept

(* The loops of avl.h start. *)
LEMMA StartLoopKeeps == ASSUME AvlInv, StartLoop PROVE AvlInv'
<1>1. PICK from \in InTree \cup {Tree}, to \in InTree \cup {Tree}, back \in BOOLEAN, safe \in BOOLEAN :
        /\ walk.at = "idle"
        /\ (from # Tree /\ to # Tree) => Index(from) <= Index(to)
        /\ StartRange(from, to, back, safe, NULL)
  BY DEF StartLoop
<1>2. PICK s : Holds(tree, s) BY <1>1, AvlInvOpens
<1>3. PICK m \in Nat : m = Len(s) BY <1>2, TreeIsRead
<1>4. InTree = {s[i] : i \in 1..m} BY <1>2, <1>3, TreeIsRead
<1>5. ASSUME NEW x \in InTree PROVE Index(x) \in 1..m /\ s[Index(x)] = x
  <2>1. PICK i \in 1..m : x = s[i] BY <1>4
  <2>2. i \in 1..Len(s) BY <1>3
  <2>3. Index(s[i]) = i BY <1>2, <2>2, IndexIs
  <2> QED BY <2>1, <2>3
<1>6. PICK a : a = IF from = Tree THEN 1 ELSE Index(from) OBVIOUS
<1>7. PICK b : b = IF to = Tree THEN m ELSE Index(to) OBVIOUS
<1>8. a \in Int /\ 1 <= a /\ a <= m + 1 /\ (from # Tree => a \in 1..m /\ s[a] = from)
  <2>1. CASE from = Tree BY <1>6, <2>1
  <2>2. CASE from # Tree
    <3>1. from \in InTree /\ a = Index(from) BY <1>6, <2>2
    <3>2. a \in 1..m /\ s[a] = from BY <1>5, <3>1
    <3> QED BY <3>2
  <2> QED BY <2>1, <2>2
<1>9. b \in Int /\ 0 <= b /\ b <= m /\ (to # Tree => b \in 1..m /\ s[b] = to)
  <2>1. CASE to = Tree BY <1>7, <2>1
  <2>2. CASE to # Tree
    <3>1. to \in InTree /\ b = Index(to) BY <1>7, <2>2
    <3>2. b \in 1..m /\ s[b] = to BY <1>5, <3>1
    <3> QED BY <3>2
  <2> QED BY <2>1, <2>2
<1>10. a - 1 <= b
  <2>1. CASE from = Tree
    <3>1. a = 1 BY <1>6, <2>1
    <3> QED BY <1>9, <3>1
  <2>2. CASE from # Tree /\ to = Tree
    <3>1. b = m BY <1>7, <2>2
    <3> QED BY <1>8, <3>1
  <2>3. CASE from # Tree /\ to # Tree
    <3>1. a <= b BY <1>1, <1>6, <1>7, <2>3
    <3> QED BY <1>8, <1>9, <3>1
  <2> QED BY <2>1, <2>2, <2>3
<1>11. a \in 1..(m + 1) BY <1>8
<1>12. b \in (a - 1)..m BY <1>8, <1>9, <1>10
<1>13. RangeIs(s, from, to, a, b) BY <1>3, <1>6, <1>7, <1>8, <1>9, <1>11, <1>12 DEF RangeIs
<1> QED BY <1>1, <1>2, <1>13, StartedKeeps

(* The loop of acl_for_each starts: its range is empty when the key is      *)
(* between two elements, and it has none when the key is beyond them all.   *)
LEMMA AclStartKeeps == ASSUME AvlInv, acl_for_each PROVE AvlInv'
<1>1. PICK key, from, to :
        /\ key \in Keys /\ from = avl_find_ge_element(tree, key) /\ to = avl_find_le_element(tree, key)
        /\ walk.at = "idle"
        /\ \/ from = NULL /\ Astray([at |-> "fault"])
           \/ from # NULL /\ to # NULL /\ StartRange(from, to, FALSE, FALSE, key)
           \/ from # NULL /\ to = NULL
              /\ Astray([at |-> "test", from |-> from, to |-> to, back |-> FALSE, safe |-> FALSE, key |-> key,
                         element |-> from, ptr |-> next[from]])
  BY DEF acl_for_each
<1>2. PICK s : Holds(tree, s) BY <1>1, AvlInvOpens
<1>3. PICK m \in Nat : m = Len(s) BY <1>2, TreeIsRead
<1>4. s \in Seq(Element) BY <1>2, TreeIsRead
<1>5. PICK tr : tr = tree /\ Holds(tr, s) BY <1>2
<1>6. PICK G, L : G = DownTo(s, key) /\ L = UpTo(s, key) OBVIOUS
<1>7. G = {i \in 1..m : KeyOf[s[i]] >= key} /\ L = {i \in 1..m : KeyOf[s[i]] <= key} BY <1>3, <1>6 DEF DownTo, UpTo
<1>8. PICK a, b : a = Min(G) /\ b = Max(L) OBVIOUS
<1>10. from = (IF G = {} THEN NULL ELSE s[a]) /\ to = (IF L = {} THEN NULL ELSE s[b]) BY <1>1, <1>2, <1>6, <1>8, Finds
<1>9. ASSUME from # NULL PROVE G # {} /\ from = s[a] /\ a \in G /\ a \in 1..m /\ \A i \in G : a <= i
  <2>1. G \in SUBSET Nat BY <1>7
  <2>2. G # {} /\ from = s[a] BY <1>9, <1>10
  <2>3. a \in G /\ \A i \in G : a <= i BY <1>8, <2>1, <2>2, MinIsLeast
  <2> QED BY <1>7, <2>2, <2>3
<1>11. CASE from = NULL
  <2>1. walk' = [at |-> "fault"] /\ lost' = TRUE /\ tree' = tr BY <1>1, <1>5, <1>11 DEF Astray
  <2> QED BY <1>5, <2>1, StrayKept
<1>12. CASE from # NULL /\ to = NULL
  <2>1. PICK y : y = next[from] OBVIOUS
  <2>2. PICK wk : wk = [at |-> "test", from |-> from, to |-> to, back |-> FALSE, safe |-> FALSE, key |-> key,
                        element |-> from, ptr |-> y]
    OBVIOUS
  <2>3. walk' = wk /\ lost' = TRUE /\ tree' = tr BY <1>1, <1>5, <1>12, <2>1, <2>2 DEF Astray
  <2>4. from \in NodesOf(s) BY <1>3, <1>9, <1>12 DEF NodesOf
  <2>5. Strays(wk, s, from, to, FALSE, FALSE, key, "test", from, y) BY <2>2, <2>4 DEF Strays
  <2> QED BY <1>5, <2>3, <2>5, StrayKept
<1>13. CASE from # NULL /\ to # NULL
  <2>1. G # {} /\ L # {} /\ from = s[a] /\ to = s[b] /\ a \in G /\ a \in 1..m /\ \A i \in G : a <= i BY <1>9, <1>10, <1>13
  <2>2. b \in L /\ \A i \in L : b >= i
    <3>1. L \in SUBSET (1..m) BY <1>7
    <3> QED BY <1>8, <2>1, <3>1, MaxIsGreatest
  <2>3. a \in 1..m /\ b \in 1..m BY <1>7, <2>1, <2>2
  <2>4. from # Tree /\ to # Tree
    <3>1. s[a] \in Element /\ s[b] \in Element BY <1>3, <1>4, <2>3, ElementOfSeq
    <3> QED BY <2>1, <3>1, AvlAssumption
  <2>5. key \in Int /\ \A i \in 1..m : KeyOf[s[i]] \in Int BY <1>1, <1>3, <1>4, KeysAreNumbers
  <2>6. a - 1 <= b
    <3>1. CASE a = 1 BY <2>3, <3>1
    <3>2. CASE a # 1
      <4>1. a - 1 \in 1..m /\ ~(a <= a - 1) BY <2>3, <3>2
      <4>2. ~(KeyOf[s[a - 1]] >= key) BY <1>7, <2>1, <4>1
      <4>3. KeyOf[s[a - 1]] <= key BY <2>5, <4>1, <4>2
      <4>4. a - 1 \in L BY <1>7, <4>1, <4>3
      <4>5. b >= a - 1 BY <2>2, <4>4
      <4> QED BY <2>3, <4>5
    <3> QED BY <3>1, <3>2
  <2>7. a \in 1..(m + 1) BY <2>3
  <2>8. b \in (a - 1)..m BY <2>3, <2>6
  <2>9. RangeIs(s, from, to, a, b) BY <1>3, <2>1, <2>3, <2>4, <2>7, <2>8 DEF RangeIs
  <2>10. ASSUME NEW i \in 1..Len(s) PROVE KeyOf[s[i]] <= key <=> i <= b
    <3>1. i \in 1..m /\ i \in Int BY <1>3
    <3>2. CASE i <= b
      <4>1. KeyOf[s[i]] <= KeyOf[s[b]]
        <5>1. Sorted(s) BY <1>2 DEF Holds
        <5> QED BY <1>3, <2>3, <3>2, <5>1 DEF Sorted
      <4>2. KeyOf[s[b]] <= key BY <1>7, <2>2
      <4>3. KeyOf[s[i]] \in Int /\ KeyOf[s[b]] \in Int BY <2>3, <2>5, <3>1
      <4>4. KeyOf[s[i]] <= key BY <2>5, <4>1, <4>2, <4>3
      <4> QED BY <3>2, <4>4
    <3>3. CASE ~(i <= b)
      <4>1. ~(b >= i) BY <2>3, <3>1, <3>3
      <4>2. i \notin L BY <2>2, <4>1
      <4> QED BY <1>7, <3>1, <3>3, <4>2
    <3> QED BY <3>2, <3>3
  <2>11. KeyOf[from] >= key BY <1>7, <2>1
  <2>12. KeyRange(s, from, to, FALSE, FALSE, key, b) BY <2>4, <2>5, <2>10, <2>11 DEF KeyRange
  <2>13. StartRange(from, to, FALSE, FALSE, key) BY <1>1, <1>13
  <2> QED BY <1>2, <2>9, <2>12, <2>13, StartedKeeps
<1> QED BY <1>11, <1>12, <1>13

(* The body of a loop runs. *)
LEMMA RangeBodyKeeps == ASSUME AvlInv, RangeBody PROVE AvlInv'
<1>1. /\ walk.at = "test" /\ Continues /\ walk.element # Tree
      /\ seen' = Append(seen, walk.element) /\ walk' = [walk EXCEPT !.at = "next"]
      /\ \/ UNCHANGED <<tree, lost>>
         \/ walk.safe /\ tree' = Deleted(tree, walk.element) /\ lost' = (lost \/ walk.element = BoundOf)
      /\ UNCHANGED within
  BY DEF RangeBody
<1>2. PICK tr, wk, vis, mem : tr = tree /\ wk = walk /\ vis = seen /\ mem = within OBVIOUS
<1>3. ASSUME NEW from, NEW to, NEW back, NEW safe, NEW key, NEW p, NEW n,
             wk = [at |-> "test", from |-> from, to |-> to, back |-> back, safe |-> safe, key |-> key, element |-> p, ptr |-> n]
      PROVE  /\ walk' = WentOn(from, to, back, safe, key, p, n)
             /\ walk.element = p /\ walk.safe = safe /\ BoundOf = IF back THEN from ELSE to
  <2>1. wk.element = p /\ wk.back = back /\ wk.safe = safe /\ wk.from = from /\ wk.to = to BY <1>3
  <2>2. walk' = [wk EXCEPT !.at = "next"] BY <1>1, <1>2
  <2>3. walk' = WentOn(from, to, back, safe, key, p, n) BY <1>3, <2>2 DEF WentOn
  <2> QED BY <1>2, <2>1, <2>3 DEF BoundOf
<1>4. CASE lost = FALSE
  <2>0. PICK s, from, to, back, safe, key, p, n, t :
          /\ Holds(tree, s) /\ Walking(walk, s, from, to, back, safe, key, walk.at, p, n, t, seen, within)
          /\ Stops(s, from, to, back, safe, key, walk.at, p, t, seen, within)
    BY <1>1, <1>4, AvlInvOpens
  <2>1. /\ Holds(tree, s) /\ Walking(walk, s, from, to, back, safe, key, "test", p, n, t, seen, within)
        /\ Stops(s, from, to, back, safe, key, "test", p, t, seen, within)
    BY <1>1, <1>4, <2>0
  <2>2. s \in Seq(Element) BY <2>1, TreeIsRead
  <2>3. Continues <=> ~AtEnd(Element, Tree, Oriented(s, back), t, p, seen, within) BY <2>1, ContinuesIs
  <2>4. ~AtEnd(Element, Tree, Oriented(s, back), t, p, vis, mem) BY <1>1, <1>2, <2>3
  <2>5. Walking(wk, s, from, to, back, safe, key, "test", p, n, t, vis, mem) BY <1>2, <2>1
  <2>6. Stops(s, from, to, back, safe, key, "test", p, t, vis, mem) BY <1>2, <2>1
  <2>7. wk = [at |-> "test", from |-> from, to |-> to, back |-> back, safe |-> safe, key |-> key, element |-> p, ptr |-> n]
    BY <2>5 DEF Walking
  <2>8. PICK wk2, vis2 : wk2 = WentOn(from, to, back, safe, key, p, n) /\ vis2 = Append(vis, p) OBVIOUS
  <2>9. PICK b : b = IF back THEN from ELSE to OBVIOUS
  <2>10. walk' = wk2 /\ walk.element = p /\ walk.safe = safe /\ BoundOf = b BY <1>3, <2>7, <2>8, <2>9
  <2>11. seen' = vis2 /\ within' = mem BY <1>1, <1>2, <2>8, <2>10
  <2>12. PICK k \in 1..Len(s) :
           /\ p = s[k] /\ p \in Element
           /\ Walking(wk2, s, from, to, back, safe, key, "next", p, n, t, vis2, mem)
           /\ safe /\ p # b => Walking(wk2, Del(s, k), from, to, back, safe, key, "next", p, n, t - 1, vis2, mem)
    BY <2>2, <2>4, <2>5, <2>8, <2>9, WalkingVisits
  <2>13. Holds(tr, s) BY <1>2, <2>1
  <2>14. CASE UNCHANGED <<tree, lost>>
    <3>1. tree' = tr /\ lost' = FALSE BY <1>2, <1>4, <2>14
    <3>2. Stops(s, from, to, back, safe, key, "next", p, t, vis2, mem) BY <2>4, <2>5, <2>6, <2>8, StopsVisits
    <3> QED BY <2>10, <2>11, <2>12, <2>13, <3>1, <3>2, WalkingKept
  <2>15. CASE walk.safe /\ tree' = Deleted(tree, walk.element) /\ lost' = (lost \/ walk.element = BoundOf)
    <3>1. PICK tr2, s2, t2 : tr2 = Deleted(tr, p) /\ s2 = Del(s, k) /\ t2 = t - 1 OBVIOUS
    <3>2. tree' = tr2 /\ safe BY <1>2, <2>10, <2>15, <3>1
    <3>3. Holds(tr2, s2) BY <2>12, <2>13, <3>1, HoldsLess
    <3>4. CASE p # b
      <4>1. Walking(wk2, s2, from, to, back, safe, key, "next", p, n, t2, vis2, mem) BY <2>12, <3>1, <3>2, <3>4
      <4>2. Stops(s2, from, to, back, safe, key, "next", p, t2, vis2, mem) BY <2>4, <2>5, <2>6, <2>8, <3>2, StopsVisits
      <4>3. lost' = FALSE BY <1>4, <2>10, <2>15, <3>4
      <4> QED BY <2>10, <2>11, <3>2, <3>3, <4>1, <4>2, <4>3, WalkingKept
    <3>5. CASE p = b
      <4>1. lost' = TRUE BY <2>10, <2>15, <3>5
      <4>2. Distinct(s)
        <5>1. PICK hp : Chained(hp, s) BY <2>1, TreeIsRead
        <5> QED BY <5>1 DEF Chained
      <4>3. n \in NodesOf(s) /\ n # p BY <2>2, <2>4, <2>5, <3>2, <4>2, SavedIsNode
      <4>4. n \in NodesOf(s2) BY <2>2, <2>12, <3>1, <4>3, NodesChange
      <4>5. Strays(wk2, s2, from, to, back, safe, key, "next", p, n)
        <5>1. back \in BOOLEAN /\ safe \in BOOLEAN BY <2>5 DEF Walking
        <5> QED BY <2>8, <3>2, <4>4, <5>1 DEF Strays, WentOn
      <4> QED BY <2>10, <3>2, <3>3, <4>1, <4>5, StrayKept
    <3> QED BY <3>4, <3>5
  <2> QED BY <1>1, <2>14, <2>15
<1>5. CASE lost = TRUE
  <2>1. PICK s, from, to, back, safe, key, p, n : Holds(tree, s) /\ Strays(walk, s, from, to, back, safe, key, "test", p, n)
    BY <1>1, <1>5, AvlInvOpens
  <2>2. /\ wk = [at |-> "test", from |-> from, to |-> to, back |-> back, safe |-> safe, key |-> key, element |-> p, ptr |-> n]
        /\ back \in BOOLEAN /\ safe \in BOOLEAN /\ p \in NodesOf(s) /\ (safe => n \in NodesOf(s)) /\ (safe /\ n = p => p = Tree)
    BY <1>2, <2>1 DEF Strays
  <2>3. PICK wk2 : wk2 = WentOn(from, to, back, safe, key, p, n) OBVIOUS
  <2>4. walk' = wk2 /\ walk.element = p /\ walk.safe = safe BY <1>3, <2>2, <2>3
  <2>5. lost' = TRUE BY <1>1, <1>5
  <2>6. Holds(tr, s) /\ s \in Seq(Element) BY <1>2, <2>1, TreeIsRead
  <2>7. CASE UNCHANGED <<tree, lost>>
    <3>1. tree' = tr BY <1>2, <2>7
    <3>2. Strays(wk2, s, from, to, back, safe, key, "next", p, n) BY <2>2, <2>3 DEF Strays, WentOn
    <3> QED BY <2>4, <2>5, <2>6, <3>1, <3>2, StrayKept
  <2>8. CASE walk.safe /\ tree' = Deleted(tree, walk.element)
    <3>1. PICK k \in 1..Len(s) : p = s[k] BY <1>1, <2>2, <2>4 DEF NodesOf
    <3>2. PICK tr2, s2 : tr2 = Deleted(tr, p) /\ s2 = Del(s, k) OBVIOUS
    <3>3. tree' = tr2 /\ safe BY <1>2, <2>4, <2>8, <3>2
    <3>4. Holds(tr2, s2) BY <2>6, <3>1, <3>2, HoldsLess
    <3>5. n \in NodesOf(s) /\ n # p BY <1>1, <2>2, <2>4, <3>3
    <3>6. n \in NodesOf(s2) BY <2>6, <3>1, <3>2, <3>5, NodesChange
    <3>7. Strays(wk2, s2, from, to, back, safe, key, "next", p, n) BY <2>2, <2>3, <3>3, <3>6 DEF Strays, WentOn
    <3> QED BY <2>4, <2>5, <3>3, <3>4, <3>7, StrayKept
  <2> QED BY <1>1, <2>7, <2>8
<1> QED BY <1>4, <1>5, AvlInvOpens

(* Only a loop that has lost its bound is ever at the list head there. *)
LEMMA RangeFaultKeeps == ASSUME AvlInv, RangeFault PROVE AvlInv'
<1>1. walk.at = "test" /\ Continues /\ walk.element = Tree /\ walk' = [at |-> "fault"] /\ tree' = tree /\ lost' = lost
  BY DEF RangeFault
<1>2. CASE lost = FALSE
  <2>0. PICK s, from, to, back, safe, key, p, n, t :
          /\ Holds(tree, s) /\ Walking(walk, s, from, to, back, safe, key, walk.at, p, n, t, seen, within)
          /\ Stops(s, from, to, back, safe, key, walk.at, p, t, seen, within)
    BY <1>1, <1>2, AvlInvOpens
  <2>1. Holds(tree, s) /\ Walking(walk, s, from, to, back, safe, key, "test", p, n, t, seen, within)
    BY <1>1, <2>0
  <2>2. PICK vis, mem : vis = seen /\ mem = within OBVIOUS
  <2>3. ~AtEnd(Element, Tree, Oriented(s, back), t, p, vis, mem) BY <1>1, <2>1, <2>2, ContinuesIs
  <2>4. s \in Seq(Element) BY <2>1, TreeIsRead
  <2>5. PICK wk : wk = walk /\ Walking(wk, s, from, to, back, safe, key, "test", p, n, t, vis, mem) BY <2>1, <2>2
  <2>6. p \in Element BY <2>3, <2>4, <2>5, WalkingVisits
  <2>7. wk.element = p BY <2>5 DEF Walking
  <2> QED BY <1>1, <2>5, <2>6, <2>7, AvlAssumption
<1>3. CASE lost = TRUE
  <2>1. PICK s : Holds(tree, s) BY <1>1, AvlInvOpens
  <2>2. PICK tr : tr = tree /\ Holds(tr, s) BY <2>1
  <2>3. tree' = tr /\ lost' = TRUE BY <1>1, <1>3, <2>2
  <2> QED BY <1>1, <2>2, <2>3, StrayKept
<1> QED BY <1>2, <1>3, AvlInvOpens

(* A loop goes on to the next element. *)
LEMMA RangeNextKeeps == ASSUME AvlInv, RangeNext PROVE AvlInv'
<1>1. PICK e : e = IF walk.safe THEN walk.ptr ELSE IF walk.back THEN prev[walk.element] ELSE next[walk.element] OBVIOUS
<1>2. /\ walk.at = "next"
      /\ walk' = [walk EXCEPT !.at = "test", !.element = e,
                              !.ptr = IF walk.safe THEN (IF walk.back THEN prev[e] ELSE next[e]) ELSE walk.ptr]
      /\ tree' = tree /\ seen' = seen /\ within' = within /\ lost' = lost
  BY <1>1 DEF RangeNext
<1>3. PICK tr, wk, vis, mem : tr = tree /\ wk = walk /\ vis = seen /\ mem = within OBVIOUS
<1>4. PICK hp : hp = tree.heap OBVIOUS
<1>5. ASSUME NEW from, NEW to, NEW back, NEW safe, NEW key, NEW p, NEW n,
             wk = [at |-> "next", from |-> from, to |-> to, back |-> back, safe |-> safe, key |-> key, element |-> p, ptr |-> n],
             NEW n2, n2 = IF safe THEN Toward(hp, back)[e] ELSE n
      PROVE  /\ walk' = [at |-> "test", from |-> from, to |-> to, back |-> back, safe |-> safe, key |-> key,
                         element |-> e, ptr |-> n2]
             /\ e = IF safe THEN n ELSE Toward(hp, back)[p]
  <2>1. wk.element = p /\ wk.back = back /\ wk.safe = safe /\ wk.ptr = n BY <1>5
  <2>2. PICK link : link = Toward(hp, back) OBVIOUS
  <2>3. \A x : link[x] = IF back THEN prev[x] ELSE next[x] BY <1>4, <2>2 DEF Toward, next, prev
  <2>4. e = IF safe THEN n ELSE link[p] BY <1>1, <1>3, <2>1, <2>3
  <2>5. n2 = IF safe THEN link[e] ELSE n BY <1>5, <2>2
  <2>6. (IF walk.safe THEN (IF walk.back THEN prev[e] ELSE next[e]) ELSE walk.ptr) = n2 BY <1>3, <2>1, <2>3, <2>5
  <2>7. walk' = [wk EXCEPT !.at = "test", !.element = e, !.ptr = n2] BY <1>2, <1>3, <2>6
  <2>8. PICK r1 : r1 = [wk EXCEPT !.at = "test"] OBVIOUS
  <2>16. PICK r2 : r2 = [r1 EXCEPT !.element = e] OBVIOUS
  <2>9. PICK y, z : y = back /\ z = safe OBVIOUS
  <2>10. wk = [at |-> "next", from |-> from, to |-> to, back |-> y, safe |-> z, key |-> key, element |-> p, ptr |-> n]
    BY <1>5, <2>9, Zenon
  <2>11. r1 = [at |-> "test", from |-> from, to |-> to, back |-> y, safe |-> z, key |-> key, element |-> p, ptr |-> n]
    BY <2>8, <2>10
  <2>12. r2 = [at |-> "test", from |-> from, to |-> to, back |-> y, safe |-> z, key |-> key, element |-> e, ptr |-> n]
    BY <2>11, <2>16
  <2>13. [r2 EXCEPT !.ptr = n2]
           = [at |-> "test", from |-> from, to |-> to, back |-> y, safe |-> z, key |-> key, element |-> e, ptr |-> n2]
    BY <2>12
  <2>14. [wk EXCEPT !.at = "test", !.element = e, !.ptr = n2] = [r2 EXCEPT !.ptr = n2] BY <2>8, <2>16, Zenon
  <2>15. walk' = [at |-> "test", from |-> from, to |-> to, back |-> back, safe |-> safe, key |-> key, element |-> e, ptr |-> n2]
    BY <2>7, <2>9, <2>13, <2>14, Zenon
  <2> QED BY <2>2, <2>4, <2>15
<1>6. tree' = tr /\ seen' = vis /\ within' = mem BY <1>2, <1>3
<1>7. CASE lost = FALSE
  <2>0. PICK s, from, to, back, safe, key, p, n, t :
          /\ Holds(tree, s) /\ Walking(walk, s, from, to, back, safe, key, walk.at, p, n, t, seen, within)
          /\ Stops(s, from, to, back, safe, key, walk.at, p, t, seen, within)
    BY <1>2, <1>7, AvlInvOpens
  <2>1. /\ Holds(tree, s) /\ Walking(walk, s, from, to, back, safe, key, "next", p, n, t, seen, within)
        /\ Stops(s, from, to, back, safe, key, "next", p, t, seen, within)
    BY <1>2, <1>7, <2>0
  <2>2. /\ Holds(tr, s) /\ Walking(wk, s, from, to, back, safe, key, "next", p, n, t, vis, mem)
        /\ Stops(s, from, to, back, safe, key, "next", p, t, vis, mem)
    BY <1>3, <2>1
  <2>3. wk = [at |-> "next", from |-> from, to |-> to, back |-> back, safe |-> safe, key |-> key, element |-> p, ptr |-> n]
    BY <2>2 DEF Walking
  <2>4. PICK n2 : n2 = IF safe THEN Toward(hp, back)[e] ELSE n OBVIOUS
  <2>5. PICK wk2 : wk2 = [at |-> "test", from |-> from, to |-> to, back |-> back, safe |-> safe, key |-> key,
                          element |-> e, ptr |-> n2]
    OBVIOUS
  <2>6. walk' = wk2 /\ e = IF safe THEN n ELSE Toward(hp, back)[p] BY <1>5, <2>3, <2>4, <2>5
  <2>7. OneRing(hp, s) /\ Sorted(s) BY <1>4, <2>1 DEF Holds
  <2>8. Walking(wk2, s, from, to, back, safe, key, "test", e, n2, t, vis, mem)
    BY <2>2, <2>4, <2>5, <2>6, <2>7, WalkingNext
  <2>9. Stops(s, from, to, back, safe, key, "test", e, t, vis, mem) BY <2>2, <2>6, <2>7, StopsNext
  <2>10. lost' = FALSE BY <1>2, <1>7
  <2> QED BY <1>6, <2>2, <2>6, <2>8, <2>9, <2>10, WalkingKept
<1>8. CASE lost = TRUE
  <2>1. PICK s, from, to, back, safe, key, p, n : Holds(tree, s) /\ Strays(walk, s, from, to, back, safe, key, "next", p, n)
    BY <1>2, <1>8, AvlInvOpens
  <2>2. Holds(tr, s) /\ Strays(wk, s, from, to, back, safe, key, "next", p, n) BY <1>3, <2>1
  <2>3. /\ wk = [at |-> "next", from |-> from, to |-> to, back |-> back, safe |-> safe, key |-> key, element |-> p, ptr |-> n]
        /\ back \in BOOLEAN /\ safe \in BOOLEAN /\ (safe => n \in NodesOf(s)) /\ (~safe => p \in NodesOf(s))
    BY <2>2 DEF Strays
  <2>4. PICK n2 : n2 = IF safe THEN Toward(hp, back)[e] ELSE n OBVIOUS
  <2>5. PICK wk2 : wk2 = [at |-> "test", from |-> from, to |-> to, back |-> back, safe |-> safe, key |-> key,
                          element |-> e, ptr |-> n2]
    OBVIOUS
  <2>6. walk' = wk2 /\ e = IF safe THEN n ELSE Toward(hp, back)[p] BY <1>5, <2>3, <2>4, <2>5
  <2>7. OneRing(hp, s) BY <1>4, <2>1 DEF Holds
  <2>8. e \in NodesOf(s) BY <2>3, <2>6, <2>7, NodesStay
  <2>9. safe => n2 \in NodesOf(s) /\ (n2 = e => e = Tree) BY <2>3, <2>4, <2>7, <2>8, NodesStay
  <2>10. Strays(wk2, s, from, to, back, safe, key, "test", e, n2) BY <2>3, <2>5, <2>8, <2>9 DEF Strays
  <2>11. lost' = TRUE BY <1>2, <1>8
  <2> QED BY <1>6, <2>2, <2>6, <2>10, <2>11, StrayKept
<1> QED BY <1>7, <1>8, AvlInvOpens

(* A loop ends. *)
LEMMA RangeEndKeeps == ASSUME AvlInv, RangeEnd PROVE AvlInv'
<1>1. walk.at = "test" /\ walk' = [at |-> "idle"] /\ seen' = << >> /\ within' = << >> /\ lost' = FALSE /\ tree' = tree BY DEF RangeEnd
<1>2. PICK s : Holds(tree, s) BY <1>1, AvlInvOpens
<1>3. PICK tr : tr = tree OBVIOUS
<1>4. Holds(tr, s) /\ tree' = tr BY <1>1, <1>2, <1>3
<1> QED BY <1>1, <1>4, RestingKept

(* avl_remove_all_elements starts: the head no longer points at the         *)
(* elements, they still point at each other.                                *)
LEMMA StartClearKeeps == ASSUME AvlInv, StartClear PROVE AvlInv'
<1>1. /\ walk.at = "idle"
      /\ walk' = [at |-> "clear", element |-> next[Tree], ptr |-> next[next[Tree]]]
      /\ seen' = << >> /\ within' = Order
      /\ tree' = [tree EXCEPT !.heap = ListReset, !.root = FALSE] /\ lost' = lost
  BY DEF StartClear
<1>2. PICK s : Holds(tree, s) BY <1>1, AvlInvOpens
<1>24. lost' = FALSE BY <1>1, AvlInvOpens
<1>3. PICK m \in Nat : m = Len(s) BY <1>2, TreeIsRead
<1>4. Order = s /\ s \in Seq(Element) BY <1>2, TreeIsRead
<1>5. PICK hp : hp = tree.heap /\ OneRing(hp, s) /\ Chained(hp, s) BY <1>2, TreeIsRead
<1>6. Distinct(s) /\ \A i \in 0..m : hp.next[Spot(Tree, s, i)] = Spot(Tree, s, i + 1) BY <1>3, <1>5 DEF Chained
<1>7. next[Tree] = Spot(Tree, s, 1)
  <2>1. 0 \in 0..m /\ 0 + 1 = 1 /\ 0 \notin 1..m OBVIOUS
  <2>2. Spot(Tree, s, 0) = Tree BY <1>3, <2>1 DEF Spot
  <2>3. hp.next[Spot(Tree, s, 0)] = Spot(Tree, s, 0 + 1) BY <1>6, <2>1
  <2>4. hp.next[Tree] = Spot(Tree, s, 1) BY <2>1, <2>2, <2>3
  <2> QED BY <1>5, <2>4 DEF next
<1>8. next[next[Tree]] = Spot(Tree, s, 2)
  <2>1. CASE m = 0
    <3>1. 1 \notin 1..m /\ 2 \notin 1..m BY <2>1
    <3>2. Spot(Tree, s, 1) = Tree /\ Spot(Tree, s, 2) = Tree BY <1>3, <3>1 DEF Spot
    <3> QED BY <1>7, <3>2
  <2>2. CASE m # 0
    <3>1. 1 \in 0..m /\ 1 + 1 = 2 BY <2>2
    <3>2. hp.next[Spot(Tree, s, 1)] = Spot(Tree, s, 1 + 1) BY <1>6, <3>1
    <3>3. hp.next[Spot(Tree, s, 1)] = Spot(Tree, s, 2) BY <3>1, <3>2
    <3> QED BY <1>5, <1>7, <3>3 DEF next
  <2> QED BY <2>1, <2>2
<1>9. PICK hp2 : hp2 = INIT_LIST_HEAD(hp, Tree) OBVIOUS
<1>10. PICK tr : tr = [heap |-> hp2, count |-> m, root |-> FALSE] OBVIOUS
<1>11. tree' = tr
  <2>0. PICK b : b = tree.root OBVIOUS
  <2>1. tree = [heap |-> hp, count |-> m, root |-> b]
    <3>1. tree = [heap |-> hp, count |-> m, root |-> s # << >>] BY <1>2, <1>3, <1>5 DEF Holds
    <3>2. b = (s # << >>) BY <2>0, <3>1
    <3> QED BY <3>1, <3>2, Zenon
  <2>2. ListReset = hp2 BY <1>5, <1>9 DEF ListReset
  <2>3. tree' = [tree EXCEPT !.heap = hp2, !.root = FALSE] BY <1>1, <2>2
  <2>4. PICK r0 : r0 = tree OBVIOUS
  <2>5. PICK r1 : r1 = [r0 EXCEPT !.heap = hp2] OBVIOUS
  <2>6. r1 = [heap |-> hp2, count |-> m, root |-> b] BY <2>1, <2>4, <2>5
  <2>7. [r1 EXCEPT !.root = FALSE] = tr
    <3>1. PICK no : no = FALSE OBVIOUS
    <3>2. tr = [heap |-> hp2, count |-> m, root |-> no] BY <1>10, <3>1, Zenon
    <3>3. [r1 EXCEPT !.root = no] = tr BY <2>6, <3>2
    <3> QED BY <3>1, <3>3, Zenon
  <2>8. [r0 EXCEPT !.heap = hp2, !.root = FALSE] = [r1 EXCEPT !.root = FALSE] BY <2>5, Zenon
  <2> QED BY <2>3, <2>4, <2>7, <2>8
<1>12. PICK q : q = [h \in {Tree} |-> s] OBVIOUS
<1>13. q[Tree] = s /\ Rings(hp, {Tree}, Element, {Tree}, q) BY <1>5, <1>12 DEF OneRing
<1>14. PICK S, T : S = {Tree} \cup Element /\ T = {Tree} \cup Element \cup {NULL} OBVIOUS
<1>15. hp \in [next : [S -> T], prev : [S -> T]]
  <2>1. hp \in [next : Links({Tree}, Element), prev : Links({Tree}, Element)] BY <1>13 DEF Rings
  <2> QED BY <1>14, <2>1 DEF Links
<1>16. IsInit(S, T, hp, hp2, Tree)
  <2>1. Tree \in S /\ Tree \in T BY <1>14
  <2> QED BY <1>9, <1>15, <2>1, InitIs
<1>17. \A e \in Element : e \in S /\ e # Tree BY <1>14, AvlAssumption
<1>18. \A e \in Element : hp2.next[e] = hp.next[e] /\ hp2.prev[e] = hp.prev[e] BY <1>16, <1>17 DEF IsInit
<1>19. Emptied(hp2, s, 0)
  <2>1. hp2 \in [next : Links({Tree}, Element), prev : Links({Tree}, Element)] BY <1>14, <1>16 DEF IsInit, Links
  <2>2. hp2.next[Tree] = Tree /\ hp2.prev[Tree] = Tree BY <1>14, <1>16 DEF IsInit
  <2>3. ASSUME NEW i \in (0 + 1)..m PROVE hp2.next[s[i]] = Spot(Tree, s, i + 1)
    <3>1. i \in 1..m /\ i \in 0..m OBVIOUS
    <3>2. s[i] \in Element BY <1>3, <1>4, <3>1, ElementOfSeq
    <3>3. Spot(Tree, s, i) = s[i] BY <1>3, <3>1 DEF Spot
    <3> QED BY <1>6, <1>18, <3>1, <3>2, <3>3
  <2>4. ASSUME NEW e \in Element, \A i \in (0 + 1)..m : s[i] # e PROVE hp2.next[e] = hp2.prev[e] /\ hp2.next[e] \in {NULL, e}
    <3>1. Absent({Tree}, q, e)
      <4>1. \A i \in 1..m : s[i] # e BY <2>4
      <4> QED BY <1>3, <1>12, <4>1 DEF Absent
    <3>2. hp.next[e] = hp.prev[e] /\ hp.next[e] \in {NULL, e} BY <1>13, <2>4, <3>1 DEF Rings
    <3> QED BY <1>18, <3>2
  <2> QED BY <1>3, <2>1, <2>2, <2>3, <2>4 DEF Emptied
<1>20. PICK wk : wk = [at |-> "clear", element |-> Spot(Tree, s, 1), ptr |-> Spot(Tree, s, 2)] OBVIOUS
<1>21. PICK vis : vis = << >> OBVIOUS
<1>22. Clearing(tr, wk, vis, s, s, 0)
  <2>1. vis = SubSeq(s, 1, 0)
    <3>1. PICK r : r = SubSeq(s, 1, 0) OBVIOUS
    <3>2. 1 \in 1..(m + 1) /\ 0 \in (1 - 1)..m /\ 0 - 1 + 1 = 0 OBVIOUS
    <3>3. r \in Seq(Element) /\ Len(r) = 0 BY <1>3, <1>4, <3>1, <3>2, SubSeqProperties
    <3> QED BY <1>21, <3>1, <3>3, EmptySeq
  <2>2. 0 \in 0..Len(s) /\ Len(s) - 0 = m /\ 0 + 1 = 1 /\ 0 + 2 = 2 BY <1>3
  <2>3. tr.heap = hp2 BY <1>10
  <2>4. tr = [heap |-> tr.heap, count |-> Len(s) - 0, root |-> FALSE] BY <1>10, <2>2, <2>3
  <2>5. wk = [at |-> "clear", element |-> Spot(Tree, s, 0 + 1), ptr |-> Spot(Tree, s, 0 + 2)] BY <1>20, <2>2
  <2> QED BY <1>4, <1>6, <1>19, <2>1, <2>2, <2>3, <2>4, <2>5 DEF Clearing
<1>23. walk' = wk /\ seen' = vis /\ within' = s BY <1>1, <1>4, <1>7, <1>8, <1>20, <1>21
<1> QED BY <1>11, <1>22, <1>23, <1>24, ClearingKept

\* Freeing an element clears its pointers.
Freed(hp, e) == [hp EXCEPT !.next[e] = NULL, !.prev[e] = NULL]

(* The list after the next element was freed. *)
LEMMA FreedIs ==
  ASSUME NEW hp, NEW s \in Seq(Element), Distinct(s), NEW k, k \in 0..(Len(s) - 1), Emptied(hp, s, k),
         NEW e, e = s[k + 1]
  PROVE  /\ Emptied(Freed(hp, e), s, k + 1)
         /\ Freed(hp, e).next[Spot(Tree, s, k + 2)] = Spot(Tree, s, k + 3)
<1>1. PICK m \in Nat : m = Len(s) OBVIOUS
<1>2. k \in Int /\ 0 <= k /\ k <= m - 1 BY <1>1
<1>3. e \in Element
  <2>1. k + 1 \in 1..Len(s) BY <1>1, <1>2
  <2> QED BY <2>1, ElementOfSeq
<1>4. e # Tree /\ Tree \notin Element BY <1>3, AvlAssumption
<1>5. PICK S, T : S = {Tree} \cup Element /\ T = Links({Tree}, Element) OBVIOUS
<1>6. e \in S /\ Tree \in S /\ Element \subseteq S BY <1>3, <1>5
<1>7. PICK nx, pv : nx = hp.next /\ pv = hp.prev OBVIOUS
<1>8. hp = [next |-> nx, prev |-> pv] /\ nx \in T /\ pv \in T BY <1>5, <1>7 DEF Emptied
<1>9. DOMAIN nx = S /\ DOMAIN pv = S BY <1>5, <1>8 DEF Links
<1>10. PICK nx2, pv2 : nx2 = [nx EXCEPT ![e] = NULL] /\ pv2 = [pv EXCEPT ![e] = NULL] OBVIOUS
<1>11. PICK hp2 : hp2 = Freed(hp, e) OBVIOUS
<1>12. hp2 = [next |-> nx2, prev |-> pv2]
  <2>1. PICK r1 : r1 = [hp EXCEPT !.next[e] = NULL] OBVIOUS
  <2>2. PICK r2 : r2 = [r1 EXCEPT !.prev[e] = NULL] OBVIOUS
  <2>3. hp2 = r2 BY <1>11, <2>1, <2>2, Zenon DEF Freed
  <2>4. r1 = [next |-> nx2, prev |-> pv] BY <1>8, <1>10, <2>1, SetNext, Zenon
  <2>5. r2 = [next |-> nx2, prev |-> pv2] BY <1>10, <2>2, <2>4, SetPrev
  <2> QED BY <2>3, <2>5
<1>13. hp2.next = nx2 /\ hp2.prev = pv2 BY <1>12
<1>14. nx2 \in T /\ pv2 \in T BY <1>5, <1>8, <1>10 DEF Links
<1>15. \A z \in S : /\ nx2[z] = (IF z = e THEN NULL ELSE nx[z])
                    /\ pv2[z] = (IF z = e THEN NULL ELSE pv[z])
  BY <1>9, <1>10
<1>16. nx[Tree] = Tree /\ pv[Tree] = Tree BY <1>7 DEF Emptied
<1>17. \A i \in (k + 1)..m : nx[s[i]] = Spot(Tree, s, i + 1) BY <1>1, <1>7 DEF Emptied
<1>18. ASSUME NEW i \in (k + 2)..m PROVE s[i] \in S /\ s[i] # e /\ nx2[s[i]] = Spot(Tree, s, i + 1)
  <2>1. i \in 1..m /\ k + 1 \in 1..m /\ i # k + 1 /\ i \in (k + 1)..m BY <1>2
  <2>2. s[i] \in Element BY <1>1, <2>1, ElementOfSeq
  <2>3. s[i] # e BY <1>1, <2>1 DEF Distinct
  <2>4. nx[s[i]] = Spot(Tree, s, i + 1) BY <1>17, <2>1
  <2> QED BY <1>6, <1>15, <2>2, <2>3, <2>4
<1>19. nx2[Tree] = Tree /\ pv2[Tree] = Tree BY <1>4, <1>6, <1>15, <1>16
<1>20. Emptied(hp2, s, k + 1)
  <2>1. hp2 \in [next : T, prev : T] BY <1>12, <1>14
  <2>2. ASSUME NEW i \in ((k + 1) + 1)..m PROVE nx2[s[i]] = Spot(Tree, s, i + 1)
    <3>1. i \in (k + 2)..m BY <1>2
    <3> QED BY <1>18, <3>1
  <2>3. ASSUME NEW x \in Element, \A i \in ((k + 1) + 1)..m : s[i] # x PROVE nx2[x] = pv2[x] /\ nx2[x] \in {NULL, x}
    <3>1. x \in S BY <1>6
    <3>2. CASE x = e BY <1>15, <3>1, <3>2
    <3>3. CASE x # e
      <4>1. ASSUME NEW i \in (k + 1)..m PROVE s[i] # x
        <5>1. CASE i = k + 1 BY <3>3, <5>1
        <5>2. CASE i # k + 1
          <6>1. i \in ((k + 1) + 1)..m BY <1>2, <5>2
          <6> QED BY <2>3, <6>1
        <5> QED BY <5>1, <5>2
      <4>2. nx[x] = pv[x] /\ nx[x] \in {NULL, x} BY <1>1, <1>7, <4>1 DEF Emptied
      <4> QED BY <1>15, <3>1, <3>3, <4>2
    <3> QED BY <3>2, <3>3
  <2> QED BY <1>1, <1>5, <1>13, <1>19, <2>1, <2>2, <2>3 DEF Emptied
<1>21. hp2.next[Spot(Tree, s, k + 2)] = Spot(Tree, s, k + 3)
  <2>1. CASE k + 2 <= m
    <3>1. k + 2 \in (k + 2)..m /\ k + 2 \in 1..m /\ (k + 2) + 1 = k + 3 BY <1>2, <2>1
    <3>2. Spot(Tree, s, k + 2) = s[k + 2] BY <1>1, <3>1 DEF Spot
    <3>3. nx2[s[k + 2]] = Spot(Tree, s, (k + 2) + 1) BY <1>18, <3>1
    <3> QED BY <1>13, <3>1, <3>2, <3>3
  <2>2. CASE ~(k + 2 <= m)
    <3>1. k + 2 \notin 1..m /\ k + 3 \notin 1..m BY <1>2, <2>2
    <3>2. Spot(Tree, s, k + 2) = Tree /\ Spot(Tree, s, k + 3) = Tree BY <1>1, <3>1 DEF Spot
    <3> QED BY <1>13, <1>19, <3>2
  <2> QED BY <2>1, <2>2
<1> QED BY <1>11, <1>20, <1>21

(* The body of avl_remove_all_elements frees an element. *)
LEMMA ClearBodyKeeps == ASSUME AvlInv, ClearBody PROVE AvlInv'
<1>1. PICK tr, wk, vis, mem : tr = tree /\ wk = walk /\ vis = seen /\ mem = within OBVIOUS
<1>2. PICK hp, e, x : hp = tr.heap /\ e = wk.element /\ x = wk.ptr OBVIOUS
<1>3. PICK hp2 : hp2 = Freed(hp, e) OBVIOUS
<1>4. /\ walk.at = "clear" /\ tr.count > 0
      /\ seen' = Append(vis, e) /\ within' = mem /\ lost' = lost
      /\ tree' = [tr EXCEPT !.heap = hp2, !.count = tr.count - 1]
      /\ walk' = [wk EXCEPT !.element = x, !.ptr = hp2.next[x]]
  BY <1>1, <1>2, <1>3 DEF ClearBody, Freed
<1>5. PICK s, k : Clearing(tr, wk, vis, mem, s, k) BY <1>1, <1>4, AvlInvOpens
<1>6. /\ s \in Seq(Element) /\ Distinct(s) /\ k \in 0..Len(s)
      /\ mem = s /\ vis = SubSeq(s, 1, k)
      /\ tr = [heap |-> hp, count |-> Len(s) - k, root |-> FALSE] /\ Emptied(hp, s, k)
      /\ wk = [at |-> "clear", element |-> Spot(Tree, s, k + 1), ptr |-> Spot(Tree, s, k + 2)]
  BY <1>2, <1>5 DEF Clearing
<1>7. PICK m \in Nat : m = Len(s) BY <1>6
<1>8. tr.count = m - k BY <1>6, <1>7
<1>9. k \in Int /\ 0 <= k /\ k <= m - 1
  <2>1. k \in Int /\ 0 <= k /\ k <= m BY <1>6, <1>7
  <2>2. m - k > 0 BY <1>4, <1>8
  <2> QED BY <2>1, <2>2
<1>10. e = s[k + 1] /\ x = Spot(Tree, s, k + 2)
  <2>1. k + 1 \in 1..m BY <1>9
  <2>2. Spot(Tree, s, k + 1) = s[k + 1] BY <1>7, <2>1 DEF Spot
  <2> QED BY <1>2, <1>6, <2>2
<1>11. k \in 0..(Len(s) - 1) BY <1>7, <1>9
<1>12. Emptied(hp2, s, k + 1) /\ hp2.next[x] = Spot(Tree, s, k + 3) BY <1>3, <1>6, <1>10, <1>11, FreedIs
<1>13. PICK tr2 : tr2 = [heap |-> hp2, count |-> m - (k + 1), root |-> FALSE] OBVIOUS
<1>14. tree' = tr2
  <2>1. PICK no : no = FALSE OBVIOUS
  <2>2. PICK c, c2 : c = m - k /\ c2 = m - (k + 1) OBVIOUS
  <2>3. c = Len(s) - k BY <1>7, <2>2
  <2>4. tr = [heap |-> hp, count |-> c, root |-> no] BY <1>6, <2>1, <2>3, Zenon
  <2>5. tr2 = [heap |-> hp2, count |-> c2, root |-> no] BY <1>13, <2>1, <2>2, Zenon
  <2>6. tr.count - 1 = c2 BY <1>8, <1>9, <2>2
  <2>7. PICK r1 : r1 = [tr EXCEPT !.heap = hp2] OBVIOUS
  <2>8. r1 = [heap |-> hp2, count |-> c, root |-> no] BY <2>4, <2>7
  <2>9. [r1 EXCEPT !.count = c2] = tr2 BY <2>5, <2>8
  <2>10. [tr EXCEPT !.heap = hp2, !.count = c2] = [r1 EXCEPT !.count = c2] BY <2>7, Zenon
  <2> QED BY <1>4, <2>6, <2>9, <2>10
<1>15. PICK wk2 : wk2 = [at |-> "clear", element |-> Spot(Tree, s, k + 2), ptr |-> Spot(Tree, s, k + 3)] OBVIOUS
<1>16. walk' = wk2
  <2>1. PICK y, z : y = Spot(Tree, s, k + 3) /\ z = Spot(Tree, s, k + 1) OBVIOUS
  <2>2. wk = [at |-> "clear", element |-> z, ptr |-> x] BY <1>6, <1>10, <2>1
  <2>3. PICK r1 : r1 = [wk EXCEPT !.element = x] OBVIOUS
  <2>4. r1 = [at |-> "clear", element |-> x, ptr |-> x] BY <2>2, <2>3
  <2>5. [r1 EXCEPT !.ptr = y] = wk2 BY <1>10, <1>15, <2>1, <2>4
  <2>6. [wk EXCEPT !.element = x, !.ptr = y] = [r1 EXCEPT !.ptr = y] BY <2>3, Zenon
  <2> QED BY <1>4, <1>12, <2>1, <2>5, <2>6
<1>17. PICK vis2 : vis2 = Append(vis, e) OBVIOUS
<1>18. vis2 = SubSeq(s, 1, k + 1) BY <1>6, <1>10, <1>11, <1>17, SubSeqGrows
<1>19. Clearing(tr2, wk2, vis2, mem, s, k + 1)
  <2>1. k + 1 \in 0..Len(s) /\ (k + 1) + 1 = k + 2 /\ (k + 1) + 2 = k + 3 BY <1>7, <1>9
  <2>2. tr2.heap = hp2 BY <1>13
  <2>3. tr2 = [heap |-> tr2.heap, count |-> Len(s) - (k + 1), root |-> FALSE] BY <1>7, <1>13, <2>2
  <2>4. wk2 = [at |-> "clear", element |-> Spot(Tree, s, (k + 1) + 1), ptr |-> Spot(Tree, s, (k + 1) + 2)]
    BY <1>15, <2>1
  <2> QED BY <1>6, <1>12, <1>18, <2>1, <2>2, <2>3, <2>4 DEF Clearing
<1>20. PICK k2 : k2 = k + 1 OBVIOUS
<1>21. Clearing(tr2, wk2, vis2, mem, s, k2) BY <1>19, <1>20
<1>22. seen' = vis2 /\ within' = mem /\ lost' = FALSE BY <1>4, <1>17, AvlInvOpens
<1> QED BY <1>14, <1>16, <1>21, <1>22, ClearingKept

(* When its counter is zero the tree is empty, and can be filled again. *)
LEMMA ClearEndKeeps == ASSUME AvlInv, ClearEnd PROVE AvlInv'
<1>1. /\ walk.at = "clear" /\ tree.count = 0 /\ walk' = [at |-> "idle"] /\ seen' = << >> /\ within' = << >>
      /\ tree' = tree /\ lost' = FALSE
  BY DEF ClearEnd
<1>2. PICK tr : tr = tree OBVIOUS
<1>3. PICK s, k : Clearing(tr, walk, seen, within, s, k) BY <1>1, <1>2, AvlInvOpens
<1>4. PICK hp : hp = tr.heap OBVIOUS
<1>5. /\ s \in Seq(Element) /\ k \in 0..Len(s) /\ Emptied(hp, s, k)
      /\ tr = [heap |-> hp, count |-> Len(s) - k, root |-> FALSE]
  BY <1>3, <1>4 DEF Clearing
<1>6. PICK m \in Nat : m = Len(s) BY <1>5
<1>7. m - k = 0 BY <1>1, <1>2, <1>5, <1>6
<1>8. k = m BY <1>5, <1>6, <1>7
<1>9. ASSUME NEW e \in Element PROVE hp.next[e] = hp.prev[e] /\ hp.next[e] \in {NULL, e}
  <2>1. \A i \in (k + 1)..m : s[i] # e BY <1>8
  <2> QED BY <1>5, <1>6, <2>1 DEF Emptied
<1>10. OneRing(hp, << >>)
  <2>1. /\ hp \in [next : Links({Tree}, Element), prev : Links({Tree}, Element)]
        /\ hp.next[Tree] = Tree /\ hp.prev[Tree] = Tree
    BY <1>5 DEF Emptied
  <2> QED BY <1>9, <2>1, RingIsEmpty
<1>11. tr = [heap |-> hp, count |-> 0, root |-> FALSE]
  <2>1. Len(s) - k = 0 BY <1>6, <1>7
  <2> QED BY <1>5, <2>1
<1>12. Holds(tr, << >>) BY <1>10, <1>11, HoldsNothing
<1> QED BY <1>1, <1>2, <1>12, RestingKept

(* Every step keeps the invariant of the tree. *)
LEMMA AvlNextKeeps == ASSUME AvlInv, AvlNext PROVE AvlInv'
BY InsertKeeps, DeleteKeeps, StartLoopKeeps, AclStartKeeps, RangeBodyKeeps, RangeFaultKeeps, RangeNextKeeps,
   RangeEndKeeps, StartClearKeeps, ClearBodyKeeps, ClearEndKeeps
   DEF AvlNext

(* The tree does not change when nothing is done with it. *)
LEMMA AvlRests == ASSUME AvlInv, UNCHANGED avlVars PROVE AvlInv'
<1>1. tree' = tree /\ walk' = walk /\ seen' = seen /\ within' = within /\ lost' = lost BY DEF avlVars
<1> QED BY <1>1 DEF AvlInv

(* The invariant of the tree always holds. *)
LEMMA AvlAlwaysHolds == Spec => []AvlInv
<1>1. Init => AvlInv BY AvlInitSound DEF Init
<1>2. ASSUME AvlInv, [Next]_vars PROVE AvlInv'
  <2>1. AvlNext \/ UNCHANGED avlVars BY <1>2 DEF Next, vars
  <2> QED BY <1>2, <2>1, AvlNextKeeps, AvlRests
<1> QED BY <1>1, <1>2, PTL DEF Spec

-----------------------------------------------------------------------------
(* A tree that is not being emptied is consistent. *)
LEMMA AvlInvSound == AvlInv => TreeIsConsistent
<1> SUFFICES ASSUME AvlInv PROVE TreeIsConsistent OBVIOUS
<1>1. CASE walk.at = "clear" BY <1>1 DEF TreeIsConsistent
<1>2. CASE walk.at # "clear"
  <2>1. \E s : Holds(tree, s) BY <1>2, AvlInvOpens
  <2> QED BY <2>1, HoldsIsConsistent
<1> QED BY <1>1, <1>2

(* A sequence without repetitions is in its own order. *)
LEMMA InOwnOrder == ASSUME NEW E, NEW s \in Seq(E), Distinct(s) PROVE InOrder(s, s)
<1>1. DOMAIN s = 1..Len(s) /\ Len(s) \in Nat OBVIOUS
<1>2. \A i, j \in DOMAIN s : s[i] = s[j] => i = j BY <1>1 DEF Distinct
<1>3. ASSUME NEW i \in DOMAIN s, NEW j \in DOMAIN s, NEW k \in DOMAIN s, NEW l \in DOMAIN s,
             i < j, s[k] = s[i], s[l] = s[j]
      PROVE  k < l
  <2>1. k = i /\ l = j BY <1>2, <1>3
  <2> QED BY <1>3, <2>1
<1> QED BY <1>3 DEF InOrder

(* What a loop has seen. *)
LEMMA SeenIs ==
  ASSUME NEW vis \in Seq(Element), Distinct(vis)
  PROVE  IsInjective(vis) /\ Range(vis) \subseteq Element
<1>1. DOMAIN vis = 1..Len(vis) OBVIOUS
<1>2. IsInjective(vis) BY <1>1 DEF IsInjective, Distinct
<1>3. \A i \in 1..Len(vis) : vis[i] \in Element BY ElementOfSeq
<1> QED BY <1>1, <1>2, <1>3 DEF Range

(* Loops over a tree are exact. *)
LEMMA AvlInvExact == AvlInv => WalkIsExact
<1> SUFFICES ASSUME AvlInv PROVE WalkIsExact OBVIOUS
<1>1. PICK vis, mem : vis = seen /\ mem = within OBVIOUS
<1>2. NULL \notin Element \cup {Tree} BY AvlAssumption DEF Node
<1>3. CASE walk.at = "idle" \/ lost = TRUE BY <1>3 DEF WalkIsExact
<1>4. CASE walk.at \in {"test", "next"} /\ lost = FALSE
  <2>1. PICK s, from, to, back, safe, key, p, n, t :
          /\ Holds(tree, s) /\ Walking(walk, s, from, to, back, safe, key, walk.at, p, n, t, seen, within)
          /\ Stops(s, from, to, back, safe, key, walk.at, p, t, seen, within)
    BY <1>4, AvlInvOpens
  <2>2. PICK at, S, b : at = walk.at /\ S = Oriented(s, back) /\ b = IF back THEN from ELSE to OBVIOUS
  <2>3. /\ safe \in BOOLEAN /\ Turn(Element, Tree, S, t, at, safe, p, n, vis, mem)
        /\ walk = [at |-> walk.at, from |-> from, to |-> to, back |-> back, safe |-> safe, key |-> key, element |-> p, ptr |-> n]
    BY <1>1, <2>1, <2>2 DEF Walking
  <2>4. /\ vis \in Seq(Element) /\ Distinct(vis) /\ p \in Element \cup {Tree}
        /\ AtEnd(Element, Tree, S, t, p, vis, mem) => InOrder(mem, vis)
    BY <2>3, TurnIsExact
  <2>5. IsInjective(vis) /\ Range(vis) \subseteq Element BY <2>4, SeenIs
  <2>6. ASSUME walk.at = "test", ~Continues PROVE InOrder(mem, vis)
    <3>1. Walking(walk, s, from, to, back, safe, key, "test", p, n, t, seen, within) BY <2>1, <2>6
    <3>2. Continues <=> ~AtEnd(Element, Tree, Oriented(s, back), t, p, seen, within) BY <2>1, <3>1, ContinuesIs
    <3>3. AtEnd(Element, Tree, S, t, p, vis, mem) BY <1>1, <2>2, <2>6, <3>2
    <3> QED BY <2>4, <3>3
  <2>7. walk.at # "clear" /\ walk.at # "fault" BY <1>4
  <2>8. walk.element = p /\ walk.key = key /\ walk.back = back /\ walk.from = from /\ walk.to = to
    <3>1. PICK wk, a : wk = walk /\ a = walk.at OBVIOUS
    <3>2. wk = [at |-> a, from |-> from, to |-> to, back |-> back, safe |-> safe, key |-> key, element |-> p, ptr |-> n]
      BY <2>3, <3>1, Zenon
    <3>3. wk.element = p /\ wk.key = key /\ wk.back = back /\ wk.from = from /\ wk.to = to BY <3>2
    <3> QED BY <3>1, <3>3
  <2>9. walk.element # NULL BY <1>2, <2>4, <2>8
  <2>10. BoundOf = b BY <2>2, <2>8 DEF BoundOf
  <2>11. walk.key # NULL => \A i \in 1..Len(vis) : KeyOf[vis[i]] = walk.key
    <3> SUFFICES ASSUME walk.key # NULL PROVE \A i \in 1..Len(vis) : KeyOf[vis[i]] = walk.key OBVIOUS
    <3>1. Keyed(s, to, back, safe, key, p, t, seen) BY <2>1, <2>8 DEF Stops
    <3> QED BY <1>1, <2>8, <3>1 DEF Keyed
  <2>12. walk.key = NULL => (BoundOf # Tree => \A i \in 1..(Len(vis) - 1) : vis[i] # BoundOf)
    <3> SUFFICES ASSUME walk.key = NULL, BoundOf # Tree PROVE \A i \in 1..(Len(vis) - 1) : vis[i] # BoundOf OBVIOUS
    <3>1. Bounded(S, b, walk.at, p, t, seen, within) BY <2>1, <2>2, <2>8 DEF Stops
    <3> QED BY <1>1, <2>10, <3>1 DEF Bounded
  <2> QED BY <1>1, <2>5, <2>6, <2>7, <2>9, <2>11, <2>12 DEF WalkIsExact
<1>5. CASE walk.at = "clear"
  <2>1. PICK tr : tr = tree OBVIOUS
  <2>2. PICK s, k : Clearing(tr, walk, vis, mem, s, k) BY <1>1, <1>5, <2>1, AvlInvOpens
  <2>3. /\ s \in Seq(Element) /\ Distinct(s) /\ k \in 0..Len(s) /\ mem = s /\ vis = SubSeq(s, 1, k)
        /\ tr.count = Len(s) - k /\ walk.element = Spot(Tree, s, k + 1)
    <3>1. tr = [heap |-> tr.heap, count |-> Len(s) - k, root |-> FALSE] BY <2>2 DEF Clearing
    <3>2. tr.count = Len(s) - k BY <3>1
    <3>3. walk.element = Spot(Tree, s, k + 1) BY <2>2 DEF Clearing
    <3> QED BY <2>2, <3>2, <3>3 DEF Clearing
  <2>4. PICK m \in Nat : m = Len(s) BY <2>3
  <2>5. k \in Int /\ 0 <= k /\ k <= m BY <2>3, <2>4
  <2>6. 1 \in 1..(m + 1) /\ k \in (1 - 1)..m /\ k - 1 + 1 = k BY <2>5
  <2>7. vis \in Seq(Element) /\ Len(vis) = k /\ \A i \in 1..k : vis[i] = s[1 + i - 1] BY <2>3, <2>4, <2>6, SubSeqProperties
  <2>8. \A i \in 1..k : vis[i] = s[i] /\ i \in 1..m
    <3> TAKE i \in 1..k
    <3>1. 1 + i - 1 = i /\ i \in 1..m BY <2>5
    <3> QED BY <2>7, <3>1
  <2>9. Distinct(vis) BY <2>3, <2>4, <2>7, <2>8 DEF Distinct
  <2>10. IsInjective(vis) /\ Range(vis) \subseteq Element BY <2>7, <2>9, SeenIs
  <2>11. Range(vis) \subseteq Range(mem)
    <3>1. DOMAIN vis = 1..k /\ DOMAIN mem = 1..m BY <2>3, <2>4, <2>7
    <3> QED BY <2>3, <2>8, <3>1 DEF Range
  <2>12. ASSUME tree.count = 0 PROVE InOrder(mem, vis)
    <3>1. m - k = 0 BY <2>1, <2>3, <2>4, <2>12
    <3>2. k = m BY <2>5, <3>1
    <3>3. vis = s BY <2>3, <2>4, <2>7, <2>8, <3>2, SeqEqual
    <3> QED BY <2>3, <3>3, InOwnOrder
  <2>13. walk.element # NULL
    <3>1. CASE k + 1 \in 1..Len(s)
      <4>1. s[k + 1] \in Element BY <2>3, <3>1, ElementOfSeq
      <4> QED BY <1>2, <2>3, <3>1, <4>1 DEF Spot
    <3>2. CASE k + 1 \notin 1..Len(s) BY <1>2, <2>3, <3>2 DEF Spot
    <3> QED BY <3>1, <3>2
  <2> QED BY <1>1, <1>5, <2>10, <2>11, <2>12, <2>13 DEF WalkIsExact
<1>6. CASE walk.at = "fault" BY <1>3, <1>6, AvlInvOpens
<1> QED BY <1>3, <1>4, <1>5, <1>6, AvlInvOpens

-----------------------------------------------------------------------------
(* Lists are rings and a tree is sorted, counted and linked in both         *)
(* directions, for any number of heads, entries and elements, after any     *)
(* sequence of calls of list.h and avl.h, also from the bodies of loops.    *)
THEOREM StructuresAreAlwaysSound == Spec => []StructuresAreSound
<1>1. ListInv /\ AvlInv => StructuresAreSound BY ListInvSound, AvlInvSound DEF StructuresAreSound
<1> QED BY <1>1, ListsAlwaysHold, AvlAlwaysHolds, PTL

(* The loops of list.h and avl.h, and avl_remove_all_elements, run their    *)
(* bodies for exactly what was in their range, once and in order, and never *)
(* behind their bound or with another key, although the bodies delete the   *)
(* current element and add others: for any elements, keys and bounds, as    *)
(* long as the bound is where the condition looks for it.                   *)
THEOREM LoopsAreAlwaysExact == Spec => []LoopsAreExact
<1>1. ListInv /\ AvlInv => LoopsAreExact BY ListInvExact, AvlInvExact DEF LoopsAreExact
<1> QED BY <1>1, ListsAlwaysHold, AvlAlwaysHolds, PTL

==============================================================================
