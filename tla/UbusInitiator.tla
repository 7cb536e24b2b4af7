---------------------------- MODULE UbusInitiator ----------------------------
(***************************************************************************)
(* UbusInitiator::scanreq_prog_cb1 of src/ubus_example/ubus_client.c: the  *)
(* callback for the replies of the border router.  Each good reply stores  *)
(* one property in the OtbrManager and asks for the next; nothing is       *)
(* retried.  The first query, the OtbrManager and the router are external. *)
(***************************************************************************)
EXTENDS Integers, Sequences

CONSTANTS
  MaxStarts,    \* how often the chain of queries is started
  RepliesFail   \* whether replies may be lost or of no use

ASSUME ChainAssumption == MaxStarts \in Nat /\ RepliesFail \in BOOLEAN

\* The order of the chain; the callback tests the members in another order,
\* but a reply has only the member that was asked for.
Chain == <<"Channel", "PanId", "NetworkName", "rloc16", "ExtPanId", "Networkkey", "pskc">>

\* A plausible bug: the callback of a link asks for the one after the next.
SkipsOne(i)  == {i + 2} \cap DOMAIN Chain
NextQuery(i) == {i + 1} \cap DOMAIN Chain

\* stoi() is applied to these two and throws when the text is no number.
Parsed == {"PanId", "rloc16"}

VARIABLES
  asked,   \* the queries under way: numbers of links, one per started chain
  known,   \* the links whose property the OtbrManager has
  starts,  \* how often the chain was started
  failed,  \* a reply was lost or of no use
  threw    \* the callback let an exception escape

chainVars == <<asked, known, starts, failed, threw>>

ChainInit == asked = << >> /\ known = {} /\ starts = 0 /\ failed = FALSE /\ threw = FALSE

StartChain ==
  /\ ~threw /\ starts < MaxStarts
  /\ starts' = starts + 1
  /\ asked' = Append(asked, 1)
  /\ UNCHANGED <<known, failed, threw>>

Without(c) == SubSeq(asked, 1, c - 1) \o SubSeq(asked, c + 1, Len(asked))

\* "Error" is 0 and the member is there: it is stored and the next is asked.
GoodReply == \E c \in DOMAIN asked :
  /\ ~threw
  /\ known' = known \cup {asked[c]}
  /\ asked' = IF NextQuery(asked[c]) = {} THEN Without(c)
              ELSE [asked EXCEPT ![c] = CHOOSE n \in NextQuery(@) : TRUE]
  /\ UNCHANGED <<starts, failed, threw>>

\* No message, no JSON, no "Error", an error code, no known member, or no
\* reply at all within the time: the chain ends here.
BadReply == \E c \in DOMAIN asked :
  /\ ~threw /\ RepliesFail
  /\ asked' = Without(c)
  /\ failed' = TRUE
  /\ UNCHANGED <<known, starts, threw>>

MalformedNumber == \E c \in DOMAIN asked :
  /\ ~threw /\ RepliesFail /\ Chain[asked[c]] \in Parsed
  /\ asked' = Without(c)
  /\ failed' = TRUE
  /\ threw' = TRUE
  /\ UNCHANGED <<known, starts>>

\* A query under way is answered or times out.
ChainReply == GoodReply \/ BadReply \/ MalformedNumber

ChainNext == StartChain \/ ChainReply

-----------------------------------------------------------------------------
(* Although chains overlap and break off anywhere, the properties known are *)
(* always the first ones of the chain: a reader that has the pskc has them  *)
(* all.  A chain only ends early after a reply was lost or of no use.       *)
KnownIsPrefix ==
  /\ \E n \in 0..Len(Chain) : known = 1..n
  /\ starts > 0 /\ asked = << >> /\ ~failed => known = DOMAIN Chain

==============================================================================
