------------------------------ MODULE DeviceTree ------------------------------
(***************************************************************************)
(* The data of a Node in src/devices_struct/DeviceDefine.h: a vector of    *)
(* endpoints, each with a vector of clusters, each with a vector of        *)
(* attributes, all searched from the front.  The lists that fill them come *)
(* from the device's descriptor and may come again when a request is       *)
(* resent, so that entries are duplicated.                                 *)
(*                                                                         *)
(* AddOrUpdateAttributeData is two steps, the search and, when it finds    *)
(* nothing, the push_back: another thread may run in between.  That        *)
(* push_back moves a vector while another thread walks it is left out.     *)
(***************************************************************************)
EXTENDS Naturals, SequencesExt

CONSTANTS
  Thread,
  Ep,           \* endpoint numbers; 0, the root, is not one of them
  ClusterId,
  Mask,         \* client or server
  Attr, Val,
  Absent,
  MaxEntries    \* bound: the length of a vector of endpoints or clusters

Root == 0

ASSUME TreeAssumption ==
  /\ Root \notin Ep
  /\ Absent \notin Val
  /\ MaxEntries \in Nat

VARIABLES
  mEndpointTypes,  \* the endpoint numbers in the vector
  mClusters,       \* its clusters: index of an endpoint, Root for mRootEndpoint
  adding,          \* thread -> the push_back it is about to do, or Nothing
  latest           \* history: the last value reported for <<ep, cluster, attribute>>

treeVars == <<mEndpointTypes, mClusters, adding, latest>>

Endpoint == Ep \cup {Root}

Nothing == [cluster |-> 0]

TreeInit ==
  /\ mEndpointTypes = << >>
  /\ mClusters = [e \in {Root} |-> << >>]
  /\ adding = [t \in Thread |-> Nothing]
  /\ latest = [x \in Endpoint \X ClusterId \X Attr |-> Absent]

-----------------------------------------------------------------------------
(* The searches, from the front; 0 is nullptr. *)

\* mRootEndpoint is a member of its own.
FindEndpointTypeData(ep) == SelectInSeq(mEndpointTypes, LAMBDA e : e = ep)

FindClusterData(e, id) == SelectInSeq(mClusters[e], LAMBDA c : c.mClusterId = id)

FindAttributeData(c, a) == SelectInSeq(c.mAttributes, LAMBDA x : x.mAttributeId = a)

\* The endpoint a caller of FindEndpointTypeData gets, or the root.
Reaches(ep, e) == IF ep = Root THEN e = Root ELSE e = FindEndpointTypeData(ep) /\ e # 0

-----------------------------------------------------------------------------
\* The partlist of the descriptor of endpoint 0.
AddEndpointTypeElements(eplist) ==
  /\ Len(mEndpointTypes) + Len(eplist) <= MaxEntries
  /\ mEndpointTypes' = mEndpointTypes \o eplist
  /\ mClusters' = [e \in {Root} \cup 1..Len(mEndpointTypes') |->
                     IF e \in DOMAIN mClusters THEN mClusters[e] ELSE << >>]
  /\ UNCHANGED <<adding, latest>>

NewCluster(id, mask) == [mClusterId |-> id, mMask |-> mask, mAttributes |-> << >>]

\* The client or the server list of an endpoint's descriptor.
CreateClusterElements(ep, mask, clusterlist) == \E e \in DOMAIN mClusters :
  /\ Reaches(ep, e)
  /\ Len(mClusters[e]) + Len(clusterlist) <= MaxEntries
  /\ mClusters' = [mClusters EXCEPT ![e] = @ \o [i \in 1..Len(clusterlist) |-> NewCluster(clusterlist[i], mask)]]
  /\ UNCHANGED <<mEndpointTypes, adding, latest>>

\* A plausible bug: the last cluster with the id is updated.
LastMatch(e, id) ==
  LET found == {i \in 1..Len(mClusters[e]) : mClusters[e][i].mClusterId = id}
  IN  IF found = {} THEN 0 ELSE Max(found)
ClusterToUpdate(e, id) == SelectInSeq(mClusters[e], LAMBDA c : c.mClusterId = id)

AttributeToUpdate(c, a) == SelectInSeq(c.mAttributes, LAMBDA x : x.mAttributeId = a)

\* UpdateClusterData, and AddOrUpdateAttributeData up to its push_back.
UpdateClusterData(t, ep, id, a, v) == \E e \in DOMAIN mClusters :
  LET k == ClusterToUpdate(e, id)
      n == AttributeToUpdate(mClusters[e][k], a)
  IN  /\ adding[t] = Nothing
      /\ Reaches(ep, e) /\ k # 0
      /\ IF n # 0
         THEN /\ mClusters' = [mClusters EXCEPT ![e][k].mAttributes[n].mAttributeVal = v]
              /\ latest' = [latest EXCEPT ![<<ep, id, a>>] = v]
              /\ UNCHANGED adding
         ELSE /\ adding' = [adding EXCEPT ![t] = [of |-> <<ep, id, a>>, at |-> e, cluster |-> k, val |-> v]]
              /\ UNCHANGED <<mClusters, latest>>
      /\ UNCHANGED mEndpointTypes

\* The push_back of AddOrUpdateAttributeData.
PushesAttribute(t) ==
  LET new == adding[t]
  IN  /\ new # Nothing
      /\ mClusters' = [mClusters EXCEPT ![new.at][new.cluster].mAttributes =
                         Append(@, [mAttributeId |-> new.of[3], mAttributeVal |-> new.val])]
      /\ adding' = [adding EXCEPT ![t] = Nothing]
      /\ latest' = [latest EXCEPT ![new.of] = new.val]
      /\ UNCHANGED mEndpointTypes

Lists(S) == {<<x>> : x \in S} \cup {<<x, y>> : x, y \in S}

TreeNext ==
  \/ \E eplist \in Lists(Ep) : AddEndpointTypeElements(eplist)
  \/ \E ep \in Endpoint, mask \in Mask, clusterlist \in Lists(ClusterId) :
       CreateClusterElements(ep, mask, clusterlist)
  \/ \E t \in Thread :
       \/ \E ep \in Endpoint, id \in ClusterId, a \in Attr, v \in Val :
            UpdateClusterData(t, ep, id, a, v)
       \/ PushesAttribute(t)

-----------------------------------------------------------------------------
(* Types: every pending push_back is to an existing cluster. *)
TreeTypeOK ==
  /\ mEndpointTypes \in Seq(Ep)
  /\ DOMAIN mClusters = {Root} \cup 1..Len(mEndpointTypes)
  /\ \A t \in Thread : adding[t] # Nothing => adding[t].cluster \in 1..Len(mClusters[adding[t].at])

\* What a caller of the three lookups reads, Absent when one is nullptr.
ValueAt(ep, id, a) ==
  LET e == IF ep = Root THEN Root ELSE FindEndpointTypeData(ep)
      k == IF ep # Root /\ e = 0 THEN 0 ELSE FindClusterData(e, id)
      n == IF k = 0 THEN 0 ELSE FindAttributeData(mClusters[e][k], a)
  IN  IF n = 0 THEN Absent ELSE mClusters[e][k].mAttributes[n].mAttributeVal

(* A cluster has every attribute at most once.                              *)
AttributeOnce ==
  \A e \in DOMAIN mClusters : \A k \in 1..Len(mClusters[e]) :
    LET s == mClusters[e][k].mAttributes
    IN  \A i, j \in 1..Len(s) : s[i].mAttributeId = s[j].mAttributeId => i = j

(* The vectors, with entries duplicated by repeated descriptor reads and    *)
(* with a cluster listed as client and as server, behave as a map: what     *)
(* FindEndpointTypeData, FindClusterData and FindAttributeData lead to is   *)
(* the last value that UpdateClusterData accepted, and no attribute is      *)
(* there twice.  This is for one thread.                                    *)
ReadsLastReport ==
  /\ TreeTypeOK /\ AttributeOnce
  /\ \A ep \in Endpoint, id \in ClusterId, a \in Attr : ValueAt(ep, id, a) = latest[<<ep, id, a>>]

===============================================================================
