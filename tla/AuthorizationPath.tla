------------------------- MODULE AuthorizationPath -------------------------
(***************************************************************************)
(* The search for the canonical authorization path of one record of an     *)
(* authority bundle (_canonical_authorization_path): depth first from the  *)
(* record to the records that introduce its signer, on to theirs, down to  *)
(* an anchor, keeping the least path found to each record.                 *)
(*                                                                         *)
(* derive() calls itself; each of its calls and returns is a step here,    *)
(* with the frames of the calls that are active on `stack`.  Identifiers   *)
(* are numbers in the order of their code points; an identity is a value   *)
(* that stands for (issuer, lineage, epoch, key).                          *)
(***************************************************************************)
EXTENDS Integers, SequencesExt

CONSTANTS Ids,      \* the identifiers of records
          Bundles,  \* the bundles the search may run on, each with what an
                    \* oracle says of its records
          None

ASSUME IdsAssumption == Ids \subseteq Nat /\ None \notin Ids
ASSUME NoPathAssumption == None \notin Seq(Ids)

(* order is the order in which the records are met, all of them; decisive  *)
(* are the ones the oracle marks decisive, classification says what it     *)
(* makes of each.                                                          *)
ASSUME BundlesAssumption ==
  \A b \in Bundles :
    /\ DOMAIN b.records \subseteq Ids
    /\ b.order \in Seq(DOMAIN b.records)
    /\ \A id \in DOMAIN b.records : \E n \in DOMAIN b.order : b.order[n] = id
    /\ b.decisive \subseteq DOMAIN b.records

VARIABLES
  bundle,   \* the bundle at hand
  target,   \* the record whose path is asked for
  goal,     \* the record derive() was just called with, None otherwise
  answer,   \* what the last call returned: a path or None
  stack,    \* the active calls: [id, next, found]
  memo      \* the paths remembered, None for the records without one

searchVars == <<bundle, target, goal, answer, stack, memo>>

Records == bundle.records
Decisive == bundle.decisive
Classification == bundle.classification

-----------------------------------------------------------------------------

IsAnchor(id) == Records[id].kind \in {"trust_anchor", "recovery_anchor"}

(* The parent introduces the identity that signed the record.              *)
Introduces(parent, id) ==
  /\ ~ IsAnchor(id) /\ parent # id
  /\ parent \in Decisive /\ Classification[parent] = "VALID"
  /\ Records[parent].introduces = Records[id].signer
  /\ (Records[id].kind = "recovery") = (Records[parent].kind = "recovery_anchor")
  /\ Records[id].kind = "rotation" => Records[id].predecessor = parent

(* The order of Python's tuples.                                           *)
Before(p, q) ==
  \E i \in 1 .. Len(q) :
    /\ \A j \in 1 .. i - 1 : j <= Len(p) /\ p[j] = q[j]
    /\ i <= Len(p) => p[i] < q[i]

Top == stack[Len(stack)]
Active_Caller == IF stack = <<>> THEN {} ELSE {Top.id}   \* variant: only the caller

Active == {stack[i].id : i \in DOMAIN stack}

SearchInit ==
  /\ bundle \in Bundles
  /\ target \in DOMAIN bundle.records
  /\ goal = target /\ answer = None /\ stack = <<>>
  /\ memo = [id \in Ids |-> None]

Give(path) == goal' = None /\ answer' = path

Recall ==
  /\ goal # None /\ memo[goal] # None
  /\ Give(memo[goal])
  /\ UNCHANGED <<bundle, target, stack, memo>>

Known(id) == id \in Decisive /\ id \in DOMAIN Records

(* The record is being derived further up, or is not decisive.             *)
Refuse ==
  /\ goal # None /\ memo[goal] = None
  /\ goal \in Active \/ ~ Known(goal)
  /\ Give(None)
  /\ UNCHANGED <<bundle, target, stack, memo>>

ReachAnchor ==
  /\ goal # None /\ memo[goal] = None
  /\ goal \notin Active /\ Known(goal) /\ IsAnchor(goal)
  /\ Give(<<goal>>)
  /\ memo' = [memo EXCEPT ![goal] = <<goal>>]
  /\ UNCHANGED <<bundle, target, stack>>

Descend ==
  /\ goal # None /\ memo[goal] = None
  /\ goal \notin Active /\ Known(goal) /\ ~ IsAnchor(goal)
  /\ stack' = Append(stack, [id |-> goal, next |-> 1, found |-> {}])
  /\ Give(None)
  /\ UNCHANGED <<bundle, target, memo>>

(* What the active call has found, the answer it just got included.        *)
Found ==
  IF answer = None THEN Top.found ELSE Top.found \cup {Append(answer, Top.id)}

(* The loop goes on with the record at place n.                            *)
TryRecord(n) ==
  /\ goal' = bundle.order[n] /\ answer' = None
  /\ stack' = [stack EXCEPT ![Len(stack)] =
                 [id |-> Top.id, next |-> n + 1, found |-> Found]]
  /\ UNCHANGED <<bundle, target, memo>>

Remaining_First ==   \* variant: the loop ends at the first parent
  IF Top.next = 1 THEN 1 .. Len(bundle.order) ELSE {}

Remaining == Top.next .. Len(bundle.order)

IsParent(n) == Introduces(bundle.order[n], Top.id)

TryParent_Unclassified ==   \* variant: a parent need be neither decisive nor VALID
  /\ goal = None /\ stack # <<>>
  /\ \E n \in Remaining :
       /\ Records[bundle.order[n]].introduces = Records[Top.id].signer
       /\ \A m \in Top.next .. n - 1 :
            Records[bundle.order[m]].introduces # Records[Top.id].signer
       /\ TryRecord(n)

TryParent ==
  /\ goal = None /\ stack # <<>>
  /\ \E n \in Remaining :
       /\ IsParent(n) /\ \A m \in Top.next .. n - 1 : ~ IsParent(m)
       /\ TryRecord(n)

Exhausted == stack # <<>> /\ \A n \in Remaining : ~ IsParent(n)

ReturnLeast_Greatest ==   \* variant: the order is reversed
  /\ goal = None /\ Exhausted /\ Found # {}
  /\ \E path \in Found :
       /\ \A other \in Found : ~ Before(path, other)
       /\ Give(path) /\ memo' = [memo EXCEPT ![Top.id] = path]
  /\ stack' = Front(stack)
  /\ UNCHANGED <<bundle, target>>

ReturnLeast ==
  /\ goal = None /\ Exhausted /\ Found # {}
  /\ \E path \in Found :
       /\ \A other \in Found : ~ Before(other, path)
       /\ Give(path) /\ memo' = [memo EXCEPT ![Top.id] = path]
  /\ stack' = Front(stack)
  /\ UNCHANGED <<bundle, target>>

ReturnNothing_Retry ==   \* variant: a call that found nothing starts over
  /\ goal = None /\ Exhausted /\ Found = {}
  /\ Give(None)
  /\ stack' = [stack EXCEPT ![Len(stack)] = [Top EXCEPT !.next = 1]]
  /\ UNCHANGED <<bundle, target, memo>>

ReturnNothing ==
  /\ goal = None /\ Exhausted /\ Found = {}
  /\ Give(None)
  /\ stack' = Front(stack)
  /\ UNCHANGED <<bundle, target, memo>>

SearchStep ==
  \/ Recall
  \/ Refuse
  \/ ReachAnchor
  \/ Descend
  \/ TryParent
  \/ ReturnLeast
  \/ ReturnNothing

Finished == goal = None /\ stack = <<>>

SearchNext ==
  \/ SearchStep
  \/ Finished /\ UNCHANGED searchVars

SearchSpec == SearchInit /\ [][SearchNext]_searchVars
FairSearchSpec == SearchSpec /\ WF_searchVars(SearchNext)

-----------------------------------------------------------------------------
(* Reference definitions and properties.                                   *)

(* A path that leads from an anchor to the record, each member introducing *)
(* the signer of the next and none occurring twice.                        *)
Authorized(path, id) ==
  /\ path \in Seq(Ids) /\ path # <<>>
  /\ path[Len(path)] = id /\ id \in Decisive
  /\ IsAnchor(path[1])
  /\ \A i \in 1 .. Len(path) - 1 : Introduces(path[i], path[i + 1])
  /\ \A i, j \in DOMAIN path : path[i] = path[j] => i = j

(* All of them, by their length (at least one).                            *)
PathsOfLength[n \in Nat] ==
  IF n <= 1 THEN {<<id>> : id \in {a \in Decisive : IsAnchor(a)}}
  ELSE UNION {{Append(path, id) :
                 id \in {x \in Decisive : /\ Introduces(Last(path), x)
                                          /\ ~ Contains(path, x)}} :
               path \in PathsOfLength[n - 1]}

AllPaths == UNION {PathsOfLength[n] : n \in 1 .. Cardinality(Decisive)}
PathsTo(id) == {path \in AllPaths : Last(path) = id}

(* No path leads back into itself.                                         *)
Acyclic ==
  \A path \in AllPaths : \A i \in DOMAIN path : ~ Introduces(Last(path), path[i])

IsLeast(path, id) == \A other \in PathsTo(id) : ~ Before(other, path)

(* The path the search returns authorizes its record: it starts at an      *)
(* anchor of the right kind, every member introduces the signer of the     *)
(* next, all are decisive and all before the last VALID, and -- although   *)
(* remembered paths are put together across calls -- none occurs twice.    *)
PathIsAuthorized == Finished /\ answer # None => Authorized(answer, target)

(* The search gives up only on a record no path leads to, although it      *)
(* turns back whenever it meets a record it is already deriving.           *)
SearchIsComplete == Finished /\ answer = None => PathsTo(target) = {}

(* On introductions without a cycle the path returned is the least.        *)
LeastIfAcyclic ==
  Finished /\ answer # None /\ Acyclic => IsLeast(answer, target)

(* The search ends.                                                        *)
SearchEnds == <>Finished

(* What each of the nested calls has still to do, the outermost first: the *)
(* records it has not looked at, and its return; at the place after them   *)
(* stands the call just made.  Calls nest no deeper than there are records. *)
CallsLeft ==
  LET all == Len(bundle.order)
      depth == Len(stack)
  IN  [i \in 1 .. all + 1 |->
         CASE i <= depth -> all + 2 - stack[i].next
           [] i = depth + 1 /\ goal # None -> all + 2
           [] OTHER -> 0]

(* Lower at the first place where the two differ.                          *)
Lower(left, than) ==
  \E i \in DOMAIN than :
    left[i] < than[i] /\ \A j \in 1 .. i - 1 : left[j] = than[j]

(* "For multiple valid signer-introduction paths, choose the               *)
(* lexicographically least complete record-ID tuple" (PV3 in               *)
(* docs/proof-protocol.v0.3.md).                                           *)
PathIsCanonical == Finished /\ answer # None => IsLeast(answer, target)
============================================================================
