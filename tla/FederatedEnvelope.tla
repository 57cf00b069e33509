------------------------- MODULE FederatedEnvelope -------------------------
(***************************************************************************)
(* One call of evaluate_federated_context_envelope: evaluate the context,  *)
(* read the policy contract once more for its digest, and wrap the report  *)
(* for another organisation, or refuse to.  The evaluation is              *)
(* ContextEvaluator, step by step, on files that may change at any time.   *)
(*                                                                         *)
(* Times are whole seconds.  A call is a record of the caller's arguments: *)
(* created, expires, the limitations the caller states, and whether all    *)
(* else is well formed (a synthetic subject, a purpose, an audience,       *)
(* instants with a time zone, no blank limitation or disagreement).        *)
(***************************************************************************)
EXTENDS ContextEvaluator

CONSTANT Calls   \* the arguments a caller may give

ASSUME CallsAssumption ==
  Calls \subseteq [created : Int, expires : Int, wellFormed : BOOLEAN,
                   limitations : SUBSET STRING]

VARIABLES
  call,      \* the arguments of the call
  outcome,   \* "pending", "built" or "refused" (FederationEnvelopeError)
  envelope   \* the envelope returned, None before

federationVars == <<vars, call, outcome, envelope>>

FederationInit ==
  /\ Init
  /\ call \in Calls /\ outcome = "pending" /\ envelope = None

EvaluateSource ==
  Evaluate /\ UNCHANGED <<call, outcome, envelope>>

-----------------------------------------------------------------------------

TransportableTrustStates == {"verified", "invalid", "stale", "ambiguous"}

(* Blank names are refused; those of a root that was not read are not.     *)
NamesGiven(root) == root.policy # "" /\ root.id # <<"">> /\ root.target # <<"">>

Named_Verified ==   \* variant: only the names of a verified root are looked at
  trust = "verified" => NamesGiven(Root)

Named == rootBytes # None => NamesGiven(Root)

Representable_Instant ==   \* variant: an envelope may expire when created
  /\ trust \in TransportableTrustStates
  /\ call.wellFormed /\ call.created <= call.expires
  /\ Named

Representable ==
  /\ trust \in TransportableTrustStates
  /\ call.wellFormed /\ call.created < call.expires
  /\ Named

SourceReferences ==
  UNION {{[id |-> evidence[i].id, sha256 |-> d] : d \in evidence[i].digests} :
           i \in DOMAIN evidence}

EvidenceReferences_Last ==   \* variant: the list is overwritten, not extended
  IF evidence = <<>> \/ evidence[Len(evidence)].digests = {}
  THEN {[id |-> <<"context-report">>, sha256 |-> None]}
  ELSE {[id |-> evidence[Len(evidence)].id, sha256 |-> d] :
          d \in evidence[Len(evidence)].digests}

(* Without any digest the envelope refers to the report (whose own digest  *)
(* None stands for).                                                       *)
EvidenceReferences ==
  IF SourceReferences = {}
  THEN {[id |-> <<"context-report">>, sha256 |-> None]}
  ELSE SourceReferences

Limitations ==
  call.limitations
    \cup {"no downstream authority"}
    \cup (IF decision = "HOLD" THEN {"unresolved requirements"} ELSE {})
    \cup (IF decision = "INDETERMINATE" THEN {"no downstream reliance"} ELSE {})

EnvelopeWith(policyDigest) ==
  [decision |-> decision, trust |-> trust,
   policy |-> [id |-> IF rootBytes = None THEN None ELSE Root.policy,
               sha256 |-> policyDigest],
   evidence |-> EvidenceReferences,
   authority |-> rootDigest,
   limitations |-> Limitations,
   created |-> call.created, expires |-> call.expires]

(* is_envelope_expired                                                     *)
Expired(sent, now) == now >= sent.expires

Wrap_Hasty ==   \* variant: that the policy contract is still there is not checked
  /\ pc = "reported" /\ outcome = "pending"
  /\ IF Representable
     THEN /\ envelope' = EnvelopeWith(FileDigest(disk["policy.json"]))
          /\ outcome' = "built"
     ELSE /\ outcome' = "refused"
          /\ UNCHANGED envelope
  /\ UNCHANGED <<vars, call>>

Wrap ==
  /\ pc = "reported" /\ outcome = "pending"
  /\ \/ /\ Readable("policy.json") /\ Representable
        /\ envelope' = EnvelopeWith(FileDigest(disk["policy.json"]))
        /\ outcome' = "built"
     \/ /\ ~ (Readable("policy.json") /\ Representable)
        /\ outcome' = "refused"
        /\ UNCHANGED envelope
  /\ UNCHANGED <<vars, call>>

-----------------------------------------------------------------------------

ChangeUnderCall(file, content) ==
  Change(file, content) /\ UNCHANGED <<call, outcome, envelope>>

FederationEnded == outcome # "pending" \/ pc = "raised"

FederationNext ==
  \/ EvaluateSource
  \/ Wrap
  \/ \E file \in Files : \E content \in Contents[file] :
       ChangeUnderCall(file, content)
  \/ FederationEnded /\ UNCHANGED federationVars

FederationSpec == FederationInit /\ [][FederationNext]_federationVars

-----------------------------------------------------------------------------
(* Properties.                                                             *)

(* A READY that leaves the organisation is backed: by verified contracts,  *)
(* and for every requirement of the policy by a reference to a content its *)
(* source had during the call.  Every other decision says on the envelope  *)
(* itself that it cannot be relied on; and no decision loses a limitation, *)
(* neither one the caller stated nor that an envelope grants nothing.      *)
ReadyEnvelopeIsBacked ==
  outcome = "built" =>
    /\ call.limitations \cup {"no downstream authority"} \subseteq envelope.limitations
    /\ IF envelope.decision = "READY"
       THEN /\ trust = "verified" /\ envelope.trust = "verified"
            /\ Rules # <<>>
            /\ \A i \in DOMAIN Rules :
                 \E ref \in envelope.evidence :
                   /\ ref.id = <<"evidence", Suffix(Rules[i].id)>>
                   /\ ref.sha256 \in seen[Rules[i].source]
       ELSE \/ "unresolved requirements" \in envelope.limitations
            \/ "no downstream reliance" \in envelope.limitations

(* The policy digest of an envelope comes from a read after the            *)
(* evaluation, so it may be of another policy than the one that decided.   *)
(* What it binds is still this call: both digests are of content their     *)
(* files had during it, so is what the root declares of the policy, and    *)
(* the receiver of a verified envelope whose policy digest is not the      *)
(* declared one knows that the policy was replaced meanwhile.              *)
EnvelopeBindsTheCall ==
  outcome = "built" =>
    /\ envelope.policy.sha256 \in seen["policy.json"] \cap Bytes
    /\ envelope.authority \in seen[TrustRoot] \cup {None}
    /\ envelope.trust = "verified" =>
         /\ envelope.authority # None
         /\ ExpectedDigest(Root.manifest, "policy.json") \in seen["policy.json"]

(* What can be sent from a tree of files that holds still: a trust state   *)
(* that can be transported, under a root whose names are not blank, with a *)
(* policy contract to refer to, and for arguments that are in order.       *)
Sendable(tree) ==
  /\ TrustOn(tree) \notin {"missing", "raises"}
  /\ Loadable(tree[TrustRoot]) => NamesGiven(ParseRoot[tree[TrustRoot]])
  /\ tree["policy.json"] \in Bytes
  /\ call.wellFormed /\ call.created < call.expires

(* If no file changed, the outcome is exact: an envelope is built if what  *)
(* was asked for can be sent and refused if it cannot, and one that is     *)
(* built binds the decision on the files, for the lifetime the caller gave *)
(* it, to the trust root and the policy contract among them.               *)
UndisturbedEnvelopeIsExact ==
  writes = 0 =>
    /\ outcome = "refused" => ~ Sendable(disk)
    /\ outcome = "built" =>
         /\ Sendable(disk)
         /\ envelope.trust = TrustOn(disk)
         /\ envelope.decision = DecisionOn(disk)
         /\ envelope.policy.sha256 = disk["policy.json"]
         /\ envelope.authority = disk[TrustRoot]
         /\ envelope.created = call.created /\ envelope.expires = call.expires

(* An envelope lives: it is not yet expired at the second it was created,  *)
(* and expired at the second it declares.                                  *)
LifetimeIsReal ==
  outcome = "built" => /\ ~ Expired(envelope, envelope.created)
                       /\ Expired(envelope, envelope.expires)
============================================================================
