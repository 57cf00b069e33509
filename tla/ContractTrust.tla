--------------------------- MODULE ContractTrust ---------------------------
(***************************************************************************)
(* The checks that _verify_contracts makes on a trust root and on the      *)
(* contracts it authorises, as operators on parsed documents.  The order   *)
(* in which files are read, and what may change between two reads, is the  *)
(* business of ContextEvaluator; everything here is a pure function.       *)
(*                                                                         *)
(* ParseRoot[b] is Malformed (not a JSON object) or a record of the fields *)
(* of a trust root, with None, {} or <<>> for a field that is absent or    *)
(* has another type: schema, id, authority, target, policy, minEpoch,      *)
(* owners (a set), references (a set), manifest (a sequence of entries     *)
(* [path, digest], None in place of what is not a string of that form).    *)
(* ParseContract[b] is Malformed or a record of the keys present; a list   *)
(* of references is a set, or None if it is nothing to iterate over.       *)
(***************************************************************************)
EXTENDS ReleaseIdentity

CONSTANTS ParseRoot,      \* [Bytes -> trust roots and Malformed]
          ParseContract   \* [Bytes -> contracts and Malformed]

TrustRootSchema == "agent-context-trust-root-v0.2.0"

ContractPaths == <<"identity.json", "ontology.json", "ownership.json",
                   "policy.json">>
Contracts == {"identity.json", "ontology.json", "ownership.json",
              "policy.json"}

OntologyFields == {"id", "allowed_relations", "entity_kinds"}
PolicyFields == {"id", "epoch", "label", "requirements", "target_label",
                 "target_references"}
OwnershipFields == {"granted_by", "owner_id", "owner_label",
                    "target_references"}
RuleFields == {"check", "id", "label", "source"}

RequiredEntityKinds == {"authority", "evidence", "owner", "policy",
                        "release", "requirement", "trust-root"}
RequiredRelations == {<<"authority", "ATTESTS", "trust-root">>,
                      <<"trust-root", "AUTHORIZES_OWNER", "owner">>,
                      <<"trust-root", "AUTHORIZES_POLICY", "policy">>,
                      <<"policy", "GOVERNS", "release">>,
                      <<"release", "OWNED_BY", "owner">>,
                      <<"release", "RELEASE_REQUIRES", "requirement">>,
                      <<"requirement", "EVIDENCED_BY", "evidence">>,
                      <<"requirement", "BLOCKED_BY", "evidence">>}

(***************************************************************************)
(* The trust root alone: its own fields and its manifest.                  *)
(***************************************************************************)
HeaderIssues(root) ==
  Failed([schema    |-> root.schema = TrustRootSchema,
          authority |-> root.authority[1] = "authority",
          target    |-> root.target[1] = "release",
          policy    |-> root.policy \notin {None, ""},
          epoch     |-> root.minEpoch # None,
          owners    |-> root.owners # {}])

Acceptable(entry) == entry.path \in Contracts /\ entry.digest \in Bytes

(* An entry is taken unless an earlier one was taken for the same path.    *)
Accepted(manifest) ==
  {i \in DOMAIN manifest :
     /\ Acceptable(manifest[i])
     /\ \A j \in 1 .. i - 1 : Acceptable(manifest[j])
                                 => manifest[j].path # manifest[i].path}

Declared(manifest) == {manifest[i].path : i \in Accepted(manifest)}

ExpectedDigest(manifest, path) ==
  manifest[CHOOSE i \in Accepted(manifest) : manifest[i].path = path].digest

ManifestIssues(manifest) ==
  Failed([entries |-> Accepted(manifest) = DOMAIN manifest,
          omits   |-> Contracts = Declared(manifest)])

(* trusted_reference_matches.  A request is a record with its text and, if *)
(* it spells a canonical identifier, that identifier (None otherwise).     *)
Refers(asked, root) ==
  \/ asked.text \in {r.text : r \in root.references}
  \/ asked.id # None /\ asked.id = root.target

(***************************************************************************)
(* The documents against the trust root.                                   *)
(***************************************************************************)
DistinctRuleIds(rules) ==
  \A i, j \in DOMAIN rules : rules[i].id = rules[j].id => i = j

WellFormedRules(rules) == \A i \in DOMAIN rules : RuleFields \subseteq DOMAIN rules[i]

SchemaIssues(identity, ontology, ownership, policy) ==
  LET rules == Get(policy, "requirements", <<>>)
  IN  Failed([identity_schema  |-> IdentityFields \subseteq DOMAIN identity,
              ontology_schema  |-> OntologyFields \subseteq DOMAIN ontology,
              policy_schema    |-> PolicyFields \subseteq DOMAIN policy,
              ownership_schema |-> OwnershipFields \subseteq DOMAIN ownership,
              requirements     |-> rules # <<>>,
              rule             |-> WellFormedRules(rules),
              rule_ids         |-> WellFormedRules(rules) => DistinctRuleIds(rules),
              relations        |-> RequiredRelations \subseteq
                                     Get(ontology, "allowed_relations", {}),
              kinds            |-> RequiredEntityKinds \subseteq
                                     Get(ontology, "entity_kinds", {})])

AuthorityIssues(root, ownership, policy) ==
  Failed([active_policy |-> Get(policy, "id", None) = root.policy,
          policy_epoch  |-> Get(policy, "epoch", None) # None,
          owner         |-> Get(ownership, "owner_id", None) \in root.owners,
          grant         |-> Get(ownership, "granted_by", None) = root.authority])

StaleIssues(root, policy) ==
  Failed([epoch_floor |-> Get(policy, "epoch", None) # None
                            => policy.epoch >= root.minEpoch])

(* Both target references resolve, or the exception is caught as one issue. *)
TargetsResolvable(identity, ownership, policy) ==
  /\ Resolvable(identity)
  /\ Get(policy, "target_references", None) # None
  /\ Get(ownership, "target_references", None) # None

Agrees(resolution, root) ==
  resolution.status = "ambiguous" \/ resolution.canonical_id = root.target

TargetIssues(root, identity, ownership, policy) ==
  IF ~ TargetsResolvable(identity, ownership, policy) THEN {"identity_malformed"}
  ELSE Failed([policy_target |->
                 Agrees(Resolve(policy.target_references, identity), root),
               owner_target  |->
                 Agrees(Resolve(ownership.target_references, identity), root)])

AmbiguousIssues(identity, ownership, policy) ==
  IF ~ TargetsResolvable(identity, ownership, policy) THEN {}
  ELSE Failed([policy_identity |->
                 Resolve(policy.target_references, identity).status # "ambiguous",
               owner_identity  |->
                 Resolve(ownership.target_references, identity).status # "ambiguous"])

(* The trusted references are resolved outside the try block that covers   *)
(* the two resolutions above.                                              *)
ReferenceCheckRaises(root, identity) ==
  root.references # {} /\ ~ Resolvable(identity)

ReferenceIssues(root, identity) ==
  Failed([references |->
            /\ root.references # {}
            /\ \A r \in root.references :
                 Resolve({r}, identity).canonical_id = root.target])

(* What the documents add to the issues found before, by severity.         *)
DocumentIssues(root, identity, ontology, ownership, policy) ==
  [invalid   |-> SchemaIssues(identity, ontology, ownership, policy)
                   \cup AuthorityIssues(root, ownership, policy)
                   \cup TargetIssues(root, identity, ownership, policy)
                   \cup ReferenceIssues(root, identity),
   missing   |-> {},
   stale     |-> StaleIssues(root, policy),
   ambiguous |-> AmbiguousIssues(identity, ownership, policy)]

(* The names the checks above give to issues.                              *)
RootIssueNames == {"schema", "authority", "target", "policy", "epoch", "owners",
                   "entries", "omits"}
DocumentIssueNames ==
  {"identity_schema", "ontology_schema", "policy_schema", "ownership_schema",
   "requirements", "rule", "rule_ids", "relations", "kinds", "active_policy",
   "policy_epoch", "owner", "grant", "epoch_floor", "identity_malformed",
   "policy_target", "owner_target", "policy_identity", "owner_identity",
   "references"}

TrustStates == {"verified", "invalid", "missing", "stale", "ambiguous"}

(* The gravest kind of issue decides.                                      *)
TrustOf(issues) ==
  CASE issues.invalid # {}   -> "invalid"
    [] issues.invalid = {} /\ issues.missing # {} -> "missing"
    [] /\ issues.invalid = {} /\ issues.missing = {}
       /\ issues.stale # {}  -> "stale"
    [] /\ issues.invalid = {} /\ issues.missing = {} /\ issues.stale = {}
       /\ issues.ambiguous # {} -> "ambiguous"
    [] OTHER                 -> "verified"
============================================================================
