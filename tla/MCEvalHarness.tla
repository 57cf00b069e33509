--------------------------- MODULE MCEvalHarness ---------------------------
(***************************************************************************)
(* The demo repository and its contracts as they are in context/ and       *)
(* demo/repository, and the cases of evals/cases.jsonl.                    *)
(***************************************************************************)
EXTENDS EvalHarness, TLC

MCReview == "evidence/security-review.json"
MCTestRun == "evidence/test-run.json"
Artifact == "dist/orion-1.0.0.tgz"
ReleaseManifest == "release-manifest.json"
Service == "service.toml"
MCEvidencePaths == {MCReview, MCTestRun, Artifact, ReleaseManifest, Service}

Orion == [text |-> "Orion 1.0.0", version |-> "1.0.0", name |-> "orion"]
OrionService == [text |-> "orion-service-v1.0.0", version |-> "1.0.0",
                 name |-> "orion-service"]
MCOtherRelease == [text |-> "Orion 2.0.0", version |-> "2.0.0", name |-> "orion"]
MCStranger == <<"owner", "untrusted-release-bot">>

Approval(status) == [release_id |-> "release:orion:1.0.0", status |-> status]

Gates ==
  <<[id |-> <<"requirement", "artifact-bytes">>, label |-> "l",
     check |-> "path_exists", source |-> Artifact],
    [id |-> <<"requirement", "artifact-registration">>, label |-> "l",
     check |-> "json_array_contains", source |-> ReleaseManifest,
     selector |-> "artifacts", match_field |-> "path", expected |-> Artifact],
    [id |-> <<"requirement", "package-version">>, label |-> "l",
     check |-> "toml_field_equals", source |-> Service,
     selector |-> "project.version", expected |-> "1.0.0"],
    [id |-> <<"requirement", "security-review">>, label |-> "l",
     check |-> "json_fields_equal", source |-> MCReview,
     expected_fields |-> Approval("approved")],
    [id |-> <<"requirement", "test-run">>, label |-> "l",
     check |-> "json_fields_equal", source |-> MCTestRun,
     expected_fields |-> Approval("passed")]>>

PolicyOf(epoch, references, gates) ==
  [id |-> "orion-1.0.0-release-readiness", epoch |-> epoch, label |-> "p",
   target_label |-> "Orion 1.0.0", target_references |-> references,
   requirements |-> gates]

OwnershipOf(owner) ==
  [granted_by |-> <<"authority", "orion-governance-board">>, owner_id |-> owner,
   owner_label |-> "o", target_references |-> {Orion, OrionService}]

ContractBytes ==
  [identity  |-> [canonical_name |-> "orion", aliases |-> {"orion", "orion-service"}],
   ontology  |-> [id |-> "ontology", allowed_relations |-> RequiredRelations,
                  entity_kinds |-> RequiredEntityKinds],
   ownership |-> OwnershipOf(<<"owner", "release-council">>),
   ownership_stranger |-> OwnershipOf(MCStranger),
   policy    |-> PolicyOf(2, {Orion, OrionService}, Gates),
   policy_tampered  |-> PolicyOf(2, {Orion, OrionService},
                                 <<Gates[1], Gates[2], Gates[3], Gates[5]>>),
   policy_stale     |-> PolicyOf(1, {Orion, OrionService}, Gates),
   policy_ambiguous |-> PolicyOf(2, {Orion, OrionService, MCOtherRelease}, Gates)]

RootOf(ownership, policy) ==
  [schema |-> TrustRootSchema, id |-> <<"trust-root", "orion-release-governance">>,
   authority |-> <<"authority", "orion-governance-board">>,
   target |-> <<"release", "orion", "1.0.0">>,
   policy |-> "orion-1.0.0-release-readiness", minEpoch |-> 2,
   owners |-> {<<"owner", "release-council">>}, references |-> {Orion, OrionService},
   manifest |-> <<[path |-> "identity.json", digest |-> "identity"],
                  [path |-> "ontology.json", digest |-> "ontology"],
                  [path |-> "ownership.json", digest |-> ownership],
                  [path |-> "policy.json", digest |-> policy]>>]

RootBytes ==
  [root           |-> RootOf("ownership", "policy"),
   root_stale     |-> RootOf("ownership", "policy_stale"),
   root_ambiguous |-> RootOf("ownership", "policy_ambiguous"),
   root_stranger  |-> RootOf("ownership_stranger", "policy")]

EvidenceBytes ==
  [security |-> [fields |-> Approval("approved"), arrays |-> <<>>],
   tests    |-> [fields |-> Approval("passed"), arrays |-> <<>>],
   release  |-> [fields |-> <<>>, arrays |-> [artifacts |-> {[path |-> Artifact]}]]]

MCBytes == DOMAIN ContractBytes \cup DOMAIN RootBytes \cup DOMAIN EvidenceBytes
             \cup {"tgz", "toml", "not-json"}

Parsed(known) == [b \in MCBytes |-> IF b \in DOMAIN known THEN known[b] ELSE Malformed]

MCParseRoot == Parsed(RootBytes)
MCParseContract == Parsed(ContractBytes)
MCJson == Parsed(EvidenceBytes)
MCToml == Parsed([toml |-> ("project.version" :> "1.0.0")])
MCText == Parsed([toml |-> {}])

MCDemo ==
  (TrustRoot :> "root") @@ ("identity.json" :> "identity")
  @@ ("ontology.json" :> "ontology") @@ ("ownership.json" :> "ownership")
  @@ ("policy.json" :> "policy") @@ (Artifact :> "tgz")
  @@ (ReleaseManifest :> "release") @@ (Service :> "toml")
  @@ (MCReview :> "security") @@ (MCTestRun :> "tests")

CaseOf(fixture, decision, trust) ==
  [fixture |-> fixture, decision |-> decision, trust |-> trust]

AllCases ==
  <<CaseOf("complete", "READY", "verified"),
    CaseOf("missing_security", "HOLD", "verified"),
    CaseOf("malformed_test", "INDETERMINATE", "verified"),
    CaseOf("tampered_policy", "INDETERMINATE", "invalid"),
    CaseOf("stale_policy", "INDETERMINATE", "stale"),
    CaseOf("unauthorized_owner", "INDETERMINATE", "invalid"),
    CaseOf("ambiguous_identity", "INDETERMINATE", "ambiguous"),
    CaseOf("forged_security", "HOLD", "verified")>>

(* Each case on its own, and a run of a case to answer READY, one to hold   *)
(* and a hostile one.                                                      *)
RunsTaken == {<<AllCases[i]>> : i \in DOMAIN AllCases}
               \cup {<<AllCases[1], AllCases[2], AllCases[5]>>}

MCRequests == {[text |-> "Orion 1.0.0", id |-> None],
               [text |-> "Orion 2.0.0", id |-> None]}
============================================================================
