------------------------- MODULE MCContextEvaluator -------------------------
(***************************************************************************)
(* Instances of ContextEvaluator: a repository with two governed files and *)
(* the contracts and trust roots that publishers could leave in it.        *)
(***************************************************************************)
EXTENDS ContextEvaluator, TLC

MCEvidencePaths == {"dist/bundle", "evidence/review"}

(* References and identifiers.                                             *)
Orion1 == [text |-> "Orion 1.0.0", version |-> "1.0.0", name |-> "orion"]
Service1 == [text |-> "orion-service-v1.0.0", version |-> "1.0.0",
             name |-> "orion-service"]
Orion2 == [text |-> "Orion 2.0.0", version |-> "2.0.0", name |-> "orion"]
Vega == [text |-> "vega 3.0.0", version |-> "3.0.0", name |-> "vega"]
Versionless == [text |-> "orion", version |-> None, name |-> "orion"]

Release == <<"release", "orion", "1.0.0">>
Board == <<"authority", "board">>
Council == <<"owner", "council">>

(* Trust roots.                                                            *)
Manifest(identity, ontology, ownership, policy) ==
  <<[path |-> "identity.json", digest |-> identity],
    [path |-> "ontology.json", digest |-> ontology],
    [path |-> "ownership.json", digest |-> ownership],
    [path |-> "policy.json", digest |-> policy]>>

GoodManifest == Manifest("identity", "ontology", "ownership", "policy")

RootWith(manifest) ==
  [schema |-> TrustRootSchema, id |-> <<"trust-root", "orion">>,
   authority |-> Board, target |-> Release, policy |-> "readiness",
   minEpoch |-> 2, owners |-> {Council}, references |-> {Orion1, Service1},
   manifest |-> manifest]

GoodRoot == RootWith(GoodManifest)

Roots ==
  [root            |-> GoodRoot,
   root_next       |-> RootWith(Manifest("identity", "ontology", "ownership",
                                         "policy_next")),
   root_checks     |-> RootWith(Manifest("identity", "ontology", "ownership",
                                         "policy_checks")),
   root_epoch      |-> [RootWith(Manifest("identity", "ontology", "ownership",
                                  "policy_ambiguous")) EXCEPT !.minEpoch = 3],
   root_ambiguous  |-> RootWith(Manifest("identity", "ontology", "ownership",
                                         "policy_ambiguous")),
   root_collision  |-> RootWith(Manifest("identity", "ontology", "ownership",
                                         "policy_collision")),
   root_duplicate  |-> RootWith(Manifest("identity", "ontology", "ownership",
                                         "policy_duplicate")),
   root_bare       |-> RootWith(Manifest("identity_bare", "ontology",
                                         "ownership", "policy")),
   root_narrow     |-> RootWith(Manifest("identity", "ontology_narrow",
                                         "ownership", "policy")),
   root_odd        |-> RootWith(Manifest("identity_odd", "ontology",
                                         "ownership", "policy")),
   root_composite  |-> RootWith(Manifest("identity", "ontology_composite",
                                         "ownership", "policy")),
   root_selector   |-> RootWith(Manifest("identity", "ontology", "ownership",
                                         "policy_selector")),
   root_stranger   |-> RootWith(Manifest("identity", "ontology",
                                         "ownership_stranger", "policy")),
   root_bare_policy |-> RootWith(Manifest("identity", "ontology", "ownership",
                                          "policy_bare")),
   root_garbage    |-> RootWith(Manifest("identity", "ontology", "ownership",
                                         "garbage")),
   root_repeats    |-> RootWith(<<[path |-> "policy.json", digest |-> None]>>
                                \o GoodManifest
                                \o <<[path |-> "policy.json",
                                      digest |-> "policy_next"]>>),
   root_twins      |-> RootWith(Manifest("identity", "ontology", "ownership",
                                         "policy_twins")),
   root_vega       |-> [GoodRoot EXCEPT !.target = <<"release", "vega", "3.0.0">>,
                                        !.references = {Vega}],
   root_nameless   |-> [GoodRoot EXCEPT !.policy = ""],
   root_omits      |-> RootWith(Tail(GoodManifest)),
   root_schema     |-> [GoodRoot EXCEPT !.schema = "v0", !.owners = {}],
   root_target     |-> [GoodRoot EXCEPT !.target = <<"<untrusted>">>],
   root_references |-> [GoodRoot EXCEPT !.references = {Orion1, Vega}],
   root_silent     |-> [RootWith(Manifest("identity_bare", "ontology",
                             "ownership", "policy")) EXCEPT !.references = {}]]

(* Contracts.                                                              *)
Identity == [canonical_name |-> "orion", aliases |-> {"orion", "orion-service"}]
Ontology == [id |-> "ontology", allowed_relations |-> RequiredRelations,
             entity_kinds |-> RequiredEntityKinds]
Ownership == [granted_by |-> Board, owner_id |-> Council, owner_label |-> "c",
              target_references |-> {Orion1}]
PolicyWith(epoch, references, rules) ==
  [id |-> "readiness", epoch |-> epoch, label |-> "p", target_label |-> "t",
   target_references |-> references, requirements |-> rules]

BundleExists == [id |-> <<"requirement", "bundle">>, label |-> "l",
                 check |-> "path_exists", source |-> "dist/bundle"]
ReviewApproved == [id |-> <<"requirement", "review">>, label |-> "l",
                   check |-> "json_fields_equal", source |-> "evidence/review",
                   expected_fields |-> [status |-> "approved"]]
BundleListed == [id |-> <<"gate", "bundle">>, label |-> "l",
                 check |-> "json_array_contains", source |-> "evidence/review",
                 selector |-> "artifacts", match_field |-> "path",
                 expected |-> "dist/bundle"]
VersionMatches == [id |-> <<"requirement", "version">>, label |-> "l",
                   check |-> "toml_field_equals", source |-> "dist/bundle",
                   selector |-> "project.version", expected |-> "1.0.0"]
NotesComplete == [id |-> <<"notes">>, label |-> "l",
                  check |-> "text_contains_all", source |-> "evidence/review",
                  expected_values |-> {"approved by"}]
Unsafe == [BundleExists EXCEPT !.id = <<"requirement", "unsafe">>,
                               !.source = "../bundle"]
SignatureValid == [BundleExists EXCEPT !.id = <<"requirement", "signature">>,
                                       !.check = "signature_valid"]
NoSelector == [ReviewApproved EXCEPT !.id = <<"requirement", "selector">>,
                                    !.expected_fields = (None :> "approved")]
OddSelector == [NoSelector EXCEPT !.id = <<"requirement", "odd">>,
                  !.expected_fields = (None :> "approved") @@ ("status" :> "approved")]
EvidenceNamed == [BundleExists EXCEPT !.id = <<"evidence", "bundle">>]

Documented ==
  [identity           |-> Identity,
   identity_bare      |-> [canonical_name |-> "orion"],
   identity_odd       |-> [Identity EXCEPT !.aliases = None],
   ontology           |-> Ontology,
   ontology_composite |-> [Ontology EXCEPT !.allowed_relations =
                             @ \cup {<<"release", "NAMED", Composite>>}],
   ontology_narrow    |-> [Ontology EXCEPT !.allowed_relations =
                             @ \ {<<"requirement", "BLOCKED_BY", "evidence">>}],
   ownership          |-> Ownership,
   ownership_stranger |-> [Ownership EXCEPT !.owner_id = <<"owner", "x">>,
                                            !.target_references = {Versionless}],
   policy             |-> PolicyWith(2, {Orion1, Service1},
                                     <<BundleExists, ReviewApproved>>),
   policy_next        |-> PolicyWith(3, {Orion1, Vega}, <<ReviewApproved>>),
   policy_checks      |-> PolicyWith(2, {Service1},
                            <<BundleListed, VersionMatches, NotesComplete,
                              Unsafe, SignatureValid>>),
   policy_ambiguous   |-> PolicyWith(2, {Orion1, Orion2}, <<BundleExists>>),
   policy_collision   |-> PolicyWith(2, {Orion1},
                                     <<EvidenceNamed, ReviewApproved>>),
   policy_twins       |-> PolicyWith(2, {Orion1}, <<BundleExists, BundleListed>>),
   policy_selector    |-> PolicyWith(2, {Orion1}, <<OddSelector, NoSelector>>),
   policy_bare        |-> [id |-> "readiness", requirements |-> <<[id |-> <<"x">>]>>],
   policy_duplicate   |-> PolicyWith(2, {Orion1}, <<BundleExists, BundleExists>>)]

MCIdentifiers ==
  {r.id : r \in {BundleExists, ReviewApproved, BundleListed, VersionMatches,
                 NotesComplete, Unsafe, SignatureValid, EvidenceNamed, NoSelector,
                 OddSelector}}
    \cup {<<"x">>}

(* Evidence: an approved review, one that waits, and a release manifest.   *)
Reviews ==
  [approved |-> [fields |-> [status |-> "approved"],
                 arrays |-> [artifacts |-> {[path |-> "dist/bundle"]}]],
   waiting  |-> [fields |-> [other |-> "x"], arrays |-> [artifacts |-> {}]]]

MCBytes == DOMAIN Roots \cup DOMAIN Documented \cup DOMAIN Reviews
             \cup {"bundle", "garbage"}

Parsed(known) == [b \in MCBytes |-> IF b \in DOMAIN known THEN known[b] ELSE Malformed]

MCParseRoot == Parsed(Roots)
MCParseContract == Parsed(Documented)
MCJson == Parsed(Reviews)
MCToml == Parsed([bundle |-> ("project.version" :> "1.0.0")])
MCText == Parsed([approved |-> {"approved by"}, waiting |-> {}])

(* Trees, by what each path may hold at the start.                         *)
TreesOver(held) ==
  {("trust-root.json" :> r) @@ ("identity.json" :> i) @@ ("ontology.json" :> o)
       @@ ("ownership.json" :> w) @@ ("policy.json" :> p)
       @@ ("dist/bundle" :> b) @@ ("evidence/review" :> v) :
        r \in held.root, i \in held.identity, o \in held.ontology,
        w \in held.ownership, p \in held.policy, b \in held.bundle,
        v \in held.review}

(* Every trust root over every mixture of contracts, with all evidence,    *)
(* and the mixtures of files that cannot be read or are oddly typed.       *)
SealedTrees ==
  TreesOver([root      |-> DOMAIN Roots \cup {"garbage", Absent, Directory},
             identity  |-> {"identity", "identity_bare", Absent},
             ontology  |-> {"ontology", "ontology_narrow", "garbage"},
             ownership |-> {"ownership", "ownership_stranger"},
             policy    |-> {"policy", "policy_next", "policy_checks",
                           "policy_ambiguous", "policy_collision",
                           "policy_duplicate", "policy_twins", "policy_bare", "garbage", Absent},
             bundle    |-> {"bundle", "garbage", Absent, Directory},
             review    |-> {"approved", "waiting", "garbage", Absent}])
  \cup
  TreesOver([root      |-> {"root", "root_odd", "root_composite", "root_selector",
                           "root_schema", "root_omits", Unreadable, Inaccessible},
             identity  |-> {"identity", "identity_odd", Unreadable},
             ontology  |-> {"ontology", "ontology_composite", Inaccessible},
             ownership |-> {"ownership"},
             policy    |-> {"policy", "policy_selector", Unreadable},
             bundle    |-> {"bundle", Unreadable, Inaccessible},
             review    |-> {"approved", "garbage", Unreadable, Inaccessible}])

OddTrees(root, identity, ontology, policy) ==
  TreesOver([root |-> {root}, identity |-> {identity}, ontology |-> {ontology},
             ownership |-> {"ownership"}, policy |-> {policy},
             bundle |-> {"bundle"}, review |-> {"approved"}])

(* A tree that is consistent at the start, with a review that may not be   *)
(* right, or with one contract that is oddly typed.                        *)
LiveTrees ==
  TreesOver([root |-> {"root", "root_bare"}, identity |-> {"identity", "identity_bare"},
             ontology |-> {"ontology"}, ownership |-> {"ownership"},
             policy |-> {"policy"}, bundle |-> {"bundle"},
             review |-> {"approved", "waiting", "garbage"}])
  \cup OddTrees("root_odd", "identity_odd", "ontology", "policy")
  \cup OddTrees("root_composite", "identity", "ontology_composite", "policy")
  \cup OddTrees("root_selector", "identity", "ontology", "policy_selector")

NoChanges == [f \in Files |-> {}]

LiveContents ==
  ("trust-root.json" :> {"root", "root_next", Unreadable, Absent})
  @@ ("identity.json" :> {"identity_bare", Inaccessible})
  @@ ("ontology.json" :> {"ontology", "garbage"})
  @@ ("ownership.json" :> {"ownership_stranger", Unreadable})
  @@ ("policy.json" :> {"policy", "policy_collision", "policy_next", Absent})
  @@ ("dist/bundle" :> {"bundle", Absent, Directory, Unreadable})
  @@ ("evidence/review" :> {"approved", "waiting", Absent, Inaccessible})
=============================================================================
