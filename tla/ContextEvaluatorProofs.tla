----------------------- MODULE ContextEvaluatorProofs -----------------------
(***************************************************************************)
(* Proofs about ContextEvaluator, for every set of files and contents,     *)
(* every parser and every number of changes to the files during the call:  *)
(* types, what stands behind evidence and READY, and that every step of a  *)
(* call leaves less to do.                                                 *)
(***************************************************************************)
EXTENDS ContextEvaluator, SequenceTheorems, TLAPS

Trusting == {"root_file", "root_digest", "root_load", "contract_file",
             "contract_digest", "contract_load", "settle"}
Judging == {"evidence_path", "evidence_kind", "evidence_digest",
            "evidence_content", "decide"}

-----------------------------------------------------------------------------
(* Facts about the operators the evaluator is built from.                  *)

LEMMA PathsAreContracts ==
  /\ Len(ContractPaths) = 4
  /\ \A i \in 1 .. 4 : ContractPaths[i] \in Contracts
  /\ \A c \in Contracts : \E i \in 1 .. 4 : ContractPaths[i] = c
BY DEF ContractPaths, Contracts

(* A check yields one of the four states a requirement may be in.          *)
LEMMA CheckContentType ==
  ASSUME NEW rule, NEW bytes
  PROVE  CheckContent(rule, bytes) \in States
BY DEF CheckContent, TomlFieldEquals, JsonFieldsEqual, JsonArrayContains,
       TextContainsAll, Verdict, States

LEMMA TrustOfType ==
  ASSUME NEW found
  PROVE  TrustOf(found) \in TrustStates
BY DEF TrustOf, TrustStates

(* Contracts are verified only when no issue of any severity was found.    *)
LEMMA VerifiedMeansNoIssues ==
  ASSUME NEW found \in IssueSets, TrustOf(found) = "verified"
  PROVE  found = NoIssues
<1>1. /\ found.invalid = {} /\ found.missing = {}
      /\ found.stale = {} /\ found.ambiguous = {}
  BY DEF TrustOf
<1> QED BY <1>1 DEF IssueSets, NoIssues

LEMMA DocumentIssuesType ==
  ASSUME NEW root, NEW identity, NEW ontology, NEW ownership, NEW policy
  PROVE  DocumentIssues(root, identity, ontology, ownership, policy) \in IssueSets
<1>1. SchemaIssues(identity, ontology, ownership, policy) \subseteq DocumentIssueNames
  BY DEF SchemaIssues, Failed, DocumentIssueNames
<1>2. AuthorityIssues(root, ownership, policy) \subseteq DocumentIssueNames
  BY DEF AuthorityIssues, Failed, DocumentIssueNames
<1>3. TargetIssues(root, identity, ownership, policy) \subseteq DocumentIssueNames
  BY DEF TargetIssues, Failed, DocumentIssueNames
<1>4. ReferenceIssues(root, identity) \subseteq DocumentIssueNames
  BY DEF ReferenceIssues, Failed, DocumentIssueNames
<1>5. StaleIssues(root, policy) \subseteq DocumentIssueNames
  BY DEF StaleIssues, Failed, DocumentIssueNames
<1>6. AmbiguousIssues(identity, ownership, policy) \subseteq DocumentIssueNames
  BY DEF AmbiguousIssues, Failed, DocumentIssueNames
<1> QED
  BY <1>1, <1>2, <1>3, <1>4, <1>5, <1>6 DEF DocumentIssues, IssueSets, Issues

LEMMA RootIssuesType ==
  ASSUME NEW root
  PROVE  HeaderIssues(root) \cup ManifestIssues(root.manifest) \subseteq Issues
<1>1. HeaderIssues(root) \subseteq RootIssueNames
  <2> DEFINE checks == [schema    |-> root.schema = TrustRootSchema,
                        authority |-> root.authority[1] = "authority",
                        target    |-> root.target[1] = "release",
                        policy    |-> root.policy \notin {None, ""},
                        epoch     |-> root.minEpoch # None,
                        owners    |-> root.owners # {}]
  <2>1. DOMAIN checks \subseteq RootIssueNames
    BY DEF RootIssueNames
  <2>2. HeaderIssues(root) = Failed(checks)
    BY DEF HeaderIssues
  <2> HIDE DEF checks
  <2> QED BY <2>1, <2>2 DEF Failed
<1>2. ManifestIssues(root.manifest) \subseteq RootIssueNames
  BY DEF ManifestIssues, Failed, RootIssueNames
<1> QED BY <1>1, <1>2 DEF Issues

(* A check whose name is not among the failed ones holds.                  *)
LEMMA NoneFailed ==
  ASSUME NEW checks, Failed(checks) = {}
  PROVE  \A c \in DOMAIN checks : checks[c]
BY DEF Failed

(* A manifest without issues declares every contract.                      *)
LEMMA CompleteManifest ==
  ASSUME NEW manifest, ManifestIssues(manifest) = {}
  PROVE  Declared(manifest) = Contracts
<1> DEFINE checks == [entries |-> Accepted(manifest) = DOMAIN manifest,
                      omits   |-> Contracts = Declared(manifest)]
<1>1. \A c \in DOMAIN checks : checks[c]
  BY NoneFailed DEF ManifestIssues
<1>2. "omits" \in DOMAIN checks
  OBVIOUS
<1>3. checks["omits"] = (Contracts = Declared(manifest))
  OBVIOUS
<1> QED BY <1>1, <1>2, <1>3

(* What documents without issues satisfy.                                  *)
Sound(root, identity, policy) ==
  /\ "requirements" \in DOMAIN policy
  /\ policy.requirements # <<>>
  /\ WellFormedRules(policy.requirements)
  /\ policy.id = root.policy
  /\ policy.epoch >= root.minEpoch
  /\ Resolve(policy.target_references, identity).canonical_id = root.target

LEMMA DocumentsWithoutIssues ==
  ASSUME NEW root, NEW identity, NEW ontology, NEW ownership, NEW policy,
         DocumentIssues(root, identity, ontology, ownership, policy) = NoIssues
  PROVE  Sound(root, identity, policy)
<1>1. /\ SchemaIssues(identity, ontology, ownership, policy) = {}
      /\ AuthorityIssues(root, ownership, policy) = {}
      /\ TargetIssues(root, identity, ownership, policy) = {}
      /\ StaleIssues(root, policy) = {}
      /\ AmbiguousIssues(identity, ownership, policy) = {}
  <2>1. /\ DocumentIssues(root, identity, ontology, ownership, policy).invalid = {}
        /\ DocumentIssues(root, identity, ontology, ownership, policy).stale = {}
        /\ DocumentIssues(root, identity, ontology, ownership, policy).ambiguous = {}
    BY DEF NoIssues
  <2> QED BY <2>1 DEF DocumentIssues
<1>2. /\ PolicyFields \subseteq DOMAIN policy
      /\ Get(policy, "requirements", <<>>) # <<>>
      /\ WellFormedRules(Get(policy, "requirements", <<>>))
  <2> DEFINE rules == Get(policy, "requirements", <<>>)
             checks ==
               [identity_schema  |-> IdentityFields \subseteq DOMAIN identity,
                ontology_schema  |-> OntologyFields \subseteq DOMAIN ontology,
                policy_schema    |-> PolicyFields \subseteq DOMAIN policy,
                ownership_schema |-> OwnershipFields \subseteq DOMAIN ownership,
                requirements     |-> rules # <<>>,
                rule             |-> WellFormedRules(rules),
                rule_ids         |-> WellFormedRules(rules) => DistinctRuleIds(rules),
                relations        |-> RequiredRelations \subseteq
                                       Get(ontology, "allowed_relations", {}),
                kinds            |-> RequiredEntityKinds \subseteq
                                       Get(ontology, "entity_kinds", {})]
  <2>1. \A c \in DOMAIN checks : checks[c]
    BY <1>1, NoneFailed DEF SchemaIssues
  <2>2. {"policy_schema", "requirements", "rule"} \subseteq DOMAIN checks
    OBVIOUS
  <2>3. /\ checks["policy_schema"] = (PolicyFields \subseteq DOMAIN policy)
        /\ checks["requirements"] = (rules # <<>>)
        /\ checks["rule"] = WellFormedRules(rules)
    OBVIOUS
  <2> HIDE DEF checks
  <2> QED BY <2>1, <2>2, <2>3
<1>3. "requirements" \in DOMAIN policy /\ "epoch" \in DOMAIN policy
      /\ "id" \in DOMAIN policy
  BY <1>2 DEF PolicyFields
<1>4. policy.id = root.policy /\ policy.epoch # None
  <2> DEFINE checks ==
        [active_policy |-> Get(policy, "id", None) = root.policy,
         policy_epoch  |-> Get(policy, "epoch", None) # None,
         owner         |-> Get(ownership, "owner_id", None) \in root.owners,
         grant         |-> Get(ownership, "granted_by", None) = root.authority]
  <2>1. \A c \in DOMAIN checks : checks[c]
    BY <1>1, NoneFailed DEF AuthorityIssues
  <2>2. {"active_policy", "policy_epoch"} \subseteq DOMAIN checks
    OBVIOUS
  <2>3. /\ checks["active_policy"] = (Get(policy, "id", None) = root.policy)
        /\ checks["policy_epoch"] = (Get(policy, "epoch", None) # None)
    OBVIOUS
  <2> HIDE DEF checks
  <2> QED BY <1>3, <2>1, <2>2, <2>3 DEF Get
<1>5. policy.epoch >= root.minEpoch
  <2> DEFINE checks == [epoch_floor |-> Get(policy, "epoch", None) # None
                                          => policy.epoch >= root.minEpoch]
  <2>1. \A c \in DOMAIN checks : checks[c]
    BY <1>1, NoneFailed DEF StaleIssues
  <2>2. "epoch_floor" \in DOMAIN checks
    OBVIOUS
  <2>3. checks["epoch_floor"] = (Get(policy, "epoch", None) # None
                                   => policy.epoch >= root.minEpoch)
    OBVIOUS
  <2> HIDE DEF checks
  <2> QED BY <1>3, <1>4, <2>1, <2>2, <2>3 DEF Get
<1>6. TargetsResolvable(identity, ownership, policy)
  BY <1>1 DEF TargetIssues
<1>7. Agrees(Resolve(policy.target_references, identity), root)
  <2> DEFINE checks ==
        [policy_target |-> Agrees(Resolve(policy.target_references, identity), root),
         owner_target  |-> Agrees(Resolve(ownership.target_references, identity), root)]
  <2>1. \A c \in DOMAIN checks : checks[c]
    BY <1>1, <1>6, NoneFailed DEF TargetIssues
  <2>2. "policy_target" \in DOMAIN checks
    OBVIOUS
  <2>3. checks["policy_target"]
          = Agrees(Resolve(policy.target_references, identity), root)
    OBVIOUS
  <2> HIDE DEF checks
  <2> QED BY <2>1, <2>2, <2>3
<1>8. Resolve(policy.target_references, identity).status # "ambiguous"
  <2> DEFINE checks ==
        [policy_identity |->
           Resolve(policy.target_references, identity).status # "ambiguous",
         owner_identity  |->
           Resolve(ownership.target_references, identity).status # "ambiguous"]
  <2>1. \A c \in DOMAIN checks : checks[c]
    BY <1>1, <1>6, NoneFailed DEF AmbiguousIssues
  <2>2. "policy_identity" \in DOMAIN checks
    OBVIOUS
  <2>3. checks["policy_identity"]
          = (Resolve(policy.target_references, identity).status # "ambiguous")
    OBVIOUS
  <2> HIDE DEF checks
  <2> QED BY <2>1, <2>2, <2>3
<1> QED BY <1>2, <1>3, <1>4, <1>5, <1>7, <1>8 DEF Sound, Agrees, Get

-----------------------------------------------------------------------------
(* The inductive invariant.  Its parts follow the call: which step may run *)
(* when, what the trust root and the digests established, what is loaded,  *)
(* and what a verified trust stands for.                                   *)

Contained == \A f \in Files : disk[f] \in seen[f]

Order ==
  /\ pc \in Trusting => trust = None
  /\ pc \in Judging => trust = "verified"
  /\ decision # None => pc = "reported"
  /\ trust # "verified" => /\ digests = {} /\ evidence = <<>>
                           /\ decision # "READY"
  /\ pc \in {"contract_file", "contract_digest", "contract_load"} => at \in 1 .. 4
  /\ pc = "settle" => at = 1
  /\ pc \in Judging \ {"decide"} => at \in 1 .. Len(Rules)

(* The trust root was parsed, and what is wrong with it is on record.      *)
RootKnown ==
  pc \in {"contract_file", "contract_digest", "contract_load", "settle"} \cup Judging
    => /\ rootBytes \in Bytes
       /\ ManifestIssues(Root.manifest) \subseteq issues.invalid

(* A contract the manifest declares is verified or an issue is on record.  *)
Accounted(c) ==
  c \in Declared(Root.manifest) =>
    c \in verified \cup issues.missing \cup issues.invalid

ContractsKnown ==
  /\ pc \in {"root_file", "root_digest", "root_load"} => verified = {}
  /\ \A c \in verified : /\ c \in Declared(Root.manifest)
                         /\ ExpectedDigest(Root.manifest, c) \in seen[c]
  /\ pc = "contract_digest" => Path \in Declared(Root.manifest)
  /\ pc \in {"contract_file", "contract_digest"} =>
       \A j \in 1 .. 4 : j < at => Accounted(ContractPaths[j])
  /\ pc = "contract_load" => verified = Contracts
  /\ pc = "settle" /\ ~ Blocking(issues) => verified = Contracts

Loaded(c) ==
  documents[c] \in Bytes /\ ParseContract[documents[c]] # Malformed

DocumentsKnown ==
  /\ pc = "contract_load" /\ ~ Blocking(issues) =>
       \A j \in 1 .. 4 : j < at => Loaded(ContractPaths[j])
  /\ pc = "settle" /\ ~ Blocking(issues) => \A c \in Contracts : Loaded(c)

(* Past the first test of a requirement, its source is inside the tree.    *)
Safe ==
  pc \in {"evidence_kind", "evidence_digest", "evidence_content"} => SafeSource

(* No evidence was judged but by the rules of the verified policy.         *)
TrustEarned ==
  trust = "verified" =>
    /\ issues = NoIssues /\ verified = Contracts /\ rootBytes \in Bytes
    /\ \A c \in Contracts : Loaded(c)
    /\ Sound(Root, Document("identity.json"), Document("policy.json"))
    /\ \A i \in DOMAIN evidence : i <= Len(Rules) /\ evidence[i].requirement = Rules[i].id
    /\ pc \in Judging \ {"decide"} => Len(evidence) = at - 1
    /\ pc \in {"decide"} => Len(evidence) = Len(Rules)

Decided ==
  decision = "READY" =>
    /\ Len(evidence) = Len(Rules)
    /\ \A i \in DOMAIN evidence : evidence[i].state = "satisfied"

Inv == /\ TypeOK /\ Contained /\ Order /\ RootKnown
       /\ ContractsKnown /\ DocumentsKnown /\ TrustEarned /\ Decided

USE PathsAreContracts

LEMMA InitInv == Init => Inv
<1> SUFFICES ASSUME Init PROVE Inv
  OBVIOUS
<1>1. disk \in [Files -> Entries]
  BY TreesAssumption DEF Init
<1>2. TypeOK
  BY <1>1, MaxWritesAssumption
  DEF Init, TypeOK, Steps, NoIssues, IssueSets, Entries
<1>3. Contained /\ Order /\ RootKnown /\ ContractsKnown
  BY NotAFileAssumption, NoneAssumption
  DEF Init, TrustStates, Decisions, Contained, Order, RootKnown, ContractsKnown, Trusting, Judging
<1>4. DocumentsKnown /\ TrustEarned /\ Decided
  BY NoneAssumption
  DEF Init, TrustStates, Decisions, DocumentsKnown, TrustEarned, Decided
<1> QED BY <1>2, <1>3, <1>4 DEF Inv

(* A change of the files touches nothing the call knows, and what a path   *)
(* has held so far it has held ever since.                                 *)
LEMMA ChangeInv ==
  ASSUME Inv, NEW file \in Files, NEW content \in Contents[file],
         Change(file, content)
  PROVE  Inv'
<1>1. /\ UNCHANGED <<pc, at, rootDigest, rootBytes, verified, documents, issues,
                     trust, digests, evidence, decision>>
      /\ disk' = [disk EXCEPT ![file] = content]
      /\ seen' = [seen EXCEPT ![file] = @ \cup {content}]
      /\ writes' = writes + 1 /\ writes < MaxWrites
  BY DEF Change, callVars
<1>2. content \in Entries
  BY ContentsAssumption
<1>3. TypeOK'
  BY <1>1, <1>2, MaxWritesAssumption DEF Inv, TypeOK
<1>4. Contained'
  BY <1>1 DEF Inv, TypeOK, Contained
<1>5. \A f \in Files : seen[f] \subseteq seen'[f]
  BY <1>1 DEF Inv, TypeOK
<1>6. Contracts \subseteq Files
  BY DEF Files
<1>7. /\ Root' = Root /\ Rules' = Rules /\ Path' = Path
      /\ Blocking(issues)' = Blocking(issues)
      /\ \A c : Document(c)' = Document(c)
  BY <1>1 DEF Root, Rules, Document, Path, Blocking
<1>8. Order' /\ RootKnown'
  BY <1>1, <1>7 DEF Inv, Order, RootKnown
<1>9. ContractsKnown'
  BY <1>1, <1>5, <1>6, <1>7 DEF Inv, TypeOK, ContractsKnown, Accounted
<1>10. DocumentsKnown' /\ TrustEarned' /\ Decided'
  BY <1>1, <1>7 DEF Inv, DocumentsKnown, Loaded, TrustEarned, Decided
<1> QED BY <1>3, <1>4, <1>8, <1>9, <1>10 DEF Inv

(* The history and the files do not move while the call does.              *)
Still == UNCHANGED <<disk, seen, writes>>

(* What an exception leaves behind.                                        *)
LEMMA RaiseInv ==
  ASSUME Inv, Raise, Still, decision = None
  PROVE  Inv'
<1>1. /\ pc' = "raised"
      /\ UNCHANGED <<at, rootDigest, rootBytes, verified, documents, issues,
                     trust, digests, evidence, decision, disk, seen, writes>>
  BY DEF Raise, Still
<1>2. /\ Root' = Root /\ Rules' = Rules
      /\ \A c : Document(c)' = Document(c)
  BY <1>1 DEF Root, Rules, Document
<1>3. TypeOK' /\ Contained' /\ Order'
  BY <1>1 DEF Inv, TypeOK, Contained, Ended, Order, Trusting, Judging
<1>4. RootKnown' /\ ContractsKnown' /\ DocumentsKnown' /\ Decided'
  BY <1>1, <1>2, NoneAssumption
  DEF Inv, RootKnown, ContractsKnown, DocumentsKnown, Decided, Judging, Decisions
<1>5. TrustEarned'
  BY <1>1, <1>2 DEF Inv, TrustEarned, Loaded, Judging
<1> QED BY <1>3, <1>4, <1>5 DEF Inv

LEMMA DigestRootInv ==
  ASSUME Inv, DigestRoot, Still
  PROVE  Inv'
<1>1. pc = "root_digest" /\ trust = None /\ decision = None
  BY DEF DigestRoot, Inv, Order, Trusting
<1>2. CASE Raise
  BY <1>1, <1>2, RaiseInv
<1>3. CASE ~ Raise
  <2>1. /\ disk[TrustRoot] \in Bytes /\ rootDigest' = disk[TrustRoot]
        /\ pc' = "root_load"
        /\ UNCHANGED <<at, rootBytes, verified, documents, issues, trust,
                       digests, evidence, decision, disk, seen, writes>>
    BY <1>3 DEF DigestRoot, Readable, FileDigest, Still
  <2>2. TypeOK' /\ Contained' /\ Order'
    BY <1>1, <2>1 DEF Inv, TypeOK, Contained, Steps, Order, Trusting, Judging
  <2>3. RootKnown' /\ ContractsKnown' /\ DocumentsKnown' /\ TrustEarned' /\ Decided'
    BY <1>1, <2>1, NoneAssumption
    DEF Inv, RootKnown, ContractsKnown, DocumentsKnown, TrustEarned, Decided,
        Judging, Root, TrustStates, Decisions
  <2> QED BY <2>2, <2>3 DEF Inv
<1> QED BY <1>2, <1>3

(* A report that refuses the contracts says nothing about evidence.        *)
LEMMA RefuseInv ==
  ASSUME Inv, Still, trust = None,
         NEW state \in TrustStates \ {"verified"}, NEW found \in IssueSets,
         Refuse(state, found),
         UNCHANGED <<at, rootDigest, rootBytes, verified, documents, digests,
                     evidence>>
  PROVE  Inv'
<1>1. /\ pc' = "reported" /\ trust' = state /\ issues' = found
      /\ decision' = "INDETERMINATE"
  BY DEF Refuse
<1>2. Root' = Root /\ Rules' = Rules
  BY DEF Root, Rules, Document
<1>3. TypeOK' /\ Contained'
  BY <1>1 DEF Inv, TypeOK, Contained, Still, Ended, Decisions
<1>4. Order'
  BY <1>1, NoneAssumption DEF Inv, Order, Trusting, Judging, TrustStates
<1>5. RootKnown' /\ ContractsKnown' /\ DocumentsKnown'
  BY <1>1, <1>2 DEF Inv, RootKnown, ContractsKnown, DocumentsKnown, Judging, Still
<1>6. TrustEarned' /\ Decided'
  BY <1>1 DEF TrustEarned, Decided
<1> QED BY <1>3, <1>4, <1>5, <1>6 DEF Inv

LEMMA FindRootInv ==
  ASSUME Inv, FindRoot, Still
  PROVE  Inv'
<1>1. pc = "root_file" /\ trust = None /\ decision = None
  BY DEF FindRoot, Inv, Order, Trusting
<1>2. CASE Raise
  BY <1>1, <1>2, RaiseInv
<1>3. CASE ~ Raise /\ ~ IsFile(TrustRoot)
  <2> DEFINE found == [NoIssues EXCEPT !.missing = {TrustRoot}]
  <2>1. /\ Refuse("missing", found)
        /\ UNCHANGED <<at, rootDigest, rootBytes, verified, documents, digests,
                       evidence>>
    BY <1>3 DEF FindRoot
  <2>2. found \in IssueSets
    BY DEF NoIssues, IssueSets, Issues
  <2> QED BY <1>1, <2>1, <2>2, RefuseInv DEF TrustStates
<1>4. CASE ~ Raise /\ IsFile(TrustRoot)
  <2>1. /\ pc' = "root_digest"
        /\ UNCHANGED <<at, rootDigest, rootBytes, verified, documents, issues, trust,
                       digests, evidence, decision, disk, seen, writes>>
    BY <1>4 DEF FindRoot, Still
  <2>2. TypeOK' /\ Contained' /\ Order'
    BY <1>1, <2>1 DEF Inv, TypeOK, Contained, Steps, Order, Trusting, Judging
  <2>3. RootKnown' /\ ContractsKnown' /\ DocumentsKnown' /\ TrustEarned' /\ Decided'
    BY <1>1, <2>1, NoneAssumption
    DEF Inv, RootKnown, ContractsKnown, DocumentsKnown, TrustEarned, Decided,
        Judging, Root, TrustStates, Decisions
  <2> QED BY <2>2, <2>3 DEF Inv
<1> QED BY <1>2, <1>3, <1>4

LEMMA LoadRootInv ==
  ASSUME Inv, LoadRoot, Still
  PROVE  Inv'
<1>1. pc = "root_load" /\ trust = None /\ decision = None
  BY DEF LoadRoot, Inv, Order, Trusting
<1>2. CASE Readable(TrustRoot) /\ ParseRoot[disk[TrustRoot]] # Malformed
  <2> DEFINE root == ParseRoot[disk[TrustRoot]]
  <2>1. /\ disk[TrustRoot] \in Bytes /\ rootBytes' = disk[TrustRoot]
        /\ issues' = [issues EXCEPT !.invalid =
                        HeaderIssues(root) \cup ManifestIssues(root.manifest)]
        /\ pc' = "contract_file" /\ at' = 1
        /\ UNCHANGED <<rootDigest, verified, documents, trust, digests, evidence,
                       decision, disk, seen, writes>>
    BY <1>2 DEF LoadRoot, Readable, Still
  <2>2. Root' = root
    BY <2>1 DEF Root
  <2>3. issues' \in IssueSets /\ ManifestIssues(root.manifest) \subseteq issues'.invalid
    BY <2>1, RootIssuesType DEF Inv, TypeOK, IssueSets
  <2> HIDE DEF root
  <2>4. TypeOK' /\ Contained'
    BY <2>1, <2>3 DEF Inv, TypeOK, Contained, Steps
  <2>5. Order' /\ RootKnown'
    BY <1>1, <2>1, <2>2, <2>3 DEF Inv, Order, RootKnown, Trusting, Judging
  <2>6. verified = {}
    BY <1>1 DEF Inv, ContractsKnown
  <2>7. ContractsKnown' /\ DocumentsKnown'
    BY <1>1, <2>1, <2>6 DEF ContractsKnown, DocumentsKnown
  <2>8. TrustEarned' /\ Decided'
    BY <1>1, <2>1, NoneAssumption
    DEF TrustEarned, Decided, TrustStates, Decisions
  <2> QED BY <2>4, <2>5, <2>7, <2>8 DEF Inv
<1>3. CASE ~ (Readable(TrustRoot) /\ ParseRoot[disk[TrustRoot]] # Malformed)
  <2> DEFINE found == [NoIssues EXCEPT !.invalid = {TrustRoot}]
  <2>1. /\ Refuse("invalid", found)
        /\ UNCHANGED <<at, rootDigest, rootBytes, verified, documents, digests,
                       evidence>>
    BY <1>3 DEF LoadRoot
  <2>2. found \in IssueSets
    BY DEF NoIssues, IssueSets, Issues
  <2> QED BY <1>1, <2>1, <2>2, RefuseInv DEF TrustStates
<1> QED BY <1>2, <1>3

(* Moving on from a contract whose outcome is on record.  After the last   *)
(* one, either an issue is open or all contracts are verified.             *)
LEMMA NextContractInv ==
  ASSUME Inv, Still, pc \in {"contract_file", "contract_digest"},
         NextContract(issues'),
         UNCHANGED <<rootDigest, rootBytes, documents, trust, digests, evidence,
                     decision>>,
         issues' \in IssueSets,
         issues.invalid \subseteq issues'.invalid,
         issues.missing \subseteq issues'.missing,
         verified \subseteq verified', verified' \subseteq Contracts,
         \A c \in verified' : /\ c \in Declared(Root.manifest)
                              /\ ExpectedDigest(Root.manifest, c) \in seen[c],
         NEW path, path = ContractPaths[at], Accounted(path)'
  PROVE  Inv'
<1>1. /\ at \in 1 .. 4 /\ trust = None /\ decision = None
      /\ rootBytes \in Bytes /\ ManifestIssues(Root.manifest) \subseteq issues.invalid
  BY DEF Inv, Order, RootKnown, Trusting
<1>2. Root' = Root
  BY DEF Root
<1>3. TypeOK' /\ Contained'
  BY <1>1 DEF Inv, TypeOK, Contained, Still, NextContract, Steps
<1>4. Order' /\ RootKnown'
  BY <1>1, <1>2, NoneAssumption
  DEF Inv, Order, RootKnown, NextContract, Trusting, Judging, TrustStates
<1>5. \A j \in 1 .. 4 : j <= at => Accounted(ContractPaths[j])'
  <2> TAKE j \in 1 .. 4
  <2>1. j < at => Accounted(ContractPaths[j])
    BY DEF Inv, ContractsKnown
  <2> QED BY <1>1, <1>2, <2>1 DEF Accounted
<1>6. at = 4 /\ ~ Blocking(issues') => verified' = Contracts
  <2> SUFFICES ASSUME at = 4, ~ Blocking(issues') PROVE verified' = Contracts
    OBVIOUS
  <2>1. Declared(Root.manifest) = Contracts
    BY <1>1, CompleteManifest DEF Blocking
  <2>2. \A j \in 1 .. 4 : ContractPaths[j] \in verified'
    BY <1>2, <1>5, <2>1 DEF Accounted, Blocking
  <2> QED BY <2>2
<1>7. ContractsKnown'
  BY <1>1, <1>2, <1>5, <1>6 DEF NextContract, ContractsKnown, Still
<1>8. DocumentsKnown'
  BY <1>1, <1>6 DEF NextContract, DocumentsKnown
<1>9. TrustEarned' /\ Decided'
  BY <1>1, NoneAssumption DEF TrustEarned, Decided, TrustStates, Decisions
<1> QED BY <1>3, <1>4, <1>7, <1>8, <1>9 DEF Inv

LEMMA FindContractInv ==
  ASSUME Inv, FindContract, Still
  PROVE  Inv'
<1> PICK path : path = Path
  OBVIOUS
<1>1. /\ pc = "contract_file" /\ at \in 1 .. 4 /\ trust = None /\ decision = None
      /\ path \in Contracts /\ path = ContractPaths[at]
  BY DEF FindContract, Inv, Order, Trusting, Path
<1> SUFFICES ASSUME ~ Raise PROVE Inv'
  BY <1>1, RaiseInv
<1>2. UNCHANGED <<rootDigest, rootBytes, verified, documents, trust, digests,
                  evidence, decision>>
  BY DEF FindContract
<1>3. Root' = Root
  BY <1>2 DEF Root
<1>4. /\ verified \subseteq Contracts
      /\ \A c \in verified : /\ c \in Declared(Root.manifest)
                             /\ ExpectedDigest(Root.manifest, c) \in seen[c]
  BY DEF Inv, TypeOK, ContractsKnown
<1>5. CASE path \notin Declared(Root.manifest)
  <2>1. UNCHANGED issues /\ NextContract(issues')
    BY <1>5 DEF FindContract
  <2>2. Accounted(path)'
    BY <1>3, <1>5 DEF Accounted
  <2> QED BY <1>1, <1>2, <1>4, <2>1, <2>2, NextContractInv DEF Inv, TypeOK
<1>6. CASE path \in Declared(Root.manifest) /\ ~ IsFile(path)
  <2>1. issues' = [issues EXCEPT !.missing = @ \cup {path}] /\ NextContract(issues')
    BY <1>6 DEF FindContract
  <2>2. /\ issues' \in IssueSets /\ path \in issues'.missing
        /\ issues.invalid \subseteq issues'.invalid
        /\ issues.missing \subseteq issues'.missing
    BY <1>1, <2>1 DEF Inv, TypeOK, IssueSets, Issues
  <2>3. Accounted(path)'
    BY <1>1, <2>2 DEF Accounted
  <2> QED BY <1>1, <1>2, <1>4, <2>1, <2>2, <2>3, NextContractInv
<1>7. CASE path \in Declared(Root.manifest) /\ IsFile(path)
  <2>1. pc' = "contract_digest" /\ UNCHANGED <<at, issues>>
    BY <1>7 DEF FindContract
  <2>2. TypeOK' /\ Contained' /\ Order' /\ RootKnown'
    BY <1>1, <1>2, <1>3, <2>1
    DEF Inv, TypeOK, Contained, Order, RootKnown, Still, Steps, Trusting, Judging
  <2>3. ContractsKnown' /\ DocumentsKnown'
    BY <1>1, <1>2, <1>3, <1>7, <2>1
    DEF Inv, ContractsKnown, DocumentsKnown, Accounted, Path, Still
  <2>4. TrustEarned' /\ Decided'
    BY <1>1, <1>2, NoneAssumption DEF TrustEarned, Decided, TrustStates, Decisions
  <2> QED BY <2>2, <2>3, <2>4 DEF Inv
<1> QED BY <1>5, <1>6, <1>7

LEMMA DigestContractInv ==
  ASSUME Inv, DigestContract, Still
  PROVE  Inv'
<1> PICK path : path = Path
  OBVIOUS
<1>1. /\ pc = "contract_digest" /\ at \in 1 .. 4 /\ trust = None /\ decision = None
      /\ path \in Contracts /\ path \in Files /\ path = ContractPaths[at]
  BY DEF DigestContract, Inv, Order, Trusting, Path, Files
<1>2. CASE Raise
  BY <1>1, <1>2, RaiseInv
<1>3. CASE ~ Raise
  <2>1. /\ Readable(path) /\ NextContract(issues')
        /\ UNCHANGED <<rootDigest, rootBytes, documents, trust, digests,
                       evidence, decision>>
        /\ IF Matches(path)
           THEN verified' = verified \cup {path} /\ UNCHANGED issues
           ELSE /\ issues' = [issues EXCEPT !.invalid = @ \cup {path}]
                /\ UNCHANGED verified
    BY <1>3 DEF DigestContract
  <2>2. /\ issues' \in IssueSets
        /\ issues.invalid \subseteq issues'.invalid
        /\ issues.missing \subseteq issues'.missing
        /\ path \in verified' \cup issues'.invalid
        /\ verified \subseteq verified' /\ verified' \subseteq Contracts
    BY <1>1, <2>1 DEF Inv, TypeOK, IssueSets, Issues
  <2>3. Accounted(path)'
    BY <2>2 DEF Accounted
  <2>4. \A c \in verified' : /\ c \in Declared(Root.manifest)
                             /\ ExpectedDigest(Root.manifest, c) \in seen[c]
    <3>1. \A c \in verified : /\ c \in Declared(Root.manifest)
                              /\ ExpectedDigest(Root.manifest, c) \in seen[c]
      BY DEF Inv, ContractsKnown
    <3>2. ASSUME Matches(path)
          PROVE  ExpectedDigest(Root.manifest, path) \in seen[path]
      BY <1>1, <3>2 DEF Matches, FileDigest, Inv, Contained
    <3>3. path \in Declared(Root.manifest)
      BY <1>1 DEF Inv, ContractsKnown, Path
    <3> QED BY <2>1, <3>1, <3>2, <3>3
  <2> QED BY <1>1, <2>1, <2>2, <2>3, <2>4, NextContractInv
<1> QED BY <1>2, <1>3

LEMMA LoadContractInv ==
  ASSUME Inv, LoadContract, Still
  PROVE  Inv'
<1> PICK path : path = Path
  OBVIOUS
<1>1. /\ pc = "contract_load" /\ at \in 1 .. 4 /\ trust = None /\ decision = None
      /\ path \in Contracts /\ path \in Files /\ path = ContractPaths[at]
      /\ verified = Contracts
  BY DEF LoadContract, Inv, Order, Trusting, Path, Files, ContractsKnown
<1>2. /\ UNCHANGED <<rootDigest, rootBytes, verified, trust, digests, evidence,
                     decision, disk, seen, writes>>
      /\ \/ at < 4 /\ at' = at + 1 /\ pc' = "contract_load"
         \/ at = 4 /\ at' = 1 /\ pc' = "settle"
  BY <1>1 DEF LoadContract, Still
<1>3. \/ /\ disk[path] \in Bytes /\ ParseContract[disk[path]] # Malformed
         /\ documents' = [documents EXCEPT ![path] = disk[path]]
         /\ UNCHANGED issues
      \/ /\ issues' = [issues EXCEPT !.invalid = @ \cup {path}]
         /\ UNCHANGED documents
  BY DEF LoadContract, Readable
<1>4. /\ issues' \in IssueSets /\ issues.invalid \subseteq issues'.invalid
      /\ documents' \in [Contracts -> Bytes \cup {None}]
  BY <1>1, <1>3 DEF Inv, TypeOK, IssueSets, Issues
<1>5. Root' = Root
  BY <1>2 DEF Root
<1>6. TypeOK' /\ Contained'
  BY <1>1, <1>2, <1>4 DEF Inv, TypeOK, Contained, Steps
<1>7. Order' /\ RootKnown'
  BY <1>1, <1>2, <1>4, <1>5, NoneAssumption
  DEF Inv, Order, RootKnown, Trusting, Judging, TrustStates
<1>8. ContractsKnown'
  BY <1>1, <1>2, <1>5 DEF Inv, ContractsKnown
<1>9. ~ Blocking(issues') =>
        \A j \in 1 .. 4 : j <= at => Loaded(ContractPaths[j])'
  <2> SUFFICES ASSUME ~ Blocking(issues'), NEW j \in 1 .. 4, j <= at
               PROVE  Loaded(ContractPaths[j])'
    OBVIOUS
  <2>1. /\ disk[path] \in Bytes /\ ParseContract[disk[path]] # Malformed
        /\ documents' = [documents EXCEPT ![path] = disk[path]]
        /\ UNCHANGED issues
    BY <1>1, <1>3 DEF Blocking, Inv, TypeOK, IssueSets
  <2>2. j < at => Loaded(ContractPaths[j])
    BY <1>1, <2>1 DEF Inv, DocumentsKnown
  <2> QED BY <1>1, <2>1, <2>2 DEF Loaded, Inv, TypeOK
<1>10. DocumentsKnown'
  <2>1. ~ Blocking(issues') /\ at = 4 => \A c \in Contracts : Loaded(c)'
    BY <1>9
  <2> QED BY <1>1, <1>2, <1>9, <2>1 DEF DocumentsKnown
<1>11. TrustEarned' /\ Decided'
  BY <1>1, <1>2, NoneAssumption DEF TrustEarned, Decided, TrustStates, Decisions
<1> QED BY <1>6, <1>7, <1>8, <1>10, <1>11 DEF Inv

(* The rules of a loaded, sound policy form a list with identifiers.       *)
LEMMA RulesType ==
  ASSUME Loaded("policy.json"),
         Sound(Root, Document("identity.json"), Document("policy.json"))
  PROVE  /\ Len(Rules) \in Nat \ {0}
         /\ DOMAIN Rules = 1 .. Len(Rules)
         /\ \A i \in 1 .. Len(Rules) : Rules[i].id \in Identifiers
<1> DEFINE policy == Document("policy.json")
<1>1. /\ documents["policy.json"] \in Bytes
      /\ ParseContract[documents["policy.json"]] # Malformed
      /\ policy = ParseContract[documents["policy.json"]]
  BY DEF Loaded, Document
<1>2. /\ "requirements" \in DOMAIN policy /\ Rules = policy.requirements
      /\ Rules # <<>> /\ WellFormedRules(Rules)
  BY DEF Sound, Rules
<1> HIDE DEF policy
<1>3. Rules = Get(policy, "requirements", <<>>)
  BY <1>2 DEF Get
<1>4. /\ IsSequence(Rules)
      /\ \A i \in DOMAIN Rules : "id" \in DOMAIN Rules[i] => Rules[i].id \in Identifiers
  BY <1>1, <1>3, PoliciesAssumption
<1>5. Rules \in Seq({Rules[i] : i \in DOMAIN Rules})
  BY <1>4 DEF IsSequence
<1>6. Len(Rules) \in Nat /\ DOMAIN Rules = 1 .. Len(Rules) /\ Len(Rules) # 0
  BY <1>2, <1>5, EmptySeq
<1>7. \A i \in DOMAIN Rules : "id" \in DOMAIN Rules[i]
  BY <1>2 DEF WellFormedRules, RuleFields
<1> QED BY <1>4, <1>6, <1>7

(* Contracts settle as verified only when neither their digests nor their  *)
(* contents raised an issue.                                               *)
LEMMA SettledClean ==
  ASSUME issues \in IssueSets, TrustOf(SettledIssues) = "verified"
  PROVE  /\ issues = NoIssues /\ SettledIssues = NoIssues /\ ~ Blocking(issues)
         /\ DocumentIssues(Root, Document("identity.json"), Document("ontology.json"),
              Document("ownership.json"), Document("policy.json")) = NoIssues
<1> DEFINE found == DocumentIssues(Root, Document("identity.json"),
                      Document("ontology.json"), Document("ownership.json"),
                      Document("policy.json"))
<1>1. SettledIssues \in IssueSets /\ found \in IssueSets
  BY DocumentIssuesType DEF SettledIssues, MergeIssues, IssueSets
<1>2. SettledIssues = NoIssues
  BY <1>1, VerifiedMeansNoIssues
<1>3. ~ Blocking(issues)
  BY <1>2 DEF SettledIssues, Blocking, NoIssues
<1>4. MergeIssues(issues, found) = NoIssues
  BY <1>2, <1>3 DEF SettledIssues
<1> HIDE DEF found
<1>5. /\ issues.invalid \cup found.invalid = {}
      /\ issues.missing \cup found.missing = {}
      /\ issues.stale \cup found.stale = {}
      /\ issues.ambiguous \cup found.ambiguous = {}
  BY <1>4 DEF MergeIssues, NoIssues
<1>6. issues = NoIssues /\ found = NoIssues
  BY <1>1, <1>5 DEF IssueSets, NoIssues
<1> QED BY <1>2, <1>3, <1>6 DEF found

LEMMA SettleTrustInv ==
  ASSUME Inv, SettleTrust, Still
  PROVE  Inv'
<1>1. /\ pc = "settle" /\ at = 1 /\ trust = None /\ decision = None
      /\ evidence = <<>> /\ digests = {}
      /\ issues \in IssueSets
      /\ rootBytes \in Bytes /\ ManifestIssues(Root.manifest) \subseteq issues.invalid
  BY NoneAssumption
  DEF SettleTrust, Inv, TypeOK, Order, RootKnown, Trusting, TrustStates
<1>2. SettledIssues \in IssueSets
  BY <1>1, DocumentIssuesType DEF SettledIssues, MergeIssues, IssueSets
<1>3. CASE Raise
  BY <1>1, <1>3, RaiseInv
<1>4. CASE ~ Raise /\ TrustOf(SettledIssues) # "verified"
  <2>1. /\ Refuse(TrustOf(SettledIssues), SettledIssues)
        /\ UNCHANGED <<at, rootDigest, rootBytes, verified, documents, digests,
                       evidence>>
    BY <1>4 DEF SettleTrust
  <2> QED BY <1>1, <1>2, <1>4, <2>1, RefuseInv, TrustOfType
<1>5. CASE ~ Raise /\ TrustOf(SettledIssues) = "verified"
  <2>1. /\ trust' = "verified" /\ issues' = SettledIssues /\ pc' = "evidence_path"
        /\ UNCHANGED <<at, rootDigest, rootBytes, verified, documents, digests,
                       evidence, decision, disk, seen, writes>>
    BY <1>5 DEF SettleTrust, Still
  <2>2. /\ issues = NoIssues /\ SettledIssues = NoIssues /\ ~ Blocking(issues)
        /\ DocumentIssues(Root, Document("identity.json"), Document("ontology.json"),
             Document("ownership.json"), Document("policy.json")) = NoIssues
    BY <1>1, <1>5, SettledClean
  <2>5. /\ verified = Contracts /\ \A c \in Contracts : Loaded(c)
        /\ Sound(Root, Document("identity.json"), Document("policy.json"))
    BY <1>1, <2>2, DocumentsWithoutIssues DEF Inv, ContractsKnown, DocumentsKnown
  <2>6. Len(Rules) \in Nat \ {0}
    BY <2>5, RulesType DEF Contracts
  <2>7. /\ Root' = Root /\ Rules' = Rules
        /\ \A c : Document(c)' = Document(c) /\ Loaded(c)' = Loaded(c)
    BY <2>1 DEF Root, Rules, Document, Loaded
  <2>8. TypeOK' /\ Contained'
    BY <1>2, <2>1 DEF Inv, TypeOK, Contained, Steps, TrustStates
  <2>9. Order' /\ RootKnown'
    BY <1>1, <2>1, <2>2, <2>6, <2>7
    DEF Order, RootKnown, Trusting, Judging
  <2>10. ContractsKnown' /\ DocumentsKnown'
    BY <2>1, <2>7 DEF Inv, ContractsKnown, DocumentsKnown
  <2>11. TrustEarned'
    BY <1>1, <2>1, <2>2, <2>5, <2>7 DEF TrustEarned
  <2>12. Decided'
    BY <1>1, <2>1, NoneAssumption DEF Decided, Decisions
  <2> QED BY <2>8, <2>9, <2>10, <2>11, <2>12 DEF Inv
<1> QED BY <1>3, <1>4, <1>5

(* What holds while requirements are judged.                               *)
LEMMA JudgingFacts ==
  ASSUME Inv, pc \in Judging
  PROVE  /\ trust = "verified" /\ decision = None
         /\ Len(Rules) \in Nat \ {0} /\ DOMAIN Rules = 1 .. Len(Rules)
         /\ \A i \in 1 .. Len(Rules) : Rules[i].id \in Identifiers
         /\ pc # "decide" => at \in 1 .. Len(Rules) /\ Len(evidence) = at - 1
BY RulesType DEF Inv, Order, TrustEarned, Judging, Contracts

(* A step of the judgement that moves nothing but pc and the digests.      *)
LEMMA ContinueInv ==
  ASSUME Inv, Still, pc \in Judging \ {"decide"},
         pc' \in Judging \ {"decide"}, digests' \subseteq Bytes,
         UNCHANGED <<at, rootDigest, rootBytes, verified, documents, issues,
                     trust, evidence, decision>>
  PROVE  Inv'
<1>1. trust = "verified" /\ decision = None
  BY JudgingFacts
<1>2. /\ Root' = Root /\ Rules' = Rules
      /\ \A c : Document(c)' = Document(c) /\ Loaded(c)' = Loaded(c)
  BY DEF Root, Rules, Document, Loaded
<1>3. TypeOK' /\ Contained'
  BY DEF Inv, TypeOK, Contained, Still, Judging, Steps
<1>4. Order' /\ RootKnown'
  BY <1>1, <1>2 DEF Inv, Order, RootKnown, Trusting, Judging
<1>5. ContractsKnown' /\ DocumentsKnown'
  BY <1>2 DEF Inv, ContractsKnown, DocumentsKnown, Judging, Still
<1>6. TrustEarned' /\ Decided'
  BY <1>1, <1>2 DEF Inv, TrustEarned, Decided, Judging
<1> QED BY <1>3, <1>4, <1>5, <1>6 DEF Inv

LEMMA RecordInv ==
  ASSUME Inv, Still, pc \in Judging \ {"decide"},
         NEW state \in States, NEW sources \in SUBSET EvidencePaths,
         NEW digested \in SUBSET Bytes, NEW content \in Bytes \cup {None},
         Record(state, sources, digested, content),
         UNCHANGED <<rootDigest, rootBytes, verified, documents, issues, trust,
                     decision>>
  PROVE  Inv'
<1> DEFINE rec == [requirement |-> Rule.id, id |-> <<"evidence", Suffix(Rule.id)>>,
                   state |-> state, sources |-> sources, digests |-> digested,
                   content |-> content]
<1>1. /\ trust = "verified" /\ decision = None
      /\ Len(Rules) \in Nat \ {0} /\ at \in 1 .. Len(Rules)
      /\ Len(evidence) = at - 1 /\ Rule = Rules[at] /\ Rule.id \in Identifiers
  BY JudgingFacts DEF Rule
<1>2. /\ evidence' = Append(evidence, rec) /\ digests' = {}
      /\ \/ at < Len(Rules) /\ pc' = "evidence_path" /\ at' = at + 1
         \/ at = Len(Rules) /\ pc' = "decide" /\ at' = at
  BY <1>1 DEF Record
<1>3. rec \in EvidenceRecords
  BY <1>1 DEF EvidenceRecords
<1>4. rec.requirement = Rules[at].id
  BY <1>1
<1> HIDE DEF rec
<1>5. evidence \in Seq(EvidenceRecords)
  BY DEF Inv, TypeOK
<1>6. /\ evidence' \in Seq(EvidenceRecords)
      /\ Len(evidence') = at /\ DOMAIN evidence' = 1 .. at
      /\ \A i \in 1 .. at : evidence'[i] = IF i = at THEN rec ELSE evidence[i]
  BY <1>1, <1>2, <1>3, <1>5
<1>7. /\ Root' = Root /\ Rules' = Rules
      /\ \A c : Document(c)' = Document(c) /\ Loaded(c)' = Loaded(c)
  BY DEF Root, Rules, Document, Loaded
<1>8. TypeOK' /\ Contained'
  BY <1>1, <1>2, <1>6 DEF Inv, TypeOK, Contained, Still, Steps
<1>9. Order' /\ RootKnown'
  BY <1>1, <1>2, <1>7 DEF Inv, Order, RootKnown, Trusting, Judging
<1>10. ContractsKnown' /\ DocumentsKnown'
  BY <1>2, <1>7 DEF Inv, ContractsKnown, DocumentsKnown, Still
<1>11. TrustEarned'
  <2>1. \A i \in DOMAIN evidence' : /\ i <= Len(Rules)
                                    /\ evidence'[i].requirement = Rules[i].id
    <3>1. \A i \in DOMAIN evidence : evidence[i].requirement = Rules[i].id
      BY <1>1 DEF Inv, TrustEarned
    <3>2. DOMAIN evidence = 1 .. at - 1
      BY <1>1, <1>5
    <3> QED BY <1>1, <1>4, <1>6, <3>1, <3>2
  <2>2. /\ pc' \in Judging \ {"decide"} => Len(evidence') = at' - 1
        /\ pc' \in {"decide"} => Len(evidence') = Len(Rules)
    BY <1>1, <1>2, <1>6
  <2>3. /\ issues = NoIssues /\ verified = Contracts /\ rootBytes \in Bytes
        /\ \A c \in Contracts : Loaded(c)
        /\ Sound(Root, Document("identity.json"), Document("policy.json"))
    BY <1>1 DEF Inv, TrustEarned
  <2> QED BY <1>7, <2>1, <2>2, <2>3 DEF TrustEarned
<1>12. Decided'
  BY <1>1, NoneAssumption DEF Decided, Decisions
<1> QED BY <1>8, <1>9, <1>10, <1>11, <1>12 DEF Inv

LEMMA FindEvidenceInv ==
  ASSUME Inv, FindEvidence, Still
  PROVE  Inv'
<1>1. /\ pc \in Judging \ {"decide"}
      /\ UNCHANGED <<rootDigest, rootBytes, verified, documents, issues, trust,
                     decision>>
  BY DEF FindEvidence, Judging
<1>2. CASE Record("indeterminate", {}, {}, None)
  BY <1>1, <1>2, RecordInv DEF States
<1>3. CASE SafeSource /\ Record("missing", {Rule.source}, {}, None)
  BY <1>1, <1>3, RecordInv DEF States, SafeSource
<1>4. CASE ContinueWith("evidence_kind")
  BY <1>1, <1>4, ContinueInv DEF ContinueWith, Judging, Inv, TypeOK
<1>5. CASE SafeSource /\ Unevaluated({})
  BY <1>1, <1>5, RecordInv DEF States, SafeSource, Unevaluated
<1> QED BY <1>2, <1>3, <1>4, <1>5 DEF FindEvidence

(* Past the first test the source of the rule is a path of the repository. *)
LEMMA CheckEvidenceKindInv ==
  ASSUME Inv, Safe, CheckEvidenceKind, Still
  PROVE  Inv'
<1>1. /\ pc \in Judging \ {"decide"} /\ SafeSource
      /\ UNCHANGED <<rootDigest, rootBytes, verified, documents, issues, trust,
                     decision>>
  BY DEF CheckEvidenceKind, Judging, Safe
<1>2. CASE Record("blocked", {Rule.source}, {}, None)
  BY <1>1, <1>2, RecordInv DEF States, SafeSource
<1>3. CASE ContinueWith("evidence_digest")
  BY <1>1, <1>3, ContinueInv DEF ContinueWith, Judging, Inv, TypeOK
<1>4. CASE Unevaluated({})
  BY <1>1, <1>4, RecordInv DEF States, SafeSource, Unevaluated
<1> QED BY <1>2, <1>3, <1>4 DEF CheckEvidenceKind

LEMMA DigestEvidenceInv ==
  ASSUME Inv, Safe, DigestEvidence, Still
  PROVE  Inv'
<1>1. /\ pc \in Judging \ {"decide"} /\ SafeSource
      /\ UNCHANGED <<rootDigest, rootBytes, verified, documents, issues, trust,
                     decision>>
  BY DEF DigestEvidence, Judging, Safe
<1>2. CASE Unevaluated({})
  BY <1>1, <1>2, RecordInv DEF States, SafeSource, Unevaluated
<1>3. CASE /\ Readable(Rule.source)
           /\ Record("satisfied", {Rule.source}, {FileDigest(disk[Rule.source])},
                     disk[Rule.source])
  BY <1>1, <1>3, RecordInv DEF States, SafeSource, Readable, FileDigest
<1>4. CASE /\ Readable(Rule.source)
           /\ digests' = {FileDigest(disk[Rule.source])}
           /\ pc' = "evidence_content" /\ UNCHANGED <<at, evidence>>
  BY <1>1, <1>4, ContinueInv DEF Judging, Readable, FileDigest
<1> QED BY <1>2, <1>3, <1>4 DEF DigestEvidence

LEMMA ReadEvidenceInv ==
  ASSUME Inv, Safe, ReadEvidence, Still
  PROVE  Inv'
<1>1. /\ pc \in Judging \ {"decide"} /\ SafeSource /\ digests \in SUBSET Bytes
      /\ decision = None
  BY JudgingFacts DEF ReadEvidence, Judging, Inv, Safe, TypeOK
<1> SUFFICES ASSUME ~ Raise PROVE Inv'
  BY <1>1, RaiseInv
<1>2. UNCHANGED <<rootDigest, rootBytes, verified, documents, issues, trust, decision>>
  BY DEF ReadEvidence
<1>3. CASE Readable(Rule.source) /\ Judged
  BY <1>1, <1>2, <1>3, RecordInv, CheckContentType DEF SafeSource, Readable, Judged
<1>4. CASE Unevaluated(digests)
  BY <1>1, <1>2, <1>4, RecordInv DEF States, SafeSource, Unevaluated
<1> QED BY <1>3, <1>4 DEF ReadEvidence

LEMMA DecisionType ==
  ASSUME NEW states
  PROVE  /\ DecisionOf(states) \in Decisions
         /\ DecisionOf(states) = "READY" => states = {"satisfied"}
BY DEF DecisionOf, Decisions

LEMMA DecideInv ==
  ASSUME Inv, Decide, Still
  PROVE  Inv'
<1>1. /\ pc = "decide" /\ trust = "verified" /\ decision = None
      /\ Len(evidence) = Len(Rules)
  BY JudgingFacts DEF Decide, Judging, Inv, TrustEarned
<1>2. CASE Raise
  BY <1>1, <1>2, RaiseInv
<1>3. CASE ~ Raise
  <2> DEFINE states == {evidence[i].state : i \in DOMAIN evidence}
  <2>1. /\ decision' = DecisionOf(states) /\ pc' = "reported"
        /\ UNCHANGED <<at, rootDigest, rootBytes, verified, documents, issues,
                       trust, digests, evidence, disk, seen, writes>>
    BY <1>3 DEF Decide, Still
  <2>2. /\ decision' \in Decisions
        /\ decision' = "READY" => \A i \in DOMAIN evidence : evidence[i].state = "satisfied"
    BY <2>1, DecisionType
  <2> HIDE DEF states
  <2>3. /\ Root' = Root /\ Rules' = Rules
        /\ \A c : Document(c)' = Document(c) /\ Loaded(c)' = Loaded(c)
    BY <2>1 DEF Root, Rules, Document, Loaded
  <2>4. TypeOK' /\ Contained'
    BY <2>1, <2>2 DEF Inv, TypeOK, Contained, Ended
  <2>5. Order' /\ RootKnown'
    BY <1>1, <2>1 DEF Order, RootKnown, Trusting, Judging
  <2>6. ContractsKnown' /\ DocumentsKnown'
    BY <1>1, <2>1, <2>3 DEF Inv, ContractsKnown, DocumentsKnown
  <2>7. TrustEarned' /\ Decided'
    BY <1>1, <2>1, <2>2, <2>3 DEF Inv, TrustEarned, Decided, Judging
  <2> QED BY <2>4, <2>5, <2>6, <2>7 DEF Inv
<1> QED BY <1>2, <1>3

-----------------------------------------------------------------------------

LEMMA NextSafe == Inv /\ Safe /\ [Next]_vars => Safe'
<1> SUFFICES ASSUME Inv, Safe, [Next]_vars PROVE Safe'
  OBVIOUS
<1> DEFINE Inside == {"evidence_kind", "evidence_digest", "evidence_content"}
<1>1. CASE FindRoot \/ DigestRoot \/ LoadRoot \/ FindContract \/ DigestContract
           \/ LoadContract \/ SettleTrust \/ Decide
  <2>1. pc' \notin Inside
    BY <1>1 DEF FindRoot, DigestRoot, LoadRoot, FindContract, DigestContract,
       LoadContract, SettleTrust, Decide, Refuse, Raise, NextContract
  <2> QED BY <2>1 DEF Safe
<1>2. CASE FindEvidence \/ CheckEvidenceKind \/ DigestEvidence \/ ReadEvidence
  <2>1. /\ pc' \in Inside => at' = at /\ SafeSource
        /\ UNCHANGED documents
    BY <1>2 DEF FindEvidence, CheckEvidenceKind, DigestEvidence, ReadEvidence,
       Record, ContinueWith, Unevaluated, Judged, Raise, Safe
  <2> QED BY <2>1 DEF Safe, SafeSource, Rule, Rules, Document
<1>3. CASE UNCHANGED callVars
  BY <1>3 DEF callVars, Safe, SafeSource, Rule, Rules, Document
<1> QED BY <1>1, <1>2, <1>3 DEF Next, Evaluate, Change, Return, vars

LEMMA NextInv == Inv /\ Safe /\ [Next]_vars => Inv'
<1> SUFFICES ASSUME Inv, Safe, [Next]_vars PROVE Inv'
  OBVIOUS
<1>1. CASE Evaluate
  <2>1. Still
    BY <1>1 DEF Evaluate, Still
  <2> QED
    BY <1>1, <2>1, FindRootInv, DigestRootInv, LoadRootInv, FindContractInv,
       DigestContractInv, LoadContractInv, SettleTrustInv, FindEvidenceInv,
       CheckEvidenceKindInv, DigestEvidenceInv, ReadEvidenceInv, DecideInv
    DEF Evaluate
<1>2. CASE \E file \in Files : \E content \in Contents[file] : Change(file, content)
  BY <1>2, ChangeInv
<1>3. CASE UNCHANGED vars
  BY <1>3
  DEF vars, callVars, Inv, TypeOK, Contained, Order, RootKnown, ContractsKnown,
      DocumentsKnown, TrustEarned, Decided, Root, Rules, Document, Loaded,
      Accounted, Path, Blocking
<1> QED BY <1>1, <1>2, <1>3 DEF Next, Return

THEOREM Inductive == Spec => [](Inv /\ Safe)
<1>1. Init => Safe
  BY DEF Init, Safe
<1> QED BY <1>1, InitInv, NextInv, NextSafe, PTL DEF Spec

(* Every variable keeps its type, for every set of contents and parsers.   *)
THEOREM TypeCorrect == Spec => []TypeOK
<1>1. Inv => TypeOK
  BY DEF Inv
<1> QED BY <1>1, Inductive, PTL

(* Evidence is opened only after the contracts were verified against a     *)
(* trust root that declares what was at their paths during the call,       *)
(* whatever else writes the files meanwhile.                               *)
THEOREM TrustBeforeEvidence == Spec => []EvidenceOnlyAfterTrust
<1>1. Inv => EvidenceOnlyAfterTrust
  <2> SUFFICES ASSUME Inv, digests # {} \/ evidence # <<>>
               PROVE  /\ trust = "verified" /\ issues = NoIssues
                      /\ rootBytes # None
                      /\ \A c \in Contracts :
                           /\ c \in Declared(Root.manifest)
                           /\ ExpectedDigest(Root.manifest, c) \in seen[c]
    BY DEF EvidenceOnlyAfterTrust
  <2>1. trust = "verified"
    BY DEF Inv, Order
  <2>2. issues = NoIssues /\ verified = Contracts /\ rootBytes \in Bytes
    BY <2>1 DEF Inv, TrustEarned
  <2> QED BY <2>1, <2>2, NotAFileAssumption DEF Inv, ContractsKnown
<1> QED BY <1>1, Inductive, PTL

(* What the invariant says of a READY decision.                            *)
LEMMA InvReady == Inv => ReadyIsEarned
<1> SUFFICES ASSUME Inv, decision = "READY"
             PROVE  ReadyIsEarned
  BY DEF ReadyIsEarned
<1>1. trust = "verified" /\ pc = "reported"
  BY NoneAssumption DEF Inv, Order, Decisions
<1>2. /\ verified = Contracts
      /\ Sound(Root, Document("identity.json"), Document("policy.json"))
      /\ \A i \in DOMAIN evidence : evidence[i].requirement = Rules[i].id
  BY <1>1 DEF Inv, TrustEarned
<1>3. /\ Len(evidence) = Len(Rules)
      /\ \A i \in DOMAIN evidence : evidence[i].state = "satisfied"
  BY DEF Inv, Decided
<1> QED BY <1>1, <1>2, <1>3 DEF ReadyIsEarned, Sound, Rules

(* The primary invariant of SYSTEM.md: a READY report rests on verified    *)
(* contracts, a policy the trust root authorises at a current epoch and    *)
(* for its target, and a satisfied record for every requirement.           *)
THEOREM ReadyNeedsVerifiedContracts == Spec => []ReadyIsEarned
BY InvReady, Inductive, PTL

-----------------------------------------------------------------------------
(* Every step of a call leaves less to do.                                 *)

TrustByStep ==
  /\ pc = "root_file" => TrustLeft = 16
  /\ pc = "root_digest" => TrustLeft = 15
  /\ pc = "root_load" => TrustLeft = 14
  /\ pc = "contract_file" => TrustLeft = 4 + 1 + 2 * (4 + 1 - at)
  /\ pc = "contract_digest" => TrustLeft = 4 + 2 * (4 + 1 - at)
  /\ pc = "contract_load" => TrustLeft = 4 + 2 - at
  /\ pc = "settle" => TrustLeft = 1
  /\ pc \in Judging \cup Ended => TrustLeft = 0

LEMMA TrustAtStep == TrustByStep
<1>1. CASE pc \in {"root_file", "root_digest", "root_load"}
  BY <1>1 DEF TrustLeft, TrustByStep, Judging, Ended
<1>2. CASE pc = "contract_file"
  BY <1>2 DEF TrustLeft, TrustByStep, Judging, Ended
<1>3. CASE pc = "contract_digest"
  BY <1>3 DEF TrustLeft, TrustByStep, Judging, Ended
<1>4. CASE pc = "contract_load"
  BY <1>4 DEF TrustLeft, TrustByStep, Judging, Ended
<1>5. CASE pc = "settle" \/ pc \in Judging \cup Ended
  BY <1>5 DEF TrustLeft, TrustByStep, Judging, Ended
<1> QED
  BY <1>1, <1>2, <1>3, <1>4, <1>5 DEF TrustByStep

JudgingByStep ==
  \A rules \in Nat : rules = Len(Rules) =>
    /\ pc = "evidence_path" => JudgingLeft = 4 * (rules - at) + 5
    /\ pc = "evidence_kind" => JudgingLeft = 4 * (rules - at) + 4
    /\ pc = "evidence_digest" => JudgingLeft = 4 * (rules - at) + 3
    /\ pc = "evidence_content" => JudgingLeft = 4 * (rules - at) + 2
    /\ pc = "decide" => JudgingLeft = 1
    /\ pc \in Ended => JudgingLeft = 0

LEMMA JudgingAtStep == JudgingByStep
<1> SUFFICES ASSUME NEW rules \in Nat, rules = Len(Rules)
             PROVE
    /\ pc = "evidence_path" => JudgingLeft = 4 * (rules - at) + 5
    /\ pc = "evidence_kind" => JudgingLeft = 4 * (rules - at) + 4
    /\ pc = "evidence_digest" => JudgingLeft = 4 * (rules - at) + 3
    /\ pc = "evidence_content" => JudgingLeft = 4 * (rules - at) + 2
    /\ pc = "decide" => JudgingLeft = 1
    /\ pc \in Ended => JudgingLeft = 0
  BY DEF JudgingByStep
<1>1. CASE pc = "evidence_path"
  BY <1>1 DEF JudgingLeft, Ended
<1>2. CASE pc = "evidence_kind"
  BY <1>2 DEF JudgingLeft, Ended
<1>3. CASE pc = "evidence_digest"
  BY <1>3 DEF JudgingLeft, Ended
<1>4. CASE pc = "evidence_content"
  BY <1>4 DEF JudgingLeft, Ended
<1>5. CASE pc = "decide"
  BY <1>5 DEF JudgingLeft, Ended
<1>6. CASE pc \in Ended
  BY <1>6 DEF JudgingLeft, Ended
<1> QED
  BY <1>1, <1>2, <1>3, <1>4, <1>5, <1>6

(* Verifying the contracts.                                                *)
LEMMA TrustAdvances ==
  ASSUME Inv,
         \/ FindRoot \/ DigestRoot \/ LoadRoot
         \/ FindContract \/ DigestContract \/ LoadContract \/ SettleTrust
  PROVE  TrustLeft' < TrustLeft
<1>1. TrustByStep /\ TrustByStep'
  BY TrustAtStep, PTL
<1>2. pc \in {"contract_file", "contract_digest", "contract_load"} => at \in 1 .. 4
  BY DEF Inv, Order
<1>3. CASE FindRoot \/ DigestRoot \/ LoadRoot
  <2>1. \/ pc = "root_file" /\ pc' \in {"root_digest", "reported", "raised"}
        \/ pc = "root_digest" /\ pc' \in {"root_load", "raised"}
        \/ pc = "root_load" /\ pc' = "contract_file" /\ at' = 1
        \/ pc = "root_load" /\ pc' = "reported"
    BY <1>3 DEF FindRoot, DigestRoot, LoadRoot, Refuse, Raise
  <2> QED
    BY <1>1, <2>1 DEF TrustByStep, Ended
<1>4. CASE FindContract \/ DigestContract
  <2>1. \/ pc = "contract_file" /\ pc' = "contract_digest" /\ at' = at
        \/ pc \in {"contract_file", "contract_digest"} /\ pc' = "raised"
        \/ /\ pc \in {"contract_file", "contract_digest"}
           /\ \/ at < 4 /\ pc' = "contract_file" /\ at' = at + 1
              \/ pc' = "contract_load" /\ at' = 1
              \/ pc' = "settle"
    BY <1>4 DEF FindContract, DigestContract, NextContract, Raise
  <2> QED
    BY <1>1, <1>2, <2>1 DEF TrustByStep, Ended
<1>5. CASE LoadContract
  <2>1. /\ pc = "contract_load"
        /\ \/ at < 4 /\ pc' = pc /\ at' = at + 1
           \/ pc' = "settle"
    BY <1>5 DEF LoadContract
  <2> QED
    BY <1>1, <1>2, <2>1 DEF TrustByStep
<1>6. CASE SettleTrust
  <2>1. pc = "settle" /\ pc' \in {"evidence_path", "reported", "raised"}
    BY <1>6 DEF SettleTrust, Refuse, Raise
  <2> QED
    BY <1>1, <2>1 DEF TrustByStep, Judging, Ended
<1> QED
  BY <1>3, <1>4, <1>5, <1>6

(* Judging the evidence.                                                   *)
LEMMA JudgingAdvances ==
  ASSUME Inv,
         \/ FindEvidence \/ CheckEvidenceKind \/ DigestEvidence \/ ReadEvidence
         \/ Decide
  PROVE  TrustLeft' = TrustLeft /\ JudgingLeft' < JudgingLeft
<1>1. /\ TrustByStep /\ TrustByStep'
      /\ JudgingByStep /\ JudgingByStep'
  BY TrustAtStep, JudgingAtStep, PTL
<1>2. pc \in Judging /\ pc' \in Judging \cup Ended /\ UNCHANGED documents
  BY DEF FindEvidence, CheckEvidenceKind, DigestEvidence, ReadEvidence, Decide,
         Record, ContinueWith, Unevaluated, Judged, Raise, Judging, Ended
<1>3. TrustLeft' = TrustLeft
  BY <1>1, <1>2 DEF TrustByStep
<1>4. PICK rules \in Nat : rules = Len(Rules)
  <2>1. Len(Rules) \in Nat
    BY <1>2, JudgingFacts
  <2> QED
    BY <2>1
<1>5. Rules' = Rules
  BY <1>2 DEF Rules, Document
<1>6. pc # "decide" => at \in 1 .. rules
  BY <1>2, <1>4, JudgingFacts
<1>7. CASE Decide
  <2>1. pc = "decide" /\ pc' \in Ended
    BY <1>7 DEF Decide, Raise, Ended
  <2> QED
    BY <1>1, <1>3, <1>4, <1>5, <2>1 DEF JudgingByStep
<1>8. CASE ~ Decide
  <2>1. /\ pc \in {"evidence_path", "evidence_kind", "evidence_digest",
                   "evidence_content"}
        /\ \/ pc = "evidence_path" /\ pc' = "evidence_kind" /\ at' = at
           \/ pc = "evidence_kind" /\ pc' = "evidence_digest" /\ at' = at
           \/ pc = "evidence_digest" /\ pc' = "evidence_content" /\ at' = at
           \/ pc' = "evidence_path" /\ at' = at + 1 /\ at < rules
           \/ pc' = "decide" /\ at' = at
           \/ pc' = "raised"
    BY <1>4, <1>8 DEF FindEvidence, CheckEvidenceKind, DigestEvidence, ReadEvidence,
                  Record, ContinueWith, Unevaluated, Judged, Raise
  <2>2. /\ pc = "evidence_path" => JudgingLeft = 4 * (rules - at) + 5
        /\ pc = "evidence_kind" => JudgingLeft = 4 * (rules - at) + 4
        /\ pc = "evidence_digest" => JudgingLeft = 4 * (rules - at) + 3
        /\ pc = "evidence_content" => JudgingLeft = 4 * (rules - at) + 2
    BY <1>1, <1>4 DEF JudgingByStep
  <2>3. /\ pc' = "evidence_path" => JudgingLeft' = 4 * (rules - at') + 5
        /\ pc' = "evidence_kind" => JudgingLeft' = 4 * (rules - at') + 4
        /\ pc' = "evidence_digest" => JudgingLeft' = 4 * (rules - at') + 3
        /\ pc' = "evidence_content" => JudgingLeft' = 4 * (rules - at') + 2
        /\ pc' = "decide" => JudgingLeft' = 1
        /\ pc' = "raised" => JudgingLeft' = 0
    BY <1>1, <1>4, <1>5 DEF JudgingByStep, Ended
  <2>4. JudgingLeft' < JudgingLeft
    BY <1>6, <2>1, <2>2, <2>3
  <2> QED
    BY <1>3, <2>4
<1> QED
  BY <1>7, <1>8

LEMMA CallStepAdvances ==
  Inv /\ [Next]_vars =>
    [IF writes' = writes
     THEN \/ TrustLeft' < TrustLeft
          \/ TrustLeft' = TrustLeft /\ JudgingLeft' < JudgingLeft
     ELSE UNCHANGED <<TrustLeft, JudgingLeft>>]_vars
<1> SUFFICES ASSUME Inv, Next
             PROVE  [IF writes' = writes
                     THEN \/ TrustLeft' < TrustLeft
                          \/ TrustLeft' = TrustLeft /\ JudgingLeft' < JudgingLeft
                     ELSE UNCHANGED <<TrustLeft, JudgingLeft>>]_vars
  OBVIOUS
<1>1. CASE Evaluate
  BY <1>1, TrustAdvances, JudgingAdvances DEF Evaluate
<1>2. ASSUME NEW file \in Files, NEW content \in Contents[file], Change(file, content)
      PROVE  writes' # writes /\ UNCHANGED <<TrustLeft, JudgingLeft>>
  <2>1. writes' = writes + 1 /\ writes \in Nat /\ UNCHANGED callVars
    BY <1>2, MaxWritesAssumption DEF Change, Inv, TypeOK
  <2> QED
    BY <2>1 DEF callVars, TrustLeft, JudgingLeft, Rules, Document
<1> QED
  BY <1>1, <1>2 DEF Next, Return

LEMMA LeftIsNat == Inv => TrustLeft \in Nat /\ JudgingLeft \in Nat
<1> SUFFICES ASSUME Inv PROVE TrustLeft \in Nat /\ JudgingLeft \in Nat
  OBVIOUS
<1>1. pc \in Steps \cup Ended
  BY DEF Inv, TypeOK
<1>2. TrustLeft \in Nat
  <2>1. pc \in {"contract_file", "contract_digest", "contract_load"} => at \in 1 .. 4
    BY DEF Inv, Order
  <2> QED
    BY <1>1, <2>1, TrustAtStep DEF TrustByStep, Judging, Steps
<1>3. CASE pc \in Judging
  <2>1. PICK rules \in Nat : rules = Len(Rules)
    <3>1. Len(Rules) \in Nat
      BY <1>3, JudgingFacts
    <3> QED
      BY <3>1
  <2>2. pc # "decide" => at \in 1 .. rules
    BY <1>3, <2>1, JudgingFacts
  <2> QED
    BY <1>2, <1>3, <2>1, <2>2, JudgingAtStep DEF JudgingByStep, Judging
<1>4. CASE pc \notin Judging
  BY <1>2, <1>4 DEF JudgingLeft, Judging
<1> QED
  BY <1>3, <1>4

(* Whatever the contracts, the policy and the changes to the files: every  *)
(* step of evaluate_context lowers a pair of numbers that no change        *)
(* raises, so that only finitely many steps are left to it at any time.    *)
THEOREM CallProgresses ==
  Spec => CallAdvances /\ [](TrustLeft \in Nat /\ JudgingLeft \in Nat)
BY CallStepAdvances, LeftIsNat, Inductive, PTL DEF Spec, CallAdvances
=============================================================================
