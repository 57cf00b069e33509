-------------------------- MODULE ContextEvaluator --------------------------
(***************************************************************************)
(* One call of evaluate_context: verify the contracts against the trust    *)
(* root, then evaluate the policy's requirements, then decide.  The call   *)
(* opens most files twice -- once for the digest it reports, once for the  *)
(* content it uses -- and each open is a step here, because the files are  *)
(* a live working tree that something else (a checkout, a build, the       *)
(* reissue of a manifest) may be writing meanwhile.                        *)
(*                                                                         *)
(* A call ends with pc = "reported" (a ContextReport is returned) or       *)
(* pc = "raised" (an exception leaves evaluate_context).                   *)
(***************************************************************************)
EXTENDS TreeVerdict, ContextGraph

CONSTANTS Identifiers,    \* the identifiers of requirements
          Trees,          \* the trees of files a call may start on
          Contents,       \* [Files -> what a change may put at the path]
          MaxWrites       \* how many times the files change during a call

ASSUME TreesAssumption == Trees \subseteq [Files -> Entries]
ASSUME ContentsAssumption == Contents \in [Files -> SUBSET Entries]
ASSUME PathsAssumption ==
  /\ TrustRoot \notin EvidencePaths
  /\ Contracts \cap EvidencePaths = {}
ASSUME NotAFileAssumption ==
  /\ ({Absent, Directory, None} \cup Denied) \cap Bytes = {}
  /\ Absent # Directory /\ {Absent, Directory} \cap Denied = {}
  /\ Unreadable # Inaccessible
ASSUME NoneAssumption == None \notin TrustStates \cup Decisions

(* The requirements of a policy are a list, and the identifier of one is a *)
(* string.                                                                 *)
IsSequence(s) == s \in Seq({s[i] : i \in DOMAIN s})
ASSUME PoliciesAssumption ==
  \A b \in Bytes :
    ParseContract[b] # Malformed =>
      LET rules == Get(ParseContract[b], "requirements", <<>>)
      IN  /\ IsSequence(rules)
          /\ \A i \in DOMAIN rules :
               "id" \in DOMAIN rules[i] => rules[i].id \in Identifiers
ASSUME MaxWritesAssumption == MaxWrites \in Nat

VARIABLES
  disk,        \* what every path holds now
  pc,          \* the next step of the call
  at,          \* index of the contract or the requirement it works on
  rootDigest,  \* digest of trust-root.json, None before
  rootBytes,   \* the bytes the trust root was parsed from, None before
  verified,    \* contracts whose digest matched the manifest
  documents,   \* [Contracts -> the bytes the contract was parsed from]
  issues,      \* the issues found so far, by severity
  trust,       \* the contract trust state, None before it is settled
  digests,     \* digests of the evidence of the requirement at hand
  evidence,    \* the evidence records, in the order of the policy's rules
  decision,    \* the decision of the report, None before
  seen,        \* history: everything each path has held during the call
  writes       \* history: how often the files changed

callVars == <<pc, at, rootDigest, rootBytes, verified, documents, issues,
              trust, digests, evidence, decision>>
vars == <<disk, callVars, seen, writes>>

Steps == {"root_file", "root_digest", "root_load", "contract_file",
          "contract_digest", "contract_load", "settle", "evidence_path",
          "evidence_kind", "evidence_digest", "evidence_content", "decide"}
Ended == {"reported", "raised"}

States == {"satisfied", "blocked", "missing", "indeterminate"}

IsFile(path) == disk[path] \in Bytes \cup {Unreadable}
Examinable(path) == disk[path] # Inaccessible   \* is_file and exists answer
Readable(path) == disk[path] \in Bytes

Root == ParseRoot[rootBytes]
Document(path) == ParseContract[documents[path]]
Rules == Document("policy.json").requirements
Rule == Rules[at]
Path == ContractPaths[at]

NoIssues == [invalid |-> {}, missing |-> {}, stale |-> {}, ambiguous |-> {}]
MergeIssues(a, b) == [invalid   |-> a.invalid \cup b.invalid,
                      missing   |-> a.missing \cup b.missing,
                      stale     |-> a.stale \cup b.stale,
                      ambiguous |-> a.ambiguous \cup b.ambiguous]
Blocking(found) == found.invalid # {} \/ found.missing # {}

Init ==
  /\ disk \in Trees
  /\ pc = "root_file" /\ at = 1
  /\ rootDigest = None /\ rootBytes = None
  /\ verified = {} /\ documents = [c \in Contracts |-> None]
  /\ issues = NoIssues /\ trust = None
  /\ digests = {} /\ evidence = <<>> /\ decision = None
  /\ seen = [f \in Files |-> {disk[f]}] /\ writes = 0

-----------------------------------------------------------------------------
(* The trust root.                                                         *)

(* The report of contracts that are not verified: no evidence is read.     *)
Refuse_NoDecision(state, found) ==   \* variant: the report lacks a decision
  trust' = state /\ issues' = found /\ pc' = "reported" /\ UNCHANGED decision

Refuse(state, found) ==
  /\ trust' = state /\ issues' = found
  /\ decision' = "INDETERMINATE" /\ pc' = "reported"

Raise ==
  /\ pc' = "raised"
  /\ UNCHANGED <<at, rootDigest, rootBytes, verified, documents, issues,
                 trust, digests, evidence, decision>>

FindRoot ==
  /\ pc = "root_file"
  /\ IF ~ Examinable(TrustRoot)
     THEN Raise
     ELSE /\ \/ /\ IsFile(TrustRoot)
                /\ pc' = "root_digest"
                /\ UNCHANGED <<issues, trust, decision>>
             \/ /\ ~ IsFile(TrustRoot)
                /\ Refuse("missing", [NoIssues EXCEPT !.missing = {TrustRoot}])
          /\ UNCHANGED <<at, rootDigest, rootBytes, verified, documents, digests,
                         evidence>>

DigestRoot ==
  /\ pc = "root_digest"
  /\ \/ /\ Readable(TrustRoot)
        /\ rootDigest' = FileDigest(disk[TrustRoot])
        /\ pc' = "root_load"
        /\ UNCHANGED <<at, rootBytes, verified, documents, issues, trust,
                       digests, evidence, decision>>
     \/ ~ Readable(TrustRoot) /\ Raise

LoadRoot ==
  /\ pc = "root_load"
  /\ IF Readable(TrustRoot) /\ ParseRoot[disk[TrustRoot]] # Malformed
     THEN /\ rootBytes' = disk[TrustRoot]
          /\ issues' = [issues EXCEPT !.invalid =
                          HeaderIssues(ParseRoot[disk[TrustRoot]])
                          \cup ManifestIssues(ParseRoot[disk[TrustRoot]].manifest)]
          /\ pc' = "contract_file" /\ at' = 1
          /\ UNCHANGED <<trust, decision>>
     ELSE /\ Refuse("invalid", [NoIssues EXCEPT !.invalid = {TrustRoot}])
          /\ UNCHANGED <<at, rootBytes>>
  /\ UNCHANGED <<rootDigest, verified, documents, digests, evidence>>

-----------------------------------------------------------------------------
(* The contracts: first every digest, then, if nothing is wrong, every     *)
(* document, opened again.                                                 *)

(* What follows the digest of a contract, once its outcome is known.       *)
NextContract_Stuck(found) ==   \* variant: the loop does not advance
  /\ pc' = IF at < Len(ContractPaths) THEN "contract_file"
           ELSE IF Blocking(found) THEN "settle" ELSE "contract_load"
  /\ UNCHANGED at

NextContract(found) ==
  IF at < Len(ContractPaths)
  THEN pc' = "contract_file" /\ at' = at + 1
  ELSE /\ pc' = IF Blocking(found) THEN "settle" ELSE "contract_load"
       /\ at' = 1

FindContract ==
  /\ pc = "contract_file"
  /\ IF Path \in Declared(Root.manifest) /\ ~ Examinable(Path)
     THEN Raise
     ELSE /\ \/ /\ Path \notin Declared(Root.manifest)
                /\ NextContract(issues) /\ UNCHANGED issues
             \/ /\ Path \in Declared(Root.manifest) /\ ~ IsFile(Path)
                /\ issues' = [issues EXCEPT !.missing = @ \cup {Path}]
                /\ NextContract(issues')
             \/ /\ Path \in Declared(Root.manifest) /\ IsFile(Path)
                /\ pc' = "contract_digest"
                /\ UNCHANGED <<at, issues>>
          /\ UNCHANGED <<rootDigest, rootBytes, verified, documents, trust,
                         digests, evidence, decision>>

Matches_Any(path) == TRUE   \* variant: the digest is not compared

Matches(path) == FileDigest(disk[path]) = ExpectedDigest(Root.manifest, path)

DigestContract ==
  /\ pc = "contract_digest"
  /\ \/ ~ Readable(Path) /\ Raise
     \/ /\ Readable(Path)
        /\ IF Matches(Path)
           THEN verified' = verified \cup {Path} /\ UNCHANGED issues
           ELSE /\ issues' = [issues EXCEPT !.invalid = @ \cup {Path}]
                /\ UNCHANGED verified
        /\ NextContract(issues')
        /\ UNCHANGED <<rootDigest, rootBytes, documents, trust, digests,
                       evidence, decision>>

LoadContract_Uncaught ==   \* variant: a contract that is gone is taken as read
  /\ pc = "contract_load"
  /\ documents' = [documents EXCEPT ![Path] = disk[Path]]
  /\ IF at < Len(ContractPaths)
     THEN at' = at + 1 /\ UNCHANGED pc
     ELSE at' = 1 /\ pc' = "settle"
  /\ UNCHANGED <<rootDigest, rootBytes, verified, issues, trust, digests,
                 evidence, decision>>

LoadContract ==
  /\ pc = "contract_load"
  /\ IF Readable(Path) /\ ParseContract[disk[Path]] # Malformed
     THEN /\ documents' = [documents EXCEPT ![Path] = disk[Path]]
          /\ UNCHANGED issues
     ELSE /\ issues' = [issues EXCEPT !.invalid = @ \cup {Path}]
          /\ UNCHANGED documents
  /\ IF at < Len(ContractPaths)
     THEN at' = at + 1 /\ UNCHANGED pc
     ELSE at' = 1 /\ pc' = "settle"
  /\ UNCHANGED <<rootDigest, rootBytes, verified, trust, digests, evidence,
                 decision>>

(* The documents are compared with the trust root only when every one of   *)
(* them was loaded; the gravest issue then decides the trust state.        *)
SettledIssues ==
  IF Blocking(issues) THEN issues
  ELSE MergeIssues(issues,
         DocumentIssues(Root, Document("identity.json"),
                        Document("ontology.json"), Document("ownership.json"),
                        Document("policy.json")))

SettleTrust ==
  /\ pc = "settle"
  /\ IF ~ Blocking(issues) /\ ReferenceCheckRaises(Root, Document("identity.json"))
     THEN Raise
     ELSE /\ IF TrustOf(SettledIssues) = "verified"
             THEN /\ trust' = "verified" /\ issues' = SettledIssues
                  /\ pc' = "evidence_path"
                  /\ UNCHANGED decision
             ELSE Refuse(TrustOf(SettledIssues), SettledIssues)
          /\ UNCHANGED <<at, rootDigest, rootBytes, verified, documents,
                         digests, evidence>>

-----------------------------------------------------------------------------
(* The requirements of the policy, one after the other.                    *)

(* The record of the requirement at hand.  The field content is history:   *)
(* the bytes that its verdict was computed from.                           *)
Record(state, sources, digested, content) ==
  /\ evidence' = Append(evidence,
       [requirement |-> Rule.id, id |-> <<"evidence", Suffix(Rule.id)>>,
        state |-> state, sources |-> sources, digests |-> digested,
        content |-> content])
  /\ digests' = {}
  /\ IF at < Len(Rules)
     THEN pc' = "evidence_path" /\ at' = at + 1
     ELSE pc' = "decide" /\ UNCHANGED at

ContinueWith(step) == pc' = step /\ UNCHANGED <<at, digests, evidence>>

SafeSource == Rule.source \in EvidencePaths

Unevaluated(digested) == Record("indeterminate", {Rule.source}, digested, None)

FindEvidence ==
  /\ pc = "evidence_path"
  /\ \/ ~ SafeSource /\ Record("indeterminate", {}, {}, None)
     \/ SafeSource /\ ~ Examinable(Rule.source) /\ Unevaluated({})
     \/ /\ SafeSource /\ disk[Rule.source] = Absent
        /\ Record("missing", {Rule.source}, {}, None)
     \/ /\ SafeSource /\ disk[Rule.source] \notin {Absent, Inaccessible}
        /\ ContinueWith("evidence_kind")
  /\ UNCHANGED <<rootDigest, rootBytes, verified, documents, issues, trust,
                 decision>>

CheckEvidenceKind_Missing ==   \* variant: what is not a file counts as absent
  /\ pc = "evidence_kind"
  /\ \/ ~ Examinable(Rule.source) /\ Unevaluated({})
     \/ IsFile(Rule.source) /\ ContinueWith("evidence_digest")
     \/ /\ Examinable(Rule.source) /\ ~ IsFile(Rule.source)
        /\ Record("missing", {Rule.source}, {}, None)
  /\ UNCHANGED <<rootDigest, rootBytes, verified, documents, issues, trust,
                 decision>>

CheckEvidenceKind ==
  /\ pc = "evidence_kind"
  /\ \/ ~ Examinable(Rule.source) /\ Unevaluated({})
     \/ IsFile(Rule.source) /\ ContinueWith("evidence_digest")
     \/ /\ Examinable(Rule.source) /\ ~ IsFile(Rule.source)
        /\ Record("blocked", {Rule.source}, {}, None)
  /\ UNCHANGED <<rootDigest, rootBytes, verified, documents, issues, trust,
                 decision>>

(* A check of the mere path needs no second read.                          *)
DigestEvidence ==
  /\ pc = "evidence_digest"
  /\ \/ ~ Readable(Rule.source) /\ Unevaluated({})
     \/ /\ Readable(Rule.source) /\ Rule.check = "path_exists"
        /\ Record("satisfied", {Rule.source}, {FileDigest(disk[Rule.source])},
                  disk[Rule.source])
     \/ /\ Readable(Rule.source) /\ Rule.check # "path_exists"
        /\ digests' = {FileDigest(disk[Rule.source])}
        /\ pc' = "evidence_content"
        /\ UNCHANGED <<at, evidence>>
  /\ UNCHANGED <<rootDigest, rootBytes, verified, documents, issues, trust,
                 decision>>

Judged ==   \* the record of the content that was read
  Record(CheckContent(Rule, disk[Rule.source]), {Rule.source}, digests,
         disk[Rule.source])

ReadEvidence_Uncaught ==   \* variant: the second read is outside the try block
  /\ pc = "evidence_content"
  /\ IF Readable(Rule.source) /\ ~ CheckRaises(Rule, disk[Rule.source])
     THEN /\ Judged
          /\ UNCHANGED <<rootDigest, rootBytes, verified, documents, issues,
                         trust, decision>>
     ELSE Raise

ReadEvidence_Again ==   \* variant: a source that is gone is looked for again
  /\ pc = "evidence_content"
  /\ IF Readable(Rule.source) /\ CheckRaises(Rule, disk[Rule.source])
     THEN Raise
     ELSE /\ IF Readable(Rule.source) THEN Judged ELSE ContinueWith("evidence_path")
          /\ UNCHANGED <<rootDigest, rootBytes, verified, documents, issues,
                         trust, decision>>

ReadEvidence ==
  /\ pc = "evidence_content"
  /\ IF Readable(Rule.source) /\ CheckRaises(Rule, disk[Rule.source])
     THEN Raise
     ELSE /\ IF Readable(Rule.source) THEN Judged ELSE Unevaluated(digests)
          /\ UNCHANGED <<rootDigest, rootBytes, verified, documents, issues,
                         trust, decision>>

DecisionOf_NothingHeld(states) ==   \* variant: READY unless something is held
  IF states \cap {"blocked", "missing"} # {} THEN "HOLD" ELSE "READY"

DecisionOf_OpenFirst(states) ==   \* variant: an open requirement outweighs
  CASE states = {"satisfied"} -> "READY"
    [] "indeterminate" \in states -> "INDETERMINATE"
    [] OTHER -> "HOLD"

(* A requirement that is blocked or missing outweighs one that could not   *)
(* be evaluated.                                                           *)
DecisionOf(states) ==
  CASE states = {"satisfied"} -> "READY"
    [] states \cap {"blocked", "missing"} # {} -> "HOLD"
    [] OTHER -> "INDETERMINATE"

Decide ==
  /\ pc = "decide"
  /\ IF GraphAccepted(Root, Document("policy.json").id,
                      Document("ownership.json").owner_id, evidence,
                      Document("ontology.json").allowed_relations)
     THEN /\ decision' = DecisionOf({evidence[i].state : i \in DOMAIN evidence})
          /\ pc' = "reported"
          /\ UNCHANGED <<at, rootDigest, rootBytes, verified, documents,
                         issues, trust, digests, evidence>>
     ELSE Raise

-----------------------------------------------------------------------------

Evaluate ==
  /\ \/ FindRoot \/ DigestRoot \/ LoadRoot
     \/ FindContract \/ DigestContract \/ LoadContract \/ SettleTrust
     \/ FindEvidence \/ CheckEvidenceKind \/ DigestEvidence \/ ReadEvidence
     \/ Decide
  /\ UNCHANGED <<disk, seen, writes>>

(* Something else replaces, creates or removes a file.                     *)
Change(file, content) ==
  /\ writes < MaxWrites
  /\ content # disk[file]
  /\ disk' = [disk EXCEPT ![file] = content]
  /\ seen' = [seen EXCEPT ![file] = @ \cup {content}]
  /\ writes' = writes + 1
  /\ UNCHANGED callVars

(* The call has returned.                                                  *)
Return == pc \in Ended /\ UNCHANGED vars

Next ==
  \/ Evaluate
  \/ \E file \in Files : \E content \in Contents[file] : Change(file, content)
  \/ Return

Spec == Init /\ [][Next]_vars
FairSpec == Spec /\ WF_vars(Evaluate)

-----------------------------------------------------------------------------
(* Properties.                                                             *)

Issues == {TrustRoot} \cup Contracts \cup RootIssueNames \cup DocumentIssueNames
IssueSets == [invalid : SUBSET Issues, missing : SUBSET Issues,
              stale : SUBSET Issues, ambiguous : SUBSET Issues]

EvidenceRecords ==
  [requirement : Identifiers,
   id          : {<<"evidence", Suffix(r)>> : r \in Identifiers},
   state       : States,
   sources     : SUBSET EvidencePaths,
   digests     : SUBSET Bytes,
   content     : Bytes \cup {None}]

TypeOK ==
  /\ disk \in [Files -> Entries]
  /\ pc \in Steps \cup Ended
  /\ at \in Nat \ {0}
  /\ rootDigest \in Bytes \cup {None} /\ rootBytes \in Bytes \cup {None}
  /\ verified \subseteq Contracts
  /\ documents \in [Contracts -> Bytes \cup {None}]
  /\ issues \in IssueSets
  /\ trust \in TrustStates \cup {None}
  /\ digests \subseteq Bytes
  /\ evidence \in Seq(EvidenceRecords)
  /\ decision \in Decisions \cup {None}
  /\ seen \in [Files -> SUBSET Entries]
  /\ writes \in 0 .. MaxWrites

(* Whatever the files do during the call, evidence is opened only after    *)
(* the contracts were verified: every contract was declared by the trust   *)
(* root that was loaded, the declared content was at its path during the   *)
(* call, and no issue is open.  (_verify_contracts runs to its end before  *)
(* evaluate_context opens evidence.)                                       *)
EvidenceOnlyAfterTrust ==
  digests # {} \/ evidence # <<>> =>
    /\ trust = "verified" /\ issues = NoIssues
    /\ rootBytes # None
    /\ \A c \in Contracts : /\ c \in Declared(Root.manifest)
                            /\ ExpectedDigest(Root.manifest, c) \in seen[c]

(* The primary invariant of SYSTEM.md, with what stands behind it: READY   *)
(* comes from contracts verified against the root, a policy no older than  *)
(* the root demands and bound to its target, and one satisfied record for  *)
(* each of the policy's requirements, of which there is at least one.      *)
ReadyIsEarned ==
  decision = "READY" =>
    /\ trust = "verified" /\ verified = Contracts
    /\ Document("policy.json").id = Root.policy
    /\ Document("policy.json").epoch >= Root.minEpoch
    /\ Resolve(Document("policy.json").target_references,
               Document("identity.json")).canonical_id = Root.target
    /\ Len(evidence) = Len(Rules) /\ Rules # <<>>
    /\ \A i \in DOMAIN evidence : /\ evidence[i].state = "satisfied"
                                  /\ evidence[i].requirement = Rules[i].id

(* A verdict and a digest in the report are about contents that the source *)
(* really had while the call was running, even if files changed under it.  *)
Supported(record, rule) ==
  /\ record.digests \subseteq seen[rule.source]
  /\ CASE record.state = "satisfied" ->
            \E b \in seen[rule.source] \cap Bytes : CheckContent(rule, b) = "satisfied"
       [] record.state = "missing" -> Absent \in seen[rule.source]
       [] record.state = "blocked" ->
            \/ seen[rule.source] \cap {Absent, Directory} # {}
            \/ \E b \in seen[rule.source] \cap Bytes : CheckContent(rule, b) = "blocked"
       [] OTHER -> TRUE

VerdictsAreSupported ==
  \A i \in DOMAIN evidence :
    Rules[i].source \in EvidencePaths => Supported(evidence[i], Rules[i])

(* If no file changed during the call, the stepwise evaluation returns     *)
(* exactly the verdict on the tree it started on; an exception that leaves *)
(* it before the contracts are verified does so because verifying that     *)
(* tree has to raise.                                                      *)
UndisturbedVerdictIsExact ==
  writes = 0 =>
    /\ pc = "reported" => trust = TrustOn(disk) /\ decision = DecisionOn(disk)
    /\ pc = "raised" => TrustOn(disk) \in {"raises", trust}

(* An exception leaves the call only for one of these causes.  Before the  *)
(* contracts are verified: the trust root or a contract could not be read, *)
(* or vanished between the test that it is there and the read of its       *)
(* digest; or the identity contract lacks a key, or has aliases that are   *)
(* not iterable.  After that: no selector of the rule at hand is a string; *)
(* or all requirements were judged, and two nodes of the graph that are of *)
(* different kinds share an identifier, or a relation of the ontology has  *)
(* an array or object for a field.  (That the interpreter runs out of      *)
(* stack or memory is not modelled.)                                       *)
Vanished(path) == seen[path] \cap Bytes # {} /\ seen[path] \ Bytes # {}

IdentifiersCoincide ==
  LET nodes == Nodes(Root, Document("policy.json").id,
                     Document("ownership.json").owner_id, evidence)
  IN  \E m, n \in DOMAIN nodes :
        nodes[m].id = nodes[n].id /\ nodes[m].kind # nodes[n].kind

RaisesOnlyWhen ==
  pc = "raised" =>
    \/ /\ trust = None
       /\ \/ \E f \in {TrustRoot} \cup Contracts :
               Vanished(f) \/ seen[f] \cap Denied # {}
          \/ /\ documents["identity.json"] # None
             /\ ~ Resolvable(Document("identity.json"))
    \/ /\ trust = "verified" /\ Len(evidence) < Len(Rules) /\ NoStringSelector(Rule)
    \/ /\ trust = "verified" /\ Len(evidence) = Len(Rules)
       /\ \/ IdentifiersCoincide
          \/ ~ Hashable(Document("ontology.json").allowed_relations)

(* What is left of verifying the contracts, and of judging the evidence    *)
(* once it is known what there is to judge.                                *)
TrustLeft ==
  LET all == Len(ContractPaths)
  IN  CASE pc = "root_file" -> 3 * all + 4
        [] pc = "root_digest" -> 3 * all + 3
        [] pc = "root_load" -> 3 * all + 2
        [] pc = "contract_file" -> all + 1 + 2 * (all + 1 - at)
        [] pc = "contract_digest" -> all + 2 * (all + 1 - at)
        [] pc = "contract_load" -> all + 2 - at
        [] pc = "settle" -> 1
        [] OTHER -> 0

JudgingLeft ==
  CASE pc = "evidence_path" -> 4 * (Len(Rules) - at) + 5
    [] pc = "evidence_kind" -> 4 * (Len(Rules) - at) + 4
    [] pc = "evidence_digest" -> 4 * (Len(Rules) - at) + 3
    [] pc = "evidence_content" -> 4 * (Len(Rules) - at) + 2
    [] pc = "decide" -> 1
    [] OTHER -> 0

(* Every step of a call brings it nearer to its end, whatever it finds at  *)
(* the paths, and no change of the files takes it further away: a file     *)
(* that comes and goes sends no loop back to its start.                    *)
CallAdvances ==
  [][IF writes' = writes
     THEN \/ TrustLeft' < TrustLeft
          \/ TrustLeft' = TrustLeft /\ JudgingLeft' < JudgingLeft
     ELSE UNCHANGED <<TrustLeft, JudgingLeft>>]_vars

(* A call ends, however the files change meanwhile.                        *)
CallEnds == <>(pc \in Ended)

(* The abstract evaluation this one implements.                            *)
Phase == CASE pc \in Ended -> pc
           [] pc \notin Ended /\ trust = None -> "trusting"
           [] OTHER -> "judging"
Promise == INSTANCE GovernedDecision WITH
             phase <- Phase,
             verdicts <- {evidence[i].state : i \in DOMAIN evidence}
ImplementsPromise == Promise!Spec

-----------------------------------------------------------------------------
(* What the repository's documents say of every call, and the code does    *)
(* not keep.                                                               *)

(* "evidence digests bind the bytes read at governed coordinates"          *)
(* (docs/proof-protocol.md): a verdict and the digest beside it are about  *)
(* the same content of the file.                                           *)
DigestBindsEvidence ==
  \A i \in DOMAIN evidence :
    evidence[i].content # None => evidence[i].digests = {evidence[i].content}

(* "Fail closed to INDETERMINATE before evidence evaluation when contract  *)
(* trust is not internally verified" (docs/build-brief.md): on files that  *)
(* hold still a call that does not verify its contracts reports that.      *)
UntrustedFailsClosed ==
  writes = 0 /\ pc \in Ended /\ trust # "verified" => decision = "INDETERMINATE"
=============================================================================
