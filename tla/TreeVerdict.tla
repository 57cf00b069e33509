---------------------------- MODULE TreeVerdict ----------------------------
(***************************************************************************)
(* The verdict of an evaluation on a tree of files that holds still: what  *)
(* evaluate_context computes, without the order of its reads.              *)
(***************************************************************************)
EXTENDS ContractTrust, EvidenceChecks

CONSTANTS EvidencePaths,  \* the paths a rule may name inside the repository
          Absent,         \* nothing is at the path
          Directory,      \* something other than a file is
          Unreadable,     \* a file whose bytes cannot be read
          Inaccessible    \* what is there cannot be found out

Decisions == {"READY", "HOLD", "INDETERMINATE"}

TrustRoot == "trust-root.json"
Files == {TrustRoot} \cup Contracts \cup EvidencePaths
Denied == {Unreadable, Inaccessible}             \* to open it is an OSError
Entries == Bytes \cup {Absent, Directory} \cup Denied   \* what a path may hold

(* load_trust_root succeeds                                                *)
Loadable(entry) == entry \in Bytes /\ ParseRoot[entry] # Malformed

UnparsableOn(tree, path) ==
  tree[path] \notin Bytes \/ ParseContract[tree[path]] = Malformed

TrustOn(tree) ==
  IF tree[TrustRoot] \in Denied THEN "raises"
  ELSE IF tree[TrustRoot] \notin Bytes THEN "missing"
  ELSE IF ParseRoot[tree[TrustRoot]] = Malformed THEN "invalid"
  ELSE
    LET root == ParseRoot[tree[TrustRoot]]
        doc == [c \in Contracts |-> ParseContract[tree[c]]]
        declared == Declared(root.manifest)
    IN  CASE \E c \in declared : tree[c] \in Denied -> "raises"
          [] /\ \A c \in declared : tree[c] \notin Denied
             /\ \/ HeaderIssues(root) \cup ManifestIssues(root.manifest) # {}
                \/ \E c \in declared : /\ tree[c] \in Bytes
                                       /\ tree[c] # ExpectedDigest(root.manifest, c)
               -> "invalid"
          [] OTHER ->
             CASE \E c \in Contracts : tree[c] \notin Bytes -> "missing"
               [] OTHER ->
                  IF \E c \in Contracts : UnparsableOn(tree, c) THEN "invalid"
                  ELSE IF ReferenceCheckRaises(root, doc["identity.json"])
                  THEN "raises"
                  ELSE TrustOf(DocumentIssues(root, doc["identity.json"],
                                 doc["ontology.json"], doc["ownership.json"],
                                 doc["policy.json"]))

VerdictOn(tree, rule) ==
  IF rule.source \notin EvidencePaths THEN "indeterminate"
  ELSE CASE tree[rule.source] = Absent -> "missing"
         [] tree[rule.source] = Directory -> "blocked"
         [] tree[rule.source] \in Denied -> "indeterminate"
         [] OTHER -> CheckContent(rule, tree[rule.source])

DecisionOn(tree) ==
  LET rules == ParseContract[tree["policy.json"]].requirements
      found == {VerdictOn(tree, rules[i]) : i \in DOMAIN rules}
  IN  IF TrustOn(tree) # "verified" THEN "INDETERMINATE"
      ELSE IF \A v \in found : v = "satisfied" THEN "READY"
      ELSE IF \E v \in found : v \in {"blocked", "missing"} THEN "HOLD"
      ELSE "INDETERMINATE"
============================================================================
