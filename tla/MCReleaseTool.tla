--------------------------- MODULE MCReleaseTool ---------------------------
(***************************************************************************)
(* Instances of ReleaseTool: two commits that differ in the review, and    *)
(* requests for the release, for another one and by canonical identifier.  *)
(***************************************************************************)
EXTENDS MCContextEvaluator, ReleaseTool

CONSTANTS c1, c2

MCCommits == {c1, c2}

MCRequests == {[text |-> "Orion 1.0.0", id |-> None],
               [text |-> "vega 3.0.0", id |-> None],
               [text |-> "release:orion:1.0.0", id |-> Release]}

MCCiRuns == {[active |-> FALSE, commit |-> None],
             [active |-> TRUE, commit |-> None],
             [active |-> TRUE, commit |-> c1]}

LocalRuns == {[active |-> FALSE, commit |-> None]}

TreeWith(root, policy, bundle, review) ==
  ("trust-root.json" :> root) @@ ("identity.json" :> "identity")
  @@ ("ontology.json" :> "ontology") @@ ("ownership.json" :> "ownership")
  @@ ("policy.json" :> policy) @@ ("dist/bundle" :> bundle)
  @@ ("evidence/review" :> review)

MCTreeOf == (c1 :> TreeWith("root", "policy", "bundle", "approved"))
            @@ (c2 :> TreeWith("root", "policy", "bundle", "waiting"))

(* Worktrees that are a commit, or differ from both in one or two files.   *)
ToolTrees ==
  {TreeWith(r, p, b, v) : r \in {"root", "root_next", "root_twins", "garbage", Absent},
                          p \in {"policy", "policy_next", "policy_twins"},
                          b \in {"bundle", Absent, Inaccessible},
                          v \in {"approved", "waiting"}}

ToolContents ==
  ("trust-root.json" :> {"root", "root_vega", Absent, Unreadable})
  @@ ("identity.json" :> {}) @@ ("ontology.json" :> {})
  @@ ("ownership.json" :> {}) @@ ("policy.json" :> {})
  @@ ("dist/bundle" :> {Absent})
  @@ ("evidence/review" :> {"approved", "waiting"})
============================================================================
