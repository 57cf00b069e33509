---------------------------- MODULE ReleaseTool ----------------------------
(***************************************************************************)
(* One call of the agent's tool, inspect_release_context: observe the git  *)
(* worktree, evaluate the context, read the trust root once more to see    *)
(* whether the request names its target, then answer and append to the     *)
(* audit log.  The evaluation is ContextEvaluator, step by step; the       *)
(* worktree may change, and another commit be checked out, at any time.    *)
(***************************************************************************)
EXTENDS ContextEvaluator

CONSTANTS Requests,    \* the references a model may ask the tool about
          Commits,     \* the commits of the repository
          TreeOf,      \* [Commits -> the tree of files of each]
          CiRuns,      \* the CI environments: [active, commit]
          MaxMoves     \* how often HEAD moves during a call

ASSUME TreeOfAssumption == TreeOf \in [Commits -> [Files -> Entries]]
ASSUME MaxMovesAssumption == MaxMoves \in Nat

Freshnesses == {"current", "dirty", "stale", "unknown"}
ASSUME NoFreshnessAssumption == None \notin Freshnesses

VARIABLES
  head,       \* the commit HEAD names
  request,    \* the reference the tool was asked about
  ci,         \* the environment of GitHub Actions, constant during a call
  stage,      \* "commit", "status", "evaluate" or "answered"
  commit,     \* the commit observed, None if git failed
  worktree,   \* "clean", "dirty" or "unknown", None before
  payload,    \* what the tool returned, None before
  audit,      \* the tool calls logged
  moves       \* history: how often HEAD moved

callerVars == <<request, ci, stage, commit, worktree, payload, audit>>
toolVars == <<vars, head, callerVars, moves>>

ToolInit ==
  /\ Init
  /\ head \in Commits
  /\ request \in Requests /\ ci \in CiRuns
  /\ stage = "commit" /\ commit = None /\ worktree = None
  /\ payload = None /\ audit = <<>> /\ moves = 0

-----------------------------------------------------------------------------
(* The execution context: git commands that read the worktree in turn, any *)
(* of which may fail or time out.                                          *)

ObserveCommit ==
  /\ stage = "commit"
  /\ commit' \in {head, None}
  /\ stage' = "status"
  /\ UNCHANGED <<vars, head, request, ci, worktree, payload, audit, moves>>

ObserveStatus_Hopeful ==   \* variant: a status that failed counts as clean
  /\ stage = "status"
  /\ worktree' \in {IF disk = TreeOf[head] THEN "clean" ELSE "dirty", "clean"}
  /\ stage' = "evaluate"
  /\ UNCHANGED <<vars, head, request, ci, commit, payload, audit, moves>>

ObserveStatus ==
  /\ stage = "status"
  /\ worktree' \in {IF disk = TreeOf[head] THEN "clean" ELSE "dirty", "unknown"}
  /\ stage' = "evaluate"
  /\ UNCHANGED <<vars, head, request, ci, commit, payload, audit, moves>>

(* A CI commit that is not the local one outweighs a dirty worktree.       *)
Behind == commit # None /\ ci.commit # None /\ commit # ci.commit

Freshness ==
  CASE Behind -> "stale"
    [] ~ Behind /\ worktree = "dirty" -> "dirty"
    [] /\ ~ Behind /\ commit # None /\ worktree = "clean"
       /\ ~ ci.active \/ ci.commit = commit -> "current"
    [] OTHER -> "unknown"

EvaluateContext ==
  /\ stage = "evaluate" /\ Evaluate
  /\ UNCHANGED <<head, callerVars, moves>>

-----------------------------------------------------------------------------
(* The answer.                                                             *)

TargetReported == IF rootBytes = None THEN <<"<untrusted>">> ELSE Root.target

(* evidence_by_id keeps the last record of each evidence identifier.       *)
EvidenceOf(i) ==
  evidence[CHOOSE j \in DOMAIN evidence :
             /\ evidence[j].id = evidence[i].id
             /\ \A k \in DOMAIN evidence :
                  evidence[k].id = evidence[i].id => k <= j]

Rows ==
  [i \in DOMAIN evidence |->
     [requirement |-> evidence[i].requirement, state |-> evidence[i].state,
      paths |-> EvidenceOf(i).sources, digests |-> EvidenceOf(i).digests]]

Unsupported ==
  [status |-> "unsupported", target |-> TargetReported, decision |-> None,
   trust |-> None, freshness |-> None, rows |-> <<>>]

Answered ==
  [status |-> "answered", target |-> TargetReported, decision |-> decision,
   trust |-> trust, freshness |-> Freshness, rows |-> Rows]

Logged(answer) ==
  [status |-> answer.status, decision |-> answer.decision,
   trust |-> answer.trust,
   paths |-> UNION {answer.rows[i].paths : i \in DOMAIN answer.rows},
   digests |-> UNION {answer.rows[i].digests : i \in DOMAIN answer.rows}]

Foreign(asked) ==
  Loadable(disk[TrustRoot]) /\ ~ Refers(asked, ParseRoot[disk[TrustRoot]])

Answer_Strict ==   \* variant: a trust root that cannot be read refuses
  /\ stage = "evaluate" /\ pc = "reported"
  /\ payload' = IF Foreign(request) \/ ~ Loadable(disk[TrustRoot])
                THEN Unsupported ELSE Answered
  /\ audit' = Append(audit, Logged(payload'))
  /\ stage' = "answered"
  /\ UNCHANGED <<vars, head, request, ci, commit, worktree, moves>>

Answer_AnyRelease ==   \* variant: the request is not compared with the root
  /\ stage = "evaluate" /\ pc = "reported"
  /\ payload' = Answered
  /\ audit' = Append(audit, Logged(payload'))
  /\ stage' = "answered"
  /\ UNCHANGED <<vars, head, request, ci, commit, worktree, moves>>

Answer_Promoted ==   \* variant: an open requirement is not held against it
  /\ stage = "evaluate" /\ pc = "reported"
  /\ payload' = IF Foreign(request) THEN Unsupported
                ELSE [Answered EXCEPT !.decision =
                        IF trust = "verified" /\ decision = "INDETERMINATE"
                        THEN "READY" ELSE decision]
  /\ audit' = Append(audit, Logged(payload'))
  /\ stage' = "answered"
  /\ UNCHANGED <<vars, head, request, ci, commit, worktree, moves>>

Answer ==
  /\ stage = "evaluate" /\ pc = "reported"
  /\ payload' = IF Foreign(request) THEN Unsupported ELSE Answered
  /\ audit' = Append(audit, Logged(payload'))
  /\ stage' = "answered"
  /\ UNCHANGED <<vars, head, request, ci, commit, worktree, moves>>

-----------------------------------------------------------------------------

(* Something else changes a file.                                          *)
ChangeFile(file, content) ==
  Change(file, content) /\ UNCHANGED <<head, callerVars, moves>>

(* A checkout or a commit ends by moving HEAD; it has written the files    *)
(* one by one before.                                                      *)
MoveHead(c) ==
  /\ moves < MaxMoves /\ c # head
  /\ head' = c /\ moves' = moves + 1
  /\ UNCHANGED <<vars, callerVars>>

(* The tool has returned, or its exception went to the agent.              *)
ToolEnded == stage = "answered" \/ pc = "raised"

ToolStep == ObserveCommit \/ ObserveStatus \/ EvaluateContext \/ Answer

ToolNext ==
  \/ ToolStep
  \/ \E file \in Files : \E content \in Contents[file] : ChangeFile(file, content)
  \/ \E c \in Commits : MoveHead(c)
  \/ ToolEnded /\ UNCHANGED toolVars

ToolSpec == ToolInit /\ [][ToolNext]_toolVars

-----------------------------------------------------------------------------
(* Properties.                                                             *)

(* A READY that reaches the model was earned: its rows are one satisfied   *)
(* record for each requirement of the verified policy, and the log has the *)
(* same decision.  Nothing between evaluation and answer promotes it.      *)
PayloadIsEarned ==
  payload # None /\ payload.decision = "READY" =>
    /\ trust = "verified" /\ payload.trust = "verified"
    /\ payload.target = Root.target
    /\ DOMAIN payload.rows = DOMAIN Rules /\ Rules # <<>>
    /\ \A i \in DOMAIN payload.rows :
         /\ payload.rows[i].state = "satisfied"
         /\ payload.rows[i].requirement = Rules[i].id
    /\ Len(audit) = 1 /\ audit[1].decision = "READY"

(* READY is answered only to a request that named the target of a trust    *)
(* root the contract directory held during the call -- unless the root was *)
(* gone or unreadable at some moment, when any request is answered.        *)
ReadyAnswersTheTarget ==
  payload # None /\ payload.decision = "READY" =>
    \E entry \in seen[TrustRoot] :
      ~ Loadable(entry) \/ Refers(request, ParseRoot[entry])

(* "current" says that the worktree was the reported commit: while HEAD    *)
(* stays, each file had the committed content at some time of the call.    *)
CurrentMeansCommitted ==
  payload # None /\ payload.freshness = "current" /\ moves = 0 =>
    \A f \in Files : TreeOf[commit][f] \in seen[f]

(* On a worktree that holds still the answer is exact: refused if and only *)
(* if a readable trust root does not name the request; otherwise with the  *)
(* verdict on the files, which is the verdict on the commit if "current".  *)
UndisturbedAnswerIsExact ==
  payload # None /\ writes = 0 /\ moves = 0 =>
    IF Loadable(disk[TrustRoot]) /\ ~ Refers(request, ParseRoot[disk[TrustRoot]])
    THEN payload.status = "unsupported"
    ELSE /\ payload.status = "answered"
         /\ payload.trust = TrustOn(disk) /\ payload.decision = DecisionOn(disk)
         /\ payload.freshness = "current" =>
              payload.decision = DecisionOn(TreeOf[commit])

-----------------------------------------------------------------------------
(* "The typed tool payload carries each requirement's governed evidence    *)
(* paths and source digests" (README.md): the row of a requirement shows   *)
(* the evidence its state was computed from.                               *)
PayloadCarriesOwnEvidence ==
  payload # None =>
    \A i \in DOMAIN payload.rows :
      /\ payload.rows[i].paths = evidence[i].sources
      /\ payload.rows[i].digests = evidence[i].digests
============================================================================
