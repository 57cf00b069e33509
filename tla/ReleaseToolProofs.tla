------------------------- MODULE ReleaseToolProofs -------------------------
(***************************************************************************)
(* Proofs about ReleaseTool, for every repository, worktree, request and   *)
(* number of changes to files and of moves of HEAD during the call.        *)
(***************************************************************************)
EXTENDS ReleaseTool, EvidenceProofs

(* A step of the tool is a step of the evaluation or leaves it alone.      *)
LEMMA ToolStepEvaluates == [ToolNext]_toolVars => [Next]_vars
<1> SUFFICES ASSUME [ToolNext]_toolVars PROVE [Next]_vars
  OBVIOUS
<1>1. CASE ToolStep
  BY <1>1 DEF ToolStep, ObserveCommit, ObserveStatus, EvaluateContext, Answer, Next
<1>2. CASE \E file \in Files : \E content \in Contents[file] : ChangeFile(file, content)
  BY <1>2 DEF ChangeFile, Next
<1>3. CASE \E c \in Commits : MoveHead(c)
  BY <1>3 DEF MoveHead
<1>4. CASE UNCHANGED toolVars
  BY <1>4 DEF toolVars
<1> QED BY <1>1, <1>2, <1>3, <1>4 DEF ToolNext

(* The tool runs the evaluation and nothing but it: whatever is proved of  *)
(* evaluate_context holds of the evaluation inside the tool.               *)
THEOREM ToolEvaluates == ToolSpec => Spec
<1>1. ToolInit => Init
  BY DEF ToolInit
<1> QED BY <1>1, ToolStepEvaluates, PTL DEF ToolSpec, Spec

(* Seen through the tool, too, an evaluation keeps what GovernedDecision   *)
(* promises, and each of its steps leaves less to do: git commands, the    *)
(* second read of the root and moves of HEAD repeat none of them.          *)
COROLLARY ToolKeepsThePromise == ToolSpec => ImplementsPromise /\ CallAdvances
BY ToolEvaluates, PromiseKept, CallProgresses, PTL

LEMMA ToolInductive == ToolSpec => [](Inv /\ Safe)
BY ToolEvaluates, Inductive, PTL

-----------------------------------------------------------------------------
(* What the call observed of the worktree, while HEAD stays.               *)
HeadObserved ==
  /\ moves \in Nat
  /\ moves = 0 /\ commit # None => commit = head
  /\ stage \in {"evaluate", "answered"} /\ moves = 0 /\ worktree = "clean" =>
       \A f \in Files : TreeOf[head][f] \in seen[f]

(* What was answered, and on which evaluation.                             *)
AnsweredOnce ==
  /\ stage # "answered" => payload = None /\ audit = <<>>
  /\ stage = "answered" => pc = "reported"
  /\ payload # None /\ payload.freshness = "current" =>
       stage = "answered" /\ commit # None /\ worktree = "clean"
  /\ PayloadIsEarned /\ ReadyAnswersTheTarget

ToolInv == HeadObserved /\ AnsweredOnce

(* The rows of a READY evaluation are its records, one for each rule.      *)
LEMMA ReadyRows ==
  ASSUME Inv, decision = "READY"
  PROVE  /\ DOMAIN Rows = DOMAIN Rules
         /\ \A i \in DOMAIN Rows : /\ Rows[i].state = "satisfied"
                                   /\ Rows[i].requirement = Rules[i].id
<1>1. ReadyIsEarned
  BY InvReady
<1>2. trust = "verified"
  BY <1>1 DEF ReadyIsEarned
<1>3. Loaded("policy.json")
      /\ Sound(Root, Document("identity.json"), Document("policy.json"))
  BY <1>2 DEF Inv, TrustEarned, Contracts
<1>4. DOMAIN Rules = 1 .. Len(Rules)
  BY <1>3, RulesType
<1>5. DOMAIN evidence = 1 .. Len(evidence)
  BY DEF Inv, TypeOK
<1>6. DOMAIN evidence = DOMAIN Rules
  BY <1>1, <1>4, <1>5 DEF ReadyIsEarned
<1>7. \A i \in DOMAIN Rows : /\ Rows[i].state = evidence[i].state
                             /\ Rows[i].requirement = evidence[i].requirement
  BY DEF Rows
<1>8. DOMAIN Rows = DOMAIN evidence
  BY DEF Rows
<1> QED BY <1>1, <1>6, <1>7, <1>8 DEF ReadyIsEarned

(* An answer that is READY repeats a READY evaluation.                     *)
LEMMA AnswerInv ==
  ASSUME Inv, ToolInv, Answer
  PROVE  AnsweredOnce'
<1>1. /\ stage' = "answered" /\ pc' = "reported" /\ audit = <<>>
      /\ UNCHANGED <<vars, head, request, ci, commit, worktree, moves>>
      /\ stage # "answered" /\ audit' = Append(audit, Logged(payload'))
  BY DEF Answer, ToolInv, AnsweredOnce, vars, callVars
<1>2. CASE Foreign(request)
  <2>1. payload' = Unsupported
    BY <1>2 DEF Answer
  <2>2. payload'.decision # "READY" /\ payload'.freshness # "current"
    BY <2>1, NoneAssumption, NoFreshnessAssumption
    DEF Unsupported, Decisions, Freshnesses
  <2> QED BY <1>1, <2>2 DEF AnsweredOnce, PayloadIsEarned, ReadyAnswersTheTarget
<1>3. CASE ~ Foreign(request)
  <2>1. payload' = Answered
    BY <1>3 DEF Answer
  <2>2. /\ payload'.decision = decision /\ payload'.trust = trust
        /\ payload'.target = TargetReported /\ payload'.freshness = Freshness
        /\ payload'.rows = Rows
    BY <2>1 DEF Answered
  <2>3. payload'.freshness = "current" => commit # None /\ worktree = "clean"
    BY <2>2 DEF Freshness
  <2>4. /\ Len(audit') = 1 /\ audit'[1].decision = decision
    <3>1. audit' = <<Logged(payload')>>
      BY <1>1
    <3>2. Logged(payload').decision = decision
      BY <2>2 DEF Logged
    <3> QED BY <3>1, <3>2
  <2>5. PayloadIsEarned'
    <3> SUFFICES ASSUME decision = "READY" PROVE PayloadIsEarned'
      BY <2>2 DEF PayloadIsEarned
    <3>1. /\ trust = "verified" /\ rootBytes \in Bytes /\ Rules # <<>>
      BY InvReady DEF ReadyIsEarned, Inv, TrustEarned
    <3>2. TargetReported = Root.target
      BY <3>1, NotAFileAssumption DEF TargetReported
    <3>3. /\ trust' = trust /\ Root' = Root /\ Rules' = Rules
      BY <1>1 DEF vars, callVars, Root, Rules, Document
    <3> QED BY <2>2, <2>4, <3>1, <3>2, <3>3, ReadyRows DEF PayloadIsEarned
  <2>6. ReadyAnswersTheTarget'
    <3>1. disk[TrustRoot] \in seen[TrustRoot]
      BY DEF Inv, Contained, Files
    <3>2. ~ Loadable(disk[TrustRoot]) \/ Refers(request, ParseRoot[disk[TrustRoot]])
      BY <1>3 DEF Foreign
    <3>3. seen' = seen /\ request' = request
      BY <1>1 DEF vars
    <3> QED BY <3>1, <3>2, <3>3 DEF ReadyAnswersTheTarget
  <2> QED BY <1>1, <2>2, <2>3, <2>5, <2>6 DEF AnsweredOnce
<1> QED BY <1>2, <1>3

(* Nothing that happens afterwards takes an answer back.                   *)
LEMMA AnswerStands ==
  ASSUME ToolInv, UNCHANGED <<callVars, callerVars>>,
         \A f \in Files : seen[f] \subseteq seen'[f]
  PROVE  AnsweredOnce'
<1>1. UNCHANGED <<pc, trust, rootBytes, documents, evidence, request, stage,
                  commit, worktree, payload, audit>>
  BY DEF callVars, callerVars
<1>2. Root' = Root /\ Rules' = Rules
  BY <1>1 DEF Root, Rules, Document
<1>3. PayloadIsEarned'
  BY <1>1, <1>2 DEF ToolInv, AnsweredOnce, PayloadIsEarned
<1>4. ReadyAnswersTheTarget'
  <2>1. seen[TrustRoot] \subseteq seen'[TrustRoot]
    BY DEF Files
  <2> QED BY <1>1, <2>1 DEF ToolInv, AnsweredOnce, ReadyAnswersTheTarget
<1> QED BY <1>1, <1>3, <1>4 DEF ToolInv, AnsweredOnce

LEMMA ToolInvStep == Inv /\ ToolInv /\ [ToolNext]_toolVars => ToolInv'
<1> SUFFICES ASSUME Inv, ToolInv, [ToolNext]_toolVars PROVE ToolInv'
  OBVIOUS
<1>1. CASE ObserveCommit
  <2>1. AnsweredOnce'
    BY <1>1 DEF ObserveCommit, ToolInv, AnsweredOnce, PayloadIsEarned,
                ReadyAnswersTheTarget
  <2>2. HeadObserved'
    BY <1>1 DEF ObserveCommit, ToolInv, HeadObserved
  <2> QED BY <2>1, <2>2 DEF ToolInv
<1>2. CASE ObserveStatus
  <2>1. AnsweredOnce'
    BY <1>2 DEF ObserveStatus, ToolInv, AnsweredOnce, PayloadIsEarned,
                ReadyAnswersTheTarget
  <2>2. \A f \in Files : disk[f] \in seen[f]
    BY DEF Inv, Contained
  <2>3. worktree' = "clean" => disk = TreeOf[head]
    BY <1>2 DEF ObserveStatus
  <2>4. HeadObserved'
    BY <1>2, <2>2, <2>3 DEF ObserveStatus, ToolInv, HeadObserved, vars
  <2> QED BY <2>1, <2>4 DEF ToolInv
<1>3. CASE EvaluateContext
  <2>1. AnsweredOnce'
    BY <1>3 DEF EvaluateContext, callerVars, ToolInv, AnsweredOnce,
                PayloadIsEarned, ReadyAnswersTheTarget
  <2>2. HeadObserved'
    BY <1>3 DEF EvaluateContext, callerVars, Evaluate, ToolInv, HeadObserved
  <2> QED BY <2>1, <2>2 DEF ToolInv
<1>4. CASE Answer
  <2>1. HeadObserved'
    BY <1>4 DEF Answer, ToolInv, HeadObserved, vars
  <2> QED BY <1>4, <2>1, AnswerInv DEF ToolInv
<1>5. CASE \E file \in Files : \E content \in Contents[file] : ChangeFile(file, content)
  <2> PICK file \in Files : \E content \in Contents[file] : ChangeFile(file, content)
    BY <1>5
  <2> PICK content \in Contents[file] : ChangeFile(file, content)
    OBVIOUS
  <2>1. /\ UNCHANGED <<callVars, head, callerVars, moves>>
        /\ \A f \in Files : seen[f] \subseteq seen'[f]
    BY DEF ChangeFile, Change, Inv, TypeOK
  <2>2. AnsweredOnce'
    BY <2>1, AnswerStands
  <2>3. HeadObserved'
    BY <2>1 DEF callerVars, ToolInv, HeadObserved
  <2> QED BY <2>2, <2>3 DEF ToolInv
<1>6. CASE \E c \in Commits : MoveHead(c)
  <2>1. AnsweredOnce'
    BY <1>6, AnswerStands DEF MoveHead, vars
  <2>2. HeadObserved'
    BY <1>6 DEF MoveHead, ToolInv, HeadObserved
  <2> QED BY <2>1, <2>2 DEF ToolInv
<1>7. CASE UNCHANGED toolVars
  <2>1. AnsweredOnce'
    BY <1>7, AnswerStands DEF toolVars, vars
  <2>2. HeadObserved'
    BY <1>7 DEF toolVars, vars, callerVars, ToolInv, HeadObserved
  <2> QED BY <2>1, <2>2 DEF ToolInv
<1> QED BY <1>1, <1>2, <1>3, <1>4, <1>5, <1>6, <1>7 DEF ToolNext, ToolStep

THEOREM ToolInvariant == ToolSpec => []ToolInv
<1>1. ToolInit => ToolInv
  BY DEF ToolInit, ToolInv, HeadObserved, AnsweredOnce, PayloadIsEarned,
         ReadyAnswersTheTarget
<1>2. (Inv /\ Safe) /\ ToolInv /\ [ToolNext]_toolVars => ToolInv'
  BY ToolInvStep
<1> QED BY <1>1, <1>2, ToolInductive, PTL DEF ToolSpec

(* Nothing between the evaluation and the tool's answer promotes a         *)
(* decision: a READY payload and its log entry repeat an earned READY,     *)
(* with one satisfied row for each requirement of the verified policy.     *)
THEOREM ToolPromotesNothing == ToolSpec => []PayloadIsEarned
<1>1. ToolInv => PayloadIsEarned
  BY DEF ToolInv, AnsweredOnce
<1> QED BY <1>1, ToolInvariant, PTL

(* READY is answered only to a request that named the target of a trust    *)
(* root seen during the call, or while none could be read.                 *)
THEOREM ToolAnswersTheTarget == ToolSpec => []ReadyAnswersTheTarget
<1>1. ToolInv => ReadyAnswersTheTarget
  BY DEF ToolInv, AnsweredOnce
<1> QED BY <1>1, ToolInvariant, PTL

(* While HEAD stays, "current" means that every file had the committed     *)
(* content at some time of the call.                                       *)
THEOREM CurrentIsCommitted == ToolSpec => []CurrentMeansCommitted
<1>1. ToolInv => CurrentMeansCommitted
  BY DEF ToolInv, AnsweredOnce, HeadObserved, CurrentMeansCommitted
<1> QED BY <1>1, ToolInvariant, PTL

-----------------------------------------------------------------------------
(* On a worktree that holds still.  A clean status was of the files as     *)
(* they are, and of the commit observed.                                   *)
CleanIsCommitted ==
  stage \in {"evaluate", "answered"} /\ writes = 0 /\ moves = 0
      /\ worktree = "clean" =>
    disk = TreeOf[head]

LEMMA AnswerExact ==
  ASSUME ToolInv, Exact, CleanIsCommitted, Answer, writes = 0, moves = 0
  PROVE  UndisturbedAnswerIsExact'
<1>1. /\ UNCHANGED <<disk, writes, moves, commit, request>>
      /\ pc = "reported" /\ stage = "evaluate"
  BY DEF Answer, vars
<1>2. trust = TrustOn(disk) /\ decision = DecisionOn(disk)
  BY <1>1 DEF Exact, TrustExact, JudgementExact
<1>3. CASE Foreign(request)
  <2>1. payload'.status = "unsupported"
    BY <1>3 DEF Answer, Unsupported
  <2> QED BY <1>1, <1>3, <2>1 DEF Foreign, UndisturbedAnswerIsExact
<1>4. CASE ~ Foreign(request)
  <2>1. /\ payload'.status = "answered" /\ payload'.trust = trust
        /\ payload'.decision = decision /\ payload'.freshness = Freshness
    BY <1>4 DEF Answer, Answered
  <2>2. Freshness = "current" => commit # None /\ worktree = "clean"
    BY DEF Freshness
  <2>3. Freshness = "current" => disk = TreeOf[commit]
    BY <1>1, <2>2 DEF CleanIsCommitted, ToolInv, HeadObserved
  <2> QED
    BY <1>1, <1>2, <1>4, <2>1, <2>3 DEF Foreign, UndisturbedAnswerIsExact
<1> QED BY <1>3, <1>4

LEMMA UndisturbedAnswerStep ==
  ASSUME Inv, ToolInv, writes = 0 => Exact, CleanIsCommitted,
         UndisturbedAnswerIsExact, [ToolNext]_toolVars
  PROVE  CleanIsCommitted' /\ UndisturbedAnswerIsExact'
<1> USE DEF CleanIsCommitted, UndisturbedAnswerIsExact
<1>1. writes \in Nat /\ moves \in Nat
  BY MaxWritesAssumption DEF Inv, TypeOK, ToolInv, HeadObserved
<1>2. stage # "answered" => payload = None
  BY DEF ToolInv, AnsweredOnce
<1>3. CASE ObserveCommit
  BY <1>2, <1>3 DEF ObserveCommit
<1>4. CASE ObserveStatus
  BY <1>2, <1>4 DEF ObserveStatus, vars
<1>5. CASE EvaluateContext
  <2>1. /\ stage = "evaluate"
        /\ UNCHANGED <<disk, writes, head, stage, worktree, moves, payload>>
    BY <1>5 DEF EvaluateContext, Evaluate, callerVars
  <2> QED BY <1>2, <2>1
<1>6. CASE Answer
  <2>1. /\ UNCHANGED <<disk, writes, moves, head, worktree>>
        /\ stage = "evaluate"
    BY <1>6 DEF Answer, vars
  <2>2. CleanIsCommitted'
    BY <2>1
  <2>3. CASE writes = 0 /\ moves = 0
    BY <1>6, <2>2, <2>3, AnswerExact
  <2>4. CASE ~ (writes = 0 /\ moves = 0)
    BY <2>1, <2>2, <2>4
  <2> QED BY <2>3, <2>4
<1>7. CASE \E file \in Files : \E content \in Contents[file] : ChangeFile(file, content)
  <2>1. writes' = writes + 1
    BY <1>7 DEF ChangeFile, Change
  <2> QED BY <1>1, <2>1
<1>8. CASE \E c \in Commits : MoveHead(c)
  <2>1. moves' = moves + 1
    BY <1>8 DEF MoveHead
  <2> QED BY <1>1, <2>1
<1>9. CASE UNCHANGED toolVars
  BY <1>9 DEF toolVars, vars, callerVars
<1> QED BY <1>3, <1>4, <1>5, <1>6, <1>7, <1>8, <1>9 DEF ToolNext, ToolStep

(* If neither a file nor HEAD moves during the call, the tool refuses      *)
(* exactly the requests that a readable trust root does not name, answers  *)
(* the others with the verdict on the files, and "current" makes that the  *)
(* verdict on the commit it reports.                                       *)
THEOREM UndisturbedAnswer == ToolSpec => []UndisturbedAnswerIsExact
<1>1. ToolInit => CleanIsCommitted /\ UndisturbedAnswerIsExact
  BY DEF ToolInit, CleanIsCommitted, UndisturbedAnswerIsExact
<1>2. (Inv /\ Safe) /\ ToolInv /\ (writes = 0 => Exact)
        /\ (CleanIsCommitted /\ UndisturbedAnswerIsExact) /\ [ToolNext]_toolVars
          => (CleanIsCommitted /\ UndisturbedAnswerIsExact)'
  BY UndisturbedAnswerStep
<1> QED BY <1>1, <1>2, ToolEvaluates, ToolInductive, StillFilesExact,
           ToolInvariant, PTL DEF ToolSpec
============================================================================
