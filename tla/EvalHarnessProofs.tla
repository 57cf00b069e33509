-------------------------- MODULE EvalHarnessProofs --------------------------
(***************************************************************************)
(* What a grade and the score of a run are worth, for every schedule of    *)
(* cases, every demo repository and every model: whatever it asks the tool *)
(* and answers.                                                            *)
(***************************************************************************)
EXTENDS EvalHarness, SequenceTheorems, TLAPS

(* One record for each case graded so far, in the order of the schedule.   *)
GradedInOrder ==
  /\ cases \in Schedules /\ observations \in Seq(Graded)
  /\ stage # "scored" => Len(observations) < Len(cases)
  /\ stage = "scored" => Len(observations) = Len(cases)
  /\ \A i \in DOMAIN observations : observations[i].case = cases[i]

(* The model answers only where the oracle agrees with the manifest, and   *)
(* what passed has the decision of the oracle.                             *)
Governed(o) == o.pass => o.calls = 1 /\ o.decision = o.case.decision

HarnessInv ==
  /\ GradedInOrder
  /\ stage = "model" => oracle = [decision |-> Case.decision, trust |-> Case.trust]
  /\ \A i \in DOMAIN observations : Governed(observations[i])

-----------------------------------------------------------------------------

(* A sequence keeps its elements when one is appended.                     *)
LEMMA Appended ==
  ASSUME NEW s, NEW e, s \in Seq({s[i] : i \in DOMAIN s})
  PROVE  LET t == Append(s, e)
         IN  /\ t \in Seq({t[i] : i \in DOMAIN t})
             /\ Len(t) = Len(s) + 1 /\ Len(s) \in Nat
             /\ DOMAIN t = (DOMAIN s) \cup {Len(t)} /\ DOMAIN s = 1 .. Len(s)
             /\ t[Len(t)] = e /\ \A i \in DOMAIN s : t[i] = s[i]
<1> DEFINE S == {s[i] : i \in DOMAIN s}
           t == Append(s, e)
           T == {t[i] : i \in DOMAIN t}
<1>1. s \in Seq(S \cup {e}) /\ Len(s) \in Nat /\ DOMAIN s = 1 .. Len(s)
  <2>1. Len(s) \in Nat /\ DOMAIN s = 1 .. Len(s)
    OBVIOUS
  <2>2. \A i \in 1 .. Len(s) : s[i] \in S \cup {e}
    BY <2>1
  <2>3. s = [i \in 1 .. Len(s) |-> s[i]]
    OBVIOUS
  <2> QED
    BY <2>1, <2>2, <2>3
<1>2. /\ t \in Seq(S \cup {e}) /\ Len(t) = Len(s) + 1
      /\ t[Len(s) + 1] = e /\ \A i \in 1 .. Len(s) : t[i] = s[i]
  BY <1>1, AppendProperties
<1>3. DOMAIN t = 1 .. Len(t)
  BY <1>2
<1>4. t \in Seq(T)
  <2>1. \A i \in 1 .. Len(t) : t[i] \in T
    BY <1>3
  <2> HIDE DEF t, T
  <2>2. t = [i \in 1 .. Len(t) |-> t[i]] /\ Len(t) \in Nat
    BY <1>2
  <2> QED
    BY <2>1, <2>2
<1>5. 1 .. Len(t) = 1 .. Len(s) \cup {Len(t)}
  BY <1>1, <1>2
<1> QED
  BY <1>1, <1>2, <1>3, <1>4, <1>5

(* A grade is of the case at hand, and the last one ends the run.          *)
LEMMA GradeInv ==
  ASSUME HarnessInv, AnswerAndGrade PROVE HarnessInv'
<1>1. PICK answer \in Answers :
        observations' = Append(observations,
          [case |-> Case, oracle |-> oracle, decision |-> answer.decision,
           calls |-> Len(log), pass |-> MatchesOracle(answer)])
  BY DEF AnswerAndGrade
<1> DEFINE grade == [case |-> Case, oracle |-> oracle, decision |-> answer.decision,
                     calls |-> Len(log), pass |-> MatchesOracle(answer)]
<1>2. /\ observations' \in Seq(Graded') /\ Len(observations) \in Nat
      /\ Len(observations') = Len(observations) + 1
      /\ DOMAIN observations' = (DOMAIN observations) \cup {Len(observations')}
      /\ DOMAIN observations = 1 .. Len(observations)
      /\ observations'[Len(observations')] = grade
      /\ \A i \in DOMAIN observations : observations'[i] = observations[i]
  <2> HIDE DEF grade
  <2>1. observations' = Append(observations, grade)
    BY <1>1 DEF grade
  <2> QED
    BY <2>1, Appended DEF HarnessInv, GradedInOrder, Graded
<1>3. /\ stage = "model" /\ cases' = cases
      /\ stage' = IF Len(observations') = Len(cases) THEN "scored" ELSE "damage"
  BY DEF AnswerAndGrade
<1>4. cases \in Seq(CaseRecords) /\ Len(cases) \in Nat
  BY SchedulesAssumption DEF HarnessInv, GradedInOrder
<1>5. Governed(grade)
  <2>1. MatchesOracle(answer) => Len(log) = 1 /\ answer.decision = oracle.decision
    BY DEF MatchesOracle
  <2>2. oracle.decision = Case.decision
    BY <1>3 DEF HarnessInv
  <2> QED
    BY <2>1, <2>2 DEF Governed
<1>6. grade.case = cases[Len(observations')]
  BY <1>2 DEF Case
<1> HIDE DEF grade
<1>7. GradedInOrder'
  BY <1>2, <1>3, <1>4, <1>6 DEF HarnessInv, GradedInOrder
<1>8. (\A i \in DOMAIN observations : Governed(observations[i]))'
  BY <1>2, <1>5 DEF HarnessInv, Governed
<1> QED
  BY <1>3, <1>7, <1>8 DEF HarnessInv

LEMMA HarnessInvInit == HarnessInit => HarnessInv
<1> SUFFICES ASSUME HarnessInit PROVE HarnessInv
  OBVIOUS
<1> USE DEF HarnessInit
<1>1. observations \in Seq(Graded) /\ Len(observations) = 0 /\ DOMAIN observations = {}
  OBVIOUS
<1>2. cases \in Seq(CaseRecords) /\ cases # <<>>
  BY SchedulesAssumption
<1>3. Len(cases) \in Nat /\ Len(cases) # 0
  BY <1>2
<1> QED
  BY <1>1, <1>3 DEF HarnessInv, GradedInOrder

LEMMA HarnessInvNext == HarnessInv /\ [HarnessNext]_harnessVars => HarnessInv'
<1> SUFFICES ASSUME HarnessInv, [HarnessNext]_harnessVars PROVE HarnessInv'
  OBVIOUS
<1>1. ASSUME UNCHANGED <<cases, observations>>, stage # "scored", stage' # "scored",
             stage' = "model" =>
               oracle' = [decision |-> Case.decision, trust |-> Case.trust]
      PROVE  HarnessInv'
  BY <1>1 DEF HarnessInv, GradedInOrder, Graded, Case, Governed
<1>2. CASE Damage
  BY <1>1, <1>2 DEF Damage
<1>3. CASE Reissue
  BY <1>1, <1>3 DEF Reissue
<1>4. CASE AskOracle
  BY <1>1, <1>4 DEF AskOracle
<1>5. CASE CallTool
  BY <1>1, <1>5 DEF CallTool, HarnessInv
<1>6. CASE AnswerAndGrade
  BY <1>6, GradeInv
<1>7. CASE GiveUp
  BY <1>1, <1>7 DEF GiveUp
<1>8. CASE UNCHANGED harnessVars
  BY <1>8 DEF harnessVars, HarnessInv, GradedInOrder, Graded, Case, Governed
<1> QED
  BY <1>2, <1>3, <1>4, <1>5, <1>6, <1>7, <1>8 DEF HarnessNext

LEMMA HarnessInvariant == HarnessSpec => []HarnessInv
BY HarnessInvInit, HarnessInvNext, PTL DEF HarnessSpec

-----------------------------------------------------------------------------

(* An answer passes only if the model called the tool exactly once and     *)
(* reports the decision its case expects, whatever else it asked and       *)
(* answered (governed_result_matches_oracle).                              *)
THEOREM PassNeedsTheTool == HarnessSpec => []PassIsGoverned
<1>1. HarnessInv => PassIsGoverned
  BY DEF HarnessInv, PassIsGoverned, Governed, Graded
<1> QED
  BY HarnessInvariant, <1>1, PTL

(* proof_pass is true only of a run that answered every case of its        *)
(* schedule, in order, with the expected decision through one tool call.   *)
THEOREM ScoreIsComplete == HarnessSpec => []ProofPassIsComplete
<1>1. HarnessInv => ProofPassIsComplete
  <2> SUFFICES ASSUME HarnessInv, stage = "scored", ProofPass PROVE ProofPassIsComplete
    BY DEF ProofPassIsComplete
  <2>1. DOMAIN observations = DOMAIN cases /\ Len(observations) = Len(cases)
    BY SchedulesAssumption DEF HarnessInv, GradedInOrder
  <2>2. ASSUME NEW i \in DOMAIN observations PROVE observations[i].pass
    BY DEF ProofPass, Graded
  <2> QED
    BY <2>1, <2>2 DEF ProofPassIsComplete, HarnessInv, GradedInOrder, Governed
<1> QED
  BY HarnessInvariant, <1>1, PTL
=============================================================================
