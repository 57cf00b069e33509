------------------------ MODULE AuthorityProvenance ------------------------
(***************************************************************************)
(* _validate_case_provenance: what an oracle, an annotator or an evaluated *)
(* path reports of one case is checked: its output contract, and then,     *)
(* against the case's bundle, classifications, claim chains one by one,    *)
(* dependencies one by one (each by a search for its authorization path),  *)
(* and that the dependencies are exactly the decisive ones.                *)
(*                                                                         *)
(* The bundle has the evaluation records of the report on it (decisive and *)
(* classification).  An identity is a record with issuer, lineage, epoch   *)
(* and key.  The digest of a record stands or falls with its identifier;   *)
(* contract and evidence files are left out.                               *)
(***************************************************************************)
EXTENDS AuthorizationPath, OutputContract

CONSTANT Reports   \* [Bundles -> the reports to validate]

DependencyTypes ==
  {"identity_introduction", "lineage_head", "precedence", "recovery", "revocation"}

(* What the schema makes sure of.                                          *)
ASSUME ReportsAssumption ==
  \A b \in Bundles : \A r \in Reports[b] :
    /\ r.dependencies \in Seq([type : DependencyTypes, id : Ids, path : Seq(Ids)])
    /\ r.chains \in Seq(Range(r.chains))
    /\ \A i \in DOMAIN r.chains :
         r.chains[i].records \in Seq(Ids) /\ r.chains[i].records # <<>>
    /\ \E v \in DOMAIN VRules :
         VRules[v].triplet = <<r.disposition, r.mechanism, r.authority>>

(* _introduced_identity is None of a claim, _signer_identity is not.       *)
ASSUME ClaimsAssumption ==
  \A b \in Bundles : \A id \in DOMAIN b.records :
    /\ b.records[id].kind = "claim" => b.records[id].introduces = None
    /\ b.records[id].kind \notin {"trust_anchor", "recovery_anchor"} =>
         b.records[id].signer # None

VARIABLES
  report,  \* the output, with heads and dependencies
  phase,   \* what is checked next, or "accepted" or "rejected"
  at       \* the next chain or dependency

provenanceVars == <<searchVars, report, phase, at>>

ProvenanceInit ==
  /\ bundle \in Bundles /\ report \in Reports[bundle]
  /\ phase = "output" /\ at = 1
  /\ target = None /\ goal = None /\ answer = None /\ stack = <<>>
  /\ memo = [id \in Ids |-> None]

Continue(next, place) == phase' = next /\ at' = place
Reject == Continue("rejected", at)

-----------------------------------------------------------------------------

CheckOutput ==
  /\ phase = "output"
  /\ IF OutputConforms(report) THEN Continue("classification", 1) ELSE Reject
  /\ UNCHANGED <<searchVars, report>>

DecisiveClasses == {Classification[id] : id \in Decisive}

ClassificationCoheres ==
  /\ "NONMATCHING" \notin DecisiveClasses
  /\ report.mechanism = "CONFORMANT" =>
       /\ (report.authority = "INDETERMINATE") = ("UNRESOLVED" \in DecisiveClasses)
       /\ report.authority = "INVALID" => "INVALID" \in DecisiveClasses

CheckClassification ==
  /\ phase = "classification"
  /\ IF ClassificationCoheres THEN Continue("chains", 1) ELSE Reject
  /\ UNCHANGED <<searchVars, report>>

IsKind(id, kinds) == id \in DOMAIN Records /\ Records[id].kind \in kinds

(* A recovery continues the lineage of the identity it replaces; that its  *)
(* own signer is authorized is for its dependency to show.                 *)
Continues(previous, id) ==
  LET identity == Records[previous].introduces
  IN  /\ IsKind(id, {"delegation", "rotation", "recovery"})
      /\ IF Records[id].kind = "recovery"
         THEN /\ Records[id].compromised = [issuer |-> identity.issuer,
                                            lineage |-> identity.lineage]
              /\ Records[id].introduces.epoch = identity.epoch + 1
         ELSE Records[id].signer = identity
      /\ Records[id].kind # "delegation" => Records[id].predecessor = previous

ChainHolds(chain) ==
  LET ids == chain.records
      end == Len(ids)
  IN  /\ IsInjective(ids) /\ ids[end] = chain.claim
      /\ IsKind(ids[1], {"trust_anchor"}) /\ IsKind(chain.claim, {"claim"})
      /\ \A i \in 2 .. end - 1 : Continues(ids[i - 1], ids[i])
      /\ Records[chain.claim].signer = Records[ids[end - 1]].introduces
      /\ chain.issuer = Records[chain.claim].signer.issuer
      /\ \A i \in 1 .. end : ids[i] \in Decisive /\ Classification[ids[i]] = "VALID"

CheckChain ==
  /\ phase = "chains" /\ at <= Len(report.chains)
  /\ IF ChainHolds(report.chains[at]) THEN Continue(phase, at + 1) ELSE Reject
  /\ UNCHANGED <<searchVars, report>>

ChainsHold_Early ==   \* variant: the last chain may be passed over
  /\ phase = "chains" /\ at >= Len(report.chains)
  /\ Continue("dependencies", 1)
  /\ UNCHANGED <<searchVars, report>>

ChainsHold ==
  /\ phase = "chains" /\ at > Len(report.chains)
  /\ Continue("dependencies", 1)
  /\ UNCHANGED <<searchVars, report>>

-----------------------------------------------------------------------------

Introductions ==
  {"trust_anchor", "recovery_anchor", "delegation", "rotation", "recovery"}
SideDependencies == {"precedence", "recovery", "revocation"}

(* The dependencies a report must have, no more and no fewer.              *)
Required ==
  {<<"identity_introduction", id>> :
     id \in {x \in Decisive : Records[x].kind \in Introductions}}
  \cup {<<Records[id].kind, id>> :
          id \in {x \in Decisive : Records[x].kind \in SideDependencies}}
  \cup {<<"lineage_head", id>> : id \in Decisive \cap report.heads}

Dependency == report.dependencies[at]
Pair(i) == <<report.dependencies[i].type, report.dependencies[i].id>>

MayDepend ==
  /\ \A i \in 1 .. at - 1 : Pair(i) # Pair(at)
  /\ Dependency.id \in Decisive
  /\ CASE Dependency.type = "identity_introduction" ->
            Records[Dependency.id].kind \in Introductions
       [] Dependency.type = "lineage_head" -> Dependency.id \in report.heads
       [] OTHER -> Records[Dependency.id].kind = Dependency.type

CheckDependency ==
  /\ phase = "dependencies" /\ at <= Len(report.dependencies) /\ MayDepend
  /\ phase' = "search"
  /\ target' = Dependency.id /\ goal' = Dependency.id /\ answer' = None
  /\ stack' = <<>> /\ memo' = [id \in Ids |-> None]
  /\ UNCHANGED <<bundle, report, at>>

RefuseDependency ==
  /\ phase = "dependencies" /\ at <= Len(report.dependencies) /\ ~ MayDepend
  /\ Reject
  /\ UNCHANGED <<searchVars, report>>

Search ==
  /\ phase = "search" /\ SearchStep
  /\ UNCHANGED <<report, phase, at>>

ComparePath_AnyEnd ==   \* variant: only the ends of the path are compared
  /\ phase = "search" /\ Finished
  /\ IF answer # None /\ Dependency.path # <<>>
        /\ Last(Dependency.path) = Last(answer)
     THEN Continue("dependencies", at + 1) ELSE Reject
  /\ UNCHANGED <<searchVars, report>>

ComparePath ==
  /\ phase = "search" /\ Finished
  /\ IF answer # None /\ Dependency.path = answer
     THEN Continue("dependencies", at + 1) ELSE Reject
  /\ UNCHANGED <<searchVars, report>>

Close_NoOmissions ==   \* variant: what is left out goes unnoticed
  /\ phase = "dependencies" /\ at > Len(report.dependencies)
  /\ Continue("accepted", at)
  /\ UNCHANGED <<searchVars, report>>

Close ==
  /\ phase = "dependencies" /\ at > Len(report.dependencies)
  /\ IF {Pair(i) : i \in DOMAIN report.dependencies} = Required
     THEN Continue("accepted", at) ELSE Reject
  /\ UNCHANGED <<searchVars, report>>

Validated == phase \in {"accepted", "rejected"}

ProvenanceNext ==
  \/ CheckOutput
  \/ CheckClassification
  \/ CheckChain
  \/ ChainsHold
  \/ CheckDependency
  \/ RefuseDependency
  \/ Search
  \/ ComparePath
  \/ Close
  \/ Validated /\ UNCHANGED provenanceVars

ProvenanceSpec == ProvenanceInit /\ [][ProvenanceNext]_provenanceVars
FairProvenanceSpec == ProvenanceSpec /\ WF_provenanceVars(ProvenanceNext)

-----------------------------------------------------------------------------
(* Properties.                                                             *)

(* In an accepted report every decisive introduction, precedence edge,     *)
(* recovery, revocation and pinned head is listed with a path that leads   *)
(* to it from an anchor over decisive VALID introductions of its signers.  *)
AcceptedIsAuthorized ==
  phase = "accepted" =>
    \A pair \in Required : \E i \in DOMAIN report.dependencies :
      /\ Pair(i) = pair
      /\ Authorized(report.dependencies[i].path, pair[2])

(* The chain of a claim and the dependencies are checked by different      *)
(* rules (a chain follows a recovery's predecessor, not its signer), yet   *)
(* together they mean that the signer of every claim that is relied on is  *)
(* authorized, through recoveries, too: the path of one of the listed      *)
(* dependencies leads on to the claim.                                     *)
ClaimsAreAuthorized ==
  phase = "accepted" =>
    \A i \in DOMAIN report.chains : \E d \in DOMAIN report.dependencies :
      Authorized(Append(report.dependencies[d].path, report.chains[i].claim),
                 report.chains[i].claim)

(* READY is accepted of no report whose authority is open: it relies on a  *)
(* claim, listed with the path that authorizes it, no decisive record is   *)
(* unresolved or does not match, and no stage was skipped.                 *)
ReadyIsBacked ==
  phase = "accepted" /\ report.disposition = "READY" =>
    /\ \E i \in DOMAIN report.chains : \E d \in DOMAIN report.dependencies :
         Authorized(Append(report.dependencies[d].path, report.chains[i].claim),
                    report.chains[i].claim)
    /\ DecisiveClasses \cap {"UNRESOLVED", "NONMATCHING"} = {}
    /\ report.unevaluated = <<>> /\ report.contracts /\ report.evidence

(* What a report has to be, said without any order of checks: each         *)
(* required dependency is listed once, with the least path to it.          *)
RightReport ==
  /\ OutputConforms(report) /\ ClassificationCoheres
  /\ \A i \in DOMAIN report.chains : ChainHolds(report.chains[i])
  /\ {Pair(i) : i \in DOMAIN report.dependencies} = Required
  /\ \A i, j \in DOMAIN report.dependencies : Pair(i) = Pair(j) => i = j
  /\ \A i \in DOMAIN report.dependencies :
       LET dependency == report.dependencies[i]
       IN  /\ dependency.path \in PathsTo(dependency.id)
           /\ IsLeast(dependency.path, dependency.id)

(* Where introductions have no cycle the validator accepts the right       *)
(* reports and no other, although it finds the paths by a search that      *)
(* remembers what it found and turns back at active records.               *)
AcceptsTheRightReports ==
  Validated /\ Acyclic => (phase = "accepted" <=> RightReport)

(* The checks that are still to come.                                      *)
ChecksLeft ==
  LET chains == Len(report.chains)
      dependencies == Len(report.dependencies)
  IN  CASE phase = "output" -> chains + 2 * dependencies + 5
        [] phase = "classification" -> chains + 2 * dependencies + 4
        [] phase = "chains" -> chains + 2 * dependencies + 4 - at
        [] phase = "dependencies" -> 2 * (dependencies + 1 - at) + 1
        [] phase = "search" -> 2 * (dependencies + 1 - at)
        [] OTHER -> 0

(* Every step of the validation brings it nearer to its end, steps of the  *)
(* recursive search included, although the search remembers no failure and *)
(* may derive a record again and again: a step leaves fewer checks, or     *)
(* less to do for the outermost call that it changes.                      *)
ValidationAdvances ==
  [][\/ ChecksLeft' < ChecksLeft
     \/ ChecksLeft' = ChecksLeft /\ Lower(CallsLeft', CallsLeft)]_provenanceVars

(* Every validation ends.                                                  *)
ValidationEnds == <>Validated

-----------------------------------------------------------------------------
(* "AUTHORITY_CONFLICT records one authority_chains item for every         *)
(* undominated conflicting claim and therefore at least two" (PV4 in       *)
(* docs/proof-protocol.v0.3.md): the chains of a conflict end in different *)
(* claims.                                                                 *)
ConflictHasTwoClaims ==
  phase = "accepted" /\ report.authority = "CONFLICT" =>
    Cardinality({report.chains[i].claim : i \in DOMAIN report.chains}) >= 2
============================================================================
