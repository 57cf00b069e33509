----------------------------- MODULE BlindTrial -----------------------------
(***************************************************************************)
(* What an accepted pack promises, without a file or a record in sight:    *)
(* the plan of a trial was settled when its inputs were opened, its        *)
(* results when its oracle was unsealed afterwards, and what is certified  *)
(* is this plan and these results.  A trial whose oracle was not unsealed  *)
(* later than its inputs were opened is never certified.                   *)
(***************************************************************************)
CONSTANT None

VARIABLES phase,      \* "closed", "open", "unsealed" or "spoiled"
          plan,       \* what the trial is made of, from the opening on
          results,    \* what it resulted in, from the unsealing on
          certified   \* the plan and the results of the pack accepted, or None

vars == <<phase, plan, results, certified>>

Init == phase = "closed" /\ plan = None /\ results = None /\ certified = None

Open ==
  /\ phase = "closed" /\ phase' = "open"
  /\ UNCHANGED <<results, certified>>

Unseal ==
  /\ phase = "open" /\ phase' = "unsealed"
  /\ UNCHANGED <<plan, certified>>

Spoil ==
  /\ phase # "unsealed" /\ phase' = "spoiled"
  /\ UNCHANGED certified

Certify ==
  /\ phase = "unsealed" /\ certified = None
  /\ certified' = [plan |-> plan, results |-> results]
  /\ UNCHANGED <<phase, plan, results>>

Next == Open \/ Unseal \/ Spoil \/ Certify

Spec == Init /\ [][Next]_vars
=============================================================================
