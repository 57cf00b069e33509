-------------------------- MODULE ReleaseIdentity --------------------------
(***************************************************************************)
(* How the evaluator turns the spellings of a release ("Orion 1.0.0",      *)
(* "orion-service-v1.0.0") into one canonical release identifier.          *)
(*                                                                         *)
(* A reference is a record with                                            *)
(*     text     its spelling                                               *)
(*     version  the first semantic version in it, or None                  *)
(*     name     what is left of it without the version, "" if nothing      *)
(* The aliases of an identity contract are the names that one of its       *)
(* aliases occurs in, or None if they are nothing to iterate over.         *)
(***************************************************************************)
EXTENDS FiniteSets, Documents

IdentityFields == {"canonical_name", "aliases"}

(* Resolution subscripts both keys and iterates over the aliases: it       *)
(* raises KeyError or TypeError if it cannot.                              *)
Resolvable(identity) ==
  IdentityFields \subseteq DOMAIN identity /\ identity.aliases # None

Recognised(reference, identity) ==
  /\ reference.version # None
  /\ reference.name # "" => reference.name \in identity.aliases

Candidates(references, identity) ==
  {<<"release", identity.canonical_name, reference.version>> :
     reference \in {r \in references : Recognised(r, identity)}}

(* resolve_release_identity: references that are not recognised are        *)
(* skipped, so they never make a resolution ambiguous or unresolved.       *)
Resolve(references, identity) ==
  LET found == Candidates(references, identity)
  IN  [status |-> CASE found = {}              -> "unresolved"
                    [] Cardinality(found) > 1  -> "ambiguous"
                    [] OTHER -> IF Cardinality(references) = 1
                                THEN "exact" ELSE "alias",
       canonical_id |-> IF Cardinality(found) = 1
                        THEN CHOOSE c \in found : TRUE ELSE None]
============================================================================
