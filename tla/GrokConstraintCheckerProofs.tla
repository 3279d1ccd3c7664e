-------------------- MODULE GrokConstraintCheckerProofs --------------------
(***************************************************************************)
(* Facts about GrokConstraintChecker.validate for every action whose      *)
(* parameters are natural numbers, not only the bounded ones run          *)
(* grok_validate enumerates.                                               *)
(***************************************************************************)
EXTENDS GrokConstraintChecker, TLAPS

\* The parallelism tuple validate hands to _is_valid_combination.
Factorisation(a) == <<a.dp, a.fsdp, a.ep, a.tp>>

\* All five keys are given.
Complete(a) == Missing \notin {a.num_gpus, a.tp, a.ep, a.fsdp, a.dp}

\* validate raises ValueError exactly for a complete action that asks for
\* more GPUs than num_gpus: the early `return False, None, None` of
\* _is_valid_combination is then unpacked into two names.  This is the
\* violation run grok_validate finds, for every action.
THEOREM ValidateRaisesIffOversubscribed ==
    ASSUME NEW a, a.num_gpus \in Nat, a.tp \in Nat, a.ep \in Nat,
           a.fsdp \in Nat, a.dp \in Nat
    PROVE  Validate(a) = "raised" <=>
               Complete(a) /\ a.num_gpus < Prod(Factorisation(a))
<1> DEFINE f == Factorisation(a)
           r == IsValidCombination(a.num_gpus, f)
<1>1. CASE ~Complete(a)
  BY <1>1 DEF Validate, Complete
<1>2. CASE Complete(a) /\ a.num_gpus < Prod(f)
  <2>1. Len(r) = 3
    BY <1>2 DEF IsValidCombination
  <2>. QED BY <1>2, <2>1 DEF Validate, Complete, Factorisation
<1>3. CASE Complete(a) /\ ~(a.num_gpus < Prod(f))
  <2>1. Len(r) = 2
    BY <1>3 DEF IsValidCombination
  <2>2. r[1] \in BOOLEAN
    BY <1>3 DEF IsValidCombination
  <2>. QED BY <1>3, <2>1, <2>2 DEF Validate, Complete, Factorisation
<1>. QED BY <1>1, <1>2, <1>3

\* The ICI mesh has eight devices, and every factor is the product of its
\* ICI and DCN dimensions, so an action validate accepts asks for a
\* multiple of eight GPUs, at least eight and at most num_gpus: on a
\* system with fewer than eight GPUs no Grok action is ever valid.
THEOREM ValidIsMultipleOfEight ==
    ASSUME NEW a, a.num_gpus \in Nat, a.tp \in Nat, a.ep \in Nat,
           a.fsdp \in Nat, a.dp \in Nat,
           Validate(a) = "valid"
    PROVE  /\ Prod(Factorisation(a)) % 8 = 0
           /\ 8 <= Prod(Factorisation(a))
           /\ Prod(Factorisation(a)) <= a.num_gpus
<1> DEFINE f == Factorisation(a)
<1>1. Complete(a) /\ ~(a.num_gpus < Prod(f))
  <2>1. Complete(a)
    BY DEF Validate, Complete
  <2>2. ~(a.num_gpus < Prod(f))
    BY <2>1 DEF Validate, Complete, IsValidCombination, Factorisation
  <2>. QED BY <2>1, <2>2
<1>2. PICK ici \in IciMeshes, dcn \in Mesh({1, 2, 4, 8, 16}) :
          Matches(a.num_gpus, f, ici, dcn) /\ ~Skipped(ici, dcn)
  BY <1>1 DEF Validate, Complete, IsValidCombination, Factorisation
<1>3. /\ ici \in Mesh({1, 2, 4, 8}) /\ Prod(ici) = 8
      /\ \A k \in 1..4 : dcn[k] \in {1, 2, 4, 8, 16}
  BY <1>2 DEF IciMeshes, Mesh
<1>4. \A k \in 1..4 : f[k] = ici[k] * dcn[k]
  BY <1>2 DEF Matches
<1>5. Prod(f) = Prod(ici) * Prod(dcn)
  <2>1. \A k \in 1..4 : ici[k] \in Nat /\ dcn[k] \in Nat
    BY <1>3 DEF Mesh
  <2>. QED BY <1>4, <2>1 DEF Prod
<1>6. Prod(dcn) \in Nat /\ 1 <= Prod(dcn)
  BY <1>3 DEF Prod
<1>. QED BY <1>1, <1>3, <1>5, <1>6
=============================================================================
