----------------------- MODULE GrokConstraintChecker -----------------------
(***************************************************************************)
(* GrokConstraintChecker (src/cloudai/test_definitions/grok.py): the       *)
(* configurator's check of a Grok action {num_gpus, tp, ep, fsdp, dp}.     *)
(* A parallelism tuple is <<dp, fsdp, ep, tp>>, the order of the code's    *)
(* loops; the messages are left out, only the shape of what                *)
(* _is_valid_combination returns (two or three elements) is kept, since    *)
(* validate unpacks it.                                                     *)
(***************************************************************************)
EXTENDS Naturals, Sequences

CONSTANTS
    GpuCounts,      \* values of action["num_gpus"]
    Factors,        \* values of action["tp"], ["ep"], ["fsdp"], ["dp"]
    Missing         \* the key is absent: action.get returns None

VARIABLES
    action,         \* the action the configurator asks about
    verdict         \* what validate does with it

vars == <<action, verdict>>

Actions == [num_gpus : GpuCounts \cup {Missing}, tp : Factors \cup {Missing},
            ep : Factors \cup {Missing}, fsdp : Factors \cup {Missing},
            dp : Factors \cup {Missing}]

Mesh(S) == S \X S \X S \X S

Prod(m) == m[1] * m[2] * m[3] * m[4]

\* The ICI meshes the outer loop does not skip: product exactly 8 (and so
\* not all ones and not above 8).
IciMeshes ==
    {m \in Mesh({1, 2, 4, 8}) : ~(Prod(m) > 8 \/ m = <<1, 1, 1, 1>>) /\ Prod(m) = 8}

\* The inner `continue`: a mesh whose DCN dimensions all dominate the ICI
\* ones (strictly for dp) is passed over.
Skipped(ici, dcn) ==
    ici[1] < dcn[1] /\ ici[2] <= dcn[2] /\ ici[3] <= dcn[3] /\ ici[4] <= dcn[4]

Matches(n, f, ici, dcn) ==
    /\ \A k \in 1..4 : ici[k] * dcn[k] = f[k]
    /\ Prod(f) <= n

\* _is_valid_combination: the early return is a 3-tuple, the others pairs.
IsValidCombination(n, f) ==
    IF n < Prod(f) THEN <<FALSE, "none", "none">>
    ELSE IF \E ici \in IciMeshes, dcn \in Mesh({1, 2, 4, 8, 16}) :
                Matches(n, f, ici, dcn) /\ ~Skipped(ici, dcn)
         THEN <<TRUE, "valid">>
         ELSE <<FALSE, "invalid">>

\* validate: missing parameters are refused; `is_valid, message = ...`
\* raises ValueError on anything but a pair.
Validate(a) ==
    IF Missing \in {a.num_gpus, a.tp, a.ep, a.fsdp, a.dp}
    THEN "refused"
    ELSE LET r == IsValidCombination(a.num_gpus, <<a.dp, a.fsdp, a.ep, a.tp>>)
         IN  IF Len(r) # 2 THEN "raised"
             ELSE IF r[1] THEN "valid" ELSE "invalid"

Init == action \in Actions /\ verdict = Validate(action)

\* The configurator asks about one action after another.
Next == \E a \in Actions : action' = a /\ verdict' = Validate(a)

Spec == Init /\ [][Next]_vars

\* validate() is declared to return Tuple[bool, str] for every action: it
\* never raises, also for an action that asks for more GPUs than there are.
ValidateNeverRaises == verdict # "raised"

=============================================================================
