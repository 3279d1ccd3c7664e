------------------------- MODULE MC_SlurmInstaller -------------------------
(* Two systems with their own install roots and one with no install_path, *)
(* run by the same user; two artifacts.                                   *)
EXTENDS SlurmInstaller, TLC

CONSTANTS sA, sB, sN, RA, RB, a1, a2

MCInstallPath == (sA :> RA) @@ (sB :> RB) @@ (sN :> NoPath)

=============================================================================
