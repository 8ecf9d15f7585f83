--------------------------- MODULE MCArtifactStore ---------------------------
(***************************************************************************)
(* Two launches side by side: one whose artifacts live for less than a day *)
(* and expire at once when it is launched in the morning, and one whose    *)
(* artifacts live for a day.                                               *)
(***************************************************************************)
EXTENDS ArtifactStore, TLC

CONSTANTS brief, long

MCTtl == (brief :> 1) @@ (long :> 2)
=============================================================================
