------------------------------- MODULE Staging -------------------------------
(***************************************************************************)
(* What the submits of NixResolution stage from their code, by the rules   *)
(* of FileSelection, while the user edits it.                              *)
(***************************************************************************)
EXTENDS NixResolution, FileSelection

CONSTANT Code  \* Code[s][e]: what code.path of s holds before, and after, its edit

ASSUME StagingAssumption == Code \in [Submits -> [BOOLEAN -> Trees]]

(***************************************************************************)
(* Where the patterns to include are tame, what a submit stages from its   *)
(* code, before and after an edit, is what the include and exclude rules   *)
(* select: there, that the walk does not go into some directories is only  *)
(* a matter of speed (_iter_included_files).  For other patterns, as       *)
(* src/*.py and src/**, it is false: the walk does not enter directories   *)
(* that hold selected files, though "Conservative: only returns False when *)
(* a match is provably impossible" (symlink.py:83).                        *)
(***************************************************************************)
TamePruningLosesNothing == \A s \in Submits : TameWalkIsExact[Code[s][edited[s]]]
=============================================================================
