----------------------------- MODULE SessionsMC -----------------------------
(* Sessions with interchangeable tabs.                                     *)
EXTENDS Sessions, TLC

Interchangeable == Permutations(Tabs)
=============================================================================
