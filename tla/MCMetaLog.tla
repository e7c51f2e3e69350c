----------------------------- MODULE MCMetaLog -----------------------------
(***************************************************************************)
(* Instances of MetaLog for TLC.  Items that no run tells apart are        *)
(* interchangeable.                                                        *)
(***************************************************************************)
EXTENDS MetaLog, TLC

ItemSymmetry == Permutations(Items)
=============================================================================
