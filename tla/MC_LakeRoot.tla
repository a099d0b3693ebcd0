---------------------------- MODULE MC_LakeRoot ----------------------------
(* LakeRoot instantiated for TLC: three callers, so that a RemovePool, a  *)
(* RenamePool and a CreatePool can overlap; two ordinary names and HEAD;  *)
(* two pool ids, so that a second pool can take a removed pool's name.   *)
EXTENDS LakeRoot, TLC

CONSTANTS c1, c2, c3, a, b, head, none

MCCallers == {c1, c2, c3}
MCNames == {a, b, head}
MCSymmetry == Permutations({c1, c2, c3})
=============================================================================
