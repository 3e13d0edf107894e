----------------------------- MODULE MCPublishGate -----------------------------
(* Small instances of PublishGate for TLC.                                 *)
EXTENDS PublishGate, TLC

(* The tiles are built in any order and treated alike.                     *)
TileSymmetry == Permutations(Tile)
=============================================================================
