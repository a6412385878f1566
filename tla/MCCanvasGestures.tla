--------------------------- MODULE MCCanvasGestures ---------------------------
(* Two Cells, two pointers, and the bounds of CanvasGestures.cfg. *)
EXTENDS CanvasGestures, TLC

CONSTANTS mouse, finger, top, child

MCPointers == {mouse, finger}
MCDocs == {top, child}
PointerSymmetry == Permutations(MCPointers)
===============================================================================
