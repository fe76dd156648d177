--------------------------- MODULE MCCanvasPages ---------------------------
(* Instances of CanvasPages for TLC.  Pages and shapes are interchangeable: no *)
(* definition names one.                                                      *)
EXTENDS CanvasPages, TLC

Interchangeable == Permutations(Pages) \cup Permutations(Shapes)
============================================================================
