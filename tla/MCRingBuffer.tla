----------------------------- MODULE MCRingBuffer -----------------------------
(* Values for the constants of RingBuffer. *)
EXTENDS RingBuffer

CONSTANTS u, v

Two == {u, v}
ByteLens  == 1 .. Size
\* The least a writer may put and the most that ever fits.
FitLens == {1, 3}
=============================================================================
