----------------------------- MODULE MCTransmit -----------------------------
(* Values for the constants of Transmit. *)
EXTENDS Transmit

CONSTANTS x, y, z

MCMbufs == {x, y, z}
=============================================================================
