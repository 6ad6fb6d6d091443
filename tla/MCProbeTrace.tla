---------------------------- MODULE MCProbeTrace ----------------------------
(* Values for the constants of ProbeTrace. *)
EXTENDS ProbeTrace

\* Three ports, the middle one disabled.
Outer == {0, 2}
\* One port.
Single == {0}
=============================================================================
