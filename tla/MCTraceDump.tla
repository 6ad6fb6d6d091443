----------------------------- MODULE MCTraceDump -----------------------------
(* Values for the constants of TraceDump. *)
EXTENDS TraceDump

\* One thread of each kind.
MCRoles == <<"tx", "rx", "sw">>

\* Two, of which one takes its time from the NIC and one from the TSC.
MCPairRoles == <<"rx", "sw">>

MCSymmetry == Permutations(Probes) \cup Permutations(Paddings)
=============================================================================
