----------------------------- MODULE MCStartup -----------------------------
(* Values for the constants of Startup. *)
EXTENDS Startup

CONSTANTS m, a, b, off, none

MCLcores == {m, a, b}

Entry(p, j, l) == [port |-> p, job |-> j, lcore |-> l]

\* Queues asked for once and twice, a port that is enabled under some masks only,
\* a port that does not exist, an lcore that is not enabled, the stat lcore.
MCEntries ==
  {Entry(0, "RX", a), Entry(0, "RX", b), Entry(0, "TX", a), Entry(1, "TX", a),
   Entry(2, "RX", a), Entry(2, "TX", a), Entry(3, "RX", b), Entry(1, "RX", off), Entry(2, "RX", m)}

\* No port, one, two that are not neighbours, three (and a bit beyond them).
MCMasks == {{}, {0}, {0, 2}, {0, 1, 2, 5}}
=============================================================================
