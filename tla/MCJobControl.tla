----------------------------- MODULE MCJobControl -----------------------------
(* Values for the constants of JobControl. *)
EXTENDS JobControl, TLC

CONSTANTS m, a

MCLcores == {m, a}

\* Two ports: a receives on one and sends on both.
MCNbRx == m :> 0 @@ a :> 1
MCNbTx == m :> 2 @@ a :> 2

\* One port.
MCOneRx == m :> 0 @@ a :> 1
MCOneTx == m :> 1 @@ a :> 1
=============================================================================
