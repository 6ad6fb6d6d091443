----------------------------- MODULE MCCuckooHash -----------------------------
(* Values for the constants of CuckooHash. *)
EXTENDS CuckooHash

\* Keys 1 and 2 share both signatures.  With four buckets, the buckets of keys 1 and 2 are
\* 1 and 2, those of key 3 are 2 and 3, of key 4 are 2 and 1, and key 5 has bucket 1 only.
MCKeys == 1 .. 5
MCPairs == {<<k, 0>> : k \in MCKeys} \cup {<<2, 1>>}
MCSigs == 0 .. 9
MCHash == <<1, 1, 2, 6, 9>>
MCAlt  == [s \in MCSigs |-> CASE s = 1 -> 2 [] s = 2 -> 3 [] s = 6 -> 1 [] s = 9 -> 5 [] OTHER -> 7]
=============================================================================
