------------------------------- MODULE ByteFifo -------------------------------
(****************************************************************************)
(* What src/tools/ringbuffer.h promises: a first-in first-out queue of      *)
(* bytes of limited capacity, in which a put appends its bytes as a whole   *)
(* and a get removes a prefix.  The n-th byte ever put stands for itself.   *)
(****************************************************************************)
EXTENDS Integers, Sequences

CONSTANT Capacity   \* how many bytes fit

VARIABLES
  queue,   \* the bytes put and not yet got
  tail,    \* how many bytes were ever put
  got      \* what the latest get returned

vars == <<queue, tail, got>>

Init == queue = <<>> /\ tail = 0 /\ got = <<>>

Put(n) ==
  /\ Len(queue) + n <= Capacity
  /\ queue' = queue \o [i \in 1 .. n |-> tail + i]
  /\ tail' = tail + n
  /\ UNCHANGED got

Get(n) ==
  /\ got' = SubSeq(queue, 1, n)
  /\ queue' = SubSeq(queue, n + 1, Len(queue))
  /\ UNCHANGED tail

Next == (\E n \in 0 .. Capacity : Put(n)) \/ (\E n \in 1 .. Len(queue) : Get(n))

Spec == Init /\ [][Next]_vars
=============================================================================
