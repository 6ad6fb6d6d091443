------------------------------ MODULE Transmit ------------------------------
(****************************************************************************)
(* One TX queue and the lcore that sends on it (src/src/transmitter.c):     *)
(* tx_ctl_tx_burst waits until the rate allows a burst, takes mbufs from    *)
(* the port's pool, hands them to the NIC until it took them all, and frees *)
(* them.  The driver frees them too: inside a later rte_eth_tx_burst, when  *)
(* the NIC is done with their descriptors.  So a free may hit an mbuf that  *)
(* is in the pool already, or in the table of the burst being sent.         *)
(* DPDK's mempool, refcnt and driver are modelled from how this code uses   *)
(* them; the build is one without RTE_VERIFY in __pktmbuf_alloc_bulk, as    *)
(* with RTE_ASSERT in a release of DPDK, and AllocatedUnused is what it     *)
(* asserts.                                                                 *)
(****************************************************************************)
EXTENDS Integers, Sequences, FiniteSets

CONSTANTS
  Mbufs,        \* the NB_MBUFS of tx_mp
  BurstSize,    \* MAX_PKT_BURST
  TxDesc,       \* TX_DESC_DEFAULT
  RefWrap,      \* a refcnt is 0 .. RefWrap-1 (65536: a uint16_t)
  PktLen,       \* tx_seq.pkt_len
  FrameExtra,   \* FRAME_EXTRA_BYTES
  CpuHz,        \* pktsender.cpu_hz
  TxRate,       \* pktsender.tx_rate, 0 if no -r was given
  DefaultBps,   \* TX_RATE_DEFAULT_BPS
  Horizon       \* bound: the last cycle

ASSUME TransmitAssumption ==
  /\ IsFiniteSet(Mbufs) /\ Cardinality(Mbufs) >= BurstSize
  /\ BurstSize \in Nat \ {0} /\ TxDesc \in Nat \ {0}
  /\ RefWrap \in Nat /\ RefWrap > TxDesc + BurstSize + 1
  /\ PktLen \in Nat /\ FrameExtra \in Nat
  /\ CpuHz \in Nat \ {0} /\ TxRate \in Nat /\ DefaultBps \in Nat \ {0}
  /\ Horizon \in Nat

VARIABLES
  pool,     \* how often tx_mp holds each mbuf
  refcnt,   \* of each mbuf
  queue,    \* the mbufs of the descriptors in use, oldest first
  done,     \* how many of them the NIC has sent
  now,      \* the cycle counter
  pc,       \* where the lcore is in tx_ctl_tx_burst
  cycles,   \* its local cycles: when the latest burst began
  next,     \* rate_next_cycles
  table,    \* m_table
  total,    \* total_size
  sent      \* how many of m_table the NIC took

nicVars  == <<queue, done>>
mbufVars == <<pool, refcnt>>
ctlVars  == <<cycles, next, table, total, sent>>
vars == <<mbufVars, nicVars, now, pc, ctlVars>>

-----------------------------------------------------------------------------
(* tx_ctl_init and the rate *)

Bps == IF TxRate = 0 THEN DefaultBps ELSE TxRate

\* (uint64_t)(bytes * rate_cycles), with cpu_hz * 8.0 / bps cycles per byte
CyclesOf(bytes) == (bytes * CpuHz * 8) \div Bps

WireSize == PktLen + FrameExtra

\* Every mbuf was filled with the template, and is back in the pool.
Init ==
  /\ pool = [m \in Mbufs |-> 1] /\ refcnt = [m \in Mbufs |-> 0]
  /\ queue = << >> /\ done = 0 /\ now = 0
  /\ pc = "idle" /\ cycles = 0 /\ next = 0
  /\ table = << >> /\ total = 0 /\ sent = 0

-----------------------------------------------------------------------------
(* Time and the NIC *)

Tick ==
  /\ now < Horizon
  /\ now' = now + 1
  /\ UNCHANGED <<mbufVars, nicVars, pc, ctlVars>>

NicSends ==
  /\ done < Len(queue)
  /\ done' = done + 1
  /\ UNCHANGED <<mbufVars, queue, now, pc, ctlVars>>

\* How often m is in s.
Count(s, m) == Cardinality({k \in DOMAIN s : s[k] = m})

\* Mutant: a refcnt may become negative.
FreeAll_Signed(s) ==
  /\ refcnt' = [m \in Mbufs |-> refcnt[m] - Count(s, m)]
  /\ pool' = [m \in Mbufs |-> IF refcnt[m] \in 1 .. Count(s, m) THEN pool[m] + 1 ELSE pool[m]]

\* rte_pktmbuf_free of all of s, each of which takes one from its mbuf's refcnt
\* and puts it into the pool when none is left.
FreeAll(s) ==
  /\ refcnt' = [m \in Mbufs |-> (refcnt[m] - Count(s, m)) % RefWrap]
  /\ pool' = [m \in Mbufs |-> IF refcnt[m] \in 1 .. Count(s, m) THEN pool[m] + 1 ELSE pool[m]]

-----------------------------------------------------------------------------
(* tx_ctl_tx_burst *)

\* Mutant: the burst goes out in the cycle in which the rate allows it, rounded down.
TooEarly_Rounded == next > now

TooEarly == next >= now

\* A call before its time returns at once and changes nothing.
BeginBurst ==
  /\ pc = "idle" /\ ~TooEarly
  /\ pc' = "get" /\ cycles' = now
  /\ UNCHANGED <<mbufVars, nicVars, now, next, table, total, sent>>

\* The tables that rte_mempool_get_bulk may fill: all or none, any of the pool.
Bulks == {t \in [1 .. BurstSize -> Mbufs] : \A m \in Mbufs : Count(t, m) <= pool[m]}

GetBulk ==
  /\ pc = "get"
  /\ IF Bulks = {}
       THEN pc' = "failed" /\ UNCHANGED <<table, pool>>
       ELSE /\ pc' = "reset" /\ table' \in Bulks
            /\ pool' = [m \in Mbufs |-> pool[m] - Count(table', m)]
  /\ UNCHANGED <<refcnt, nicVars, now, cycles, next, total, sent>>

\* Mutant: the refcnt is left as it is.
ResetMbufs_KeepRefcnt ==
  /\ pc = "reset"
  /\ total' = total + BurstSize * WireSize
  /\ sent' = 0
  /\ pc' = "send"
  /\ UNCHANGED <<mbufVars, nicVars, now, cycles, next, table>>

\* The rest of __pktmbuf_alloc_bulk, and the sum of the packets' sizes.
ResetMbufs ==
  /\ pc = "reset"
  /\ refcnt' = [m \in Mbufs |-> IF Count(table, m) > 0 THEN 1 ELSE refcnt[m]]
  /\ total' = total + BurstSize * WireSize
  /\ sent' = 0
  /\ pc' = "send"
  /\ UNCHANGED <<pool, nicVars, now, cycles, next, table>>

\* Mutant: pkts stays where it is.
Rest_First(n) == SubSeq(table, 1, n)

\* What pkts points to: n mbufs after those that were taken.
Rest(n) == SubSeq(table, sent + 1, sent + n)

\* One turn of __send_burst.  The driver frees some of the descriptors that are
\* done, at least one if it has no other, and takes what there is room for.
SendTurn ==
  /\ pc = "send" /\ sent < BurstSize
  /\ \E k \in 0 .. done :
       LET used == Len(queue) - k
           room == TxDesc - used
           n == IF BurstSize - sent < room THEN BurstSize - sent ELSE room
       IN  /\ Len(queue) = TxDesc /\ done > 0 => k > 0
           /\ FreeAll(SubSeq(queue, 1, k))
           /\ queue' = SubSeq(queue, k + 1, Len(queue)) \o Rest(n)
           /\ done' = done - k
           /\ sent' = sent + n
  /\ UNCHANGED <<now, pc, cycles, next, table, total>>

\* Mutant: it waits for its descriptors, which only another turn would free.
EndBurst_WaitFreed ==
  /\ pc = "send" /\ sent = BurstSize /\ queue = << >>
  /\ next' = cycles + CyclesOf(total)
  /\ FreeAll(table)
  /\ total' = 0
  /\ pc' = "idle"
  /\ UNCHANGED <<nicVars, now, cycles, table, sent>>

\* The time of the next burst, and rte_pktmbuf_free_bulk.
EndBurst ==
  /\ pc = "send" /\ sent = BurstSize
  /\ next' = cycles + CyclesOf(total)
  /\ FreeAll(table)
  /\ total' = 0
  /\ pc' = "idle"
  /\ UNCHANGED <<nicVars, now, cycles, table, sent>>

Lcore == BeginBurst \/ GetBulk \/ ResetMbufs \/ SendTurn \/ EndBurst

Next == Tick \/ NicSends \/ Lcore

Spec == Init /\ [][Next]_vars

\* The lcore is scheduled and the NIC sends what it took: the link is up.
FairSpec == Spec /\ WF_vars(Lcore) /\ WF_vars(NicSends)

-----------------------------------------------------------------------------
(* Properties *)

\* Counts, lengths and counters stay within their types.
TypeOK ==
  /\ pool \in [Mbufs -> Nat] /\ refcnt \in [Mbufs -> 0 .. RefWrap - 1]
  /\ queue \in Seq(Mbufs) /\ Len(queue) <= TxDesc /\ done \in 0 .. Len(queue)
  /\ now \in 0 .. Horizon /\ pc \in {"idle", "get", "reset", "send", "failed"}
  /\ cycles \in 0 .. now /\ next \in Nat
  /\ table \in Seq(Mbufs) /\ total \in Nat
  /\ sent \in 0 .. BurstSize

\* However the frees of the lcore and those of the driver come together, an mbuf
\* never enters the pool a second time, and between bursts the pool is complete:
\* no bulk allocation fails, and the lcore does not leave its loop for want of mbufs.
PoolConserved ==
  /\ pc # "failed"
  /\ \A m \in Mbufs : pool[m] \in 0 .. 1
  /\ pc \in {"idle", "get"} => \A m \in Mbufs : pool[m] = 1

\* The NIC gets each packet of the table once and in order, however little of it
\* it takes at a time: what it took of this burst and still has is the end of its
\* queue.
HandedOver ==
  pc = "send" =>
    \A k \in 0 .. sent - 1 : k < Len(queue) => queue[Len(queue) - k] = table[sent - k]

\* The rate is kept from both sides: a burst begins no sooner after the one
\* before than that one's bytes take at the rate, and is not held back longer.
\* CyclesOf rounds down; that a burst waits for next < now makes up for it.
RateKept ==
  [][LET Cost == BurstSize * WireSize * CpuHz * 8
     IN  /\ BeginBurst /\ next > 0 => (cycles' - cycles) * Bps >= Cost
         /\ next' # next => (next' - cycles) * Bps <= Cost]_vars

\* A burst that was begun ends.
BurstReturns == pc = "get" ~> pc = "idle"

\* __pktmbuf_alloc_bulk's assertion (transmitter.c:174-211): nobody refers to an
\* mbuf that comes from the pool.
AllocatedUnused == pc = "reset" => \A k \in 1 .. BurstSize : refcnt[table[k]] = 0
=============================================================================
