-------------------------------- MODULE Port --------------------------------
(****************************************************************************)
(* The Ethernet ports of pktsender (src/src/port.c): which ones are         *)
(* enabled, which lcore serves each queue, and what port_init, port_start,  *)
(* port_close and port_free make of pools, queues and devices when one port *)
(* of several fails.  Every function runs in main(); Startup says when.     *)
(****************************************************************************)
EXTENDS Integers, Sequences, FiniteSets

CONSTANTS
  NbPorts,      \* rte_eth_dev_count()
  NoLcore       \* RTE_MAX_LCORE, the lcore of a queue that nobody serves

ASSUME PortAssumption == NbPorts \in Nat \ {0}

VARIABLES
  portList,     \* whether port_list is allocated
  enabled,      \* the ports with is_enabled
  lcoreMap,     \* lcore_map of each enabled port
  rxPool,       \* the ports whose rx_mp is a pool
  txPool,       \* the ports whose tx_mp is a pool
  rxQueue,      \* the ports whose RX queue is set up
  txQueue,      \* the TX queues, as <<port, queue>>, that are set up
  device,       \* the Ethernet device of each port
  at,           \* portid of the loop of port_init or port_start
  step          \* "dev", or the job of the inner loop of __port_init_single

poolVars  == <<rxPool, txPool>>
queueVars == <<rxQueue, txQueue>>
portVars  == <<portList, enabled, lcoreMap, poolVars, queueVars, device, at, step>>

Ports == 0 .. NbPorts - 1
Jobs  == {"RX", "TX"}                     \* LCORE_JOB_RX, LCORE_JOB_TX
TxQueues == {"TXQ_TX", "TXQ_LATENCY"}
Devices  == {"off", "configured", "started", "closed"}

PortInit ==
  /\ portList = FALSE /\ enabled = {} /\ lcoreMap = << >>
  /\ rxPool = {} /\ txPool = {} /\ rxQueue = {} /\ txQueue = {}
  /\ device = [p \in Ports |-> "off"]
  /\ at = 0 /\ step = "dev"

-----------------------------------------------------------------------------
(* port_parse_opt, port_update_lcore *)

\* The bits of the mask beyond the last port are ignored; with no port left
\* port_list is freed at once.
ParseOpt(mask) ==
  /\ enabled' = mask \cap Ports
  /\ portList' = (enabled' # {})
  /\ lcoreMap' = [p \in enabled' |-> [j \in Jobs |-> NoLcore]]
  /\ UNCHANGED <<poolVars, queueVars, device, at, step>>

UpdateLcore(p, l, j) == lcoreMap' = [lcoreMap EXCEPT ![p][j] = l]

-----------------------------------------------------------------------------
(* port_init: a loop over the ports, and in __port_init_single over the jobs *)

Here == at \in Ports /\ at \in enabled
Looping == at \in Ports

\* Both loops skip a port that is not enabled.
SkipPort ==
  /\ Looping /\ at \notin enabled
  /\ at' = at + 1
  /\ UNCHANGED <<portList, enabled, lcoreMap, poolVars, queueVars, device, step>>

InitDev ==
  /\ Here /\ step = "dev"
  /\ device' = [device EXCEPT ![at] = "configured"]
  /\ step' = "RX"
  /\ UNCHANGED <<portList, enabled, lcoreMap, poolVars, queueVars, at>>

\* The next job of this port, or the next port.
NextJob ==
  /\ IF step = "RX" THEN step' = "TX" /\ at' = at ELSE step' = "dev" /\ at' = at + 1
  /\ UNCHANGED <<portList, enabled, lcoreMap, device>>

\* Mutant: a job without an lcore ends the loop over the jobs.
SkipJob_Break ==
  /\ Here /\ step \in Jobs /\ lcoreMap[at][step] = NoLcore
  /\ step' = "dev" /\ at' = at + 1
  /\ UNCHANGED <<portList, enabled, lcoreMap, device, poolVars, queueVars>>

SkipJob ==
  /\ Here /\ step \in Jobs /\ lcoreMap[at][step] = NoLcore
  /\ NextJob
  /\ UNCHANGED <<poolVars, queueVars>>

InitRxPool == rxPool' = rxPool \cup {at}
InitTxPool == txPool' = txPool \cup {at}
SetupTxQueues(queues) == txQueue' = txQueue \cup {<<at, q>> : q \in queues}

SetupRx ==
  /\ Here /\ step = "RX" /\ lcoreMap[at]["RX"] # NoLcore
  /\ InitRxPool
  /\ rxQueue' = rxQueue \cup {at}
  /\ NextJob
  /\ UNCHANGED <<txPool, txQueue>>

\* The probe queue of a port is set up together with its TX queue.
SetupTx ==
  /\ Here /\ step = "TX" /\ lcoreMap[at]["TX"] # NoLcore
  /\ InitTxPool
  /\ SetupTxQueues(TxQueues)
  /\ NextJob
  /\ UNCHANGED <<rxPool, rxQueue>>

\* __port_free_single, for each port of S
FreePools(S) == rxPool' = rxPool \ S /\ txPool' = txPool \ S

\* fail_free_mp, or a return before any pool was made, for this port; then
\* fail_clear for those before it.
ClearPools ==
  /\ FreePools(0 .. at)
  /\ UNCHANGED <<portList, enabled, lcoreMap, device, at, step>>

\* A call of DPDK fails; of the TX queues some are set up by then.
InitFails(queues) ==
  /\ Here
  /\ step \in Jobs => lcoreMap[at][step] # NoLcore
  /\ queues \in (IF step = "TX" THEN {{}, {"TXQ_TX"}} ELSE {{}})
  /\ SetupTxQueues(queues)
  /\ rxQueue' = rxQueue
  /\ ClearPools

\* The loop is over, and the next one begins.
LoopEnds ==
  /\ ~Looping
  /\ at' = 0
  /\ UNCHANGED <<portList, enabled, lcoreMap, poolVars, queueVars, device, step>>

-----------------------------------------------------------------------------
(* port_start, port_close, port_free *)

StartDev ==
  /\ Here
  /\ device' = [device EXCEPT ![at] = "started"]
  /\ at' = at + 1
  /\ UNCHANGED <<portList, enabled, lcoreMap, poolVars, queueVars, step>>

\* rte_eth_dev_stop and rte_eth_dev_close of those of S that are enabled
CloseDevs(S) ==
  device' = [p \in Ports |-> IF p \in S \cap enabled THEN "closed" ELSE device[p]]

\* Mutant: the ports that were started are left alone.
StartFails_Leave ==
  /\ Here
  /\ UNCHANGED <<portList, enabled, lcoreMap, poolVars, queueVars, device, at, step>>

\* fail_close_port
StartFails ==
  /\ Here
  /\ CloseDevs(0 .. at - 1)
  /\ UNCHANGED <<portList, enabled, lcoreMap, poolVars, queueVars, at, step>>

ClosePorts ==
  /\ CloseDevs(Ports)
  /\ UNCHANGED <<portList, enabled, lcoreMap, poolVars, queueVars, at, step>>

\* Mutant: the TX pools are kept.
FreePorts_RxOnly ==
  /\ portList' = FALSE
  /\ rxPool' = rxPool \ enabled /\ txPool' = txPool
  /\ UNCHANGED <<enabled, lcoreMap, queueVars, device, at, step>>

FreePorts ==
  /\ portList' = FALSE
  /\ FreePools(enabled)
  /\ UNCHANGED <<enabled, lcoreMap, queueVars, device, at, step>>

-----------------------------------------------------------------------------
(* Properties *)

\* What DPDK may touch on a started device: the pool of each queue that is set
\* up is there (rx_mp, and tx_mp whose mbufs the TX queue holds).  So no pool
\* is freed before its device is closed, whichever port fails and when.
PoolBacked ==
  \A p \in Ports : device[p] = "started" =>
    /\ p \in rxQueue => p \in rxPool
    /\ <<p, "TXQ_TX">> \in txQueue => p \in txPool
=============================================================================
