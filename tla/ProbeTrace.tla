------------------------------ MODULE ProbeTrace ------------------------------
(****************************************************************************)
(* The probe timer: __process_probe (src/src/probe.c) sends one probe per   *)
(* enabled port and tick, and libpkttracer (src/pkttracer/pt_trace.c) reads *)
(* the hardware's transmit timestamp and writes it to the trace file of the *)
(* thread.  Everything runs on the stat lcore; the NIC transmits what was   *)
(* handed to it, and latches timestamps, in its own time.                   *)
(*                                                                          *)
(* Probe n of a port (probe_idx n) is the n+1-st that is handed to the NIC, *)
(* and n+1 stands for the time of its transmission; 0 is the zero timespec. *)
(****************************************************************************)
EXTENDS Integers, Sequences

CONSTANTS
  NbProbe,    \* nb_probe, the number of ports
  Enabled,    \* the ports for which port_is_enabled
  MaxWait,    \* how often the timestamp is read again (1000, once a microsecond)
  MaxProbes   \* bound: how many probes are constructed for a port

ASSUME PortsAssumption == NbProbe \in Nat /\ Enabled \subseteq 0 .. NbProbe - 1
ASSUME MaxWaitAssumption == MaxWait \in Nat
ASSUME MaxProbesAssumption == MaxProbes \in Nat

VARIABLES
  txRunning,   \* the TX bit of job_state
  pc,          \* where __process_probe is
  i,           \* its port
  wait,        \* wait_us
  nextIdx,     \* per port: next_idx
  nextPkt,     \* per port: next_pkt, as the set of the probe it holds
  file,        \* of the stat lcore's thread: "none", "open", or "failed" (tid < 0)
  records,     \* per port: the records written for it
  \* the NIC
  queue,       \* per port: the probes handed over and not yet transmitted
  latch,       \* per port: the timestamp register, as the set of what it holds
  \* history, read by no guard of the code
  accepted,    \* per port: the probes handed over
  missed       \* the ports for which a timestamp was waited for in vain

callback == <<pc, i, wait>>
probes   == <<nextIdx, nextPkt>>
nic      == <<queue, latch>>
history  == <<accepted, missed>>
vars     == <<txRunning, callback, probes, file, records, nic, history>>

PortIds == 0 .. NbProbe - 1

\* probe_init, and JOB_FLAGS_ALL
Init ==
  /\ txRunning = "yes"
  /\ pc = "idle" /\ i = 0 /\ wait = 0
  /\ nextIdx = [p \in PortIds |-> 0]
  /\ nextPkt = [p \in PortIds |-> {}]
  /\ file = "none"
  /\ records = [p \in PortIds |-> <<>>]
  /\ queue = [p \in PortIds |-> <<>>]
  /\ latch = [p \in PortIds |-> {}]
  /\ accepted = [p \in PortIds |-> <<>>]
  /\ missed = {}

-----------------------------------------------------------------------------
(* The NIC, and the signal handler *)

\* The first probe in the queue is transmitted.  A timestamp that was not read
\* yet stays in the register, and that of this probe is not captured.
Transmit(p) ==
  /\ queue[p] # <<>>
  /\ queue' = [queue EXCEPT ![p] = Tail(@)]
  /\ latch' = [latch EXCEPT ![p] = IF @ = {} THEN {Head(queue[p]) + 1} ELSE @]
  /\ UNCHANGED <<txRunning, callback, probes, file, records, history>>

\* The first Ctrl-C.
StopTx ==
  /\ txRunning = "yes" /\ txRunning' = "no"
  /\ UNCHANGED <<callback, probes, file, records, nic, history>>

-----------------------------------------------------------------------------
(* __process_probe *)

At(loc) == pc = loc
Goto(loc) == pc' = loc /\ UNCHANGED i

\* The for loop goes on to the next port.
NextPort ==
  IF i + 1 < NbProbe THEN pc' = "port" /\ i' = i + 1 ELSE pc' = "idle" /\ i' = 0

\* The timer expires.  With the TX bit clear the callback does nothing.
Tick ==
  /\ At("idle") /\ txRunning = "yes" /\ NbProbe > 0
  /\ Goto("port")
  /\ UNCHANGED <<txRunning, wait, probes, file, records, nic, history>>

SkipPort ==
  /\ At("port") /\ i \notin Enabled /\ NextPort
  /\ UNCHANGED <<txRunning, wait, probes, file, records, nic, history>>

\* __construct_probe
Construct ==
  /\ At("port") /\ i \in Enabled /\ nextPkt[i] = {}
  /\ nextIdx[i] < MaxProbes
  /\ nextPkt' = [nextPkt EXCEPT ![i] = {nextIdx[i]}]
  /\ nextIdx' = [nextIdx EXCEPT ![i] = @ + 1]
  /\ Goto("prepare")
  /\ UNCHANGED <<txRunning, wait, file, records, nic, history>>

\* It finds no mbuf: the callback returns, and no later port has its turn.
ConstructFails ==
  /\ At("port") /\ i \in Enabled /\ nextPkt[i] = {}
  /\ pc' = "idle" /\ i' = 0
  /\ UNCHANGED <<txRunning, wait, probes, file, records, nic, history>>

\* The probe that was refused last time is tried again.
Retry ==
  /\ At("port") /\ i \in Enabled /\ nextPkt[i] # {}
  /\ Goto("prepare")
  /\ UNCHANGED <<txRunning, wait, probes, file, records, nic, history>>

\* __construct_probe has set PKT_TX_IEEE1588_TMST in every probe.
Flagged == TRUE

\* trace_hw_tx_prepare reads the register if it is the one to set the flag.
Prepare ==
  /\ At("prepare") /\ Goto("send")
  /\ latch' = IF file # "failed" /\ ~Flagged THEN [latch EXCEPT ![i] = {}] ELSE latch
  /\ UNCHANGED <<txRunning, wait, probes, file, records, queue, history>>

\* rte_eth_tx_burst takes the probe.
Send ==
  /\ At("send") /\ Goto("poll")
  /\ wait' = 0
  /\ \E n \in nextPkt[i] :
       /\ queue' = [queue EXCEPT ![i] = Append(@, n)]
       /\ accepted' = [accepted EXCEPT ![i] = Append(@, n)]
  /\ UNCHANGED <<txRunning, probes, file, records, latch, missed>>

\* Mutant: the probe is given up.
Refuse_GiveUp ==
  /\ At("send") /\ NextPort
  /\ nextPkt' = [nextPkt EXCEPT ![i] = {}]
  /\ UNCHANGED <<txRunning, wait, nextIdx, file, records, nic, history>>

\* It does not; the probe is kept for the next tick.
Refuse ==
  /\ At("send") /\ NextPort
  /\ UNCHANGED <<txRunning, wait, probes, file, records, nic, history>>

\* rte_pktmbuf_free, and on to the next port.
Done ==
  /\ NextPort
  /\ nextPkt' = [nextPkt EXCEPT ![i] = {}]
  /\ UNCHANGED <<txRunning, nextIdx, queue, accepted>>

-----------------------------------------------------------------------------
(* trace_hw_tx_record *)

\* tid < 0
Untraced ==
  /\ At("poll") /\ file = "failed" /\ Done
  /\ UNCHANGED <<wait, file, records, latch, missed>>

\* Mutant: wait_us is not counted.
ReadAgain_Uncounted ==
  /\ At("poll") /\ file # "failed" /\ latch[i] = {} /\ wait < MaxWait
  /\ UNCHANGED vars

\* Mutant: one read too many, after which wait_us is never 1000.
ReadAgain_OnceMore ==
  /\ At("poll") /\ file # "failed" /\ latch[i] = {} /\ wait <= MaxWait
  /\ wait' = wait + 1
  /\ UNCHANGED <<txRunning, pc, i, probes, file, records, nic, history>>

\* There is no timestamp: wait and read again ...
ReadAgain ==
  /\ At("poll") /\ file # "failed" /\ latch[i] = {} /\ wait < MaxWait
  /\ wait' = wait + 1
  /\ UNCHANGED <<txRunning, pc, i, probes, file, records, nic, history>>

\* Mutant: what was not read is recorded all the same.
GiveUp_Record ==
  /\ At("poll") /\ file # "failed" /\ latch[i] = {} /\ wait = MaxWait /\ Done
  /\ records' = [records EXCEPT ![i] = Append(@, [idx |-> nextIdx[i] - 1, stamp |-> 0])]
  /\ missed' = missed \cup {i}
  /\ UNCHANGED <<wait, file, latch>>

\* ... or give up.
GiveUp ==
  /\ At("poll") /\ file # "failed" /\ latch[i] = {} /\ wait = MaxWait /\ Done
  /\ missed' = missed \cup {i}
  /\ UNCHANGED <<wait, file, records, latch>>

\* A timestamp is there, but only the last read found it: wait_us == 1000.
ReadTooLate ==
  /\ At("poll") /\ file # "failed" /\ latch[i] # {} /\ wait = MaxWait /\ Done
  /\ latch' = [latch EXCEPT ![i] = {}]
  /\ missed' = missed \cup {i}
  /\ UNCHANGED <<wait, file, records>>

\* Mutant: the index of the next probe.
RecordOf_Next(p, stamp) == [idx |-> nextIdx[p], stamp |-> stamp]

\* The record of the probe in next_pkt: fmt->probe_idx and the timestamp.
RecordOf(p, stamp) == [idx |-> CHOOSE n \in nextPkt[p] : TRUE, stamp |-> stamp]

\* __record_to_cache and trace_flush, with the trace file open or opened now
Record ==
  /\ At("poll") /\ file # "failed" /\ latch[i] # {} /\ wait < MaxWait /\ Done
  /\ latch' = [latch EXCEPT ![i] = {}]
  /\ file' = "open"
  /\ \E stamp \in latch[i] :
       records' = [records EXCEPT ![i] = Append(@, RecordOf(i, stamp))]
  /\ UNCHANGED <<wait, missed>>

\* __local_init cannot open it.
OpenFails ==
  /\ At("poll") /\ file = "none" /\ latch[i] # {} /\ wait < MaxWait /\ Done
  /\ latch' = [latch EXCEPT ![i] = {}]
  /\ file' = "failed"
  /\ UNCHANGED <<wait, records, missed>>

-----------------------------------------------------------------------------
Callback ==
  \/ SkipPort \/ Construct \/ ConstructFails \/ Retry \/ Prepare \/ Send \/ Refuse
  \/ Untraced \/ ReadAgain \/ GiveUp \/ ReadTooLate \/ Record \/ OpenFails

Next == Tick \/ Callback \/ StopTx \/ \E p \in PortIds : Transmit(p)

Spec == Init /\ [][Next]_vars

\* The stat lcore is scheduled.  Nothing is assumed of the NIC.
Fairness == WF_vars(Callback)

FairSpec == Spec /\ Fairness

-----------------------------------------------------------------------------
(* Properties *)

\* The variables hold values of their types.
TypeOK ==
  /\ txRunning \in {"yes", "no"}
  /\ pc \in {"idle", "port", "prepare", "send", "poll"}
  /\ i \in Nat
  /\ wait \in 0 .. MaxWait
  /\ nextIdx \in [PortIds -> Nat]
  /\ nextPkt \in [PortIds -> SUBSET Nat]
  /\ file \in {"none", "open", "failed"}
  /\ records \in [PortIds -> Seq([idx : Nat, stamp : Nat])]
  /\ queue \in [PortIds -> Seq(Nat)]
  /\ latch \in [PortIds -> SUBSET Nat]
  /\ accepted \in [PortIds -> Seq(Nat)]
  /\ missed \in SUBSET PortIds

\* Each port's probes are handed to the NIC in the order of their indices, none
\* left out and none twice, however often the NIC refuses one, no mbuf is left
\* or TX is stopped; what is constructed and not handed over is next_pkt.
ProbesInSequence ==
  \A p \in PortIds :
    /\ \A n \in 1 .. Len(accepted[p]) : accepted[p][n] = n - 1
    /\ nextIdx[p] - Len(accepted[p]) \in 0 .. 1
    /\ nextIdx[p] > Len(accepted[p]) => nextPkt[p] = {Len(accepted[p])}

\* As long as no timestamp of a port was waited for in vain, each of its records
\* has the timestamp of its own probe: nothing else is in the register when the
\* probe is sent (trace_hw_tx_record).
OwnTimestamps ==
  \A p \in PortIds \ missed :
    \A n \in 1 .. Len(records[p]) : records[p][n].stamp = records[p][n].idx + 1

\* Whatever was missed: the records of a port are in the order of its probes, one
\* at most for each; a timestamp is used once, and is real and never one of a
\* later probe.  So a measured delay may be too long and is never too short.
StampsNeverAhead ==
  \A p \in PortIds : \A n \in 1 .. Len(records[p]) :
    /\ records[p][n].stamp \in 1 .. records[p][n].idx + 1
    /\ n > 1 => /\ records[p][n - 1].idx < records[p][n].idx
                /\ records[p][n - 1].stamp < records[p][n].stamp

\* The callback returns, whatever the NIC does: the measurement loop is not held
\* up, and sees that the jobs were stopped.
CallbackReturns == At("poll") ~> At("idle")

\* The comment in trace_hw_tx_prepare (pt_trace.c:209): once it returned, the
\* register holds no old value that could be taken for the timestamp of the probe.
NoOldValue == [][Prepare /\ file # "failed" => latch'[i] = {}]_vars
=============================================================================
