------------------------------ MODULE JobControl ------------------------------
(****************************************************************************)
(* How pktsender starts, runs and stops its jobs: the part of main() that   *)
(* follows the installation of the SIGINT handler (src/src/main.c), the     *)
(* handler itself and the loop of every lcore (src/src/pktsender.c).        *)
(*                                                                          *)
(* The lcores are threads.  The master lcore (StatLcore, main.c:485) runs   *)
(* main() and, inside rte_eal_mp_remote_launch, the measurement loop; the   *)
(* slaves run the RX/TX loop.  They share pktsender.job_state and           *)
(* sig_recved, plain uint8_t variables: an update of either is a load and,  *)
(* later, a store.  SIGINT is delivered to any thread that is not already   *)
(* in the handler (signal() blocks SIGINT in the handling thread only) and  *)
(* suspends that thread's own code until the handler returns.               *)
(* A thread of the process that is no lcore is like an lcore without a job. *)
(****************************************************************************)
EXTENDS Integers

CONSTANTS
  Lcores,       \* the lcore threads
  StatLcore,    \* pktsender.stat_lcore, the master lcore
  NbRx, NbTx,   \* jobs[LCORE_JOB_RX].nb_ports, jobs[LCORE_JOB_TX].nb_ports
  SigWrap,      \* the values of sig_recved are 0 .. SigWrap-1 (256: a uint8_t)
  MaxSignals    \* bound: how often Ctrl-C is pressed

\* __check_mapping (main.c:289-318) drops every mapping to the stat lcore, then
\* gives it one TX entry per enabled port.  The handler tells the values 0 and 1
\* of sig_recved from the others.
ASSUME ConstantsAssumption ==
  /\ StatLcore \in Lcores
  /\ NbRx \in [Lcores -> Nat]
  /\ NbTx \in [Lcores -> Nat]
  /\ NbRx[StatLcore] = 0
  /\ NbTx[StatLcore] > 0
  /\ SigWrap \in Nat
  /\ SigWrap > 2
  /\ MaxSignals \in Nat

VARIABLES
  main,       \* where main() is
  ports,      \* the Ethernet devices: "init", "started" or "closed"
  timers,     \* the armed timers
  lists,      \* port_list, port_stat and probe_list: "allocated" or "freed"
  jobState,   \* pktsender.job_state, as the set of its bits
  sigRecved,  \* sig_recved
  presses,    \* how often Ctrl-C was pressed
  pending,    \* pending SIGINTs, 0 or 1: one sent now is merged with a pending one
  hpc,        \* per thread: where it is in pktsender_sig_handler
  hjob,       \* per thread: the job_state the handler loaded
  hsig,       \* per thread: the sig_recved the handler loaded
  lpc,        \* per lcore: where it is in its loop
  idx,        \* per lcore: the port index of the innermost loop over ports
  probed,     \* the port index in __process_probe
  \* history, read by no action
  past,       \* "early": a handler was entered before job_state = JOB_FLAGS_ALL,
              \* "overlap": one was entered while another thread was in it
  handled,    \* completed handlers, counted up to 2
  late,       \* per lcore: bursts sent since the TX bit was last cleared
  failed      \* the lcores whose port_transmit failed

mainVars   == <<main, ports, timers, lists>>
signalVars == <<presses, pending>>
frameVars  == <<hpc, hjob, hsig>>
loopVars   == <<lpc, idx, probed, late, failed>>
pastVars   == <<past, handled>>
vars == <<mainVars, jobState, sigRecved, signalVars, frameVars, loopVars, pastVars>>

Jobs     == {"RX", "TX"}                  \* JOB_FLAGS_ALL
Slaves   == Lcores \ {StatLcore}
Mains    == {"init", "fail", "aborted", "timers", "start",
             "launch", "loop", "close", "stop", "free", "exit"}
Handler  == {"none", "test", "clear_load", "clear_store", "stop", "inc_load", "inc_store"}
InPass   == {"rx", "tx_check", "tx", "manage", "probe_check", "probe"}
LoopPcs  == {"eal", "entry", "check", "done"} \cup InPass

\* conf->job_flags, as pktsender_launch_one_lcore computes it
JobFlags(l) == {j \in Jobs : IF j = "RX" THEN NbRx[l] > 0 ELSE NbTx[l] > 0}

\* The flags whose bits keep the loop of l going.
LoopFlags(l) == IF l = StatLcore THEN Jobs ELSE JobFlags(l)

Running == main \notin {"exit", "aborted"}
Overlapped == "overlap" \in past
Started == main \in {"launch", "loop", "close", "stop", "free", "exit"}

Init ==
  /\ main = "init" /\ ports = "init" /\ timers = {} /\ lists = "allocated"
  /\ jobState = {} /\ sigRecved = 0
  /\ presses = 0 /\ pending = 0
  /\ hpc = [l \in Lcores |-> "none"]
  /\ hjob = [l \in Lcores |-> {}]
  /\ hsig = [l \in Lcores |-> 0]
  /\ lpc = [l \in Lcores |-> "eal"]
  /\ idx = [l \in Lcores |-> 0]
  /\ probed = 0
  /\ past = {} /\ handled = 0
  /\ late = [l \in Lcores |-> 0]
  /\ failed = {}

-----------------------------------------------------------------------------
(* SIGINT and pktsender_sig_handler *)

Press ==
  /\ Running /\ presses < MaxSignals
  /\ presses' = presses + 1 /\ pending' = 1
  /\ UNCHANGED <<mainVars, jobState, sigRecved, frameVars, loopVars, pastVars>>

\* What the history records of a handler entered by t.
Happens(event, t) ==
  IF event = "early" THEN ~Started ELSE \E u \in Lcores \ {t} : hpc[u] # "none"

Deliver(t) ==
  /\ Running /\ pending = 1 /\ hpc[t] = "none"
  /\ pending' = 0
  /\ hpc' = [hpc EXCEPT ![t] = "test"]
  /\ past' = past \cup {e \in {"early", "overlap"} : Happens(e, t)}
  /\ UNCHANGED <<mainVars, jobState, sigRecved, presses, hjob, hsig, loopVars, handled>>

\* Mutant: the second branch tests for 2.
HandlerBranch_Late(n) == CASE n = 0 -> "clear_load" [] n = 2 -> "stop" [] OTHER -> "inc_load"

\* The branch on sig_recved.
HandlerBranch(n) == CASE n = 0 -> "clear_load" [] n = 1 -> "stop" [] OTHER -> "inc_load"

\* Two loads, if the build has two, lead to no branch that one does not.
HandlerTest(t) ==
  /\ Running /\ hpc[t] = "test"
  /\ hpc' = [hpc EXCEPT ![t] = HandlerBranch(sigRecved)]
  /\ UNCHANGED <<mainVars, jobState, sigRecved, signalVars, hjob, hsig, loopVars, pastVars>>

\* job_state &= ~TX: the load ...
HandlerClearLoad(t) ==
  /\ Running /\ hpc[t] = "clear_load"
  /\ hpc' = [hpc EXCEPT ![t] = "clear_store"]
  /\ hjob' = [hjob EXCEPT ![t] = jobState]
  /\ UNCHANGED <<mainVars, jobState, sigRecved, signalVars, hsig, loopVars, pastVars>>

\* Mutant: job_state = 1 << LCORE_JOB_RX.
HandlerClearStore_Assign(t) ==
  /\ Running /\ hpc[t] = "clear_store"
  /\ jobState' = {"RX"}
  /\ hpc' = [hpc EXCEPT ![t] = "inc_load"]
  /\ hjob' = [hjob EXCEPT ![t] = {}]
  /\ UNCHANGED <<mainVars, sigRecved, signalVars, hsig, loopVars, pastVars>>

\* ... and the store.
HandlerClearStore(t) ==
  /\ Running /\ hpc[t] = "clear_store"
  /\ jobState' = hjob[t] \ {"TX"}
  /\ hpc' = [hpc EXCEPT ![t] = "inc_load"]
  /\ hjob' = [hjob EXCEPT ![t] = {}]
  /\ UNCHANGED <<mainVars, sigRecved, signalVars, hsig, loopVars, pastVars>>

HandlerStop(t) ==
  /\ Running /\ hpc[t] = "stop"
  /\ jobState' = {}
  /\ hpc' = [hpc EXCEPT ![t] = "inc_load"]
  /\ UNCHANGED <<mainVars, sigRecved, signalVars, hjob, hsig, loopVars, pastVars>>

\* sig_recved++: the load ...
HandlerIncLoad(t) ==
  /\ Running /\ hpc[t] = "inc_load"
  /\ hpc' = [hpc EXCEPT ![t] = "inc_store"]
  /\ hsig' = [hsig EXCEPT ![t] = sigRecved]
  /\ UNCHANGED <<mainVars, jobState, sigRecved, signalVars, hjob, loopVars, pastVars>>

\* Mutant: a counter that does not wrap.
NextSig_Wide(n) == n + 1

\* ... and the store, after which the handler returns.
NextSig(n) == IF n + 1 = SigWrap THEN 0 ELSE n + 1

HandlerIncStore(t) ==
  /\ Running /\ hpc[t] = "inc_store"
  /\ sigRecved' = NextSig(hsig[t])
  /\ hpc' = [hpc EXCEPT ![t] = "none"]
  /\ hsig' = [hsig EXCEPT ![t] = 0]
  /\ handled' = IF handled < 2 THEN handled + 1 ELSE handled
  /\ UNCHANGED <<mainVars, jobState, signalVars, hjob, loopVars, past>>

HandlerStep(t) ==
  \/ HandlerTest(t)
  \/ HandlerClearLoad(t)
  \/ HandlerClearStore(t)
  \/ HandlerStop(t)
  \/ HandlerIncLoad(t)
  \/ HandlerIncStore(t)

-----------------------------------------------------------------------------
(* main() *)

\* Whatever main() does needs its thread, which is also the stat lcore's.
MainAt(pc) == main = pc /\ hpc[StatLcore] = "none"

MainGoes(pc) ==
  /\ main' = pc
  /\ UNCHANGED <<sigRecved, signalVars, frameVars, pastVars>>

\* __init_lcore_port ... port_start succeed.
InitPorts ==
  /\ MainAt("init") /\ MainGoes("timers")
  /\ ports' = "started"
  /\ UNCHANGED <<timers, lists, jobState, loopVars>>

\* One of them fails: goto fail_free_all, the ports started so far being closed.
InitFails ==
  /\ MainAt("init") /\ MainGoes("fail")
  /\ UNCHANGED <<ports, timers, lists, jobState, loopVars>>

\* stat_start, probe_start
StartTimers ==
  /\ MainAt("timers") /\ MainGoes("start")
  /\ timers' = {"stat", "probe"}
  /\ UNCHANGED <<ports, lists, jobState, loopVars>>

\* pktsender.job_state = JOB_FLAGS_ALL
StartJobs ==
  /\ MainAt("start") /\ MainGoes("launch")
  /\ jobState' = Jobs
  /\ UNCHANGED <<ports, timers, lists, loopVars>>

\* rte_eal_mp_remote_launch(..., CALL_MASTER): every slave, then the master itself
Launch ==
  /\ MainAt("launch") /\ MainGoes("loop")
  /\ lpc' = [l \in Lcores |-> "entry"]
  /\ UNCHANGED <<ports, timers, lists, jobState, idx, probed, late, failed>>

\* Mutant: the slaves are not waited for.
AllDone_NoWait == lpc[StatLcore] = "done"

\* The master's own loop is over and rte_eal_wait_lcore returned for every slave.
AllDone == \A l \in Lcores : lpc[l] = "done"

WaitLcores ==
  /\ MainAt("loop") /\ AllDone /\ MainGoes("close")
  /\ UNCHANGED <<ports, timers, lists, jobState, loopVars>>

ClosePorts ==
  /\ MainAt("close") /\ MainGoes("stop")
  /\ ports' = "closed"
  /\ UNCHANGED <<timers, lists, jobState, loopVars>>

\* probe_stop, then stat_stop (which reads the counters of the closed ports)
StopTimers ==
  /\ MainAt("stop") /\ MainGoes("free")
  /\ timers' = {}
  /\ UNCHANGED <<ports, lists, jobState, loopVars>>

\* __pktsender_free, at the end of main() and at fail_free_all
Free ==
  /\ \/ MainAt("free") /\ MainGoes("exit")
     \/ MainAt("fail") /\ MainGoes("aborted")
  /\ lists' = "freed"
  /\ UNCHANGED <<ports, timers, jobState, loopVars>>

MainStep ==
  \/ InitPorts \/ InitFails \/ StartTimers \/ StartJobs \/ Launch
  \/ WaitLcores \/ ClosePorts \/ StopTimers \/ Free

-----------------------------------------------------------------------------
(* pktsender_launch_one_lcore *)

LcoreAt(l, pc) == Running /\ lpc[l] = pc /\ hpc[l] = "none"

\* Lcore l goes on at pc with port index i.
LcoreGoes(l, pc, i) ==
  /\ lpc' = [lpc EXCEPT ![l] = pc]
  /\ idx' = [idx EXCEPT ![l] = i]
  /\ UNCHANGED <<mainVars, jobState, sigRecved, signalVars, frameVars, pastVars>>

Enter(l) ==
  /\ LcoreAt(l, "entry")
  /\ LcoreGoes(l, IF JobFlags(l) = {} THEN "done" ELSE "check", 0)
  /\ UNCHANGED <<probed, late, failed>>

\* Mutant: every flag is asked for, not any.
IsRunning_All(flags) == flags \subseteq jobState

\* __is_running(flags)
IsRunning(flags) == jobState \cap flags # {}

FirstInPass(l) ==
  IF l = StatLcore THEN "manage" ELSE IF NbRx[l] > 0 THEN "rx" ELSE "tx_check"

CheckRunning(l) ==
  /\ LcoreAt(l, "check")
  /\ LcoreGoes(l, IF IsRunning(LoopFlags(l)) THEN FirstInPass(l) ELSE "done", 0)
  /\ UNCHANGED <<probed, late, failed>>

\* __process_rx on one port
RxBurst(l) ==
  /\ LcoreAt(l, "rx")
  /\ IF idx[l] + 1 < NbRx[l]
       THEN LcoreGoes(l, "rx", idx[l] + 1)
       ELSE LcoreGoes(l, "tx_check", 0)
  /\ UNCHANGED <<probed, late, failed>>

\* Mutant: the TX bit is not asked for.
CheckTx_Unasked(l) ==
  /\ LcoreAt(l, "tx_check")
  /\ LcoreGoes(l, IF NbTx[l] > 0 THEN "tx" ELSE "check", 0)
  /\ UNCHANGED <<probed, late, failed>>

\* __is_tx_running(), asked once for all the ports of the pass
CheckTx(l) ==
  /\ LcoreAt(l, "tx_check")
  /\ LcoreGoes(l, IF "TX" \in jobState /\ NbTx[l] > 0 THEN "tx" ELSE "check", 0)
  /\ UNCHANGED <<probed, late, failed>>

\* A burst of l that the NIC accepted, counted when the TX bit is clear.
CountLate(l) ==
  late' = IF "TX" \in jobState \/ Overlapped THEN late ELSE [late EXCEPT ![l] = @ + 1]

\* port_transmit on one port
TxBurst(l) ==
  /\ LcoreAt(l, "tx")
  /\ IF idx[l] + 1 < NbTx[l]
       THEN LcoreGoes(l, "tx", idx[l] + 1)
       ELSE LcoreGoes(l, "check", 0)
  /\ CountLate(l)
  /\ UNCHANGED <<probed, failed>>

\* It fails, and the lcore leaves the whole loop, RX included.
TxFails(l) ==
  /\ LcoreAt(l, "tx")
  /\ LcoreGoes(l, "done", 0)
  /\ failed' = failed \cup {l}
  /\ UNCHANGED <<probed, late>>

\* The loop over rte_timer_manage goes on after its idx-th call.
ManageReturns(l) ==
  IF idx[l] + 1 < NbTx[l]
    THEN LcoreGoes(l, "manage", idx[l] + 1)
    ELSE LcoreGoes(l, "check", 0)

\* rte_timer_manage: the probe timer is not due.  (__process_stat changes no
\* state that is modelled here.)
ManageIdle(l) ==
  /\ LcoreAt(l, "manage") /\ ManageReturns(l)
  /\ UNCHANGED <<probed, late, failed>>

ManageProbe(l) ==
  /\ LcoreAt(l, "manage") /\ "probe" \in timers
  /\ LcoreGoes(l, "probe_check", idx[l])
  /\ UNCHANGED <<probed, late, failed>>

\* __process_probe: the TX bit, asked once for all ports
ProbeStopped(l) ==
  /\ LcoreAt(l, "probe_check") /\ "TX" \notin jobState
  /\ ManageReturns(l)
  /\ UNCHANGED <<probed, late, failed>>

ProbeBegins(l) ==
  /\ LcoreAt(l, "probe_check") /\ "TX" \in jobState
  /\ LcoreGoes(l, "probe", idx[l])
  /\ probed' = 0
  /\ UNCHANGED <<late, failed>>

\* The callback is done with one port.
ProbeNext(l) ==
  IF probed + 1 < NbTx[l]
    THEN LcoreGoes(l, "probe", idx[l]) /\ probed' = probed + 1
    ELSE ManageReturns(l) /\ probed' = 0

ProbeSent(l) ==
  /\ LcoreAt(l, "probe") /\ ProbeNext(l) /\ CountLate(l)
  /\ UNCHANGED failed

\* rte_eth_tx_burst refuses the probe: continue with the next port.
ProbeRefused(l) ==
  /\ LcoreAt(l, "probe") /\ ProbeNext(l)
  /\ UNCHANGED <<late, failed>>

\* __construct_probe fails: return from the callback.
ProbeAborts(l) ==
  /\ LcoreAt(l, "probe") /\ ManageReturns(l)
  /\ probed' = 0
  /\ UNCHANGED <<late, failed>>

SlaveStep(l) == RxBurst(l) \/ CheckTx(l) \/ TxBurst(l) \/ TxFails(l)

StatStep(l) ==
  \/ ManageIdle(l) \/ ManageProbe(l) \/ ProbeStopped(l) \/ ProbeBegins(l)
  \/ ProbeSent(l) \/ ProbeRefused(l) \/ ProbeAborts(l)

LcoreStep(l) == Enter(l) \/ CheckRunning(l) \/ SlaveStep(l) \/ StatStep(l)

-----------------------------------------------------------------------------
Next ==
  \/ Press
  \/ MainStep
  \/ \E l \in Lcores : Deliver(l) \/ HandlerStep(l) \/ LcoreStep(l)

Spec == Init /\ [][Next]_vars

\* Every thread that can run is scheduled, and a burst returns.  Nothing is
\* assumed of Ctrl-C: it need not be pressed.
Fairness ==
  /\ WF_vars(MainStep)
  /\ \A l \in Lcores : WF_vars(HandlerStep(l)) /\ WF_vars(LcoreStep(l))

FairSpec == Spec /\ Fairness

-----------------------------------------------------------------------------
(* Properties *)

TypeMain ==
  /\ main \in Mains
  /\ ports \in {"init", "started", "closed"}
  /\ timers \in SUBSET {"stat", "probe"}
  /\ lists \in {"allocated", "freed"}

TypeShared ==
  /\ jobState \in SUBSET Jobs
  /\ sigRecved \in 0 .. SigWrap - 1
  /\ presses \in 0 .. MaxSignals
  /\ pending \in 0 .. 1

TypeFrame ==
  /\ hpc \in [Lcores -> Handler]
  /\ hjob \in [Lcores -> SUBSET Jobs]
  /\ hsig \in [Lcores -> 0 .. SigWrap - 1]

TypeLoop ==
  /\ lpc \in [Lcores -> LoopPcs]
  /\ idx \in [Lcores -> Nat]
  /\ probed \in Nat

TypeHistory ==
  /\ past \in SUBSET {"early", "overlap"}
  /\ handled \in 0 .. 2
  /\ late \in [Lcores -> Nat]
  /\ failed \in SUBSET Lcores

\* The variables hold the values their C types and the code allow.
TypeOK == TypeMain /\ TypeShared /\ TypeFrame /\ TypeLoop /\ TypeHistory

\* The SIGINTs came one at a time and after the jobs were started.
Orderly == past = {}

\* Between handlers, the first Ctrl-C has stopped TX and nothing else, and the
\* second has stopped everything, however often Ctrl-C is pressed after that and
\* sig_recved wraps (pktsender_sig_handler and its comment, pktsender.c:37-38).
GracefulStop ==
  Orderly /\ (\A t \in Lcores : hpc[t] = "none") =>
    /\ handled = 0 /\ Started => jobState = Jobs
    /\ handled = 1 => jobState = {"RX"}
    /\ handled = 2 => jobState = {}

\* The comment at pktsender.c:37-38 as it stands: once two Ctrl-C were handled,
\* all jobs are stopped.
SecondSignalStops == handled = 2 => jobState = {}

\* Once a TX bit is cleared, an lcore sends at most one burst for each of its TX
\* ports, and the stat lcore at most one probe for each port: __is_tx_running()
\* and __process_probe ask once for all ports, and no path sends without asking.
TxOverrunBounded == ~Overlapped => \A l \in Lcores : late[l] <= NbTx[l]

\* An lcore that receives leaves its loop only because the RX bit is cleared for
\* good or because one of its own transmits failed; in particular not because TX
\* was stopped (__launch_rxtx_lcore).
RxLoopKeepsRunning ==
  \A l \in Lcores :
    lpc[l] = "done" /\ NbRx[l] > 0 /\ ~Overlapped => l \in failed \/ "RX" \notin jobState

\* Every loop, and every timer callback, which runs inside the loop of the stat
\* lcore, runs while the ports are started, the timers armed and the lists
\* allocated: none is entered before port_start and stat_start, and port_close and
\* __pktsender_free come after the last step of all of them.  (main() itself reads
\* the counters of the closed ports in stat_stop, main.c:555; that is no loop, and
\* nothing is claimed of it.)
LoopsOnOpenPorts ==
  \A l \in Lcores :
    lpc[l] \notin {"eal", "done"} =>
      ports = "started" /\ timers = {"stat", "probe"} /\ lists = "allocated"

\* A job that was stopped is never started again: apart from main()'s own store,
\* job_state only loses bits, unless two handlers overlap and one stores what it
\* loaded before the other's store.
JobsOnlyStop == [][~Overlapped' /\ ~StartJobs => jobState' \subseteq jobState]_vars

\* After the second Ctrl-C every loop is left and main() closes, frees and
\* returns, whatever else happens (further Ctrl-C included).
SecondSignalExits == handled = 2 /\ Orderly ~> main = "exit"
=============================================================================
