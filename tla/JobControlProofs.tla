--------------------------- MODULE JobControlProofs ---------------------------
(****************************************************************************)
(* The safety properties of JobControl, for any number of lcores, ports and *)
(* signals and any width of sig_recved.                                     *)
(****************************************************************************)
EXTENDS TLAPS, JobControl

Counting == \E t \in Lcores : hpc[t] \in {"inc_load", "inc_store"}

\* Where main() is tells what the lcores and the ports are doing.
PhaseInv ==
  /\ main \in {"init", "fail", "aborted", "timers", "start", "launch"} =>
       \A l \in Lcores : lpc[l] = "eal" /\ late[l] = 0
  /\ main \in {"close", "stop", "free", "exit"} => AllDone
  /\ main \in {"timers", "start", "launch", "loop", "close"} => ports = "started"
  /\ main \in {"start", "launch", "loop", "close", "stop"} => timers = {"stat", "probe"}
  /\ lists = "freed" => main \in {"exit", "aborted"}
  /\ \A l \in Lcores : lpc[l] \in {"manage", "probe_check", "probe"} => l = StatLcore

\* A handler that runs alone finds in memory what it loaded from it; main()'s own
\* store can only have added bits to job_state.
FrameInv ==
  ~Overlapped =>
    /\ \A t, u \in Lcores : hpc[t] # "none" /\ hpc[u] # "none" => t = u
    /\ \A t \in Lcores : hpc[t] = "inc_store" => hsig[t] = sigRecved
    /\ \A t \in Lcores : hpc[t] = "clear_store" => hjob[t] \subseteq jobState

\* What orderly signals have done to sig_recved and job_state, and which branch
\* the handler in progress can be in.
OrderlyInv ==
  Orderly =>
    /\ \A t \in Lcores : hpc[t] # "none" => Started
    /\ \A t \in Lcores : hpc[t] = "clear_store" => hjob[t] = jobState
    /\ handled = 0 =>
         /\ sigRecved = 0
         /\ \A t \in Lcores : hpc[t] # "stop"
         /\ Started => jobState = IF Counting THEN {"RX"} ELSE Jobs
    /\ handled = 1 =>
         /\ sigRecved = 1
         /\ Started
         /\ \A t \in Lcores : hpc[t] \notin {"clear_load", "clear_store"}
         /\ jobState = IF Counting THEN {} ELSE {"RX"}
    /\ handled = 2 => Started /\ jobState = {}

\* The late bursts of an lcore were all sent by the pass it is in.
LateInv ==
  ~Overlapped =>
    \A l \in Lcores :
      /\ "TX" \in jobState => late[l] = 0
      /\ lpc[l] = "tx" => late[l] <= idx[l] /\ idx[l] < NbTx[l]
      /\ lpc[l] = "probe" => late[l] <= probed /\ probed < NbTx[l]
      /\ late[l] <= NbTx[l]

IInv ==
  /\ TypeOK
  /\ PhaseInv
  /\ FrameInv
  /\ OrderlyInv
  /\ LateInv
  /\ RxLoopKeepsRunning

-----------------------------------------------------------------------------
LEMMA InitIInv == Init => IInv
<1> SUFFICES ASSUME Init PROVE IInv
  OBVIOUS
<1> USE ConstantsAssumption DEF Init
<1>1. TypeOK
  <2>1. TypeMain /\ TypeShared
    BY DEF TypeMain, TypeShared, Mains, Jobs
  <2>2. TypeFrame /\ TypeLoop
    BY DEF TypeFrame, TypeLoop, Jobs, Handler, LoopPcs, InPass
  <2>3. TypeHistory
    BY DEF TypeHistory
  <2> QED
    BY <2>1, <2>2, <2>3 DEF TypeOK
<1>2. PhaseInv
  BY DEF PhaseInv
<1>3. FrameInv
  BY DEF FrameInv, Overlapped
<1>4. OrderlyInv
  BY DEF OrderlyInv, Orderly, Started
<1>5. LateInv
  BY DEF LateInv, Overlapped
<1>6. RxLoopKeepsRunning
  BY DEF RxLoopKeepsRunning, Overlapped
<1> QED
  BY <1>1, <1>2, <1>3, <1>4, <1>5, <1>6 DEF IInv

(****************************************************************************)
(* Type correctness.                                                        *)
(****************************************************************************)
LEMMA TypeStep == TypeOK /\ [Next]_vars => TypeOK'
<1> SUFFICES ASSUME TypeOK, [Next]_vars PROVE TypeOK'
  OBVIOUS
<1> USE ConstantsAssumption
    DEF TypeOK, vars, mainVars, signalVars, frameVars, loopVars, pastVars
<1>1. CASE Press
  <2>1. TypeMain'
    BY <1>1 DEF TypeMain, Mains, Press
  <2>2. TypeShared'
    BY <1>1 DEF TypeShared, Jobs, Press
  <2>3. TypeFrame'
    BY <1>1 DEF TypeFrame, Handler, Jobs, Press
  <2>4. TypeLoop'
    BY <1>1 DEF TypeLoop, LoopPcs, InPass, Press
  <2>5. TypeHistory'
    BY <1>1 DEF TypeHistory, Press
  <2> QED
    BY <2>1, <2>2, <2>3, <2>4, <2>5
<1>2. CASE MainStep
  <2> USE DEF MainStep, MainGoes, InitPorts, InitFails, StartTimers, StartJobs,
              Launch, WaitLcores, ClosePorts, StopTimers, Free
  <2>1. TypeMain'
    BY <1>2 DEF TypeMain, Mains
  <2>2. TypeShared'
    BY <1>2 DEF TypeShared, Jobs
  <2>3. TypeFrame'
    BY <1>2 DEF TypeFrame, Handler, Jobs
  <2>4. TypeLoop'
    BY <1>2 DEF TypeLoop, LoopPcs, InPass
  <2>5. TypeHistory'
    BY <1>2 DEF TypeHistory
  <2> QED
    BY <2>1, <2>2, <2>3, <2>4, <2>5
<1>3. ASSUME NEW l \in Lcores, Deliver(l) PROVE TypeOK'
  <2>1. TypeMain'
    BY <1>3 DEF TypeMain, Mains, Deliver
  <2>2. TypeShared'
    BY <1>3 DEF TypeShared, Jobs, Deliver
  <2>3. TypeFrame'
    BY <1>3 DEF TypeFrame, Handler, Jobs, Deliver
  <2>4. TypeLoop'
    BY <1>3 DEF TypeLoop, LoopPcs, InPass, Deliver
  <2>5. TypeHistory'
    BY <1>3 DEF TypeHistory, Deliver
  <2> QED
    BY <2>1, <2>2, <2>3, <2>4, <2>5
<1>4. ASSUME NEW l \in Lcores, HandlerStep(l) PROVE TypeOK'
  <2> USE DEF HandlerStep, HandlerTest, HandlerClearLoad, HandlerClearStore, HandlerStop,
              HandlerIncLoad, HandlerIncStore
  <2>1. TypeMain'
    BY <1>4 DEF TypeMain, Mains
  <2>2. TypeShared'
    <3>1. jobState' \in SUBSET Jobs
      BY <1>4 DEF TypeShared, TypeFrame, Jobs
    <3>2. sigRecved' \in 0 .. SigWrap - 1
      BY <1>4 DEF TypeShared, TypeFrame, NextSig
    <3>3. presses' \in 0 .. MaxSignals /\ pending' \in 0 .. 1
      BY <1>4 DEF TypeShared
    <3> QED
      BY <3>1, <3>2, <3>3 DEF TypeShared
  <2>3. TypeFrame'
    BY <1>4 DEF TypeFrame, Handler, Jobs, HandlerBranch, TypeShared
  <2>4. TypeLoop'
    BY <1>4 DEF TypeLoop, LoopPcs, InPass
  <2>5. TypeHistory'
    <3>1. handled' \in 0 .. 2
      BY <1>4 DEF TypeHistory
    <3>2. UNCHANGED <<past, late, failed>>
      BY <1>4
    <3> QED
      BY <3>1, <3>2 DEF TypeHistory
  <2> QED
    BY <2>1, <2>2, <2>3, <2>4, <2>5
<1>5. ASSUME NEW l \in Lcores, LcoreStep(l) PROVE TypeOK'
  <2> USE DEF LcoreStep, LcoreGoes
  <2>1. CASE Enter(l) \/ CheckRunning(l)
    <3> USE DEF Enter, CheckRunning
    <3>1. TypeMain'
      BY <2>1 DEF TypeMain, Mains
    <3>2. TypeShared'
      BY <2>1 DEF TypeShared, Jobs
    <3>3. TypeFrame'
      BY <2>1 DEF TypeFrame, Handler, Jobs
    <3>4. TypeLoop'
      BY <2>1 DEF TypeLoop, LoopPcs, InPass, FirstInPass
    <3>5. TypeHistory'
      BY <2>1 DEF TypeHistory
    <3> QED
      BY <3>1, <3>2, <3>3, <3>4, <3>5
  <2>2. CASE SlaveStep(l)
    <3> USE DEF SlaveStep, RxBurst, CheckTx, TxBurst, TxFails
    <3>1. TypeMain'
      BY <2>2 DEF TypeMain, Mains
    <3>2. TypeShared'
      BY <2>2 DEF TypeShared, Jobs
    <3>3. TypeFrame'
      BY <2>2 DEF TypeFrame, Handler, Jobs
    <3>4. TypeLoop'
      BY <2>2 DEF TypeLoop, LoopPcs, InPass
    <3>5. TypeHistory'
      <4>1. late' \in [Lcores -> Nat]
        BY <2>2 DEF TypeHistory, CountLate
      <4>2. failed' \in SUBSET Lcores
        BY <2>2 DEF TypeHistory
      <4>3. UNCHANGED <<past, handled>>
        BY <2>2
      <4> QED
        BY <4>1, <4>2, <4>3 DEF TypeHistory
    <3> QED
      BY <3>1, <3>2, <3>3, <3>4, <3>5
  <2>3. CASE StatStep(l)
    <3> USE DEF StatStep, ManageReturns, ManageIdle, ManageProbe, ProbeStopped,
                ProbeBegins, ProbeNext, ProbeSent, ProbeRefused, ProbeAborts
    <3>1. TypeMain'
      BY <2>3 DEF TypeMain, Mains
    <3>2. TypeShared'
      BY <2>3 DEF TypeShared, Jobs
    <3>3. TypeFrame'
      BY <2>3 DEF TypeFrame, Handler, Jobs
    <3>4. TypeLoop'
      BY <2>3 DEF TypeLoop, LoopPcs, InPass
    <3>5. TypeHistory'
      BY <2>3 DEF TypeHistory, CountLate
    <3> QED
      BY <3>1, <3>2, <3>3, <3>4, <3>5
  <2> QED
    BY <1>5, <2>1, <2>2, <2>3
<1>6. CASE UNCHANGED vars
  BY <1>6 DEF TypeMain, TypeShared, TypeFrame, TypeLoop, TypeHistory
<1> QED
  BY <1>1, <1>2, <1>3, <1>4, <1>5, <1>6 DEF Next

\* Type correctness.
THEOREM TypeCorrect == Spec => []TypeOK
<1>1. Init => TypeOK
  BY InitIInv DEF IInv
<1> QED
  BY <1>1, TypeStep, PTL DEF Spec

-----------------------------------------------------------------------------
(****************************************************************************)
(* What the steps of a thread leave alone.                                  *)
(****************************************************************************)
LEMMA LcoreFrame ==
  ASSUME NEW l \in Lcores, LcoreStep(l)
  PROVE  /\ UNCHANGED <<main, ports, timers, lists, jobState, sigRecved>>
         /\ UNCHANGED <<hpc, hjob, hsig, past, handled>>
         /\ lpc[l] \in {"entry", "check"} \cup InPass
         /\ \E pc, i : /\ lpc' = [lpc EXCEPT ![l] = pc]
                       /\ idx' = [idx EXCEPT ![l] = i]
<1> USE DEF mainVars, signalVars, frameVars, pastVars, LcoreAt, LcoreGoes, InPass
<1>1. CASE Enter(l) \/ CheckRunning(l)
  BY <1>1 DEF Enter, CheckRunning
<1>2. CASE SlaveStep(l)
  BY <1>2 DEF SlaveStep, RxBurst, CheckTx, TxBurst, TxFails
<1>3. CASE StatStep(l)
  BY <1>3 DEF StatStep, ManageReturns, ManageIdle, ManageProbe, ProbeStopped,
              ProbeBegins, ProbeNext, ProbeSent, ProbeRefused, ProbeAborts
<1> QED
  BY <1>1, <1>2, <1>3 DEF LcoreStep

LEMMA HandlerFrame ==
  ASSUME NEW t \in Lcores, HandlerStep(t)
  PROVE  /\ UNCHANGED <<main, ports, timers, lists>>
         /\ UNCHANGED <<lpc, idx, probed, late, failed, past>>
         /\ hpc[t] # "none"
         /\ \E pc : hpc' = [hpc EXCEPT ![t] = pc]
BY DEF HandlerStep, HandlerTest, HandlerClearLoad, HandlerClearStore, HandlerStop,
       HandlerIncLoad, HandlerIncStore, mainVars, loopVars, pastVars

LEMMA PhaseStep == IInv /\ [Next]_vars => PhaseInv'
<1> SUFFICES ASSUME IInv, [Next]_vars PROVE PhaseInv'
  OBVIOUS
<1> USE DEF IInv, PhaseInv, AllDone
<1>1. CASE Press
  BY <1>1 DEF Press, mainVars, loopVars
<1>2. CASE MainStep
  BY <1>2 DEF MainStep, MainAt, MainGoes, InitPorts, InitFails, StartTimers, StartJobs,
              Launch, WaitLcores, ClosePorts, StopTimers, Free, loopVars, TypeOK, TypeLoop
<1>3. ASSUME NEW l \in Lcores, Deliver(l) PROVE PhaseInv'
  BY <1>3 DEF Deliver, mainVars, loopVars
<1>4. ASSUME NEW l \in Lcores, HandlerStep(l) PROVE PhaseInv'
  BY <1>4, HandlerFrame
<1>5. ASSUME NEW l \in Lcores, LcoreStep(l) PROVE PhaseInv'
  <2>1. ~(main \in {"init", "fail", "aborted", "timers", "start", "launch"})
    BY <1>5, LcoreFrame DEF InPass
  <2>2. ~(main \in {"close", "stop", "free", "exit"})
    BY <1>5, LcoreFrame DEF InPass
  <2>3. \A k \in Lcores : lpc'[k] \in {"manage", "probe_check", "probe"} => k = StatLcore
    <3> USE DEF TypeOK, TypeLoop, LcoreGoes
    <3>1. CASE Enter(l) \/ CheckRunning(l)
      BY <3>1 DEF Enter, CheckRunning, FirstInPass
    <3>2. CASE SlaveStep(l)
      BY <3>2 DEF SlaveStep, RxBurst, CheckTx, TxBurst, TxFails
    <3>3. CASE StatStep(l)
      BY <3>3 DEF StatStep, ManageReturns, ManageIdle, ManageProbe, ProbeStopped, LcoreAt,
                  ProbeBegins, ProbeNext, ProbeSent, ProbeRefused, ProbeAborts
    <3> QED
      BY <1>5, <3>1, <3>2, <3>3 DEF LcoreStep
  <2> QED
    BY <1>5, <2>1, <2>2, <2>3, LcoreFrame
<1>6. CASE UNCHANGED vars
  BY <1>6 DEF vars, mainVars, loopVars
<1> QED
  BY <1>1, <1>2, <1>3, <1>4, <1>5, <1>6 DEF Next

-----------------------------------------------------------------------------
(****************************************************************************)
(* Handlers that do not overlap are atomic as far as they can tell.         *)
(****************************************************************************)
LEMMA MainJobState ==
  ASSUME TypeOK, MainStep
  PROVE  /\ UNCHANGED <<sigRecved, hpc, hjob, hsig, past, handled>>
         /\ jobState' = IF StartJobs THEN Jobs ELSE jobState
BY DEF MainStep, MainAt, MainGoes, InitPorts, InitFails, StartTimers, StartJobs,
       Launch, WaitLcores, ClosePorts, StopTimers, Free, frameVars, pastVars

LEMMA FrameStep == IInv /\ [Next]_vars => FrameInv'
<1> SUFFICES ASSUME IInv, [Next]_vars, ~Overlapped'
             PROVE  /\ \A t, u \in Lcores : hpc'[t] # "none" /\ hpc'[u] # "none" => t = u
                    /\ \A t \in Lcores : hpc'[t] = "inc_store" => hsig'[t] = sigRecved'
                    /\ \A t \in Lcores : hpc'[t] = "clear_store" => hjob'[t] \subseteq jobState'
  BY DEF FrameInv
<1> USE DEF IInv, TypeOK, FrameInv, Overlapped
<1>1. CASE Press
  BY <1>1 DEF Press, frameVars, pastVars
<1>2. CASE MainStep
  <2>1. UNCHANGED <<sigRecved, hpc, hjob, hsig, past>> /\ jobState \subseteq jobState'
    BY <1>2, MainJobState DEF TypeShared
  <2> QED
    BY <2>1
<1>3. ASSUME NEW l \in Lcores, Deliver(l)
      PROVE  /\ \A t, u \in Lcores : hpc'[t] # "none" /\ hpc'[u] # "none" => t = u
             /\ \A t \in Lcores : hpc'[t] = "inc_store" => hsig'[t] = sigRecved'
             /\ \A t \in Lcores : hpc'[t] = "clear_store" => hjob'[t] \subseteq jobState'
  <2>1. \A u \in Lcores \ {l} : hpc[u] = "none"
    BY <1>3 DEF Deliver, Happens
  <2>2. hpc' = [hpc EXCEPT ![l] = "test"]
    BY <1>3 DEF Deliver
  <2> QED
    BY <2>1, <2>2 DEF TypeFrame
<1>4. ASSUME NEW l \in Lcores, HandlerStep(l)
      PROVE  /\ \A t, u \in Lcores : hpc'[t] # "none" /\ hpc'[u] # "none" => t = u
             /\ \A t \in Lcores : hpc'[t] = "inc_store" => hsig'[t] = sigRecved'
             /\ \A t \in Lcores : hpc'[t] = "clear_store" => hjob'[t] \subseteq jobState'
  <2> USE DEF TypeFrame
  <2>1. \A u \in Lcores \ {l} : hpc[u] = "none" /\ hpc'[u] = "none"
    BY <1>4, HandlerFrame
  <2>2. hpc'[l] = "inc_store" => hsig'[l] = sigRecved'
    BY <1>4 DEF HandlerStep, HandlerTest, HandlerBranch, HandlerClearLoad, HandlerClearStore,
                HandlerStop, HandlerIncLoad, HandlerIncStore
  <2>3. hpc'[l] = "clear_store" => hjob'[l] \subseteq jobState'
    BY <1>4 DEF HandlerStep, HandlerTest, HandlerBranch, HandlerClearLoad, HandlerClearStore,
                HandlerStop, HandlerIncLoad, HandlerIncStore
  <2> QED
    BY <2>1, <2>2, <2>3
<1>5. ASSUME NEW l \in Lcores, LcoreStep(l)
      PROVE  UNCHANGED <<sigRecved, jobState, hpc, hjob, hsig, past>>
  BY <1>5, LcoreFrame
<1>6. CASE UNCHANGED vars
  BY <1>6 DEF vars, frameVars, pastVars
<1> QED
  BY <1>1, <1>2, <1>3, <1>4, <1>5, <1>6 DEF Next

-----------------------------------------------------------------------------
(****************************************************************************)
(* Orderly signals are counted, and each has its effect.                    *)
(****************************************************************************)
LEMMA OrderlyStep == IInv /\ [Next]_vars => OrderlyInv'
<1> SUFFICES ASSUME IInv, [Next]_vars, Orderly' PROVE OrderlyInv'
  BY DEF OrderlyInv
<1> USE DEF IInv, Orderly
<1>1. CASE Press
  BY <1>1 DEF Press, OrderlyInv, Counting, Started, frameVars, pastVars, mainVars
<1>2. CASE MainStep
  <2>1. UNCHANGED <<sigRecved, hpc, hjob, hsig, past, handled>>
    BY <1>2, MainJobState
  <2>2. CASE StartJobs
    <3>1. ~Started /\ Started' /\ jobState' = Jobs
      BY <2>2 DEF StartJobs, MainAt, MainGoes, Started
    <3>2. handled = 0 /\ \A t \in Lcores : hpc[t] = "none"
      BY <2>1, <3>1 DEF OrderlyInv, TypeOK, TypeHistory, TypeFrame, Handler
    <3> QED
      BY <2>1, <3>1, <3>2 DEF OrderlyInv, Counting
  <2>3. CASE ~StartJobs
    <3>1. jobState' = jobState
      BY <1>2, <2>3, MainJobState
    <3>2. Started' <=> Started
      BY <1>2, <2>3 DEF MainStep, MainAt, MainGoes, InitPorts, InitFails, StartTimers, Launch,
                        WaitLcores, ClosePorts, StopTimers, Free, Started
    <3> QED
      BY <2>1, <3>1, <3>2 DEF OrderlyInv, Counting
  <2> QED
    BY <2>2, <2>3
<1>3. ASSUME NEW l \in Lcores, Deliver(l) PROVE OrderlyInv'
  <2>1. UNCHANGED <<main, jobState, sigRecved, hjob, handled>> /\ hpc' = [hpc EXCEPT ![l] = "test"]
    BY <1>3 DEF Deliver, mainVars
  <2>2. past = {} /\ Started
    BY <1>3 DEF Deliver, Happens
  <2>3. \A u \in Lcores : hpc[u] = "none"
    BY <1>3 DEF Deliver, Happens
  <2> QED
    BY <2>1, <2>2, <2>3 DEF OrderlyInv, Counting, Started, TypeOK, TypeFrame
<1>4. ASSUME NEW l \in Lcores, HandlerStep(l) PROVE OrderlyInv'
  <2> USE DEF TypeOK, TypeFrame, TypeHistory
  <2>1. UNCHANGED <<main, past>> /\ hpc[l] # "none" /\ past = {} /\ Started
    BY <1>4, HandlerFrame DEF OrderlyInv
  <2>2. \A u \in Lcores \ {l} : hpc[u] = "none" /\ hpc'[u] = "none"
    BY <1>4, <2>1, HandlerFrame DEF FrameInv, Overlapped
  <2>3. /\ Counting <=> hpc[l] \in {"inc_load", "inc_store"}
        /\ Counting' <=> hpc'[l] \in {"inc_load", "inc_store"}
    BY <2>2 DEF Counting
  <2>4. Started'
    BY <2>1 DEF Started
  <2>5. CASE HandlerTest(l)
    BY <2>1, <2>2, <2>3, <2>4, <2>5 DEF OrderlyInv, HandlerTest, HandlerBranch, pastVars
  <2>6. CASE HandlerClearLoad(l)
    BY <2>1, <2>2, <2>3, <2>4, <2>6 DEF OrderlyInv, HandlerClearLoad, pastVars
  <2>7. CASE HandlerClearStore(l)
    BY <2>1, <2>2, <2>3, <2>4, <2>7 DEF OrderlyInv, HandlerClearStore, pastVars, Jobs
  <2>8. CASE HandlerStop(l)
    BY <2>1, <2>2, <2>3, <2>4, <2>8 DEF OrderlyInv, HandlerStop, pastVars
  <2>9. CASE HandlerIncLoad(l)
    BY <2>1, <2>2, <2>3, <2>4, <2>9 DEF OrderlyInv, HandlerIncLoad, pastVars
  <2>10. CASE HandlerIncStore(l)
    BY <2>1, <2>2, <2>3, <2>4, <2>10, ConstantsAssumption
       DEF OrderlyInv, HandlerIncStore, NextSig, FrameInv, Overlapped
  <2> QED
    BY <1>4, <2>5, <2>6, <2>7, <2>8, <2>9, <2>10 DEF HandlerStep
<1>5. ASSUME NEW l \in Lcores, LcoreStep(l) PROVE OrderlyInv'
  BY <1>5, LcoreFrame DEF OrderlyInv, Counting, Started
<1>6. CASE UNCHANGED vars
  BY <1>6 DEF OrderlyInv, Counting, Started, vars, frameVars, pastVars, mainVars
<1> QED
  BY <1>1, <1>2, <1>3, <1>4, <1>5, <1>6 DEF Next

-----------------------------------------------------------------------------
(****************************************************************************)
(* What the loops of the lcores do about a job that was stopped.            *)
(****************************************************************************)
LEMMA OverlapStays == [Next]_vars /\ Overlapped => Overlapped'
<1> SUFFICES ASSUME [Next]_vars, Overlapped PROVE past \subseteq past'
  BY DEF Overlapped
<1>1. ASSUME NEW l \in Lcores, HandlerStep(l) \/ LcoreStep(l) PROVE past' = past
  BY <1>1, HandlerFrame, LcoreFrame
<1> QED
  BY <1>1 DEF Next, vars, pastVars, Press, MainStep, MainGoes, InitPorts, InitFails,
              StartTimers, StartJobs, Launch, WaitLcores, ClosePorts, StopTimers, Free, Deliver

LEMMA HandlerOnlyStops ==
  ASSUME IInv, ~Overlapped, NEW t \in Lcores, HandlerStep(t)
  PROVE  jobState' \subseteq jobState
BY DEF IInv, FrameInv, HandlerStep, HandlerTest, HandlerClearLoad, HandlerClearStore,
       HandlerStop, HandlerIncLoad, HandlerIncStore

LEMMA LateStep == IInv /\ [Next]_vars => LateInv'
<1> SUFFICES ASSUME IInv, [Next]_vars, ~Overlapped' PROVE LateInv'
  BY DEF LateInv
<1>0. ~Overlapped
  BY OverlapStays
<1> USE ConstantsAssumption DEF IInv, LateInv
<1>1. CASE Press
  BY <1>0, <1>1 DEF Press, loopVars
<1>2. CASE MainStep
  <2>1. CASE StartJobs \/ Launch
    <3>1. \A l \in Lcores : late[l] = 0 /\ late'[l] = 0 /\ lpc'[l] \in {"eal", "entry"}
      BY <2>1 DEF StartJobs, Launch, MainAt, MainGoes, PhaseInv, loopVars
    <3> QED
      BY <3>1
  <2>2. CASE ~(StartJobs \/ Launch)
    BY <1>0, <1>2, <2>2 DEF MainStep, MainGoes, InitPorts, InitFails, StartTimers, WaitLcores,
                            ClosePorts, StopTimers, Free, loopVars
  <2> QED
    BY <2>1, <2>2
<1>3. ASSUME NEW l \in Lcores, Deliver(l) PROVE LateInv'
  BY <1>0, <1>3 DEF Deliver, loopVars
<1>4. ASSUME NEW l \in Lcores, HandlerStep(l) PROVE LateInv'
  BY <1>0, <1>4, HandlerFrame, HandlerOnlyStops
<1>5. ASSUME NEW l \in Lcores, LcoreStep(l) PROVE LateInv'
  <2> USE DEF TypeOK, TypeLoop, TypeHistory, LcoreAt, LcoreGoes
  <2>1. CASE Enter(l) \/ CheckRunning(l)
    BY <1>0, <2>1 DEF Enter, CheckRunning, FirstInPass
  <2>2. CASE SlaveStep(l)
    <3>1. CASE RxBurst(l)
      BY <1>0, <3>1 DEF RxBurst
    <3>2. CASE CheckTx(l)
      BY <1>0, <3>2 DEF CheckTx
    <3>3. CASE TxBurst(l)
      BY <1>0, <3>3 DEF TxBurst, CountLate
    <3>4. CASE TxFails(l)
      BY <1>0, <3>4 DEF TxFails
    <3> QED
      BY <2>2, <3>1, <3>2, <3>3, <3>4 DEF SlaveStep
  <2>3. CASE StatStep(l)
    <3> USE DEF ManageReturns
    <3>1. CASE ManageIdle(l) \/ ManageProbe(l) \/ ProbeStopped(l)
      BY <1>0, <3>1 DEF ManageIdle, ManageProbe, ProbeStopped
    <3>2. CASE ProbeBegins(l)
      BY <1>0, <3>2 DEF ProbeBegins, PhaseInv
    <3>3. CASE ProbeSent(l)
      <4>1. l = StatLcore /\ \A k \in Lcores \ {l} : lpc[k] # "probe" /\ lpc'[k] # "probe"
        BY <3>3 DEF ProbeSent, ProbeNext, PhaseInv
      <4> QED
        BY <1>0, <3>3, <4>1 DEF ProbeSent, ProbeNext, CountLate
    <3>4. CASE ProbeRefused(l)
      <4>1. l = StatLcore /\ \A k \in Lcores \ {l} : lpc[k] # "probe" /\ lpc'[k] # "probe"
        BY <3>4 DEF ProbeRefused, ProbeNext, PhaseInv
      <4> QED
        BY <1>0, <3>4, <4>1 DEF ProbeRefused, ProbeNext
    <3>5. CASE ProbeAborts(l)
      <4>1. l = StatLcore /\ \A k \in Lcores \ {l} : lpc[k] # "probe" /\ lpc'[k] # "probe"
        BY <3>5 DEF ProbeAborts, PhaseInv
      <4> QED
        BY <1>0, <3>5, <4>1 DEF ProbeAborts
    <3> QED
      BY <2>3, <3>1, <3>2, <3>3, <3>4, <3>5 DEF StatStep
  <2> QED
    BY <1>5, <2>1, <2>2, <2>3 DEF LcoreStep
<1>6. CASE UNCHANGED vars
  BY <1>0, <1>6 DEF vars, loopVars
<1> QED
  BY <1>1, <1>2, <1>3, <1>4, <1>5, <1>6 DEF Next

LEMMA RxStep == IInv /\ [Next]_vars => RxLoopKeepsRunning'
<1> SUFFICES ASSUME IInv, [Next]_vars, ~Overlapped' PROVE RxLoopKeepsRunning'
  BY DEF RxLoopKeepsRunning
<1>0. ~Overlapped
  BY OverlapStays
<1> USE ConstantsAssumption DEF IInv, RxLoopKeepsRunning
<1>1. CASE Press
  BY <1>0, <1>1 DEF Press, loopVars
<1>2. CASE MainStep
  <2>1. CASE StartJobs \/ Launch
    <3>1. \A l \in Lcores : lpc'[l] \in {"eal", "entry"}
      BY <2>1 DEF StartJobs, Launch, MainAt, MainGoes, PhaseInv, loopVars
    <3> QED
      BY <3>1
  <2>2. CASE ~(StartJobs \/ Launch)
    BY <1>0, <1>2, <2>2 DEF MainStep, MainGoes, InitPorts, InitFails, StartTimers, WaitLcores,
                            ClosePorts, StopTimers, Free, loopVars
  <2> QED
    BY <2>1, <2>2
<1>3. ASSUME NEW l \in Lcores, Deliver(l) PROVE RxLoopKeepsRunning'
  BY <1>0, <1>3 DEF Deliver, loopVars
<1>4. ASSUME NEW l \in Lcores, HandlerStep(l) PROVE RxLoopKeepsRunning'
  BY <1>0, <1>4, HandlerFrame, HandlerOnlyStops
<1>5. ASSUME NEW l \in Lcores, LcoreStep(l) PROVE RxLoopKeepsRunning'
  <2>1. /\ \A k \in Lcores \ {l} : lpc'[k] = lpc[k]
        /\ jobState' = jobState
        /\ failed \subseteq failed'
    <3>1. failed \subseteq failed'
      BY <1>5 DEF LcoreStep, Enter, CheckRunning, SlaveStep, RxBurst, CheckTx, TxBurst, TxFails,
                  StatStep, ManageIdle, ManageProbe, ProbeStopped, ProbeBegins, ProbeSent,
                  ProbeRefused, ProbeAborts
    <3> QED
      BY <1>5, <3>1, LcoreFrame DEF TypeOK, TypeLoop
  <2>2. lpc'[l] = "done" /\ NbRx[l] > 0 => l \in failed' \/ "RX" \notin jobState'
    <3> SUFFICES ASSUME lpc'[l] = "done", NbRx[l] > 0
                 PROVE  l \in failed' \/ "RX" \notin jobState'
      OBVIOUS
    <3> USE DEF TypeOK, TypeLoop, LcoreGoes
    <3>1. "RX" \in JobFlags(l) /\ "RX" \in LoopFlags(l)
      BY DEF JobFlags, LoopFlags, Jobs
    <3>2. CASE Enter(l)
      BY <3>1, <3>2 DEF Enter
    <3>3. CASE CheckRunning(l)
      BY <2>1, <3>1, <3>3 DEF CheckRunning, FirstInPass, IsRunning
    <3>4. CASE SlaveStep(l)
      BY <3>4 DEF SlaveStep, RxBurst, CheckTx, TxBurst, TxFails
    <3>5. CASE StatStep(l)
      BY <3>5 DEF StatStep, ManageReturns, ManageIdle, ManageProbe, ProbeStopped,
                  ProbeBegins, ProbeNext, ProbeSent, ProbeRefused, ProbeAborts
    <3> QED
      BY <1>5, <3>2, <3>3, <3>4, <3>5 DEF LcoreStep
  <2> QED
    BY <1>0, <2>1, <2>2
<1>6. CASE UNCHANGED vars
  BY <1>0, <1>6 DEF vars, loopVars
<1> QED
  BY <1>1, <1>2, <1>3, <1>4, <1>5, <1>6 DEF Next

-----------------------------------------------------------------------------
(****************************************************************************)
(* The theorems.                                                            *)
(****************************************************************************)
LEMMA Inductive == Spec => []IInv
<1>1. IInv /\ [Next]_vars => IInv'
  BY TypeStep, PhaseStep, FrameStep, OrderlyStep, LateStep, RxStep DEF IInv
<1> QED
  BY InitIInv, <1>1, PTL DEF Spec

\* The first orderly Ctrl-C stops TX and only TX, the second everything.
THEOREM StopsGracefully == Spec => []GracefulStop
<1>1. IInv => GracefulStop
  <2>1. IInv /\ (\A t \in Lcores : hpc[t] = "none") => ~Counting
    BY DEF Counting
  <2> QED
    BY <2>1 DEF IInv, GracefulStop, OrderlyInv
<1> QED
  BY Inductive, <1>1, PTL

\* After TX was stopped, an lcore sends at most one burst per TX port.
THEOREM BoundedOverrun == Spec => []TxOverrunBounded
<1>1. IInv => TxOverrunBounded
  BY DEF IInv, LateInv, TxOverrunBounded
<1> QED
  BY Inductive, <1>1, PTL

\* A receiving lcore leaves its loop only when RX is stopped or it failed to send.
THEOREM KeepsReceiving == Spec => []RxLoopKeepsRunning
<1>1. IInv => RxLoopKeepsRunning
  BY DEF IInv
<1> QED
  BY Inductive, <1>1, PTL

\* No loop runs before the ports are started or after they are closed.
THEOREM RunsOnOpenPorts == Spec => []LoopsOnOpenPorts
<1>1. IInv => LoopsOnOpenPorts
  <2> SUFFICES ASSUME IInv, NEW l \in Lcores, lpc[l] \notin {"eal", "done"}
               PROVE  ports = "started" /\ timers = {"stat", "probe"} /\ lists = "allocated"
    BY DEF LoopsOnOpenPorts
  <2>1. main = "loop"
    BY DEF IInv, PhaseInv, AllDone, TypeOK, TypeMain, Mains
  <2> QED
    BY <2>1 DEF IInv, PhaseInv, TypeOK, TypeMain
<1> QED
  BY Inductive, <1>1, PTL

\* A stopped job is never started again, unless two handlers overlap.
THEOREM NeverRestarts == Spec => JobsOnlyStop
<1>1. IInv /\ [Next]_vars => [~Overlapped' /\ ~StartJobs => jobState' \subseteq jobState]_vars
  <2> SUFFICES ASSUME IInv, [Next]_vars, ~Overlapped', ~StartJobs
               PROVE  jobState' \subseteq jobState
    OBVIOUS
  <2>1. ~Overlapped
    BY OverlapStays
  <2>2. CASE MainStep
    BY <2>2, MainJobState DEF IInv
  <2>3. ASSUME NEW l \in Lcores, HandlerStep(l) PROVE jobState' \subseteq jobState
    BY <2>1, <2>3, HandlerOnlyStops
  <2>4. ASSUME NEW l \in Lcores, LcoreStep(l) PROVE jobState' \subseteq jobState
    BY <2>4, LcoreFrame
  <2> QED
    BY <2>2, <2>3, <2>4 DEF Next, Press, Deliver, vars
<1> QED
  BY Inductive, <1>1, PTL DEF Spec, JobsOnlyStop
=============================================================================
