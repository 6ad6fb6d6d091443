----------------------------- MODULE StartupProofs -----------------------------
(****************************************************************************)
(* The properties of Startup, LcoreMapping and Port, for any ports, lcores, *)
(* masks and entries, and any sizes of the two arrays.                      *)
(****************************************************************************)
EXTENDS TLAPS, FiniteSetTheorems, SequenceTheorems, Startup

Before    == {"args", "config"}                      \* no port is enabled yet
Unmapped  == {"args", "config", "check", "measure"}  \* no lcore has a job yet
PortsInit == {"stat_init", "probe_init", "port_start", "timers", "run"}
Running   == {"timers", "run", "close"}
LcoreIds  == {e.lcore : e \in Entries} \cup {StatLcore}
EntryType == [port : Nat, job : Jobs, lcore : LcoreIds]

-----------------------------------------------------------------------------
(* The ports *)

\* Where the loops of port_init and port_start begin.
LoopInv ==
  /\ main \in Unmapped \cup {"map", "stat_init", "probe_init"} => at = 0
  /\ main \in Unmapped \cup {"map"} => step = "dev"
  /\ main = "port_init" /\ at \notin enabled => step = "dev"

\* Exactly the enabled ports that port_start has passed are started, until port_close,
\* which closes them.
StartedInv ==
  /\ \A p \in Ports : device[p] = "started" <=>
       p \in enabled /\ (main \in Running \/ (main = "port_start" /\ p < at))
  /\ main \in {"stop", "free", "exit"} => \A p \in enabled : device[p] = "closed"

\* A queue has the pool that its descriptors point into.
BackedInv ==
  main \notin {"fail", "exit", "aborted"} =>
    \A p \in Ports : /\ p \in rxQueue => p \in rxPool
                     /\ <<p, "TXQ_TX">> \in txQueue => p \in txPool

\* What an lcore will use of a port is set up.
RxReady(p) == lcoreMap[p]["RX"] # NoLcore => p \in rxQueue
TxReady(p) == lcoreMap[p]["TX"] # NoLcore => \A q \in TxQueues : <<p, q>> \in txQueue

ReadyInv ==
  \A p \in enabled :
    /\ main \in PortsInit \/ (main = "port_init" /\ p < at) => RxReady(p) /\ TxReady(p)
    /\ main = "port_init" /\ p = at /\ step = "TX" => RxReady(p)

\* What there is to free.
HeldInv ==
  /\ main \in Before \cup {"refused"} => enabled = {} /\ ~portList /\ lists = {}
  /\ main \in {"exit", "aborted"} => ~portList /\ lists = {} /\ rxPool = {} /\ txPool = {}
  /\ timers # {} => main \in {"run", "close", "stop"}

-----------------------------------------------------------------------------
(* The mapping *)

\* Where the loops over the array are.
IndexInv ==
  /\ main \in Before => i = 0 /\ realCnt = 0 /\ params = config
  /\ main = "check" => realCnt <= i /\ i <= Len(params) /\ Len(params) = Len(config)
  /\ main \in {"measure", "map"} => realCnt = Len(params)
  /\ main = "measure" => i <= NbPorts
  /\ main = "map" => i <= Len(params)
  /\ Len(params) <= MaxParams

\* The entries kept so far are valid, no two are of one queue, and each valid entry
\* that was read has its queue among them.
KeptInv ==
  main = "check" =>
    /\ \A n \in 1 .. realCnt : Valid(params[n])
    /\ \A m, n \in 1 .. realCnt : SameQueue(params[m], params[n]) => m = n
    /\ \A h \in 1 .. i : Valid(config[h]) => IsDup(config[h])

\* Those that went into the array are valid or the measurement lcore's, for which
\* there is a place as long as its loop runs.
EntriesInv ==
  main \in {"measure", "map"} =>
    /\ \A n \in 1 .. Len(params) :
         \/ Valid(params[n])
         \/ /\ params[n].port \in enabled /\ params[n].job = "TX"
            /\ params[n].lcore = StatLcore
    /\ \A m, n \in 1 .. Len(params) :
         Valid(params[m]) /\ Valid(params[n]) /\ SameQueue(params[m], params[n]) => m = n

MeasureInv ==
  /\ main = "measure" /\ i \in Ports => Len(params) < MaxParams
  /\ main = "map" \/ (main = "measure" /\ \E p \in enabled : p < i) =>
       \E n \in 1 .. Len(params) : params[n].lcore = StatLcore
  /\ main \in {"check", "measure"} => enabled # {}

\* What the lcores and the ports know, and what they have yet to be told.
JobsInv ==
  /\ main \in Unmapped => \A l \in Lcores, j \in Jobs : jobs[l][j] = << >>
  /\ main \in Unmapped => \A p \in enabled, j \in Jobs : lcoreMap[p][j] = NoLcore
  /\ \A l \in Lcores, j \in Jobs : Len(jobs[l][j]) <= MaxPortPerJob
  /\ jobs[StatLcore]["RX"] = << >>
  /\ main = "map" => \A n \in 1 .. Len(params) :
       /\ n > i /\ Valid(params[n]) => lcoreMap[params[n].port][params[n].job] = NoLcore
       /\ n <= i /\ params[n].lcore = StatLcore => jobs[StatLcore]["TX"] # << >>
  /\ main \in {"port_init"} \cup PortsInit => jobs[StatLcore]["TX"] # << >>

PortInv == LoopInv /\ StartedInv /\ BackedInv /\ ReadyInv /\ HeldInv

MappingInv ==
  IndexInv /\ KeptInv /\ FirstWins /\ EntriesInv /\ MeasureInv /\ JobsInv /\ QueueOwnership

IInv == TypeOK /\ PortInv /\ MappingInv
-----------------------------------------------------------------------------
(* A step that does not concern the mapping, or not the ports *)

\* As long as the loops over the array run, main does not go on.
LEMMA MappingUntouched ==
  ASSUME MappingInv, UNCHANGED <<mappingVars, enabled, lcoreMap>>,
         main' = main \/ main' \notin Unmapped \cup {"map"},
         main' \in {"port_init"} \cup PortsInit => main \in {"port_init"} \cup PortsInit
  PROVE  MappingInv'
<1>1. /\ configured' = configured /\ params' = params /\ i' = i /\ realCnt' = realCnt
      /\ jobs' = jobs /\ config' = config /\ enabled' = enabled /\ lcoreMap' = lcoreMap
  BY DEF mappingVars
<1>2. main' \in Unmapped \cup {"map"} => main' = main
  OBVIOUS
<1> USE <1>1, <1>2 DEF Unmapped, Before
<1>3. ASSUME NEW e PROVE /\ Valid(e)' <=> Valid(e)
                         /\ IsDup(e)' <=> IsDup(e)
  BY DEF Valid, IsDup
<1>4. FirstEntries(i)' = FirstEntries(i)
  BY DEF FirstEntries, Valid
<1>5. IndexInv' /\ MeasureInv'
  BY DEF MappingInv, IndexInv, MeasureInv
<1>6. KeptInv'
  BY <1>3 DEF MappingInv, KeptInv
<1>7. FirstWins'
  BY <1>4 DEF MappingInv, FirstWins
<1>8. EntriesInv'
  BY <1>3 DEF MappingInv, EntriesInv
<1>9. JobsInv'
  BY <1>3 DEF MappingInv, JobsInv
<1>10. QueueOwnership'
  BY DEF MappingInv, QueueOwnership
<1> QED
  BY <1>5, <1>6, <1>7, <1>8, <1>9, <1>10 DEF MappingInv

LEMMA TypeMappingUntouched ==
  ASSUME TypeMapping, UNCHANGED <<mappingVars, enabled>> PROVE TypeMapping'
BY DEF TypeMapping, mappingVars

\* While nothing is started and no loop over the ports runs.
LEMMA PortUntouched ==
  ASSUME TypeOK, PortInv, UNCHANGED <<portVars, lists, timers>>,
         main \in Unmapped, main' \in Unmapped \cup {"map", "crashed"},
         main' \in Before => main \in Before
  PROVE  PortInv'
<1> USE DEF Unmapped, Before, portVars, poolVars, queueVars, PortInv
<1>1. LoopInv' /\ StartedInv'
  BY DEF LoopInv, StartedInv, Running
<1>2. BackedInv' /\ ReadyInv' /\ HeldInv'
  BY DEF BackedInv, ReadyInv, RxReady, TxReady, HeldInv, PortsInit
<1> QED
  BY <1>1, <1>2

LEMMA InitIInv == Init => IInv
<1> SUFFICES ASSUME Init PROVE IInv
  OBVIOUS
<1> USE DEF Init, PortInit, MappingInit
<1>1. lcoreMap \in [enabled -> [Jobs -> Slaves \cup {NoLcore}]]
  OBVIOUS
<1>2. TypePort
  <2>1. device \in [Ports -> Devices] /\ at \in 0 .. NbPorts
    BY PortAssumption DEF Devices
  <2> QED
    BY <1>1, <2>1 DEF TypePort
<1>3. TypeMapping
  <2>1. jobs \in [Lcores -> [Jobs -> Seq(enabled)]]
    OBVIOUS
  <2>2. params \in Seq([port : Nat, job : Jobs, lcore : LcoreIds]) /\ config \in Seq(Entries)
    OBVIOUS
  <2>3. realCnt \in 0 .. MaxParams
    BY MappingAssumption
  <2> QED
    BY <2>1, <2>2, <2>3 DEF TypeMapping, LcoreIds
<1>4. TypeOK
  BY <1>2, <1>3 DEF TypeOK, Mains
<1>5. PortInv
  BY DEF PortInv, LoopInv, StartedInv, BackedInv, ReadyInv, HeldInv, Ports, Before, Unmapped,
         PortsInit, Running
<1>6. MappingInv
  <2>1. \A l \in Lcores, j \in Jobs : jobs[l][j] = << >> /\ Len(jobs[l][j]) = 0
    OBVIOUS
  <2>2. JobsInv
    BY <2>1, MappingAssumption DEF JobsInv, Unmapped, Jobs, PortsInit
  <2>3. QueueOwnership
    BY <2>1 DEF QueueOwnership, Slaves
  <2>4. IndexInv
    BY MappingAssumption DEF IndexInv
  <2> QED
    BY <2>2, <2>3, <2>4 DEF MappingInv, KeptInv, FirstWins, EntriesInv, MeasureInv
<1> QED
  BY <1>4, <1>5, <1>6 DEF IInv

-----------------------------------------------------------------------------
(* main() itself, stat.c and probe.c *)

\* The steps that change neither the mapping nor a port.
Quiet ==
  \/ RefuseArgs \/ CopyPrefix \/ WriteNull \/ InitStat \/ InitProbe
  \/ StartTimers \/ Run \/ StopTimers \/ UNCHANGED vars

LEMMA QuietStep == IInv /\ Quiet => IInv'
<1> SUFFICES ASSUME IInv, Quiet PROVE IInv'
  OBVIOUS
<1> USE DEF MainGoes
<1>1. UNCHANGED <<mappingVars, portVars>>
  BY DEF Quiet, RefuseArgs, CopyPrefix, WriteNull, InitStat, InitProbe, StartTimers, Run,
         StopTimers, vars
<1>2. /\ main' \in Mains /\ lists' \in SUBSET Lists /\ timers' \in SUBSET {"stat", "probe"}
      /\ main' = main \/ main' \notin Unmapped \cup {"map"}
      /\ main' \in {"port_init"} \cup PortsInit => main \in {"port_init"} \cup PortsInit
  BY DEF Quiet, RefuseArgs, CopyPrefix, WriteNull, InitStat, InitProbe, StartTimers, Run,
         StopTimers, vars, IInv, TypeOK, Mains, Lists, Unmapped, Before, PortsInit
<1>3. TypeOK'
  BY <1>1, <1>2, TypeMappingUntouched DEF IInv, TypeOK, TypePort, portVars, poolVars, queueVars
<1>4. MappingInv'
  BY <1>1, <1>2, MappingUntouched DEF IInv, portVars
<1>5. PortInv'
  <2> USE <1>1 DEF portVars, poolVars, queueVars, IInv, PortInv, Unmapped, Before
  <2>1. LoopInv'
    BY DEF LoopInv, Quiet, RefuseArgs, CopyPrefix, WriteNull, InitStat, InitProbe, StartTimers,
           Run, StopTimers, vars
  <2>2. StartedInv'
    <3>1. CASE main' = main
      BY <3>1 DEF StartedInv
    <3>2. CASE RefuseArgs \/ CopyPrefix \/ WriteNull \/ InitStat
      BY <3>2 DEF StartedInv, Running, RefuseArgs, CopyPrefix, WriteNull, InitStat
    <3>3. CASE InitProbe
      BY <3>3 DEF StartedInv, Running, InitProbe, LoopInv, Ports
    <3>4. CASE StartTimers \/ Run \/ StopTimers
      BY <3>4 DEF StartedInv, Running, StartTimers, Run, StopTimers
    <3> QED
      BY <3>1, <3>2, <3>3, <3>4 DEF Quiet, vars
  <2>3. BackedInv' /\ ReadyInv'
    BY DEF BackedInv, ReadyInv, RxReady, TxReady, PortsInit, Quiet, RefuseArgs, CopyPrefix,
           WriteNull, InitStat, InitProbe, StartTimers, Run, StopTimers, vars
  <2>4. HeldInv'
    BY DEF HeldInv, Quiet, RefuseArgs, CopyPrefix, WriteNull, InitStat, InitProbe,
           StartTimers, Run, StopTimers, vars
  <2> QED
    BY <2>1, <2>2, <2>3, <2>4
<1> QED
  BY <1>3, <1>4, <1>5 DEF IInv

-----------------------------------------------------------------------------
(* __parse_args *)

\* Its steps but for port_parse_opt change main() and the array only.
LEMMA ReadConfigStep == IInv /\ ReadConfig => IInv'
<1> SUFFICES ASSUME IInv, ReadConfig PROVE IInv'
  OBVIOUS
<1> USE DEF MainGoes, MainStays, Before, Unmapped
<1>1. /\ main \in Before /\ main' \in Before
      /\ UNCHANGED <<lists, timers, portVars, i, realCnt, jobs>>
  BY DEF ReadConfig, ConfigBegins, ConfigEnds, ParseEntry
<1>2. /\ i = 0 /\ realCnt = 0 /\ params = config
      /\ params \in Seq(Entries) /\ params \in Seq(EntryType) /\ Len(params) <= MaxParams
  BY <1>1 DEF IInv, TypeOK, TypeMapping, MappingInv, IndexInv, EntryType, LcoreIds
<1>3. /\ params' = config' /\ configured' \in BOOLEAN
      /\ params' \in Seq(Entries) /\ params' \in Seq(EntryType) /\ Len(params') <= MaxParams
  <2>1. CASE ConfigBegins
    BY <1>2, <2>1, MappingAssumption DEF ConfigBegins, IInv, TypeOK, TypeMapping
  <2>2. CASE ConfigEnds
    BY <1>2, <2>2 DEF ConfigEnds
  <2>3. CASE \E e \in Entries : ParseEntry(e)
    <3> PICK e \in Entries : ParseEntry(e)
      BY <2>3
    <3>1. e \in EntryType
      BY MappingAssumption DEF EntryType, LcoreIds
    <3>2. Len(params) < MaxParams /\ Len(params') = Len(params) + 1
      BY <1>2 DEF ParseEntry
    <3> QED
      BY <1>2, <3>1, <3>2, MappingAssumption DEF ParseEntry, IInv, TypeOK, TypeMapping
  <2> QED
    BY <2>1, <2>2, <2>3 DEF ReadConfig
<1>4. TypeOK'
  BY <1>1, <1>3 DEF IInv, TypeOK, TypePort, TypeMapping, EntryType, LcoreIds, portVars,
                    poolVars, queueVars, Mains
<1>5. PortInv'
  BY <1>1, PortUntouched DEF IInv
<1>6. MappingInv'
  <2>1. /\ enabled' = enabled /\ lcoreMap' = lcoreMap /\ jobs' = jobs
    BY <1>1 DEF portVars
  <2>2. IndexInv'
    BY <1>1, <1>2, <1>3 DEF IndexInv
  <2>3. JobsInv'
    BY <1>1, <2>1 DEF IInv, MappingInv, JobsInv, PortsInit
  <2>4. QueueOwnership'
    BY <2>1 DEF IInv, MappingInv, QueueOwnership
  <2> QED
    BY <1>1, <2>2, <2>3, <2>4 DEF MappingInv, KeptInv, FirstWins, EntriesInv, MeasureInv
<1> QED
  BY <1>4, <1>5, <1>6 DEF IInv

LEMMA ParsePortsStep == IInv /\ ParsePorts => IInv'
<1> SUFFICES ASSUME IInv, ParsePorts PROVE IInv'
  OBVIOUS
<1>1. PICK mask \in Masks : ParseOpt(mask)
  BY DEF ParsePorts
<1>2. /\ main = "args" /\ main' = IF enabled' = {} THEN "refused" ELSE "check"
      /\ enabled' \in SUBSET Ports /\ portList' = (enabled' # {})
      /\ lcoreMap' = [p \in enabled' |-> [j \in Jobs |-> NoLcore]]
      /\ UNCHANGED <<lists, timers, mappingVars, poolVars, queueVars, device, at, step>>
  BY <1>1 DEF ParsePorts, ParseOpt
<1>3. /\ enabled = {} /\ rxPool = {} /\ txPool = {} /\ rxQueue = {} /\ txQueue = {}
      /\ i = 0 /\ realCnt = 0 /\ params = config /\ params \in Seq(Entries)
      /\ \A l \in Lcores, j \in Jobs : jobs[l][j] = << >>
      /\ at = 0 /\ step = "dev" /\ lists = {} /\ timers = {}
      /\ \A p \in Ports : device[p] # "started"
  BY <1>2 DEF IInv, TypeOK, TypePort, TypeMapping, PortInv, LoopInv, StartedInv, HeldInv,
              MappingInv, IndexInv, JobsInv, Unmapped, Before
<1>4. TypeOK'
  <2>1. TypePort'
    BY <1>2, <1>3 DEF IInv, TypeOK, TypePort, poolVars, queueVars
  <2>2. jobs' \in [Lcores -> [Jobs -> Seq(enabled')]]
    BY <1>2, <1>3 DEF IInv, TypeOK, TypeMapping, mappingVars
  <2>3. TypeMapping'
    BY <1>2, <2>2 DEF IInv, TypeOK, TypeMapping, mappingVars
  <2> QED
    BY <1>2, <2>1, <2>3 DEF IInv, TypeOK, Mains
<1>5. PortInv'
  <2> USE <1>2, <1>3 DEF PortInv, Before, Unmapped, poolVars, queueVars
  <2>1. LoopInv' /\ StartedInv'
    BY DEF LoopInv, StartedInv, Running
  <2>2. BackedInv' /\ ReadyInv' /\ HeldInv'
    BY DEF BackedInv, ReadyInv, HeldInv, PortsInit
  <2> QED
    BY <2>1, <2>2
<1>6. MappingInv'
  <2>1. /\ i' = 0 /\ realCnt' = 0 /\ params' = config' /\ jobs' = jobs /\ params' = params
        /\ main' \in {"check", "refused"}
    BY <1>2, <1>3 DEF mappingVars
  <2>2. IndexInv'
    BY <1>3, <2>1 DEF IndexInv, IInv, MappingInv, Before
  <2>3. JobsInv'
    BY <1>2, <1>3, <2>1, MappingAssumption DEF JobsInv, PortsInit, Unmapped, Jobs
  <2>4. QueueOwnership'
    <3>1. \A l \in Slaves, j \in Jobs : Len(jobs'[l][j]) = 0 /\ l # NoLcore
      BY <1>3, <2>1, MappingAssumption DEF Slaves
    <3> QED
      BY <1>2, <3>1 DEF QueueOwnership
  <2>5. FirstWins' /\ KeptInv'
    BY <1>3, <2>1 DEF FirstWins, FirstEntries, KeptInv
  <2> QED
    BY <1>2, <2>1, <2>2, <2>3, <2>4, <2>5 DEF MappingInv, EntriesInv, MeasureInv
<1> QED
  BY <1>4, <1>5, <1>6 DEF IInv

-----------------------------------------------------------------------------
(* __check_mapping *)

\* Its steps change the array only, and PortInv says nothing of it.
LEMMA CheckUntouched ==
  ASSUME IInv, UNCHANGED <<configured, jobs, config, lists, timers, portVars>>,
         main \in {"check", "measure"}, main' \in {"check", "measure", "map"}
  PROVE  PortInv' /\ QueueOwnership'
<1>1. PortInv'
  BY PortUntouched DEF IInv, Unmapped, Before
<1>2. QueueOwnership'
  BY DEF IInv, MappingInv, QueueOwnership, portVars
<1> QED
  BY <1>1, <1>2

\* Of TypeOK, what such a step has to show.
LEMMA CheckTypes ==
  ASSUME IInv, UNCHANGED <<configured, jobs, config, lists, timers, portVars>>,
         main' \in Mains, params' \in Seq(EntryType), i' \in Nat, realCnt' \in 0 .. MaxParams
  PROVE  TypeOK'
BY DEF IInv, TypeOK, TypePort, TypeMapping, EntryType, LcoreIds, portVars, poolVars, queueVars

\* And of JobsInv, which holds as long as nothing is mapped.
LEMMA CheckJobs ==
  ASSUME IInv, UNCHANGED <<jobs, portVars>>, main \in Unmapped, main' \in Unmapped
  PROVE  JobsInv'
BY DEF IInv, MappingInv, JobsInv, portVars, Unmapped, Before, PortsInit

\* The array while it is being compacted.
LEMMA CheckFacts ==
  ASSUME IInv, main = "check", i < Len(params)
  PROVE  /\ realCnt \in Nat /\ i \in Nat /\ Len(params) \in Nat /\ realCnt <= i
         /\ Len(params) = Len(config) /\ Len(params) <= MaxParams
         /\ params \in Seq(EntryType) /\ params[i + 1] = config[i + 1]
         /\ params[i + 1] \in EntryType
<1>1. /\ realCnt \in Nat /\ i \in Nat /\ Len(params) \in Nat /\ realCnt <= i
      /\ Len(params) = Len(config) /\ Len(params) <= MaxParams /\ params \in Seq(EntryType)
  BY MappingAssumption
     DEF IInv, TypeOK, TypeMapping, MappingInv, IndexInv, EntryType, LcoreIds
<1>2. i + 1 \in i + 1 .. Len(params) /\ i + 1 \in 1 .. Len(params)
  BY <1>1
<1>3. params[i + 1] = config[i + 1]
  BY <1>2 DEF IInv, MappingInv, FirstWins
<1>4. params[i + 1] \in EntryType
  BY <1>1, <1>2, ElementOfSeq
<1> QED
  BY <1>1, <1>3, <1>4

\* Whether an entry is the first of its queue can be told from those kept.
LEMMA FirstIsNew ==
  ASSUME IInv, main = "check", i < Len(params)
  PROVE  FirstEntries(i + 1) =
           FirstEntries(i) \cup
             (IF Valid(config[i + 1]) /\ ~IsDup(config[i + 1]) THEN {config[i + 1]} ELSE {})
<1> DEFINE First(k) == Valid(config[k]) /\
             \A h \in 1 .. k - 1 : Valid(config[h]) => ~SameQueue(config[h], config[k])
<1>1. i \in Nat /\ realCnt \in Nat
  BY CheckFacts
<1>2. \A n : FirstEntries(n) = {config[k] : k \in {k \in 1 .. n : First(k)}}
  BY DEF FirstEntries
<1>3. First(i + 1) => ~IsDup(config[i + 1])
  <2> SUFFICES ASSUME First(i + 1), NEW k \in 1 .. realCnt, SameQueue(params[k], config[i + 1])
               PROVE  FALSE
    BY DEF IsDup
  <2>1. params[k] \in FirstEntries(i)
    BY DEF IInv, MappingInv, FirstWins
  <2>2. PICK h \in 1 .. i : First(h) /\ params[k] = config[h]
    BY <2>1, <1>2
  <2>3. h \in 1 .. (i + 1) - 1
    BY <1>1
  <2> QED
    BY <2>2, <2>3
<1>4. Valid(config[i + 1]) /\ ~IsDup(config[i + 1]) => First(i + 1)
  <2> SUFFICES ASSUME Valid(config[i + 1]), NEW h \in 1 .. i, Valid(config[h]),
                      SameQueue(config[h], config[i + 1])
               PROVE  IsDup(config[i + 1])
    BY <1>1
  <2>1. PICK k \in 1 .. realCnt : SameQueue(params[k], config[h])
    BY DEF IInv, MappingInv, KeptInv, IsDup
  <2> QED
    BY <2>1 DEF IsDup, SameQueue
<1>5. 1 .. i + 1 = (1 .. i) \cup {i + 1}
  BY <1>1
<1>6. First(i + 1) => Valid(config[i + 1])
  OBVIOUS
<1> HIDE DEF First
<1>7. FirstEntries(i + 1) = FirstEntries(i) \cup (IF First(i + 1) THEN {config[i + 1]} ELSE {})
  BY <1>2, <1>5
<1> QED
  BY <1>3, <1>4, <1>6, <1>7

LEMMA DropEntryStep == IInv /\ CheckMapping /\ DropEntry /\ MainStays("check") => IInv'
<1> SUFFICES ASSUME IInv, CheckMapping, DropEntry, MainStays("check") PROVE IInv'
  OBVIOUS
<1>1. /\ main = "check" /\ main' = "check" /\ i < Len(params) /\ i' = i + 1
      /\ UNCHANGED <<configured, params, realCnt, jobs, config, lists, timers, portVars>>
      /\ ~Valid(params[i + 1]) \/ IsDup(params[i + 1])
  BY DEF CheckMapping, DropEntry, MainStays, MainGoes
<1>2. /\ realCnt \in Nat /\ i \in Nat /\ Len(params) \in Nat /\ realCnt <= i
      /\ Len(params) = Len(config) /\ Len(params) <= MaxParams
      /\ params \in Seq(EntryType) /\ params[i + 1] = config[i + 1]
  BY <1>1, CheckFacts
<1>3. /\ realCnt' = realCnt /\ params' = params /\ config' = config /\ enabled' = enabled
      /\ \A e : (Valid(e)' <=> Valid(e)) /\ (IsDup(e)' <=> IsDup(e))
  BY <1>1 DEF portVars, Valid, IsDup
<1>4. TypeOK'
  BY <1>1, <1>2, CheckTypes DEF Mains, IInv, TypeOK, TypeMapping
<1>5. PortInv' /\ QueueOwnership' /\ JobsInv'
  BY <1>1, CheckUntouched, CheckJobs DEF Unmapped, Before
<1>6. IndexInv'
  BY <1>1, <1>2 DEF IndexInv, Before
<1>7. KeptInv'
  <2>1. \A h \in 1 .. i + 1 : Valid(config[h]) => IsDup(config[h])
    BY <1>1, <1>2 DEF IInv, MappingInv, KeptInv
  <2> QED
    BY <1>1, <1>3, <2>1 DEF IInv, MappingInv, KeptInv
<1>8. FirstWins'
  <2>1. FirstEntries(i + 1) = FirstEntries(i)
    BY <1>1, <1>2, FirstIsNew
  <2>2. FirstEntries(i)' = FirstEntries(i + 1)
    BY <1>1, <1>3 DEF FirstEntries
  <2>3. \A n \in i' + 1 .. Len(params) : n \in i + 1 .. Len(params)
    BY <1>1, <1>2
  <2> QED
    BY <1>1, <1>3, <2>1, <2>2, <2>3 DEF IInv, MappingInv, FirstWins
<1>9. EntriesInv' /\ MeasureInv'
  BY <1>1, <1>3 DEF IInv, MappingInv, EntriesInv, MeasureInv
<1> QED
  BY <1>4, <1>5, <1>6, <1>7, <1>8, <1>9 DEF IInv, MappingInv

LEMMA KeepEntryStep == IInv /\ CheckMapping /\ KeepEntry /\ MainStays("check") => IInv'
<1> SUFFICES ASSUME IInv, CheckMapping, KeepEntry, MainStays("check") PROVE IInv'
  OBVIOUS
<1> DEFINE e == params[i + 1]
<1>1. /\ main = "check" /\ main' = "check" /\ i < Len(params) /\ i' = i + 1
      /\ realCnt' = realCnt + 1 /\ params' = [params EXCEPT ![realCnt + 1] = e]
      /\ UNCHANGED <<configured, jobs, config, lists, timers, portVars>>
      /\ Valid(e) /\ ~IsDup(e)
  BY DEF CheckMapping, KeepEntry, MainStays, MainGoes
<1>2. /\ realCnt \in Nat /\ i \in Nat /\ Len(params) \in Nat /\ realCnt <= i
      /\ Len(params) = Len(config) /\ Len(params) <= MaxParams
      /\ params \in Seq(EntryType) /\ e = config[i + 1] /\ e \in EntryType
  BY <1>1, CheckFacts
<1>3. /\ Len(params') = Len(params) /\ params' \in Seq(EntryType)
      /\ params'[realCnt + 1] = e
      /\ \A n \in 1 .. Len(params) : n # realCnt + 1 => params'[n] = params[n]
  BY <1>1, <1>2
<1> HIDE DEF e
<1>4. /\ config' = config /\ enabled' = enabled
      /\ \A d : Valid(d)' <=> Valid(d)
  BY <1>1 DEF portVars, Valid
<1>5. /\ \A n \in 1 .. realCnt : params'[n] = params[n]
      /\ 1 .. realCnt' = (1 .. realCnt) \cup {realCnt + 1}
  BY <1>1, <1>2, <1>3
<1>6. \A d : IsDup(d)' <=> IsDup(d) \/ SameQueue(e, d)
  BY <1>3, <1>5 DEF IsDup
<1>7. TypeOK'
  <2>1. i' \in Nat /\ realCnt' \in 0 .. MaxParams
    BY <1>1, <1>2, MappingAssumption
  <2> QED
    BY <1>1, <1>3, <2>1, CheckTypes DEF Mains
<1>8. PortInv' /\ QueueOwnership' /\ JobsInv'
  BY <1>1, CheckUntouched, CheckJobs DEF Unmapped, Before
<1>9. IndexInv'
  BY <1>1, <1>2, <1>3 DEF IndexInv, Before
<1>10. KeptInv'
  <2>1. \A n \in 1 .. realCnt' : Valid(params'[n])
    BY <1>1, <1>3, <1>5 DEF IInv, MappingInv, KeptInv
  <2>2. \A n \in 1 .. realCnt : ~SameQueue(params[n], e) /\ ~SameQueue(e, params[n])
    BY <1>1 DEF IsDup, SameQueue
  <2>3. \A m, n \in 1 .. realCnt' : SameQueue(params'[m], params'[n]) => m = n
    BY <1>1, <1>3, <1>5, <2>2 DEF IInv, MappingInv, KeptInv
  <2>4. SameQueue(e, e)
    BY DEF SameQueue
  <2>5. \A h \in 1 .. i + 1 : h \in 1 .. i \/ h = i + 1
    BY <1>2
  <2>6. \A h \in 1 .. i + 1 : Valid(config[h]) => IsDup(config[h]) \/ SameQueue(e, config[h])
    BY <1>1, <1>2, <2>4, <2>5 DEF IInv, MappingInv, KeptInv
  <2>7. /\ (\A n \in 1 .. realCnt : Valid(params[n]))'
        /\ (\A h \in 1 .. i : Valid(config[h]) => IsDup(config[h]))'
    BY <1>1, <1>4, <1>6, <2>1, <2>6
  <2> QED
    BY <2>3, <2>7 DEF KeptInv, SameQueue
<1>11. FirstWins'
  <2>1. FirstEntries(i + 1) = FirstEntries(i) \cup {e}
    BY <1>1, <1>2, FirstIsNew
  <2>2. FirstEntries(i)' = FirstEntries(i + 1)
    BY <1>1, <1>4 DEF FirstEntries
  <2>3. {params'[n] : n \in 1 .. realCnt'} = {params[n] : n \in 1 .. realCnt} \cup {e}
    BY <1>3, <1>5
  <2>4. {params'[n] : n \in 1 .. realCnt'} = FirstEntries(i)'
    BY <1>1, <2>1, <2>2, <2>3 DEF IInv, MappingInv, FirstWins
  <2>5. \A m, n \in 1 .. realCnt' : params'[m] = params'[n] => m = n
    BY <1>1, <1>10 DEF KeptInv, SameQueue
  <2>6. \A n \in i' + 1 .. Len(params') :
          n \in i + 1 .. Len(params) /\ n \in 1 .. Len(params) /\ n # realCnt + 1
    BY <1>1, <1>2, <1>3
  <2>7. \A n \in i' + 1 .. Len(params') : params'[n] = config'[n]
    BY <1>1, <1>3, <1>4, <2>6 DEF IInv, MappingInv, FirstWins
  <2> QED
    BY <2>4, <2>5, <2>7 DEF FirstWins
<1>12. EntriesInv' /\ MeasureInv'
  BY <1>1, <1>4 DEF IInv, MappingInv, EntriesInv, MeasureInv
<1> QED
  BY <1>7, <1>8, <1>9, <1>10, <1>11, <1>12 DEF IInv, MappingInv

\* There are two queues to a port, so that the entries kept leave a place.
LEMMA KeptFit ==
  ASSUME IInv, main = "check" PROVE realCnt < MaxParams
<1> DEFINE queueOf == [n \in 1 .. realCnt |-> <<params[n].port, params[n].job>>]
<1>1. /\ realCnt \in Nat /\ realCnt <= Len(params) /\ params \in Seq(EntryType)
      /\ Len(params) \in Nat
  BY DEF IInv, TypeOK, TypeMapping, MappingInv, IndexInv, EntryType, LcoreIds
<1>2. \A n \in 1 .. realCnt : params[n] \in EntryType
  BY <1>1, ElementOfSeq
<1>3. queueOf \in [1 .. realCnt -> Ports \X Jobs]
  BY <1>2 DEF IInv, TypeOK, TypePort, MappingInv, KeptInv, Valid, EntryType
<1>4. \A m, n \in 1 .. realCnt : queueOf[m] = queueOf[n] => m = n
  BY DEF IInv, MappingInv, KeptInv, SameQueue
<1>5. queueOf \in Injection(1 .. realCnt, Ports \X Jobs)
  BY <1>3, <1>4 DEF Injection, IsInjective
<1>6. IsFiniteSet(Ports) /\ Cardinality(Ports) = NbPorts
  BY PortAssumption, FS_Interval DEF Ports
<1>7. IsFiniteSet(Jobs) /\ Cardinality(Jobs) = 2
  <2>1. IsFiniteSet({"RX"}) /\ Cardinality({"RX"}) = 1
    BY FS_Singleton
  <2>2. Jobs = {"RX"} \cup {"TX"}
    BY DEF Jobs
  <2> QED
    BY <2>1, <2>2, FS_AddElement
<1>8. IsFiniteSet(Ports \X Jobs) /\ Cardinality(Ports \X Jobs) = NbPorts * 2
  BY <1>6, <1>7, FS_Product
<1>9. Cardinality(1 .. realCnt) = realCnt
  BY <1>1, FS_Interval
<1>10. realCnt <= NbPorts * 2
  BY <1>5, <1>8, <1>9, FS_Injection DEF ExistsInjection
<1> QED
  BY <1>1, <1>10, PortAssumption, MappingAssumption

LEMMA CheckEndsStep == IInv /\ CheckMapping /\ CheckEnds /\ MainGoes("check", "measure") => IInv'
<1> SUFFICES ASSUME IInv, CheckMapping, CheckEnds, MainGoes("check", "measure") PROVE IInv'
  OBVIOUS
<1>1. /\ main = "check" /\ main' = "measure" /\ i' = 0 /\ realCnt' = realCnt
      /\ params' = SubSeq(params, 1, realCnt) /\ enabled' = enabled
      /\ UNCHANGED <<configured, jobs, config, lists, timers, portVars>>
  BY DEF CheckMapping, CheckEnds, MainGoes, portVars
<1>2. /\ realCnt \in Nat /\ realCnt <= Len(params) /\ params \in Seq(EntryType)
      /\ Len(params) \in Nat /\ realCnt < MaxParams
  BY <1>1, KeptFit
     DEF IInv, TypeOK, TypeMapping, MappingInv, IndexInv, EntryType, LcoreIds
<1>3. /\ params' \in Seq(EntryType) /\ Len(params') = realCnt
      /\ \A n \in 1 .. realCnt : params'[n] = params[n]
  BY <1>1, <1>2, SubSeqProperties
<1>4. \A e : Valid(e)' <=> Valid(e)
  BY <1>1 DEF Valid
<1>5. TypeOK'
  BY <1>1, <1>2, <1>3, CheckTypes DEF Mains, IInv, TypeOK, TypeMapping
<1>6. PortInv' /\ QueueOwnership' /\ JobsInv'
  BY <1>1, CheckUntouched, CheckJobs DEF Unmapped, Before
<1>7. IndexInv'
  BY <1>1, <1>2, <1>3, PortAssumption, MappingAssumption DEF IndexInv, Before
<1>8. EntriesInv'
  BY <1>1, <1>3, <1>4 DEF EntriesInv, IInv, MappingInv, KeptInv
<1>9. MeasureInv'
  BY <1>1, <1>2, <1>3 DEF MeasureInv, IInv, TypeOK, TypePort, MappingInv, Ports
<1> QED
  BY <1>1, <1>5, <1>6, <1>7, <1>8, <1>9 DEF IInv, MappingInv, KeptInv, FirstWins

\* The array while the measurement lcore's entries are written.
LEMMA MeasureFacts ==
  ASSUME IInv, main = "measure"
  PROVE  /\ i \in Nat /\ i <= NbPorts /\ Len(params) \in Nat /\ realCnt = Len(params)
         /\ params \in Seq(EntryType) /\ Len(params) <= MaxParams /\ realCnt \in 0 .. MaxParams
         /\ enabled \in SUBSET Ports
BY DEF IInv, TypeOK, TypePort, TypeMapping, MappingInv, IndexInv, EntryType, LcoreIds

LEMMA SkipDisabledStep ==
  IInv /\ CheckMapping /\ SkipDisabled /\ MainStays("measure") => IInv'
<1> SUFFICES ASSUME IInv, CheckMapping, SkipDisabled, MainStays("measure") PROVE IInv'
  OBVIOUS
<1>1. /\ main = "measure" /\ main' = "measure" /\ i \in Ports /\ i \notin enabled
      /\ i' = i + 1 /\ params' = params /\ realCnt' = realCnt /\ enabled' = enabled
      /\ UNCHANGED <<configured, jobs, config, lists, timers, portVars>>
  BY DEF CheckMapping, SkipDisabled, MainStays, MainGoes, portVars
<1>2. /\ i \in Nat /\ i <= NbPorts /\ Len(params) \in Nat /\ realCnt = Len(params)
      /\ params \in Seq(EntryType) /\ Len(params) <= MaxParams /\ realCnt \in 0 .. MaxParams
      /\ enabled \in SUBSET Ports
  BY <1>1, MeasureFacts
<1>3. TypeOK'
  BY <1>1, <1>2, CheckTypes DEF Mains
<1>4. PortInv' /\ QueueOwnership' /\ JobsInv'
  BY <1>1, CheckUntouched, CheckJobs DEF Unmapped, Before
<1>5. IndexInv'
  BY <1>1, <1>2, PortAssumption DEF IndexInv, Before, Ports
<1>6. EntriesInv'
  BY <1>1 DEF EntriesInv, IInv, MappingInv, Valid
<1>7. MeasureInv'
  <2>1. \A p \in enabled : p < i + 1 => p < i
    BY <1>1, <1>2, PortAssumption DEF Ports
  <2> QED
    BY <1>1, <2>1 DEF MeasureInv, IInv, MappingInv
<1> QED
  BY <1>1, <1>3, <1>4, <1>5, <1>6, <1>7 DEF IInv, MappingInv, KeptInv, FirstWins

LEMMA AddMeasureStep == IInv /\ CheckMapping /\ AddMeasure /\ MainStays("measure") => IInv'
<1> SUFFICES ASSUME IInv, CheckMapping, AddMeasure, MainStays("measure") PROVE IInv'
  OBVIOUS
<1> DEFINE e == [port |-> i, job |-> "TX", lcore |-> StatLcore]
<1>1. /\ main = "measure" /\ main' = "measure" /\ i \in Ports /\ i \in enabled
      /\ i' = IF realCnt' >= MaxParams THEN NbPorts ELSE i + 1
      /\ params' = Append(params, e) /\ realCnt' = realCnt + 1 /\ enabled' = enabled
      /\ UNCHANGED <<configured, jobs, config, lists, timers, portVars>>
  BY DEF CheckMapping, AddMeasure, MainStays, MainGoes, portVars
<1>2. /\ i \in Nat /\ i <= NbPorts /\ Len(params) \in Nat /\ realCnt = Len(params)
      /\ params \in Seq(EntryType) /\ Len(params) < MaxParams /\ realCnt \in 0 .. MaxParams
      /\ i < NbPorts
  BY <1>1, MeasureFacts, PortAssumption DEF IInv, MappingInv, MeasureInv, Ports
<1>3. e \in EntryType /\ e.port = i /\ e.job = "TX" /\ e.lcore = StatLcore
  BY <1>2 DEF EntryType, LcoreIds, Jobs
<1> HIDE DEF e
<1>4. /\ params' \in Seq(EntryType) /\ Len(params') = Len(params) + 1
      /\ params'[Len(params) + 1] = e
      /\ \A n \in 1 .. Len(params) : params'[n] = params[n]
  BY <1>1, <1>2, <1>3, AppendProperties
<1>5. i' \in Nat /\ i' <= NbPorts /\ (i' \in Ports => Len(params') < MaxParams)
  BY <1>1, <1>2, <1>4, PortAssumption, MappingAssumption DEF Ports
<1>6. TypeOK'
  <2>1. realCnt' \in 0 .. MaxParams
    BY <1>1, <1>2, MappingAssumption
  <2> QED
    BY <1>1, <1>4, <1>5, <2>1, CheckTypes DEF Mains
<1>7. PortInv' /\ QueueOwnership' /\ JobsInv'
  BY <1>1, CheckUntouched, CheckJobs DEF Unmapped, Before
<1>8. IndexInv'
  BY <1>1, <1>2, <1>4, <1>5, MappingAssumption DEF IndexInv, Before
<1>9. EntriesInv'
  <2>1. \A n \in 1 .. Len(params') : n \in 1 .. Len(params) \/ n = Len(params) + 1
    BY <1>2, <1>4
  <2>2. (\A d : Valid(d)' <=> Valid(d)) /\ ~Valid(e)
    BY <1>1, <1>3 DEF Valid
  <2> QED
    BY <1>1, <1>3, <1>4, <2>1, <2>2 DEF EntriesInv, SameQueue, IInv, MappingInv
<1>10. MeasureInv'
  <2>1. Len(params) + 1 \in 1 .. Len(params')
    BY <1>2, <1>4
  <2> QED
    BY <1>1, <1>3, <1>4, <1>5, <2>1 DEF MeasureInv, IInv, MappingInv
<1> QED
  BY <1>1, <1>6, <1>7, <1>8, <1>9, <1>10 DEF IInv, MappingInv, KeptInv, FirstWins

LEMMA MeasureEndsStep ==
  IInv /\ CheckMapping /\ MeasureEnds /\ MainGoes("measure", "map") => IInv'
<1> SUFFICES ASSUME IInv, CheckMapping, MeasureEnds, MainGoes("measure", "map") PROVE IInv'
  OBVIOUS
<1>1. /\ main = "measure" /\ main' = "map" /\ i \notin Ports /\ i' = 0
      /\ params' = params /\ realCnt' = realCnt /\ enabled' = enabled
      /\ jobs' = jobs /\ lcoreMap' = lcoreMap
      /\ UNCHANGED <<configured, jobs, config, lists, timers, portVars>>
  BY DEF CheckMapping, MeasureEnds, MainStays, MainGoes, portVars
<1>2. /\ i \in Nat /\ i <= NbPorts /\ Len(params) \in Nat /\ realCnt = Len(params)
      /\ params \in Seq(EntryType) /\ Len(params) <= MaxParams /\ realCnt \in 0 .. MaxParams
      /\ enabled \in SUBSET Ports
  BY <1>1, MeasureFacts
<1>3. TypeOK'
  BY <1>1, <1>2, CheckTypes DEF Mains
<1>4. PortInv' /\ QueueOwnership'
  BY <1>1, CheckUntouched
<1>5. IndexInv'
  BY <1>1, <1>2 DEF IndexInv, Before
<1>6. EntriesInv'
  BY <1>1 DEF EntriesInv, IInv, MappingInv, Valid
<1>7. MeasureInv'
  <2>1. \A p \in enabled : p < i
    BY <1>1, <1>2, PortAssumption DEF Ports
  <2>2. \E p \in enabled : p < i
    BY <1>1, <2>1 DEF MeasureInv, IInv, MappingInv
  <2> QED
    BY <1>1, <2>2 DEF MeasureInv, IInv, MappingInv
<1>8. JobsInv'
  <2>1. \A n \in 1 .. Len(params) : params[n] \in EntryType
    BY <1>2, ElementOfSeq
  <2>2. \A n \in 1 .. Len(params) :
          Valid(params[n]) => lcoreMap[params[n].port][params[n].job] = NoLcore
    BY <1>1, <2>1 DEF IInv, MappingInv, JobsInv, Unmapped, Valid, EntryType
  <2>3. \A n \in 1 .. Len(params) : ~(n <= 0) /\ (Valid(params[n])' <=> Valid(params[n]))
    BY <1>1 DEF Valid
  <2> QED
    BY <1>1, <2>2, <2>3 DEF IInv, MappingInv, JobsInv, Unmapped, Before, PortsInit
<1> QED
  BY <1>1, <1>3, <1>4, <1>5, <1>6, <1>7, <1>8 DEF IInv, MappingInv, KeptInv, FirstWins

LEMMA CheckMappingStep == IInv /\ CheckMapping => IInv'
BY DropEntryStep, KeepEntryStep, CheckEndsStep, SkipDisabledStep, AddMeasureStep, MeasureEndsStep
   DEF CheckMapping

-----------------------------------------------------------------------------
(* __init_lcore_port *)

LEMMA MapFacts ==
  ASSUME IInv, main = "map"
  PROVE  /\ i \in Nat /\ Len(params) \in Nat /\ i <= Len(params) /\ realCnt = Len(params)
         /\ \A n \in 1 .. Len(params) :
              /\ params[n] \in EntryType /\ params[n].port \in enabled
              /\ params[n].job \in Jobs /\ params[n].lcore \in Lcores
              /\ params[n].lcore = StatLcore => params[n].job = "TX"
              /\ Valid(params[n]) <=> params[n].lcore # StatLcore
         /\ lcoreMap \in [enabled -> [Jobs -> Slaves \cup {NoLcore}]]
         /\ jobs \in [Lcores -> [Jobs -> Seq(enabled)]]
<1>1. /\ i \in Nat /\ Len(params) \in Nat /\ i <= Len(params) /\ realCnt = Len(params)
      /\ params \in Seq(EntryType)
  BY DEF IInv, TypeOK, TypeMapping, MappingInv, IndexInv, EntryType, LcoreIds
<1>2. \A n \in 1 .. Len(params) : params[n] \in EntryType
  BY <1>1, ElementOfSeq
<1>3. ASSUME NEW n \in 1 .. Len(params)
      PROVE  /\ params[n].port \in enabled /\ params[n].job \in Jobs /\ params[n].lcore \in Lcores
             /\ params[n].lcore = StatLcore => params[n].job = "TX"
             /\ Valid(params[n]) <=> params[n].lcore # StatLcore
  BY <1>2, MappingAssumption DEF IInv, MappingInv, EntriesInv, Valid, EntryType
<1> QED
  BY <1>1, <1>2, <1>3 DEF IInv, TypeOK, TypePort, TypeMapping

\* What the ports' invariant sees of a step of this function.
LEMMA MapPortInv ==
  ASSUME IInv, main = "map", main' \in {"map", "fail", "port_init"},
         UNCHANGED <<lists, timers, portList, enabled, poolVars, queueVars, device, at, step>>
  PROVE  PortInv'
<1> USE DEF IInv, PortInv, poolVars, queueVars
<1>1. LoopInv' /\ StartedInv' /\ BackedInv' /\ HeldInv'
  BY DEF LoopInv, StartedInv, BackedInv, HeldInv, Running, Unmapped, Before
<1>2. ReadyInv'
  BY DEF TypeOK, TypePort, Ports, ReadyInv, LoopInv, PortsInit
<1> QED
  BY <1>1, <1>2

LEMMA MapTypes ==
  ASSUME IInv, main' \in Mains, i' \in Nat, realCnt' \in 0 .. MaxParams,
         params' \in Seq(EntryType), config' \in Seq(Entries), configured' = configured,
         lcoreMap' \in [enabled -> [Jobs -> Slaves \cup {NoLcore}]],
         jobs' \in [Lcores -> [Jobs -> Seq(enabled)]],
         UNCHANGED <<lists, timers, portList, enabled, poolVars, queueVars, device, at, step>>
  PROVE  TypeOK'
BY DEF IInv, TypeOK, TypePort, TypeMapping, EntryType, LcoreIds, poolVars, queueVars

LEMMA MapEntryStep == IInv /\ MapLcores /\ MapEntry /\ MainStays("map") => IInv'
<1> SUFFICES ASSUME IInv, MapLcores, MapEntry, MainStays("map") PROVE IInv'
  OBVIOUS
<1> DEFINE e == params[i + 1]
           p == e.port  l == e.lcore  j == e.job
<1>1. /\ main = "map" /\ main' = "map" /\ i < Len(params) /\ i' = i + 1 /\ HasPlace(l, j)
      /\ jobs' = [jobs EXCEPT ![l][j] = Append(@, p)]
      /\ lcoreMap' = IF l = StatLcore THEN lcoreMap ELSE [lcoreMap EXCEPT ![p][j] = l]
      /\ params' = params /\ realCnt' = realCnt /\ config' = config /\ configured' = configured
      /\ enabled' = enabled
      /\ UNCHANGED <<lists, timers, portList, enabled, poolVars, queueVars, device, at, step>>
  BY DEF MapLcores, MapEntry, UpdateLcore, MainStays, MainGoes
<1>2. /\ i \in Nat /\ Len(params) \in Nat /\ i + 1 \in 1 .. Len(params) /\ realCnt = Len(params)
      /\ lcoreMap \in [enabled -> [Jobs -> Slaves \cup {NoLcore}]]
      /\ jobs \in [Lcores -> [Jobs -> Seq(enabled)]]
      /\ \A n \in 1 .. Len(params) :
           /\ params[n].port \in enabled /\ params[n].job \in Jobs /\ params[n].lcore \in Lcores
           /\ params[n].lcore = StatLcore => params[n].job = "TX"
           /\ Valid(params[n]) <=> params[n].lcore # StatLcore
  BY <1>1, MapFacts
<1>3. /\ p \in enabled /\ j \in Jobs /\ l \in Lcores /\ (l = StatLcore => j = "TX")
      /\ Valid(e) <=> l # StatLcore
      /\ l # StatLcore => l \in Slaves /\ lcoreMap[p][j] = NoLcore
  <2>1. \A n \in 1 .. Len(params) : n > i /\ Valid(params[n]) =>
          lcoreMap[params[n].port][params[n].job] = NoLcore
    BY <1>1 DEF IInv, MappingInv, JobsInv
  <2>2. i + 1 > i
    BY <1>2
  <2>3. l # StatLcore => lcoreMap[p][j] = NoLcore
    BY <1>2, <2>1, <2>2
  <2> QED
    BY <1>2, <2>3 DEF Slaves
<1> HIDE DEF e, p, l, j
<1> DEFINE old == jobs[l][j]
<1>4. /\ old \in Seq(enabled) /\ Len(old) \in Nat /\ Len(old) < MaxPortPerJob
      /\ jobs'[l][j] = Append(old, p)
      /\ Len(jobs'[l][j]) = Len(old) + 1 /\ jobs'[l][j][Len(old) + 1] = p
      /\ \A n \in 1 .. Len(old) : jobs'[l][j][n] = old[n]
  <2>1. old \in Seq(enabled) /\ jobs'[l][j] = Append(old, p) /\ Len(old) < MaxPortPerJob
    BY <1>1, <1>2, <1>3 DEF HasPlace
  <2> QED
    BY <2>1, <1>3, AppendProperties
<1>5. \A k \in Lcores, h \in Jobs : k # l \/ h # j => jobs'[k][h] = jobs[k][h]
  BY <1>1, <1>2, <1>3
<1>6. \A q \in enabled, h \in Jobs :
        lcoreMap'[q][h] = IF l # StatLcore /\ q = p /\ h = j THEN l ELSE lcoreMap[q][h]
  BY <1>1, <1>2, <1>3
<1> HIDE DEF old
<1>7. TypeOK'
  <2>1. jobs' \in [Lcores -> [Jobs -> Seq(enabled)]]
    BY <1>1, <1>2, <1>3
  <2>2. lcoreMap' \in [enabled -> [Jobs -> Slaves \cup {NoLcore}]]
    BY <1>1, <1>2, <1>3
  <2>3. i' \in Nat /\ realCnt' \in 0 .. MaxParams /\ params' \in Seq(EntryType)
        /\ config' \in Seq(Entries)
    BY <1>1, <1>2 DEF IInv, TypeOK, TypeMapping, EntryType, LcoreIds
  <2> QED
    BY <1>1, <2>1, <2>2, <2>3, MapTypes DEF Mains
<1>8. PortInv'
  BY <1>1, MapPortInv
<1>9. IndexInv' /\ EntriesInv' /\ MeasureInv'
  <2>1. IndexInv'
    BY <1>1, <1>2 DEF IInv, MappingInv, IndexInv, Before
  <2>2. EntriesInv'
    BY <1>1 DEF IInv, MappingInv, EntriesInv, Valid
  <2>3. MeasureInv'
    BY <1>1 DEF IInv, MappingInv, MeasureInv
  <2> QED
    BY <2>1, <2>2, <2>3
<1>10. JobsInv'
  <2>1. \A k \in Lcores, h \in Jobs : Len(jobs'[k][h]) <= MaxPortPerJob
    BY <1>4, <1>5, MappingAssumption DEF IInv, MappingInv, JobsInv
  <2>2. jobs'[StatLcore]["RX"] = << >>
    BY <1>3, <1>5, MappingAssumption DEF IInv, MappingInv, JobsInv, Jobs
  <2>3. ASSUME NEW n \in 1 .. Len(params), n > i + 1, Valid(params[n])
        PROVE  lcoreMap'[params[n].port][params[n].job] = NoLcore
    <3>1. lcoreMap[params[n].port][params[n].job] = NoLcore
      <4>1. n > i
        BY <1>2, <2>3
      <4> QED
        BY <1>1, <2>3, <4>1 DEF IInv, MappingInv, JobsInv
    <3>2. l # StatLcore => ~SameQueue(e, params[n])
      <4>1. \A m, r \in 1 .. Len(params) :
              Valid(params[m]) /\ Valid(params[r]) /\ SameQueue(params[m], params[r]) => m = r
        BY <1>1 DEF IInv, MappingInv, EntriesInv
      <4>2. n # i + 1 /\ i + 1 \in 1 .. Len(params)
        BY <1>2, <2>3
      <4> QED
        BY <1>3, <2>3, <4>1, <4>2 DEF e
    <3> QED
      BY <1>2, <1>6, <3>1, <3>2 DEF SameQueue, p, j
  <2>4. ASSUME NEW n \in 1 .. Len(params), n <= i + 1, params[n].lcore = StatLcore
        PROVE  jobs'[StatLcore]["TX"] # << >>
    <3>1. CASE n = i + 1
      <4>1. l = StatLcore /\ j = "TX"
        BY <1>3, <2>4, <3>1 DEF l, e
      <4> QED
        BY <1>4, <4>1
    <3>2. CASE n <= i
      <4>1. jobs[StatLcore]["TX"] # << >>
        BY <1>1, <2>4, <3>2 DEF IInv, MappingInv, JobsInv
      <4>2. l = StatLcore /\ j = "TX" => jobs'[StatLcore]["TX"] # << >>
        BY <1>4
      <4> QED
        BY <1>5, <4>1, <4>2, MappingAssumption DEF Jobs
    <3> QED
      BY <1>2, <2>4, <3>1, <3>2
  <2>5. \A d : Valid(d)' <=> Valid(d)
    BY <1>1 DEF Valid
  <2> QED
    BY <1>1, <2>1, <2>2, <2>3, <2>4, <2>5 DEF JobsInv, Unmapped, Before, PortsInit
<1>11. QueueOwnership'
  <2> SUFFICES ASSUME NEW k \in Slaves, NEW h \in Jobs
               PROVE  /\ \A n \in 1 .. Len(jobs'[k][h]) :
                           /\ jobs'[k][h][n] \in enabled /\ lcoreMap'[jobs'[k][h][n]][h] = k
                           /\ \A m \in 1 .. n - 1 : jobs'[k][h][m] # jobs'[k][h][n]
                      /\ \A q \in enabled : lcoreMap'[q][h] = k =>
                           \E n \in 1 .. Len(jobs'[k][h]) : jobs'[k][h][n] = q
    BY <1>1 DEF QueueOwnership
  <2>1. k \in Lcores /\ k # StatLcore /\ k # NoLcore
    BY MappingAssumption DEF Slaves
  <2>2. /\ \A n \in 1 .. Len(jobs[k][h]) :
             /\ jobs[k][h][n] \in enabled /\ lcoreMap[jobs[k][h][n]][h] = k
             /\ \A m \in 1 .. n - 1 : jobs[k][h][m] # jobs[k][h][n]
        /\ \A q \in enabled : lcoreMap[q][h] = k =>
             \E n \in 1 .. Len(jobs[k][h]) : jobs[k][h][n] = q
    BY DEF IInv, MappingInv, QueueOwnership
  <2>3. CASE k # l \/ h # j
    <3>1. jobs'[k][h] = jobs[k][h]
      BY <1>5, <2>1, <2>3
    <3>2. \A q \in enabled : lcoreMap'[q][h] = k <=> lcoreMap[q][h] = k
      BY <1>3, <1>6, <2>1, <2>3
    <3> QED
      BY <2>2, <3>1, <3>2
  <2>4. CASE k = l /\ h = j
    <3>1. \A n \in 1 .. Len(old) : old[n] \in enabled /\ lcoreMap[old[n]][h] = k /\ old[n] # p
      BY <1>3, <2>1, <2>2, <2>4 DEF old
    <3>2. \A m, n \in 1 .. Len(old) : m < n => old[m] # old[n]
      <4> SUFFICES ASSUME NEW m \in 1 .. Len(old), NEW n \in 1 .. Len(old), m < n
                   PROVE  old[m] # old[n]
        OBVIOUS
      <4>1. m \in 1 .. n - 1
        BY <1>4
      <4> QED
        BY <2>2, <2>4, <4>1 DEF old
    <3>3. ASSUME NEW n \in 1 .. Len(old) + 1
          PROVE  /\ jobs'[l][j][n] \in enabled /\ lcoreMap'[jobs'[l][j][n]][j] = l
                 /\ \A m \in 1 .. n - 1 : jobs'[l][j][m] # jobs'[l][j][n]
      <4>1. CASE n = Len(old) + 1
        <5>1. \A m \in 1 .. n - 1 : m \in 1 .. Len(old)
          BY <1>4, <4>1
        <5> QED
          BY <1>3, <1>4, <1>6, <2>1, <2>4, <3>1, <4>1, <5>1
      <4>2. CASE n \in 1 .. Len(old)
        <5>1. \A m \in 1 .. n - 1 : m \in 1 .. Len(old) /\ m < n
          BY <1>4, <4>2
        <5> QED
          BY <1>3, <1>4, <1>6, <2>1, <2>4, <3>1, <3>2, <4>2, <5>1
      <4> QED
        BY <1>4, <4>1, <4>2
    <3>4. ASSUME NEW q \in enabled, lcoreMap'[q][j] = l
          PROVE  \E n \in 1 .. Len(old) + 1 : jobs'[l][j][n] = q
      <4>1. CASE q = p
        BY <1>4, <4>1
      <4>2. CASE q # p
        <5>1. lcoreMap[q][j] = l
          BY <1>3, <1>6, <3>4, <4>2
        <5>2. PICK n \in 1 .. Len(old) : old[n] = q
          BY <2>2, <2>4, <5>1 DEF old
        <5> QED
          BY <1>4, <5>2
      <4> QED
        BY <4>1, <4>2
    <3> QED
      BY <1>4, <2>4, <3>3, <3>4
  <2> QED
    BY <2>3, <2>4
<1> QED
  BY <1>1, <1>7, <1>8, <1>9, <1>10, <1>11 DEF IInv, MappingInv, KeptInv, FirstWins

LEMMA MapLcoresStep == IInv /\ MapLcores => IInv'
<1> SUFFICES ASSUME IInv, MapLcores PROVE IInv'
  OBVIOUS
<1>1. CASE MainGoes("map", "fail") /\ MapFails
  <2>1. /\ main = "map" /\ main' = "fail" /\ UNCHANGED <<mappingVars, lcoreMap>>
        /\ UNCHANGED <<lists, timers, portList, enabled, poolVars, queueVars, device, at, step>>
    BY <1>1 DEF MapLcores, MapFails, MainGoes
  <2>2. TypeOK'
    BY <2>1, TypeMappingUntouched DEF IInv, TypeOK, TypePort, Mains, poolVars, queueVars
  <2>3. MappingInv'
    BY <2>1, MappingUntouched DEF IInv, Unmapped, Before, PortsInit
  <2> QED
    BY <2>1, <2>2, <2>3, MapPortInv DEF IInv
<1>2. CASE MainGoes("map", "port_init") /\ MapEnds
  <2>1. /\ main = "map" /\ main' = "port_init" /\ i = Len(params) /\ i' = 0 /\ realCnt' = 0
        /\ params' = << >> /\ config' = << >> /\ configured' = configured
        /\ jobs' = jobs /\ lcoreMap' = lcoreMap /\ enabled' = enabled
        /\ UNCHANGED <<lists, timers, portList, enabled, poolVars, queueVars, device, at, step>>
    BY <1>2 DEF MapLcores, MapEnds, MainGoes
  <2>2. TypeOK'
    BY <2>1, MapFacts, MapTypes, MappingAssumption DEF Mains
  <2>3. IndexInv'
    BY <2>1, MappingAssumption DEF IndexInv, Before
  <2>4. JobsInv'
    BY <2>1, MapFacts DEF JobsInv, MeasureInv, IInv, MappingInv, Unmapped, Before, PortsInit
  <2>5. QueueOwnership'
    BY <2>1 DEF QueueOwnership, IInv, MappingInv
  <2>6. MappingInv'
    BY <2>1, <2>3, <2>4, <2>5 DEF MappingInv, KeptInv, FirstWins, EntriesInv, MeasureInv
  <2> QED
    BY <2>1, <2>2, <2>6, MapPortInv DEF IInv
<1> QED
  BY <1>1, <1>2, MapEntryStep DEF MapLcores

-----------------------------------------------------------------------------
(* port_init *)

\* What the steps of the ports' loops leave alone.
LoopFrame == UNCHANGED <<lists, timers, mappingVars, portList, enabled, lcoreMap>>

\* The mapping is complete by now.
LEMMA LoopMapping ==
  ASSUME IInv, LoopFrame, main \in {"port_init"} \cup PortsInit \cup {"close", "free", "fail"},
         main' = main \/ main' \in {"stat_init", "timers", "fail", "stop", "exit", "aborted"},
         main' \in PortsInit => main \in {"port_init"} \cup PortsInit
  PROVE  MappingInv'
<1>1. /\ main' = main \/ main' \notin Unmapped \cup {"map"}
      /\ main' \in {"port_init"} \cup PortsInit => main \in {"port_init"} \cup PortsInit
  BY DEF Unmapped, Before, PortsInit
<1> QED
  BY <1>1, MappingUntouched DEF LoopFrame, IInv

\* Of TypeOK, what such a step has to show.
LEMMA LoopTypes ==
  ASSUME IInv, LoopFrame, main' \in Mains,
         rxPool' \in SUBSET enabled, txPool' \in SUBSET enabled,
         rxQueue' \in SUBSET enabled, txQueue' \in SUBSET (enabled \X TxQueues),
         device' \in [Ports -> Devices], at' \in 0 .. NbPorts, step' \in Jobs \cup {"dev"}
  PROVE  TypeOK'
BY TypeMappingUntouched DEF IInv, TypeOK, TypePort, LoopFrame

LEMMA LoopFacts ==
  ASSUME IInv
  PROVE  /\ NbPorts \in Nat /\ at \in Nat /\ at <= NbPorts
         /\ at \in Ports <=> at < NbPorts
         /\ \A p \in enabled : p \in Ports /\ p \in Nat /\ p < NbPorts
         /\ rxPool \in SUBSET enabled /\ txPool \in SUBSET enabled
         /\ rxQueue \in SUBSET enabled /\ txQueue \in SUBSET (enabled \X TxQueues)
         /\ device \in [Ports -> Devices] /\ step \in Jobs \cup {"dev"}
BY PortAssumption DEF IInv, TypeOK, TypePort, Ports

\* A port that is not enabled is passed by.
LEMMA SkipPortStep ==
  IInv /\ LoopFrame /\ SkipPort /\ (MainStays("port_init") \/ MainStays("port_start")) => IInv'
<1> SUFFICES ASSUME IInv, LoopFrame, SkipPort, MainStays("port_init") \/ MainStays("port_start")
             PROVE  IInv'
  OBVIOUS
<1>1. /\ main \in {"port_init", "port_start"} /\ main' = main
      /\ at \in Ports /\ at \notin enabled /\ at' = at + 1
      /\ UNCHANGED <<lists, timers, portList, enabled, lcoreMap, poolVars, queueVars, device, step>>
  BY DEF SkipPort, Looping, MainStays, MainGoes, LoopFrame
<1>2. at' \in 0 .. NbPorts /\ \A p \in enabled : p < at' <=> p < at
  BY <1>1, LoopFacts
<1>3. TypeOK'
  BY <1>1, <1>2, LoopFacts, LoopTypes DEF Mains, poolVars, queueVars
<1>4. MappingInv'
  BY <1>1, LoopMapping DEF PortsInit
<1>5. PortInv'
  <2> USE <1>1, <1>2 DEF IInv, PortInv, poolVars, queueVars
  <2>1. LoopInv'
    BY DEF LoopInv, Unmapped, Before
  <2>2. StartedInv'
    BY DEF StartedInv, Running
  <2>3. BackedInv' /\ HeldInv'
    BY DEF BackedInv, HeldInv, Before
  <2>4. ReadyInv'
    BY DEF ReadyInv, RxReady, TxReady, LoopInv
  <2> QED
    BY <2>1, <2>2, <2>3, <2>4
<1> QED
  BY <1>3, <1>4, <1>5 DEF IInv

LEMMA InitDevStep == IInv /\ LoopFrame /\ InitDev /\ MainStays("port_init") => IInv'
<1> SUFFICES ASSUME IInv, LoopFrame, InitDev, MainStays("port_init") PROVE IInv'
  OBVIOUS
<1>1. /\ main = "port_init" /\ main' = "port_init" /\ at \in enabled /\ at \in Ports
      /\ device' = [device EXCEPT ![at] = "configured"] /\ step' = "RX" /\ at' = at
      /\ UNCHANGED <<lists, timers, portList, enabled, lcoreMap, poolVars, queueVars>>
  BY DEF InitDev, Here, MainStays, MainGoes, LoopFrame
<1>2. TypeOK'
  BY <1>1, LoopFacts, LoopTypes DEF Mains, poolVars, queueVars, Devices, Jobs, Ports
<1>3. MappingInv'
  BY <1>1, LoopMapping DEF PortsInit
<1>4. PortInv'
  <2> USE <1>1, LoopFacts DEF IInv, PortInv, poolVars, queueVars
  <2>1. LoopInv' /\ HeldInv' /\ BackedInv'
    BY DEF LoopInv, HeldInv, BackedInv, Unmapped, Before
  <2>2. StartedInv'
    BY DEF StartedInv, Running
  <2>3. ReadyInv'
    BY DEF ReadyInv, RxReady, TxReady
  <2> QED
    BY <2>1, <2>2, <2>3
<1> QED
  BY <1>2, <1>3, <1>4 DEF IInv

\* One job of a port is over: its queues are set up, or nobody serves it.
LEMMA JobStep ==
  IInv /\ LoopFrame /\ (SkipJob \/ SetupRx \/ SetupTx) /\ MainStays("port_init") => IInv'
<1> SUFFICES ASSUME IInv, LoopFrame, SkipJob \/ SetupRx \/ SetupTx, MainStays("port_init")
             PROVE  IInv'
  OBVIOUS
<1>1. /\ main = "port_init" /\ main' = "port_init" /\ at \in enabled /\ at \in Ports
      /\ step \in Jobs /\ device' = device
      /\ IF step = "RX" THEN step' = "TX" /\ at' = at ELSE step' = "dev" /\ at' = at + 1
      /\ UNCHANGED <<lists, timers, portList, enabled, lcoreMap>>
  BY DEF SkipJob, SetupRx, SetupTx, NextJob, Here, MainStays, MainGoes, LoopFrame, Jobs
<1>2. at' \in 0 .. NbPorts /\ step' \in {"TX", "dev"}
      /\ \A p \in enabled : (p < at' <=> p < at \/ (p = at /\ step # "RX"))
  BY <1>1, LoopFacts
<1>3. /\ \/ rxPool' = rxPool /\ rxQueue' = rxQueue
         \/ rxPool' = rxPool \cup {at} /\ rxQueue' = rxQueue \cup {at}
      /\ step = "RX" => (lcoreMap[at]["RX"] # NoLcore => at \in rxQueue')
  BY <1>1 DEF SkipJob, SetupRx, SetupTx, InitRxPool, poolVars, queueVars
<1>4. /\ \/ txPool' = txPool /\ txQueue' = txQueue
         \/ txPool' = txPool \cup {at} /\ txQueue' = txQueue \cup {<<at, q>> : q \in TxQueues}
      /\ step # "RX" => (lcoreMap[at]["TX"] # NoLcore => \A q \in TxQueues : <<at, q>> \in txQueue')
  <2>1. CASE SkipJob
    BY <1>1, <2>1 DEF SkipJob, poolVars, queueVars, Jobs
  <2>2. CASE SetupRx
    BY <2>2 DEF SetupRx
  <2>3. CASE SetupTx
    BY <2>3 DEF SetupTx, InitTxPool, SetupTxQueues
  <2> QED
    BY <2>1, <2>2, <2>3
<1>5. TypeOK'
  <2>1. rxPool' \in SUBSET enabled /\ rxQueue' \in SUBSET enabled
    BY <1>1, <1>3, LoopFacts
  <2>2. txPool' \in SUBSET enabled /\ txQueue' \in SUBSET (enabled \X TxQueues)
    BY <1>1, <1>4, LoopFacts
  <2>3. step' \in Jobs \cup {"dev"} /\ device' \in [Ports -> Devices] /\ main' \in Mains
    BY <1>1, <1>2, LoopFacts DEF Jobs, Mains
  <2> QED
    BY <1>2, <2>1, <2>2, <2>3, LoopTypes
<1>6. MappingInv'
  BY <1>1, LoopMapping DEF PortsInit
<1>7. PortInv'
  <2> USE DEF IInv, PortInv
  <2>1. LoopInv'
    BY <1>1, <1>2 DEF LoopInv, Unmapped, Before
  <2>2. StartedInv'
    BY <1>1 DEF StartedInv, Running
  <2>3. HeldInv'
    BY <1>1 DEF HeldInv, Before
  <2>4. BackedInv'
    <3> SUFFICES ASSUME NEW p \in Ports
                 PROVE  /\ p \in rxQueue' => p \in rxPool'
                        /\ <<p, "TXQ_TX">> \in txQueue' => p \in txPool'
      BY DEF BackedInv
    <3>1. /\ p \in rxQueue => p \in rxPool
          /\ <<p, "TXQ_TX">> \in txQueue => p \in txPool
      BY <1>1 DEF BackedInv
    <3>2. \A q \in TxQueues : <<p, "TXQ_TX">> = <<at, q>> => p = at
      OBVIOUS
    <3> QED
      BY <1>3, <1>4, <3>1, <3>2
  <2>5. ReadyInv'
    <3>1. ASSUME NEW p \in enabled, p < at PROVE RxReady(p)' /\ TxReady(p)'
      <4>1. RxReady(p) /\ TxReady(p)
        BY <1>1, <3>1 DEF ReadyInv
      <4>2. rxQueue \subseteq rxQueue' /\ txQueue \subseteq txQueue'
        BY <1>3, <1>4
      <4> QED
        BY <1>1, <4>1, <4>2 DEF RxReady, TxReady
    <3>2. lcoreMap[at]["RX"] # NoLcore => at \in rxQueue'
      <4>1. step = "TX" => RxReady(at)
        BY <1>1 DEF ReadyInv
      <4>2. step # "RX" => step = "TX"
        BY <1>1 DEF Jobs
      <4> QED
        BY <1>3, <4>1, <4>2 DEF RxReady
    <3>3. ASSUME NEW p \in enabled, p = at
          PROVE  RxReady(p)' /\ (step # "RX" => TxReady(p)')
      BY <1>1, <1>4, <3>2, <3>3 DEF RxReady, TxReady
    <3>4. ASSUME NEW p \in enabled
          PROVE  /\ p < at' => RxReady(p)' /\ TxReady(p)'
                 /\ p = at' /\ step' = "TX" => RxReady(p)'
      BY <1>1, <1>2, <3>1, <3>3
    <3> QED
      BY <1>1, <3>4 DEF ReadyInv, PortsInit
  <2> QED
    BY <2>1, <2>2, <2>3, <2>4, <2>5
<1> QED
  BY <1>5, <1>6, <1>7 DEF IInv

LEMMA InitFailsStep ==
  ASSUME IInv, LoopFrame, NEW queues \in SUBSET TxQueues, InitFails(queues),
         MainGoes("port_init", "fail")
  PROVE  IInv'
<1>1. /\ main = "port_init" /\ main' = "fail" /\ at \in enabled /\ rxQueue' = rxQueue
      /\ txQueue' = txQueue \cup {<<at, q>> : q \in queues}
      /\ rxPool' = rxPool \ (0 .. at) /\ txPool' = txPool \ (0 .. at)
      /\ UNCHANGED <<lists, timers, portList, enabled, lcoreMap, device, at, step>>
  BY DEF InitFails, Here, MainGoes, SetupTxQueues, ClearPools, FreePools, LoopFrame
<1>2. TypeOK'
  BY <1>1, LoopFacts, LoopTypes DEF Mains
<1>3. MappingInv'
  BY <1>1, LoopMapping DEF PortsInit
<1>4. PortInv'
  <2> USE <1>1 DEF IInv, PortInv
  <2>1. LoopInv' /\ HeldInv' /\ BackedInv'
    BY DEF LoopInv, HeldInv, BackedInv, Unmapped, Before
  <2>2. StartedInv'
    BY DEF StartedInv, Running
  <2>3. ReadyInv'
    BY DEF ReadyInv, PortsInit
  <2> QED
    BY <2>1, <2>2, <2>3
<1> QED
  BY <1>2, <1>3, <1>4 DEF IInv

\* All ports are before the end of the loop.
LEMMA LoopEndsStep ==
  ASSUME IInv, LoopFrame, LoopEnds,
         MainGoes("port_init", "stat_init") \/ MainGoes("port_start", "timers")
  PROVE  IInv'
<1>1. /\ \/ main = "port_init" /\ main' = "stat_init"
         \/ main = "port_start" /\ main' = "timers"
      /\ at \notin Ports /\ at' = 0
      /\ UNCHANGED <<lists, timers, portList, enabled, lcoreMap, poolVars, queueVars, device, step>>
  BY DEF LoopEnds, Looping, MainGoes, LoopFrame
<1>2. at \notin enabled /\ \A p \in enabled : p < at
  BY <1>1, LoopFacts
<1>3. TypeOK'
  BY <1>1, LoopFacts, LoopTypes DEF Mains, poolVars, queueVars
<1>4. MappingInv'
  BY <1>1, LoopMapping DEF PortsInit
<1>5. PortInv'
  <2> USE <1>1, <1>2 DEF IInv, PortInv, poolVars, queueVars
  <2>1. LoopInv' /\ HeldInv' /\ BackedInv'
    BY DEF LoopInv, HeldInv, BackedInv, Unmapped, Before
  <2>2. StartedInv'
    BY DEF StartedInv, Running
  <2>3. ReadyInv'
    BY DEF ReadyInv, RxReady, TxReady, PortsInit
  <2> QED
    BY <2>1, <2>2, <2>3
<1> QED
  BY <1>3, <1>4, <1>5 DEF IInv

LEMMA InitPortsStep == IInv /\ InitPorts => IInv'
<1>1. InitPorts => LoopFrame
  BY DEF InitPorts, LoopFrame, SkipPort, InitDev, SkipJob, SetupRx, SetupTx, LoopEnds, InitFails,
         NextJob, ClearPools
<1> QED
  BY <1>1, SkipPortStep, InitDevStep, JobStep, LoopEndsStep, InitFailsStep DEF InitPorts

-----------------------------------------------------------------------------
(* port_start, port_close, port_free *)

LEMMA StartDevStep == IInv /\ LoopFrame /\ StartDev /\ MainStays("port_start") => IInv'
<1> SUFFICES ASSUME IInv, LoopFrame, StartDev, MainStays("port_start") PROVE IInv'
  OBVIOUS
<1>1. /\ main = "port_start" /\ main' = "port_start" /\ at \in enabled /\ at \in Ports
      /\ device' = [device EXCEPT ![at] = "started"] /\ at' = at + 1
      /\ UNCHANGED <<lists, timers, portList, enabled, lcoreMap, poolVars, queueVars, step>>
  BY DEF StartDev, Here, MainStays, MainGoes, LoopFrame
<1>2. at' \in 0 .. NbPorts /\ \A p \in Ports : p < at' <=> p < at \/ p = at
  BY <1>1, LoopFacts DEF Ports
<1>3. TypeOK'
  BY <1>1, <1>2, LoopFacts, LoopTypes DEF Mains, poolVars, queueVars, Devices
<1>4. MappingInv'
  BY <1>1, LoopMapping DEF PortsInit
<1>5. PortInv'
  <2> USE <1>1 DEF IInv, PortInv, poolVars, queueVars
  <2>1. LoopInv' /\ HeldInv' /\ BackedInv'
    BY DEF LoopInv, HeldInv, BackedInv, Unmapped, Before
  <2>2. StartedInv'
    BY <1>2, LoopFacts DEF StartedInv, Running
  <2>3. ReadyInv'
    BY DEF ReadyInv, RxReady, TxReady, PortsInit
  <2> QED
    BY <2>1, <2>2, <2>3
<1> QED
  BY <1>3, <1>4, <1>5 DEF IInv

\* Devices are closed: those before the one that could not be started, or all.
LEMMA CloseStep ==
  ASSUME IInv, LoopFrame,
         \/ MainGoes("port_start", "fail") /\ StartFails
         \/ MainGoes("close", "stop") /\ ClosePorts
  PROVE  IInv'
<1> DEFINE S == IF main = "close" THEN Ports ELSE 0 .. at - 1
<1>1. /\ \/ main = "port_start" /\ main' = "fail"
         \/ main = "close" /\ main' = "stop"
      /\ device' = [p \in Ports |-> IF p \in S \cap enabled THEN "closed" ELSE device[p]]
      /\ UNCHANGED <<lists, timers, portList, enabled, lcoreMap, poolVars, queueVars, at, step>>
  BY DEF StartFails, ClosePorts, CloseDevs, MainGoes, LoopFrame
<1>2. \A p \in Ports : device'[p] # "started"
  <2>1. \A p \in Ports : device[p] = "started" => p \in S \cap enabled
    BY <1>1, LoopFacts DEF IInv, PortInv, StartedInv, Running, Ports
  <2> HIDE DEF S
  <2> QED
    BY <1>1, <2>1
<1>7. main = "close" => \A p \in enabled : device'[p] = "closed"
  BY <1>1, LoopFacts
<1>3. device' \in [Ports -> Devices]
  BY <1>1, LoopFacts DEF Devices
<1>4. TypeOK'
  BY <1>1, <1>3, LoopFacts, LoopTypes DEF Mains, poolVars, queueVars
<1>5. MappingInv'
  BY <1>1, LoopMapping DEF PortsInit
<1>6. PortInv'
  <2> HIDE DEF S
  <2> USE <1>1 DEF IInv, PortInv, poolVars, queueVars
  <2>1. LoopInv' /\ HeldInv' /\ BackedInv'
    BY DEF LoopInv, HeldInv, BackedInv, Unmapped, Before
  <2>2. StartedInv'
    BY <1>2, <1>7 DEF StartedInv, Running
  <2>3. ReadyInv'
    BY DEF ReadyInv, PortsInit
  <2> QED
    BY <2>1, <2>2, <2>3
<1> QED
  BY <1>4, <1>5, <1>6 DEF IInv

LEMMA StartPortsStep == IInv /\ StartPorts => IInv'
<1>1. StartPorts => LoopFrame
  BY DEF StartPorts, LoopFrame, SkipPort, StartDev, LoopEnds, StartFails
<1> QED
  BY <1>1, SkipPortStep, StartDevStep, LoopEndsStep, CloseStep DEF StartPorts

LEMMA ClosePortsStep == IInv /\ Close => IInv'
<1>1. Close => LoopFrame
  BY DEF Close, LoopFrame, ClosePorts
<1> QED
  BY <1>1, CloseStep DEF Close

LEMMA FreeStep == IInv /\ Free => IInv'
<1> SUFFICES ASSUME IInv, Free PROVE IInv'
  OBVIOUS
<1>1. /\ \/ main = "free" /\ main' = "exit"
         \/ main = "fail" /\ main' = "aborted"
      /\ lists' = {} /\ portList' = FALSE
      /\ rxPool' = rxPool \ enabled /\ txPool' = txPool \ enabled
      /\ UNCHANGED <<timers, mappingVars, enabled, lcoreMap, queueVars, device, at, step>>
  BY DEF Free, FreePorts, FreePools, MainGoes
<1>2. TypeOK'
  BY <1>1, TypeMappingUntouched DEF IInv, TypeOK, TypePort, Mains, queueVars
<1>3. MappingInv'
  <2>1. main' \notin Unmapped \cup {"map"} /\ main' \notin {"port_init"} \cup PortsInit
    BY <1>1 DEF Unmapped, Before, PortsInit
  <2> QED
    BY <1>1, <2>1, MappingUntouched DEF IInv
<1>4. PortInv'
  <2> USE <1>1 DEF IInv, PortInv, queueVars
  <2>1. LoopInv' /\ BackedInv'
    BY DEF LoopInv, BackedInv, Unmapped, Before
  <2>2. HeldInv'
    BY LoopFacts DEF HeldInv, Before
  <2>3. StartedInv'
    BY DEF StartedInv, Running
  <2>4. ReadyInv'
    BY DEF ReadyInv, PortsInit
  <2> QED
    BY <2>1, <2>2, <2>3, <2>4
<1> QED
  BY <1>2, <1>3, <1>4 DEF IInv

-----------------------------------------------------------------------------
(* The theorems *)

\* The invariant holds in every reachable state.
THEOREM Invariance == Spec => []IInv
<1>1. IInv /\ [Next]_vars => IInv'
  BY QuietStep, ReadConfigStep, ParsePortsStep, CheckMappingStep, MapLcoresStep, InitPortsStep,
     StartPortsStep, ClosePortsStep, FreeStep DEF Next, Quiet
<1> QED
  BY InitIInv, <1>1, PTL DEF Spec

\* main()'s variables hold what their C types and the code allow.
THEOREM TypeCorrect == Spec => []TypeOK
<1>1. IInv => TypeOK
  BY DEF IInv
<1> QED
  BY Invariance, <1>1, PTL

\* __check_mapping keeps the first valid entry of each queue, whatever the order and
\* number of the entries, although it writes into the array that it reads.
THEOREM FirstEntryWins == Spec => []FirstWins
<1>1. IInv => FirstWins
  BY DEF IInv, MappingInv
<1> QED
  BY Invariance, <1>1, PTL

\* lcore_params and the port_list of each job are never written past their ends.
THEOREM ArraysHold == Spec => []WithinArrays
<1>1. IInv => WithinArrays
  BY DEF IInv, MappingInv, IndexInv, JobsInv, WithinArrays
<1> QED
  BY Invariance, <1>1, PTL

\* No queue is served by two lcores, or twice by one, and the port knows its lcore.
THEOREM OneLcorePerQueue == Spec => []QueueOwnership
<1>1. IInv => QueueOwnership
  BY DEF IInv, MappingInv
<1> QED
  BY Invariance, <1>1, PTL

\* The measurement lcore gets a TX port and no RX port before the lcores are launched.
THEOREM MeasurementMapped == Spec => []JobControlReady
<1>1. IInv => JobControlReady
  BY DEF IInv, MappingInv, JobsInv, JobControlReady, PortsInit
<1> QED
  BY Invariance, <1>1, PTL

\* Every queue that an lcore uses is set up on a started device.
THEOREM QueuesSetUp == Spec => []QueuesReady
<1>1. IInv => QueuesReady
  <2> SUFFICES ASSUME IInv, main = "run", NEW l \in Slaves
               PROVE  /\ \A n \in 1 .. Len(jobs[l]["RX"]) :
                           /\ device[jobs[l]["RX"][n]] = "started"
                           /\ jobs[l]["RX"][n] \in rxQueue
                      /\ \A n \in 1 .. Len(jobs[l]["TX"]) :
                           /\ device[jobs[l]["TX"][n]] = "started"
                           /\ \A q \in TxQueues : <<jobs[l]["TX"][n], q>> \in txQueue
    BY DEF QueuesReady
  <2>1. l # NoLcore
    BY MappingAssumption DEF Slaves
  <2>2. ASSUME NEW j \in Jobs, NEW n \in 1 .. Len(jobs[l][j])
        PROVE  jobs[l][j][n] \in enabled /\ lcoreMap[jobs[l][j][n]][j] # NoLcore
    BY <2>1 DEF IInv, MappingInv, QueueOwnership
  <2>3. \A p \in enabled : device[p] = "started" /\ RxReady(p) /\ TxReady(p)
    BY LoopFacts DEF IInv, PortInv, StartedInv, ReadyInv, PortsInit, Running
  <2> QED
    BY <2>2, <2>3 DEF RxReady, TxReady, Jobs
<1> QED
  BY Invariance, <1>1, PTL

\* No pool is freed under a started device, whichever call failed.
THEOREM PoolsOutliveDevices == Spec => []PoolBacked
<1>1. IInv => PoolBacked
  BY DEF IInv, PortInv, StartedInv, BackedInv, Running, PoolBacked
<1> QED
  BY Invariance, <1>1, PTL

\* However main() ends, nothing is left started, armed or allocated, and if it
\* returns 0 every enabled device was closed.
THEOREM EndsClean == Spec => []NothingLeft
<1>1. IInv => NothingLeft
  <2> SUFFICES ASSUME IInv, main \in {"exit", "aborted", "refused"}
               PROVE  /\ main = "exit" => \A p \in enabled : device[p] = "closed"
                      /\ \A p \in Ports : device[p] # "started"
                      /\ timers = {} /\ lists = {} /\ ~portList
                      /\ rxPool = {} /\ txPool = {}
    BY DEF NothingLeft
  <2>1. /\ main = "exit" => \A p \in enabled : device[p] = "closed"
        /\ \A p \in Ports : device[p] # "started"
    BY DEF IInv, PortInv, StartedInv, Running
  <2>2. rxPool \subseteq enabled /\ txPool \subseteq enabled
    BY LoopFacts
  <2>3. timers = {} /\ lists = {} /\ ~portList /\ rxPool = {} /\ txPool = {}
    BY <2>2 DEF IInv, PortInv, HeldInv
  <2> QED
    BY <2>1, <2>3
<1> QED
  BY Invariance, <1>1, PTL
=============================================================================
