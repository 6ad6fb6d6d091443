------------------------------- MODULE Startup -------------------------------
(****************************************************************************)
(* main() of pktsender from its options to its return (src/src/main.c),     *)
(* with every failure it handles: the mapping (LcoreMapping), the ports     *)
(* (Port), and the lists, pool and timers of stat.c and probe.c.  What      *)
(* happens between the launch of the lcores and the return of all of them   *)
(* is JobControl's subject and one step here.                               *)
(****************************************************************************)
EXTENDS LcoreMapping

CONSTANT Masks  \* the port masks -p may give

VARIABLES
  main,     \* where main() is
  lists,    \* which of port_stat, probe_list and probe_mp are allocated
  timers    \* the armed timers

vars == <<main, lists, timers, mappingVars, portVars>>

Lists == {"port_stat", "probe_list", "probe_mp"}
Mains == {"args", "config", "check", "measure", "map", "port_init", "stat_init", "probe_init",
          "port_start", "timers", "run", "close", "stop", "free", "fail",
          "exit", "aborted", "refused", "crashed"}

Init ==
  /\ main = "args" /\ lists = {} /\ timers = {}
  /\ MappingInit /\ PortInit

MainGoes(from, to) == main = from /\ main' = to
MainStays(pc) == MainGoes(pc, pc)

-----------------------------------------------------------------------------
(* __parse_args *)

ReadConfig ==
  /\ \/ MainGoes("args", "config") /\ ConfigBegins
     \/ MainGoes("config", "args") /\ ConfigEnds
     \/ MainStays("config") /\ \E e \in Entries : ParseEntry(e)
  /\ UNCHANGED <<lists, timers, portVars>>

\* An option that is unknown (--mac-dst is), an entry that is malformed or one
\* too many.
RefuseArgs ==
  /\ MainGoes("args", "refused") \/ MainGoes("config", "refused")
  /\ UNCHANGED <<lists, timers, mappingVars, portVars>>

\* -o: its argument is copied, but the option is declared without one.
CopyPrefix ==
  /\ MainGoes("args", "crashed")
  /\ UNCHANGED <<lists, timers, mappingVars, portVars>>

\* The options end; port_parse_opt.  __parse_portmask refuses nothing: its -1
\* is a uint8_t.
ParsePorts ==
  /\ main = "args"
  /\ \E mask \in Masks : ParseOpt(mask)
  /\ main' = IF enabled' = {} THEN "refused" ELSE "check"
  /\ UNCHANGED <<lists, timers, mappingVars>>

-----------------------------------------------------------------------------
(* The mapping *)

CheckMapping ==
  /\ \/ MainStays("check") /\ (DropEntry \/ KeepEntry)
     \/ MainGoes("check", "measure") /\ CheckEnds
     \/ MainStays("measure") /\ (SkipDisabled \/ (configured /\ AddMeasure))
     \/ MainGoes("measure", "map") /\ MeasureEnds
  /\ UNCHANGED <<lists, timers, portVars>>

\* Without --config lcore_params is NULL, and the first entry is written there.
WriteNull ==
  /\ MainGoes("measure", "crashed") /\ ~configured /\ i \in enabled
  /\ UNCHANGED <<lists, timers, mappingVars, portVars>>

MapLcores ==
  /\ \/ MainStays("map") /\ MapEntry
     \/ MainGoes("map", "fail") /\ MapFails
     \/ MainGoes("map", "port_init") /\ MapEnds
  /\ UNCHANGED <<lists, timers, portList, enabled, poolVars, queueVars, device, at, step>>

-----------------------------------------------------------------------------
(* The ports *)

InitPorts ==
  /\ \/ MainStays("port_init") /\ (SkipPort \/ InitDev \/ SkipJob \/ SetupRx \/ SetupTx)
     \/ MainGoes("port_init", "stat_init") /\ LoopEnds
     \/ MainGoes("port_init", "fail") /\ \E queues \in SUBSET TxQueues : InitFails(queues)
  /\ UNCHANGED <<lists, timers, mappingVars>>

StartPorts ==
  /\ \/ MainStays("port_start") /\ (SkipPort \/ StartDev)
     \/ MainGoes("port_start", "timers") /\ LoopEnds
     \/ MainGoes("port_start", "fail") /\ StartFails
  /\ UNCHANGED <<lists, timers, mappingVars>>

-----------------------------------------------------------------------------
(* stat.c and probe.c *)

InitStat ==
  /\ \/ MainGoes("stat_init", "probe_init") /\ lists' = lists \cup {"port_stat"}
     \/ MainGoes("stat_init", "fail") /\ lists' = lists
  /\ UNCHANGED <<timers, mappingVars, portVars>>

\* With no memory for the list or no pool, what there is is freed.
InitProbe ==
  /\ \/ MainGoes("probe_init", "port_start") /\ lists' = lists \cup {"probe_list", "probe_mp"}
     \/ MainGoes("probe_init", "fail") /\ lists' = lists \ {"probe_list", "probe_mp"}
  /\ UNCHANGED <<timers, mappingVars, portVars>>

\* stat_start, probe_start
StartTimers ==
  /\ MainGoes("timers", "run")
  /\ timers' = {"stat", "probe"}
  /\ UNCHANGED <<lists, mappingVars, portVars>>

-----------------------------------------------------------------------------
(* The end *)

\* All lcores were launched, ran and returned.
Run ==
  /\ MainGoes("run", "close")
  /\ UNCHANGED <<lists, timers, mappingVars, portVars>>

Close ==
  /\ MainGoes("close", "stop") /\ ClosePorts
  /\ UNCHANGED <<lists, timers, mappingVars>>

\* probe_stop, stat_stop
StopTimers ==
  /\ MainGoes("stop", "free")
  /\ timers' = {}
  /\ UNCHANGED <<lists, mappingVars, portVars>>

\* __pktsender_free
Free ==
  /\ MainGoes("free", "exit") \/ MainGoes("fail", "aborted")
  /\ FreePorts
  /\ lists' = {}
  /\ UNCHANGED <<timers, mappingVars>>

Next ==
  \/ ReadConfig \/ RefuseArgs \/ CopyPrefix \/ ParsePorts
  \/ CheckMapping \/ WriteNull \/ MapLcores
  \/ InitPorts \/ StartPorts \/ InitStat \/ InitProbe \/ StartTimers
  \/ Run \/ Close \/ StopTimers \/ Free

Spec == Init /\ [][Next]_vars

-----------------------------------------------------------------------------
(* Properties *)

TypePort ==
  /\ portList \in BOOLEAN
  /\ enabled \in SUBSET Ports
  /\ lcoreMap \in [enabled -> [Jobs -> Slaves \cup {NoLcore}]]
  /\ rxPool \in SUBSET enabled /\ txPool \in SUBSET enabled
  /\ rxQueue \in SUBSET enabled /\ txQueue \in SUBSET (enabled \X TxQueues)
  /\ device \in [Ports -> Devices]
  /\ at \in 0 .. NbPorts /\ step \in Jobs \cup {"dev"}

TypeMapping ==
  /\ configured \in BOOLEAN
  /\ params \in Seq([port : Nat, job : Jobs, lcore : {e.lcore : e \in Entries} \cup {StatLcore}])
  /\ i \in Nat /\ realCnt \in 0 .. MaxParams
  /\ jobs \in [Lcores -> [Jobs -> Seq(enabled)]]
  /\ config \in Seq(Entries)

\* Each variable holds what its C type and the code allow.
TypeOK ==
  /\ main \in Mains /\ lists \in SUBSET Lists /\ timers \in SUBSET {"stat", "probe"}
  /\ TypePort /\ TypeMapping

\* At every turn of __check_mapping, the entries kept are the first valid ones of
\* each queue among those read, each once, and no entry still to be read has been
\* written over.
FirstWins ==
  main = "check" =>
    /\ {params[n] : n \in 1 .. realCnt} = FirstEntries(i)
    /\ \A m, n \in 1 .. realCnt : params[m] = params[n] => m = n
    /\ \A n \in i + 1 .. Len(params) : params[n] = config[n]

\* What JobControl assumes of the mapping (ConstantsAssumption): when the lcores
\* are launched, the measurement lcore receives nothing and has a TX port.
JobControlReady ==
  main = "run" => jobs[StatLcore]["RX"] = << >> /\ jobs[StatLcore]["TX"] # << >>

\* When the lcores are launched, every queue that an lcore will use is set up on
\* a started device, and so is the probe queue of every port that sends.
QueuesReady ==
  main = "run" =>
    \A l \in Slaves :
      /\ \A n \in 1 .. Len(jobs[l]["RX"]) :
           LET p == jobs[l]["RX"][n] IN device[p] = "started" /\ p \in rxQueue
      /\ \A n \in 1 .. Len(jobs[l]["TX"]) :
           LET p == jobs[l]["TX"][n]
           IN  device[p] = "started" /\ \A q \in TxQueues : <<p, q>> \in txQueue

\* "txq 1 is used to transmit latency probe traffic" (port.h:26): while the probe
\* timer is armed, which sends on every enabled port, each has that queue.
ProbeQueueReady ==
  "probe" \in timers => \A p \in enabled : <<p, "TXQ_LATENCY">> \in txQueue

\* main() ends with every enabled device stopped and closed when it returns 0, and
\* however far it came and whatever failed, with no device started, no timer
\* armed, and every pool and list freed.  Devices that were configured and not
\* started when it failed stay as they are: port_init's fail_clear and port_start's
\* fail_close_port (port.c:353-356, 389-395) do not close them.
NothingLeft ==
  main \in {"exit", "aborted", "refused"} =>
    /\ main = "exit" => \A p \in enabled : device[p] = "closed"
    /\ \A p \in Ports : device[p] # "started"
    /\ timers = {} /\ lists = {} /\ ~portList
    /\ rxPool = {} /\ txPool = {}
=============================================================================
