---------------------------- MODULE LcoreMapping ----------------------------
(****************************************************************************)
(* Which lcore serves which queue (src/src/main.c): the entries of --config *)
(* as __parse_config stores them, the loop of __check_mapping that compacts *)
(* the array in place, the entries it adds for the measurement lcore, and   *)
(* __init_lcore_port, which distributes them to the lcores and the ports.   *)
(****************************************************************************)
EXTENDS Port

CONSTANTS
  Lcores,         \* the enabled lcores
  StatLcore,      \* the master lcore
  Entries,        \* the entries --config may hold
  MaxParams,      \* MAX_LCORE_PARAMS
  MaxPortPerJob,  \* MAX_PORT_PER_JOB
  MaxVaried       \* bound: later entries repeat the one before them

\* In the code MaxParams is 128 and DPDK has at most 32 ports.
ASSUME MappingAssumption ==
  /\ StatLcore \in Lcores
  /\ NoLcore \notin Lcores
  /\ Entries \subseteq [port : Nat, job : Jobs, lcore : {e.lcore : e \in Entries}]
  /\ MaxParams \in Nat /\ 2 * NbPorts < MaxParams
  /\ MaxPortPerJob \in Nat \ {0}
  /\ MaxVaried \in Nat \ {0}

VARIABLES
  configured,   \* whether lcore_params points to lcore_params_array
  params,       \* lcore_params_array, as far as it is filled
  i,            \* the index of the loop that runs
  realCnt,      \* real_cnt
  jobs,         \* the port_list of each job of each lcore
  config        \* history: the entries as they were parsed

mappingVars == <<configured, params, i, realCnt, jobs, config>>

Slaves == Lcores \ {StatLcore}

MappingInit ==
  /\ configured = FALSE /\ params = << >> /\ i = 0 /\ realCnt = 0
  /\ jobs = [l \in Lcores |-> [j \in Jobs |-> << >>]]
  /\ config = << >>

-----------------------------------------------------------------------------
(* __parse_config *)

\* nb_lcore_params = 0: a second --config replaces the first.
ConfigBegins ==
  /\ params' = << >> /\ config' = << >>
  /\ UNCHANGED <<configured, i, realCnt, jobs>>

ParseEntry(e) ==
  /\ Len(params) < MaxParams
  /\ Len(params) >= MaxVaried => e = params[Len(params)]
  /\ params' = Append(params, e) /\ config' = Append(config, e)
  /\ UNCHANGED <<configured, i, realCnt, jobs>>

ConfigEnds ==
  /\ configured' = TRUE
  /\ UNCHANGED <<params, i, realCnt, jobs, config>>

-----------------------------------------------------------------------------
(* __check_mapping *)

\* Mutant: the measurement lcore is taken like any other.
Valid_Stat(e) == e.port \in enabled /\ e.lcore \in Lcores

\* An invalid port is not enabled.
Valid(e) == e.port \in enabled /\ e.lcore \in Lcores /\ e.lcore # StatLcore

\* Mutant: only an exact copy is a duplicate.
SameQueue_Exact(d, e) == d = e

SameQueue(d, e) == d.port = e.port /\ d.job = e.job

\* Mutant: every entry is taken for new.
IsDup_Never(e) == FALSE

IsDup(e) == \E k \in 1 .. realCnt : SameQueue(params[k], e)

\* The entry is dropped, with a warning.
DropEntry ==
  /\ i < Len(params)
  /\ ~Valid(params[i + 1]) \/ IsDup(params[i + 1])
  /\ i' = i + 1
  /\ UNCHANGED <<configured, params, realCnt, jobs, config>>

\* Mutant: it is counted where it is.
KeepEntry_InPlace ==
  /\ i < Len(params)
  /\ Valid(params[i + 1]) /\ ~IsDup(params[i + 1])
  /\ realCnt' = realCnt + 1
  /\ i' = i + 1
  /\ UNCHANGED <<configured, params, jobs, config>>

\* It moves to the end of those kept so far.
KeepEntry ==
  /\ i < Len(params)
  /\ Valid(params[i + 1]) /\ ~IsDup(params[i + 1])
  /\ params' = [params EXCEPT ![realCnt + 1] = params[i + 1]]
  /\ realCnt' = realCnt + 1
  /\ i' = i + 1
  /\ UNCHANGED <<configured, jobs, config>>

\* Nothing beyond real_cnt is read from here on.
CheckEnds ==
  /\ i = Len(params)
  /\ params' = SubSeq(params, 1, realCnt)
  /\ i' = 0
  /\ UNCHANGED <<configured, realCnt, jobs, config>>

\* The measurement lcore's loop over the ports passes one that is not enabled ...
SkipDisabled ==
  /\ i \in Ports /\ i \notin enabled
  /\ i' = i + 1
  /\ UNCHANGED <<configured, params, realCnt, jobs, config>>

\* ... writes an entry for any other, and stops when the array is full.
AddMeasure ==
  /\ i \in Ports /\ i \in enabled
  /\ params' = Append(params, [port |-> i, job |-> "TX", lcore |-> StatLcore])
  /\ realCnt' = realCnt + 1
  /\ i' = IF realCnt' >= MaxParams THEN NbPorts ELSE i + 1
  /\ UNCHANGED <<configured, jobs, config>>

MeasureEnds ==
  /\ i \notin Ports
  /\ i' = 0
  /\ UNCHANGED <<configured, params, realCnt, jobs, config>>

-----------------------------------------------------------------------------
(* __init_lcore_port *)

HasPlace(l, j) == Len(jobs[l][j]) < MaxPortPerJob

\* Mutant: the port is given the measurement lcore, too.
MapEntry_All ==
  /\ i < Len(params)
  /\ LET e == params[i + 1]
     IN  /\ HasPlace(e.lcore, e.job)
         /\ jobs' = [jobs EXCEPT ![e.lcore][e.job] = Append(@, e.port)]
         /\ UpdateLcore(e.port, e.lcore, e.job)
  /\ i' = i + 1
  /\ UNCHANGED <<configured, params, realCnt, config>>

MapEntry ==
  /\ i < Len(params)
  /\ LET e == params[i + 1]
     IN  /\ HasPlace(e.lcore, e.job)
         /\ jobs' = [jobs EXCEPT ![e.lcore][e.job] = Append(@, e.port)]
         /\ IF e.lcore = StatLcore THEN UNCHANGED lcoreMap ELSE UpdateLcore(e.port, e.lcore, e.job)
  /\ i' = i + 1
  /\ UNCHANGED <<configured, params, realCnt, config>>

MapFails ==
  /\ i < Len(params)
  /\ ~HasPlace(params[i + 1].lcore, params[i + 1].job)
  /\ UNCHANGED <<mappingVars, lcoreMap>>

\* The array is not read again, and forgotten here.
MapEnds ==
  /\ i = Len(params)
  /\ params' = << >> /\ config' = << >> /\ i' = 0 /\ realCnt' = 0
  /\ UNCHANGED <<configured, jobs, lcoreMap>>

-----------------------------------------------------------------------------
(* Properties *)

\* The first of the first n entries of --config that may serve its queue.
FirstEntries(n) ==
  {config[k] : k \in {k \in 1 .. n : Valid(config[k]) /\
     \A h \in 1 .. k - 1 : Valid(config[h]) => ~SameQueue(config[h], config[k])}}

\* The lcore_params array never holds more than its MaxParams entries, with what
\* is added for the measurement lcore after the check and without a test, and no
\* port_list of a job more than its MaxPortPerJob.
WithinArrays ==
  /\ Len(params) <= MaxParams
  /\ \A l \in Lcores, j \in Jobs : Len(jobs[l][j]) <= MaxPortPerJob

\* A queue that an lcore is to serve is served by that lcore only, once, and the
\* port knows it by lcore_map: "This queue is not mapped to another lcore" (the
\* comment of __check_mapping), although entries are compared while the array is
\* rewritten under the loop.
QueueOwnership ==
  \A l \in Slaves, j \in Jobs :
    /\ \A n \in 1 .. Len(jobs[l][j]) :
         LET p == jobs[l][j][n]
         IN  /\ p \in enabled /\ lcoreMap[p][j] = l
             /\ \A m \in 1 .. n - 1 : jobs[l][j][m] # p
    /\ \A p \in enabled :
         lcoreMap[p][j] = l => \E n \in 1 .. Len(jobs[l][j]) : jobs[l][j][n] = p
=============================================================================
