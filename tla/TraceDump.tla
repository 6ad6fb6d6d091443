------------------------------ MODULE TraceDump ------------------------------
(****************************************************************************)
(* pt_analyzer dump (src/tools/cmd_dump.c): it reads the trace files into a *)
(* table of traces, one for each probe with a timestamp for each location,  *)
(* and prints a line for each trace.  The table of src/tools/cuckoohash.c   *)
(* is the KeyMap that CuckooHash implements; its data are indices of        *)
(* trace_data, which come out of a ring.                                    *)
(*                                                                          *)
(* Two things the code leaves to chance: the four bytes of padding in a     *)
(* key, which nothing sets and the table compares, and what is overwritten  *)
(* when a location has no place in a row, after which nothing is modelled.  *)
(****************************************************************************)
EXTENDS TraceFile

CONSTANTS
  TraceMax,     \* CMD_DUMP_TRACE_MAX
  LocMax,       \* CMD_DUMP_LOC_MAX
  Paddings      \* what the padding of a struct trace_id may hold

\* The columns of the hardware are there.
ASSUME DumpAssumption == TraceMax \in Nat \ {0} /\ LocMax \in Nat /\ LocMax > 1

VARIABLES
  phase,      \* "trace", "init", "read", "print", "done", "failed" or "overrun"
  at,         \* how many records were read, all files in a row
  map, ret,   \* trace_tbl
  data,       \* the timestamps in trace_data, by index and location
  ring,       \* trace_data_ring
  maxLoc,     \* mac_loc
  lines,      \* the lines printed
  keys,       \* history: the keys of the records that were read
  rejected    \* history: the places of the records that were not added

tableVars == <<map, ret, data, ring, maxLoc>>
readVars  == <<at, tableVars, keys, rejected>>
dumpVars  == <<phase, readVars, lines>>
vars == <<fileVars, dumpVars>>

Indices == 0 .. TraceMax - 1
Locs    == 0 .. LocMax - 1
Keys    == Probes \X Paddings                 \* struct trace_id

Table == INSTANCE KeyMap WITH Data <- Indices

NoStamp == [tid |-> 0, type |-> "cycles", time |-> 0]      \* zeroed memory
StampOf(r) == [tid |-> r.tid, type |-> r.type, time |-> r.time]

\* The files one after the other, as they are read.
Input == FlattenSeq(files)

\* The last of TraceMax puts is dropped, as a put that would fill the ring is refused
\* (HasRoom of RingBuffer).
FreeIndices == [n \in 1 .. TraceMax - 1 |-> n - 1]

Init ==
  /\ FileInit
  /\ phase = "trace" /\ at = 0
  /\ Table!Init
  /\ data = [n \in Indices |-> [l \in Locs |-> NoStamp]]
  /\ ring = << >> /\ maxLoc = 0
  /\ lines = << >> /\ keys = << >> /\ rejected = {}

Trace ==
  /\ phase = "trace" /\ Tracing
  /\ TraceStep
  /\ UNCHANGED dumpVars

-----------------------------------------------------------------------------
(* cmd_dump *)

\* The files are opened.
OpenFiles ==
  /\ phase = "trace" /\ ~Tracing
  /\ phase' = "init"
  /\ UNCHANGED <<fileVars, readVars, lines>>

\* A file cannot be opened, or the table or the ring not be made.
DumpFails ==
  /\ phase = "init"
  /\ phase' = "failed"
  /\ UNCHANGED <<fileVars, readVars, lines>>

\* __init_trace_tbl
InitTable ==
  /\ phase = "init"
  /\ phase' = "read" /\ ring' = FreeIndices
  /\ UNCHANGED <<fileVars, at, map, ret, data, maxLoc, lines, keys, rejected>>

\* Record r comes next, with key k in its lookup.
Comes(r, k) ==
  /\ phase = "read" /\ at < Len(Input) /\ r = Input[at + 1]
  /\ k \in Keys /\ k[1] = r.probe

\* Mutant: the columns are counted.
Columns_Count(r) == IF r.loc + 1 > maxLoc THEN r.loc + 1 ELSE maxLoc

Columns(r) == IF r.loc > maxLoc THEN r.loc ELSE maxLoc

\* __read_record takes it.
Reads(r, k) ==
  /\ Comes(r, k)
  /\ at' = at + 1 /\ keys' = Append(keys, k) /\ maxLoc' = Columns(r)
  /\ UNCHANGED <<fileVars, phase, lines>>

Rejects == rejected' = rejected \cup {at'}

\* Whether r is about to be written, to the trace of k or to a new one, ...
Writes(r, k) == Comes(r, k) /\ (map[k] # {} \/ ring # << >>)

\* ... behind its row: what else that overwrites is not modelled.
WriteOverruns(r, k) ==
  /\ Writes(r, k) /\ r.loc \notin Locs
  /\ phase' = "overrun"
  /\ UNCHANGED <<fileVars, readVars, lines>>

\* Mutant: a timestamp that is there already is kept.
UpdateTrace_Keep(r, k) ==
  /\ Reads(r, k) /\ map[k] # {} /\ r.loc \in Locs
  /\ \E n \in map[k] :
       data' = IF data[n][r.loc] = NoStamp THEN [data EXCEPT ![n][r.loc] = StampOf(r)] ELSE data
  /\ UNCHANGED <<map, ret, ring, rejected>>

UpdateTrace(r, k) ==
  /\ Reads(r, k) /\ map[k] # {} /\ r.loc \in Locs
  /\ \E n \in map[k] : data' = [data EXCEPT ![n][r.loc] = StampOf(r)]
  /\ UNCHANGED <<map, ret, ring, rejected>>

NoIndex(r, k) ==
  /\ Reads(r, k) /\ map[k] = {} /\ ring = << >>
  /\ Rejects
  /\ UNCHANGED <<map, ret, data, ring>>

\* The memory of the index is zeroed and gets the record's timestamp ...
FillIndex(r) ==
  data' = [data EXCEPT ![Head(ring)] =
             [l \in Locs |-> IF l = r.loc THEN StampOf(r) ELSE NoStamp]]

TakeIndex == ring' = Tail(ring)

AddTrace(r, k) ==
  /\ Reads(r, k) /\ map[k] = {} /\ ring # << >> /\ r.loc \in Locs
  /\ FillIndex(r) /\ TakeIndex
  /\ Table!Add(k, Head(ring))
  /\ UNCHANGED rejected

\* ... for nothing if the table has no place: the index is lost.
TableFull(r, k) ==
  /\ Reads(r, k) /\ map[k] = {} /\ ring # << >> /\ r.loc \in Locs
  /\ FillIndex(r) /\ TakeIndex
  /\ Table!AddFails
  /\ Rejects

ReadEnds ==
  /\ phase = "read" /\ at = Len(Input)
  /\ phase' = "print"
  /\ UNCHANGED <<fileVars, readVars, lines>>

\* cuckoohash_iterate leads to each key in the table, in the order of the slots.
Unprinted == {k \in Keys : map[k] # {} /\ \A n \in DOMAIN lines : lines[n].key # k}

\* cpu_hz, which nothing assigns
CpuHz == 0

\* __get_time_ns
GetTimeNs(s) == IF s.type = "cycles" THEN s.time * CpuHz ELSE s.time

Printed(s) == [tid |-> s.tid, nsec |-> GetTimeNs(s)]

\* The line shows the probe of its key.  The columns are the locations up to
\* mac_loc ...
PrintTrace(k) ==
  /\ phase = "print" /\ k \in Unprinted /\ maxLoc \in Locs
  /\ \E n \in map[k] :
       lines' = Append(lines, [key |-> k, stamps |-> [l \in 0 .. maxLoc |-> Printed(data[n][l])]])
  /\ UNCHANGED <<fileVars, phase, readVars>>

\* ... even if the rows end before: what is printed then is not modelled.
PrintOverruns(k) ==
  /\ phase = "print" /\ k \in Unprinted /\ maxLoc \notin Locs
  /\ phase' = "overrun"
  /\ UNCHANGED <<fileVars, readVars, lines>>

PrintEnds ==
  /\ phase = "print" /\ Unprinted = {}
  /\ phase' = "done"
  /\ UNCHANGED <<fileVars, readVars, lines>>

AddRecord(r, k) ==
  UpdateTrace(r, k) \/ NoIndex(r, k) \/ AddTrace(r, k) \/ TableFull(r, k) \/ WriteOverruns(r, k)

Next ==
  \/ Trace \/ OpenFiles \/ DumpFails \/ InitTable
  \/ \E r \in Range(Input), k \in Keys : AddRecord(r, k)
  \/ ReadEnds
  \/ \E k \in Keys : PrintTrace(k) \/ PrintOverruns(k)
  \/ PrintEnds

Spec == Init /\ [][Next]_vars

-----------------------------------------------------------------------------
(* Properties *)

Records ==
  [probe : Probes, loc : 0 .. 255, tid : DOMAIN Roles,
   type : {"cycles", "timespec"}, time : Nat]

TypeFile ==
  /\ files \in Seq(Seq(Records)) /\ Len(files) <= Len(Roles)
  /\ tid \in {"new", "known", "failed"}
  /\ cache \in Seq(Records) /\ Len(cache) < CacheSize
  /\ file \in Seq(Records) /\ captured \in Seq(Records)
  /\ batch \in Seq(Probes \cup {Plain}) /\ came \in Nat /\ loc \in 0 .. 255

\* The cache never overruns and indices stay within trace_data, beside the types.
\* (Locations need not stay within its rows: RowsHold.)
TypeOK ==
  /\ TypeFile
  /\ phase \in {"trace", "init", "read", "print", "done", "failed", "overrun"}
  /\ at \in 0 .. Len(Input)
  /\ map \in [Keys -> SUBSET Indices] /\ ret \in {"ok", "ENOSPC"}
  /\ data \in [Indices -> [Locs -> [tid : Nat, type : {"cycles", "timespec"}, time : Nat]]]
  /\ ring \in Seq(Indices) /\ maxLoc \in 0 .. 255
  /\ keys \in Seq(Keys) /\ Len(keys) = at
  /\ rejected \subseteq 1 .. at

\* The dump writes or prints beyond a row of trace_data only if some file holds a
\* location of CMD_DUMP_LOC_MAX or more, which nothing keeps a tool from giving
\* trace_handler: mac_loc, up to which it prints, is never ahead of the locations.
RowsHold == phase = "overrun" => \E n \in DOMAIN Input : Input[n].loc \notin Locs

\* What is to be printed for key k at location l: the thread and the time of the
\* last record that was read with k and not rejected, but 0 for the time of a
\* record that holds cycles.
LastStamp(k, l) ==
  LET places == {n \in (DOMAIN Input) \ rejected : keys[n] = k /\ Input[n].loc = l}
      last   == Input[Max(places)]
  IN  IF places = {} THEN [tid |-> 0, nsec |-> 0]
      ELSE [tid |-> last.tid, nsec |-> IF last.type = "timespec" THEN last.time ELSE 0]

\* A dump that ends without an overrun has printed exactly one line for each key
\* with a record that was not rejected, which shows the record's probe, and on it,
\* under every location of such a record, the thread of the last one in the files
\* and, if the hardware took it, its time; a key that has a line lost no record
\* after its first one.
DumpFaithful ==
  phase = "done" =>
    /\ \A n \in DOMAIN Input : keys[n][1] = Input[n].probe
    /\ \A n \in (DOMAIN Input) \ rejected :
         \E m \in DOMAIN lines :
           lines[m].key = keys[n] /\ Input[n].loc \in DOMAIN lines[m].stamps
    /\ \A m \in DOMAIN lines :
         /\ \A h \in 1 .. m - 1 : lines[h].key # lines[m].key
         /\ \A l \in DOMAIN lines[m].stamps : lines[m].stamps[l] = LastStamp(lines[m].key, l)
    /\ \A n \in rejected : \A h \in 1 .. n - 1 : keys[h] = keys[n] => h \in rejected

\* "Convert timestamp in the trace to nanosecond" (cmd_dump.c:138): as no clock
\* reads 0, a location of which a record was added never shows 0.
TimesConverted ==
  phase = "done" =>
    \A n \in (DOMAIN Input) \ rejected : \A m \in DOMAIN lines :
      lines[m].key = keys[n] => lines[m].stamps[Input[n].loc].nsec # 0
=============================================================================
