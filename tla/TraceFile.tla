------------------------------ MODULE TraceFile ------------------------------
(****************************************************************************)
(* How the records of a thread get into its trace file                      *)
(* (src/pkttracer/pt_trace.c): local_info, its cache, and the file, for     *)
(* each of the three ways to record.  The threads share nothing, so they    *)
(* are taken one after the other; a thread may end at any point, and what   *)
(* stdio has not written by then is lost if it was killed.  fwrite writes   *)
(* all it is given.                                                         *)
(****************************************************************************)
EXTENDS Integers, Sequences, SequencesExt

CONSTANTS
  Probes,       \* the probes, as (probe_sender, probe_idx)
  Plain,        \* a packet that is no probe, or has no timestamp
  Roles,        \* what each thread records with
  Locations,    \* the locations that a tool gives trace_handler
  CacheSize,    \* PER_THREAD_CACHE_SIZE
  MaxBatch,     \* bound: the packets of a burst (32 in pktsender)
  MaxRecords    \* bound: the records of a thread

\* "tx": trace_hw_tx_record, "rx": trace_hw_rx_record, "sw": trace_handler
ASSUME TraceAssumption ==
  /\ Plain \notin Probes
  /\ Roles \in Seq({"tx", "rx", "sw"})
  /\ Locations \subseteq 0 .. 255 /\ Locations # {}
  /\ CacheSize \in Nat \ {0} /\ MaxBatch \in Nat /\ MaxRecords \in Nat

VARIABLES
  files,      \* the files of the threads that have ended
  tid,        \* "new" (0), "known", or "failed" (-1)
  cache,      \* the nb_record first records of cache
  file,       \* what was written to fout
  batch,      \* the packets that the running call has not looked at
  came,       \* when they came
  loc,        \* the location they are recorded with, if the call is trace_handler
  captured    \* history: the records with a timestamp that the thread was given

callVars   == <<batch, came, loc>>
threadVars == <<tid, cache, file, callVars, captured>>
fileVars   == <<files, threadVars>>

Thread == Len(files) + 1
Role   == Roles[Thread]
Tracing == Thread \in DOMAIN Roles

\* LOC_HARDWARE_TX, LOC_HARDWARE_RX, and any uint8_t from the caller of trace_handler
LocOf == [tx |-> 0, rx |-> 1, sw |-> loc]

\* The TSC, as nothing defines PT_NIC_TIMESTAMP, or the clock of the NIC
TypeOf == [tx |-> "timespec", rx |-> "timespec", sw |-> "cycles"]

\* The number of records so far is the clock; neither the TSC nor a NIC reads 0.
Now == Len(captured) + 1

FileInit ==
  /\ files = << >>
  /\ tid = "new" /\ cache = << >> /\ file = << >>
  /\ batch = << >> /\ came = 0 /\ loc = 0 /\ captured = << >>

\* The record of probe k with the timestamp read now, or, in trace_handler, the
\* one that was read for the burst.
NewRecord(k) ==
  [probe |-> k, loc |-> LocOf[Role], tid |-> Thread, type |-> TypeOf[Role],
   time |-> IF Role = "sw" THEN came ELSE Now]

-----------------------------------------------------------------------------
(* trace_flush, __record_to_cache *)

\* What is written, and what stays in the cache, of the records c.
Flush(c) == file' = file \o c /\ cache' = << >>

\* Mutant: nb_record is not reset.
FlushIfFull_KeepCount(c) ==
  IF Len(c) >= CacheSize THEN file' = file \o c /\ cache' = c ELSE file' = file /\ cache' = c

\* Mutant: the cache is flushed by the record after the last that fits.
FlushIfFull_Late(c) ==
  IF Len(c) > CacheSize THEN Flush(c) ELSE file' = file /\ cache' = c

FlushIfFull(c) == IF Len(c) >= CacheSize THEN Flush(c) ELSE file' = file /\ cache' = c

\* trace_hw_tx_record and trace_hw_rx_record flush after every record.
Store(c) == IF Role = "sw" THEN FlushIfFull(c) ELSE Flush(c)

\* The file is open or can be opened now ...
RecordToCache(k) ==
  /\ tid' = "known"
  /\ captured' = Append(captured, NewRecord(k))
  /\ Store(Append(cache, NewRecord(k)))

\* ... or not: the record is lost, and every later call of this thread records nothing.
\* The rest of the burst is not: each of its records tries to open the file again.
OpenFails(k) ==
  /\ tid # "known" /\ tid' = "failed"
  /\ captured' = Append(captured, NewRecord(k))
  /\ UNCHANGED <<cache, file>>

-----------------------------------------------------------------------------
(* The calls *)

\* trace_hw_tx_record, if it read a timestamp (the rest of it is in ProbeTrace).
\* Each probe is sent once.
RecordTx(k) ==
  /\ Tracing /\ Role = "tx" /\ tid # "failed"
  /\ Len(captured) < MaxRecords
  /\ \A n \in DOMAIN captured : captured[n].probe # k
  /\ RecordToCache(k) \/ OpenFails(k)
  /\ UNCHANGED <<files, callVars>>

\* trace_hw_rx_record and trace_handler are called with a burst.
Receive ==
  /\ Tracing /\ Role \in {"rx", "sw"} /\ tid # "failed" /\ batch = << >>
  /\ batch' \in UNION {[1 .. n -> Probes \cup {Plain}] : n \in 1 .. MaxBatch}
  /\ came' = Now
  /\ loc' \in (IF Role = "sw" THEN Locations ELSE {loc})
  /\ UNCHANGED <<files, tid, cache, file, captured>>

\* trace_handler opens the file before it looks at the packets.
HandlerFails ==
  /\ Tracing /\ Role = "sw" /\ tid = "new" /\ batch # << >>
  /\ tid' = "failed" /\ batch' = << >>
  /\ UNCHANGED <<files, cache, file, came, loc, captured>>

HandlerOpens ==
  /\ Tracing /\ Role = "sw" /\ tid = "new" /\ batch # << >>
  /\ tid' = "known"
  /\ UNCHANGED <<files, cache, file, callVars, captured>>

\* The loop over the packets, past a packet that is no probe ...
InLoop == Tracing /\ batch # << >> /\ (Role = "sw" => tid = "known")

SkipPacket ==
  /\ InLoop /\ Head(batch) = Plain
  /\ batch' = Tail(batch)
  /\ UNCHANGED <<files, tid, cache, file, came, loc, captured>>

\* ... past one whose timestamp cannot be read (the cache is flushed then, too) ...
ReadFails ==
  /\ InLoop /\ Role = "rx" /\ Head(batch) # Plain
  /\ Flush(cache)
  /\ batch' = Tail(batch)
  /\ UNCHANGED <<files, tid, came, loc, captured>>

\* ... or with a record of it.
RecordRx ==
  /\ InLoop /\ Head(batch) # Plain /\ Len(captured) < MaxRecords
  /\ RecordToCache(Head(batch)) \/ OpenFails(Head(batch))
  /\ batch' = Tail(batch)
  /\ UNCHANGED <<files, came, loc>>

\* The thread ends, with a part of what was written in its file: all of it if the
\* process exits, and what had left the buffer of stdio if it is killed.  A
\* record that was cut in two is not read by anyone.
EndThread ==
  /\ Tracing
  /\ \E n \in 0 .. Len(file) : files' = Append(files, SubSeq(file, 1, n))
  /\ tid' = "new" /\ cache' = << >> /\ file' = << >>
  /\ batch' = << >> /\ came' = 0 /\ loc' = 0 /\ captured' = << >>

TraceStep ==
  \/ \E k \in Probes : RecordTx(k)
  \/ Receive \/ HandlerFails \/ HandlerOpens \/ SkipPacket \/ ReadFails \/ RecordRx
  \/ EndThread

-----------------------------------------------------------------------------
(* Properties *)

\* File and cache together hold the records a thread was given, in order, each
\* once and without a gap; what is missing was given before the file could be
\* opened.  The hardware's records do not wait in the cache between two calls.
CapturedKept ==
  /\ IsSuffix(file \o cache, captured)
  /\ Tracing /\ Role # "sw" => cache = << >>
=============================================================================
