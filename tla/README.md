# A TLA+ verification of pkt-sender

pkt-sender is a DPDK packet generator: it sends traffic at a given rate on some ports, receives on
others, sends latency probes with hardware timestamps, and has an offline analyser for the traces it
writes. This directory holds TLA+ modules that follow the code, TLC configurations that check them
on small instances, and TLAPS proofs for every value of their constants.

How to run: `tlc -config X.cfg M` with the module and cfg of a run in `PROJECT.json`, and `tlapm M.tla`
for the modules with proofs: `JobControlProofs`, `RingBufferProofs`, `ProbeTraceProofs`,
`CuckooHashProofs`, `StartupProofs`, `TransmitProofs` and `TraceDumpProofs`.

## 1. Inventory

| part | source | state | operations | hard because | what makes it correct |
|---|---|---|---|---|---|
| job control | `src/pktsender.c`, `src/main.c:495-563` | `pktsender.job_state`, `sig_recved`, the position of each lcore | SIGINT handler, the loops of the lcores, launch, wait, close, free | a signal on any thread at any time, unlocked `uint8_t` updates, flags read once per pass | first Ctrl-C stops TX only, second everything; TX really ends; RX goes on; no loop runs once ports are closed; the process ends |
| ring buffer | `tools/ringbuffer.c` | `write_pos`, `finish_pos`, `read_pos`, the bytes | `create`, `put`, `get` | lock-free, several writers, wrap-around | a bounded FIFO queue; no race, no loss; `put` returns |
| probes and TX trace | `src/probe.c`, `pkttracer/pt_trace.c` | `next_idx`, `next_pkt`, `local_info`, the NIC's timestamp register | timer callback, prepare, record, flush | the NIC answers late or never, refuses, mbufs run out | consecutive indices; a record has its own probe's timestamp |
| trace files | `pkttracer/pt_trace.c` | `local_info` and a file per thread | `trace_handler`, `trace_hw_rx_record`, `trace_flush`, `writen` | files that cannot be opened, threads that are killed, short writes | each timestamped packet is recorded once, in order |
| transmitter | `src/transmitter.c` | `rate_next_cycles`, the TX buffer, the mempool | rate check, bulk allocation, burst | the NIC owns mbufs after a burst; the send loop looks at no flag | no mbuf is owned twice; the rate is kept |
| port lifecycle | `src/port.c` | `port_list`, its pools, queues and devices | init, start, close, free | one port of several fails | what was started is closed, what was allocated is freed, in that order |
| start-up and exit | `src/main.c:451-563`, `stat_init`, `probe_init` | the lists, the timers | the steps of `main()` | any step may fail | what the lcores use is there when they are launched; nothing is left at the end |
| mapping | `src/main.c:96-330` | `lcore_params`, `lcore_list` | `__parse_config`, `__check_mapping`, `__init_lcore_port` | compaction in place, fixed arrays | first mapping of a queue wins; no queue has two lcores |
| argument parsing | `src/main.c:332-436`, `src/util.h`, `src/pkt_seq.c` | options | rate, portmask, numbers, MAC | `errno`, shifts | the value that is written is the value that is used |
| statistics | `src/stat.c` | previous counters | timer callback, stop | counters read after close | rates are differences of readings |
| cuckoo hash | `tools/cuckoohash.c`, `tools/hash.c` | buckets, key store, free slots | create, add, lookup, delete, iterate | displacement of entries, failure half-way | a map from keys to data; slots are conserved |
| trace dump | `tools/cmd_dump.c` | table of traces, free list | read, add, dump | a table or list that is full, locations beyond the rows, keys with unset padding | one line per key with the last timestamp of each location |
| analyser's command line | `tools/command.c`, `tools/pt_analyzer.c` | none | look up a sub-command | nothing | - |

How they interact. `main()` maps ports to lcores, initialises and starts the ports and the two
timers, sets `job_state` and launches every lcore. Slaves receive (`__process_rx`, which hands
packets to the tracer) and send (`port_transmit`); the master lcore runs the timers' callbacks
(`__process_stat`, `__process_probe`). All communication is by `job_state`, which the loops and the
probe callback poll and the signal handler writes. The tracer writes files, one per thread, which
`pt_analyzer dump` later reads into a cuckoo hash whose free slots, like the dump's own free list,
are kept in a ring buffer.

What can go wrong there and is hard to test is listed, at its line, under `hazards` in
`PROJECT.json`, with the properties that would catch it.

## 2. The modules

### JobControl

| state | code |
|---|---|
| `jobState`, `sigRecved` | `pktsender.job_state` (as the set of its bits), `sig_recved` |
| `main`, `ports`, `timers`, `lists` | the place in `main()`, the devices, the armed timers, the lists that `__pktsender_free` frees |
| `hpc`, `hjob`, `hsig` | per thread, the frame of `pktsender_sig_handler`: place, loaded `job_state`, loaded `sig_recved` |
| `lpc`, `idx`, `probed` | per lcore, the place in its loop, and the index of the loop over ports |
| `presses`, `pending` | Ctrl-C so far, and whether a SIGINT is pending |
| `past`, `handled`, `late`, `failed` | history for the properties; no action of the code reads it |

`job_state &= ~TX` and `sig_recved++` are a load and a store each, since the variables are plain
bytes and `signal()` keeps SIGINT out of the handling thread only. A handler suspends its own
thread: no step of that lcore, or of `main()` on the master, is taken until it returns. Each test of
a flag, each burst on a port, and each statement of `main()` that matters is an action. Failures are
choices: initialisation may fail, a transmit may fail (the lcore leaves its loop, RX included), the
NIC may refuse a probe, a probe's mbuf may be missing.

`past` says which premises of a property failed: `"early"` when a handler was entered before
`job_state = JOB_FLAGS_ALL`, `"overlap"` when one was entered while another thread was in one. Both
happen in the model, in every run. Properties that need them not to have happened say so, and a run
shows what is lost when they do:

* `GracefulStop` (signals one at a time, after the start): between handlers, one Ctrl-C has left
  exactly RX, two have left nothing, and so it stays, also when the counter wraps and a later Ctrl-C
  takes the first or second branch again.
* `TxOverrunBounded`, `RxLoopKeepsRunning`, `JobsOnlyStop` (no overlap): at most one burst per TX
  port goes out after the bit is cleared; RX is not stopped by stopping TX; no job is started again.
* `LoopsOnOpenPorts` (no premise): every loop, and every timer callback, which runs inside a loop,
  runs between `port_start` and `port_close` and before `__pktsender_free`. `main()` itself is no
  loop: its `stat_stop` reads the counters of ports that are closed by then (`main.c:555`), and the
  property does not speak of that.
* `SecondSignalExits` (liveness): after the second Ctrl-C `main()` returns.

### RingBuffer, ByteFifo

Each load, store or compare-and-swap of a shared position, and each byte copied, is an action;
`Refuse`, `ClaimFails` and the retry of `Finish` are the loops and early returns of
`ringbuffer_put`. Any number of writers and one reader; the code calls `put` from several places,
and the comment promises lock freedom for one writer and one reader only. The load of `read_pos` and
the test against it are one step: nothing but the reader moves `read_pos`, and it only frees. The
bytes are numbered in the order their room was claimed.

With several writers, `write_pos` can come round the ring between a writer's load and its
compare-and-swap. `stale` records the writers whose claim succeeded although others had claimed
since. The properties assume there is none (`Sound`). That this is needed is known: without it,
`claimed - consumed < Size` fails in the two-writer instance. That it is no restriction with one
writer is a theorem (`OneWriterIsSound`).

* `NoRace`: the regions that two writers, or a writer and the reader, are copying are disjoint.
* `NeverFull`: the positions are the images of the byte counts, and the ring is never full.
* `InOrder`: the reader gets byte after byte, none lost or repeated or uncopied.
* `PutsReturn` (liveness): a put that has claimed its room returns, that is, the spin on
  `finish_pos` ends (as long as no claim was stale).
* `ImplementsFifo`: as long as no claim was stale, the ring refines `ByteFifo`, a bounded queue with
  atomic `Put` (at the store of `finish_pos`) and `Get` (at the store of `read_pos`).

`PutLens` excludes 0: all callers put four bytes.

### ProbeTrace

`__process_probe` with `trace_hw_tx_prepare` and `trace_hw_tx_record`, on the stat lcore, one action
per call that the outside can answer differently, and the NIC beside it. `queue` holds what
`rte_eth_tx_burst` took; `Transmit` sends the first of it and latches its timestamp unless the
register still holds an earlier one. That is modelled from how the code uses the NIC (its comment on
"latching with old value") and marked external in the map. Index n of a port and timestamp n+1
belong together, since the n-th index is the one handed over n+1-st: that this is so is
`ProbesInSequence`.

* `ProbesInSequence`: no index is skipped or sent twice, whatever the NIC refuses, whenever mbufs
  run out or TX is stopped.
* `OwnTimestamps`: on a port where no wait ended in vain, each record has its probe's timestamp.
* `StampsNeverAhead`: in any case a timestamp is used once, in order, and never for an earlier
  probe.
* `CallbackReturns`: the wait for the timestamp ends, so the measurement loop sees a stop.

### CuckooHash, KeyMap

| state | code |
|---|---|
| `table`, `flags`, `keyStore` | the buckets (signatures and `key_idx` of each slot), their `flag[]`, the key store |
| `free` | the ring `free_slots`: one thread uses it and it has room for one index more than there are, so it is a queue |
| `pc`, `new`, `bucket`, `stack`, `hole` | the frames of an add: its place, its index, the bucket of the innermost `make_space_bucket`, the slots the outer levels are to move, the slot vacated last |
| `ret`, `calls` | what the latest call returned; how many there were |

An add or a delete that moves nothing is one action. When the first bucket is full, each level of
`make_space_bucket` is an action on the way down (`Push`, `Descend`, `NoSpace`) and one on the way
up (`Unwind`, `UnwindFailure`), and a lookup may be asked between any two. `Hash` and `Alt` stand
for the CRC and `hash_secondary`. Of them the model assumes only that 0 is not its own other
signature. An add takes an index before it looks for the key, so it can fail with `ENOSPC` for a key
that is in the table, and `KeyMap` allows that.

* `ImplementsMap`: with `map[k]` what a lookup of k returns, the table refines `KeyMap`; the map
  changes only when a call returns, and for its key only. Moving an entry, which is for a moment in
  two slots, is invisible.
* `EntriesInPlace`: each entry is in a bucket, and in the one of two orders of signatures, that its
  key leads to.
* `IndicesConserved`: an index is free, in one entry, or held by the running add; no flag stays set.
* `AddReturns`: the recursion ends, with room or without.

### Port, LcoreMapping, Startup

One sequential program in three layers. `Port` is `port.c`, with a port and a job per step;
`LcoreMapping` extends it with the array of `--config` and the lists of the lcores; `Startup`
extends that with `main()`.

| state | code |
|---|---|
| `enabled`, `lcoreMap`, `rxPool`, `txPool` | the fields of `port_list[]` |
| `rxQueue`, `txQueue`, `device` | what DPDK was told of queues and devices |
| `at`, `step`, `i` | the counters of the loop that runs: `portid` and the job, or the index into the array |
| `params`, `realCnt`, `configured` | `lcore_params_array`, `real_cnt`, and whether `lcore_params` was set |
| `jobs` | the `port_list` of each job in `pktsender.lcore_list` |
| `main`, `lists`, `timers` | the place in `main()`, what `malloc` and `rte_pktmbuf_pool_create` gave, the armed timers |
| `config` | history: the entries as they were parsed |

Each call that can fail is a choice, and each failure undoes what the code undoes there:
`fail_free_mp`, `fail_clear`, `fail_close_port`, `probe_init`'s own, and `fail_free_all`. The launch
of the lcores, what they do, and the wait for them are one step (`Run`), and JobControl's subject.
Arguments are sets and entries, not strings; `main` ends in `"crashed"` where the code dereferences
NULL (`-o`, whose argument getopt does not pass, and no `--config` at all). The check for no valid
mapping (`main.c:490`) can never hold, since the entries of the measurement lcore are counted, and
has no action.

* `FirstWins`: at every turn of `__check_mapping`'s loop, the head of the array is the set of first
  valid entries of what was read, and the rest is untouched. The reference is a set comprehension
  over `config`, which knows no array.
* `WithinArrays`: `lcore_params_array` and the four places of a job never overflow. The first holds
  only because duplicates are dropped, as at most two entries per port are left; the code compares
  after it has written.
* `QueueOwnership`: what the lcores poll and what `lcore_map` says are the same, and no queue is
  polled by two.
* `JobControlReady`: the assumption of JobControl, `ConstantsAssumption`, is what the mapping
  leaves.
* `QueuesReady`: what the lcores will use is set up and started when they are launched.
* `PoolBacked`: no pool is freed under a started device.
* `NothingLeft`: `main()` returns 0 only with every enabled device closed. Wherever it failed, it
  leaves no device started, no timer armed, and no pool or list; but devices that were configured and
  not started stay as they are, since `fail_clear` and `fail_close_port` do not close them
  (`port.c:353-356, 389-395`).

### Transmit

One TX queue and its lcore. `pool` counts how often `tx_mp` holds each mbuf, `refcnt` is a
`uint16_t`, `queue` the descriptors in use, `done` how many of them the NIC has sent. The driver
frees the mbufs of sent descriptors inside a later `rte_eth_tx_burst`, any number of them, and all
of a burst's mbufs are freed by the lcore at its end (`transmitter.c:278`), so each is freed twice,
in either order, and may be allocated again in between. The mempool, the reference counts, the
driver and the NIC are external, modelled from their use here. The build is one in which
`RTE_ASSERT` is empty, as in DPDK's own release builds since 16.07; elsewhere the program would stop
at the assertion that run `transmit_doc` refutes.

* `PoolConserved`: no mbuf is in the pool twice, and between bursts all are there. It holds although
  every mbuf is freed twice, because an allocation sets the count to 1: the mutant that keeps the
  count breaks it.
* `HandedOver`: the NIC gets each packet of a burst once, in order, however few it takes at a time.
* `RateKept` (on steps): a burst begins no sooner than its predecessor's bytes take, and is not held
  back longer.
* `BurstReturns` (liveness): `__send_burst` ends, if the NIC sends.

### TraceFile, TraceDump

`TraceFile` is a thread's `local_info` and its file under the three ways of recording: after a sent
probe, for each received burst, and by `trace_handler`, which a tool calls and which alone lets
records wait in the cache. The threads share nothing, so they run one after the other and lose no
behaviour; each may end at any point, and then its file is any beginning of what was written.
`TraceDump` extends it with `pt_analyzer dump`, which reads all the files, over `KeyMap`, the map
that CuckooHash implements, and the ring of free indices, of which the last is dropped when it is
filled.

* `CapturedKept`: file and cache are, in order and without a gap, what the thread was given, but for
  a beginning that was lost while the file could not be opened.
* `RowsHold`: the rows of `trace_data`, one column per location, are overrun only if some file holds
  a location that has no column; `mac_loc`, up to which they are printed, never gets ahead.
* `DumpFaithful`: exactly one line for each key with a record that was not rejected; under each
  location the thread of the last such record in the files, and its time as `__get_time_ns` converts
  it; and a key that has a line has lost no record since its first.

Three things in this code are not what one would take them for, and the model has them as they are.
A *location* is any `uint8_t` that a tool gives `trace_handler` (`Locations`), and nothing compares
it with `CMD_DUMP_LOC_MAX`: a write or a print behind a row takes the dump to phase `"overrun"`,
where the model stops, since it does not say what is overwritten. A *timestamp* is a `timespec` if
the NIC took it, and cycles in the records of `trace_handler`; the latter are printed as 0, since
`cpu_hz` is (finding 5). So a line shows, of a software location, only that a record is there, and
from which thread. And the *key* of a trace, `struct trace_id`, has padding that is never set, and
is hashed and compared with it. `Keys` are pairs of probe and padding, the padding is any of
`Paddings` at each record, and `DumpFaithful` holds whatever it is; that a probe, and not only a
key, has one line needs it to be constant. The build that the repository configures (`-O2`) is
likely to inline `__add_record`, so that the padding is one unwritten word of `cmd_dump`'s frame
throughout a run, but nothing in the code ensures it.

## 3. The runs

| run | instance | shows |
|---|---|---|
| `job_stop` | 2 lcores (master with 2 ports; one slave that receives on 1 and sends on 2), 4 Ctrl-C, counter of 3 values | the properties of JobControl |
| `job_doc` | 2 lcores, 2 Ctrl-C, counter of 256 values | expected violation, see below |
| `ring_many` | 2 writers, 4 bytes, puts of 1 or 3, gets of 1..4, 4 puts | no race, no loss, a FIFO, puts return |
| `probe` | 3 ports of which 2 enabled, 3 probes each, the register read up to 3 times | the properties of ProbeTrace |
| `probe_doc` | 1 port, 2 probes | expected violation |
| `hash_map` | 4 buckets of 2 slots, 5 entries, 5 keys, 7 calls | the properties of CuckooHash |
| `startup` | 3 ports, 3 lcores, 4 masks, 9 kinds of entries, an array of 7, 2 ports per job | the properties of Startup, LcoreMapping and Port |
| `startup_doc` | the same | expected violation |
| `transmit` | 3 mbufs, bursts of 2, 3 descriptors, counts modulo 7, a burst worth 1.5 cycles, 8 cycles | the properties of Transmit |
| `transmit_doc` | the same with counts modulo 65536 | expected violation |
| `trace` | 3 threads, 3 probes, 2 records each, 2 paddings, a cache of 2, 2 indices, 4 columns, locations 3 and 4 | the properties of TraceFile and TraceDump |
| `trace_time` | 2 threads, 2 probes | expected violation |

Bounds. *`SigWrap`* is 256 in the code. The handler tells 0, 1 and the rest apart, and 3 is the least
wrap that has all three; with 4 Ctrl-C the counter wraps and the branches are taken again, which 256
would hide. *Two threads* let handlers overlap; that more add nothing is proved (section 4), for the
safety properties. Two TX ports per lcore make "one burst per port" differ from "one burst". *Ring*:
four bytes and four puts of one byte, or of the three that fit, lap the ring, wrap both positions and
split both copies; two writers race and wait for each other. *Probes*: three probes let a stale
timestamp be taken for the next probe and the next but one; `MaxWait` 2 (1000 in the code) has a first,
a middle and a last read, which the code tells apart only by `wait_us == 1000`. *Hash*: two slots per
bucket (4 in the code) let a full bucket have a slot that can and one that cannot be moved, and seven
calls are the five adds that fill two buckets and use the last index, and two more. The five keys have
the cases that matter: two share both signatures, one has the same buckets in the opposite order, so
that displacement goes in a circle and meets the flags, one leads out of the circle, and one has both
its places in one bucket. Data are 0, except that key 2 can be added again with 1. *Start-up*: the
entries name a queue twice with different lcores, a disabled port, one that does not exist, a disabled
lcore and the stat lcore; three are free (`MaxVaried`) and the rest repeat the last, which fills the
array without a choice for each place. `MaxParams` 7 (128 in the code) is the least array that three
ports with two queues do not fill, as the 32 ports of DPDK do not fill 128; `MaxPortPerJob` 2 (4) is
exceeded by the mask of three ports. *Transmit*: pool and queue have equal sizes, as `NB_MBUFS` and
`TX_DESC_DEFAULT` have; a burst is neither a divisor of them nor as large, so that bursts straddle the
end of the queue; the wrap of the counts only has to exceed the references there can be
(`TransmitAssumption`). A burst worth 1.5 cycles makes the rounding matter. *Trace*: two records fill
and flush a cache of two, and one is left in it when a thread ends between them. Three probes on two
indices, and more keys than that, exhaust them. Of `Locations` one is the last column and one the first
that does not exist. Probes and paddings are interchangeable (`SYMMETRY`; the run has no liveness
property). `MaxSignals`, `MaxPuts`, `MaxProbes`, `MaxCalls`, `Horizon`, `MaxBatch` and `MaxRecords`
bound the environment only, and the system may stop when they are reached, hence `CHECK_DEADLOCK
FALSE`; the program itself also ends.

Fairness. In JobControl, each thread is scheduled and each DPDK call returns: weak fairness of
`main()`, of each handler that was entered, and of each loop. In RingBuffer, a thread inside `put`
or `get` is scheduled. In ProbeTrace, the stat lcore is. In CuckooHash, an add that was called goes
on. In Transmit, the lcore is scheduled and the NIC sends what it took, that is, the link is up:
without that `__send_burst` spins for ever, and `BurstReturns` is false. Nothing is assumed of
Ctrl-C or of callers. Those are threads of an operating system on cores of their own, and the code
blocks on no lock. Startup and TraceDump are sequential, and have no liveness property.

Findings (details in `PROJECT.json`):

1. A Ctrl-C handled during the initialisation is undone by `job_state = JOB_FLAGS_ALL` but still
   counted; after two, the process cannot be stopped by Ctrl-C (until the counter wraps). Run
   `job_doc`.
2. `trace_hw_tx_prepare` never empties the timestamp register, as the flag it goes by is already set
   by its caller; after one late timestamp the records of that port carry the timestamps of earlier
   probes. Run `probe_doc`.
3. A port without a TX lcore gets no probe queue, but is sent probes. Run `startup_doc`.
4. The pool hands out mbufs whose reference count is not 0, as they were freed by the application
   and again by the driver; the code asserts the opposite. Run `transmit_doc`.
5. `__get_time_ns` multiplies cycles by `cpu_hz`, which is 0 and never assigned, so every software
   timestamp is printed as 0. Run `trace_time`.

Two more disagreements are part of what the passing runs check. `pt_analyzer dump` uses the location
of a record as an index without comparing it with `CMD_DUMP_LOC_MAX`, and `trace_handler` accepts
any; `RowsHold` says that nothing else makes it leave a row. And `ringbuffer_put`, whose comment says
that it copies depending on the free space, refuses what would fill the ring exactly
(`ringbuffer.c:175`), so that the last entry of the free list of `cmd_dump.c` is never used
(`FreeIndices`).

## 4. The proofs

TLAPS checks, for every value of the constants that meets the modules' assumptions, every invariant
and every refinement that the runs check, and the action properties `JobsOnlyStop` and `RateKept`.
Each proofs module defines an inductive invariant `IInv`, which holds in the module's run too, proves
that `Init` implies it and that each action keeps it, and derives the properties from it. What it
says beyond the properties, which are not inductive by themselves:

* `JobControlProofs`: `TypeOK`, `GracefulStop`, `TxOverrunBounded`, `RxLoopKeepsRunning`,
  `LoopsOnOpenPorts` and `JobsOnlyStop`, for any set of lcores, any mapping with the stat lcore's
  restriction, any wrap above 2 and any number of Ctrl-C. The assumption `ConstantsAssumption` is
  what `__check_mapping` leaves: no RX, and at least one TX entry, on the stat lcore. The invariant
  relates the place of `main()` to what it has done (`PhaseInv`), the frames of the handlers to
  `jobState` and `sigRecved` (`FrameInv`: a loaded value is the current one unless handlers
  overlap), the number of completed handlers to both (`OrderlyInv`), and the place in a pass to how
  many bursts may still be sent (`LateInv`).
* `RingBufferProofs`: `TypeOK`, `NeverFull`, `NoRace`, `InOrder` and `ImplementsFifo`, for any ring
  size, any writers and any lengths above 0, and for one writer `OneWriterIsSound` and
  `OneWriterIsFifo`, without the premise that no claim was stale. The invariant says that the
  positions are the byte counts modulo the size (`CountInv`), that claimed regions lie between
  `published` and `claimed` (`RoomInv`) and apart (`ApartInv`), what a writer between load and claim
  still knows (`FreshInv`), how far the reader is (`ReaderInv`), and which byte is where
  (`ContentInv`). The arithmetic of the wrap is in lemmas of its own. For the refinement, the queue
  is shown to be the bytes from `consumed + 1` to `published` (`QueueIs`); then `Finish` appends to
  it, `Free` takes a prefix, and no other step touches `consumed`, `published` or `got`.
* `ProbeTraceProofs`: `TypeOK`, `ProbesInSequence`, `OwnTimestamps` and `StampsNeverAhead`. Per port,
  the invariant says which index waits in `next_pkt` (`Numbered`), that the NIC's queue is the end of
  what was handed over and its register a timestamp already given (`Held`), that what was recorded
  is older than what may be recorded next (`Older`), and that with no timestamp missed the register
  is empty between probes (`Clean`), which is what makes the next one right.
* `CuckooHashProofs`: `TypeOK`, `EntriesInPlace`, `IndicesConserved` and `ImplementsMap`, for any keys,
  hash functions and sizes. The invariant follows an add through the recursion: no key is stored
  twice and the new one not at all (`KeysOnce`), no level has the slot of another (`FlagInv`), each is
  about the bucket to which the one before is to move its entry (`ChainInv`), the buckets on the way
  down are full and lead to full ones (`SearchInv`), and on the way up what was in the hole is
  elsewhere (`UnwindInv`), so that overwriting it loses nothing. For the refinement, what a lookup
  finds depends on the entries as a set of (key, data) only, and every step but the last of a call
  keeps that set.
* `StartupProofs`: `TypeOK`, `FirstWins`, `WithinArrays`, `QueueOwnership`, `JobControlReady`,
  `QueuesReady`, `PoolBacked` and `NothingLeft`, for any ports, lcores, masks, entries and array sizes
  with room for two entries per port (`MappingAssumption`). One half of the invariant is about the
  array: the entries kept are valid, of different queues, and cover what was read (`KeptInv`),
  hence at most two per port, hence the measurement lcore's entries fit (`MeasureInv`); what the
  ports and lcores were told is the part of the array that was gone through (`JobsInv`). The other
  is about the ports: exactly those the loop has passed are started (`StartedInv`), have what their
  lcores need (`ReadyInv`) and pools under their queues (`BackedInv`), and what is held can be told
  from where `main()` is (`HeldInv`).
* `TransmitProofs`: `TypeOK`, `PoolConserved`, `HandedOver` and `RateKept`, for any pool, burst, queue
  and rate, with the wrap of the counts beyond the references there can be. The invariant counts, for
  each mbuf, how often it will still be freed (`Due`: its descriptors, and the burst it is in), and
  says that its count, read as a signed number, stays that far above the wrap (`RefInv`); hence the
  count is 1 only in the burst that allocated it, and the mbuf is in the pool once or not at all
  (`PoolInv`).
* `TraceDumpProofs`: `TypeOK`, `CapturedKept`, `RowsHold` and `DumpFaithful`, for any threads, files,
  tables, locations and paddings. A thread without an open file has kept nothing (`OpenInv`), so that
  what it keeps later is an end of what it was given. While files are read, each record was read with a
  key of its probe and `mac_loc` is the location of one of them (`ReadInv`), the timestamps under a
  key's index are the last of the records read so far with that key and not rejected (`StampInv`), no
  index is used twice (`IndicesUsedOnce`), a key without an index lost all its records, and no location
  read is above `mac_loc` (`RejectInv`), and the lines are those of different keys, converted
  (`LinesInv`). That the invariant holds up to an overrun, and what an overrun presupposes, is
  `OverrunKept`. That the files in a row are a sequence of records (`FlattenTyped`) is an induction
  over the number of files, made by the least number that fails: `FlattenSeq` is recursive, and its
  recursion is shown to have a solution first.

The proofs rest on the assumptions on constants, which the modules name, which TLC evaluates in
every run, and which say what the code has: sizes above 0, a wrap or an array large enough, and that
keys and data exist. `MaxSignals`, `MaxPuts`, `MaxProbes` and the like are constants too, so the
theorems hold for any number of events.

Two theorems link modules. `JobControlReady`, a theorem of Startup, is the assumption of JobControl.
`ImplementsMap`, a theorem of CuckooHash, is why TraceDump may use `KeyMap` for its table.

Only model-checked: the liveness properties (`SecondSignalExits`, `PutsReturn`, `CallbackReturns`,
`AddReturns`, `BurstReturns`), which need fairness and ENABLED, out of the prover's reach; and the
runs that expect a violation.

## 5. What is not modelled

* The NIC beyond the above, and timing, except for the cycle counter of Transmit: in JobControl a
  burst takes no time, and the 100 ms of the probe timer are a choice of when it fires.
* Who owns the mbuf of a probe, and received packets, which are freed as they are.
* The contents of packets (`pkt_seq.c`), logging and console output.
* The digits of arguments: portmask, rate (`g` shifts by 40), `str_to_uint8` and MAC addresses are
  functions of one string, with values beyond TLC's 32-bit integers, and nothing but the value
  depends on them.
* The numbers that `stat.c` prints, which are differences of NIC counters; `stat_stop` reads them
  from ports that are closed by then.
* What is overwritten or printed behind a row of `trace_data`: the model ends there.
* Short and failed writes of the trace (`writen` would spin), and more input files than `fin[]` has
  places.
* The CRC of `hash.c` and `hash_secondary`, constants of CuckooHash.
* `ringbuffer_open` and the mapping of files; the signal handler's own calls of `printf` and
  `syscall`.
* The command line of `pt_analyzer`: a table of names.

## 6. Plan

Modelled and checked: all of the above. Proved: every invariant, refinement and action property of
the passing runs. To do:

1. The safety half of termination, which needs no fairness: a measure that every step of
   `make_space_bucket` decreases (`AddReturns`), a bound on the reads of `trace_hw_tx_record`
   (`CallbackReturns`), and that a writer inside `put` is never blocked by one that has not yet
   claimed (`PutsReturn`).
2. That the last index of a free list is dropped and nothing else, from RingBuffer.
