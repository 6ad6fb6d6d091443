------------------------------ MODULE RingBuffer ------------------------------
(****************************************************************************)
(* The lock-free byte ring of src/tools/ringbuffer.c, shared by one reader  *)
(* and any number of writers.  A writer claims room by a compare-and-swap   *)
(* on write_pos, copies its bytes, and publishes them by spinning on a      *)
(* compare-and-swap of finish_pos; the reader copies what is published and  *)
(* then frees it by storing read_pos.  Each access to a shared position or  *)
(* byte is a step of its own.                                               *)
(*                                                                          *)
(* The bytes are numbered in the order in which their room was claimed, and *)
(* the number stands for the byte.  The positions wrap at Size, which is a  *)
(* power of two in the code so that "& (data_size - 1)" wraps them.         *)
(****************************************************************************)
EXTENDS Integers, Sequences

CONSTANTS
  Writers,   \* the threads that call ringbuffer_put
  Size,      \* ring_buf->data_size
  PutLens,   \* the lengths put is called with
  GetLens,   \* the lengths get is called with
  MaxPuts    \* bound: how many calls of put there are

ASSUME SizeAssumption == Size \in Nat /\ Size > 0
\* Every caller puts at least one byte (cmd_dump.c and cuckoohash.c put the four of an index).
ASSUME LengthsAssumption == PutLens \subseteq Nat \ {0} /\ GetLens \subseteq Nat
ASSUME MaxPutsAssumption == MaxPuts \in Nat

VARIABLES
  writePos, finishPos, readPos,   \* the positions in the shared header
  data,                           \* the bytes of the ring, 0 before any put
  pc,                             \* per writer: where it is in ringbuffer_put
  len, writeOld,                  \* per writer: len and write_old
  copied,                         \* per writer: how many bytes it has copied
  rpc,                            \* where the reader is in ringbuffer_get
  size, buffer,                   \* of the reader: size and the bytes copied so far
  got,                            \* what the latest get returned
  puts,                           \* how many calls of put there were
  \* history, read by no guard of the code
  claimed, published, consumed,   \* bytes claimed, published and freed so far
  base,                           \* per writer: "claimed" when it claimed its room
  seen,                           \* per writer: "claimed" when it loaded write_pos
  stale                           \* writers whose claim succeeded although others had
                                  \* claimed room since they loaded write_pos

ring    == <<writePos, finishPos, readPos, data>>
writer  == <<pc, len, writeOld, copied, base, seen>>
reader  == <<rpc, size, buffer, got>>
history == <<claimed, published, consumed, stale>>
vars    == <<ring, writer, reader, history, puts>>

Pos == 0 .. Size - 1

\* Mutant: the mask is forgotten.
Wrap_Not(n) == n

\* n & (data_size - 1), for the sums n that the code forms
Wrap(n) == IF n >= Size THEN n - Size ELSE n

\* __get_used_size and __get_rest_size
Used(w, r) == IF w >= r THEN w - r ELSE w - r + Size
Rest(w, r) == Size - Used(w, r)

\* ringbuffer_create
Init ==
  /\ writePos = 0 /\ finishPos = 0 /\ readPos = 0
  /\ data = [p \in Pos |-> 0]
  /\ pc = [w \in Writers |-> "idle"]
  /\ len = [w \in Writers |-> 0]
  /\ writeOld = [w \in Writers |-> 0]
  /\ copied = [w \in Writers |-> 0]
  /\ rpc = "idle" /\ size = 0 /\ buffer = <<>> /\ got = <<>>
  /\ puts = 0
  /\ claimed = 0 /\ published = 0 /\ consumed = 0
  /\ base = [w \in Writers |-> 0]
  /\ seen = [w \in Writers |-> 0]
  /\ stale = {}

-----------------------------------------------------------------------------
(* ringbuffer_put *)

At(w, loc) == pc[w] = loc
Goto(w, loc) == pc' = [pc EXCEPT ![w] = loc]

Put(w, n) ==
  /\ At(w, "idle") /\ puts < MaxPuts
  /\ Goto(w, "load")
  /\ len' = [len EXCEPT ![w] = n]
  /\ puts' = puts + 1
  /\ UNCHANGED <<ring, writeOld, copied, base, seen, reader, history>>

\* write_old = ring_buf->write_pos
LoadWritePos(w) ==
  /\ At(w, "load") /\ Goto(w, "check")
  /\ writeOld' = [writeOld EXCEPT ![w] = writePos]
  /\ seen' = [seen EXCEPT ![w] = claimed]
  /\ UNCHANGED <<ring, len, copied, base, reader, history, puts>>

\* Mutant: "l < len".
HasRoom_All(w) == Rest(writeOld[w], readPos) >= len[w]

\* The load of read_pos and the test "l <= len".
HasRoom(w) == Rest(writeOld[w], readPos) > len[w]

Refuse(w) ==
  /\ At(w, "check") /\ ~HasRoom(w) /\ Goto(w, "idle")
  /\ UNCHANGED <<ring, len, writeOld, copied, base, seen, reader, history, puts>>

Accept(w) ==
  /\ At(w, "check") /\ HasRoom(w) /\ Goto(w, "claim")
  /\ UNCHANGED <<ring, len, writeOld, copied, base, seen, reader, history, puts>>

\* The compare-and-swap of write_pos.
Claim(w) ==
  /\ At(w, "claim") /\ writePos = writeOld[w] /\ Goto(w, "copy")
  /\ writePos' = Wrap(writeOld[w] + len[w])
  /\ copied' = [copied EXCEPT ![w] = 0]
  /\ base' = [base EXCEPT ![w] = claimed]
  /\ claimed' = claimed + len[w]
  /\ stale' = IF seen[w] = claimed THEN stale ELSE stale \cup {w}
  /\ UNCHANGED <<finishPos, readPos, data, len, writeOld, seen, reader, published, consumed, puts>>

ClaimFails(w) ==
  /\ At(w, "claim") /\ writePos # writeOld[w] /\ Goto(w, "load")
  /\ UNCHANGED <<ring, len, writeOld, copied, base, seen, reader, history, puts>>

\* One byte of the two memcpy.
CopyIn(w) ==
  /\ At(w, "copy") /\ copied[w] < len[w]
  /\ data' = [data EXCEPT ![Wrap(writeOld[w] + copied[w])] = base[w] + copied[w] + 1]
  /\ copied' = [copied EXCEPT ![w] = @ + 1]
  /\ UNCHANGED <<writePos, finishPos, readPos, pc, len, writeOld, base, seen, reader, history, puts>>

\* Mutants: finish_pos is stored without waiting for the writers before, or not stored.
Finish_Store(w) ==
  /\ At(w, "copy") /\ copied[w] = len[w] /\ Goto(w, "idle")
  /\ finishPos' = Wrap(writeOld[w] + len[w])
  /\ published' = published + len[w]
  /\ UNCHANGED <<writePos, readPos, data, len, writeOld, copied, base, seen, reader,
                 claimed, consumed, stale, puts>>

Finish_Not(w) ==
  /\ At(w, "copy") /\ copied[w] = len[w] /\ finishPos = writeOld[w] /\ Goto(w, "idle")
  /\ UNCHANGED <<ring, len, writeOld, copied, base, seen, reader, history, puts>>

\* The compare-and-swap of finish_pos succeeds; it is retried until it does.
Finish(w) ==
  /\ At(w, "copy") /\ copied[w] = len[w] /\ finishPos = writeOld[w] /\ Goto(w, "idle")
  /\ finishPos' = Wrap(writeOld[w] + len[w])
  /\ published' = published + len[w]
  /\ UNCHANGED <<writePos, readPos, data, len, writeOld, copied, base, seen, reader,
                 claimed, consumed, stale, puts>>

WriterStep(w) ==
  \/ LoadWritePos(w) \/ Refuse(w) \/ Accept(w) \/ Claim(w) \/ ClaimFails(w)
  \/ CopyIn(w) \/ Finish(w)

-----------------------------------------------------------------------------
(* ringbuffer_get *)

Least(m, n) == IF m > n THEN n ELSE m

\* Mutant: get goes by write_pos.
Get_Unpublished(n) ==
  /\ rpc = "idle"
  /\ Least(n, Used(writePos, readPos)) > 0
  /\ rpc' = "copy"
  /\ size' = Least(n, Used(writePos, readPos))
  /\ buffer' = <<>>
  /\ UNCHANGED <<ring, writer, got, history, puts>>

\* The load of finish_pos; with nothing to copy, get returns 0 and nothing happens.
Get(n) ==
  /\ rpc = "idle"
  /\ Least(n, Used(finishPos, readPos)) > 0
  /\ rpc' = "copy"
  /\ size' = Least(n, Used(finishPos, readPos))
  /\ buffer' = <<>>
  /\ UNCHANGED <<ring, writer, got, history, puts>>

\* One byte of the two memcpy.
CopyOut ==
  /\ rpc = "copy" /\ Len(buffer) < size
  /\ buffer' = Append(buffer, data[Wrap(readPos + Len(buffer))])
  /\ UNCHANGED <<ring, writer, rpc, size, got, history, puts>>

\* The store of read_pos.
Free ==
  /\ rpc = "copy" /\ Len(buffer) = size
  /\ rpc' = "idle"
  /\ readPos' = Wrap(readPos + size)
  /\ got' = buffer
  /\ buffer' = <<>>
  /\ size' = 0
  /\ consumed' = consumed + size
  /\ UNCHANGED <<writePos, finishPos, data, writer, claimed, published, stale, puts>>

ReaderStep == CopyOut \/ Free

-----------------------------------------------------------------------------
Next ==
  \/ \E w \in Writers : WriterStep(w) \/ (\E n \in PutLens : Put(w, n))
  \/ ReaderStep \/ (\E n \in GetLens : Get(n))

Spec == Init /\ [][Next]_vars

\* A thread inside put or get is scheduled; none has to call them.
Fairness == WF_vars(ReaderStep) /\ \A w \in Writers : WF_vars(WriterStep(w))

FairSpec == Spec /\ Fairness

-----------------------------------------------------------------------------
(* Properties *)

TypeRing ==
  /\ writePos \in Pos /\ finishPos \in Pos /\ readPos \in Pos
  /\ data \in [Pos -> Nat]

TypeWriters ==
  /\ pc \in [Writers -> {"idle", "load", "check", "claim", "copy"}]
  /\ len \in [Writers -> Nat]
  /\ writeOld \in [Writers -> Pos]
  /\ copied \in [Writers -> Nat]
  /\ base \in [Writers -> Nat]
  /\ seen \in [Writers -> Nat]

TypeReader ==
  /\ rpc \in {"idle", "copy"}
  /\ size \in Nat
  /\ buffer \in Seq(Nat)
  /\ got \in Seq(Nat)

TypeHistory ==
  /\ claimed \in Nat /\ published \in Nat /\ consumed \in Nat
  /\ stale \in SUBSET Writers
  /\ puts \in Nat

\* The variables hold values of their types.
TypeOK == TypeRing /\ TypeWriters /\ TypeReader /\ TypeHistory

\* No claim was made on a stale view of the free room.  That is so when there is
\* one writer; with several, write_pos can come round to the value a writer loaded.
Sound == stale = {}

\* The offsets, counted from read_pos, that w has claimed and not yet published.
Claimed(w) == {i \in 0 .. Size - 1 :
                 \E k \in 0 .. len[w] - 1 : Wrap(readPos + i) = Wrap(writeOld[w] + k)}

\* While bytes are copied, no two threads work on the same byte of the ring: not
\* two writers, and not a writer and the reader (ringbuffer.c:164-165).
NoRace ==
  Sound =>
    \A w \in Writers : At(w, "copy") =>
      /\ \A v \in Writers \ {w} : At(v, "copy") => Claimed(v) \cap Claimed(w) = {}
      /\ \A i \in Claimed(w) : i >= size

\* The ring never holds more than Size - 1 bytes, so that write_pos = read_pos
\* means empty and never full (__get_rest_size).
NeverFull ==
  Sound =>
    /\ claimed - consumed < Size
    /\ Used(writePos, readPos) = claimed - consumed
    /\ Used(finishPos, readPos) = published - consumed

\* The reader gets the bytes in the order in which they were put, none lost, none
\* twice and none before its writer has copied it.
InOrder == Sound => \A i \in 1 .. Len(buffer) : buffer[i] = consumed + i

\* A put that has claimed its room returns: the spin on finish_pos ends, because
\* the writers before it publish in their turn.
PutsReturn == \A w \in Writers : At(w, "copy") ~> At(w, "idle") \/ ~Sound

\* The ring implements a queue of Size - 1 bytes, in which a put takes effect when it
\* stores finish_pos and a get when it stores read_pos, for any number of writers
\* and as long as no claim was made on a stale view.
Fifo == INSTANCE ByteFifo WITH
  Capacity <- Size - 1,
  queue <- [i \in 1 .. Used(finishPos, readPos) |-> data[Wrap(readPos + i - 1)]],
  tail <- published

ImplementsFifo == Fifo!Init /\ [][~Sound' \/ Fifo!Next]_(Fifo!vars)
=============================================================================
