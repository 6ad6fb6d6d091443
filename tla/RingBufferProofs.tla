--------------------------- MODULE RingBufferProofs ---------------------------
(****************************************************************************)
(* The safety properties of RingBuffer, for any ring size, any writers, any *)
(* lengths and any number of puts.                                          *)
(****************************************************************************)
EXTENDS TLAPS, SequenceTheorems, RingBuffer

-----------------------------------------------------------------------------
(****************************************************************************)
(* Arithmetic on the positions of the ring.                                 *)
(****************************************************************************)
LEMMA WrapInRing ==
  ASSUME NEW a \in Pos, NEW n \in 0 .. Size
  PROVE  Wrap(a + n) \in Pos
BY SizeAssumption DEF Pos, Wrap

LEMMA UsedInRing ==
  ASSUME NEW a \in Pos, NEW r \in Pos
  PROVE  Used(a, r) \in 0 .. Size - 1 /\ Wrap(r + Used(a, r)) = a
BY SizeAssumption DEF Pos, Wrap, Used

LEMMA UsedOfWrap ==
  ASSUME NEW r \in Pos, NEW n \in 0 .. Size - 1
  PROVE  Used(Wrap(r + n), r) = n
BY SizeAssumption DEF Pos, Wrap, Used

LEMMA WrapInjective ==
  ASSUME NEW r \in Pos, NEW n \in 0 .. Size - 1, NEW m \in 0 .. Size - 1,
         Wrap(r + n) = Wrap(r + m)
  PROVE  n = m
BY SizeAssumption DEF Pos, Wrap

\* Writing m more bytes.
LEMMA UsedGrows ==
  ASSUME NEW a \in Pos, NEW r \in Pos, NEW m \in Nat, Used(a, r) + m < Size
  PROVE  Used(Wrap(a + m), r) = Used(a, r) + m
BY SizeAssumption DEF Pos, Wrap, Used

\* Freeing m bytes.
LEMMA UsedShrinks ==
  ASSUME NEW a \in Pos, NEW r \in Pos, NEW m \in Nat, m <= Used(a, r)
  PROVE  Used(a, Wrap(r + m)) = Used(a, r) - m
BY SizeAssumption DEF Pos, Wrap, Used

\* The m-th byte after a is the one at offset Used(a, r) + m from r.
LEMMA WrapFrom ==
  ASSUME NEW a \in Pos, NEW r \in Pos, NEW m \in Nat, Used(a, r) + m < Size
  PROVE  Wrap(a + m) = Wrap(r + (Used(a, r) + m))
BY SizeAssumption DEF Pos, Wrap, Used

-----------------------------------------------------------------------------
(****************************************************************************)
(* The inductive invariant.                                                 *)
(****************************************************************************)
\* A put has something to put; once accepted, it fits; the reader's copy fits too.
BoundInv ==
  /\ \A w \in Writers :
       /\ pc[w] # "idle" => len[w] > 0
       /\ pc[w] \in {"claim", "copy"} => len[w] < Size
       /\ pc[w] = "copy" => copied[w] <= len[w]
  /\ size < Size
  /\ Len(buffer) <= size
  /\ rpc = "idle" => size = 0
  /\ rpc = "copy" => size > 0

\* The positions are the images of the byte counts.
CountInv ==
  /\ consumed <= published
  /\ published <= claimed
  /\ claimed - consumed < Size
  /\ Used(writePos, readPos) = claimed - consumed
  /\ Used(finishPos, readPos) = published - consumed

\* A writer that has claimed room holds it, behind what is published.
RoomInv ==
  \A w \in Writers : At(w, "copy") =>
    /\ published <= base[w]
    /\ base[w] + len[w] <= claimed
    /\ Used(writeOld[w], readPos) = base[w] - consumed

\* No two writers hold the same room.
ApartInv ==
  \A w, v \in Writers : w # v /\ At(w, "copy") /\ At(v, "copy") =>
    base[w] + len[w] <= base[v] \/ base[v] + len[v] <= base[w]

\* What a writer knows while nobody has claimed room since it loaded write_pos.
FreshInv ==
  \A w \in Writers :
    /\ pc[w] \in {"check", "claim"} => seen[w] <= claimed
    /\ pc[w] \in {"check", "claim"} /\ seen[w] = claimed => writeOld[w] = writePos
    /\ pc[w] = "claim" /\ seen[w] = claimed => len[w] < Size - (claimed - consumed)

\* The reader stays within what is published.
ReaderInv == size <= published - consumed

\* The bytes in the ring are the ones that were put.
ContentInv ==
  /\ \A i \in 0 .. Size - 1 :
       i < published - consumed => data[Wrap(readPos + i)] = consumed + i + 1
  /\ \A w \in Writers : At(w, "copy") =>
       \A i \in 0 .. Size - 1 :
         base[w] - consumed <= i /\ i < base[w] + copied[w] - consumed =>
           data[Wrap(readPos + i)] = consumed + i + 1
  /\ \A i \in 1 .. Len(buffer) : buffer[i] = consumed + i

SoundInv == CountInv /\ RoomInv /\ ApartInv /\ FreshInv /\ ReaderInv /\ ContentInv

IInv == TypeOK /\ BoundInv /\ (Sound => SoundInv)

-----------------------------------------------------------------------------
LEMMA InitIInv == Init => IInv
<1> SUFFICES ASSUME Init PROVE IInv
  OBVIOUS
<1> USE SizeAssumption DEF Init, At
<1>1. TypeRing
  BY DEF TypeRing, Pos
<1>2. TypeWriters
  BY DEF TypeWriters, Pos
<1>3. TypeReader
  BY DEF TypeReader
<1>4. TypeHistory
  BY DEF TypeHistory
<1>5. BoundInv /\ RoomInv /\ ApartInv /\ FreshInv
  BY DEF BoundInv, RoomInv, ApartInv, FreshInv
<1>6. CountInv
  BY DEF CountInv, Used
<1>7. ReaderInv /\ ContentInv
  BY DEF ReaderInv, ContentInv
<1> QED
  BY <1>1, <1>2, <1>3, <1>4, <1>5, <1>6, <1>7 DEF IInv, SoundInv, TypeOK

(****************************************************************************)
(* Type correctness.                                                        *)
(****************************************************************************)
LEMMA TypeStep == TypeOK /\ BoundInv /\ [Next]_vars => TypeOK'
<1> SUFFICES ASSUME TypeOK, BoundInv, [Next]_vars PROVE TypeOK'
  OBVIOUS
<1> USE SizeAssumption, LengthsAssumption
    DEF TypeOK, vars, ring, writer, reader, history, At, Goto
<1>1. ASSUME NEW w \in Writers, NEW n \in PutLens, Put(w, n) PROVE TypeOK'
  BY <1>1, SMTT(30) DEF Put, TypeRing, TypeWriters, TypeReader, TypeHistory
<1>2. ASSUME NEW w \in Writers, LoadWritePos(w) PROVE TypeOK'
  <2>1. TypeRing'
    BY <1>2 DEF LoadWritePos, TypeRing
  <2>2. TypeWriters'
    BY <1>2 DEF LoadWritePos, TypeWriters, TypeRing, TypeHistory
  <2>3. TypeReader'
    BY <1>2 DEF LoadWritePos, TypeReader
  <2>4. TypeHistory'
    BY <1>2 DEF LoadWritePos, TypeHistory
  <2> QED
    BY <2>1, <2>2, <2>3, <2>4
<1>3. ASSUME NEW w \in Writers, Refuse(w) \/ Accept(w) \/ ClaimFails(w) PROVE TypeOK'
  <2>1. TypeRing'
    BY <1>3 DEF Refuse, Accept, ClaimFails, TypeRing
  <2>2. TypeWriters'
    BY <1>3 DEF Refuse, Accept, ClaimFails, TypeWriters
  <2>3. TypeReader'
    BY <1>3 DEF Refuse, Accept, ClaimFails, TypeReader
  <2>4. TypeHistory'
    BY <1>3 DEF Refuse, Accept, ClaimFails, TypeHistory
  <2> QED
    BY <2>1, <2>2, <2>3, <2>4
<1>4. ASSUME NEW w \in Writers, Claim(w) PROVE TypeOK'
  <2>1. TypeRing'
    <3>1. Wrap(writeOld[w] + len[w]) \in Pos
      BY <1>4, WrapInRing DEF Claim, BoundInv, TypeWriters
    <3> QED
      BY <1>4, <3>1 DEF Claim, TypeRing
  <2>2. TypeWriters'
    BY <1>4 DEF Claim, TypeWriters, TypeHistory
  <2>3. TypeReader'
    BY <1>4 DEF Claim, TypeReader
  <2>4. TypeHistory'
    BY <1>4 DEF Claim, TypeHistory, TypeWriters
  <2> QED
    BY <2>1, <2>2, <2>3, <2>4
<1>5. ASSUME NEW w \in Writers, CopyIn(w) PROVE TypeOK'
  <2>1. TypeRing'
    <3>1. base[w] + copied[w] + 1 \in Nat
      BY DEF TypeWriters
    <3> QED
      BY <1>5, <3>1 DEF CopyIn, TypeRing
  <2>2. TypeWriters'
    BY <1>5 DEF CopyIn, TypeWriters
  <2>3. TypeReader'
    BY <1>5 DEF CopyIn, TypeReader
  <2>4. TypeHistory'
    BY <1>5 DEF CopyIn, TypeHistory
  <2> QED
    BY <2>1, <2>2, <2>3, <2>4
<1>6. ASSUME NEW w \in Writers, Finish(w) PROVE TypeOK'
  <2>1. TypeRing'
    <3>1. Wrap(writeOld[w] + len[w]) \in Pos
      BY <1>6, WrapInRing DEF Finish, BoundInv, TypeWriters
    <3> QED
      BY <1>6, <3>1 DEF Finish, TypeRing
  <2>2. TypeWriters'
    BY <1>6 DEF Finish, TypeWriters
  <2>3. TypeReader'
    BY <1>6 DEF Finish, TypeReader
  <2>4. TypeHistory'
    BY <1>6 DEF Finish, TypeHistory, TypeWriters
  <2> QED
    BY <2>1, <2>2, <2>3, <2>4
<1>7. ASSUME NEW n \in GetLens, Get(n) PROVE TypeOK'
  <2>1. TypeRing'
    BY <1>7 DEF Get, TypeRing
  <2>2. TypeWriters'
    BY <1>7 DEF Get, TypeWriters
  <2>3. TypeReader'
    BY <1>7 DEF Get, TypeReader, TypeRing, Least, Used, Pos
  <2>4. TypeHistory'
    BY <1>7 DEF Get, TypeHistory
  <2> QED
    BY <2>1, <2>2, <2>3, <2>4
<1>8. CASE CopyOut
  <2>1. TypeRing'
    BY <1>8 DEF CopyOut, TypeRing
  <2>2. TypeWriters'
    BY <1>8 DEF CopyOut, TypeWriters
  <2>3. TypeReader'
    <3>1. Wrap(readPos + Len(buffer)) \in Pos
      BY WrapInRing DEF TypeRing, TypeReader, BoundInv
    <3> QED
      BY <1>8, <3>1 DEF CopyOut, TypeReader, TypeRing
  <2>4. TypeHistory'
    BY <1>8 DEF CopyOut, TypeHistory
  <2> QED
    BY <2>1, <2>2, <2>3, <2>4
<1>9. CASE Free
  <2>1. TypeRing'
    <3>1. Wrap(readPos + size) \in Pos
      BY WrapInRing DEF TypeRing, TypeReader, BoundInv
    <3> QED
      BY <1>9, <3>1 DEF Free, TypeRing
  <2>2. TypeWriters'
    BY <1>9 DEF Free, TypeWriters
  <2>3. TypeReader'
    BY <1>9 DEF Free, TypeReader
  <2>4. TypeHistory'
    BY <1>9 DEF Free, TypeHistory, TypeReader
  <2> QED
    BY <2>1, <2>2, <2>3, <2>4
<1>10. CASE UNCHANGED vars
  BY <1>10 DEF TypeRing, TypeWriters, TypeReader, TypeHistory
<1> QED
  BY <1>1, <1>2, <1>3, <1>4, <1>5, <1>6, <1>7, <1>8, <1>9, <1>10
     DEF Next, WriterStep, ReaderStep

LEMMA BoundStep == TypeOK /\ BoundInv /\ [Next]_vars => BoundInv'
<1> SUFFICES ASSUME TypeOK, BoundInv, [Next]_vars PROVE BoundInv'
  OBVIOUS
<1> USE SizeAssumption, LengthsAssumption
    DEF TypeOK, TypeWriters, TypeReader, BoundInv, vars, writer, reader, At, Goto
<1>1. ASSUME NEW w \in Writers, NEW n \in PutLens, Put(w, n) PROVE BoundInv'
  BY <1>1 DEF Put
<1>2. ASSUME NEW w \in Writers, LoadWritePos(w) PROVE BoundInv'
  BY <1>2 DEF LoadWritePos
<1>3. ASSUME NEW w \in Writers, Refuse(w) \/ ClaimFails(w) PROVE BoundInv'
  BY <1>3 DEF Refuse, ClaimFails
<1>4. ASSUME NEW w \in Writers, Accept(w) PROVE BoundInv'
  <2>1. Used(writeOld[w], readPos) \in 0 .. Size - 1
    BY UsedInRing DEF TypeRing
  <2>2. len[w] < Size
    BY <1>4, <2>1 DEF Accept, HasRoom, Rest
  <2> QED
    BY <1>4, <2>2 DEF Accept
<1>5. ASSUME NEW w \in Writers, Claim(w) PROVE BoundInv'
  BY <1>5 DEF Claim
<1>6. ASSUME NEW w \in Writers, CopyIn(w) PROVE BoundInv'
  BY <1>6 DEF CopyIn
<1>7. ASSUME NEW w \in Writers, Finish(w) PROVE BoundInv'
  BY <1>7 DEF Finish
<1>8. ASSUME NEW n \in GetLens, Get(n) PROVE BoundInv'
  <2>1. Used(finishPos, readPos) \in 0 .. Size - 1
    BY UsedInRing DEF TypeRing
  <2>2. size' \in 1 .. Size - 1 /\ rpc' = "copy" /\ Len(buffer') = 0
    BY <1>8, <2>1 DEF Get, Least
  <2>3. UNCHANGED <<pc, len, copied>>
    BY <1>8 DEF Get
  <2> QED
    BY <2>2, <2>3
<1>9. CASE CopyOut
  BY <1>9 DEF CopyOut
<1>10. CASE Free
  BY <1>10 DEF Free
<1>11. CASE UNCHANGED vars
  BY <1>11
<1> QED
  BY <1>1, <1>2, <1>3, <1>4, <1>5, <1>6, <1>7, <1>8, <1>9, <1>10, <1>11
     DEF Next, WriterStep, ReaderStep

-----------------------------------------------------------------------------
(****************************************************************************)
(* What holds while every claim was made on a fresh view of the free room.  *)
(****************************************************************************)
\* The steps of a put before its claim.
LEMMA BeforeClaimStep ==
  ASSUME TypeOK, BoundInv, SoundInv, NEW w \in Writers,
         \/ \E n \in PutLens : Put(w, n)
         \/ LoadWritePos(w) \/ Refuse(w) \/ Accept(w) \/ ClaimFails(w)
  PROVE  SoundInv'
<1> USE DEF TypeOK, TypeWriters, At, Goto
<1>1. /\ UNCHANGED <<ring, reader, history>>
      /\ UNCHANGED <<copied, base>>
      /\ ~At(w, "copy") /\ ~At(w, "copy")'
      /\ \A v \in Writers \ {w} : /\ pc'[v] = pc[v] /\ len'[v] = len[v]
                                  /\ writeOld'[v] = writeOld[v] /\ seen'[v] = seen[v]
  <2>1. CASE \E n \in PutLens : Put(w, n)
    BY <2>1 DEF Put
  <2>2. CASE LoadWritePos(w)
    BY <2>2 DEF LoadWritePos
  <2>3. CASE Refuse(w) \/ Accept(w) \/ ClaimFails(w)
    BY <2>3 DEF Refuse, Accept, ClaimFails
  <2> QED
    BY <2>1, <2>2, <2>3
<1> USE DEF ring, reader, history
<1>2. CountInv' /\ ReaderInv'
  BY <1>1 DEF SoundInv, CountInv, ReaderInv, Used
<1>3. RoomInv' /\ ApartInv'
  BY <1>1 DEF SoundInv, RoomInv, ApartInv, Used
<1>4. ContentInv'
  BY <1>1 DEF SoundInv, ContentInv, Wrap
<1>5. FreshInv'
  <2>1. CASE \E n \in PutLens : Put(w, n)
    BY <1>1, <2>1 DEF Put, SoundInv, FreshInv
  <2>2. CASE LoadWritePos(w)
    BY <1>1, <2>2 DEF LoadWritePos, SoundInv, FreshInv, TypeHistory
  <2>3. CASE Refuse(w) \/ ClaimFails(w)
    BY <1>1, <2>3 DEF Refuse, ClaimFails, SoundInv, FreshInv
  <2>4. CASE Accept(w)
    <3>1. seen[w] = claimed => len[w] < Size - (claimed - consumed)
      BY <2>4 DEF Accept, HasRoom, Rest, SoundInv, FreshInv, CountInv
    <3> QED
      BY <1>1, <2>4, <3>1 DEF Accept, SoundInv, FreshInv
  <2> QED
    BY <2>1, <2>2, <2>3, <2>4
<1> QED
  BY <1>2, <1>3, <1>4, <1>5 DEF SoundInv

LEMMA ClaimStep ==
  ASSUME TypeOK, BoundInv, SoundInv, NEW w \in Writers, Claim(w), seen[w] = claimed
  PROVE  SoundInv'
<1> USE SizeAssumption DEF TypeOK, TypeWriters, TypeRing, TypeHistory, At, Goto
<1>1. /\ writeOld[w] = writePos /\ len[w] > 0
      /\ len[w] < Size - (claimed - consumed)
  BY DEF Claim, SoundInv, FreshInv, BoundInv
<1>2. /\ Used(writePos, readPos) = claimed - consumed
      /\ Used(writePos', readPos') = claimed' - consumed'
  BY <1>1, UsedGrows, SMTT(30) DEF Claim, SoundInv, CountInv
<1>3. CountInv'
  BY <1>1, <1>2 DEF Claim, SoundInv, CountInv
<1>4. \A v \in Writers \ {w} : At(v, "copy")' <=> At(v, "copy")
  BY DEF Claim
<1>5. RoomInv'
  <2>1. /\ published' <= base'[w]
        /\ base'[w] + len'[w] <= claimed'
        /\ Used(writeOld'[w], readPos') = base'[w] - consumed'
    BY <1>1, <1>2 DEF Claim, SoundInv, CountInv
  <2>2. ASSUME NEW v \in Writers, v # w, At(v, "copy")'
        PROVE  /\ published' <= base'[v]
               /\ base'[v] + len'[v] <= claimed'
               /\ Used(writeOld'[v], readPos') = base'[v] - consumed'
    BY <1>1, <1>4, <2>2 DEF Claim, SoundInv, RoomInv
  <2> QED
    BY <2>1, <2>2 DEF RoomInv
<1>6. ApartInv'
  BY <1>4 DEF Claim, SoundInv, RoomInv, ApartInv
<1>7. FreshInv'
  BY <1>1 DEF Claim, SoundInv, FreshInv
<1>8. ReaderInv'
  BY DEF Claim, SoundInv, ReaderInv, reader
<1>9. ContentInv'
  <2>1. UNCHANGED <<data, readPos, published, consumed, buffer>>
    BY DEF Claim, reader
  <2>2. \A v \in Writers \ {w} : base'[v] = base[v] /\ copied'[v] = copied[v]
    BY DEF Claim
  <2>3. base'[w] = claimed /\ copied'[w] = 0
    BY DEF Claim
  <2>4. ASSUME NEW v \in Writers, At(v, "copy")', NEW i \in 0 .. Size - 1,
               base'[v] - consumed' <= i, i < base'[v] + copied'[v] - consumed'
        PROVE  data'[Wrap(readPos' + i)] = consumed' + i + 1
    <3>1. v # w
      BY <2>1, <2>3, <2>4
    <3> QED
      BY <1>4, <2>1, <2>2, <2>4, <3>1 DEF SoundInv, ContentInv
  <2> QED
    BY <2>1, <2>4 DEF SoundInv, ContentInv, Wrap
<1> QED
  BY <1>3, <1>5, <1>6, <1>7, <1>8, <1>9 DEF SoundInv

\* A writer fills its own room only.
LEMMA CopyInStep ==
  ASSUME TypeOK, BoundInv, SoundInv, NEW w \in Writers, CopyIn(w)
  PROVE  SoundInv'
<1> USE SizeAssumption DEF TypeOK, TypeWriters, TypeRing, TypeHistory, At
<1>1. UNCHANGED <<writePos, finishPos, readPos, pc, len, writeOld, base, seen, size, buffer,
                  claimed, published, consumed>>
  BY DEF CopyIn, reader, history
<1>2. CountInv' /\ RoomInv' /\ ApartInv' /\ FreshInv' /\ ReaderInv'
  BY <1>1 DEF SoundInv, CountInv, RoomInv, ApartInv, FreshInv, ReaderInv
<1> DEFINE here == base[w] + copied[w] - consumed
<1>3. /\ here \in 0 .. Size - 1
      /\ here < base[w] + len[w] - consumed
      /\ published - consumed <= here
  BY DEF CopyIn, SoundInv, CountInv, RoomInv
<1>4. Wrap(writeOld[w] + copied[w]) = Wrap(readPos + here)
  BY <1>3, WrapFrom DEF CopyIn, SoundInv, RoomInv
<1>5. data' = [data EXCEPT ![Wrap(readPos + here)] = consumed + here + 1]
  <2>1. base[w] + copied[w] + 1 = consumed + here + 1
    OBVIOUS
  <2> HIDE DEF here
  <2> QED
    BY <1>4, <2>1 DEF CopyIn
<1> HIDE DEF here
<1>6. /\ data'[Wrap(readPos + here)] = consumed + here + 1
      /\ \A i \in 0 .. Size - 1 : i # here => data'[Wrap(readPos + i)] = data[Wrap(readPos + i)]
  <2>1. \A i \in 0 .. Size - 1 : Wrap(readPos + i) \in Pos
    BY WrapInRing
  <2>2. \A i \in 0 .. Size - 1 : i # here => Wrap(readPos + i) # Wrap(readPos + here)
    BY <1>3, WrapInjective
  <2> QED
    BY <1>3, <1>5, <2>1, <2>2
<1>7. copied'[w] = copied[w] + 1 /\ \A v \in Writers \ {w} : copied'[v] = copied[v]
  BY DEF CopyIn
<1>8. ContentInv'
  <2>1. ASSUME NEW i \in 0 .. Size - 1, i < published - consumed
        PROVE  data'[Wrap(readPos + i)] = consumed + i + 1
    BY <1>3, <1>6, <2>1 DEF SoundInv, ContentInv
  <2>2. ASSUME NEW i \in 0 .. Size - 1,
               base[w] - consumed <= i, i < base[w] + copied[w] + 1 - consumed
        PROVE  data'[Wrap(readPos + i)] = consumed + i + 1
    <3>1. CASE i = here
      BY <1>6, <3>1
    <3>2. CASE i # here
      <4>1. i < base[w] + copied[w] - consumed
        BY <2>2, <3>2 DEF here
      <4>2. data[Wrap(readPos + i)] = consumed + i + 1
        BY <2>2, <4>1 DEF SoundInv, ContentInv, CopyIn
      <4> QED
        BY <1>6, <3>2, <4>2
    <3> QED
      BY <3>1, <3>2
  <2>3. ASSUME NEW v \in Writers, v # w, At(v, "copy"), NEW i \in 0 .. Size - 1,
               base[v] - consumed <= i, i < base[v] + copied[v] - consumed
        PROVE  data'[Wrap(readPos + i)] = consumed + i + 1
    <3>1. i # here
      <4>1. base[w] + len[w] <= base[v] \/ base[v] + len[v] <= base[w]
        BY <2>3 DEF SoundInv, ApartInv, CopyIn
      <4>2. copied[v] <= len[v] /\ copied[w] < len[w]
        BY <2>3 DEF BoundInv, CopyIn
      <4> QED
        BY <2>3, <4>1, <4>2 DEF here
    <3> QED
      BY <1>6, <2>3, <3>1 DEF SoundInv, ContentInv
  <2>4. \A i \in 1 .. Len(buffer) : buffer[i] = consumed + i
    BY DEF SoundInv, ContentInv
  <2>5. ASSUME NEW v \in Writers, At(v, "copy")', NEW i \in 0 .. Size - 1,
               base'[v] - consumed' <= i, i < base'[v] + copied'[v] - consumed'
        PROVE  data'[Wrap(readPos' + i)] = consumed' + i + 1
    <3>1. CASE v = w
      BY <1>1, <1>7, <2>2, <2>5, <3>1
    <3>2. CASE v # w
      BY <1>1, <1>7, <2>3, <2>5, <3>2
    <3> QED
      BY <3>1, <3>2
  <2>6. \A i \in 0 .. Size - 1 :
          i < published' - consumed' => data'[Wrap(readPos' + i)] = consumed' + i + 1
    BY <1>1, <2>1
  <2>7. \A i \in 1 .. Len(buffer') : buffer'[i] = consumed' + i
    BY <1>1, <2>4
  <2> QED
    BY <2>5, <2>6, <2>7 DEF ContentInv, Wrap
<1> QED
  BY <1>2, <1>8 DEF SoundInv

\* The writer whose room comes next publishes it.
LEMMA FinishStep ==
  ASSUME TypeOK, BoundInv, SoundInv, NEW w \in Writers, Finish(w)
  PROVE  SoundInv'
<1> USE SizeAssumption DEF TypeOK, TypeWriters, TypeRing, TypeHistory, At, Goto
<1>1. /\ UNCHANGED <<writePos, readPos, data, len, writeOld, copied, base, seen, size, buffer,
                     claimed, consumed>>
      /\ pc[w] = "copy" /\ pc'[w] = "idle"
      /\ \A v \in Writers \ {w} : pc'[v] = pc[v]
  BY DEF Finish, reader
<1>2. base[w] = published /\ published' = published + len[w] /\ len[w] > 0
  BY SMTT(30) DEF Finish, SoundInv, CountInv, RoomInv, BoundInv
<1>3. Used(finishPos', readPos) = published' - consumed
  BY <1>2, UsedGrows DEF Finish, SoundInv, CountInv, RoomInv
<1>4. CountInv'
  BY <1>1, <1>2, <1>3 DEF SoundInv, CountInv, RoomInv
<1>5. RoomInv'
  <2>1. ASSUME NEW v \in Writers, v # w, At(v, "copy") PROVE published' <= base[v]
    <3>1. base[w] + len[w] <= base[v] \/ base[v] + len[v] <= base[w]
      BY <1>1, <2>1 DEF SoundInv, ApartInv
    <3>2. len[v] > 0 /\ published <= base[v]
      BY <2>1 DEF BoundInv, SoundInv, RoomInv
    <3> QED
      BY <1>2, <3>1, <3>2
  <2> QED
    BY <1>1, <2>1 DEF SoundInv, RoomInv
<1>6. ApartInv' /\ FreshInv' /\ ReaderInv'
  <2>1. ApartInv'
    BY <1>1 DEF SoundInv, ApartInv
  <2>2. FreshInv'
    BY <1>1 DEF SoundInv, FreshInv
  <2>3. ReaderInv'
    BY <1>1, <1>2, SMTT(30) DEF SoundInv, ReaderInv, TypeReader
  <2> QED
    BY <2>1, <2>2, <2>3
<1>7. ContentInv'
  <2>1. ASSUME NEW i \in 0 .. Size - 1, i < published' - consumed
        PROVE  data[Wrap(readPos + i)] = consumed + i + 1
    <3>1. CASE i < published - consumed
      BY <3>1 DEF SoundInv, ContentInv
    <3>2. CASE ~(i < published - consumed)
      <4>1. base[w] - consumed <= i /\ i < base[w] + copied[w] - consumed
        BY <1>2, <2>1, <3>2 DEF Finish
      <4> QED
        BY <1>1, <4>1 DEF SoundInv, ContentInv
    <3> QED
      BY <3>1, <3>2
  <2>2. \A v \in Writers : At(v, "copy")' => At(v, "copy")
    BY <1>1
  <2> QED
    BY <1>1, <2>1, <2>2 DEF SoundInv, ContentInv, Wrap
<1> QED
  BY <1>4, <1>5, <1>6, <1>7 DEF SoundInv

LEMMA GetStep ==
  ASSUME TypeOK, BoundInv, SoundInv, NEW n \in GetLens, Get(n)
  PROVE  SoundInv'
<1> USE SizeAssumption, LengthsAssumption DEF TypeOK, TypeHistory, At
<1>1. UNCHANGED <<writePos, finishPos, readPos, data, pc, len, writeOld, copied, base, seen,
                  claimed, published, consumed>>
  BY DEF Get, ring, writer, history
<1>2. size' <= published - consumed /\ buffer' = <<>>
  BY DEF Get, Least, SoundInv, CountInv
<1>3. CountInv' /\ RoomInv' /\ ApartInv' /\ FreshInv' /\ ReaderInv'
  BY <1>1, <1>2 DEF SoundInv, CountInv, RoomInv, ApartInv, FreshInv, ReaderInv
<1>4. ContentInv'
  BY <1>1, <1>2 DEF SoundInv, ContentInv, Wrap
<1> QED
  BY <1>3, <1>4 DEF SoundInv

LEMMA CopyOutStep ==
  ASSUME TypeOK, BoundInv, SoundInv, CopyOut
  PROVE  SoundInv'
<1> USE SizeAssumption DEF TypeOK, TypeHistory, TypeReader, At
<1>1. UNCHANGED <<writePos, finishPos, readPos, data, pc, len, writeOld, copied, base, seen,
                  size, claimed, published, consumed>>
  BY DEF CopyOut, ring, writer, history
<1>2. CountInv' /\ RoomInv' /\ ApartInv' /\ FreshInv' /\ ReaderInv'
  BY <1>1 DEF SoundInv, CountInv, RoomInv, ApartInv, FreshInv, ReaderInv
<1>3. data[Wrap(readPos + Len(buffer))] = consumed + Len(buffer) + 1
  <2>1. Len(buffer) \in 0 .. Size - 1 /\ Len(buffer) < published - consumed
    BY DEF CopyOut, BoundInv, SoundInv, ReaderInv
  <2>2. \A i \in 0 .. Size - 1 :
          i < published - consumed => data[Wrap(readPos + i)] = consumed + i + 1
    BY DEF SoundInv, ContentInv
  <2> QED
    BY <2>1, <2>2
<1>4. \A i \in 1 .. Len(buffer') : buffer'[i] = consumed + i
  <2>1. buffer' = Append(buffer, consumed + Len(buffer) + 1)
    BY <1>3 DEF CopyOut
  <2>2. \A i \in 1 .. Len(buffer) : buffer[i] = consumed + i
    BY DEF SoundInv, ContentInv
  <2> SUFFICES ASSUME NEW i \in 1 .. Len(buffer') PROVE buffer'[i] = consumed + i
    OBVIOUS
  <2>3. Len(buffer') = Len(buffer) + 1
    BY <2>1
  <2>4. CASE i = Len(buffer) + 1
    BY <2>1, <2>4
  <2>5. CASE i # Len(buffer) + 1
    <3>1. i \in 1 .. Len(buffer) /\ buffer'[i] = buffer[i]
      BY <2>1, <2>3, <2>5
    <3> QED
      BY <2>2, <3>1
  <2> QED
    BY <2>4, <2>5
<1>5. ContentInv'
  BY <1>1, <1>4 DEF SoundInv, ContentInv, Wrap
<1> QED
  BY <1>2, <1>5 DEF SoundInv

LEMMA WrapTwice ==
  ASSUME NEW r \in Pos, NEW m \in Nat, NEW i \in Nat, m + i < Size
  PROVE  Wrap(Wrap(r + m) + i) = Wrap(r + (m + i))
BY SizeAssumption DEF Pos, Wrap

\* Freeing moves the origin from which the offsets are counted.
LEMMA FreeStep ==
  ASSUME TypeOK, BoundInv, SoundInv, Free
  PROVE  SoundInv'
<1> USE SizeAssumption DEF TypeOK, TypeRing, TypeWriters, TypeHistory, TypeReader, At
<1>1. UNCHANGED <<writePos, finishPos, data, pc, len, writeOld, copied, base, seen,
                  claimed, published>>
  BY DEF Free, writer
<1>2. /\ readPos' = Wrap(readPos + size) /\ consumed' = consumed + size
      /\ size' = 0 /\ buffer' = <<>> /\ size <= published - consumed
  BY DEF Free, SoundInv, ReaderInv
<1>3. CountInv'
  <2>1. Used(writePos, readPos') = Used(writePos, readPos) - size
    <3>1. size <= Used(writePos, readPos)
      BY <1>2 DEF SoundInv, CountInv
    <3> QED
      BY <1>2, <3>1, UsedShrinks
  <2>2. Used(finishPos, readPos') = Used(finishPos, readPos) - size
    BY <1>2, UsedShrinks DEF SoundInv, CountInv
  <2> QED
    BY <1>1, <1>2, <2>1, <2>2 DEF SoundInv, CountInv
<1>4. RoomInv'
  <2>1. ASSUME NEW w \in Writers, At(w, "copy")
        PROVE  Used(writeOld[w], readPos') = base[w] - consumed'
    <3>1. Used(writeOld[w], readPos) = base[w] - consumed /\ published <= base[w]
      BY <2>1 DEF SoundInv, RoomInv
    <3>2. Used(writeOld[w], readPos') = Used(writeOld[w], readPos) - size
      BY <1>2, <3>1, UsedShrinks
    <3> QED
      BY <1>2, <3>1, <3>2
  <2> QED
    BY <1>1, <2>1 DEF SoundInv, RoomInv
<1>5. ApartInv'
  BY <1>1 DEF SoundInv, ApartInv
<1>6. FreshInv'
  BY <1>1, <1>2 DEF SoundInv, FreshInv
<1>7. ReaderInv'
  BY <1>1, <1>2, <1>3 DEF ReaderInv, CountInv
<1>8. ContentInv'
  <2>1. ASSUME NEW i \in 0 .. Size - 1, size + i < Size,
               data[Wrap(readPos + (size + i))] = consumed + (size + i) + 1
        PROVE  data'[Wrap(readPos' + i)] = consumed' + i + 1
    BY <1>1, <1>2, <2>1, WrapTwice
  <2>2. ASSUME NEW i \in 0 .. Size - 1, i < published' - consumed'
        PROVE  data'[Wrap(readPos' + i)] = consumed' + i + 1
    <3>1. size + i \in 0 .. Size - 1 /\ size + i < published - consumed
      BY <1>1, <1>2, <2>2 DEF SoundInv, CountInv
    <3>2. data[Wrap(readPos + (size + i))] = consumed + (size + i) + 1
      BY <3>1 DEF SoundInv, ContentInv
    <3> QED
      BY <2>1, <3>1, <3>2
  <2>3. ASSUME NEW w \in Writers, At(w, "copy"), NEW i \in 0 .. Size - 1,
               base[w] - consumed' <= i, i < base[w] + copied[w] - consumed'
        PROVE  data'[Wrap(readPos' + i)] = consumed' + i + 1
    <3>1. base[w] + copied[w] <= claimed
      <4>1. copied[w] <= len[w] /\ base[w] + len[w] <= claimed
        BY <2>3 DEF SoundInv, RoomInv, BoundInv
      <4> QED
        BY <4>1
    <3>2. /\ size + i \in 0 .. Size - 1
          /\ base[w] - consumed <= size + i
          /\ size + i < base[w] + copied[w] - consumed
      <4>1. claimed - consumed < Size
        BY DEF SoundInv, CountInv
      <4>2. i < base[w] + copied[w] - (consumed + size) /\ base[w] - (consumed + size) <= i
        BY <1>2, <2>3
      <4>3. base[w] \in Nat /\ copied[w] \in Nat /\ consumed \in Nat /\ size \in Nat
        OBVIOUS
      <4>4. size + i < base[w] + copied[w] - consumed /\ base[w] - consumed <= size + i
        BY <4>2, <4>3, SMTT(30)
      <4>5. size + i < Size
        BY <3>1, <4>1, <4>3, <4>4, SMTT(30)
      <4> QED
        BY <4>4, <4>5
    <3>3. data[Wrap(readPos + (size + i))] = consumed + (size + i) + 1
      BY <2>3, <3>2 DEF SoundInv, ContentInv
    <3> QED
      BY <2>1, <3>2, <3>3
  <2> QED
    BY <1>1, <1>2, <2>2, <2>3 DEF ContentInv, Wrap
<1> QED
  BY <1>3, <1>4, <1>5, <1>6, <1>7, <1>8 DEF SoundInv

LEMMA SoundStep == IInv /\ [Next]_vars => (Sound => SoundInv)'
<1> SUFFICES ASSUME IInv, [Next]_vars, Sound' PROVE SoundInv'
  OBVIOUS
<1> USE DEF IInv
<1>1. stale \subseteq stale'
  BY DEF Next, WriterStep, ReaderStep, Put, LoadWritePos, Refuse, Accept, Claim, ClaimFails,
         CopyIn, Finish, Get, CopyOut, Free, vars, history
<1>2. Sound
  BY <1>1 DEF Sound
<1>3. ASSUME NEW w \in Writers, Claim(w) PROVE SoundInv'
  <2>1. seen[w] = claimed
    BY <1>3 DEF Claim, Sound
  <2> QED
    BY <1>2, <1>3, <2>1, ClaimStep
<1>4. CASE UNCHANGED vars
  BY <1>2, <1>4 DEF vars, ring, writer, reader, history, SoundInv, CountInv, RoomInv, ApartInv,
                    FreshInv, ReaderInv, ContentInv, At, Used, Wrap
<1>5. ASSUME NEW w \in Writers, WriterStep(w) \/ \E n \in PutLens : Put(w, n) PROVE SoundInv'
  BY <1>2, <1>3, <1>5, BeforeClaimStep, CopyInStep, FinishStep DEF WriterStep
<1>6. CASE ReaderStep \/ \E n \in GetLens : Get(n)
  BY <1>2, <1>6, GetStep, CopyOutStep, FreeStep DEF ReaderStep
<1> QED
  BY <1>4, <1>5, <1>6 DEF Next

-----------------------------------------------------------------------------
(****************************************************************************)
(* The theorems.                                                            *)
(****************************************************************************)
LEMMA Inductive == Spec => []IInv
<1>1. IInv /\ [Next]_vars => IInv'
  BY TypeStep, BoundStep, SoundStep DEF IInv
<1> QED
  BY InitIInv, <1>1, PTL DEF Spec

\* Type correctness.
THEOREM TypeCorrect == Spec => []TypeOK
<1>1. IInv => TypeOK
  BY DEF IInv
<1> QED
  BY Inductive, <1>1, PTL

\* The positions always tell how many bytes are in the ring, and it is never full.
THEOREM NeverFills == Spec => []NeverFull
<1>1. IInv => NeverFull
  BY DEF IInv, SoundInv, CountInv, NeverFull
<1> QED
  BY Inductive, <1>1, PTL

\* The room of a writer is one interval of offsets.
LEMMA ClaimedInterval ==
  ASSUME TypeOK, SoundInv, NEW w \in Writers, At(w, "copy"), NEW i \in Claimed(w)
  PROVE  i \in 0 .. Size - 1 /\ base[w] - consumed <= i /\ i < base[w] + len[w] - consumed
<1> USE SizeAssumption DEF TypeOK, TypeRing, TypeWriters, TypeHistory
<1>1. PICK k \in 0 .. len[w] - 1 : Wrap(readPos + i) = Wrap(writeOld[w] + k)
  BY DEF Claimed
<1> DEFINE j == base[w] - consumed + k
<1>2. j \in 0 .. Size - 1
  BY DEF SoundInv, CountInv, RoomInv
<1>3. Wrap(writeOld[w] + k) = Wrap(readPos + j)
  BY <1>2, WrapFrom DEF SoundInv, RoomInv
<1>4. i \in 0 .. Size - 1
  BY DEF Claimed
<1> HIDE DEF j
<1>5. i = j
  BY <1>1, <1>2, <1>3, <1>4, WrapInjective
<1> QED
  BY <1>4, <1>5 DEF j

\* No two threads work on the same byte.
THEOREM NeverRaces == Spec => []NoRace
<1>1. IInv => NoRace
  <2> SUFFICES ASSUME IInv, Sound, NEW w \in Writers, At(w, "copy")
               PROVE  /\ \A v \in Writers \ {w} : At(v, "copy") => Claimed(v) \cap Claimed(w) = {}
                      /\ \A i \in Claimed(w) : i >= size
    BY DEF NoRace
  <2> USE DEF IInv, TypeOK, TypeWriters, TypeHistory, TypeReader
  <2>1. ASSUME NEW v \in Writers \ {w}, At(v, "copy"), NEW i \in Claimed(v), i \in Claimed(w)
        PROVE  FALSE
    <3>1. base[w] + len[w] <= base[v] \/ base[v] + len[v] <= base[w]
      BY <2>1 DEF SoundInv, ApartInv
    <3>2. /\ i \in 0 .. Size - 1
          /\ base[w] - consumed <= i /\ i < base[w] + len[w] - consumed
          /\ base[v] - consumed <= i /\ i < base[v] + len[v] - consumed
      BY <2>1, ClaimedInterval
    <3> QED
      BY <3>1, <3>2, SizeAssumption, SMTT(30)
  <2>2. ASSUME NEW i \in Claimed(w) PROVE i >= size
    <3>1. i \in 0 .. Size - 1 /\ base[w] - consumed <= i
      BY <2>2, ClaimedInterval
    <3>2. published <= base[w] /\ size <= published - consumed
      BY DEF SoundInv, RoomInv, ReaderInv
    <3> QED
      BY <3>1, <3>2, SizeAssumption
  <2> QED
    BY <2>1, <2>2
<1> QED
  BY Inductive, <1>1, PTL

\* The reader gets every byte once, in order, and after it was written.
THEOREM DeliversInOrder == Spec => []InOrder
<1>1. IInv => InOrder
  BY DEF IInv, SoundInv, ContentInv, InOrder
<1> QED
  BY Inductive, <1>1, PTL

\* A ring with one writer never claims room on a stale view, so that everything
\* above holds of it without condition.
THEOREM OneWriterIsSound ==
  ASSUME NEW w, Writers = {w}
  PROVE  Spec => []Sound
<1> DEFINE J == Sound /\ (pc[w] \in {"check", "claim"} => seen[w] = claimed)
<1>1. Init => J
  BY DEF Init, Sound
<1>2. TypeOK /\ J /\ [Next]_vars => J'
  BY DEF TypeOK, TypeWriters, Sound, Next, WriterStep, ReaderStep, Put, LoadWritePos, Refuse,
         Accept, Claim, ClaimFails, CopyIn, Finish, Get, CopyOut, Free, vars, writer, history,
         At, Goto
<1>3. J => Sound
  OBVIOUS
<1> QED
  BY <1>1, <1>2, <1>3, TypeCorrect, PTL DEF Spec

-----------------------------------------------------------------------------
(****************************************************************************)
(* The queue.  What is in it are the bytes from consumed + 1 to published.  *)
(****************************************************************************)
Bytes(c, p) == [i \in 1 .. p - c |-> c + i]
QueueNow    == [i \in 1 .. Used(finishPos, readPos) |-> data[Wrap(readPos + i - 1)]]

LEMMA QueueIs == IInv /\ Sound => QueueNow = Bytes(consumed, published)
<1> SUFFICES ASSUME IInv, Sound PROVE QueueNow = Bytes(consumed, published)
  OBVIOUS
<1>1. /\ Used(finishPos, readPos) = published - consumed
      /\ published - consumed < Size /\ published \in Nat /\ consumed \in Nat /\ Size \in Nat
      /\ claimed \in Nat /\ readPos \in Nat
  BY SizeAssumption DEF IInv, SoundInv, CountInv, TypeOK, TypeHistory, TypeRing, Pos
<1>2. \A i \in 0 .. Size - 1 :
        i < published - consumed => data[Wrap(readPos + i)] = consumed + i + 1
  BY DEF IInv, SoundInv, ContentInv
<1>3. ASSUME NEW i \in 1 .. published - consumed
      PROVE  data[Wrap(readPos + i - 1)] = consumed + i
  <2>1. i - 1 \in 0 .. Size - 1 /\ i - 1 < published - consumed
    BY <1>1
  <2>2. readPos + i - 1 = readPos + (i - 1) /\ consumed + (i - 1) + 1 = consumed + i
    BY <1>1
  <2> QED
    BY <1>2, <2>1, <2>2
<1> QED
  BY <1>1, <1>3 DEF QueueNow, Bytes

LEMMA BytesLen ==
  ASSUME NEW c \in Nat, NEW p \in Nat, c <= p
  PROVE  Bytes(c, p) \in Seq(Nat) /\ Len(Bytes(c, p)) = p - c
<1>1. p - c \in Nat /\ \A i \in 1 .. p - c : c + i \in Nat
  OBVIOUS
<1> QED
  BY <1>1 DEF Bytes

LEMMA SameSeq ==
  ASSUME NEW s \in Seq(Nat), NEW t \in Seq(Nat), NEW n \in Nat, Len(s) = n, Len(t) = n,
         \A i \in 1 .. n : s[i] = t[i]
  PROVE  s = t
BY SeqEqual

LEMMA BytesGrow ==
  ASSUME NEW c \in Nat, NEW p \in Nat, c <= p, NEW n \in Nat
  PROVE  Bytes(c, p + n) = Bytes(c, p) \o [i \in 1 .. n |-> p + i]
<1> DEFINE a == Bytes(c, p)  b == [i \in 1 .. n |-> p + i]  d == Bytes(c, p + n)
<1>1. a \in Seq(Nat) /\ Len(a) = p - c /\ d \in Seq(Nat) /\ Len(d) = p + n - c
  <2>1. a \in Seq(Nat) /\ Len(a) = p - c
    BY BytesLen
  <2>2. p + n \in Nat /\ c <= p + n
    OBVIOUS
  <2>3. d \in Seq(Nat) /\ Len(d) = p + n - c
    BY <2>2, BytesLen
  <2> QED
    BY <2>1, <2>3
<1>2. b \in Seq(Nat) /\ Len(b) = n
  OBVIOUS
<1>3. /\ \A i \in 1 .. p - c : a[i] = c + i
      /\ \A i \in 1 .. n : b[i] = p + i
      /\ \A i \in 1 .. p + n - c : d[i] = c + i
  BY DEF Bytes
<1> HIDE DEF a, b, d
<1>4. /\ a \o b \in Seq(Nat) /\ Len(a \o b) = Len(a) + Len(b)
      /\ \A i \in 1 .. Len(a) + Len(b) :
           (a \o b)[i] = IF i <= Len(a) THEN a[i] ELSE b[i - Len(a)]
  BY <1>1, <1>2, ConcatProperties
<1>5. Len(a) + Len(b) = p + n - c
  BY <1>1, <1>2
<1>6. ASSUME NEW i \in 1 .. p + n - c PROVE (a \o b)[i] = d[i]
  <2>1. CASE i <= p - c
    BY <1>1, <1>3, <1>4, <1>5, <2>1
  <2>2. CASE ~(i <= p - c)
    <3>1. i - (p - c) \in 1 .. n /\ p + (i - (p - c)) = c + i
      BY <2>2
    <3>2. (a \o b)[i] = b[i - (p - c)]
      BY <1>1, <1>4, <1>5, <2>2
    <3> QED
      BY <1>3, <3>1, <3>2
  <2> QED
    BY <2>1, <2>2
<1>7. d = a \o b
  BY <1>1, <1>4, <1>5, <1>6, SeqEqual
<1> QED
  BY <1>7 DEF a, b, d

\* The m-th to the k-th of the bytes from c + 1 to p are those from u + 1 to v.
Part(c, p, m, k, u, v) ==
  /\ {c, p, m, k, u, v} \subseteq Nat
  /\ c <= p /\ 1 <= m /\ m <= k + 1 /\ k <= p - c
  /\ u = c + (m - 1) /\ v = c + k

LEMMA BytesSub ==
  ASSUME NEW c, NEW p, NEW m, NEW k, NEW u, NEW v, Part(c, p, m, k, u, v)
  PROVE  SubSeq(Bytes(c, p), m, k) = Bytes(u, v)
<1>0. /\ c \in Nat /\ p \in Nat /\ m \in Nat /\ k \in Nat
      /\ c <= p /\ 1 <= m /\ m <= k + 1 /\ k <= p - c
      /\ u = c + (m - 1) /\ v = c + k
  BY DEF Part
<1> DEFINE a == Bytes(c, p)  l == v - u
<1>1. \A i \in 1 .. p - c : a[i] = c + i
  BY <1>0 DEF Bytes
<1>2. u \in Nat /\ v \in Nat /\ u <= v /\ l \in Nat /\ l = k - m + 1
  BY <1>0
<1>3. /\ Bytes(u, v) \in Seq(Nat) /\ Len(Bytes(u, v)) = l
      /\ \A i \in 1 .. l : Bytes(u, v)[i] = u + i
  <2>1. Bytes(u, v) \in Seq(Nat) /\ Len(Bytes(u, v)) = l
    BY ONLY <1>2, BytesLen
  <2> QED
    BY <2>1 DEF Bytes
<1> HIDE DEF a, l
<1>4. m \in Int /\ k \in Int /\ \A i \in m .. k : a[i] \in Nat
  BY <1>0, <1>1
<1>5. /\ SubSeq(a, m, k) \in Seq(Nat)
      /\ Len(SubSeq(a, m, k)) = IF m <= k THEN k - m + 1 ELSE 0
      /\ \A i \in 1 .. k - m + 1 : SubSeq(a, m, k)[i] = a[m + i - 1]
  BY ONLY <1>4, SubSeqProperties
<1>6. Len(SubSeq(a, m, k)) = l
  BY ONLY <1>0, <1>2, <1>5
<1>7. \A i \in 1 .. l : SubSeq(a, m, k)[i] = Bytes(u, v)[i]
  <2> SUFFICES ASSUME NEW i \in 1 .. l PROVE SubSeq(a, m, k)[i] = Bytes(u, v)[i]
    OBVIOUS
  <2>1. i \in 1 .. k - m + 1 /\ m + i - 1 \in 1 .. p - c /\ c + (m + i - 1) = u + i
    BY <1>0, <1>2
  <2> QED
    BY <1>1, <1>3, <1>5, <2>1
<1>8. SubSeq(a, m, k) = Bytes(u, v)
  BY ONLY <1>2, <1>3, <1>5, <1>6, <1>7, SameSeq
<1> QED
  BY <1>8 DEF a

\* The bytes freed are the first of the queue.
LEMMA BytesFreed ==
  ASSUME NEW c \in Nat, NEW p \in Nat, c <= p, NEW n \in Nat, n <= p - c,
         NEW b \in Seq(Nat), Len(b) = n, \A i \in 1 .. n : b[i] = c + i
  PROVE  /\ b = SubSeq(Bytes(c, p), 1, n)
         /\ Bytes(c + n, p) = SubSeq(Bytes(c, p), n + 1, Len(Bytes(c, p)))
<1>1. PICK d, l, n1 : d = c + n /\ l = p - c /\ n1 = n + 1
  OBVIOUS
<1>2. /\ d \in Nat /\ c <= d /\ d - c = n /\ l \in Nat /\ n <= l /\ n1 \in Nat
      /\ 1 <= n1 /\ n1 <= l + 1 /\ d = c + (n1 - 1) /\ p = c + l
  BY <1>1
<1>3. Len(Bytes(c, p)) = l
  BY <1>1, BytesLen
<1>4. Bytes(c, d) \in Seq(Nat) /\ Len(Bytes(c, d)) = n
  BY <1>2, BytesLen
<1>5. \A i \in 1 .. n : Bytes(c, d)[i] = c + i
  BY <1>2 DEF Bytes
<1>6. b = Bytes(c, d)
  BY <1>4, <1>5, SameSeq
<1>7. SubSeq(Bytes(c, p), 1, n) = Bytes(c, d)
  <2>1. PICK m : m = 1
    OBVIOUS
  <2>2. Part(c, p, m, n, c, d)
    BY <1>2, <2>1 DEF Part
  <2>3. SubSeq(Bytes(c, p), m, n) = Bytes(c, d)
    BY <2>2, BytesSub
  <2> QED
    BY <2>1, <2>3
<1>8. SubSeq(Bytes(c, p), n1, l) = Bytes(d, p)
  <2>1. Part(c, p, n1, l, d, p)
    BY <1>2 DEF Part
  <2> QED
    BY <2>1, BytesSub
<1> QED
  BY <1>1, <1>3, <1>6, <1>7, <1>8

LEMMA FifoInit == Init => Fifo!Init
<1> SUFFICES ASSUME Init PROVE Fifo!Init
  OBVIOUS
<1>1. IInv /\ Sound /\ consumed = 0 /\ published = 0 /\ got = <<>>
  BY InitIInv DEF Init, Sound
<1>2. QueueNow = Bytes(0, 0)
  BY <1>1, QueueIs
<1>3. Bytes(0, 0) = <<>>
  BY DEF Bytes
<1> QED
  BY <1>1, <1>2, <1>3 DEF Fifo!Init, QueueNow

\* The steps that neither publish nor free.
LEMMA QuietStep ==
  ASSUME [Next]_vars,
         \A w \in Writers : ~Finish(w),
         ~Free
  PROVE  UNCHANGED <<published, consumed, got>>
<1> QED
  BY DEF Next, WriterStep, ReaderStep, Put, LoadWritePos, Refuse, Accept, Claim, ClaimFails,
         CopyIn, Get, CopyOut, vars, ring, writer, reader, history

LEMMA FifoStep == IInv /\ IInv' /\ [Next]_vars => [~Sound' \/ Fifo!Next]_(Fifo!vars)
<1> SUFFICES ASSUME IInv, IInv', [Next]_vars, Sound' PROVE [Fifo!Next]_(Fifo!vars)
  OBVIOUS
<1>1. Sound
  BY DEF Sound, Next, WriterStep, ReaderStep, Put, LoadWritePos, Refuse, Accept, Claim,
         ClaimFails, CopyIn, Finish, Get, CopyOut, Free, vars, history
<1>2. QueueNow = Bytes(consumed, published)
  BY <1>1, QueueIs
<1>3. QueueNow' = Bytes(consumed', published')
  <2>1. (IInv /\ Sound => QueueNow = Bytes(consumed, published))'
    BY QueueIs, PTL
  <2> QED
    BY <2>1 DEF Bytes
<1>4. /\ published \in Nat /\ consumed \in Nat /\ consumed <= published
      /\ published' \in Nat /\ consumed' \in Nat /\ consumed' <= published'
      /\ Size \in Nat /\ published' - consumed' <= Size - 1
  <2>1. /\ published \in Nat /\ consumed \in Nat /\ consumed <= published
    BY <1>1 DEF IInv, SoundInv, CountInv, TypeOK, TypeHistory
  <2>2. /\ published' \in Nat /\ consumed' \in Nat /\ claimed' \in Nat
        /\ consumed' <= published' /\ published' <= claimed' /\ claimed' - consumed' < Size
    BY DEF IInv, SoundInv, CountInv, TypeOK, TypeHistory
  <2>3. \A x, y, z, n \in Int : y <= z /\ z - x < n => y - x <= n - 1
    BY ONLY SMT
  <2>4. Size \in Nat /\ Nat \subseteq Int
    BY SizeAssumption
  <2>5. published' - consumed' <= Size - 1
    BY <2>2, <2>3, <2>4
  <2> QED
    BY <2>1, <2>2, <2>4, <2>5
<1>5. Len(QueueNow) = published - consumed
  BY <1>2, <1>4, BytesLen
<1>6. ASSUME NEW w \in Writers, Finish(w) PROVE Fifo!Next
  <2>1. PICK n : n = len[w]
    OBVIOUS
  <2>2. n \in Nat /\ published' = published + n /\ UNCHANGED <<consumed, got>>
    BY <1>6, <2>1 DEF Finish, reader, IInv, TypeOK, TypeWriters
  <2>3. QueueNow' = QueueNow \o [i \in 1 .. n |-> published + i]
    BY <1>2, <1>3, <1>4, <2>2, BytesGrow
  <2>4. Len(QueueNow) + n <= Size - 1 /\ n \in 0 .. Size - 1
    BY <1>4, <1>5, <2>2
  <2>5. Fifo!Put(n)
    BY <2>2, <2>3, <2>4 DEF Fifo!Put, QueueNow
  <2> QED
    BY <2>4, <2>5 DEF Fifo!Next
<1>7. CASE Free
  <2>1. PICK n : n = size
    OBVIOUS
  <2>2. /\ n \in Nat /\ n > 0 /\ n <= published - consumed
        /\ consumed' = consumed + n /\ published' = published
        /\ got' = buffer /\ Len(buffer) = n /\ buffer \in Seq(Nat)
        /\ \A i \in 1 .. Len(buffer) : buffer[i] = consumed + i
    BY <1>1, <1>7, <2>1
    DEF Free, IInv, BoundInv, SoundInv, ReaderInv, ContentInv, TypeOK, TypeReader
  <2>3. PICK c, p, b : c = consumed /\ p = published /\ b = buffer
    OBVIOUS
  <2>4. /\ c \in Nat /\ p \in Nat /\ c <= p /\ n <= p - c
        /\ b \in Seq(Nat) /\ Len(b) = n /\ \A i \in 1 .. n : b[i] = c + i
    BY <1>4, <2>2, <2>3
  <2>7. /\ b = SubSeq(Bytes(c, p), 1, n)
        /\ Bytes(c + n, p) = SubSeq(Bytes(c, p), n + 1, Len(Bytes(c, p)))
    BY <2>2, <2>4, BytesFreed
  <2>8. QueueNow = Bytes(c, p) /\ QueueNow' = Bytes(c + n, p) /\ got' = b
    BY <1>2, <1>3, <2>2, <2>3
  <2>9. got' = SubSeq(QueueNow, 1, n) /\ QueueNow' = SubSeq(QueueNow, n + 1, Len(QueueNow))
    BY <2>7, <2>8
  <2>5. n \in 1 .. Len(QueueNow)
    BY <1>4, <1>5, <2>2
  <2>6. Fifo!Get(n)
    BY <2>2, <2>9 DEF Fifo!Get, QueueNow
  <2> QED
    BY <2>5, <2>6 DEF Fifo!Next, QueueNow
<1>8. CASE ~Free /\ \A w \in Writers : ~Finish(w)
  <2>1. UNCHANGED <<published, consumed, got>>
    BY <1>8, QuietStep
  <2>2. QueueNow' = QueueNow
    BY <1>2, <1>3, <2>1
  <2> QED
    BY <2>1, <2>2 DEF Fifo!vars, QueueNow
<1> QED
  BY <1>6, <1>7, <1>8

\* As long as no claim was made on a stale view, the ring is a queue: a put appends its
\* bytes as a whole when it stores finish_pos, a get takes a prefix when it stores
\* read_pos, and no other access to the ring can be seen.
THEOREM QueueImplemented == Spec => ImplementsFifo
<1>1. IInv /\ IInv' /\ [Next]_vars => [~Sound' \/ Fifo!Next]_(Fifo!vars)
  BY FifoStep
<1> QED
  BY <1>1, FifoInit, Inductive, PTL DEF Spec, ImplementsFifo

\* With one writer it is one without condition: the free lists of cmd_dump.c and of
\* cuckoohash.c, which one thread fills and empties, are queues.
THEOREM OneWriterIsFifo ==
  ASSUME NEW w, Writers = {w}
  PROVE  Spec => Fifo!Spec
<1>1. Spec => []Sound
  BY OneWriterIsSound
<1>2. Sound' /\ [~Sound' \/ Fifo!Next]_(Fifo!vars) => [Fifo!Next]_(Fifo!vars)
  OBVIOUS
<1> QED
  BY <1>1, <1>2, QueueImplemented, PTL DEF ImplementsFifo, Fifo!Spec
=============================================================================
