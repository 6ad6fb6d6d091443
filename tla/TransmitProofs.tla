---------------------------- MODULE TransmitProofs ----------------------------
(****************************************************************************)
(* The safety properties of Transmit, for any pool, burst and queue, and    *)
(* any rate.                                                                *)
(****************************************************************************)
EXTENDS TLAPS, FiniteSetTheorems, SequenceTheorems, Transmit

\* What a refcnt stands for: 1, or how often its mbuf was freed beyond that.
Signed(m) == IF refcnt[m] <= 1 THEN refcnt[m] ELSE refcnt[m] - RefWrap

\* The packets of the burst that the NIC has yet to take.
Unsent == Rest(BurstSize - sent)

\* How often m will still be freed: once for each descriptor that it has or will
\* have, and by the lcore at the end of the burst.
Due(m) == Count(queue, m) + (IF pc = "send" THEN Count(Unsent, m) + Count(table, m) ELSE 0)

\* The table that is being sent is full, and no two of its mbufs are the same.
TableInv ==
  pc \in {"reset", "send"} => Len(table) = BurstSize /\ \A m \in Mbufs : Count(table, m) <= 1

\* However often an mbuf is freed before it is allocated again, its refcnt does not
\* come round to 1.
RefInv == \A m \in Mbufs : Signed(m) - Due(m) >= -(TxDesc + 1)

\* Exactly the mbufs that are referred to, and those that are being allocated, are
\* not in the pool.
PoolInv ==
  \A m \in Mbufs :
    /\ pool[m] = IF pc = "reset" THEN 1 - Count(table, m) ELSE IF Signed(m) = 1 THEN 0 ELSE 1
    /\ Signed(m) = 1 => pc = "send" /\ Count(table, m) = 1

\* The sum of the burst's sizes, and the time of the next one.
RateInv ==
  /\ total = IF pc = "send" THEN BurstSize * WireSize ELSE 0
  /\ pc = "idle" /\ next > 0 => next = cycles + CyclesOf(BurstSize * WireSize)

IInv == TypeOK /\ pc # "failed" /\ TableInv /\ RefInv /\ PoolInv /\ RateInv /\ HandedOver

-----------------------------------------------------------------------------
(* Counting the elements of a sequence *)

\* The places of m in s from one index to another.
Places(s, m, a, b) == {k \in a .. b : s[k] = m}

LEMMA PlacesFinite ==
  ASSUME NEW s, NEW m, NEW a \in Int, NEW b \in Int
  PROVE  IsFiniteSet(Places(s, m, a, b)) /\ Cardinality(Places(s, m, a, b)) \in Nat
<1>1. IsFiniteSet(a .. b) /\ Places(s, m, a, b) \in SUBSET (a .. b)
  BY FS_Interval DEF Places
<1> QED
  BY <1>1, FS_Subset, FS_CardinalityType

\* A sequence has no more occurrences of an element than places.
LEMMA CountBound ==
  ASSUME NEW S, NEW s \in Seq(S), NEW m
  PROVE  /\ Count(s, m) = Cardinality(Places(s, m, 1, Len(s)))
         /\ Count(s, m) \in Nat /\ Count(s, m) <= Len(s)
<1> DEFINE P == Places(s, m, 1, Len(s))
<1>1. Count(s, m) = Cardinality(P) /\ Len(s) \in Nat
  <2>1. DOMAIN s = 1 .. Len(s) /\ Len(s) \in Nat
    BY LenProperties
  <2> QED
    BY <2>1, Zenon DEF Count, Places
<1>2. IsFiniteSet(1 .. Len(s)) /\ Cardinality(1 .. Len(s)) = Len(s)
  BY <1>1, FS_Interval
<1>3. P \in SUBSET (1 .. Len(s))
  BY DEF Places
<1> HIDE DEF P
<1>4. Cardinality(P) <= Len(s)
  BY <1>2, <1>3, FS_Subset
<1> QED
  BY <1>1, <1>4, PlacesFinite DEF P

\* An injective sequence has each element once at most.
LEMMA CountInjective ==
  ASSUME NEW S, NEW s \in Seq(S), NEW m,
         \A k, n \in 1 .. Len(s) : s[k] = s[n] => k = n
  PROVE  Count(s, m) <= 1
<1> DEFINE P == Places(s, m, 1, Len(s))
<1>1. Count(s, m) = Cardinality(P)
  BY CountBound
<1>2. \A k \in P : P = {k}
  BY DEF Places
<1> HIDE DEF P
<1>3. P = {} \/ \E k : P = {k}
  BY <1>2
<1>4. Cardinality(P) = 0 \/ Cardinality(P) = 1
  BY <1>3, FS_EmptySet, FS_Singleton, Zenon
<1> QED
  BY <1>1, <1>4

LEMMA PartProperties ==
  ASSUME NEW S, NEW s \in Seq(S), NEW a \in 1 .. Len(s) + 1, NEW b \in a - 1 .. Len(s)
  PROVE  /\ SubSeq(s, a, b) \in Seq(S) /\ Len(SubSeq(s, a, b)) = b - a + 1
         /\ \A k \in 1 .. b - a + 1 : SubSeq(s, a, b)[k] = s[a + k - 1]
<1>1. \A k \in a .. b : s[k] \in S
  BY ElementOfSeq
<1> QED
  BY <1>1, SubSeqProperties

\* Where an element is in a part of a sequence.
LEMMA CountPart ==
  ASSUME NEW S, NEW s \in Seq(S), NEW m, NEW a \in 1 .. Len(s) + 1, NEW b \in a - 1 .. Len(s)
  PROVE  Count(SubSeq(s, a, b), m) = Cardinality(Places(s, m, a, b))
<1> DEFINE t == SubSeq(s, a, b)
<1>1. /\ t \in Seq(S) /\ Len(t) = b - a + 1 /\ b - a + 1 \in Nat
      /\ \A k \in 1 .. b - a + 1 : t[k] = s[a + k - 1]
  BY PartProperties
<1> HIDE DEF t
<1> DEFINE P == Places(t, m, 1, Len(t))
           Q == Places(s, m, a, b)
           f == [k \in P |-> a + k - 1]
<1>2. f \in [P -> Q]
  BY <1>1 DEF Places
<1>3. \A k, n \in P : f[k] = f[n] => k = n
  BY DEF Places
<1>4. ASSUME NEW q \in Q PROVE \E k \in P : f[k] = q
  <2>1. q - a + 1 \in 1 .. b - a + 1 /\ a + (q - a + 1) - 1 = q /\ s[q] = m
    BY DEF Places
  <2>2. q - a + 1 \in P
    BY <1>1, <2>1 DEF Places
  <2> QED
    BY <2>1, <2>2
<1> HIDE DEF f
<1>5. f \in Bijection(P, Q)
  BY <1>2, <1>3, <1>4 DEF Bijection, Injection, Surjection, IsInjective
<1>6. IsFiniteSet(P)
  BY <1>1, PlacesFinite
<1> HIDE DEF P, Q
<1>7. Cardinality(Q) = Cardinality(P)
  BY <1>5, <1>6, FS_Bijection DEF ExistsBijection
<1>8. Count(t, m) = Cardinality(P)
  BY <1>1, CountBound DEF P
<1> QED
  BY <1>1, <1>7, <1>8 DEF t, Q

\* A part of a sequence that is cut in two.
LEMMA CountSplit ==
  ASSUME NEW S, NEW s \in Seq(S), NEW m,
         NEW a \in 1 .. Len(s) + 1, NEW b \in a - 1 .. Len(s), NEW c \in b .. Len(s)
  PROVE  Count(SubSeq(s, a, c), m) = Count(SubSeq(s, a, b), m) + Count(SubSeq(s, b + 1, c), m)
<1> DEFINE P == Places(s, m, a, b)  Q == Places(s, m, b + 1, c)  R == Places(s, m, a, c)
<1>1. /\ Count(SubSeq(s, a, c), m) = Cardinality(R)
      /\ Count(SubSeq(s, a, b), m) = Cardinality(P)
      /\ Count(SubSeq(s, b + 1, c), m) = Cardinality(Q)
  <2>1. c \in a - 1 .. Len(s) /\ b + 1 \in 1 .. Len(s) + 1 /\ c \in (b + 1) - 1 .. Len(s)
    BY LenProperties
  <2> QED
    BY <2>1, CountPart
<1>2. R = P \cup Q /\ P \cap Q = {}
  BY LenProperties DEF Places
<1>3. IsFiniteSet(P) /\ IsFiniteSet(Q) /\ Cardinality(P) \in Nat /\ Cardinality(Q) \in Nat
  BY PlacesFinite, LenProperties
<1> HIDE DEF P, Q, R
<1>4. Cardinality(P \cup Q) = Cardinality(P) + Cardinality(Q) - Cardinality(P \cap Q)
  BY <1>3, FS_Union
<1>5. Cardinality(P \cap Q) = 0
  BY <1>2, FS_EmptySet
<1> QED
  BY <1>1, <1>2, <1>3, <1>4, <1>5

LEMMA CountConcat ==
  ASSUME NEW S, NEW s \in Seq(S), NEW t \in Seq(S), NEW m
  PROVE  Count(s \o t, m) = Count(s, m) + Count(t, m)
<1> DEFINE u == s \o t  n == Len(s)  l == Len(t)
<1>1. /\ u \in Seq(S) /\ Len(u) = n + l /\ n \in Nat /\ l \in Nat
      /\ \A k \in 1 .. n : u[k] = s[k]
      /\ \A k \in 1 .. l : u[n + k] = t[k]
  BY ConcatProperties, LenProperties
<1> HIDE DEF u
<1>2. /\ 1 \in 1 .. Len(u) + 1 /\ n \in 1 - 1 .. Len(u) /\ Len(u) \in n .. Len(u)
      /\ n + 1 \in 1 .. Len(u) + 1 /\ Len(u) \in (n + 1) - 1 .. Len(u)
  BY <1>1
<1>3. SubSeq(u, 1, n) = s
  <2>1. /\ SubSeq(u, 1, n) \in Seq(S) /\ Len(SubSeq(u, 1, n)) = n
        /\ \A k \in 1 .. n : SubSeq(u, 1, n)[k] = u[k]
    BY <1>1, <1>2, PartProperties
  <2> QED
    BY <1>1, <2>1, SeqEqual
<1>4. SubSeq(u, n + 1, Len(u)) = t
  <2>1. /\ SubSeq(u, n + 1, Len(u)) \in Seq(S) /\ Len(SubSeq(u, n + 1, Len(u))) = l
        /\ \A k \in 1 .. l : SubSeq(u, n + 1, Len(u))[k] = u[n + k]
    BY <1>1, <1>2, PartProperties
  <2> QED
    BY <1>1, <2>1, SeqEqual
<1>5. SubSeq(u, 1, Len(u)) = u
  BY <1>1, SubSeqFull
<1>6. Count(SubSeq(u, 1, Len(u)), m)
        = Count(SubSeq(u, 1, n), m) + Count(SubSeq(u, n + 1, Len(u)), m)
  BY <1>1, <1>2, CountSplit
<1> QED
  BY <1>3, <1>4, <1>5, <1>6 DEF u

-----------------------------------------------------------------------------
(* The rate *)

LEMMA BpsType == Bps \in Nat \ {0} /\ WireSize \in Nat /\ CpuHz \in Nat
BY TransmitAssumption DEF Bps, WireSize

\* The cycles of some bytes, rounded down.
LEMMA CyclesRounded ==
  ASSUME NEW bytes \in Nat
  PROVE  /\ CyclesOf(bytes) \in Nat
         /\ CyclesOf(bytes) * Bps <= bytes * CpuHz * 8
         /\ bytes * CpuHz * 8 < (CyclesOf(bytes) + 1) * Bps
<1> DEFINE x == bytes * CpuHz * 8
<1>1. x \in Nat
  BY BpsType
<1> HIDE DEF x
<1>2. \A b \in Nat \ {0} :
        x \div b \in Nat /\ (x \div b) * b <= x /\ x < (x \div b + 1) * b
  BY <1>1
<1> QED
  BY <1>2, BpsType DEF CyclesOf, x

LEMMA BurstType == BurstSize \in Nat /\ BurstSize * WireSize \in Nat
BY BpsType, TransmitAssumption

-----------------------------------------------------------------------------
(* Frees *)

LEMMA SignedType ==
  ASSUME TypeOK, NEW m \in Mbufs
  PROVE  /\ refcnt[m] \in 0 .. RefWrap - 1 /\ pool[m] \in Nat
         /\ Signed(m) \in Int /\ Signed(m) <= 1
BY TransmitAssumption DEF TypeOK, Signed

LEMMA Wrapped ==
  ASSUME NEW w \in Nat \ {0}
  PROVE  /\ \A x \in Nat : x < w => x % w = x
         /\ \A x \in Int : x < 0 /\ -w <= x => x % w = x + w
OBVIOUS

\* As long as every free is due, the refcnt counts down, and the mbuf enters the pool
\* with the free that takes the last reference.
LEMMA FreeFacts ==
  ASSUME TypeOK, RefInv, NEW s, FreeAll(s), NEW m \in Mbufs,
         Due(m) \in Nat, Count(s, m) \in Nat, Count(s, m) <= Due(m)
  PROVE  /\ refcnt'[m] \in 0 .. RefWrap - 1
         /\ Signed(m)' = Signed(m) - Count(s, m)
         /\ pool'[m] = IF Signed(m) = 1 /\ Count(s, m) > 0 THEN pool[m] + 1 ELSE pool[m]
<1> DEFINE c == Count(s, m)  r == refcnt[m]  v == Signed(m)
<1>1. /\ refcnt'[m] = (r - c) % RefWrap
      /\ pool'[m] = IF r \in 1 .. c THEN pool[m] + 1 ELSE pool[m]
  BY DEF FreeAll
<1>2. /\ c \in Nat /\ r \in 0 .. RefWrap - 1 /\ v = (IF r <= 1 THEN r ELSE r - RefWrap)
      /\ v - c >= -(TxDesc + 1) /\ RefWrap \in Nat /\ RefWrap >= TxDesc + 3 /\ TxDesc \in Nat
  <2>1. v \in Int /\ v - Due(m) >= -(TxDesc + 1)
    BY SignedType DEF RefInv
  <2> QED
    BY <2>1, SignedType, TransmitAssumption DEF Signed
<1>3. Signed(m)' = IF refcnt'[m] <= 1 THEN refcnt'[m] ELSE refcnt'[m] - RefWrap
  BY DEF Signed
<1> HIDE DEF c, r, v
<1>4. RefWrap \in Nat \ {0}
  BY <1>2
<1>5. CASE r - c >= 0
  <2>1. (r - c) % RefWrap = r - c
    BY <1>2, <1>4, <1>5, Wrapped
  <2> QED
    BY <1>1, <1>2, <1>3, <1>5, <2>1 DEF c, v
<1>6. CASE r - c < 0
  <2>1. (r - c) % RefWrap = r - c + RefWrap
    <3>1. r - c \in Int /\ -RefWrap <= r - c
      BY <1>2
    <3> QED
      BY <1>4, <1>6, <3>1, Wrapped
  <2> QED
    BY <1>1, <1>2, <1>3, <1>6, <2>1 DEF c, v
<1> QED
  BY <1>2, <1>5, <1>6

LEMMA CountTypes ==
  ASSUME TypeOK, NEW m \in Mbufs
  PROVE  /\ Count(queue, m) \in Nat /\ Count(queue, m) <= TxDesc /\ Count(table, m) \in Nat
BY CountBound, TransmitAssumption DEF TypeOK

\* While the burst is sent: what the NIC has not taken is the end of the table.
LEMMA UnsentPart ==
  ASSUME TypeOK, TableInv, pc = "send", NEW m \in Mbufs
  PROVE  /\ Unsent = SubSeq(table, sent + 1, BurstSize) /\ Unsent \in Seq(Mbufs)
         /\ Len(table) = BurstSize /\ BurstSize \in Nat /\ sent \in 0 .. BurstSize
         /\ Count(Unsent, m) \in Nat
<1>1. /\ Len(table) = BurstSize /\ BurstSize \in Nat /\ sent \in 0 .. BurstSize
      /\ table \in Seq(Mbufs)
  BY TransmitAssumption DEF TypeOK, TableInv
<1>2. Unsent = SubSeq(table, sent + 1, BurstSize)
  BY <1>1 DEF Unsent, Rest
<1>3. sent + 1 \in 1 .. Len(table) + 1 /\ BurstSize \in (sent + 1) - 1 .. Len(table)
  BY <1>1
<1>4. Unsent \in Seq(Mbufs)
  BY <1>1, <1>2, <1>3, PartProperties
<1> QED
  BY <1>1, <1>2, <1>4, CountBound

LEMMA DueType ==
  ASSUME TypeOK, TableInv, NEW m \in Mbufs PROVE Due(m) \in Nat
BY CountTypes, UnsentPart DEF Due

-----------------------------------------------------------------------------
LEMMA CountEmpty == \A m : Count(<< >>, m) = 0
<1>1. << >> \in Seq({}) /\ Len(<< >>) = 0
  BY EmptySeq
<1>2. ASSUME NEW m PROVE Count(<< >>, m) = 0
  <2>1. Count(<< >>, m) \in Nat /\ Count(<< >>, m) <= Len(<< >>)
    BY <1>1, CountBound
  <2> QED
    BY <1>1, <2>1
<1> QED
  BY <1>2

LEMMA InitIInv == Init => IInv
<1> SUFFICES ASSUME Init PROVE IInv
  OBVIOUS
<1> USE TransmitAssumption DEF Init
<1>1. TypeOK
  <2>1. /\ pool \in [Mbufs -> Nat] /\ refcnt \in [Mbufs -> 0 .. RefWrap - 1]
        /\ queue \in Seq(Mbufs) /\ Len(queue) <= TxDesc /\ done \in 0 .. Len(queue)
        /\ table \in Seq(Mbufs)
    OBVIOUS
  <2> QED
    BY <2>1 DEF TypeOK
<1>2. \A m \in Mbufs : Signed(m) = 0 /\ Due(m) = 0
  BY CountEmpty DEF Signed, Due
<1>3. RefInv /\ PoolInv
  BY <1>2 DEF RefInv, PoolInv
<1> QED
  BY <1>1, <1>3 DEF IInv, TableInv, RateInv, HandedOver

\* Time passes, or the NIC sends.
LEMMA QuietStep == IInv /\ (Tick \/ NicSends \/ UNCHANGED vars) => IInv'
<1> SUFFICES ASSUME IInv, Tick \/ NicSends \/ UNCHANGED vars PROVE IInv'
  OBVIOUS
<1>1. /\ UNCHANGED <<pool, refcnt, queue, pc, cycles, next, table, total, sent>>
      /\ now' \in 0 .. Horizon /\ now' >= now /\ done' \in 0 .. Len(queue)
  <2> USE DEF mbufVars, nicVars, ctlVars
  <2>1. now \in 0 .. Horizon /\ done \in 0 .. Len(queue) /\ Len(queue) \in Nat /\ Horizon \in Nat
    BY TransmitAssumption, LenProperties DEF IInv, TypeOK
  <2>2. CASE Tick
    BY <2>1, <2>2 DEF Tick
  <2>3. CASE NicSends
    BY <2>1, <2>3 DEF NicSends
  <2>4. CASE UNCHANGED vars
    BY <2>1, <2>4 DEF vars
  <2> QED
    BY <2>2, <2>3, <2>4
<1>2. TypeOK'
  BY <1>1 DEF IInv, TypeOK
<1>3. RefInv' /\ PoolInv'
  BY <1>1 DEF IInv, RefInv, PoolInv, Signed, Due, Unsent, Rest
<1> QED
  BY <1>1, <1>2, <1>3 DEF IInv, TableInv, RateInv, HandedOver

LEMMA BeginBurstStep == IInv /\ BeginBurst => IInv'
<1> SUFFICES ASSUME IInv, BeginBurst PROVE IInv'
  OBVIOUS
<1>1. /\ UNCHANGED <<pool, refcnt, queue, done, now, next, table, total, sent>>
      /\ pc = "idle" /\ pc' = "get" /\ cycles' = now
  BY DEF BeginBurst, mbufVars, nicVars
<1>2. TypeOK'
  BY <1>1, TransmitAssumption DEF IInv, TypeOK
<1>3. RefInv' /\ PoolInv'
  BY <1>1 DEF IInv, RefInv, PoolInv, Signed, Due
<1> QED
  BY <1>1, <1>2, <1>3 DEF IInv, TableInv, RateInv, HandedOver

\* With every mbuf in the pool there is a table, and each that there is has
\* BurstSize different mbufs.
LEMMA BulkThere ==
  ASSUME \A m \in Mbufs : pool[m] = 1
  PROVE  Bulks # {}
<1>1. ExistsBijection(1 .. Cardinality(Mbufs), Mbufs) /\ Cardinality(Mbufs) \in Nat
  BY TransmitAssumption, FS_CardinalityType
<1>2. PICK f \in Bijection(1 .. Cardinality(Mbufs), Mbufs) : TRUE
  BY <1>1 DEF ExistsBijection
<1> DEFINE t == [k \in 1 .. BurstSize |-> f[k]]
<1>3. /\ t \in [1 .. BurstSize -> Mbufs] /\ BurstSize \in Nat
      /\ \A k, n \in 1 .. BurstSize : t[k] = t[n] => k = n
  BY <1>1, <1>2, TransmitAssumption DEF Bijection, Injection, IsInjective
<1> HIDE DEF t
<1>4. t \in Seq(Mbufs) /\ Len(t) = BurstSize
  BY <1>3
<1>5. \A m \in Mbufs : Count(t, m) <= pool[m]
  BY <1>3, <1>4, CountInjective
<1> QED
  BY <1>3, <1>5 DEF Bulks

LEMMA GetBulkStep == IInv /\ GetBulk => IInv'
<1> SUFFICES ASSUME IInv, GetBulk PROVE IInv'
  OBVIOUS
<1>1. pc = "get" /\ UNCHANGED <<refcnt, queue, done, now, cycles, next, total, sent>>
  BY DEF GetBulk, nicVars
<1>2. \A m \in Mbufs : pool[m] = 1 /\ Signed(m) # 1
  BY <1>1 DEF IInv, PoolInv
<1>3. /\ pc' = "reset" /\ table' \in [1 .. BurstSize -> Mbufs]
      /\ \A m \in Mbufs : Count(table', m) <= 1
      /\ pool' = [m \in Mbufs |-> 1 - Count(table', m)]
  BY <1>1, <1>2, BulkThere DEF GetBulk, Bulks
<1>4. table' \in Seq(Mbufs) /\ Len(table') = BurstSize
  BY <1>3, TransmitAssumption
<1>5. \A m \in Mbufs : Count(table', m) \in Nat
  BY <1>4, CountBound
<1>6. TypeOK'
  <2>1. \A m \in Mbufs : 1 - Count(table', m) \in Nat
    BY <1>3, <1>5
  <2>2. pool' \in [Mbufs -> Nat]
    BY <1>3, <2>1
  <2> QED
    BY <1>1, <1>3, <1>4, <2>2 DEF IInv, TypeOK
<1>7. TableInv'
  BY <1>3, <1>4 DEF TableInv
<1>8. RefInv' /\ PoolInv'
  <2>1. \A m \in Mbufs : Signed(m)' = Signed(m) /\ Due(m)' = Due(m)
    BY <1>1, <1>3 DEF Signed, Due
  <2> QED
    BY <1>2, <1>3, <2>1 DEF IInv, RefInv, PoolInv
<1> QED
  BY <1>1, <1>3, <1>6, <1>7, <1>8 DEF IInv, RateInv, HandedOver

LEMMA ResetMbufsStep == IInv /\ ResetMbufs => IInv'
<1> SUFFICES ASSUME IInv, ResetMbufs PROVE IInv'
  OBVIOUS
<1>1. /\ pc = "reset" /\ pc' = "send" /\ sent' = 0 /\ total' = total + BurstSize * WireSize
      /\ refcnt' = [m \in Mbufs |-> IF Count(table, m) > 0 THEN 1 ELSE refcnt[m]]
      /\ UNCHANGED <<pool, queue, done, now, cycles, next, table>>
  BY DEF ResetMbufs, nicVars
<1>2. Len(table) = BurstSize /\ \A m \in Mbufs : Count(table, m) <= 1
  BY <1>1 DEF IInv, TableInv
<1>3. TypeOK'
  <2>1. refcnt' \in [Mbufs -> 0 .. RefWrap - 1]
    BY <1>1, TransmitAssumption DEF IInv, TypeOK
  <2> QED
    BY <1>1, <2>1, BurstType DEF IInv, TypeOK
<1>4. TableInv'
  BY <1>1, <1>2 DEF TableInv
<1>5. Unsent' = table
  <2>1. Unsent' = SubSeq(table, 1, BurstSize)
    BY <1>1, TransmitAssumption DEF Unsent, Rest
  <2> QED
    BY <1>2, <2>1, SubSeqFull DEF IInv, TypeOK
<1>6. ASSUME NEW m \in Mbufs
      PROVE  /\ Signed(m)' - Due(m)' >= -(TxDesc + 1)
             /\ pool'[m] = IF Signed(m)' = 1 THEN 0 ELSE 1
             /\ Signed(m)' = 1 => Count(table, m) = 1
  <2> DEFINE c == Count(table, m)  d == Count(queue, m)
  <2>1. /\ c \in Nat /\ d \in Nat /\ d <= TxDesc /\ c <= 1 /\ TxDesc \in Nat
    BY <1>2, CountTypes, TransmitAssumption DEF IInv
  <2>2. Due(m) = d /\ Due(m)' = d + (c + c)
    BY <1>1, <1>5, <2>1 DEF Due
  <2>3. Signed(m)' = IF c > 0 THEN 1 ELSE Signed(m)
    BY <1>1 DEF Signed
  <2>4. Signed(m) # 1 /\ pool[m] = 1 - c
    BY <1>1 DEF IInv, PoolInv
  <2>5. Signed(m) \in Int /\ Signed(m) - Due(m) >= -(TxDesc + 1)
    BY SignedType DEF IInv, RefInv
  <2> HIDE DEF c, d
  <2>6. pool'[m] = 1 - c
    BY <1>1, <2>4
  <2> QED
    BY <2>1, <2>2, <2>3, <2>4, <2>5, <2>6 DEF c
<1>7. RefInv' /\ PoolInv'
  BY <1>1, <1>6 DEF RefInv, PoolInv
<1>8. RateInv' /\ HandedOver'
  BY <1>1, BurstType DEF IInv, RateInv, HandedOver
<1> QED
  BY <1>1, <1>3, <1>4, <1>7, <1>8 DEF IInv

\* What one turn of __send_burst takes from the front of the queue and puts behind it.
LEMMA SendTurnFacts ==
  ASSUME IInv, SendTurn
  PROVE  \E k, n \in Nat : \E freed, kept, rest \in Seq(Mbufs) :
           /\ k <= done /\ n <= BurstSize - sent /\ n <= TxDesc - (Len(queue) - k)
           /\ FreeAll(freed) /\ queue' = kept \o rest
           /\ done' = done - k /\ sent' = sent + n
           /\ \A m \in Mbufs : Count(queue, m) = Count(freed, m) + Count(kept, m)
           /\ Len(kept) = Len(queue) - k
           /\ \A p \in 1 .. Len(queue) - k : kept[p] = queue[k + p]
           /\ rest = Rest(n) /\ Len(rest) = n
           /\ \A p \in 1 .. n : rest[p] = table[sent + p]
<1>1. PICK k \in 0 .. done :
        LET used == Len(queue) - k
            room == TxDesc - used
            n == IF BurstSize - sent < room THEN BurstSize - sent ELSE room
        IN  /\ FreeAll(SubSeq(queue, 1, k))
            /\ queue' = SubSeq(queue, k + 1, Len(queue)) \o Rest(n)
            /\ done' = done - k
            /\ sent' = sent + n
  BY DEF SendTurn
<1> DEFINE room == TxDesc - (Len(queue) - k)
           n == IF BurstSize - sent < room THEN BurstSize - sent ELSE room
           freed == SubSeq(queue, 1, k)
           kept == SubSeq(queue, k + 1, Len(queue))
<1>2. /\ queue \in Seq(Mbufs) /\ table \in Seq(Mbufs) /\ Len(queue) \in Nat /\ Len(queue) <= TxDesc
      /\ TxDesc \in Nat /\ Len(table) = BurstSize /\ BurstSize \in Nat /\ sent \in 0 .. BurstSize
      /\ done \in 0 .. Len(queue) /\ k \in Nat /\ k <= Len(queue) /\ k <= done
  <2>1. /\ queue \in Seq(Mbufs) /\ table \in Seq(Mbufs) /\ Len(queue) <= TxDesc
        /\ TxDesc \in Nat /\ BurstSize \in Nat /\ sent \in 0 .. BurstSize
        /\ done \in 0 .. Len(queue)
    BY TransmitAssumption DEF IInv, TypeOK
  <2>2. Len(queue) \in Nat
    BY <2>1, LenProperties
  <2>3. Len(table) = BurstSize
    BY DEF IInv, TableInv, SendTurn
  <2> QED
    BY <2>1, <2>2, <2>3
<1>3. n \in Nat /\ n <= BurstSize - sent /\ n <= room
  BY <1>2
<1>4. /\ FreeAll(freed) /\ queue' = kept \o Rest(n) /\ done' = done - k /\ sent' = sent + n
  BY <1>1
<1> HIDE DEF n
<1>5. /\ 1 \in 1 .. Len(queue) + 1 /\ k \in 1 - 1 .. Len(queue) /\ Len(queue) \in k .. Len(queue)
      /\ k + 1 \in 1 .. Len(queue) + 1 /\ Len(queue) \in (k + 1) - 1 .. Len(queue)
  BY <1>2
<1>6. ASSUME NEW m \in Mbufs PROVE Count(queue, m) = Count(freed, m) + Count(kept, m)
  <2>1. SubSeq(queue, 1, Len(queue)) = queue
    BY <1>2, SubSeqFull
  <2> QED
    BY <1>2, <1>5, <2>1, CountSplit
<1>7. /\ kept \in Seq(Mbufs) /\ Len(kept) = Len(queue) - k
      /\ \A p \in 1 .. Len(queue) - k : kept[p] = queue[k + p]
  <2>1. /\ kept \in Seq(Mbufs) /\ Len(kept) = Len(queue) - (k + 1) + 1
        /\ \A p \in 1 .. Len(queue) - (k + 1) + 1 : kept[p] = queue[k + 1 + p - 1]
    BY <1>2, <1>5, PartProperties
  <2> HIDE DEF kept
  <2> QED
    BY <1>2, <2>1
<1>8. /\ Rest(n) \in Seq(Mbufs) /\ Len(Rest(n)) = n
      /\ \A p \in 1 .. n : Rest(n)[p] = table[sent + p]
  <2> DEFINE a == sent + 1  b == sent + n
  <2>1. /\ a \in 1 .. Len(table) + 1 /\ b \in a - 1 .. Len(table) /\ b - a + 1 = n
        /\ \A p \in 1 .. n : a + p - 1 = sent + p
    BY <1>2, <1>3
  <2>2. Rest(n) = SubSeq(table, a, b)
    BY DEF Rest
  <2> HIDE DEF a, b
  <2>3. /\ SubSeq(table, a, b) \in Seq(Mbufs) /\ Len(SubSeq(table, a, b)) = b - a + 1
        /\ \A p \in 1 .. b - a + 1 : SubSeq(table, a, b)[p] = table[a + p - 1]
    BY <1>2, <2>1, PartProperties
  <2> QED
    BY <2>1, <2>2, <2>3
<1>9. freed \in Seq(Mbufs)
  BY <1>2, <1>5, PartProperties
<1> HIDE DEF freed, kept, room
<1> DEFINE rest == Rest(n)
<1>10. rest \in Seq(Mbufs) /\ rest = Rest(n)
  BY <1>8
<1> HIDE DEF rest
<1>11. /\ k <= done /\ n <= BurstSize - sent /\ n <= TxDesc - (Len(queue) - k)
       /\ FreeAll(freed) /\ queue' = kept \o rest
       /\ done' = done - k /\ sent' = sent + n
       /\ \A m \in Mbufs : Count(queue, m) = Count(freed, m) + Count(kept, m)
       /\ Len(kept) = Len(queue) - k
       /\ \A p \in 1 .. Len(queue) - k : kept[p] = queue[k + p]
       /\ rest = Rest(n) /\ Len(rest) = n
       /\ \A p \in 1 .. n : rest[p] = table[sent + p]
  BY <1>2, <1>3, <1>4, <1>6, <1>7, <1>8, <1>10 DEF room
<1>12. k \in Nat /\ n \in Nat
  BY <1>2, <1>3
<1>13. freed \in Seq(Mbufs) /\ kept \in Seq(Mbufs) /\ rest \in Seq(Mbufs)
  BY <1>7, <1>9, <1>10
<1> USE <1>12, <1>13
<1> WITNESS k \in Nat, n \in Nat
<1> WITNESS freed \in Seq(Mbufs), kept \in Seq(Mbufs), rest \in Seq(Mbufs)
<1> QED
  BY <1>11

LEMMA SendTurnStep == IInv /\ SendTurn => IInv'
<1> SUFFICES ASSUME IInv, SendTurn PROVE IInv'
  OBVIOUS
<1>0. PICK k \in Nat, n \in Nat, freed \in Seq(Mbufs), kept \in Seq(Mbufs), rest \in Seq(Mbufs) :
        /\ k <= done /\ n <= BurstSize - sent /\ n <= TxDesc - (Len(queue) - k)
        /\ FreeAll(freed) /\ queue' = kept \o rest
        /\ done' = done - k /\ sent' = sent + n
        /\ \A m \in Mbufs : Count(queue, m) = Count(freed, m) + Count(kept, m)
        /\ Len(kept) = Len(queue) - k
        /\ \A p \in 1 .. Len(queue) - k : kept[p] = queue[k + p]
        /\ rest = Rest(n) /\ Len(rest) = n
        /\ \A p \in 1 .. n : rest[p] = table[sent + p]
  BY SendTurnFacts
<1> DEFINE len == Len(queue)  l == Len(kept)
<1>1. /\ pc = "send" /\ pc' = "send" /\ UNCHANGED <<now, cycles, next, table, total>>
  BY DEF SendTurn
<1>2. /\ len \in Nat /\ len <= TxDesc /\ TxDesc \in Nat /\ BurstSize \in Nat
      /\ sent \in 0 .. BurstSize /\ done \in 0 .. len /\ queue \in Seq(Mbufs)
      /\ Len(table) = BurstSize /\ table \in Seq(Mbufs)
  <2>1. queue \in Seq(Mbufs) /\ Len(queue) <= TxDesc /\ done \in 0 .. Len(queue)
        /\ sent \in 0 .. BurstSize /\ TxDesc \in Nat /\ BurstSize \in Nat /\ table \in Seq(Mbufs)
    BY TransmitAssumption DEF IInv, TypeOK
  <2>2. Len(queue) \in Nat
    BY <2>1, LenProperties
  <2> QED
    BY <1>1, <2>1, <2>2 DEF IInv, TableInv
<1>3. l \in Nat /\ l = len - k /\ Len(rest) = n /\ queue' = kept \o rest
  BY <1>0, <1>2
<1>4. done' = done - k /\ sent' = sent + n /\ k <= done /\ n <= BurstSize - sent /\ l + n <= TxDesc
  BY <1>0, <1>2, <1>3
<1>5. /\ queue' \in Seq(Mbufs) /\ Len(queue') = l + n
      /\ \A p \in 1 .. l : queue'[p] = queue[k + p]
      /\ \A p \in 1 .. n : queue'[l + p] = table[sent + p]
  <2>1. /\ kept \o rest \in Seq(Mbufs) /\ Len(kept \o rest) = Len(kept) + Len(rest)
        /\ \A p \in 1 .. Len(kept) + Len(rest) :
             (kept \o rest)[p] = IF p <= Len(kept) THEN kept[p] ELSE rest[p - Len(kept)]
    BY ConcatProperties
  <2>2. /\ queue' \in Seq(Mbufs) /\ Len(queue') = l + n
        /\ \A p \in 1 .. l + n : queue'[p] = IF p <= l THEN kept[p] ELSE rest[p - l]
    BY <1>3, <2>1
  <2>3. \A p \in 1 .. l : kept[p] = queue[k + p]
    BY <1>0, <1>3
  <2>4. \A p \in 1 .. n : rest[p] = table[sent + p]
    BY <1>0
  <2> HIDE DEF l
  <2>5. \A p \in 1 .. l : p \in 1 .. l + n /\ p <= l
    BY <1>3
  <2>6. \A p \in 1 .. n : l + p \in 1 .. l + n /\ ~(l + p <= l) /\ (l + p) - l = p
    BY <1>3
  <2>7. \A p \in 1 .. n : queue'[l + p] = rest[p]
    BY <2>2, <2>6
  <2> QED
    BY <2>2, <2>3, <2>4, <2>5, <2>7
<1> HIDE DEF l, len
<1>6. ASSUME NEW m \in Mbufs
      PROVE  /\ refcnt'[m] \in 0 .. RefWrap - 1
             /\ Signed(m)' - Due(m)' >= -(TxDesc + 1)
             /\ pool'[m] = IF Signed(m)' = 1 THEN 0 ELSE 1
             /\ Signed(m)' = 1 => Count(table, m) = 1
  <2> DEFINE c == Count(freed, m)  d == Count(kept, m)  e == Count(rest, m)
             t == Count(table, m)  u == Count(Unsent', m)
  <2>1. c \in Nat /\ d \in Nat /\ e \in Nat /\ t \in Nat
    BY <1>2, CountBound
  <2>2. Count(queue, m) = c + d /\ Count(queue', m) = d + e
    BY <1>0, CountConcat
  <2>3. Count(Unsent, m) = e + u /\ u \in Nat
    <3> DEFINE a == sent + 1  b == sent + n
    <3>1. /\ Unsent = SubSeq(table, a, BurstSize)
          /\ Unsent' = SubSeq(table, b + 1, BurstSize)
          /\ rest = SubSeq(table, a, b)
      <4>1. /\ sent + (BurstSize - sent) = BurstSize /\ sent' + (BurstSize - sent') = BurstSize
            /\ sent' = b
        BY <1>2, <1>4
      <4>2. Unsent = SubSeq(table, sent + 1, BurstSize)
        BY <4>1 DEF Unsent, Rest
      <4>3. Unsent' = SubSeq(table, sent' + 1, BurstSize)
        BY <1>1, <4>1 DEF Unsent, Rest
      <4>4. rest = SubSeq(table, sent + 1, sent + n)
        BY <1>0 DEF Rest
      <4> QED
        BY <4>1, <4>2, <4>3, <4>4
    <3>2. /\ a \in 1 .. Len(table) + 1 /\ b \in a - 1 .. Len(table) /\ BurstSize \in b .. Len(table)
          /\ b + 1 \in 1 .. Len(table) + 1 /\ BurstSize \in (b + 1) - 1 .. Len(table)
      BY <1>2, <1>4
    <3> HIDE DEF a, b
    <3>3. Unsent' \in Seq(Mbufs)
      BY <1>2, <3>1, <3>2, PartProperties
    <3>4. Count(SubSeq(table, a, BurstSize), m)
            = Count(SubSeq(table, a, b), m) + Count(SubSeq(table, b + 1, BurstSize), m)
      BY <1>2, <3>2, CountSplit
    <3> QED
      BY <3>1, <3>3, <3>4, CountBound
  <2>4. Due(m) = (c + d) + ((e + u) + t) /\ Due(m)' = (d + e) + (u + t)
    BY <1>1, <2>2, <2>3 DEF Due
  <2>5. FreeAll(freed)
    BY <1>0
  <2>6. Due(m) \in Nat /\ c <= Due(m) /\ Due(m)' = Due(m) - c
    <3> HIDE DEF c, d, e, t, u
    <3> QED
      BY <2>1, <2>3, <2>4
  <2>7. /\ refcnt'[m] \in 0 .. RefWrap - 1
        /\ Signed(m)' = Signed(m) - c
        /\ pool'[m] = IF Signed(m) = 1 /\ c > 0 THEN pool[m] + 1 ELSE pool[m]
    BY <2>1, <2>5, <2>6, FreeFacts DEF IInv
  <2>8. /\ Signed(m) \in Int /\ Signed(m) <= 1 /\ Signed(m) - Due(m) >= -(TxDesc + 1)
        /\ pool[m] = IF Signed(m) = 1 THEN 0 ELSE 1
        /\ Signed(m) = 1 => t = 1
    BY <1>1, SignedType DEF IInv, RefInv, PoolInv
  <2> HIDE DEF c, d, e, t, u
  <2>9. Signed(m)' - Due(m)' >= -(TxDesc + 1)
    BY <1>2, <2>1, <2>6, <2>7, <2>8
  <2>10. /\ pool'[m] = IF Signed(m)' = 1 THEN 0 ELSE 1
         /\ Signed(m)' = 1 => t = 1
    BY <2>1, <2>7, <2>8
  <2> QED
    BY <2>7, <2>9, <2>10 DEF t
<1>7. TypeOK'
  <2>1. \A m \in Mbufs : pool'[m] \in Nat
    BY <1>6
  <2>2. pool' \in [Mbufs -> Nat] /\ refcnt' \in [Mbufs -> 0 .. RefWrap - 1]
    BY <1>0, <1>6, <2>1 DEF FreeAll
  <2>3. Len(queue') = l + n
    BY <1>5
  <2>4. done' \in 0 .. l + n
    <3>1. done \in Nat /\ done <= len /\ len \in Nat /\ k <= done /\ l = len - k
      BY <1>2, <1>3, <1>4
    <3>2. done' = done - k
      BY <1>4
    <3> QED
      BY <3>1, <3>2
  <2>5. sent' \in 0 .. BurstSize
    <3>1. sent \in Nat /\ BurstSize \in Nat /\ n <= BurstSize - sent /\ sent' = sent + n
      BY <1>2, <1>4
    <3> QED
      BY <3>1
  <2>6. Len(queue') <= TxDesc
    BY <1>4, <2>3
  <2> QED
    BY <1>1, <1>5, <2>2, <2>3, <2>4, <2>5, <2>6 DEF IInv, TypeOK
<1>8. TableInv' /\ RateInv'
  BY <1>1 DEF IInv, TableInv, RateInv
<1>9. RefInv' /\ PoolInv'
  BY <1>1, <1>6 DEF RefInv, PoolInv
<1>10. HandedOver'
  <2> SUFFICES ASSUME NEW q \in 0 .. sent' - 1, q < Len(queue')
               PROVE  queue'[Len(queue') - q] = table[sent' - q]
    BY <1>1 DEF HandedOver
  <2>1. q \in Nat /\ Len(queue') = l + n /\ sent' = sent + n /\ sent \in Nat /\ l \in Nat
    BY <1>2, <1>3, <1>4, <1>5
  <2>2. CASE q < n
    <3> DEFINE h == n - q
    <3>1. h \in 1 .. n /\ Len(queue') - q = l + h /\ sent' - q = sent + h
      BY <2>1, <2>2
    <3> HIDE DEF h
    <3> QED
      BY <1>5, <3>1
  <2>3. CASE q >= n
    <3> DEFINE h == q - n
    <3>1. /\ h \in 0 .. sent - 1 /\ h < len /\ l - h \in 1 .. l /\ k + (l - h) = len - h
          /\ Len(queue') - q = l - h /\ sent' - q = sent - h
      BY <1>2, <1>3, <2>1, <2>3
    <3> HIDE DEF h
    <3>2. queue[len - h] = table[sent - h]
      BY <1>1, <3>1 DEF IInv, HandedOver, len
    <3>3. queue'[l - h] = queue[k + (l - h)]
      BY <1>5, <3>1
    <3> QED
      BY <3>1, <3>2, <3>3
  <2> QED
    BY <2>1, <2>2, <2>3
<1> QED
  BY <1>1, <1>7, <1>8, <1>9, <1>10 DEF IInv

LEMMA EndBurstStep == IInv /\ EndBurst => IInv'
<1> SUFFICES ASSUME IInv, EndBurst PROVE IInv'
  OBVIOUS
<1>1. /\ pc = "send" /\ pc' = "idle" /\ sent = BurstSize /\ FreeAll(table) /\ total' = 0
      /\ next' = cycles + CyclesOf(total) /\ total = BurstSize * WireSize
      /\ UNCHANGED <<queue, done, now, cycles, table, sent>>
  BY DEF EndBurst, nicVars, IInv, RateInv
<1>2. ASSUME NEW m \in Mbufs
      PROVE  /\ refcnt'[m] \in 0 .. RefWrap - 1
             /\ Signed(m)' - Due(m)' >= -(TxDesc + 1)
             /\ pool'[m] = 1 /\ Signed(m)' # 1
  <2> DEFINE c == Count(table, m)  d == Count(queue, m)
  <2>1. c \in Nat /\ d \in Nat /\ c <= 1 /\ TxDesc \in Nat
    BY <1>1, CountTypes, TransmitAssumption DEF IInv, TableInv
  <2>2. Count(Unsent, m) = 0
    <3>1. /\ Unsent = SubSeq(table, BurstSize + 1, BurstSize) /\ BurstSize \in Nat
      BY <1>1, UnsentPart DEF IInv
    <3>2. SubSeq(table, BurstSize + 1, BurstSize) = << >>
      BY <3>1, SubSeqEmpty
    <3> QED
      BY <3>1, <3>2, CountEmpty
  <2>3. Due(m) = d + c /\ Due(m)' = d
    BY <1>1, <2>1, <2>2 DEF Due
  <2>4. Due(m) \in Nat /\ c <= Due(m)
    <3> HIDE DEF c, d
    <3> QED
      BY <2>1, <2>3
  <2>5. /\ refcnt'[m] \in 0 .. RefWrap - 1
        /\ Signed(m)' = Signed(m) - c
        /\ pool'[m] = IF Signed(m) = 1 /\ c > 0 THEN pool[m] + 1 ELSE pool[m]
    BY <1>1, <2>1, <2>4, FreeFacts DEF IInv
  <2>6. /\ Signed(m) \in Int /\ Signed(m) <= 1 /\ Signed(m) - Due(m) >= -(TxDesc + 1)
        /\ pool[m] = IF Signed(m) = 1 THEN 0 ELSE 1
        /\ Signed(m) = 1 => c = 1
    BY <1>1, SignedType DEF IInv, RefInv, PoolInv
  <2> HIDE DEF c, d
  <2> QED
    BY <2>1, <2>3, <2>5, <2>6
<1>3. CyclesOf(total) \in Nat
  BY <1>1, BurstType, CyclesRounded
<1>4. TypeOK'
  <2>1. pool' \in [Mbufs -> Nat] /\ refcnt' \in [Mbufs -> 0 .. RefWrap - 1]
    BY <1>1, <1>2 DEF FreeAll
  <2>2. next' \in Nat
    BY <1>1, <1>3, TransmitAssumption DEF IInv, TypeOK
  <2> QED
    BY <1>1, <2>1, <2>2 DEF IInv, TypeOK
<1>5. RefInv' /\ PoolInv'
  BY <1>1, <1>2 DEF RefInv, PoolInv
<1>6. RateInv'
  BY <1>1 DEF RateInv, CyclesOf
<1> QED
  BY <1>1, <1>4, <1>5, <1>6 DEF IInv, TableInv, HandedOver

-----------------------------------------------------------------------------
(* The theorems *)

LEMMA IInvStep == IInv /\ [Next]_vars => IInv'
BY QuietStep, BeginBurstStep, GetBulkStep, ResetMbufsStep, SendTurnStep, EndBurstStep
   DEF Next, Lcore

\* The invariant holds in every reachable state.
THEOREM Invariance == Spec => []IInv
BY InitIInv, IInvStep, PTL DEF Spec

\* The variables of a TX queue and its lcore keep their types.
THEOREM TypeCorrect == Spec => []TypeOK
<1>1. IInv => TypeOK
  BY DEF IInv
<1> QED
  BY Invariance, <1>1, PTL

\* Freed by the lcore and by the driver, an mbuf enters the pool once: no allocation
\* fails, whatever the NIC leaves in its queue and for however many bursts.
THEOREM NoDoubleEntry == Spec => []PoolConserved
<1>1. IInv => PoolConserved
  <2> SUFFICES ASSUME IInv
               PROVE  /\ \A m \in Mbufs : pool[m] \in 0 .. 1
                      /\ pc \in {"idle", "get"} => \A m \in Mbufs : pool[m] = 1
    BY DEF IInv, PoolConserved
  <2>1. ASSUME NEW m \in Mbufs PROVE pool[m] \in 0 .. 1
    <3>1. CASE pc = "reset"
      <4>1. Count(table, m) \in Nat /\ Count(table, m) <= 1 /\ pool[m] = 1 - Count(table, m)
        BY <3>1, CountTypes DEF IInv, TableInv, PoolInv
      <4> QED
        BY <4>1
    <3>2. CASE pc # "reset"
      BY <3>2 DEF IInv, PoolInv
    <3> QED
      BY <3>1, <3>2
  <2>2. ASSUME pc \in {"idle", "get"}, NEW m \in Mbufs PROVE pool[m] = 1
    BY <2>2 DEF IInv, PoolInv
  <2> QED
    BY <2>1, <2>2
<1> QED
  BY Invariance, <1>1, PTL

\* The NIC gets the packets of a table once and in order.
THEOREM SentInOrder == Spec => []HandedOver
<1>1. IInv => HandedOver
  BY DEF IInv
<1> QED
  BY Invariance, <1>1, PTL

\* No burst begins before the bytes of the one before have had their time at the
\* rate, and none is held back beyond that.
THEOREM RateHolds == Spec => RateKept
<1> DEFINE bytes == BurstSize * WireSize
           cost == bytes * CpuHz * 8
<1>1. /\ bytes \in Nat /\ Bps \in Nat \ {0} /\ CyclesOf(bytes) \in Nat /\ cost \in Nat
      /\ CyclesOf(bytes) * Bps <= cost /\ cost < (CyclesOf(bytes) + 1) * Bps
  BY BurstType, BpsType, CyclesRounded
<1>2. IInv /\ BeginBurst /\ next > 0 => (cycles' - cycles) * Bps >= cost
  <2> SUFFICES ASSUME IInv, BeginBurst, next > 0 PROVE (cycles' - cycles) * Bps >= cost
    OBVIOUS
  <2> DEFINE d == cycles' - cycles
  <2>1. /\ cycles \in Nat /\ next = cycles + CyclesOf(bytes) /\ next < now /\ now \in Nat
        /\ cycles' = now /\ next \in Nat
    BY TransmitAssumption DEF IInv, TypeOK, RateInv, BeginBurst, TooEarly
  <2> HIDE DEF bytes
  <2>2. d \in Nat /\ d >= CyclesOf(bytes) + 1
    BY <1>1, <2>1
  <2> HIDE DEF d, cost
  <2>3. d * Bps >= (CyclesOf(bytes) + 1) * Bps
    BY <1>1, <2>2
  <2>4. d * Bps \in Nat /\ (CyclesOf(bytes) + 1) * Bps \in Nat
    BY <1>1, <2>2
  <2>5. d * Bps >= cost
    BY <1>1, <2>3, <2>4
  <2> QED
    BY <2>5 DEF d
<1>3. IInv /\ Next /\ next' # next => (next' - cycles) * Bps <= cost
  <2> SUFFICES ASSUME IInv, EndBurst PROVE (next' - cycles) * Bps <= cost
    BY DEF Next, Tick, NicSends, Lcore, BeginBurst, GetBulk, ResetMbufs, SendTurn, ctlVars
  <2>1. next' = cycles + CyclesOf(bytes) /\ cycles \in Nat
    BY TransmitAssumption DEF IInv, TypeOK, RateInv, EndBurst
  <2> HIDE DEF bytes, cost
  <2>2. next' - cycles = CyclesOf(bytes)
    BY <1>1, <2>1
  <2> QED
    BY <1>1, <2>2
<1>4. [][IInv /\ [Next]_vars]_vars => RateKept
  <2>1. [IInv /\ [Next]_vars]_vars
          => [LET Cost == BurstSize * WireSize * CpuHz * 8
              IN  /\ BeginBurst /\ next > 0 => (cycles' - cycles) * Bps >= Cost
                  /\ next' # next => (next' - cycles) * Bps <= Cost]_vars
    BY <1>2, <1>3
  <2> QED
    BY <2>1, PTL DEF RateKept
<1> QED
  BY Invariance, <1>4, PTL DEF Spec
=============================================================================
