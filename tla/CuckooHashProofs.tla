--------------------------- MODULE CuckooHashProofs ---------------------------
(****************************************************************************)
(* CuckooHash keeps its entries in place and its indices together, and      *)
(* implements KeyMap, for any keys, hash functions and sizes.               *)
(****************************************************************************)
EXTENDS TLAPS, SequenceTheorems, WellFoundedInduction, CuckooHash

-----------------------------------------------------------------------------
(* The inductive invariant *)

\* The entries that count: not the one that was moved and is still in its hole.
Settled == IF pc = "unwind" THEN Used \ {hole} ELSE Used

Stored   == {Entry(p).idx : p \in Settled}
KeyOf(p) == keyStore[Entry(p).idx].key
NewKey   == keyStore[new].key

\* No key is in two entries, and the key of an add is in none until it ends.
KeysOnce ==
  /\ \A p, q \in Settled : KeyOf(p) = KeyOf(q) => p = q
  /\ pc # "idle" => new # 0 /\ \A p \in Settled : KeyOf(p) # NewKey

\* The recursion never visits an entry twice, and the flags are those of its frames.
FlagInv ==
  /\ flags = Range(stack) /\ IsInjective(stack)
  /\ pc = "idle" => stack = <<>>

\* The bucket that the latest frame is about.
Reached == IF pc = "unwind" THEN hole[1] ELSE bucket

\* Each frame is about the bucket to which the one before it is to move its entry.
ChainInv ==
  pc \in {"search", "unwind"} =>
    /\ \A n \in 1 .. Len(stack) : stack[n] \in Used
    /\ \A n \in 1 .. Len(stack) - 1 : Other(Entry(stack[n])) = stack[n + 1][1]
    /\ IF stack = <<>> THEN Reached = Primary(NewKey)
       ELSE stack[1][1] = Primary(NewKey) /\ Other(Entry(Top)) = Reached

\* The buckets on the way are full, and lead to full ones only.
SearchInv ==
  pc = "search" =>
    /\ Free(bucket) = {}
    /\ \A n \in 1 .. Len(stack) : Movable(stack[n][1]) = {}

\* What was in the hole is elsewhere, and no frame has yet to move it.
UnwindInv ==
  pc = "unwind" => hole \in Used /\ Entry(hole).idx \in Stored /\ hole \notin Range(stack)

IInv ==
  /\ TypeOK /\ EntriesInPlace /\ IndicesConserved
  /\ KeysOnce /\ FlagInv /\ ChainInv /\ SearchInv /\ UnwindInv

-----------------------------------------------------------------------------
(* Sets of naturals, and sequences without repetition *)

LEMMA MinIn == ASSUME NEW S \in SUBSET Nat, S # {} PROVE Min(S) \in S
<1>1. PICK x \in S : \A y \in S : <<y, x>> \notin OpToRel(<, Nat)
  <2> DEFINE R == OpToRel(<, Nat)
  <2>1. IsWellFoundedOn(R, Nat)
    BY NatLessThanWellFounded
  <2> HIDE DEF R
  <2>2. \E x \in S : \A y \in S : <<y, x>> \notin R
    BY <2>1, WFMin
  <2> QED
    BY <2>2 DEF R
<1>2. \A y \in S : x <= y
  <2> SUFFICES ASSUME NEW y \in S, ~(x <= y) PROVE FALSE
    OBVIOUS
  <2>1. y \in Nat /\ x \in Nat /\ y < x
    OBVIOUS
  <2>2. <<y, x>> \in Nat \X Nat /\ <<y, x>>[1] < <<y, x>>[2]
    BY <2>1
  <2>3. <<y, x>> \in {ss \in Nat \X Nat : ss[1] < ss[2]}
    BY <2>2
  <2>4. OpToRel(<, Nat) = {ss \in Nat \X Nat : ss[1] < ss[2]}
    BY DEF OpToRel
  <2> QED
    BY <1>1, <2>3, <2>4
<1> QED
  BY <1>2 DEF Min

LEMMA TailRange ==
  ASSUME NEW S, NEW s \in Seq(S), s # <<>>, IsInjective(s)
  PROVE  /\ Head(s) \in Range(s) /\ Tail(s) \in Seq(S)
         /\ Range(Tail(s)) = Range(s) \ {Head(s)} /\ IsInjective(Tail(s))
<1> DEFINE t == Tail(s)
<1>1. /\ t \in Seq(S) /\ Len(t) = Len(s) - 1
      /\ \A n \in 1 .. Len(t) : t[n] = s[n + 1]
  BY HeadTailProperties
<1>2. /\ Head(s) = s[1] /\ Len(s) \in Nat \ {0}
      /\ DOMAIN s = 1 .. Len(s) /\ DOMAIN t = 1 .. Len(t)
  BY <1>1, EmptySeq, LenProperties
<1> HIDE DEF t
<1>3. Head(s) \in Range(s)
  BY <1>2 DEF Range
<1>4. IsInjective(t)
  BY <1>1, <1>2 DEF IsInjective
<1>5. Range(t) \subseteq Range(s) \ {Head(s)}
  BY <1>1, <1>2 DEF Range, IsInjective
<1>6. ASSUME NEW x \in Range(s) \ {Head(s)} PROVE x \in Range(t)
  <2>1. PICK n \in 1 .. Len(s) : x = s[n]
    BY <1>2 DEF Range
  <2>2. n - 1 \in 1 .. Len(t) /\ t[n - 1] = x
    BY <1>1, <1>2, <2>1
  <2> QED
    BY <1>2, <2>2 DEF Range
<1> QED
  BY <1>1, <1>3, <1>4, <1>5, <1>6 DEF t

LEMMA AppendRange ==
  ASSUME NEW S, NEW s \in Seq(S), NEW e \in S
  PROVE  /\ Append(s, e) \in Seq(S) /\ Range(Append(s, e)) = Range(s) \cup {e}
         /\ IsInjective(s) /\ e \notin Range(s) => IsInjective(Append(s, e))
<1> DEFINE t == Append(s, e)
<1>1. /\ t \in Seq(S) /\ Len(t) = Len(s) + 1
      /\ \A n \in 1 .. Len(s) : t[n] = s[n]
      /\ t[Len(s) + 1] = e
  BY AppendProperties
<1>2. DOMAIN s = 1 .. Len(s) /\ DOMAIN t = 1 .. Len(t) /\ Len(s) \in Nat
  BY <1>1, LenProperties
<1> HIDE DEF t
<1>3. Range(t) \subseteq Range(s) \cup {e}
  BY <1>1, <1>2 DEF Range
<1>4. e \in Range(t) /\ Range(s) \subseteq Range(t)
  BY <1>1, <1>2 DEF Range
<1>5. IsInjective(s) /\ e \notin Range(s) => IsInjective(t)
  BY <1>1, <1>2 DEF Range, IsInjective
<1> QED
  BY <1>1, <1>3, <1>4, <1>5 DEF t

LEMMA FrontRange ==
  ASSUME NEW S, NEW s \in Seq(S), s # <<>>, IsInjective(s),
         NEW f, f = SubSeq(s, 1, Len(s) - 1)
  PROVE  /\ f \in Seq(S) /\ Len(f) = Len(s) - 1 /\ Len(s) \in Nat \ {0}
         /\ \A n \in 1 .. Len(s) - 1 : f[n] = s[n]
         /\ s[Len(s)] \in Range(s) /\ s[Len(s)] \in S
         /\ Range(f) = Range(s) \ {s[Len(s)]} /\ IsInjective(f)
<1>1. Len(s) \in Nat \ {0} /\ DOMAIN s = 1 .. Len(s)
  BY EmptySeq, LenProperties
<1>2. \A n \in 1 .. Len(s) : s[n] \in S
  BY ElementOfSeq
<1>3. /\ f \in Seq(S)
      /\ Len(f) = IF 1 <= Len(s) - 1 THEN Len(s) - 1 - 1 + 1 ELSE 0
      /\ \A n \in 1 .. Len(s) - 1 - 1 + 1 : f[n] = s[1 + n - 1]
  BY <1>1, <1>2, SubSeqProperties
<1>4. Len(f) = Len(s) - 1 /\ \A n \in 1 .. Len(s) - 1 : f[n] = s[n]
  BY <1>1, <1>3
<1>5. DOMAIN f = 1 .. Len(f)
  BY <1>3, LenProperties
<1>6. IsInjective(f)
  BY <1>1, <1>4, <1>5 DEF IsInjective
<1>7. s[Len(s)] \in Range(s)
  BY <1>1 DEF Range
<1>8. Range(f) \subseteq Range(s) \ {s[Len(s)]}
  BY <1>1, <1>4, <1>5 DEF Range, IsInjective
<1>9. ASSUME NEW x \in Range(s) \ {s[Len(s)]} PROVE x \in Range(f)
  <2>1. PICK n \in 1 .. Len(s) : x = s[n]
    BY <1>1 DEF Range
  <2>2. n \in 1 .. Len(s) - 1
    BY <1>1, <2>1
  <2> QED
    BY <1>4, <1>5, <2>1, <2>2 DEF Range
<1> QED
  BY <1>1, <1>2, <1>3, <1>4, <1>6, <1>7, <1>8, <1>9

-----------------------------------------------------------------------------
(* The table *)

EntryType == [cur : Sigs, alt : Sigs, idx : 0 .. NbEntries]

LEMMA BucketType == \A g \in Sigs : BucketOf(g) \in Buckets
<1>1. ASSUME NEW g \in Nat, NEW m \in Nat \ {0} PROVE g % m \in 0 .. m - 1
  OBVIOUS
<1> QED
  BY <1>1, SizesAssumption, HashAssumption DEF BucketOf, Buckets

\* Both signatures of a key are there, and they are not both zero.
LEMMA KeySigs ==
  ASSUME NEW k \in Keys
  PROVE  /\ Hash[k] \in Sigs /\ AltHash(k) \in Sigs /\ ~(Hash[k] = 0 /\ AltHash(k) = 0)
         /\ Primary(k) \in Buckets /\ Secondary(k) \in Buckets
<1>1. Hash[k] \in Sigs /\ AltHash(k) \in Sigs /\ ~(Hash[k] = 0 /\ AltHash(k) = 0)
  BY HashAssumption DEF AltHash
<1> QED
  BY <1>1, BucketType DEF Primary, Secondary

LEMMA EntryTyped ==
  ASSUME TypeOK, NEW p \in Places
  PROVE  /\ Entry(p) \in EntryType /\ Other(Entry(p)) \in Buckets
         /\ p[1] \in Buckets /\ p[2] \in Slots /\ p = <<p[1], p[2]>>
<1>1. p[1] \in Buckets /\ p[2] \in Slots /\ p = <<p[1], p[2]>>
  BY DEF Places
<1>2. Entry(p) \in EntryType
  BY <1>1 DEF TypeOK, EntryType, Entry
<1> QED
  BY <1>1, <1>2, BucketType DEF Other, EntryType

\* What Set does to the entries.
LEMMA SetFacts ==
  ASSUME TypeOK, NEW q \in Places, NEW e \in EntryType, Set(q[1], q[2], e)
  PROVE  /\ table' \in [Buckets -> [Slots -> EntryType]]
         /\ Entry(q)' = e /\ \A p \in Places \ {q} : Entry(p)' = Entry(p)
<1>1. /\ table \in [Buckets -> [Slots -> EntryType]]
      /\ table' = [table EXCEPT ![q[1]][q[2]] = e]
      /\ q[1] \in Buckets /\ q[2] \in Slots
  BY EntryTyped DEF TypeOK, EntryType, Set
<1>2. table' \in [Buckets -> [Slots -> EntryType]]
  BY <1>1
<1>3. table'[q[1]][q[2]] = e
  BY <1>1
<1>4. ASSUME NEW p \in Places, p # q PROVE table'[p[1]][p[2]] = table[p[1]][p[2]]
  <2>1. p[1] \in Buckets /\ p[2] \in Slots /\ (p[1] # q[1] \/ p[2] # q[2])
    BY <1>4, EntryTyped DEF Places
  <2> QED
    BY <1>1, <2>1
<1> QED
  BY <1>2, <1>3, <1>4 DEF Entry

\* IndicesConserved in the terms of this module.
LEMMA IndicesAre ==
  IndicesConserved <=>
    /\ IsInjective(free)
    /\ \A p, q \in Settled : Entry(p).idx = Entry(q).idx => p = q
    /\ Range(free) \cup Stored \cup ({new} \ {0}) = Indices
    /\ Range(free) \cap Stored = {} /\ ({new} \ {0}) \cap (Range(free) \cup Stored) = {}
    /\ pc = "idle" => flags = {} /\ new = 0
<1> QED
  BY DEF IndicesConserved, Settled, Stored

LEMMA SettledFacts ==
  /\ Settled \subseteq Used /\ Used \subseteq Places
  /\ \A p \in Settled : Entry(p).idx \in Stored
  /\ \A p \in Places : p \in Used <=> ~IsNull(Entry(p))
  /\ pc # "unwind" => Settled = Used
<1> QED
  BY DEF Settled, Stored, Used

\* An entry moves from p to q, and p is the hole then.
LEMMA MoveFacts ==
  ASSUME IInv, pc \in {"search", "unwind"}, NEW p \in Settled, NEW q \in Places \ Settled,
         q[1] = Other(Entry(p)), pc = "unwind" => q = hole,
         Set(q[1], q[2], Moved(Entry(p))), hole' = p, pc' = "unwind",
         UNCHANGED <<keyStore, free, new>>
  PROVE  /\ table' \in [Buckets -> [Slots -> EntryType]]
         /\ \A r \in Places \ {q} : Entry(r)' = Entry(r)
         /\ Used' = Used \cup {q} /\ Settled' = (Settled \ {p}) \cup {q}
         /\ p \in Used' /\ Entry(p)'.idx \in Stored'
         /\ Entry(q)' = Moved(Entry(p))
         /\ EntriesInPlace' /\ IndicesConserved' /\ KeysOnce'
<1> DEFINE e == Entry(p)
<1>1. TypeOK /\ p \in Places /\ p \in Used /\ p # q /\ q \in Places
  BY SettledFacts DEF IInv
<1>2. e \in EntryType /\ ~IsNull(e)
  BY <1>1, EntryTyped, SettledFacts
<1>3. /\ Moved(e) \in EntryType /\ ~IsNull(Moved(e)) /\ Moved(e).idx = e.idx
      /\ Moved(e).cur = e.alt /\ Moved(e).alt = e.cur
  BY <1>2 DEF Moved, EntryType, IsNull
<1>4. /\ table' \in [Buckets -> [Slots -> EntryType]]
      /\ Entry(q)' = Moved(e) /\ \A r \in Places \ {q} : Entry(r)' = Entry(r)
  BY <1>1, <1>3, SetFacts
<1>5. Used' = Used \cup {q}
  BY <1>1, <1>3, <1>4 DEF Used
<1>6. Settled' = Used' \ {p}
  BY DEF Settled
<1>7. Settled' = (Settled \ {p}) \cup {q}
  BY <1>1, <1>5, <1>6 DEF Settled
<1>8. /\ \A r \in Settled \ {p} : r # q /\ r \in Places /\ Entry(r)' = Entry(r)
      /\ Entry(q)'.idx = e.idx
  BY <1>3, <1>4, SettledFacts
<1> HIDE DEF e
<1>9. Stored' = Stored
  <2>1. Stored' = {Entry(r)'.idx : r \in Settled'}
    BY DEF Stored
  <2> QED
    BY <1>7, <1>8, <2>1 DEF Stored, e
<1>10. EntriesInPlace'
  <2> SUFFICES ASSUME NEW r \in Used'
               PROVE  /\ Entry(r)'.idx \in Indices
                      /\ r[1] = BucketOf(Entry(r)'.cur)
                      /\ LET k == keyStore[Entry(r)'.idx].key
                         IN  \/ Entry(r)'.cur = Hash[k] /\ Entry(r)'.alt = AltHash(k)
                             \/ Entry(r)'.cur = AltHash(k) /\ Entry(r)'.alt = Hash[k]
    BY DEF EntriesInPlace
  <2>1. \A o \in Used :
          /\ Entry(o).idx \in Indices /\ o[1] = BucketOf(Entry(o).cur)
          /\ LET k == keyStore[Entry(o).idx].key
             IN  \/ Entry(o).cur = Hash[k] /\ Entry(o).alt = AltHash(k)
                 \/ Entry(o).cur = AltHash(k) /\ Entry(o).alt = Hash[k]
    BY DEF IInv, EntriesInPlace
  <2>2. CASE r = q
    BY <1>1, <1>3, <1>4, <2>1, <2>2 DEF Other, e
  <2>3. CASE r # q
    <3>1. r \in Used /\ Entry(r)' = Entry(r)
      BY <1>4, <1>5, <2>3, SettledFacts
    <3> QED
      BY <2>1, <3>1
  <2> QED
    BY <2>2, <2>3
<1>11. IndicesConserved'
  <2>1. \A r, o \in Settled : Entry(r).idx = Entry(o).idx => r = o
    BY IndicesAre DEF IInv
  <2>2. \A r, o \in Settled' : Entry(r)'.idx = Entry(o)'.idx => r = o
    BY <1>7, <1>8, <2>1 DEF e
  <2>3. /\ IsInjective(free')
        /\ Range(free') \cup Stored' \cup ({new'} \ {0}) = Indices
        /\ Range(free') \cap Stored' = {} /\ ({new'} \ {0}) \cap (Range(free') \cup Stored') = {}
    BY <1>9, IndicesAre DEF IInv
  <2> QED
    BY <2>2, <2>3 DEF IndicesConserved, Settled, Stored
<1>12. KeysOnce'
  <2>1. \A r \in Settled \ {p} : KeyOf(r)' = KeyOf(r)
    BY <1>8 DEF KeyOf
  <2>2. KeyOf(q)' = KeyOf(p)
    BY <1>8 DEF KeyOf, e
  <2>3. /\ \A r, o \in Settled : KeyOf(r) = KeyOf(o) => r = o
        /\ new # 0 /\ \A r \in Settled : KeyOf(r) # NewKey
    BY DEF IInv, KeysOnce
  <2>4. NewKey' = NewKey /\ new' = new
    BY DEF NewKey
  <2> QED
    BY <1>7, <2>1, <2>2, <2>3, <2>4 DEF KeysOnce
<1>13. p \in Used' /\ Entry(p)'.idx \in Stored'
  BY <1>1, <1>4, <1>5, <1>9, SettledFacts
<1> QED
  BY <1>4, <1>5, <1>7, <1>10, <1>11, <1>12, <1>13 DEF e

\* The entry of key k and index n is put into q.
LEMMA EnterFacts ==
  ASSUME IInv, pc \in {"idle", "unwind"}, pc' = "idle", new' = 0, flags' = {},
         NEW q \in Places \ Settled, pc = "unwind" => q = hole,
         NEW n \in Indices \ Stored, NEW k \in Keys, q[1] = Primary(k),
         \A p \in Settled : KeyOf(p) # k,
         Set(q[1], q[2], NewEntry(k, n)), keyStore'[n].key = k,
         \A m \in Indices \ {n} : keyStore'[m] = keyStore[m],
         IsInjective(free'), n \notin Range(free'),
         Range(free') \cup {n} = Range(free) \cup ({new} \ {0})
  PROVE  /\ table' \in [Buckets -> [Slots -> EntryType]]
         /\ \A p \in Settled : Entry(p)' = Entry(p) /\ Entry(p).idx \in Indices \ {n}
         /\ Settled' = Settled \cup {q} /\ Entry(q)' = NewEntry(k, n)
         /\ EntriesInPlace' /\ IndicesConserved' /\ KeysOnce'
<1> DEFINE e == NewEntry(k, n)
<1>1. TypeOK /\ q \in Places /\ n \in Indices
  BY DEF IInv
<1>2. /\ e \in EntryType /\ ~IsNull(e) /\ e.idx = n
      /\ e.cur = Hash[k] /\ e.alt = AltHash(k)
  BY <1>1, KeySigs DEF NewEntry, EntryType, IsNull, Indices
<1>3. /\ table' \in [Buckets -> [Slots -> EntryType]]
      /\ Entry(q)' = e /\ \A p \in Places \ {q} : Entry(p)' = Entry(p)
  BY <1>1, <1>2, SetFacts
<1> HIDE DEF e
<1>4. Used' = Used \cup {q}
  BY <1>1, <1>2, <1>3 DEF Used
<1>5. Settled' = Used'
  BY DEF Settled
<1>6. Settled' = Settled \cup {q}
  BY <1>4, <1>5 DEF Settled
<1>7. \A p \in Settled :
        /\ p \in Used /\ Entry(p)' = Entry(p) /\ Entry(p).idx \in Indices \ {n}
        /\ keyStore'[Entry(p).idx] = keyStore[Entry(p).idx]
  <2>1. \A p \in Settled : p \in Used /\ p \in Places /\ p # q /\ Entry(p).idx \in Stored
    BY SettledFacts
  <2>2. \A p \in Settled : Entry(p).idx \in Indices
    BY <2>1 DEF IInv, EntriesInPlace
  <2> QED
    BY <1>3, <2>1, <2>2
<1>8. EntriesInPlace'
  <2> SUFFICES ASSUME NEW r \in Settled'
               PROVE  /\ Entry(r)'.idx \in Indices
                      /\ r[1] = BucketOf(Entry(r)'.cur)
                      /\ LET h == keyStore'[Entry(r)'.idx].key
                         IN  \/ Entry(r)'.cur = Hash[h] /\ Entry(r)'.alt = AltHash(h)
                             \/ Entry(r)'.cur = AltHash(h) /\ Entry(r)'.alt = Hash[h]
    BY <1>5 DEF EntriesInPlace
  <2>1. \A o \in Used :
          /\ Entry(o).idx \in Indices /\ o[1] = BucketOf(Entry(o).cur)
          /\ LET h == keyStore[Entry(o).idx].key
             IN  \/ Entry(o).cur = Hash[h] /\ Entry(o).alt = AltHash(h)
                 \/ Entry(o).cur = AltHash(h) /\ Entry(o).alt = Hash[h]
    BY DEF IInv, EntriesInPlace
  <2>2. CASE r = q
    BY <1>1, <1>2, <1>3, <2>2 DEF Primary
  <2>3. CASE r # q
    BY <1>6, <1>7, <2>1, <2>3
  <2> QED
    BY <2>2, <2>3
<1>9. Stored' = Stored \cup {n}
  <2>1. Stored' = {Entry(p)'.idx : p \in Settled'}
    BY DEF Stored
  <2> QED
    BY <1>2, <1>3, <1>6, <1>7, <2>1 DEF Stored
<1>10. IndicesConserved'
  <2>1. /\ \A r, o \in Settled : Entry(r).idx = Entry(o).idx => r = o
        /\ Range(free) \cup Stored \cup ({new} \ {0}) = Indices
        /\ Range(free) \cap Stored = {} /\ ({new} \ {0}) \cap (Range(free) \cup Stored) = {}
    BY IndicesAre DEF IInv
  <2>2. \A r, o \in Settled' : Entry(r)'.idx = Entry(o)'.idx => r = o
    BY <1>2, <1>3, <1>6, <1>7, <2>1
  <2>3. {new'} \ {0} = {}
    OBVIOUS
  <2>4. /\ Range(free') \cup Stored' \cup ({new'} \ {0}) = Indices
        /\ Range(free') \cap Stored' = {} /\ ({new'} \ {0}) \cap (Range(free') \cup Stored') = {}
    BY <1>9, <2>1, <2>3
  <2> QED
    BY <2>2, <2>4 DEF IndicesConserved, Settled, Stored
<1>11. KeysOnce'
  <2>1. KeyOf(q)' = k /\ \A p \in Settled : KeyOf(p)' = KeyOf(p)
    BY <1>2, <1>3, <1>7 DEF KeyOf
  <2>2. \A r, o \in Settled : KeyOf(r) = KeyOf(o) => r = o
    BY DEF IInv, KeysOnce
  <2> QED
    BY <1>6, <2>1, <2>2 DEF KeysOnce
<1> QED
  BY <1>3, <1>6, <1>7, <1>8, <1>10, <1>11 DEF e

\* The entry in q is removed, and its index put back.
LEMMA LeaveFacts ==
  ASSUME IInv, pc = "idle", pc' = "idle", NEW q \in Used, Remove(q[1], q[2]),
         UNCHANGED <<flags, new>>
  PROVE  /\ table' \in [Buckets -> [Slots -> EntryType]] /\ free' \in Seq(Indices)
         /\ keyStore' \in [Indices -> [key : Keys, data : Data]]
         /\ \A p \in Settled' : /\ Entry(p)' = Entry(p) /\ Entry(p).idx \in Indices
                                /\ keyStore'[Entry(p).idx] = keyStore[Entry(p).idx]
         /\ Settled' = Settled \ {q}
         /\ EntriesInPlace' /\ IndicesConserved' /\ KeysOnce'
<1> DEFINE n == Entry(q).idx
<1>1. TypeOK /\ q \in Places /\ q \in Settled /\ Settled = Used
  BY SettledFacts DEF IInv
<1>2. n \in Indices /\ n \in Stored
  BY <1>1, SettledFacts DEF IInv, EntriesInPlace
<1>3. Empty \in EntryType /\ IsNull(Empty) /\ Set(q[1], q[2], Empty)
  BY HashAssumption, SizesAssumption DEF Empty, EntryType, IsNull, Remove
<1>4. free' = Append(free, n) /\ keyStore' = [keyStore EXCEPT ![n] = Zeroed]
  BY DEF Remove, Entry
<1> HIDE DEF n
<1>5. /\ table' \in [Buckets -> [Slots -> EntryType]]
      /\ Entry(q)' = Empty /\ \A p \in Places \ {q} : Entry(p)' = Entry(p)
  BY <1>1, <1>3, SetFacts
<1>6. Settled' = Used' /\ Used' = Used \ {q}
  BY <1>1, <1>3, <1>5 DEF Used, Settled
<1>7. /\ \A p, r \in Settled : Entry(p).idx = Entry(r).idx => p = r
      /\ Range(free) \cup Stored \cup ({new} \ {0}) = Indices
      /\ Range(free) \cap Stored = {} /\ ({new} \ {0}) \cap (Range(free) \cup Stored) = {}
      /\ IsInjective(free) /\ flags = {} /\ new = 0
  BY IndicesAre DEF IInv
<1>8. \A p \in Settled' :
        /\ p \in Settled /\ Entry(p)' = Entry(p) /\ Entry(p).idx \in Indices /\ Entry(p).idx # n
        /\ Entry(p).idx \in Stored
  BY <1>1, <1>5, <1>6, <1>7, SettledFacts DEF IInv, EntriesInPlace, n
<1>9. /\ keyStore' \in [Indices -> [key : Keys, data : Data]]
      /\ \A m \in Indices \ {n} : keyStore'[m] = keyStore[m]
  <2>1. Zeroed \in [key : Keys, data : Data]
    BY PairsAssumption DEF Zeroed
  <2> QED
    BY <1>1, <1>2, <1>4, <2>1 DEF TypeOK
<1>10. \A p \in Settled' : keyStore'[Entry(p).idx] = keyStore[Entry(p).idx]
  BY <1>8, <1>9
<1>11. /\ free' \in Seq(Indices) /\ Range(free') = Range(free) \cup {n} /\ IsInjective(free')
  <2>1. free \in Seq(Indices) /\ n \notin Range(free)
    BY <1>1, <1>2, <1>7 DEF TypeOK
  <2> QED
    BY <1>2, <1>4, <1>7, <2>1, AppendRange
<1>12. EntriesInPlace'
  <2> SUFFICES ASSUME NEW r \in Settled'
               PROVE  /\ Entry(r)'.idx \in Indices
                      /\ r[1] = BucketOf(Entry(r)'.cur)
                      /\ LET h == keyStore'[Entry(r)'.idx].key
                         IN  \/ Entry(r)'.cur = Hash[h] /\ Entry(r)'.alt = AltHash(h)
                             \/ Entry(r)'.cur = AltHash(h) /\ Entry(r)'.alt = Hash[h]
    BY <1>6 DEF EntriesInPlace
  <2> QED
    BY <1>1, <1>8, <1>10 DEF IInv, EntriesInPlace
<1>13. Stored' = Stored \ {n}
  <2>1. Stored' = {Entry(p)'.idx : p \in Settled'}
    BY DEF Stored
  <2> QED
    BY <1>1, <1>6, <1>8, <2>1 DEF Stored, n
<1>14. IndicesConserved'
  <2>1. \A r, o \in Settled' : Entry(r)'.idx = Entry(o)'.idx => r = o
    BY <1>7, <1>8
  <2>2. {new'} \ {0} = {} /\ {new} \ {0} = {} /\ flags' = {} /\ new' = 0
    BY <1>7
  <2>3. /\ Range(free') \cup Stored' \cup ({new'} \ {0}) = Indices
        /\ Range(free') \cap Stored' = {} /\ ({new'} \ {0}) \cap (Range(free') \cup Stored') = {}
    BY <1>2, <1>7, <1>11, <1>13, <2>2
  <2> QED
    BY <1>11, <2>1, <2>2, <2>3 DEF IndicesConserved, Settled, Stored
<1>15. KeysOnce'
  <2>1. \A p \in Settled' : p \in Settled /\ KeyOf(p)' = KeyOf(p)
    BY <1>8, <1>10 DEF KeyOf
  <2> QED
    BY <2>1 DEF IInv, KeysOnce
<1> QED
  BY <1>1, <1>5, <1>6, <1>8, <1>9, <1>10, <1>11, <1>12, <1>14, <1>15

-----------------------------------------------------------------------------
(* Lookup *)

Holders(k) == {p \in Settled : KeyOf(p) = k}

LEMMA SlotMin == ASSUME NEW S \in SUBSET Slots, S # {} PROVE Min(S) \in S
<1> QED
  BY MinIn DEF Slots

\* The entries in which a lookup finds k are those with its key.
LEMMA FoundIn ==
  ASSUME IInv, NEW k \in Keys
  PROVE  /\ \A i \in InPrimary(k) : <<Primary(k), i>> \in Used /\ KeyOf(<<Primary(k), i>>) = k
         /\ \A i \in InSecondary(k) : <<Secondary(k), i>> \in Used /\ KeyOf(<<Secondary(k), i>>) = k
         /\ \A i \in Same(k) : i \in InPrimary(k)
         /\ \A i \in InSecondary(k) : i \in ToDelete(k)
         /\ \A i \in ToDelete(k) : <<Secondary(k), i>> \in Used /\ KeyOf(<<Secondary(k), i>>) = k
         /\ \A p \in Used : KeyOf(p) = k =>
              \/ p[1] = Primary(k) /\ p[2] \in Same(k)
              \/ p[1] = Secondary(k) /\ p[2] \in InSecondary(k)
<1>1. TypeOK
  BY DEF IInv
<1>2. \A b \in Buckets, i \in Slots :
        /\ <<b, i>> \in Places /\ Entry(<<b, i>>) = table[b][i]
        /\ KeyOf(<<b, i>>) = keyStore[table[b][i].idx].key
        /\ <<b, i>> \in Used <=> ~IsNull(table[b][i])
  BY DEF Places, Entry, KeyOf, Used
<1>3. /\ Primary(k) \in Buckets /\ Secondary(k) \in Buckets
      /\ Primary(k) = BucketOf(Hash[k]) /\ Secondary(k) = BucketOf(AltHash(k))
      /\ ~(Hash[k] = 0 /\ AltHash(k) = 0)
  BY KeySigs DEF Primary, Secondary
<1>4. \A i \in InPrimary(k) : <<Primary(k), i>> \in Used /\ KeyOf(<<Primary(k), i>>) = k
  BY <1>2, <1>3 DEF InPrimary, HasKey
<1>5. \A i \in ToDelete(k) : <<Secondary(k), i>> \in Used /\ KeyOf(<<Secondary(k), i>>) = k
  BY <1>2, <1>3 DEF ToDelete, HasKey
<1>6. \A i \in InSecondary(k) : i \in ToDelete(k)
  BY <1>3 DEF ToDelete, InSecondary, IsNull
<1>7. \A i \in Same(k) : i \in InPrimary(k)
  BY <1>3 DEF Same, InPrimary, IsNull
<1>8. ASSUME NEW p \in Used, KeyOf(p) = k
      PROVE  \/ p[1] = Primary(k) /\ p[2] \in Same(k)
             \/ p[1] = Secondary(k) /\ p[2] \in InSecondary(k)
  <2>1. p \in Places /\ p[1] \in Buckets /\ p[2] \in Slots /\ Entry(p) = table[p[1]][p[2]]
    BY <1>1, EntryTyped, SettledFacts DEF Entry
  <2>2. /\ Entry(p).idx \in Indices /\ p[1] = BucketOf(Entry(p).cur)
        /\ \/ Entry(p).cur = Hash[k] /\ Entry(p).alt = AltHash(k)
           \/ Entry(p).cur = AltHash(k) /\ Entry(p).alt = Hash[k]
    BY <1>8 DEF IInv, EntriesInPlace, KeyOf
  <2>3. keyStore[Entry(p).idx].key = k
    BY <1>8 DEF KeyOf
  <2> QED
    BY <1>3, <2>1, <2>2, <2>3 DEF Same, InSecondary, HasKey
<1> QED
  BY <1>4, <1>5, <1>6, <1>7, <1>8

\* What the hole still shows is in a settled entry.
LEMMA UsedSettled ==
  ASSUME IInv, NEW p \in Used
  PROVE  \E q \in Settled : Entry(q).idx = Entry(p).idx
<1>1. CASE p \in Settled
  BY <1>1
<1>2. CASE p \notin Settled
  BY <1>2 DEF IInv, UnwindInv, Settled, Stored
<1> QED
  BY <1>1, <1>2

\* A lookup leads to the index of the entry that has the key, if there is one.
LEMMA LookupFinds ==
  ASSUME IInv, NEW k \in Keys
  PROVE  /\ Lookup(k) = {Entry(p).idx : p \in Holders(k)}
         /\ \A p, q \in Holders(k) : p = q
<1> DEFINE L == {Entry(p).idx : p \in Holders(k)}
<1>1. \A p, q \in Holders(k) : p = q
  BY DEF Holders, IInv, KeysOnce
<1>2. ASSUME NEW p \in Used, KeyOf(p) = k PROVE Entry(p).idx \in L
  BY <1>2, UsedSettled DEF Holders, KeyOf
<1>3. CASE InPrimary(k) # {}
  <2> DEFINE i == Min(InPrimary(k))
  <2>1. i \in InPrimary(k)
    BY <1>3, SlotMin DEF InPrimary
  <2>2. Lookup(k) = {Entry(<<Primary(k), i>>).idx}
    BY <1>3 DEF Lookup, Entry
  <2>3. Entry(<<Primary(k), i>>).idx \in L
    BY <1>2, <2>1, FoundIn
  <2> HIDE DEF i
  <2> QED
    BY <1>1, <2>2, <2>3
<1>4. CASE InPrimary(k) = {} /\ InSecondary(k) # {}
  <2> DEFINE i == Min(InSecondary(k))
  <2>1. i \in InSecondary(k)
    BY <1>4, SlotMin DEF InSecondary
  <2>2. Lookup(k) = {Entry(<<Secondary(k), i>>).idx}
    BY <1>4, <2>1 DEF Lookup, Entry
  <2>3. Entry(<<Secondary(k), i>>).idx \in L
    BY <1>2, <2>1, FoundIn
  <2> HIDE DEF i
  <2> QED
    BY <1>1, <2>2, <2>3
<1>5. CASE InPrimary(k) = {} /\ InSecondary(k) = {}
  <2>1. Lookup(k) = {}
    BY <1>5 DEF Lookup
  <2>2. \A p \in Used : KeyOf(p) # k
    BY <1>5, FoundIn
  <2>3. Holders(k) = {}
    BY <2>2, SettledFacts DEF Holders
  <2> QED
    BY <2>1, <2>3
<1> QED
  BY <1>1, <1>3, <1>4, <1>5

-----------------------------------------------------------------------------
(* The steps.  Each lemma also says what its step does to the map. *)

MapOf(k) == {keyStore[Entry(p).idx].data : p \in Holders(k)}

LEMMA InitIInv == Init => IInv
<1> SUFFICES ASSUME Init PROVE IInv
  OBVIOUS
<1>1. TypeOK
  <2>1. Empty \in EntryType
    BY HashAssumption, SizesAssumption DEF Empty, EntryType
  <2>2. Zeroed \in [key : Keys, data : Data]
    BY PairsAssumption DEF Zeroed
  <2>3. [n \in Indices |-> n] \in Seq(Indices)
    <3>1. Indices = 1 .. NbEntries /\ NbEntries \in Nat
      BY SizesAssumption DEF Indices
    <3> QED
      BY <3>1
  <2>4. 0 \in Buckets /\ 1 \in Slots /\ <<0, 1>> \in Places
    BY SizesAssumption DEF Buckets, Slots, Places
  <2>5. <<>> \in Seq(Places)
    OBVIOUS
  <2> QED
    BY <2>1, <2>2, <2>3, <2>4, <2>5, MaxCallsAssumption, SizesAssumption
    DEF Init, TypeOK, EntryType
<1>2. Used = {} /\ Settled = {} /\ Stored = {}
  <2>1. \A p \in Places : Entry(p) = Empty
    BY <1>1, EntryTyped DEF Init, Entry
  <2>2. Used = {}
    BY <2>1 DEF Used, IsNull, Empty
  <2> QED
    BY <2>2 DEF Settled, Stored
<1>3. IndicesConserved
  <2>1. Range(free) = Indices /\ IsInjective(free) /\ flags = {} /\ new = 0
    BY DEF Init, Range, IsInjective
  <2>2. {new} \ {0} = {}
    BY <2>1
  <2> QED
    BY <1>2, <2>1, <2>2, IndicesAre
<1>4. FlagInv
  <2>1. Range(<<>>) = {} /\ IsInjective(<<>>)
    BY DEF Range, IsInjective
  <2> QED
    BY <2>1 DEF FlagInv, Init
<1> QED
  BY <1>1, <1>2, <1>3, <1>4
  DEF IInv, Init, EntriesInPlace, KeysOnce, ChainInv, SearchInv, UnwindInv

LEMMA QuietStep ==
  ASSUME IInv, ret' \in {"ok", "ENOSPC", "ENOENT"}, calls' \in 0 .. MaxCalls,
         UNCHANGED <<table, flags, keyStore, free, frame>>
  PROVE  IInv' /\ \A k \in Keys : MapOf(k)' = MapOf(k)
<1>1. UNCHANGED <<table, flags, keyStore, free, pc, new, bucket, stack, hole>>
  BY DEF frame
<1>2. \A p : Entry(p)' = Entry(p)
  BY <1>1 DEF Entry
<1>3. Used' = Used
  BY <1>2 DEF Used
<1>4. Settled' = Settled
  BY <1>1, <1>3 DEF Settled
<1>5. \A p : KeyOf(p)' = KeyOf(p)
  BY <1>1, <1>2 DEF KeyOf
<1>6. Stored' = Stored
  BY <1>2, <1>4 DEF Stored
<1>7. TypeOK' /\ EntriesInPlace' /\ IndicesConserved' /\ KeysOnce'
  <2>1. TypeOK'
    BY <1>1 DEF IInv, TypeOK
  <2>2. EntriesInPlace'
    BY <1>1, <1>2, <1>3 DEF IInv, EntriesInPlace
  <2>3. IndicesConserved'
    <3>1. \A p, q \in Settled' : Entry(p)'.idx = Entry(q)'.idx => p = q
      BY <1>2, <1>4, IndicesAre DEF IInv
    <3> QED
      BY <1>1, <1>6, <3>1, IndicesAre DEF IInv, IndicesConserved, Settled, Stored
  <2>4. KeysOnce'
    BY <1>1, <1>4, <1>5 DEF IInv, KeysOnce, NewKey
  <2> QED
    BY <2>1, <2>2, <2>3, <2>4
<1>8. FlagInv' /\ ChainInv' /\ SearchInv' /\ UnwindInv'
  <2>1. FlagInv'
    BY <1>1 DEF IInv, FlagInv
  <2>2. ChainInv'
    BY <1>1, <1>3 DEF IInv, ChainInv, Reached, NewKey, Top, Entry
  <2>3. SearchInv'
    BY <1>1 DEF IInv, SearchInv, Movable, Free
  <2>4. UnwindInv'
    BY <1>1, <1>3, <1>6 DEF IInv, UnwindInv, Entry
  <2> QED
    BY <2>1, <2>2, <2>3, <2>4
<1>9. ASSUME NEW k \in Keys PROVE MapOf(k)' = MapOf(k)
  <2>1. Holders(k)' = Holders(k)
    BY <1>4, <1>5 DEF Holders
  <2> QED
    BY <1>1, <1>2, <2>1 DEF MapOf
<1> QED
  BY <1>7, <1>8, <1>9 DEF IInv

\* The entries stay where they are, and so does what they lead to, except data perhaps.
LEMMA DataKept ==
  ASSUME IInv, pc # "unwind", pc' # "unwind", table' = table,
         \A n \in Stored : keyStore'[n].key = keyStore[n].key
  PROVE  /\ \A p : Entry(p)' = Entry(p)
         /\ Settled = Used /\ Used' = Used /\ Settled' = Settled /\ Stored' = Stored
         /\ \A p \in Settled : KeyOf(p)' = KeyOf(p)
         /\ EntriesInPlace'
         /\ (\A n \in Stored : keyStore'[n] = keyStore[n]) =>
              \A k \in Keys : MapOf(k)' = MapOf(k)
<1>1. \A p : Entry(p)' = Entry(p)
  BY DEF Entry
<1>2. Used' = Used
  BY <1>1 DEF Used
<1>3. Settled' = Settled /\ Settled = Used
  BY <1>2 DEF Settled
<1>4. Stored' = Stored
  BY <1>1, <1>3 DEF Stored
<1>5. \A p \in Settled : KeyOf(p)' = KeyOf(p)
  BY <1>1, SettledFacts DEF KeyOf
<1>6. EntriesInPlace'
  <2> SUFFICES ASSUME NEW r \in Used'
               PROVE  /\ Entry(r)'.idx \in Indices
                      /\ r[1] = BucketOf(Entry(r)'.cur)
                      /\ LET h == keyStore'[Entry(r)'.idx].key
                         IN  \/ Entry(r)'.cur = Hash[h] /\ Entry(r)'.alt = AltHash(h)
                             \/ Entry(r)'.cur = AltHash(h) /\ Entry(r)'.alt = Hash[h]
    BY DEF EntriesInPlace
  <2>1. r \in Used /\ Entry(r)' = Entry(r) /\ Entry(r).idx \in Stored
    BY <1>1, <1>2, <1>3, SettledFacts
  <2> QED
    BY <2>1 DEF IInv, EntriesInPlace
<1>7. ASSUME \A n \in Stored : keyStore'[n] = keyStore[n], NEW k \in Keys
      PROVE  MapOf(k)' = MapOf(k)
  <2>1. Holders(k)' = Holders(k)
    BY <1>3, <1>5 DEF Holders
  <2>2. MapOf(k)' = {keyStore'[Entry(p)'.idx].data : p \in Holders(k)'}
    BY DEF MapOf
  <2>3. \A p \in Holders(k) : keyStore'[Entry(p)'.idx] = keyStore[Entry(p).idx]
    BY <1>1, <1>7, SettledFacts DEF Holders
  <2> QED
    BY <2>1, <2>2, <2>3 DEF MapOf
<1> QED
  BY <1>1, <1>2, <1>3, <1>4, <1>5, <1>6, <1>7

\* The indices stay where they are.
LEMMA IndicesKept ==
  ASSUME IInv, Settled' = Settled, Stored' = Stored, \A p : Entry(p)' = Entry(p),
         IsInjective(free'), (Range(free) \cup {new}) \ {0} = (Range(free') \cup {new'}) \ {0},
         Range(free') \subseteq Indices, new' \notin Range(free'),
         pc' = "idle" => flags' = {} /\ new' = 0
  PROVE  IndicesConserved'
<1>1. 0 \notin Indices
  BY DEF Indices
<1>2. /\ \A p, q \in Settled : Entry(p).idx = Entry(q).idx => p = q
      /\ Range(free) \cup Stored \cup ({new} \ {0}) = Indices
      /\ Range(free) \cap Stored = {} /\ ({new} \ {0}) \cap (Range(free) \cup Stored) = {}
  BY IndicesAre DEF IInv
<1>3. \A p, q \in Settled' : Entry(p)'.idx = Entry(q)'.idx => p = q
  BY <1>2
<1>4. /\ Range(free') \cup Stored' \cup ({new'} \ {0}) = Indices
      /\ Range(free') \cap Stored' = {}
      /\ ({new'} \ {0}) \cap (Range(free') \cup Stored') = {}
  BY <1>1, <1>2
<1> QED
  BY <1>3, <1>4 DEF IndicesConserved, Settled, Stored

\* An idle table whose stack and flags are empty meets the rest of the invariant.
LEMMA IdleRest ==
  ASSUME IInv, pc' = "idle", stack' = <<>>, flags' = {}
  PROVE  FlagInv' /\ ChainInv' /\ SearchInv' /\ UnwindInv'
<1>1. Range(<<>>) = {} /\ IsInjective(<<>>)
  BY DEF Range, IsInjective
<1> QED
  BY <1>1 DEF FlagInv, ChainInv, SearchInv, UnwindInv

LEMMA IdleFacts ==
  ASSUME IInv, pc = "idle"
  PROVE  /\ stack = <<>> /\ flags = {} /\ new = 0 /\ Settled = Used
         /\ free \in Seq(Indices) /\ IsInjective(free) /\ Range(free) \subseteq Indices
         /\ Range(free) \cap Stored = {}
<1> QED
  BY IndicesAre, SettledFacts DEF IInv, FlagInv, TypeOK

LEMMA AddExistingStep ==
  ASSUME IInv, NEW k \in Keys, NEW d \in Data, AddExisting(k, d)
  PROVE  /\ IInv' /\ MapOf(k)' = {d}
         /\ \A j \in Keys \ {k} : MapOf(j)' = MapOf(j)
<1> DEFINE n == IF Same(k) # {} THEN table[Primary(k)][Min(Same(k))].idx
                ELSE table[Secondary(k)][Min(InSecondary(k))].idx
<1>1. /\ pc = "idle" /\ free # <<>> /\ Same(k) \cup InSecondary(k) # {}
      /\ free' = Append(Tail(free), Head(free)) /\ keyStore' = [keyStore EXCEPT ![n].data = d]
      /\ calls < MaxCalls /\ calls' = calls + 1 /\ ret' = "ok"
      /\ UNCHANGED <<table, flags, pc, new, bucket, stack, hole>>
  BY DEF AddExisting, Call, frame
<1>2. PICK p \in Settled : n = Entry(p).idx /\ KeyOf(p) = k
  <2>1. CASE Same(k) # {}
    <3>1. Min(Same(k)) \in Same(k)
      BY <2>1, SlotMin DEF Same
    <3> QED
      BY <1>1, <2>1, <3>1, FoundIn, IdleFacts DEF Entry
  <2>2. CASE Same(k) = {}
    <3>1. Min(InSecondary(k)) \in InSecondary(k)
      BY <1>1, <2>2, SlotMin DEF InSecondary
    <3> QED
      BY <1>1, <2>2, <3>1, FoundIn, IdleFacts DEF Entry
  <2> QED
    BY <2>1, <2>2
<1> HIDE DEF n
<1>3. TypeOK /\ n \in Indices /\ n \in Stored /\ Stored \subseteq Indices
  BY <1>2, SettledFacts DEF IInv, EntriesInPlace, Stored
<1>4. /\ keyStore' \in [Indices -> [key : Keys, data : Data]]
      /\ keyStore'[n].data = d /\ \A m \in Indices : keyStore'[m].key = keyStore[m].key
      /\ \A m \in Indices \ {n} : keyStore'[m] = keyStore[m]
  BY <1>1, <1>3 DEF TypeOK
<1>5. /\ \A q : Entry(q)' = Entry(q)
      /\ Settled = Used /\ Used' = Used /\ Settled' = Settled /\ Stored' = Stored
      /\ \A q \in Settled : KeyOf(q)' = KeyOf(q)
      /\ EntriesInPlace'
  <2>1. \A m \in Stored : keyStore'[m].key = keyStore[m].key
    BY <1>3, <1>4
  <2> QED
    BY <1>1, <2>1, DataKept
<1>6. free' \in Seq(Indices) /\ Range(free') = Range(free) /\ IsInjective(free')
  <2> DEFINE h == Head(free)  t == Tail(free)
  <2>1. /\ h \in Range(free) /\ t \in Seq(Indices)
        /\ Range(t) = Range(free) \ {h} /\ IsInjective(t)
    BY <1>1, IdleFacts, TailRange
  <2>2. h \in Indices /\ h \notin Range(t)
    BY <1>1, <2>1, IdleFacts
  <2> HIDE DEF h, t
  <2>3. Append(t, h) \in Seq(Indices) /\ Range(Append(t, h)) = Range(t) \cup {h}
        /\ IsInjective(Append(t, h))
    BY <2>1, <2>2, AppendRange
  <2> QED
    BY <1>1, <2>1, <2>3 DEF h, t
<1>7. TypeOK'
  BY <1>1, <1>3, <1>4, <1>6, MaxCallsAssumption DEF TypeOK
<1>8. IndicesConserved'
  <2>1. /\ flags' = {} /\ new' = 0 /\ new = 0 /\ Range(free') \subseteq Indices
        /\ 0 \notin Indices
    BY <1>1, <1>6, IdleFacts DEF Indices
  <2> QED
    BY <1>5, <1>6, <2>1, IndicesKept
<1>9. KeysOnce'
  BY <1>1, <1>5 DEF IInv, KeysOnce
<1>10. IInv'
  BY <1>1, <1>5, <1>7, <1>8, <1>9, IdleFacts, IdleRest DEF IInv
<1>11. \A j \in Keys : Holders(j)' = Holders(j)
  BY <1>5 DEF Holders
<1>12. \A j \in Keys : MapOf(j)' = {keyStore'[Entry(q).idx].data : q \in Holders(j)}
  BY <1>5, <1>11 DEF MapOf
<1>13. MapOf(k)' = {d}
  <2>1. Holders(k) = {p}
    BY <1>2, LookupFinds DEF Holders
  <2> QED
    BY <1>2, <1>4, <1>12, <2>1
<1>14. ASSUME NEW j \in Keys \ {k} PROVE MapOf(j)' = MapOf(j)
  <2>1. \A q \in Holders(j) : Entry(q).idx \in Stored /\ Entry(q).idx # n
    BY <1>2, SettledFacts DEF Holders, KeyOf
  <2>2. \A q \in Holders(j) : keyStore'[Entry(q).idx] = keyStore[Entry(q).idx]
    BY <1>3, <1>4, <2>1
  <2> QED
    BY <1>12, <2>2 DEF MapOf
<1> QED
  BY <1>10, <1>13, <1>14

\* What a new entry in q does to the map.
LEMMA EnterMap ==
  ASSUME NEW q \in Places \ Settled, NEW n \in Indices, NEW k \in Keys, NEW d,
         Settled' = Settled \cup {q}, Entry(q)' = NewEntry(k, n),
         \A p \in Settled : Entry(p)' = Entry(p) /\ Entry(p).idx \in Indices \ {n} /\ KeyOf(p) # k,
         keyStore'[n] = [key |-> k, data |-> d],
         \A m \in Indices \ {n} : keyStore'[m] = keyStore[m]
  PROVE  MapOf(k)' = {d} /\ \A j \in Keys \ {k} : MapOf(j)' = MapOf(j)
<1>1. Entry(q)'.idx = n
  BY DEF NewEntry
<1>2. \A p \in Settled : keyStore'[Entry(p)'.idx] = keyStore[Entry(p).idx]
  OBVIOUS
<1>3. KeyOf(q)' = k /\ \A p \in Settled : KeyOf(p)' = KeyOf(p)
  BY <1>1, <1>2 DEF KeyOf
<1>4. Holders(k)' = {q} /\ \A j \in Keys \ {k} : Holders(j)' = Holders(j)
  BY <1>3 DEF Holders
<1>5. \A j \in Keys : MapOf(j)' = {keyStore'[Entry(p)'.idx].data : p \in Holders(j)'}
  BY DEF MapOf
<1>6. MapOf(k)' = {d}
  BY <1>1, <1>4, <1>5
<1>7. ASSUME NEW j \in Keys \ {k} PROVE MapOf(j)' = MapOf(j)
  <2>1. \A p \in Holders(j) : keyStore'[Entry(p)'.idx] = keyStore[Entry(p).idx]
    BY <1>2 DEF Holders
  <2> QED
    BY <1>4, <1>5, <2>1 DEF MapOf
<1> QED
  BY <1>6, <1>7

\* The key that is looked for in vain is in no entry.
LEMMA NotThere ==
  ASSUME IInv, NEW k \in Keys, Same(k) \cup InSecondary(k) = {}
  PROVE  \A p \in Settled : KeyOf(p) # k
<1> QED
  BY FoundIn, SettledFacts

\* A new entry goes into the bucket at once ...
LEMMA AddNewRoom ==
  ASSUME IInv, NEW k \in Keys, NEW d \in Data, AddNew(k, d), Free(Primary(k)) # {}
  PROVE  /\ IInv' /\ ret' = "ok" /\ MapOf(k)' = {d}
         /\ \A j \in Keys \ {k} : MapOf(j)' = MapOf(j)
<1>0. PICK n, q : n = Head(free) /\ q = <<Primary(k), Min(Free(Primary(k)))>>
  OBVIOUS
<1>1. /\ pc = "idle" /\ free # <<>> /\ Same(k) \cup InSecondary(k) = {}
      /\ free' = Tail(free) /\ keyStore' = [keyStore EXCEPT ![n] = [key |-> k, data |-> d]]
      /\ calls < MaxCalls /\ calls' = calls + 1 /\ ret' = "ok"
      /\ Set(q[1], q[2], NewEntry(k, n))
      /\ UNCHANGED <<flags, pc, new, bucket, stack, hole>>
  BY <1>0 DEF AddNew, Call, frame
<1>2. TypeOK /\ Primary(k) \in Buckets
  BY KeySigs DEF IInv
<1>3. q \in Places \ Settled /\ q[1] = Primary(k)
  <2>1. Min(Free(Primary(k))) \in Free(Primary(k))
    BY SlotMin DEF Free
  <2>2. q \in Places /\ IsNull(Entry(q))
    BY <1>0, <1>2, <2>1 DEF Free, Places, Entry
  <2> QED
    BY <1>0, <2>2, SettledFacts
<1>4. /\ n \in Range(free) /\ free' \in Seq(Indices)
      /\ Range(free') = Range(free) \ {n} /\ IsInjective(free')
  BY <1>0, <1>1, IdleFacts, TailRange
<1>5. n \in Indices \ Stored
  BY <1>1, <1>4, IdleFacts
<1>6. /\ keyStore' \in [Indices -> [key : Keys, data : Data]]
      /\ keyStore'[n] = [key |-> k, data |-> d]
      /\ \A m \in Indices \ {n} : keyStore'[m] = keyStore[m]
  BY <1>1, <1>2, <1>5 DEF TypeOK
<1>7. \A p \in Settled : KeyOf(p) # k
  BY <1>1, NotThere
<1>8. /\ table' \in [Buckets -> [Slots -> EntryType]]
      /\ \A p \in Settled : Entry(p)' = Entry(p) /\ Entry(p).idx \in Indices \ {n}
      /\ Settled' = Settled \cup {q} /\ Entry(q)' = NewEntry(k, n)
      /\ EntriesInPlace' /\ IndicesConserved' /\ KeysOnce'
  <2>1. Range(free') \cup {n} = Range(free) \cup ({new} \ {0})
    BY <1>1, <1>4, IdleFacts
  <2>2. new' = 0 /\ flags' = {} /\ pc' = "idle" /\ keyStore'[n].key = k
    BY <1>1, <1>6, IdleFacts
  <2> QED
    BY <1>1, <1>3, <1>4, <1>5, <1>6, <1>7, <2>1, <2>2, EnterFacts
<1>9. TypeOK'
  BY <1>1, <1>2, <1>4, <1>6, <1>8, MaxCallsAssumption DEF TypeOK, EntryType
<1>10. IInv'
  BY <1>1, <1>8, <1>9, IdleFacts, IdleRest DEF IInv
<1>11. MapOf(k)' = {d} /\ \A j \in Keys \ {k} : MapOf(j)' = MapOf(j)
  BY <1>3, <1>5, <1>6, <1>7, <1>8, EnterMap
<1> QED
  BY <1>1, <1>10, <1>11

\* ... or the search for room begins.
LEMMA AddNewSearch ==
  ASSUME IInv, NEW k \in Keys, NEW d \in Data, AddNew(k, d), Free(Primary(k)) = {}
  PROVE  IInv' /\ ret' = ret /\ \A j \in Keys : MapOf(j)' = MapOf(j)
<1> DEFINE n == Head(free)
<1>1. /\ pc = "idle" /\ free # <<>> /\ Same(k) \cup InSecondary(k) = {}
      /\ free' = Tail(free) /\ keyStore' = [keyStore EXCEPT ![n] = [key |-> k, data |-> d]]
      /\ calls < MaxCalls /\ calls' = calls + 1
      /\ pc' = "search" /\ new' = n /\ bucket' = Primary(k)
      /\ UNCHANGED <<table, flags, stack, hole, ret>>
  BY DEF AddNew, Call
<1>2. TypeOK /\ Primary(k) \in Buckets
  BY KeySigs DEF IInv
<1>3. /\ n \in Range(free) /\ free' \in Seq(Indices)
      /\ Range(free') = Range(free) \ {n} /\ IsInjective(free')
  BY <1>1, IdleFacts, TailRange
<1> HIDE DEF n
<1>4. n \in Indices \ Stored /\ n # 0 /\ Stored \subseteq Indices
  BY <1>1, <1>3, IdleFacts, SettledFacts DEF Indices, IInv, EntriesInPlace, Stored
<1>5. /\ keyStore' \in [Indices -> [key : Keys, data : Data]]
      /\ keyStore'[n].key = k
      /\ \A m \in Indices \ {n} : keyStore'[m] = keyStore[m]
  BY <1>1, <1>2, <1>4 DEF TypeOK
<1>6. /\ \A q : Entry(q)' = Entry(q)
      /\ Settled = Used /\ Used' = Used /\ Settled' = Settled /\ Stored' = Stored
      /\ \A q \in Settled : KeyOf(q)' = KeyOf(q)
      /\ EntriesInPlace' /\ \A j \in Keys : MapOf(j)' = MapOf(j)
  <2>1. \A m \in Stored : keyStore'[m] = keyStore[m]
    BY <1>4, <1>5
  <2> QED
    BY <1>1, <2>1, DataKept
<1>7. TypeOK'
  BY <1>1, <1>2, <1>3, <1>4, <1>5, MaxCallsAssumption DEF TypeOK, Indices
<1>8. IndicesConserved'
  <2>1. /\ (Range(free) \cup {new}) \ {0} = (Range(free') \cup {new'}) \ {0}
        /\ Range(free') \subseteq Indices /\ new' \notin Range(free')
    BY <1>1, <1>3, <1>4, IdleFacts DEF Indices
  <2> QED
    BY <1>1, <1>3, <1>6, <2>1, IndicesKept
<1>9. KeysOnce'
  <2>1. \A p \in Settled : KeyOf(p) # k
    BY <1>1, NotThere
  <2>2. NewKey' = k
    BY <1>1, <1>5 DEF NewKey
  <2> QED
    BY <1>1, <1>4, <1>6, <2>1, <2>2 DEF IInv, KeysOnce
<1>10. FlagInv' /\ ChainInv' /\ SearchInv' /\ UnwindInv'
  <2>1. stack' = <<>> /\ Len(stack') = 0 /\ pc' = "search"
    BY <1>1, IdleFacts
  <2>2. FlagInv'
    BY <1>1 DEF IInv, FlagInv
  <2>3. Free(bucket)' = {}
    BY <1>1 DEF Free
  <2>4. ChainInv'
    BY <1>1, <1>5, <2>1 DEF ChainInv, Reached, NewKey
  <2> QED
    BY <2>1, <2>2, <2>3, <2>4 DEF SearchInv, UnwindInv
<1> QED
  BY <1>1, <1>6, <1>7, <1>8, <1>9, <1>10 DEF IInv

-----------------------------------------------------------------------------
(* make_space_bucket *)

\* What is under a key does not change when its entry moves.
LEMMA MoveMap ==
  ASSUME NEW p \in Settled, NEW q \in Places \ Settled, UNCHANGED keyStore,
         Settled' = (Settled \ {p}) \cup {q},
         Entry(q)' = Moved(Entry(p)), \A r \in Settled : Entry(r)' = Entry(r)
  PROVE  \A k \in Keys : MapOf(k)' = MapOf(k)
<1>1. Entry(q)'.idx = Entry(p).idx
  <2>1. Moved(Entry(p)).idx = Entry(p).idx
    BY DEF Moved
  <2> QED
    BY <2>1
<1>2. KeyOf(q)' = KeyOf(p) /\ \A r \in Settled : KeyOf(r)' = KeyOf(r)
  BY <1>1 DEF KeyOf
<1> SUFFICES ASSUME NEW k \in Keys PROVE MapOf(k)' = MapOf(k)
  OBVIOUS
<1>3. Holders(k)' = {r \in (Settled \ {p}) \cup {q} : KeyOf(r)' = k}
  BY DEF Holders
<1>4. MapOf(k)' = {keyStore[Entry(r)'.idx].data : r \in Holders(k)'}
  BY DEF MapOf
<1>5. ASSUME NEW r \in Holders(k)'
      PROVE  \E o \in Holders(k) : Entry(o).idx = Entry(r)'.idx
  BY <1>1, <1>2, <1>3 DEF Holders
<1>6. ASSUME NEW r \in Holders(k)
      PROVE  \E o \in Holders(k)' : Entry(o)'.idx = Entry(r).idx
  <2>1. CASE r = p
    BY <1>1, <1>2, <1>3, <2>1 DEF Holders
  <2>2. CASE r # p
    BY <1>2, <1>3, <2>2 DEF Holders
  <2> QED
    BY <2>1, <2>2
<1>7. MapOf(k)' \subseteq MapOf(k)
  BY <1>4, <1>5 DEF MapOf
<1>8. MapOf(k) \subseteq MapOf(k)'
  BY <1>4, <1>6 DEF MapOf
<1> QED
  BY <1>7, <1>8

\* The bucket that is being looked at is full.
LEMMA FullBucket ==
  ASSUME IInv, pc = "search", NEW i \in Slots
  PROVE  /\ <<bucket, i>> \in Used /\ <<bucket, i>> \in Settled
         /\ Entry(<<bucket, i>>) = table[bucket][i]
<1>1. bucket \in Buckets /\ Free(bucket) = {} /\ Settled = Used
  BY SettledFacts DEF IInv, TypeOK, SearchInv
<1>2. <<bucket, i>> \in Places /\ Entry(<<bucket, i>>) = table[bucket][i]
  BY <1>1 DEF Places, Entry
<1> QED
  BY <1>1, <1>2, SettledFacts DEF Free

LEMMA PushStep ==
  ASSUME IInv, Push
  PROVE  IInv' /\ \A k \in Keys : MapOf(k)' = MapOf(k)
<1>1. PICK i, p, q :
        /\ i = Min(Movable(bucket)) /\ p = <<bucket, i>>
        /\ q = <<Other(table[bucket][i]), Min(Free(Other(table[bucket][i])))>>
  OBVIOUS
<1>2. /\ pc = "search" /\ Movable(bucket) # {} /\ pc' = "unwind" /\ hole' = p
      /\ Set(q[1], q[2], Moved(table[bucket][i]))
      /\ UNCHANGED <<flags, keyStore, free, new, bucket, stack, ret, calls>>
  BY <1>1 DEF Push
<1>3. i \in Slots /\ Free(Other(table[bucket][i])) # {}
  <2>1. i \in Movable(bucket)
    BY <1>1, <1>2, SlotMin DEF Movable
  <2> QED
    BY <2>1 DEF Movable
<1>4. TypeOK /\ p \in Used /\ p \in Settled /\ p \in Places /\ Entry(p) = table[bucket][i]
  BY <1>1, <1>2, <1>3, FullBucket, SettledFacts DEF IInv
<1>5. q \in Places \ Settled /\ q[1] = Other(Entry(p))
  <2>1. Min(Free(q[1])) \in Free(q[1])
    BY <1>1, <1>3, SlotMin DEF Free
  <2>2. q[1] \in Buckets
    BY <1>1, <1>4, EntryTyped
  <2>3. q \in Places /\ IsNull(Entry(q))
    BY <1>1, <2>1, <2>2 DEF Free, Places, Entry
  <2> QED
    BY <1>1, <1>4, <2>3, SettledFacts
<1>6. /\ table' \in [Buckets -> [Slots -> EntryType]]
      /\ \A r \in Places \ {q} : Entry(r)' = Entry(r)
      /\ Used' = Used \cup {q} /\ Settled' = (Settled \ {p}) \cup {q}
      /\ p \in Used' /\ Entry(p)'.idx \in Stored'
      /\ Entry(q)' = Moved(Entry(p))
      /\ EntriesInPlace' /\ IndicesConserved' /\ KeysOnce'
  BY <1>2, <1>4, <1>5, MoveFacts
<1>7. TypeOK'
  BY <1>2, <1>4, <1>6 DEF TypeOK, EntryType
<1>8. FlagInv'
  BY <1>2 DEF IInv, FlagInv
<1>9. stack \in Seq(Places) /\ DOMAIN stack = 1 .. Len(stack) /\ Len(stack) \in Nat
  BY <1>4, LenProperties DEF TypeOK
<1>10. p \notin Range(stack)
  <2>1. \A n \in 1 .. Len(stack) : Movable(stack[n][1]) = {}
    BY <1>2 DEF IInv, SearchInv
  <2>2. p[1] = bucket
    BY <1>1
  <2>3. \A n \in 1 .. Len(stack) : stack[n] # p
    BY <1>2, <2>1, <2>2
  <2> QED
    BY <1>9, <2>3 DEF Range
<1>11. UnwindInv'
  BY <1>2, <1>6, <1>10 DEF UnwindInv
<1>12. ChainInv'
  <2>1. \A n \in 1 .. Len(stack) : stack[n] \in Used /\ stack[n] \in Places \ {q}
    BY <1>2, <1>5, SettledFacts DEF IInv, ChainInv
  <2>2. \A n \in 1 .. Len(stack) :
          table'[stack[n][1]][stack[n][2]] = table[stack[n][1]][stack[n][2]]
    BY <1>6, <2>1 DEF Entry
  <2>3. Reached' = Reached /\ NewKey' = NewKey
    BY <1>1, <1>2 DEF Reached, NewKey
  <2>4. stack # <<>> => Len(stack) \in 1 .. Len(stack)
    BY <1>9, EmptySeq
  <2> QED
    BY <1>2, <1>6, <2>1, <2>2, <2>3, <2>4 DEF IInv, ChainInv, Top, Entry
<1>13. SearchInv'
  BY <1>2 DEF SearchInv
<1>14. \A k \in Keys : MapOf(k)' = MapOf(k)
  <2>1. \A r \in Settled : Entry(r)' = Entry(r)
    BY <1>5, <1>6, SettledFacts
  <2> QED
    BY <1>2, <1>4, <1>5, <1>6, <2>1, MoveMap
<1> QED
  BY <1>6, <1>7, <1>8, <1>11, <1>12, <1>13, <1>14 DEF IInv

\* The data part of a step that changes neither the entries nor what they lead to.
LEMMA SearchKept ==
  ASSUME IInv, pc # "unwind", pc' \in {"search", "fail"}, UNCHANGED <<table, keyStore, free, new>>,
         pc # "idle"
  PROVE  /\ \A p : Entry(p)' = Entry(p)
         /\ Used' = Used /\ EntriesInPlace' /\ IndicesConserved' /\ KeysOnce'
         /\ \A k \in Keys : MapOf(k)' = MapOf(k)
<1>1. /\ \A p : Entry(p)' = Entry(p)
      /\ Settled = Used /\ Used' = Used /\ Settled' = Settled /\ Stored' = Stored
      /\ \A p \in Settled : KeyOf(p)' = KeyOf(p)
      /\ EntriesInPlace' /\ \A k \in Keys : MapOf(k)' = MapOf(k)
  BY DataKept
<1>2. IndicesConserved'
  <2>1. IsInjective(free) /\ Range(free) \subseteq Indices /\ 0 \notin Indices
    BY IndicesAre DEF IInv, Indices
  <2>2. new \notin Range(free)
    BY <2>1, IndicesAre DEF IInv
  <2> QED
    BY <1>1, <2>1, <2>2, IndicesKept
<1>3. KeysOnce'
  BY <1>1 DEF IInv, KeysOnce, NewKey
<1> QED
  BY <1>1, <1>2, <1>3

LEMMA DescendStep ==
  ASSUME IInv, Descend
  PROVE  IInv' /\ \A k \in Keys : MapOf(k)' = MapOf(k)
<1>1. PICK i, p : i = Min(Unflagged(bucket)) /\ p = <<bucket, i>>
  OBVIOUS
<1>2. /\ pc = "search" /\ pc' = "search" /\ Movable(bucket) = {} /\ Unflagged(bucket) # {}
      /\ flags' = flags \cup {p} /\ stack' = Append(stack, p)
      /\ bucket' = Other(table[bucket][i])
      /\ UNCHANGED <<table, keyStore, free, new, hole, ret, calls>>
  BY <1>1 DEF Descend
<1>3. i \in Slots /\ p \notin flags
  <2>1. i \in Unflagged(bucket)
    BY <1>1, <1>2, SlotMin DEF Unflagged
  <2> QED
    BY <1>1, <2>1 DEF Unflagged
<1>4. TypeOK /\ p \in Used /\ p \in Places /\ Entry(p) = table[bucket][i]
  BY <1>1, <1>2, <1>3, FullBucket, SettledFacts DEF IInv
<1>5. bucket' = Other(Entry(p)) /\ bucket' \in Buckets /\ Free(bucket') = {}
  BY <1>2, <1>3, <1>4, EntryTyped DEF Movable
<1>6. /\ \A r : Entry(r)' = Entry(r)
      /\ Used' = Used /\ EntriesInPlace' /\ IndicesConserved' /\ KeysOnce'
      /\ \A k \in Keys : MapOf(k)' = MapOf(k)
  BY <1>2, SearchKept
<1>7. /\ stack \in Seq(Places) /\ Len(stack) \in Nat
      /\ stack # <<>> => Len(stack) \in 1 .. Len(stack)
  BY <1>4, EmptySeq, LenProperties DEF TypeOK
<1>8. /\ stack' \in Seq(Places) /\ Len(stack') = Len(stack) + 1 /\ stack' # <<>>
      /\ \A n \in 1 .. Len(stack) : stack'[n] = stack[n]
      /\ stack'[Len(stack) + 1] = p
  BY <1>2, <1>4, <1>7, AppendProperties
<1>9. TypeOK'
  BY <1>2, <1>4, <1>5, <1>8 DEF TypeOK
<1>10. FlagInv'
  <2>1. Range(stack') = Range(stack) \cup {p} /\ IsInjective(stack')
    BY <1>2, <1>3, <1>4, <1>7, AppendRange DEF IInv, FlagInv
  <2> QED
    BY <1>2, <2>1 DEF IInv, FlagInv
<1>11. ChainInv'
  <2>1. /\ \A n \in 1 .. Len(stack) : stack[n] \in Used
        /\ \A n \in 1 .. Len(stack) - 1 : Other(Entry(stack[n])) = stack[n + 1][1]
        /\ IF stack = <<>> THEN bucket = Primary(NewKey)
           ELSE stack[1][1] = Primary(NewKey) /\ Other(Entry(stack[Len(stack)])) = bucket
    BY <1>2 DEF IInv, ChainInv, Reached, Top
  <2>2. \A n \in 1 .. Len(stack') : stack'[n] \in Used
    BY <1>4, <1>7, <1>8, <2>1
  <2>3. ASSUME NEW n \in 1 .. Len(stack) PROVE Other(Entry(stack[n])) = stack'[n + 1][1]
    <3>1. CASE n = Len(stack)
      <4>1. stack # <<>> /\ stack'[n + 1] = p
        BY <1>7, <1>8, <3>1
      <4> QED
        BY <1>1, <2>1, <3>1, <4>1
    <3>2. CASE n < Len(stack)
      <4>1. n \in 1 .. Len(stack) - 1 /\ n + 1 \in 1 .. Len(stack)
        BY <1>7, <3>2
      <4> QED
        BY <1>8, <2>1, <4>1
    <3> QED
      BY <1>7, <3>1, <3>2
  <2>4. stack'[1][1] = Primary(NewKey)
    BY <1>1, <1>7, <1>8, <2>1
  <2>5. \A n \in 1 .. Len(stack) : Entry(stack[n]) = table'[stack'[n][1]][stack'[n][2]]
    BY <1>2, <1>8 DEF Entry
  <2>6. NewKey' = NewKey /\ Reached' = bucket'
    BY <1>2 DEF NewKey, Reached
  <2>7. Other(table'[stack'[Len(stack')][1]][stack'[Len(stack')][2]]) = bucket'
    BY <1>2, <1>5, <1>8 DEF Entry
  <2>8. \A n \in 1 .. Len(stack') - 1 :
          Other(table'[stack'[n][1]][stack'[n][2]]) = stack'[n + 1][1]
    BY <1>7, <1>8, <2>3, <2>5
  <2> QED
    BY <1>6, <1>8, <2>2, <2>4, <2>6, <2>7, <2>8 DEF ChainInv, Top, Entry
<1>12. SearchInv'
  <2> DEFINE F(t, b) == {j \in Slots : IsNull(t[b][j])}
             M(t, b) == {j \in Slots : F(t, Other(t[b][j])) # {}}
  <2>1. F(table, bucket') = {}
    BY <1>5 DEF Free
  <2>2. ASSUME NEW n \in 1 .. Len(stack') PROVE Movable(stack'[n][1]) = {}
    <3>1. \A m \in 1 .. Len(stack) : Movable(stack[m][1]) = {}
      BY <1>2 DEF IInv, SearchInv
    <3>2. CASE n \in 1 .. Len(stack)
      BY <1>8, <3>1, <3>2
    <3>3. CASE n = Len(stack) + 1
      <4>1. stack'[n][1] = bucket
        BY <1>1, <1>8, <3>3
      <4> QED
        BY <1>2, <4>1
    <3> QED
      BY <1>7, <1>8, <3>2, <3>3
  <2>3. \A n \in 1 .. Len(stack') : M(table, stack'[n][1]) = {}
    BY <2>2 DEF Movable, Free
  <2>4. F(table', bucket') = {} /\ \A n \in 1 .. Len(stack') : M(table', stack'[n][1]) = {}
    <3> HIDE DEF F, M
    <3> QED
      BY <1>2, <2>1, <2>3
  <2>5. Free(bucket)' = F(table', bucket')
    BY DEF Free
  <2>6. SearchInv' <=>
          (pc' = "search" => /\ F(table', bucket') = {}
                             /\ \A n \in 1 .. Len(stack') : M(table', stack'[n][1]) = {})
    <3>1. \A n : Movable(stack[n][1])' = M(table', stack'[n][1])
      BY DEF Movable, Free
    <3> HIDE DEF F, M
    <3> QED
      BY <2>5, <3>1 DEF SearchInv
  <2> QED
    BY <2>4, <2>6
<1>13. UnwindInv'
  BY <1>2 DEF UnwindInv
<1> QED
  BY <1>6, <1>9, <1>10, <1>11, <1>12, <1>13 DEF IInv

LEMMA NoSpaceStep ==
  ASSUME IInv, NoSpace
  PROVE  IInv' /\ ret' = ret /\ \A k \in Keys : MapOf(k)' = MapOf(k)
<1>1. /\ pc = "search" /\ pc' = "fail"
      /\ UNCHANGED <<table, flags, keyStore, free, new, bucket, stack, hole, ret, calls>>
  BY DEF NoSpace
<1>2. /\ EntriesInPlace' /\ IndicesConserved' /\ KeysOnce'
      /\ \A k \in Keys : MapOf(k)' = MapOf(k)
  BY <1>1, SearchKept
<1>3. TypeOK' /\ FlagInv'
  BY <1>1 DEF IInv, TypeOK, FlagInv
<1>4. ChainInv' /\ SearchInv' /\ UnwindInv'
  BY <1>1 DEF ChainInv, SearchInv, UnwindInv
<1> QED
  BY <1>1, <1>2, <1>3, <1>4 DEF IInv

\* What a return from make_space_bucket does to the frames.
LEMMA ReturnFacts ==
  ASSUME IInv, Return
  PROVE  /\ stack' \in Seq(Places) /\ Len(stack) \in Nat \ {0} /\ Len(stack') = Len(stack) - 1
         /\ \A n \in 1 .. Len(stack) - 1 : stack'[n] = stack[n]
         /\ Top \in Places /\ Top \in Range(stack) /\ Top \notin Range(stack')
         /\ Range(stack') \subseteq Range(stack) /\ flags' \in SUBSET Places /\ FlagInv'
<1>1. /\ stack # <<>> /\ stack \in Seq(Places) /\ IsInjective(stack) /\ flags = Range(stack)
      /\ flags' = flags \ {Top} /\ stack' = SubSeq(stack, 1, Len(stack) - 1)
      /\ Top = stack[Len(stack)] /\ flags \in SUBSET Places /\ pc' = pc
  BY DEF IInv, FlagInv, TypeOK, Return, Top
<1>2. /\ stack' \in Seq(Places) /\ Len(stack') = Len(stack) - 1 /\ Len(stack) \in Nat \ {0}
      /\ \A n \in 1 .. Len(stack) - 1 : stack'[n] = stack[n]
      /\ stack[Len(stack)] \in Range(stack) /\ stack[Len(stack)] \in Places
      /\ Range(stack') = Range(stack) \ {stack[Len(stack)]} /\ IsInjective(stack')
  <2>1. PICK s, f : s = stack /\ f = SubSeq(s, 1, Len(s) - 1)
    OBVIOUS
  <2>2. s \in Seq(Places) /\ s # <<>> /\ IsInjective(s)
    BY <1>1, <2>1
  <2>3. f = SubSeq(s, 1, Len(s) - 1)
    BY <2>1
  <2>4. f \in Seq(Places) /\ s[Len(s)] \in Range(s) /\ s[Len(s)] \in Places
    BY ONLY <2>2, <2>3, FrontRange
  <2>5. Len(f) = Len(s) - 1 /\ Len(s) \in Nat \ {0}
    BY ONLY <2>2, <2>3, FrontRange
  <2>6. \A n \in 1 .. Len(s) - 1 : f[n] = s[n]
    BY ONLY <2>2, <2>3, FrontRange
  <2>7. Range(f) = Range(s) \ {s[Len(s)]}
    BY ONLY <2>2, <2>3, FrontRange
  <2>8. IsInjective(f)
    BY ONLY <2>2, <2>3, FrontRange
  <2> QED
    BY <1>1, <2>1, <2>4, <2>5, <2>6, <2>7, <2>8
<1>3. FlagInv'
  BY <1>1, <1>2 DEF IInv, FlagInv
<1> QED
  BY <1>1, <1>2, <1>3

LEMMA UnwindFailureStep ==
  ASSUME IInv, UnwindFailure
  PROVE  IInv' /\ ret' = ret /\ \A k \in Keys : MapOf(k)' = MapOf(k)
<1>1. /\ pc = "fail" /\ pc' = "fail" /\ Return
      /\ UNCHANGED <<table, hole, keyStore, free, new, bucket, ret, calls>>
  BY DEF UnwindFailure, Return
<1>2. /\ EntriesInPlace' /\ IndicesConserved' /\ KeysOnce'
      /\ \A k \in Keys : MapOf(k)' = MapOf(k)
  BY <1>1, SearchKept
<1>3. stack' \in Seq(Places) /\ flags' \in SUBSET Places /\ FlagInv'
  BY <1>1, ReturnFacts
<1>4. TypeOK'
  BY <1>1, <1>3 DEF IInv, TypeOK
<1>5. ChainInv' /\ SearchInv' /\ UnwindInv'
  BY <1>1 DEF ChainInv, SearchInv, UnwindInv
<1> QED
  BY <1>1, <1>2, <1>3, <1>4, <1>5 DEF IInv

LEMMA UnwindStep ==
  ASSUME IInv, Unwind
  PROVE  IInv' /\ ret' = ret /\ \A k \in Keys : MapOf(k)' = MapOf(k)
<1>1. PICK p, q : p = Top /\ q = hole
  OBVIOUS
<1>2. /\ pc = "unwind" /\ pc' = "unwind" /\ Return /\ hole' = p
      /\ Set(q[1], q[2], Moved(table[p[1]][p[2]]))
      /\ UNCHANGED <<keyStore, free, new, bucket, ret, calls>>
  BY <1>1 DEF Unwind, Return
<1>3. /\ stack' \in Seq(Places) /\ Len(stack) \in Nat \ {0} /\ Len(stack') = Len(stack) - 1
      /\ \A n \in 1 .. Len(stack) - 1 : stack'[n] = stack[n]
      /\ p \in Places /\ p \in Range(stack) /\ p \notin Range(stack')
      /\ flags' \in SUBSET Places /\ FlagInv'
  BY <1>1, <1>2, ReturnFacts
<1>4. /\ \A n \in 1 .. Len(stack) : stack[n] \in Used
      /\ \A n \in 1 .. Len(stack) - 1 : Other(Entry(stack[n])) = stack[n + 1][1]
      /\ stack[1][1] = Primary(NewKey) /\ Other(Entry(p)) = q[1] /\ p = stack[Len(stack)]
  <2>1. stack # <<>>
    BY <1>2 DEF Return
  <2>2. stack[1][1] = Primary(NewKey) /\ Other(Entry(Top)) = Reached /\ Reached = hole[1]
    BY <1>2, <2>1 DEF IInv, ChainInv, Reached
  <2> QED
    BY <1>1, <1>2, <2>2 DEF IInv, ChainInv, Top
<1>5. /\ p \in Settled /\ q \in Places \ Settled /\ TypeOK
      /\ \A n \in 1 .. Len(stack) : stack[n] # q
  <2>1. hole \in Used /\ hole \notin Range(stack) /\ DOMAIN stack = 1 .. Len(stack)
    BY <1>2, LenProperties DEF IInv, UnwindInv, TypeOK
  <2>2. \A n \in 1 .. Len(stack) : stack[n] # hole
    BY <2>1 DEF Range
  <2>3. Settled = Used \ {hole}
    BY <1>2 DEF Settled
  <2> QED
    BY <1>1, <1>3, <1>4, <2>1, <2>2, <2>3, SettledFacts DEF IInv
<1>6. /\ table' \in [Buckets -> [Slots -> EntryType]]
      /\ \A r \in Places \ {q} : Entry(r)' = Entry(r)
      /\ Used' = Used \cup {q} /\ Settled' = (Settled \ {p}) \cup {q}
      /\ p \in Used' /\ Entry(p)'.idx \in Stored'
      /\ Entry(q)' = Moved(Entry(p))
      /\ EntriesInPlace' /\ IndicesConserved' /\ KeysOnce'
  <2>1. Set(q[1], q[2], Moved(Entry(p)))
    BY <1>2 DEF Entry
  <2> QED
    BY <1>1, <1>2, <1>4, <1>5, <2>1, MoveFacts
<1>7. TypeOK'
  BY <1>2, <1>3, <1>5, <1>6 DEF TypeOK, EntryType
<1>8. UnwindInv'
  BY <1>2, <1>3, <1>6 DEF UnwindInv
<1>9. ChainInv'
  <2>1. \A n \in 1 .. Len(stack') : stack'[n] \in Used' /\ stack'[n] = stack[n]
    BY <1>3, <1>4, <1>6
  <2>2. \A n \in 1 .. Len(stack') :
          table'[stack'[n][1]][stack'[n][2]] = table[stack[n][1]][stack[n][2]]
    <3>1. \A n \in 1 .. Len(stack) : stack[n] \in Places \ {q}
      BY <1>4, <1>5, SettledFacts
    <3> QED
      BY <1>3, <1>6, <2>1, <3>1 DEF Entry
  <2>3. \A n \in 1 .. Len(stack') :
          Other(table'[stack'[n][1]][stack'[n][2]]) = stack[n + 1][1]
    BY <1>3, <1>4, <2>2 DEF Entry
  <2>4. \A n \in 1 .. Len(stack') - 1 :
          Other(table'[stack'[n][1]][stack'[n][2]]) = stack'[n + 1][1]
    <3>1. \A n \in 1 .. Len(stack') - 1 : n \in 1 .. Len(stack') /\ n + 1 \in 1 .. Len(stack')
      BY <1>3
    <3> QED
      BY <2>1, <2>3, <3>1
  <2>5. Reached' = p[1] /\ NewKey' = NewKey
    BY <1>2 DEF Reached, NewKey
  <2>6. CASE stack' = <<>>
    <3>1. Len(stack) = 1
      BY <1>3, <2>6
    <3> QED
      BY <1>4, <2>1, <2>5, <2>6, <3>1 DEF ChainInv
  <2>7. CASE stack' # <<>>
    <3>1. Len(stack') \in 1 .. Len(stack') /\ 1 \in 1 .. Len(stack')
      BY <1>3, <2>7, EmptySeq
    <3>2. Other(table'[stack'[Len(stack')][1]][stack'[Len(stack')][2]]) = p[1]
      BY <1>3, <1>4, <2>3, <3>1
    <3>3. stack'[1][1] = Primary(NewKey)
      BY <1>4, <2>1, <3>1
    <3> QED
      BY <2>1, <2>4, <2>5, <2>7, <3>2, <3>3 DEF ChainInv, Top, Entry
  <2> QED
    BY <2>6, <2>7
<1>10. SearchInv'
  BY <1>2 DEF SearchInv
<1>11. \A k \in Keys : MapOf(k)' = MapOf(k)
  <2>1. \A r \in Settled : Entry(r)' = Entry(r)
    BY <1>5, <1>6, SettledFacts
  <2> QED
    BY <1>2, <1>5, <1>6, <2>1, MoveMap
<1> QED
  BY <1>2, <1>3, <1>6, <1>7, <1>8, <1>9, <1>10, <1>11 DEF IInv

\* The index that an add has in its hands.
LEMMA NewFacts ==
  ASSUME IInv, pc # "idle"
  PROVE  /\ new \in Indices \ Stored /\ new \notin Range(free)
         /\ free \in Seq(Indices) /\ IsInjective(free) /\ Range(free) \subseteq Indices
         /\ NewKey \in Keys /\ keyStore[new] \in [key : Keys, data : Data]
         /\ \A p \in Settled : KeyOf(p) # NewKey
<1>1. /\ new \in 0 .. NbEntries /\ new # 0 /\ free \in Seq(Indices)
      /\ keyStore \in [Indices -> [key : Keys, data : Data]]
      /\ \A p \in Settled : KeyOf(p) # NewKey
  BY DEF IInv, TypeOK, KeysOnce
<1>2. new \in Indices
  BY <1>1 DEF Indices
<1>3. ({new} \ {0}) \cap (Range(free) \cup Stored) = {} /\ IsInjective(free)
      /\ Range(free) \cup Stored \cup ({new} \ {0}) = Indices
  BY IndicesAre DEF IInv
<1> QED
  BY <1>1, <1>2, <1>3 DEF NewKey

LEMMA AddMovedStep ==
  ASSUME IInv, AddMoved
  PROVE  /\ IInv' /\ ret' = "ok"
         /\ \E k \in Keys, d \in Data :
              MapOf(k)' = {d} /\ \A j \in Keys \ {k} : MapOf(j)' = MapOf(j)
<1>1. PICK k, n, q, d : k = NewKey /\ n = new /\ q = hole /\ d = keyStore[new].data
  OBVIOUS
<1>2. /\ pc = "unwind" /\ stack = <<>> /\ stack' = <<>> /\ ret' = "ok"
      /\ Set(q[1], q[2], NewEntry(k, n))
      /\ pc' = "idle" /\ new' = 0 /\ bucket' = 0 /\ hole' = <<0, 1>>
      /\ UNCHANGED <<flags, keyStore, free, calls>>
  BY <1>1 DEF AddMoved, NewKey
<1>3. /\ n \in Indices \ Stored /\ n \notin Range(free)
      /\ free \in Seq(Indices) /\ IsInjective(free)
      /\ k \in Keys /\ d \in Data /\ keyStore[n] = [key |-> k, data |-> d]
      /\ \A p \in Settled : KeyOf(p) # k
  BY <1>1, <1>2, NewFacts DEF NewKey
<1>4. q \in Places \ Settled /\ q[1] = Primary(k)
  <2>1. hole \in Used /\ Settled = Used \ {hole} /\ Reached = hole[1]
    BY <1>2 DEF IInv, UnwindInv, Settled, Reached
  <2>2. Reached = Primary(NewKey)
    BY <1>2 DEF IInv, ChainInv
  <2> QED
    BY <1>1, <2>1, <2>2, SettledFacts
<1>5. flags' = {}
  BY <1>2 DEF IInv, FlagInv, Range
<1>6. /\ table' \in [Buckets -> [Slots -> EntryType]]
      /\ \A p \in Settled : Entry(p)' = Entry(p) /\ Entry(p).idx \in Indices \ {n}
      /\ Settled' = Settled \cup {q} /\ Entry(q)' = NewEntry(k, n)
      /\ EntriesInPlace' /\ IndicesConserved' /\ KeysOnce'
  <2>1. Range(free') \cup {n} = Range(free) \cup ({new} \ {0})
    BY <1>1, <1>2, <1>3 DEF Indices
  <2>2. keyStore'[n].key = k /\ \A m \in Indices \ {n} : keyStore'[m] = keyStore[m]
    BY <1>2, <1>3
  <2>3. IsInjective(free') /\ n \notin Range(free') /\ (pc = "unwind" => q = hole)
    BY <1>1, <1>2, <1>3
  <2> QED
    BY <1>2, <1>3, <1>4, <1>5, <2>1, <2>2, <2>3, EnterFacts
<1>7. TypeOK'
  <2>1. 0 \in Buckets /\ <<0, 1>> \in Places /\ 0 \in 0 .. NbEntries
    BY SizesAssumption DEF Buckets, Slots, Places
  <2> QED
    BY <1>2, <1>6, <2>1 DEF IInv, TypeOK, EntryType
<1>8. IInv'
  BY <1>2, <1>5, <1>6, <1>7, IdleRest DEF IInv
<1>9. MapOf(k)' = {d} /\ \A j \in Keys \ {k} : MapOf(j)' = MapOf(j)
  <2>1. /\ keyStore'[n] = [key |-> k, data |-> d]
        /\ \A m \in Indices \ {n} : keyStore'[m] = keyStore[m]
    BY <1>2, <1>3
  <2>2. \A p \in Settled :
          Entry(p)' = Entry(p) /\ Entry(p).idx \in Indices \ {n} /\ KeyOf(p) # k
    BY <1>3, <1>6
  <2>3. n \in Indices /\ k \in Keys /\ Settled' = Settled \cup {q} /\ Entry(q)' = NewEntry(k, n)
    BY <1>3, <1>6
  <2> QED
    BY <1>4, <2>1, <2>2, <2>3, EnterMap
<1> QED
  BY <1>2, <1>3, <1>8, <1>9

LEMMA AddNoSpaceStep ==
  ASSUME IInv, AddNoSpace
  PROVE  IInv' /\ ret' = "ENOSPC" /\ \A k \in Keys : MapOf(k)' = MapOf(k)
<1>1. /\ pc = "fail" /\ stack = <<>> /\ stack' = <<>> /\ ret' = "ENOSPC"
      /\ free' = Append(free, new) /\ keyStore' = [keyStore EXCEPT ![new] = Zeroed]
      /\ pc' = "idle" /\ new' = 0 /\ bucket' = 0
      /\ UNCHANGED <<table, flags, hole, calls>>
  BY DEF AddNoSpace
<1>2. /\ new \in Indices \ Stored /\ new \notin Range(free)
      /\ free \in Seq(Indices) /\ IsInjective(free) /\ Range(free) \subseteq Indices
  BY <1>1, NewFacts
<1>3. /\ keyStore' \in [Indices -> [key : Keys, data : Data]]
      /\ \A m \in Indices \ {new} : keyStore'[m] = keyStore[m]
  <2>1. Zeroed \in [key : Keys, data : Data]
    BY PairsAssumption DEF Zeroed
  <2> QED
    BY <1>1, <1>2, <2>1 DEF IInv, TypeOK
<1>4. /\ \A p : Entry(p)' = Entry(p)
      /\ Settled = Used /\ Used' = Used /\ Settled' = Settled /\ Stored' = Stored
      /\ \A p \in Settled : KeyOf(p)' = KeyOf(p)
      /\ EntriesInPlace' /\ \A k \in Keys : MapOf(k)' = MapOf(k)
  <2>1. \A m \in Stored : keyStore'[m] = keyStore[m]
    <3>1. Stored \subseteq Indices
      BY SettledFacts DEF IInv, EntriesInPlace, Stored
    <3> QED
      BY <1>2, <1>3, <3>1
  <2> QED
    BY <1>1, <2>1, DataKept
<1>5. free' \in Seq(Indices) /\ Range(free') = Range(free) \cup {new} /\ IsInjective(free')
  BY <1>1, <1>2, AppendRange
<1>6. flags' = {}
  BY <1>1 DEF IInv, FlagInv, Range
<1>7. TypeOK'
  <2>1. 0 \in Buckets /\ 0 \in 0 .. NbEntries /\ <<>> \in Seq(Places)
    BY SizesAssumption DEF Buckets
  <2> QED
    BY <1>1, <1>3, <1>5, <2>1 DEF IInv, TypeOK
<1>8. IndicesConserved'
  <2>1. /\ (Range(free) \cup {new}) \ {0} = (Range(free') \cup {new'}) \ {0}
        /\ Range(free') \subseteq Indices /\ new' \notin Range(free')
    BY <1>1, <1>2, <1>5 DEF Indices
  <2> QED
    BY <1>1, <1>4, <1>5, <1>6, <2>1, IndicesKept
<1>9. KeysOnce'
  BY <1>1, <1>4 DEF IInv, KeysOnce
<1> QED
  BY <1>1, <1>4, <1>6, <1>7, <1>8, <1>9, IdleRest DEF IInv

-----------------------------------------------------------------------------
(* cuckoohash_del_key *)

LEMMA DeleteStep ==
  ASSUME IInv, NEW k \in Keys, Delete(k)
  PROVE  /\ IInv' /\ ret' = "ok" /\ MapOf(k) # {} /\ MapOf(k)' = {}
         /\ \A j \in Keys \ {k} : MapOf(j)' = MapOf(j)
<1>1. /\ pc = "idle" /\ calls < MaxCalls /\ calls' = calls + 1
      /\ UNCHANGED <<flags, pc, new, bucket, stack, hole>>
  BY DEF Delete, Call, frame
<1>2. PICK q \in Used : KeyOf(q) = k /\ Remove(q[1], q[2])
  <2>1. CASE InPrimary(k) # {}
    <3>1. PICK i : i = Min(InPrimary(k))
      OBVIOUS
    <3>2. i \in InPrimary(k) /\ Remove(Primary(k), i)
      BY <2>1, <3>1, SlotMin DEF InPrimary, Delete
    <3> QED
      BY <3>2, FoundIn
  <2>2. CASE InPrimary(k) = {}
    <3>1. PICK i : i = Min(ToDelete(k))
      OBVIOUS
    <3>2. i \in ToDelete(k) /\ Remove(Secondary(k), i)
      BY <2>2, <3>1, SlotMin DEF ToDelete, Delete
    <3> QED
      BY <3>2, FoundIn
  <2> QED
    BY <2>1, <2>2
<1>3. /\ table' \in [Buckets -> [Slots -> EntryType]] /\ free' \in Seq(Indices)
      /\ keyStore' \in [Indices -> [key : Keys, data : Data]]
      /\ \A p \in Settled' : /\ Entry(p)' = Entry(p) /\ Entry(p).idx \in Indices
                             /\ keyStore'[Entry(p).idx] = keyStore[Entry(p).idx]
      /\ Settled' = Settled \ {q}
      /\ EntriesInPlace' /\ IndicesConserved' /\ KeysOnce'
  BY <1>1, <1>2, LeaveFacts
<1>4. ret' = "ok"
  BY <1>2 DEF Remove
<1>5. TypeOK'
  BY <1>1, <1>3, <1>4, MaxCallsAssumption DEF IInv, TypeOK, EntryType
<1>6. IInv'
  BY <1>1, <1>3, <1>5, IdleFacts, IdleRest DEF IInv
<1>7. q \in Holders(k) /\ \A p \in Holders(k) : p = q
  BY <1>1, <1>2, IdleFacts, LookupFinds DEF Holders
<1>8. MapOf(k) # {}
  BY <1>7 DEF MapOf
<1>9. \A p \in Settled' : KeyOf(p)' = KeyOf(p)
  BY <1>3 DEF KeyOf
<1>10. Holders(k)' = {} /\ \A j \in Keys \ {k} : Holders(j)' = Holders(j)
  BY <1>2, <1>3, <1>7, <1>9 DEF Holders
<1>11. MapOf(k)' = {}
  BY <1>10 DEF MapOf
<1>12. ASSUME NEW j \in Keys \ {k} PROVE MapOf(j)' = MapOf(j)
  <2>1. MapOf(j)' = {keyStore'[Entry(p)'.idx].data : p \in Holders(j)'}
    BY DEF MapOf
  <2>2. \A p \in Holders(j)' : keyStore'[Entry(p)'.idx] = keyStore[Entry(p).idx]
    BY <1>3 DEF Holders
  <2> QED
    BY <1>10, <2>1, <2>2 DEF MapOf
<1> QED
  BY <1>4, <1>6, <1>8, <1>11, <1>12

-----------------------------------------------------------------------------
(* Every step *)

Same1(k)     == \A j \in Keys \ {k} : MapOf(j)' = MapOf(j)
SameMap      == \A j \in Keys : MapOf(j)' = MapOf(j)

\* What a step may do to the map and the result.
Effect ==
  \/ ret' = ret /\ SameMap
  \/ ret' = "ENOSPC" /\ SameMap
  \/ \E k \in Keys, d \in Data : ret' = "ok" /\ MapOf(k)' = {d} /\ Same1(k)
  \/ \E k \in Keys : ret' = "ok" /\ MapOf(k) # {} /\ MapOf(k)' = {} /\ Same1(k)
  \/ \E k \in Keys : ret' = "ENOENT" /\ MapOf(k) = {} /\ SameMap

LEMMA StepEffect == IInv /\ [Next]_vars => IInv' /\ Effect
<1> SUFFICES ASSUME IInv, [Next]_vars PROVE IInv' /\ Effect
  OBVIOUS
<1>1. CASE Push
  <2>1. ret' = ret
    BY <1>1 DEF Push
  <2> QED
    BY <1>1, <2>1, PushStep DEF Effect, SameMap
<1>2. CASE Descend
  <2>1. ret' = ret
    BY <1>2 DEF Descend
  <2> QED
    BY <1>2, <2>1, DescendStep DEF Effect, SameMap
<1>3. CASE NoSpace
  BY <1>3, NoSpaceStep DEF Effect, SameMap
<1>4. CASE Unwind
  BY <1>4, UnwindStep DEF Effect, SameMap
<1>5. CASE UnwindFailure
  BY <1>5, UnwindFailureStep DEF Effect, SameMap
<1>6. CASE AddMoved
  BY <1>6, AddMovedStep DEF Effect, Same1
<1>7. CASE AddNoSpace
  BY <1>7, AddNoSpaceStep DEF Effect, SameMap
<1>8. CASE AddNoIndex
  <2>1. /\ ret' = "ENOSPC" /\ calls' \in 0 .. MaxCalls
        /\ UNCHANGED <<table, flags, keyStore, free, frame>>
    BY <1>8, MaxCallsAssumption DEF AddNoIndex, Call, IInv, TypeOK
  <2> QED
    BY <2>1, QuietStep DEF Effect, SameMap
<1>9. ASSUME NEW p \in Pairs, AddExisting(p[1], p[2]) \/ AddNew(p[1], p[2])
      PROVE  IInv' /\ Effect
  <2>1. PICK k \in Keys, d \in Data : k = p[1] /\ d = p[2]
    BY PairsAssumption
  <2>2. CASE AddExisting(k, d)
    <3>1. ret' = "ok"
      BY <2>2 DEF AddExisting
    <3> QED
      BY <2>2, <3>1, AddExistingStep DEF Effect, Same1
  <2>3. CASE AddNew(k, d) /\ Free(Primary(k)) # {}
    BY <2>3, AddNewRoom DEF Effect, Same1
  <2>4. CASE AddNew(k, d) /\ Free(Primary(k)) = {}
    BY <2>4, AddNewSearch DEF Effect, SameMap
  <2> QED
    BY <1>9, <2>1, <2>2, <2>3, <2>4
<1>10. ASSUME NEW k \in Keys, Delete(k) PROVE IInv' /\ Effect
  BY <1>10, DeleteStep DEF Effect, Same1
<1>11. ASSUME NEW k \in Keys, DeleteNoKey(k) PROVE IInv' /\ Effect
  <2>1. /\ ret' = "ENOENT" /\ calls' \in 0 .. MaxCalls
        /\ UNCHANGED <<table, flags, keyStore, free, frame>>
        /\ InPrimary(k) \cup ToDelete(k) = {}
    BY <1>11, MaxCallsAssumption DEF DeleteNoKey, Call, IInv, TypeOK
  <2>2. Holders(k) = {}
    <3>1. \A p \in Used : KeyOf(p) # k
      BY <2>1, FoundIn
    <3> QED
      BY <3>1, SettledFacts DEF Holders
  <2>3. MapOf(k) = {}
    BY <2>2 DEF MapOf
  <2> QED
    BY <2>1, <2>3, QuietStep DEF Effect, SameMap
<1>12. CASE UNCHANGED vars
  <2>1. /\ ret' = ret /\ ret' \in {"ok", "ENOSPC", "ENOENT"} /\ calls' \in 0 .. MaxCalls
        /\ UNCHANGED <<table, flags, keyStore, free, frame>>
    BY <1>12 DEF vars, IInv, TypeOK
  <2> QED
    BY <2>1, QuietStep DEF Effect, SameMap
<1> QED
  BY <1>1, <1>2, <1>3, <1>4, <1>5, <1>6, <1>7, <1>8, <1>9, <1>10, <1>11, <1>12
  DEF Next, MakeSpace

\* The invariant holds in every reachable state.
THEOREM Invariance == Spec => []IInv
<1>1. IInv /\ [Next]_vars => IInv'
  BY StepEffect
<1> QED
  BY <1>1, InitIInv, PTL DEF Spec

\* Every variable keeps its type: no call of make_space_bucket leaves the table or
\* returns an index that is not one.
THEOREM TypeCorrect == Spec => []TypeOK
<1>1. IInv => TypeOK
  BY DEF IInv
<1> QED
  BY <1>1, Invariance, PTL

\* Every entry is where the signatures of its key lead, at every level of the recursion
\* of make_space_bucket, too.
THEOREM InPlace == Spec => []EntriesInPlace
<1>1. IInv => EntriesInPlace
  BY DEF IInv
<1> QED
  BY <1>1, Invariance, PTL

\* No index of the key store is lost or given out twice by any mixture of adds, adds
\* that fail after any number of moves, and deletes.
THEOREM NoIndexLost == Spec => []IndicesConserved
<1>1. IInv => IndicesConserved
  BY DEF IInv
<1> QED
  BY <1>1, Invariance, PTL

-----------------------------------------------------------------------------
(* The map *)

MapNow == [k \in Keys |-> {keyStore[n].data : n \in Lookup(k)}]

\* What lookups return is what the entries hold.
LEMMA MapIs == IInv => MapNow = [k \in Keys |-> MapOf(k)]
<1> SUFFICES ASSUME IInv, NEW k \in Keys
             PROVE  {keyStore[n].data : n \in Lookup(k)} = MapOf(k)
  BY DEF MapNow
<1>1. Lookup(k) = {Entry(p).idx : p \in Holders(k)}
  BY LookupFinds
<1> QED
  BY <1>1 DEF MapOf

LEMMA InitSimulates == Init => Map!Init
<1> SUFFICES ASSUME Init PROVE Map!Init
  OBVIOUS
<1>1. IInv
  BY InitIInv
<1>2. Used = {}
  <2>1. \A p \in Places : Entry(p) = Empty
    BY <1>1, EntryTyped DEF Init, Entry, IInv
  <2> QED
    BY <2>1 DEF Used, IsNull, Empty
<1>3. \A k \in Keys : MapOf(k) = {}
  BY <1>2, SettledFacts DEF MapOf, Holders
<1>4. MapNow = [k \in Keys |-> {}]
  BY <1>1, <1>3, MapIs
<1>5. ret = "ok"
  BY DEF Init
<1> QED
  BY <1>4, <1>5 DEF Map!Init, MapNow

LEMMA StepSimulates == IInv /\ IInv' /\ [Next]_vars => [Map!Next]_Map!vars
<1> SUFFICES ASSUME IInv, IInv', [Next]_vars PROVE [Map!Next]_Map!vars
  OBVIOUS
<1>1. MapNow = [k \in Keys |-> MapOf(k)]
  BY MapIs
<1>2. MapNow' = [k \in Keys |-> MapOf(k)']
  <2>1. (IInv => MapNow = [k \in Keys |-> MapOf(k)])'
    BY MapIs, PTL
  <2> QED
    BY <2>1
<1>3. Effect
  BY StepEffect
<1>4. SameMap => MapNow' = MapNow
  BY <1>1, <1>2 DEF SameMap
<1>5. ASSUME NEW k \in Keys, NEW v, MapOf(k)' = v, Same1(k)
      PROVE  MapNow' = [MapNow EXCEPT ![k] = v]
  BY <1>1, <1>2, <1>5 DEF Same1
<1>6. CASE ret' = ret /\ SameMap
  BY <1>4, <1>6 DEF Map!vars, MapNow
<1>7. CASE ret' = "ENOSPC" /\ SameMap
  <2>1. Map!AddFails
    BY <1>4, <1>7 DEF Map!AddFails, MapNow
  <2> QED
    BY <2>1 DEF Map!Next
<1>8. ASSUME NEW k \in Keys, NEW d \in Data, ret' = "ok", MapOf(k)' = {d}, Same1(k)
      PROVE  Map!Next
  <2>1. MapNow' = [MapNow EXCEPT ![k] = {d}]
    BY <1>5, <1>8
  <2>2. Map!Add(k, d)
    BY <1>8, <2>1 DEF Map!Add, MapNow
  <2>3. d \in MapNow'[k] \cap Data
    BY <1>2, <1>8
  <2> QED
    BY <2>2, <2>3 DEF Map!Next, MapNow
<1>9. ASSUME NEW k \in Keys, ret' = "ok", MapOf(k) # {}, MapOf(k)' = {}, Same1(k)
      PROVE  Map!Next
  <2>1. MapNow' = [MapNow EXCEPT ![k] = {}]
    BY <1>5, <1>9
  <2>2. MapNow[k] # {} /\ MapNow'[k] = {}
    BY <1>1, <1>2, <1>9
  <2>3. Map!Delete(k)
    BY <1>9, <2>1, <2>2 DEF Map!Delete, MapNow
  <2> QED
    BY <2>2, <2>3 DEF Map!Next, MapNow
<1>10. ASSUME NEW k \in Keys, ret' = "ENOENT", MapOf(k) = {}, SameMap
       PROVE  Map!Next
  <2>1. MapNow[k] = {} /\ MapNow' = MapNow
    BY <1>1, <1>4, <1>10
  <2>2. Map!DeleteFails(k)
    BY <1>10, <2>1 DEF Map!DeleteFails, MapNow
  <2>3. MapNow'[k] = {}
    BY <2>1
  <2> QED
    BY <2>2, <2>3 DEF Map!Next, MapNow
<1> QED
  BY <1>3, <1>6, <1>7, <1>8, <1>9, <1>10 DEF Effect

\* The hash table is a map for its callers: a lookup, at any moment and at any level of
\* the recursion, finds the data of the latest add of its key that succeeded and was not
\* followed by a delete, and no add or delete touches another key.
THEOREM MapImplemented == Spec => ImplementsMap
<1>1. IInv /\ IInv' /\ [Next]_vars => [Map!Next]_Map!vars
  BY StepSimulates
<1> QED
  BY <1>1, InitSimulates, Invariance, PTL DEF Spec, ImplementsMap, Map!Spec

=============================================================================
