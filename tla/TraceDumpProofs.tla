---------------------------- MODULE TraceDumpProofs ----------------------------
(****************************************************************************)
(* The properties of TraceFile and TraceDump, for any threads, probes and   *)
(* caches, and any table of the analyser.                                   *)
(****************************************************************************)
EXTENDS TLAPS, SequenceTheorems, WellFoundedInduction, TraceDump

Stamps == [tid : Nat, type : {"cycles", "timespec"}, time : Nat]
Shown  == [tid : Nat, nsec : Nat]

-----------------------------------------------------------------------------
(* The threads *)

\* As long as its file is not open, a thread has kept nothing.
OpenInv == tid # "known" => file = <<>> /\ cache = <<>>

FileInv == TypeFile /\ CapturedKept /\ OpenInv

-----------------------------------------------------------------------------
(* The dump *)

\* The places of the records with key k at l among the first a of s, whose keys are
\* ks, without those in R.
PlacesOf(s, ks, k, l, a, R) == {n \in (1 .. a) \ R : ks[n] = k /\ s[n].loc = l}

\* The timestamp that the table has to have for k at l after these records.
StampAt(s, ks, k, l, a, R) ==
  LET places == PlacesOf(s, ks, k, l, a, R)
  IN  IF places = {} THEN NoStamp ELSE StampOf(s[Max(places)])

\* Nothing is read before the table is made.
PhaseInv ==
  /\ phase \in {"trace", "init", "failed"} =>
       /\ at = 0 /\ keys = <<>> /\ rejected = {} /\ maxLoc = 0
       /\ map = [k \in Keys |-> {}]
  /\ phase \in {"print", "done"} => at = Len(Input)

\* A record was looked up with a key of its probe, and some record has the location
\* of the last column.
ReadInv ==
  /\ \A n \in 1 .. at : keys[n][1] = Input[n].probe
  /\ maxLoc # 0 => \E n \in 1 .. at : Input[n].loc = maxLoc

\* No two traces share an index, and none that is in use will be taken again,
\* however adds to the table fail in between.
IndicesUsedOnce ==
  /\ \A j, k \in Keys : j # k => map[j] \cap map[k] = {}
  /\ \A n \in DOMAIN ring :
       /\ \A k \in Keys : ring[n] \notin map[k]
       /\ \A m \in DOMAIN ring : ring[m] = ring[n] => m = n

\* A key has one index, whose timestamps are the last that were read.
StampInv ==
  \A k \in Keys : \A n \in map[k] :
    /\ map[k] = {n}
    /\ \A l \in Locs : data[n][l] = StampAt(Input, keys, k, l, at, rejected)

\* A key that has no index lost all its records, and one that lost a record all
\* before it; no location is beyond the columns.
RejectInv ==
  /\ \A k \in Keys : map[k] = {} => \A n \in 1 .. at : keys[n] = k => n \in rejected
  /\ \A n \in rejected : \A h \in 1 .. n - 1 : keys[h] = keys[n] => h \in rejected
  /\ \A n \in 1 .. at : Input[n].loc <= maxLoc

\* The lines are those of different keys in the table.
LinesInv ==
  /\ lines \in Seq([key : Keys, stamps : [0 .. maxLoc -> Shown]])
  /\ phase \notin {"print", "done", "overrun"} => lines = <<>>
  /\ \A m \in 1 .. Len(lines) :
       /\ map[lines[m].key] # {}
       /\ \A h \in 1 .. m - 1 : lines[h].key # lines[m].key
       /\ \A l \in 0 .. maxLoc :
            lines[m].stamps[l] = Printed(StampAt(Input, keys, lines[m].key, l, at, rejected))
  /\ phase = "done" => Unprinted = {}

DumpInv ==
  PhaseInv /\ ReadInv /\ IndicesUsedOnce /\ RowsHold /\ StampInv /\ RejectInv /\ LinesInv

IInv == TypeOK /\ FileInv /\ DumpInv

-----------------------------------------------------------------------------
(* Concatenation of sequences *)

\* Induction, for a set of naturals.
LEMMA SetInduction ==
  ASSUME NEW S, 0 \in S, \A n \in Nat : n \in S => n + 1 \in S
  PROVE  Nat \subseteq S
<1> SUFFICES ASSUME Nat \ S # {} PROVE FALSE
  OBVIOUS
<1> DEFINE R == OpToRel(<, Nat)
<1>1. \A y, x \in Nat : y < x => <<y, x>> \in R
  BY DEF OpToRel
<1>2. IsWellFoundedOn(R, Nat)
  BY NatLessThanWellFounded
<1> HIDE DEF R
<1>3. PICK x \in Nat \ S : \A y \in Nat \ S : <<y, x>> \notin R
  BY <1>2, WFMin
<1>4. x # 0 /\ x - 1 \in Nat /\ x - 1 < x /\ (x - 1) + 1 = x
  BY <1>3
<1>5. x - 1 \notin S
  BY <1>3, <1>4
<1> QED
  BY <1>1, <1>3, <1>4, <1>5

\* What FlattenSeq computes recursively.
Flatten(ss, g) == [i \in 1 .. Len(ss) |-> IF i = 1 THEN ss[i] ELSE g[i - 1] \o ss[i]]

LEMMA FlattenExists ==
  ASSUME NEW S, NEW ss \in Seq(Seq(S))
  PROVE  \E g : g = Flatten(ss, g)
<1> DEFINE N == Len(ss)
           D == 1 .. N
           Upto(n) == \E g \in [D -> Seq(S)] : \A i \in D : i <= n =>
                        g[i] = IF i = 1 THEN ss[i] ELSE g[i - 1] \o ss[i]
           T == {n \in Nat : Upto(n)}
<1>1. N \in Nat /\ \A i \in D : ss[i] \in Seq(S)
  BY ElementOfSeq, LenProperties
<1>2. 0 \in T
  <2>1. [i \in D |-> <<>>] \in [D -> Seq(S)]
    BY EmptySeq
  <2>2. \A i \in D : ~(i <= 0)
    BY <1>1
  <2> HIDE DEF D
  <2> QED
    BY <2>1, <2>2
<1>3. ASSUME NEW n \in Nat, n \in T PROVE n + 1 \in T
  <2>1. PICK g \in [D -> Seq(S)] : \A i \in D : i <= n =>
          g[i] = IF i = 1 THEN ss[i] ELSE g[i - 1] \o ss[i]
    BY <1>3
  <2>2. CASE n + 1 \notin D
    <3>1. \A i \in D : i <= n + 1 => i <= n
      BY <1>1, <2>2
    <3>2. n + 1 \in Nat
      OBVIOUS
    <3>3. \A i \in D : i <= n + 1 => g[i] = IF i = 1 THEN ss[i] ELSE g[i - 1] \o ss[i]
      BY <2>1, <3>1
    <3> HIDE DEF D
    <3>4. Upto(n + 1)
      BY <3>3
    <3> HIDE DEF Upto
    <3> QED
      BY <3>2, <3>4
  <2>3. CASE n + 1 \in D
    <3> DEFINE m == n + 1
               v == IF m = 1 THEN ss[m] ELSE g[m - 1] \o ss[m]
               h == [g EXCEPT ![m] = v]
    <3>1. v \in Seq(S)
      <4>1. CASE m = 1
        BY <1>1, <2>3, <4>1
      <4>2. CASE m # 1
        <5>1. m - 1 \in D
          BY <1>1, <2>3, <4>2
        <5>2. g[m - 1] \in Seq(S) /\ ss[m] \in Seq(S)
          BY <1>1, <2>3, <5>1
        <5> QED
          BY <4>2, <5>2, ConcatProperties
      <4> QED
        BY <4>1, <4>2
    <3>2. h \in [D -> Seq(S)] /\ h[m] = v /\ \A i \in D : i # m => h[i] = g[i]
      BY <2>3, <3>1
    <3>3. ASSUME NEW i \in D, i <= m
          PROVE  h[i] = IF i = 1 THEN ss[i] ELSE h[i - 1] \o ss[i]
      <4>1. i # 1 => i - 1 \in D /\ i - 1 # m
        BY <1>1, <3>3
      <4>2. i # 1 => h[i - 1] = g[i - 1]
        BY <3>2, <4>1
      <4>3. CASE i = m
        BY <3>2, <4>2, <4>3
      <4>4. CASE i # m
        <5>1. i <= n
          BY <1>1, <3>3, <4>4
        <5> QED
          BY <2>1, <3>2, <4>2, <4>4, <5>1
      <4> QED
        BY <4>3, <4>4
    <3> HIDE DEF h, m, D
    <3>4. Upto(m)
      BY <3>2, <3>3
    <3>5. m \in Nat
      BY DEF m
    <3> QED
      BY <3>4, <3>5 DEF m
  <2> QED
    BY <2>2, <2>3
<1>4. Upto(N)
  <2> HIDE DEF Upto
  <2>1. Nat \subseteq T
    <3> HIDE DEF T
    <3> QED
      BY <1>2, <1>3, SetInduction
  <2> QED
    BY <1>1, <2>1
<1>5. PICK g \in [D -> Seq(S)] : \A i \in D : i <= N =>
        g[i] = IF i = 1 THEN ss[i] ELSE g[i - 1] \o ss[i]
  BY <1>4
<1>6. \A i \in D : g[i] = IF i = 1 THEN ss[i] ELSE g[i - 1] \o ss[i]
  <2>1. \A i \in D : i <= N
    BY <1>1
  <2> HIDE DEF D, N
  <2> QED
    BY <1>5, <2>1
<1>7. g = [i \in D |-> g[i]]
  OBVIOUS
<1>8. g = [i \in D |-> IF i = 1 THEN ss[i] ELSE g[i - 1] \o ss[i]]
  <2> DEFINE F(i) == IF i = 1 THEN ss[i] ELSE g[i - 1] \o ss[i]
             h == [i \in D |-> F(i)]
  <2> HIDE DEF D
  <2>1. \A i \in D : g[i] = F(i)
    BY <1>6
  <2> HIDE DEF F
  <2>2. DOMAIN h = D /\ DOMAIN g = D /\ \A i \in D : h[i] = g[i]
    BY <2>1
  <2>3. h = [i \in D |-> h[i]]
    BY <2>2
  <2>4. h = g
    BY <1>7, <2>2, <2>3
  <2> QED
    BY <2>4 DEF F
<1> QED
  BY <1>8 DEF Flatten

LEMMA FlattenTyped ==
  ASSUME NEW S, NEW ss \in Seq(Seq(S))
  PROVE  FlattenSeq(ss) \in Seq(S)
<1>1. Len(ss) \in Nat /\ \A i \in 1 .. Len(ss) : ss[i] \in Seq(S)
  BY ElementOfSeq, LenProperties
<1>2. CASE Len(ss) = 0
  BY <1>2, EmptySeq DEF FlattenSeq
<1>3. CASE Len(ss) # 0
  <2> DEFINE f == CHOOSE g : g = Flatten(ss, g)
             T == {n \in Nat : n + 1 \in 1 .. Len(ss) => f[n + 1] \in Seq(S)}
  <2>1. f = Flatten(ss, f)
    BY FlattenExists
  <2>2. FlattenSeq(ss) = f[Len(ss)]
    BY <1>3, Zenon DEF FlattenSeq, Flatten
  <2> HIDE DEF f
  <2>3. \A i \in 1 .. Len(ss) : f[i] = IF i = 1 THEN ss[i] ELSE f[i - 1] \o ss[i]
    BY <2>1 DEF Flatten
  <2>4. 0 \in T
    BY <1>1, <2>3
  <2>5. ASSUME NEW n \in Nat, n \in T PROVE n + 1 \in T
    <3> SUFFICES ASSUME (n + 1) + 1 \in 1 .. Len(ss) PROVE f[(n + 1) + 1] \in Seq(S)
      OBVIOUS
    <3> DEFINE m == n + 1
    <3>1. m \in 1 .. Len(ss) /\ m + 1 \in 1 .. Len(ss) /\ m + 1 # 1 /\ (m + 1) - 1 = m
      BY <1>1
    <3>2. f[m] \in Seq(S) /\ ss[m + 1] \in Seq(S)
      BY <1>1, <2>5, <3>1
    <3>3. f[m + 1] = f[m] \o ss[m + 1]
      BY <2>3, <3>1
    <3> QED
      BY <3>2, <3>3, ConcatProperties
  <2>6. Nat \subseteq T
    <3> HIDE DEF T
    <3> QED
      BY <2>4, <2>5, SetInduction
  <2>7. Len(ss) - 1 \in Nat /\ (Len(ss) - 1) + 1 = Len(ss) /\ Len(ss) \in 1 .. Len(ss)
    BY <1>1, <1>3
  <2>8. f[(Len(ss) - 1) + 1] \in Seq(S)
    BY <2>6, <2>7
  <2> QED
    BY <2>2, <2>7, <2>8
<1> QED
  BY <1>2, <1>3

LEMMA InputTyped ==
  ASSUME TypeFile
  PROVE  Input \in Seq(Records) /\ Len(Input) \in Nat /\ DOMAIN Input = 1 .. Len(Input)
<1>1. files \in Seq(Seq(Records))
  BY DEF TypeFile
<1>2. Input \in Seq(Records)
  BY <1>1, FlattenTyped DEF Input
<1> QED
  BY <1>2, LenProperties
-----------------------------------------------------------------------------
(* Suffixes *)

LEMMA SuffixDef ==
  ASSUME NEW S, NEW s \in Seq(S), NEW t \in Seq(S)
  PROVE  IsSuffix(s, t) <=>
           Len(s) <= Len(t) /\ \A i \in 1 .. Len(s) : s[i] = t[i + (Len(t) - Len(s))]
<1> DEFINE a == Len(s)  b == Len(t)  u == Reverse(s)  v == Reverse(t)
<1>1. /\ a \in Nat /\ \A i \in 1 .. a : s[i] \in S
      /\ b \in Nat /\ \A i \in 1 .. b : t[i] \in S
  BY ElementOfSeq, LenProperties
<1>2. /\ u \in Seq(S) /\ Len(u) = a /\ \A i \in 1 .. a : u[i] = s[(a - i) + 1]
      /\ v \in Seq(S) /\ Len(v) = b /\ \A i \in 1 .. b : v[i] = t[(b - i) + 1]
  <2>1. ASSUME NEW w \in Seq(S)
        PROVE  /\ Reverse(w) \in Seq(S) /\ Len(Reverse(w)) = Len(w)
               /\ \A i \in 1 .. Len(w) : Reverse(w)[i] = w[(Len(w) - i) + 1]
    <3>1. Len(w) \in Nat /\ \A i \in 1 .. Len(w) : w[i] \in S
      BY ElementOfSeq, LenProperties
    <3>2. \A i \in 1 .. Len(w) : (Len(w) - i) + 1 \in 1 .. Len(w)
      BY <3>1
    <3>3. \A i \in 1 .. Len(w) : w[(Len(w) - i) + 1] \in S
      BY <3>1, <3>2
    <3> QED
      BY <3>1, <3>3, IsASeq DEF Reverse
  <2> QED
    BY <2>1
<1>3. IsSuffix(s, t) <=> a <= b /\ SubSeq(u, 1, a) = SubSeq(v, 1, a)
  BY <1>2 DEF IsSuffix, IsPrefix
<1> SUFFICES ASSUME a <= b
             PROVE  SubSeq(u, 1, a) = SubSeq(v, 1, a) <=> \A i \in 1 .. a : s[i] = t[i + (b - a)]
  BY <1>3
<1> HIDE DEF a, b, u, v
<1>4. ASSUME NEW w \in Seq(S), a <= Len(w)
      PROVE  /\ SubSeq(w, 1, a) \in Seq(S) /\ Len(SubSeq(w, 1, a)) = a
             /\ \A i \in 1 .. a : SubSeq(w, 1, a)[i] = w[i]
  <2>1. Len(w) \in Nat /\ \A i \in 1 .. a : w[i] \in S
    BY <1>1, <1>4, ElementOfSeq, LenProperties
  <2>2. /\ SubSeq(w, 1, a) \in Seq(S)
        /\ Len(SubSeq(w, 1, a)) = IF 1 <= a THEN a - 1 + 1 ELSE 0
        /\ \A i \in 1 .. a - 1 + 1 : SubSeq(w, 1, a)[i] = w[1 + i - 1]
    BY <1>1, <2>1, SubSeqProperties
  <2> QED
    BY <1>1, <2>2
<1>5. /\ SubSeq(u, 1, a) \in Seq(S) /\ Len(SubSeq(u, 1, a)) = a
      /\ \A i \in 1 .. a : SubSeq(u, 1, a)[i] = s[(a - i) + 1]
  BY <1>1, <1>2, <1>4
<1>6. /\ SubSeq(v, 1, a) \in Seq(S) /\ Len(SubSeq(v, 1, a)) = a
      /\ \A i \in 1 .. a : SubSeq(v, 1, a)[i] = t[(b - i) + 1]
  BY <1>1, <1>2, <1>4
<1>7. SubSeq(u, 1, a) = SubSeq(v, 1, a) <=> \A i \in 1 .. a : s[(a - i) + 1] = t[(b - i) + 1]
  BY <1>5, <1>6, SeqEqual
<1>8. ASSUME \A i \in 1 .. a : s[(a - i) + 1] = t[(b - i) + 1], NEW i \in 1 .. a
      PROVE  s[i] = t[i + (b - a)]
  <2>1. PICK j : j = (a - i) + 1
    OBVIOUS
  <2>2. j \in 1 .. a
    BY <1>1, <2>1
  <2>3. (a - j) + 1 = i /\ (b - j) + 1 = i + (b - a)
    BY <1>1, <2>1
  <2> QED
    BY <1>8, <2>2, <2>3
<1>9. ASSUME \A i \in 1 .. a : s[i] = t[i + (b - a)], NEW i \in 1 .. a
      PROVE  s[(a - i) + 1] = t[(b - i) + 1]
  <2>1. (a - i) + 1 \in 1 .. a /\ ((a - i) + 1) + (b - a) = (b - i) + 1
    BY <1>1
  <2> QED
    BY <1>9, <2>1
<1> QED
  BY <1>7, <1>8, <1>9

LEMMA SuffixEmpty == ASSUME NEW S, NEW t \in Seq(S) PROVE IsSuffix(<<>>, t)
<1>1. PICK s : s = <<>>
  OBVIOUS
<1>2. s \in Seq(S) /\ Len(s) = 0 /\ Len(t) \in Nat /\ \A i : i \notin 1 .. 0
  BY <1>1, EmptySeq, LenProperties
<1>3. Len(s) <= Len(t) /\ \A i \in 1 .. Len(s) : s[i] = t[i + (Len(t) - Len(s))]
  BY <1>2
<1>4. IsSuffix(s, t)
  BY <1>2, <1>3, SuffixDef
<1> QED
  BY <1>1, <1>4

LEMMA SuffixAppend ==
  ASSUME NEW S, NEW s \in Seq(S), NEW t \in Seq(S), NEW e \in S, IsSuffix(s, t)
  PROVE  IsSuffix(Append(s, e), Append(t, e))
<1> DEFINE a == Len(s)  b == Len(t)  u == Append(s, e)  v == Append(t, e)
<1>1. a \in Nat /\ b \in Nat
  BY LenProperties
<1>2. a <= b /\ \A i \in 1 .. a : s[i] = t[i + (b - a)]
  BY SuffixDef
<1>3. /\ u \in Seq(S) /\ Len(u) = a + 1 /\ u[a + 1] = e
      /\ \A i \in 1 .. a : u[i] = s[i]
  BY AppendProperties
<1>4. /\ v \in Seq(S) /\ Len(v) = b + 1 /\ v[b + 1] = e
      /\ \A i \in 1 .. b : v[i] = t[i]
  BY AppendProperties
<1> HIDE DEF a, b, u, v
<1>5. ASSUME NEW i \in 1 .. a + 1 PROVE u[i] = v[i + ((b + 1) - (a + 1))]
  <2>1. CASE i = a + 1
    <3>1. i + ((b + 1) - (a + 1)) = b + 1
      BY <1>1, <2>1
    <3> QED
      BY <1>3, <1>4, <2>1, <3>1
  <2>2. CASE i # a + 1
    <3>1. i \in 1 .. a /\ i + ((b + 1) - (a + 1)) = i + (b - a) /\ i + (b - a) \in 1 .. b
      BY <1>1, <1>2, <2>2
    <3> QED
      BY <1>2, <1>3, <1>4, <3>1
  <2> QED
    BY <2>1, <2>2
<1>6. a + 1 <= b + 1
  BY <1>1, <1>2
<1>7. IsSuffix(u, v)
  BY <1>3, <1>4, <1>5, <1>6, SuffixDef
<1> QED
  BY <1>7 DEF u, v

LEMMA ConcatAppend ==
  ASSUME NEW S, NEW s \in Seq(S), NEW t \in Seq(S), NEW e \in S
  PROVE  s \o Append(t, e) = Append(s \o t, e)
<1>1. Append(t, e) = t \o <<e>> /\ <<e>> \in Seq(S) /\ s \o t \in Seq(S)
  BY AppendIsConcat, ConcatProperties
<1>2. Append(s \o t, e) = (s \o t) \o <<e>>
  BY <1>1, AppendIsConcat
<1>3. (s \o t) \o <<e>> = s \o (t \o <<e>>)
  BY <1>1, ConcatAssociative
<1> QED
  BY <1>1, <1>2, <1>3
-----------------------------------------------------------------------------
(* A step of a thread *)

LEMMA RolesTyped ==
  ASSUME TypeFile
  PROVE  /\ Len(files) \in Nat /\ Len(Roles) \in Nat /\ DOMAIN Roles = 1 .. Len(Roles)
         /\ Tracing => Thread \in DOMAIN Roles /\ Role \in {"tx", "rx", "sw"}
<1>1. Len(files) \in Nat
  BY LenProperties DEF TypeFile
<1>2. /\ Len(Roles) \in Nat /\ DOMAIN Roles = 1 .. Len(Roles)
      /\ \A n \in 1 .. Len(Roles) : Roles[n] \in {"tx", "rx", "sw"}
  BY TraceAssumption, ElementOfSeq, LenProperties
<1> QED
  BY <1>1, <1>2 DEF Tracing, Role

LEMMA RecordTyped ==
  ASSUME TypeFile, Tracing, NEW k \in Probes
  PROVE  NewRecord(k) \in Records
<1>1. Thread \in DOMAIN Roles /\ Role \in {"tx", "rx", "sw"}
  BY RolesTyped
<1>2. /\ LocOf["tx"] = 0 /\ LocOf["rx"] = 1 /\ LocOf["sw"] = loc /\ loc \in 0 .. 255
      /\ TypeOf["tx"] = "timespec" /\ TypeOf["rx"] = "timespec" /\ TypeOf["sw"] = "cycles"
  BY DEF LocOf, TypeOf, TypeFile
<1>3. came \in Nat /\ Now \in Nat
  BY LenProperties DEF TypeFile, Now
<1>4. LocOf[Role] \in 0 .. 255 /\ TypeOf[Role] \in {"cycles", "timespec"}
  BY <1>1, <1>2
<1> QED
  BY <1>1, <1>3, <1>4 DEF NewRecord, Records

LEMMA KeptTyped ==
  ASSUME FileInv
  PROVE  /\ file \in Seq(Records) /\ cache \in Seq(Records) /\ captured \in Seq(Records)
         /\ file \o cache \in Seq(Records) /\ IsSuffix(file \o cache, captured)
<1>1. /\ file \in Seq(Records) /\ cache \in Seq(Records) /\ captured \in Seq(Records)
      /\ IsSuffix(file \o cache, captured)
  BY DEF FileInv, TypeFile, CapturedKept
<1> QED
  BY <1>1, ConcatProperties

\* What a step does to the records kept: nothing, ...
KeptSame ==
  /\ file' \in Seq(Records) /\ cache' \in Seq(Records) /\ Len(cache') < CacheSize
  /\ captured' \in Seq(Records)
  /\ IsSuffix(file' \o cache', captured')
  /\ Tracing /\ Role # "sw" => cache' = <<>>
  /\ OpenInv'
  /\ tid' \in {"new", "known", "failed"}

\* ... or a record is added.
LEMMA RecordKept ==
  ASSUME FileInv, Tracing, NEW k \in Probes, RecordToCache(k) \/ OpenFails(k)
  PROVE  KeptSame
<1>1. PICK r, c : r = NewRecord(k) /\ c = Append(cache, r)
  OBVIOUS
<1>2. /\ file \in Seq(Records) /\ cache \in Seq(Records) /\ captured \in Seq(Records)
      /\ file \o cache \in Seq(Records) /\ IsSuffix(file \o cache, captured)
      /\ r \in Records /\ CacheSize \in Nat \ {0}
  BY <1>1, KeptTyped, RecordTyped, TraceAssumption DEF FileInv
<1>3. c \in Seq(Records) /\ Len(c) \in Nat /\ Append(captured, r) \in Seq(Records)
  BY <1>1, <1>2, AppendProperties, LenProperties
<1>4. <<>> \in Seq(Records) /\ Len(<<>>) = 0
  BY EmptySeq
<1>5. CASE RecordToCache(k)
  <2>1. tid' = "known" /\ captured' = Append(captured, r) /\ Store(c)
    BY <1>1, <1>5 DEF RecordToCache
  <2>2. /\ file \o c = Append(file \o cache, r)
        /\ IsSuffix(Append(file \o cache, r), Append(captured, r))
    <3>1. PICK kept : kept = file \o cache
      OBVIOUS
    <3>2. IsSuffix(Append(kept, r), Append(captured, r))
      BY <1>2, <3>1, SuffixAppend
    <3>3. file \o Append(cache, r) = Append(file \o cache, r)
      BY <1>2, ConcatAppend
    <3> QED
      BY <1>1, <3>1, <3>2, <3>3
  <2>3. file \o c \in Seq(Records)
    BY <1>2, <1>3, ConcatProperties
  <2>4. CASE file' = file \o c /\ cache' = <<>>
    <3>1. file' \o cache' = file \o c
      BY <2>3, <2>4, ConcatEmptySeq
    <3>2. Len(cache') < CacheSize
      BY <1>2, <1>4, <2>4
    <3> QED
      BY <1>3, <1>4, <2>1, <2>2, <2>3, <2>4, <3>1, <3>2 DEF KeptSame, OpenInv
  <2>5. CASE file' = file /\ cache' = c /\ Role = "sw" /\ ~(Len(c) >= CacheSize)
    <3>1. Len(cache') < CacheSize
      BY <1>2, <1>3, <2>5
    <3> QED
      BY <1>2, <1>3, <2>1, <2>2, <2>5, <3>1 DEF KeptSame, OpenInv
  <2> QED
    BY <2>1, <2>4, <2>5 DEF Store, FlushIfFull, Flush
<1>6. CASE OpenFails(k)
  <2>1. /\ tid # "known" /\ tid' = "failed" /\ captured' = Append(captured, r)
        /\ file' = file /\ cache' = cache
    BY <1>1, <1>6 DEF OpenFails
  <2>2. file = <<>> /\ cache = <<>>
    BY <2>1 DEF FileInv, OpenInv
  <2>3. file' \o cache' = <<>>
    BY <1>4, <2>1, <2>2, ConcatEmptySeq
  <2>4. IsSuffix(<<>>, captured')
    BY <1>3, <2>1, SuffixEmpty
  <2>5. Len(cache') < CacheSize
    BY <1>2, <1>4, <2>1, <2>2
  <2> QED
    BY <1>3, <1>4, <2>1, <2>2, <2>3, <2>4, <2>5 DEF KeptSame, OpenInv
<1> QED
  BY <1>5, <1>6

LEMMA NothingKept ==
  ASSUME FileInv, UNCHANGED <<file, cache, captured>>,
         tid' \in {"new", "known", "failed"}, tid' = tid \/ tid # "known"
  PROVE  KeptSame
<1>1. file' = file /\ cache' = cache /\ captured' = captured
  OBVIOUS
<1> QED
  BY <1>1, KeptTyped DEF KeptSame, FileInv, TypeFile, CapturedKept, OpenInv

LEMMA FileStep ==
  ASSUME FileInv, TraceStep
  PROVE  FileInv'
<1>1. /\ Len(files) \in Nat /\ Len(Roles) \in Nat /\ DOMAIN Roles = 1 .. Len(Roles)
      /\ files \in Seq(Seq(Records)) /\ Len(files) <= Len(Roles)
      /\ batch \in Seq(Probes \cup {Plain}) /\ came \in Nat /\ loc \in 0 .. 255
  BY RolesTyped DEF FileInv, TypeFile
\* What is left to show of a step that a thread goes on after.
<1>2. ASSUME KeptSame, files' = files, batch' \in Seq(Probes \cup {Plain}), came' \in Nat,
             loc' \in 0 .. 255
      PROVE  FileInv'
  <2>1. TypeFile'
    BY <1>1, <1>2 DEF TypeFile, KeptSame
  <2>2. CapturedKept' /\ OpenInv'
    BY <1>2 DEF CapturedKept, KeptSame, Tracing, Role, Thread
  <2> QED
    BY <2>1, <2>2 DEF FileInv
<1>3. /\ batch # <<>> => Head(batch) \in Probes \cup {Plain}
                         /\ Tail(batch) \in Seq(Probes \cup {Plain})
      /\ <<>> \in Seq(Probes \cup {Plain})
  BY <1>1, HeadTailProperties, EmptySeq
<1>4. tid \in {"new", "known", "failed"} /\ Len(captured) \in Nat
  BY LenProperties DEF FileInv, TypeFile
<1>5. ASSUME NEW k \in Probes, RecordTx(k) PROVE FileInv'
  <2>1. KeptSame
    BY <1>5, RecordKept DEF RecordTx
  <2>2. files' = files /\ batch' = batch /\ came' = came /\ loc' = loc
    BY <1>5 DEF RecordTx, callVars
  <2> QED
    BY <1>1, <1>2, <2>1, <2>2
<1>6. CASE Receive
  <2>1. /\ files' = files /\ tid' = tid /\ cache' = cache /\ file' = file
        /\ captured' = captured /\ came' = Now
        /\ loc' \in (IF Role = "sw" THEN Locations ELSE {loc})
    BY <1>6 DEF Receive
  <2>2. PICK n \in 1 .. MaxBatch : batch' \in [1 .. n -> Probes \cup {Plain}]
    BY <1>6 DEF Receive
  <2>3. batch' \in Seq(Probes \cup {Plain})
    BY <2>2, TraceAssumption
  <2>4. KeptSame
    BY <1>4, <2>1, NothingKept
  <2> QED
    BY <1>1, <1>2, <1>4, <2>1, <2>3, <2>4, TraceAssumption DEF Now
<1>7. CASE HandlerFails \/ HandlerOpens
  <2>1. /\ files' = files /\ tid = "new" /\ tid' \in {"failed", "known"} /\ cache' = cache
        /\ file' = file /\ captured' = captured /\ came' = came /\ loc' = loc
        /\ batch' \in {<<>>, batch}
    BY <1>7 DEF HandlerFails, HandlerOpens, callVars
  <2>2. KeptSame
    BY <2>1, NothingKept
  <2> QED
    BY <1>1, <1>2, <1>3, <2>1, <2>2
<1>8. CASE SkipPacket
  <2>1. /\ files' = files /\ tid' = tid /\ cache' = cache /\ batch # <<>>
        /\ file' = file /\ captured' = captured /\ came' = came /\ loc' = loc
        /\ batch' = Tail(batch)
    BY <1>8 DEF SkipPacket, InLoop
  <2>2. KeptSame
    BY <1>4, <2>1, NothingKept
  <2> QED
    BY <1>1, <1>2, <1>3, <2>1, <2>2
<1>9. CASE ReadFails
  <2>1. /\ files' = files /\ tid' = tid /\ cache' = <<>> /\ batch # <<>> /\ Tracing /\ Role = "rx"
        /\ file' = file \o cache /\ captured' = captured /\ came' = came /\ loc' = loc
        /\ batch' = Tail(batch)
    BY <1>9 DEF ReadFails, InLoop, Flush
  <2>2. cache = <<>>
    BY <2>1 DEF FileInv, CapturedKept
  <2>3. file' = file
    BY <2>1, <2>2, KeptTyped, ConcatEmptySeq
  <2>4. KeptSame
    BY <1>4, <2>1, <2>2, <2>3, NothingKept
  <2> QED
    BY <1>1, <1>2, <1>3, <2>1, <2>4
<1>10. CASE RecordRx
  <2>1. /\ files' = files /\ Tracing /\ batch # <<>> /\ Head(batch) \in Probes
        /\ came' = came /\ loc' = loc
        /\ batch' = Tail(batch)
        /\ RecordToCache(Head(batch)) \/ OpenFails(Head(batch))
    BY <1>3, <1>10 DEF RecordRx, InLoop
  <2>2. KeptSame
    BY <2>1, RecordKept
  <2> QED
    BY <1>1, <1>2, <1>3, <2>1, <2>2
<1>11. CASE EndThread
  <2>1. PICK n \in 0 .. Len(file) : files' = Append(files, SubSeq(file, 1, n))
    BY <1>11 DEF EndThread
  <2>2. /\ tid' = "new" /\ cache' = <<>> /\ file' = <<>> /\ batch' = <<>> /\ came' = 0 /\ loc' = 0
        /\ captured' = <<>> /\ Tracing
    BY <1>11 DEF EndThread
  <2>3. SubSeq(file, 1, n) \in Seq(Records)
    <3>1. file \in Seq(Records) /\ Len(file) \in Nat
      BY LenProperties DEF FileInv, TypeFile
    <3>2. \A m \in 1 .. n : file[m] \in Records
      BY <3>1, ElementOfSeq
    <3> QED
      BY <3>1, <3>2, SubSeqProperties
  <2>4. files' \in Seq(Seq(Records)) /\ Len(files') = Len(files) + 1
    BY <1>1, <2>1, <2>3, AppendProperties
  <2>5. Len(files') <= Len(Roles)
    BY <1>1, <2>2, <2>4 DEF Tracing, Thread
  <2>6. /\ <<>> \in Seq(Records) /\ Len(<<>>) = 0 /\ <<>> \o <<>> = <<>>
        /\ IsSuffix(<<>>, <<>>)
    BY EmptySeq, ConcatEmptySeq, SuffixEmpty
  <2>7. TypeFile'
    BY <1>3, <2>2, <2>4, <2>5, <2>6, TraceAssumption DEF TypeFile
  <2>8. CapturedKept' /\ OpenInv'
    BY <2>2, <2>6 DEF CapturedKept, OpenInv
  <2> QED
    BY <2>7, <2>8 DEF FileInv
<1> QED
  BY <1>5, <1>6, <1>7, <1>8, <1>9, <1>10, <1>11 DEF TraceStep
-----------------------------------------------------------------------------
(* The last timestamp of a key at a location *)

\* A record of another key or location, or one that is rejected, changes nothing.
LEMMA StampOther ==
  ASSUME NEW s, NEW ks, NEW kt, NEW k, NEW l, NEW a \in Nat, NEW R,
         \A n \in 1 .. a : kt[n] = ks[n],
         kt[a + 1] # k \/ s[a + 1].loc # l
  PROVE  StampAt(s, kt, k, l, a + 1, R) = StampAt(s, ks, k, l, a, R)
<1>1. 1 .. a + 1 = (1 .. a) \cup {a + 1}
  OBVIOUS
<1>2. PlacesOf(s, kt, k, l, a + 1, R) = PlacesOf(s, ks, k, l, a, R)
  BY <1>1 DEF PlacesOf
<1> QED
  BY <1>2 DEF StampAt

LEMMA StampRejected ==
  ASSUME NEW s, NEW ks, NEW kt, NEW k, NEW l, NEW a \in Nat, NEW R, NEW Q,
         \A n \in 1 .. a : kt[n] = ks[n] /\ (n \in Q <=> n \in R),
         a + 1 \in Q
  PROVE  StampAt(s, kt, k, l, a + 1, Q) = StampAt(s, ks, k, l, a, R)
<1>1. 1 .. a + 1 = (1 .. a) \cup {a + 1} /\ a + 1 \notin 1 .. a
  OBVIOUS
<1>2. PlacesOf(s, kt, k, l, a + 1, Q) = PlacesOf(s, ks, k, l, a, R)
  BY <1>1 DEF PlacesOf
<1> QED
  BY <1>2 DEF StampAt

LEMMA StampNew ==
  ASSUME NEW s, NEW ks, NEW k, NEW l, NEW a \in Nat, NEW R, a + 1 \notin R,
         ks[a + 1] = k, s[a + 1].loc = l
  PROVE  StampAt(s, ks, k, l, a + 1, R) = StampOf(s[a + 1])
<1> DEFINE P == PlacesOf(s, ks, k, l, a + 1, R)
<1>1. a + 1 \in P /\ \A n \in P : n \in 1 .. a + 1
  BY DEF PlacesOf
<1> HIDE DEF P
<1>2. \A n \in P : a + 1 >= n
  BY <1>1
<1>3. \A n \in P : (\A m \in P : n >= m) => n = a + 1
  <2> SUFFICES ASSUME NEW n \in P, \A m \in P : n >= m PROVE n = a + 1
    OBVIOUS
  <2>1. n \in 1 .. a + 1 /\ n >= a + 1
    BY <1>1
  <2> QED
    BY <2>1
<1>4. Max(P) = a + 1
  BY <1>1, <1>2, <1>3 DEF Max
<1> QED
  BY <1>1, <1>4 DEF StampAt, P

LEMMA StampNone ==
  ASSUME NEW s, NEW ks, NEW k, NEW l, NEW a, NEW R,
         \A n \in 1 .. a : ks[n] = k => n \in R
  PROVE  StampAt(s, ks, k, l, a, R) = NoStamp
BY DEF StampAt, PlacesOf

-----------------------------------------------------------------------------
(* Steps before and after the reading *)

\* With no record read, there is nothing to say of traces.
NoneRead ==
  /\ at = 0 /\ rejected = {} /\ maxLoc = 0 /\ map = [k \in Keys |-> {}]
  /\ lines = <<>> /\ phase \notin {"print", "done", "overrun"}

LEMMA NothingRead == NoneRead => ReadInv /\ RowsHold /\ StampInv /\ RejectInv /\ LinesInv
<1> SUFFICES ASSUME NoneRead PROVE ReadInv /\ RowsHold /\ StampInv /\ RejectInv /\ LinesInv
  OBVIOUS
<1> USE DEF NoneRead
<1>1. \A n : n \notin 1 .. at
  OBVIOUS
<1>2. Len(lines) = 0 /\ \A n : n \notin 1 .. 0
  BY EmptySeq
<1>3. lines \in Seq([key : Keys, stamps : [0 .. maxLoc -> Shown]])
  BY EmptySeq
<1>4. StampInv
  BY DEF StampInv
<1>5. RejectInv
  BY <1>1 DEF RejectInv
<1>6. LinesInv
  BY <1>2, <1>3 DEF LinesInv
<1>7. ReadInv /\ RowsHold
  BY <1>1 DEF ReadInv, RowsHold
<1> QED
  BY <1>4, <1>5, <1>6, <1>7

LEMMA InitIInv == Init => IInv
<1> SUFFICES ASSUME Init PROVE IInv
  OBVIOUS
<1>1. /\ files = <<>> /\ tid = "new" /\ cache = <<>> /\ file = <<>> /\ batch = <<>> /\ came = 0
      /\ loc = 0 /\ keys = <<>>
      /\ captured = <<>> /\ phase = "trace" /\ at = 0 /\ map = [k \in Keys |-> {}] /\ ret = "ok"
      /\ data = [n \in Indices |-> [l \in Locs |-> NoStamp]]
      /\ ring = <<>> /\ maxLoc = 0 /\ lines = <<>> /\ rejected = {}
  BY DEF Init, FileInit, Table!Init
<1>2. TypeFile
  <2>1. /\ files \in Seq(Seq(Records)) /\ Len(files) = 0 /\ Len(Roles) \in Nat
        /\ <<>> \in Seq(Records) /\ <<>> \in Seq(Probes \cup {Plain}) /\ Len(cache) = 0
    BY <1>1, EmptySeq, LenProperties, TraceAssumption
  <2> QED
    BY <1>1, <2>1, TraceAssumption DEF TypeFile
<1>3. FileInv
  <2>1. <<>> \o <<>> = <<>> /\ IsSuffix(<<>>, <<>>)
    BY EmptySeq, ConcatEmptySeq, SuffixEmpty
  <2> QED
    BY <1>1, <1>2, <2>1 DEF FileInv, CapturedKept, OpenInv
<1>4. TypeOK
  <2>1. at \in 0 .. Len(Input)
    BY <1>1, <1>2, InputTyped
  <2>2. data \in [Indices -> [Locs -> Stamps]]
    BY <1>1 DEF NoStamp, Stamps
  <2>3. ring \in Seq(Indices) /\ keys \in Seq(Keys) /\ Len(keys) = at
    BY <1>1, EmptySeq
  <2> QED
    BY <1>1, <1>2, <2>1, <2>2, <2>3 DEF TypeOK, Stamps
<1>5. IndicesUsedOnce
  <2>1. \A n : n \notin DOMAIN ring
    BY <1>1
  <2> QED
    BY <1>1, <2>1 DEF IndicesUsedOnce
<1>6. PhaseInv
  BY <1>1 DEF PhaseInv
<1> QED
  BY <1>1, <1>3, <1>4, <1>5, <1>6, NothingRead DEF IInv, DumpInv, NoneRead

LEMMA TraceKept == IInv /\ Trace => IInv'
<1> SUFFICES ASSUME IInv, Trace PROVE IInv'
  OBVIOUS
<1>1. FileInv'
  BY FileStep DEF IInv, Trace
<1>2. /\ phase = "trace" /\ phase' = phase /\ at' = at /\ map' = map /\ ret' = ret /\ data' = data
      /\ ring' = ring /\ maxLoc' = maxLoc /\ lines' = lines /\ rejected' = rejected
      /\ keys' = keys
  BY DEF Trace, dumpVars, readVars, tableVars
<1>3. /\ at = 0 /\ rejected = {} /\ map = [k \in Keys |-> {}] /\ lines = <<>> /\ maxLoc = 0
      /\ keys = <<>>
  BY <1>2 DEF IInv, DumpInv, PhaseInv, LinesInv
<1>4. (Input \in Seq(Records) /\ Len(Input) \in Nat)'
  <2>1. (TypeFile => Input \in Seq(Records) /\ Len(Input) \in Nat)'
    BY InputTyped, PTL
  <2> QED
    BY <1>1, <2>1 DEF FileInv
<1>5. TypeOK'
  <2>1. at' \in 0 .. Len(Input')
    BY <1>2, <1>3, <1>4
  <2> QED
    BY <1>1, <1>2, <2>1 DEF IInv, TypeOK, FileInv
<1>6. IndicesUsedOnce'
  BY <1>2 DEF IInv, DumpInv, IndicesUsedOnce
<1>7. PhaseInv'
  BY <1>2, <1>3 DEF PhaseInv
<1>8. (ReadInv /\ RowsHold /\ StampInv /\ RejectInv /\ LinesInv)'
  <2>1. (NoneRead => ReadInv /\ RowsHold /\ StampInv /\ RejectInv /\ LinesInv)'
    BY NothingRead, PTL
  <2> QED
    BY <1>2, <1>3, <2>1 DEF NoneRead
<1> QED
  BY <1>1, <1>5, <1>6, <1>7, <1>8 DEF IInv, DumpInv

\* The steps that only change the phase.
LEMMA PhaseKept ==
  ASSUME IInv, UNCHANGED <<fileVars, readVars, lines>>,
         phase' \in {"trace", "init", "read", "print", "done", "failed", "overrun"},
         PhaseInv', RowsHold', phase' \notin {"print", "done", "overrun"} => lines = <<>>,
         phase' = "done" => Unprinted = {}
  PROVE  IInv'
<1>1. /\ at' = at /\ map' = map /\ ret' = ret /\ data' = data /\ files' = files
      /\ ring' = ring /\ maxLoc' = maxLoc /\ lines' = lines /\ rejected' = rejected
      /\ tid' = tid /\ cache' = cache /\ file' = file /\ batch' = batch /\ came' = came
      /\ loc' = loc /\ captured' = captured /\ keys' = keys
  BY DEF fileVars, threadVars, callVars, readVars, tableVars
<1>2. Input' = Input
  BY <1>1 DEF Input
<1>3. FileInv'
  BY <1>1 DEF IInv, FileInv, TypeFile, CapturedKept, OpenInv, Tracing, Role, Thread
<1>4. TypeOK'
  BY <1>1, <1>2, <1>3 DEF IInv, TypeOK, FileInv
<1>5. IndicesUsedOnce'
  BY <1>1 DEF IInv, DumpInv, IndicesUsedOnce
<1>6. StampInv'
  BY <1>1, <1>2 DEF IInv, DumpInv, StampInv
<1>7. RejectInv'
  BY <1>1, <1>2 DEF IInv, DumpInv, RejectInv
<1>8. LinesInv'
  BY <1>1, <1>2 DEF IInv, DumpInv, LinesInv, Unprinted
<1>9. ReadInv'
  BY <1>1, <1>2 DEF IInv, DumpInv, ReadInv
<1> QED
  BY <1>3, <1>4, <1>5, <1>6, <1>7, <1>8, <1>9 DEF IInv, DumpInv

LEMMA OpenKept == IInv /\ (OpenFiles \/ DumpFails) => IInv'
<1> SUFFICES ASSUME IInv, OpenFiles \/ DumpFails PROVE IInv'
  OBVIOUS
<1>1. /\ phase \in {"trace", "init"} /\ phase' \in {"init", "failed"}
      /\ UNCHANGED <<fileVars, readVars, lines>>
  BY DEF OpenFiles, DumpFails
<1>2. lines = <<>>
  BY <1>1 DEF IInv, DumpInv, LinesInv
<1>3. PhaseInv' /\ RowsHold'
  BY <1>1 DEF IInv, DumpInv, PhaseInv, RowsHold, readVars, tableVars
<1> QED
  BY <1>1, <1>2, <1>3, PhaseKept

LEMMA InitTableKept == IInv /\ InitTable => IInv'
<1> SUFFICES ASSUME IInv, InitTable PROVE IInv'
  OBVIOUS
<1>1. /\ at' = at /\ map' = map /\ ret' = ret /\ data' = data /\ files' = files
      /\ ring' = FreeIndices /\ maxLoc' = maxLoc /\ lines' = lines /\ rejected' = rejected
      /\ tid' = tid /\ cache' = cache /\ file' = file /\ batch' = batch /\ came' = came
      /\ captured' = captured /\ loc' = loc /\ keys' = keys /\ phase = "init" /\ phase' = "read"
  BY DEF InitTable, fileVars, threadVars, callVars
<1>2. at = 0 /\ rejected = {} /\ map = [k \in Keys |-> {}] /\ lines = <<>> /\ maxLoc = 0
  BY <1>1 DEF IInv, DumpInv, PhaseInv, LinesInv
<1>3. Input' = Input
  BY <1>1 DEF Input
<1>4. FileInv'
  BY <1>1 DEF IInv, FileInv, TypeFile, CapturedKept, OpenInv, Tracing, Role, Thread
<1>5. /\ FreeIndices \in Seq(Indices) /\ DOMAIN FreeIndices = 1 .. TraceMax - 1
      /\ \A n \in 1 .. TraceMax - 1 : FreeIndices[n] = n - 1
  <2>1. TraceMax - 1 \in Nat /\ \A n \in 1 .. TraceMax - 1 : n - 1 \in Indices
    BY DumpAssumption DEF Indices
  <2> QED
    BY <2>1 DEF FreeIndices
<1>6. TypeOK'
  BY <1>1, <1>3, <1>4, <1>5 DEF IInv, TypeOK, FileInv
<1>7. IndicesUsedOnce'
  <2>1. \A k \in Keys : map'[k] = {}
    BY <1>1, <1>2
  <2>2. \A m, n \in DOMAIN ring' : ring'[n] = ring'[m] => m = n
    BY <1>1, <1>5, DumpAssumption
  <2> QED
    BY <2>1, <2>2 DEF IndicesUsedOnce
<1>8. PhaseInv'
  BY <1>1 DEF PhaseInv
<1>9. (ReadInv /\ RowsHold /\ StampInv /\ RejectInv /\ LinesInv)'
  <2>1. (NoneRead => ReadInv /\ RowsHold /\ StampInv /\ RejectInv /\ LinesInv)'
    BY NothingRead, PTL
  <2> QED
    BY <1>1, <1>2, <2>1 DEF NoneRead
<1> QED
  BY <1>4, <1>6, <1>7, <1>8, <1>9 DEF IInv, DumpInv

LEMMA EndsKept == IInv /\ (ReadEnds \/ PrintEnds) => IInv'
<1> SUFFICES ASSUME IInv, ReadEnds \/ PrintEnds PROVE IInv'
  OBVIOUS
<1>1. /\ phase' \in {"print", "done"} /\ (phase' = "done" => Unprinted = {})
      /\ UNCHANGED <<fileVars, readVars, lines>>
      /\ phase = "print" \/ at = Len(Input)
  BY DEF ReadEnds, PrintEnds
<1>2. at = Len(Input)
  BY <1>1 DEF IInv, DumpInv, PhaseInv
<1>3. Input' = Input
  BY <1>1 DEF Input, fileVars
<1>4. PhaseInv' /\ RowsHold'
  BY <1>1, <1>2, <1>3 DEF PhaseInv, RowsHold, readVars
<1> QED
  BY <1>1, <1>4, PhaseKept

\* What was written or printed outside a row had a location that has no place in it.
LEMMA OverrunKept ==
  ASSUME IInv,
         \/ \E r, k : WriteOverruns(r, k)
         \/ \E k : PrintOverruns(k)
  PROVE  IInv'
<1>1. phase' = "overrun" /\ UNCHANGED <<fileVars, readVars, lines>>
  BY DEF WriteOverruns, PrintOverruns
<1>2. /\ Len(Input) \in Nat /\ DOMAIN Input = 1 .. Len(Input) /\ at \in 0 .. Len(Input)
  BY InputTyped DEF IInv, TypeOK
<1>3. \E n \in DOMAIN Input : Input[n].loc \notin Locs
  <2>1. CASE \E r, k : WriteOverruns(r, k)
    <3>1. PICK r, k : WriteOverruns(r, k)
      BY <2>1
    <3>2. r = Input[at + 1] /\ at < Len(Input) /\ r.loc \notin Locs
      BY <3>1 DEF WriteOverruns, Writes, Comes
    <3>3. at + 1 \in DOMAIN Input
      BY <1>2, <3>2
    <3> QED
      BY <3>2, <3>3
  <2>2. CASE \E k : PrintOverruns(k)
    <3>1. maxLoc \notin Locs
      BY <2>2 DEF PrintOverruns
    <3>2. maxLoc # 0
      BY <3>1, DumpAssumption DEF Locs
    <3>3. PICK n \in 1 .. at : Input[n].loc = maxLoc
      BY <3>2 DEF IInv, DumpInv, ReadInv
    <3>4. n \in DOMAIN Input
      BY <1>2
    <3> QED
      BY <3>1, <3>3, <3>4
  <2> QED
    BY <2>1, <2>2
<1>4. Input' = Input
  BY <1>1 DEF Input, fileVars
<1>5. PhaseInv' /\ RowsHold'
  BY <1>1, <1>3, <1>4 DEF PhaseInv, RowsHold
<1> QED
  BY <1>1, <1>5, PhaseKept
-----------------------------------------------------------------------------
(* A record is read *)

LEMMA ReadFacts ==
  ASSUME IInv, NEW r, NEW q, Reads(r, q)
  PROVE  /\ phase = "read" /\ phase' = "read" /\ lines = <<>> /\ lines' = <<>>
         /\ at \in Nat /\ at' = at + 1 /\ Len(Input) \in Nat /\ at + 1 <= Len(Input)
         /\ r = Input[at + 1] /\ Input' = Input
         /\ q \in Keys /\ q[1] = r.probe /\ r.loc \in 0 .. 255 /\ StampOf(r) \in Stamps
         /\ maxLoc' \in 0 .. 255 /\ \A n \in 1 .. at + 1 : Input[n].loc <= maxLoc'
         /\ FileInv' /\ ReadInv'
<1>1. /\ phase = "read" /\ phase' = "read" /\ at < Len(Input) /\ r = Input[at + 1]
      /\ q \in Keys /\ q[1] = r.probe /\ keys' = Append(keys, q)
      /\ at' = at + 1 /\ maxLoc' = IF r.loc > maxLoc THEN r.loc ELSE maxLoc
      /\ files' = files /\ tid' = tid /\ cache' = cache /\ file' = file /\ batch' = batch
      /\ came' = came /\ loc' = loc /\ captured' = captured /\ lines' = lines
  BY DEF Reads, Comes, Columns, fileVars, threadVars, callVars
<1>2. Input \in Seq(Records) /\ Len(Input) \in Nat /\ at \in Nat
  <2>1. TypeFile /\ at \in 0 .. Len(Input)
    BY DEF IInv, TypeOK
  <2> QED
    BY <2>1, InputTyped
<1>3. at + 1 <= Len(Input) /\ at + 1 \in 1 .. Len(Input)
  BY <1>1, <1>2
<1>4. \A n \in 1 .. Len(Input) : Input[n] \in Records
  BY <1>2, ElementOfSeq
<1>5. r \in Records
  BY <1>1, <1>3, <1>4
<1>6. /\ r.loc \in 0 .. 255 /\ r.tid \in Nat /\ r.time \in Nat
      /\ r.type \in {"cycles", "timespec"}
  <2>1. DOMAIN Roles \subseteq Nat
    BY TraceAssumption, LenProperties
  <2> QED
    BY <1>5, <2>1 DEF Records
<1>7. StampOf(r) \in Stamps
  BY <1>6 DEF StampOf, Stamps
<1>8. maxLoc \in 0 .. 255 /\ (\A n \in 1 .. at : Input[n].loc <= maxLoc)
  BY DEF IInv, TypeOK, DumpInv, RejectInv
<1>9. maxLoc' \in 0 .. 255
  BY <1>1, <1>6, <1>8
<1>10. ASSUME NEW n \in 1 .. at + 1 PROVE Input[n].loc <= maxLoc'
  <2>1. r.loc \in Nat /\ maxLoc \in Nat /\ maxLoc' \in Nat
    BY <1>6, <1>8, <1>9
  <2>2. r.loc <= maxLoc' /\ maxLoc <= maxLoc'
    BY <1>1, <2>1
  <2>3. CASE n = at + 1
    BY <1>1, <2>2, <2>3
  <2>4. CASE n # at + 1
    <3>1. n \in 1 .. at /\ n \in 1 .. Len(Input)
      BY <1>2, <1>3, <2>4
    <3>2. Input[n].loc \in 0 .. 255
      BY <1>4, <3>1 DEF Records
    <3>3. Input[n].loc <= maxLoc
      BY <1>8, <3>1
    <3> QED
      BY <2>1, <2>2, <3>2, <3>3
  <2> QED
    BY <2>3, <2>4
<1>11. FileInv'
  BY <1>1 DEF IInv, FileInv, TypeFile, CapturedKept, OpenInv, Tracing, Role, Thread
<1>12. Input' = Input
  BY <1>1 DEF Input
<1>13. lines = <<>>
  BY <1>1 DEF IInv, DumpInv, LinesInv
<1>14. ReadInv'
  <2>1. /\ keys'[at + 1] = q /\ \A n \in 1 .. at : keys'[n] = keys[n]
    <3>1. keys \in Seq(Keys) /\ Len(keys) = at
      BY DEF IInv, TypeOK
    <3> QED
      BY <1>1, <3>1, AppendProperties
  <2>2. ASSUME NEW n \in 1 .. at + 1 PROVE keys'[n][1] = Input[n].probe
    <3>1. CASE n = at + 1
      BY <1>1, <2>1, <3>1
    <3>2. CASE n # at + 1
      <4>1. n \in 1 .. at
        BY <1>2, <3>2
      <4> QED
        BY <2>1, <4>1 DEF IInv, DumpInv, ReadInv
    <3> QED
      BY <3>1, <3>2
  <2>3. ASSUME maxLoc' # 0 PROVE \E n \in 1 .. at + 1 : Input[n].loc = maxLoc'
    <3>1. CASE maxLoc' = r.loc
      <4>1. at + 1 \in 1 .. at + 1
        BY <1>2
      <4> QED
        BY <1>1, <3>1, <4>1
    <3>2. CASE maxLoc' = maxLoc
      <4>1. PICK n \in 1 .. at : Input[n].loc = maxLoc
        BY <2>3, <3>2 DEF IInv, DumpInv, ReadInv
      <4>2. n \in 1 .. at + 1
        BY <1>2
      <4> QED
        BY <3>2, <4>1, <4>2
    <3> QED
      BY <1>1, <3>1, <3>2
  <2> QED
    BY <1>1, <1>12, <2>2, <2>3 DEF ReadInv
<1> QED
  BY <1>1, <1>2, <1>3, <1>6, <1>7, <1>9, <1>10, <1>11, <1>12, <1>13, <1>14

\* The key of the record joins those of the records before it.
LEMMA KeyFacts ==
  ASSUME IInv, NEW r, NEW q, Reads(r, q)
  PROVE  /\ Append(keys, q) \in Seq(Keys) /\ Len(Append(keys, q)) = at + 1
         /\ keys' = Append(keys, q)
         /\ Append(keys, q)[at + 1] = q
         /\ \A n \in 1 .. at : Append(keys, q)[n] = keys[n]
<1>1. keys \in Seq(Keys) /\ Len(keys) = at
  BY DEF IInv, TypeOK
<1>2. q \in Keys /\ keys' = Append(keys, q)
  BY DEF Reads, Comes
<1> QED
  BY <1>1, <1>2, AppendProperties

\* What is to be shown of the table, besides, after record r.
LEMMA RecordRead ==
  ASSUME IInv, NEW r, NEW q, Reads(r, q),
         map' \in [Keys -> SUBSET Indices], ret' \in {"ok", "ENOSPC"},
         data' \in [Indices -> [Locs -> Stamps]], ring' \in Seq(Indices),
         rejected' \subseteq 1 .. at + 1,
         IndicesUsedOnce', StampInv',
         \A k \in Keys : map'[k] = {} =>
           \A n \in 1 .. at + 1 : keys'[n] = k => n \in rejected',
         \A n \in rejected' : \A h \in 1 .. n - 1 : keys'[h] = keys'[n] => h \in rejected'
  PROVE  IInv'
<1>1. /\ phase' = "read" /\ lines' = <<>> /\ at \in Nat /\ at' = at + 1
      /\ Len(Input) \in Nat /\ at + 1 <= Len(Input) /\ Input' = Input /\ maxLoc' \in 0 .. 255
      /\ \A n \in 1 .. at + 1 : Input[n].loc <= maxLoc'
      /\ FileInv' /\ ReadInv'
  BY ReadFacts
<1>2. TypeOK'
  <2>1. at' \in 0 .. Len(Input')
    BY <1>1
  <2>2. rejected' \subseteq 1 .. at'
    BY <1>1
  <2>3. keys' \in Seq(Keys) /\ Len(keys') = at'
    BY <1>1, KeyFacts
  <2> QED
    BY <1>1, <2>1, <2>2, <2>3 DEF TypeOK, FileInv, Stamps
<1>3. RejectInv'
  BY <1>1 DEF RejectInv
<1>4. PhaseInv' /\ RowsHold'
  BY <1>1 DEF PhaseInv, RowsHold
<1>5. LinesInv'
  <2>1. Len(<<>>) = 0 /\ \A n : n \notin 1 .. 0
    BY EmptySeq
  <2>2. lines' \in Seq([key : Keys, stamps : [0 .. maxLoc' -> Shown]])
    BY <1>1, EmptySeq
  <2> QED
    BY <1>1, <2>1, <2>2 DEF LinesInv
<1> QED
  BY <1>1, <1>2, <1>3, <1>4, <1>5 DEF IInv, DumpInv

\* The places rejected up to now, and what they leave of a key without an index.
LEMMA RejectedFacts ==
  ASSUME IInv
  PROVE  /\ at \in Nat /\ rejected \subseteq 1 .. at /\ at + 1 \notin rejected
         /\ \A k \in Keys : map[k] = {} => \A n \in 1 .. at : keys[n] = k => n \in rejected
         /\ \A n \in rejected : \A h \in 1 .. n - 1 : keys[h] = keys[n] => h \in rejected
<1>1. at \in Nat /\ rejected \subseteq 1 .. at
  <2>1. TypeFile /\ at \in 0 .. Len(Input) /\ rejected \subseteq 1 .. at
    BY DEF IInv, TypeOK
  <2> QED
    BY <2>1, InputTyped
<1>2. at + 1 \notin 1 .. at
  BY <1>1
<1> QED
  BY <1>1, <1>2 DEF IInv, DumpInv, RejectInv

\* A record that is added leaves those that were rejected as they are.
LEMMA AcceptKept ==
  ASSUME IInv, NEW r, NEW q, Reads(r, q), rejected' = rejected,
         \A k \in Keys : map'[k] = {} => k # q /\ map[k] = {}
  PROVE  /\ rejected' \subseteq 1 .. at + 1
         /\ \A k \in Keys : map'[k] = {} =>
              \A n \in 1 .. at + 1 : keys'[n] = k => n \in rejected'
         /\ \A n \in rejected' : \A h \in 1 .. n - 1 : keys'[h] = keys'[n] => h \in rejected'
<1>1. PICK ks : ks = Append(keys, q)
  OBVIOUS
<1>2. keys' = ks /\ ks[at + 1] = q /\ \A n \in 1 .. at : ks[n] = keys[n]
  BY <1>1, KeyFacts
<1>3. /\ at \in Nat /\ rejected \subseteq 1 .. at
      /\ \A k \in Keys : map[k] = {} => \A n \in 1 .. at : keys[n] = k => n \in rejected
      /\ \A n \in rejected : \A h \in 1 .. n - 1 : keys[h] = keys[n] => h \in rejected
  BY RejectedFacts
<1>4. rejected' \subseteq 1 .. at + 1
  <2>1. \A n \in 1 .. at : n \in 1 .. at + 1
    BY <1>3
  <2> QED
    BY <1>3, <2>1
<1>5. ASSUME NEW k \in Keys, map'[k] = {}, NEW n \in 1 .. at + 1, ks[n] = k
      PROVE  n \in rejected
  <2>1. n # at + 1
    BY <1>2, <1>5
  <2>2. n \in 1 .. at
    BY <1>3, <2>1
  <2> QED
    BY <1>2, <1>3, <1>5, <2>2
<1>6. ASSUME NEW n \in rejected, NEW h \in 1 .. n - 1, ks[h] = ks[n] PROVE h \in rejected
  <2>1. n \in 1 .. at /\ h \in 1 .. at
    BY <1>3
  <2> QED
    BY <1>2, <1>3, <1>6, <2>1
<1> QED
  BY <1>2, <1>4, <1>5, <1>6

\* A record that is rejected is the latest of a key that lost all before it.
LEMMA RejectKept ==
  ASSUME IInv, NEW r, NEW q, Reads(r, q), map[q] = {}, map' = map, Rejects
  PROVE  /\ rejected' \subseteq 1 .. at + 1
         /\ \A k \in Keys : map'[k] = {} =>
              \A n \in 1 .. at + 1 : keys'[n] = k => n \in rejected'
         /\ \A n \in rejected' : \A h \in 1 .. n - 1 : keys'[h] = keys'[n] => h \in rejected'
<1>1. PICK ks : ks = Append(keys, q)
  OBVIOUS
<1>2. keys' = ks /\ ks[at + 1] = q /\ \A n \in 1 .. at : ks[n] = keys[n]
  BY <1>1, KeyFacts
<1>3. at' = at + 1 /\ q \in Keys /\ rejected' = rejected \cup {at + 1}
  BY ReadFacts DEF Rejects
<1>4. /\ at \in Nat /\ rejected \subseteq 1 .. at
      /\ \A k \in Keys : map[k] = {} => \A n \in 1 .. at : keys[n] = k => n \in rejected
      /\ \A n \in rejected : \A h \in 1 .. n - 1 : keys[h] = keys[n] => h \in rejected
  BY RejectedFacts
<1>5. \A n \in 1 .. at + 1 : n = at + 1 \/ n \in 1 .. at
  BY <1>4
<1>6. rejected' \subseteq 1 .. at + 1
  <2>1. at + 1 \in 1 .. at + 1 /\ \A n \in 1 .. at : n \in 1 .. at + 1
    BY <1>4
  <2> QED
    BY <1>3, <1>4, <2>1
<1>7. ASSUME NEW k \in Keys, map[k] = {}, NEW n \in 1 .. at + 1, ks[n] = k
      PROVE  n \in rejected'
  BY <1>2, <1>3, <1>4, <1>5, <1>7
<1>8. ASSUME NEW n \in rejected', NEW h \in 1 .. n - 1, ks[h] = ks[n]
      PROVE  h \in rejected'
  <2>1. CASE n \in rejected
    <3>1. n \in 1 .. at /\ h \in 1 .. at
      BY <1>4, <2>1
    <3> QED
      BY <1>2, <1>3, <1>4, <1>8, <2>1, <3>1
  <2>2. CASE n = at + 1
    <3>1. h \in 1 .. at
      BY <1>4, <2>2
    <3> QED
      BY <1>2, <1>3, <1>4, <1>8, <2>2, <3>1
  <2> QED
    BY <1>3, <2>1, <2>2
<1> QED
  BY <1>2, <1>6, <1>7, <1>8

LEMMA UpdateKept ==
  ASSUME IInv, NEW r, NEW q, UpdateTrace(r, q)
  PROVE  IInv'
<1>1. PICK n \in map[q] : data' = [data EXCEPT ![n][r.loc] = StampOf(r)]
  BY DEF UpdateTrace
<1>2. /\ Reads(r, q) /\ map' = map /\ ret' = ret /\ ring' = ring /\ rejected' = rejected
      /\ r.loc \in Locs
  BY DEF UpdateTrace
<1>3. /\ at \in Nat /\ at' = at + 1 /\ r = Input[at + 1] /\ Input' = Input
      /\ q \in Keys /\ StampOf(r) \in Stamps
  BY <1>2, ReadFacts
<1>4. /\ map \in [Keys -> SUBSET Indices] /\ ret \in {"ok", "ENOSPC"}
      /\ data \in [Indices -> [Locs -> Stamps]] /\ ring \in Seq(Indices)
  BY DEF IInv, TypeOK, Stamps
<1>5. PICK ks : ks = Append(keys, q)
  OBVIOUS
<1>6. keys' = ks /\ ks[at + 1] = q /\ \A h \in 1 .. at : ks[h] = keys[h]
  BY <1>2, <1>5, KeyFacts
<1>7. at + 1 \notin rejected
  BY RejectedFacts
<1>8. n \in Indices
  BY <1>3, <1>4
<1>9. /\ data' \in [Indices -> [Locs -> Stamps]]
      /\ data'[n][r.loc] = StampOf(r)
      /\ \A l \in Locs \ {r.loc} : data'[n][l] = data[n][l]
      /\ \A m \in Indices \ {n} : data'[m] = data[m]
  BY <1>1, <1>2, <1>3, <1>4, <1>8
<1>10. IndicesUsedOnce'
  BY <1>2 DEF IInv, DumpInv, IndicesUsedOnce
<1>11. StampInv'
  <2> SUFFICES ASSUME NEW k \in Keys, NEW m \in map[k]
               PROVE  /\ map[k] = {m}
                      /\ \A l \in Locs : data'[m][l] = StampAt(Input, ks, k, l, at + 1, rejected)
    BY <1>2, <1>3, <1>6 DEF StampInv
  <2>1. /\ map[k] = {m} /\ m \in Indices
        /\ \A l \in Locs : data[m][l] = StampAt(Input, keys, k, l, at, rejected)
    BY <1>4 DEF IInv, DumpInv, StampInv
  <2>2. CASE k = q
    <3>1. m = n
      BY <1>1, <2>1, <2>2
    <3>2. ASSUME NEW l \in Locs PROVE data'[m][l] = StampAt(Input, ks, k, l, at + 1, rejected)
      <4>1. CASE l = r.loc
        BY <1>3, <1>6, <1>7, <1>9, <2>2, <3>1, <4>1, StampNew
      <4>2. CASE l # r.loc
        <5>1. data'[m][l] = data[m][l]
          BY <1>9, <3>1, <4>2
        <5>2. StampAt(Input, ks, k, l, at + 1, rejected) = StampAt(Input, keys, k, l, at, rejected)
          BY <1>3, <1>6, <4>2, StampOther
        <5> QED
          BY <2>1, <5>1, <5>2
      <4> QED
        BY <4>1, <4>2
    <3> QED
      BY <2>1, <3>2
  <2>3. CASE k # q
    <3>1. m # n
      BY <1>1, <1>3, <2>3 DEF IInv, DumpInv, IndicesUsedOnce
    <3>2. data'[m] = data[m]
      BY <1>9, <2>1, <3>1
    <3>3. ASSUME NEW l \in Locs
          PROVE  StampAt(Input, ks, k, l, at + 1, rejected) = StampAt(Input, keys, k, l, at, rejected)
      BY <1>3, <1>6, <2>3, StampOther
    <3> QED
      BY <2>1, <3>2, <3>3
  <2> QED
    BY <2>2, <2>3
<1>12. \A k \in Keys : map'[k] = {} => k # q /\ map[k] = {}
  BY <1>1, <1>2
<1> QED
  BY <1>2, <1>4, <1>9, <1>10, <1>11, <1>12, AcceptKept, RecordRead

\* A record that is rejected leaves what the table says of other probes.
LEMMA StampsKept ==
  ASSUME IInv, NEW r, NEW q, Reads(r, q), map[q] = {}, map' = map, Rejects,
         \A k \in Keys : \A n \in map[k] : data'[n] = data[n]
  PROVE  StampInv'
<1>1. at \in Nat /\ at' = at + 1 /\ Input' = Input
  BY ReadFacts
<1>2. PICK R, ks : R = rejected \cup {at + 1} /\ ks = Append(keys, q)
  OBVIOUS
<1>3. rejected' = R /\ map' = map
  BY <1>1, <1>2 DEF Rejects
<1>4. keys' = ks /\ \A n \in 1 .. at : ks[n] = keys[n]
  BY <1>2, KeyFacts
<1> SUFFICES ASSUME NEW k \in Keys, NEW n \in map[k]
             PROVE  /\ map[k] = {n}
                    /\ \A l \in Locs : data'[n][l] = StampAt(Input, ks, k, l, at + 1, R)
  BY <1>1, <1>3, <1>4 DEF StampInv
<1>5. map[k] = {n} /\ \A l \in Locs : data[n][l] = StampAt(Input, keys, k, l, at, rejected)
  BY DEF IInv, DumpInv, StampInv
<1>6. ASSUME NEW l \in Locs
      PROVE  StampAt(Input, ks, k, l, at + 1, R) = StampAt(Input, keys, k, l, at, rejected)
  <2>1. R = rejected \cup {at + 1}
    BY <1>2
  <2>2. at + 1 \in R
    BY <2>1
  <2>3. \A m \in 1 .. at : m \in R <=> m \in rejected
    BY <1>1, <2>1
  <2> QED
    BY <1>1, <1>4, <2>2, <2>3, StampRejected
<1>7. data'[n] = data[n]
  OBVIOUS
<1> QED
  BY <1>5, <1>6, <1>7

LEMMA NoIndexKept ==
  ASSUME IInv, NEW r, NEW q, NoIndex(r, q)
  PROVE  IInv'
<1>1. /\ Reads(r, q) /\ map[q] = {} /\ Rejects
      /\ data' = data /\ map' = map /\ ret' = ret /\ ring' = ring
  BY DEF NoIndex
<1>2. /\ map \in [Keys -> SUBSET Indices] /\ ret \in {"ok", "ENOSPC"}
      /\ data \in [Indices -> [Locs -> Stamps]] /\ ring \in Seq(Indices)
  BY DEF IInv, TypeOK, Stamps
<1>3. StampInv'
  BY <1>1, StampsKept
<1>4. IndicesUsedOnce'
  BY <1>1 DEF IInv, DumpInv, IndicesUsedOnce
<1>5. /\ rejected' \subseteq 1 .. at + 1
      /\ \A k \in Keys : map'[k] = {} =>
           \A n \in 1 .. at + 1 : keys'[n] = k => n \in rejected'
      /\ \A n \in rejected' : \A h \in 1 .. n - 1 : keys'[h] = keys'[n] => h \in rejected'
  BY <1>1, RejectKept
<1> QED
  BY <1>1, <1>2, <1>3, <1>4, <1>5, RecordRead

\* The index that comes out of the ring.
LEMMA RingFacts ==
  ASSUME IInv, ring # <<>>
  PROVE  /\ Head(ring) \in Indices /\ Tail(ring) \in Seq(Indices)
         /\ \A k \in Keys : Head(ring) \notin map[k]
         /\ \A m \in DOMAIN Tail(ring) :
              /\ Tail(ring)[m] # Head(ring)
              /\ \A k \in Keys : Tail(ring)[m] \notin map[k]
              /\ \A n \in DOMAIN Tail(ring) : Tail(ring)[m] = Tail(ring)[n] => m = n
<1>1. PICK s, t, h : s = ring /\ t = Tail(ring) /\ h = Head(ring)
  OBVIOUS
<1>2. s \in Seq(Indices) /\ s # <<>>
  BY <1>1 DEF IInv, TypeOK
<1>3. /\ h \in Indices /\ t \in Seq(Indices) /\ Len(t) = Len(s) - 1
      /\ \A m \in 1 .. Len(t) : t[m] = s[m + 1]
      /\ h = s[1]
  BY <1>1, <1>2, HeadTailProperties
<1>4. Len(s) \in Nat \ {0} /\ DOMAIN s = 1 .. Len(s) /\ DOMAIN t = 1 .. Len(t)
  BY <1>2, <1>3, EmptySeq, LenProperties
<1>5. /\ \A n \in DOMAIN s : \A k \in Keys : s[n] \notin map[k]
      /\ \A n, m \in DOMAIN s : s[m] = s[n] => m = n
  BY <1>1 DEF IInv, DumpInv, IndicesUsedOnce
<1>6. 1 \in DOMAIN s /\ \A m \in DOMAIN t : m + 1 \in DOMAIN s /\ m + 1 # 1
  BY <1>3, <1>4
<1>7. \A m, n \in DOMAIN t : m + 1 = n + 1 => m = n
  BY <1>4
<1>8. \A k \in Keys : h \notin map[k]
  BY <1>3, <1>5, <1>6
<1>9. ASSUME NEW m \in DOMAIN t
      PROVE  /\ t[m] # h
             /\ \A k \in Keys : t[m] \notin map[k]
             /\ \A n \in DOMAIN t : t[m] = t[n] => m = n
  <2>1. t[m] = s[m + 1] /\ m + 1 \in DOMAIN s
    BY <1>3, <1>4, <1>6
  <2>2. t[m] # h
    BY <1>3, <1>5, <1>6, <2>1
  <2>3. \A k \in Keys : t[m] \notin map[k]
    BY <1>5, <2>1
  <2>4. ASSUME NEW n \in DOMAIN t, t[m] = t[n] PROVE m = n
    <3>1. t[n] = s[n + 1] /\ n + 1 \in DOMAIN s
      BY <1>3, <1>4, <1>6
    <3>2. m + 1 = n + 1
      BY <1>5, <2>1, <2>4, <3>1
    <3> QED
      BY <1>7, <3>2
  <2> QED
    BY <2>2, <2>3, <2>4
<1> QED
  BY <1>1, <1>3, <1>8, <1>9
\* The memory of the index that is taken, which no trace has.
LEMMA FillFacts ==
  ASSUME IInv, NEW r, NEW q, Reads(r, q), ring # <<>>, FillIndex(r)
  PROVE  /\ data' \in [Indices -> [Locs -> Stamps]]
         /\ \A l \in Locs : data'[Head(ring)][l] = IF l = r.loc THEN StampOf(r) ELSE NoStamp
         /\ \A k \in Keys : \A n \in map[k] : data'[n] = data[n]
<1>1. PICK h, row :
        /\ h = Head(ring)
        /\ row = [l \in Locs |-> IF l = r.loc THEN StampOf(r) ELSE NoStamp]
  OBVIOUS
<1>2. data' = [data EXCEPT ![h] = row]
  BY <1>1 DEF FillIndex
<1>3. StampOf(r) \in Stamps /\ NoStamp \in Stamps
  BY ReadFacts DEF NoStamp, Stamps
<1>4. row \in [Locs -> Stamps]
  BY <1>1, <1>3
<1>5. h \in Indices /\ \A k \in Keys : h \notin map[k]
  BY <1>1, RingFacts
<1>6. data \in [Indices -> [Locs -> Stamps]] /\ map \in [Keys -> SUBSET Indices]
  BY DEF IInv, TypeOK, Stamps
<1>7. /\ data' \in [Indices -> [Locs -> Stamps]] /\ data'[h] = row
      /\ \A n \in Indices \ {h} : data'[n] = data[n]
  BY <1>2, <1>4, <1>5, <1>6
<1>8. \A l \in Locs : row[l] = IF l = r.loc THEN StampOf(r) ELSE NoStamp
  BY <1>1
<1>9. \A k \in Keys : \A n \in map[k] : n \in Indices \ {h}
  BY <1>5, <1>6
<1> QED
  BY <1>1, <1>7, <1>8, <1>9

LEMMA FullKept ==
  ASSUME IInv, NEW r, NEW q, TableFull(r, q)
  PROVE  IInv'
<1>1. /\ Reads(r, q) /\ map[q] = {} /\ ring # <<>> /\ FillIndex(r) /\ ring' = Tail(ring)
      /\ Rejects /\ map' = map /\ ret' = "ENOSPC"
  BY DEF TableFull, TakeIndex, Table!AddFails
<1>2. /\ data' \in [Indices -> [Locs -> Stamps]]
      /\ \A k \in Keys : \A n \in map[k] : data'[n] = data[n]
  BY <1>1, FillFacts
<1>3. /\ Tail(ring) \in Seq(Indices)
      /\ \A m \in DOMAIN Tail(ring) :
           /\ \A k \in Keys : Tail(ring)[m] \notin map[k]
           /\ \A n \in DOMAIN Tail(ring) : Tail(ring)[m] = Tail(ring)[n] => m = n
  BY <1>1, RingFacts
<1>4. StampInv'
  BY <1>1, <1>2, StampsKept
<1>5. IndicesUsedOnce'
  <2>1. PICK t : t = Tail(ring)
    OBVIOUS
  <2>2. ring' = t /\ map' = map
    BY <1>1, <2>1
  <2>3. \A m \in DOMAIN t :
           /\ \A k \in Keys : t[m] \notin map[k]
           /\ \A n \in DOMAIN t : t[m] = t[n] => m = n
    BY <1>3, <2>1
  <2>4. \A j, k \in Keys : j # k => map[j] \cap map[k] = {}
    BY DEF IInv, DumpInv, IndicesUsedOnce
  <2> QED
    BY <2>2, <2>3, <2>4 DEF IndicesUsedOnce
<1>6. /\ rejected' \subseteq 1 .. at + 1
      /\ \A k \in Keys : map'[k] = {} =>
           \A n \in 1 .. at + 1 : keys'[n] = k => n \in rejected'
      /\ \A n \in rejected' : \A h \in 1 .. n - 1 : keys'[h] = keys'[n] => h \in rejected'
  BY <1>1, RejectKept
<1>7. map \in [Keys -> SUBSET Indices]
  BY DEF IInv, TypeOK
<1> QED
  BY <1>1, <1>2, <1>3, <1>4, <1>5, <1>6, <1>7, RecordRead

LEMMA AddKept ==
  ASSUME IInv, NEW r, NEW q, AddTrace(r, q)
  PROVE  IInv'
<1>1. PICK h, t, ks : h = Head(ring) /\ t = Tail(ring) /\ ks = Append(keys, q)
  OBVIOUS
<1>2. /\ Reads(r, q) /\ map[q] = {} /\ ring # <<>> /\ FillIndex(r) /\ ring' = t
      /\ rejected' = rejected /\ map' = [map EXCEPT ![q] = {h}] /\ ret' = "ok"
      /\ r.loc \in Locs
  BY <1>1 DEF AddTrace, TakeIndex, Table!Add
<1>3. /\ at \in Nat /\ at' = at + 1 /\ r = Input[at + 1] /\ Input' = Input
      /\ q \in Keys
      /\ keys' = ks /\ ks[at + 1] = q /\ \A n \in 1 .. at : ks[n] = keys[n]
  BY <1>1, <1>2, ReadFacts, KeyFacts
<1>4. /\ data' \in [Indices -> [Locs -> Stamps]]
      /\ \A l \in Locs : data'[h][l] = IF l = r.loc THEN StampOf(r) ELSE NoStamp
      /\ \A k \in Keys : \A n \in map[k] : data'[n] = data[n]
  BY <1>1, <1>2, FillFacts
<1>5. /\ h \in Indices /\ t \in Seq(Indices)
      /\ \A k \in Keys : h \notin map[k]
      /\ \A m \in DOMAIN t :
           /\ t[m] # h
           /\ \A k \in Keys : t[m] \notin map[k]
           /\ \A n \in DOMAIN t : t[m] = t[n] => m = n
  BY <1>1, <1>2, RingFacts
<1>6. map \in [Keys -> SUBSET Indices]
  BY DEF IInv, TypeOK
<1>7. /\ map' \in [Keys -> SUBSET Indices] /\ map'[q] = {h}
      /\ \A k \in Keys \ {q} : map'[k] = map[k]
  BY <1>2, <1>3, <1>5, <1>6
<1>8. /\ at + 1 \notin rejected
      /\ \A k \in Keys : map[k] = {} => \A n \in 1 .. at : keys[n] = k => n \in rejected
  BY RejectedFacts
<1>9. IndicesUsedOnce'
  <2>1. \A j, k \in Keys : j # k => map[j] \cap map[k] = {}
    BY DEF IInv, DumpInv, IndicesUsedOnce
  <2>2. \A j, k \in Keys : j # k => map'[j] \cap map'[k] = {}
    BY <1>3, <1>5, <1>7, <2>1
  <2>3. \A m \in DOMAIN t : \A k \in Keys : t[m] \notin map'[k]
    BY <1>5, <1>7
  <2> QED
    BY <1>2, <1>5, <2>2, <2>3 DEF IndicesUsedOnce
<1>10. StampInv'
  <2> SUFFICES ASSUME NEW k \in Keys, NEW n \in map'[k]
               PROVE  /\ map'[k] = {n}
                      /\ \A l \in Locs : data'[n][l] = StampAt(Input, ks, k, l, at + 1, rejected)
    BY <1>2, <1>3 DEF StampInv
  <2>1. CASE k = q
    <3>1. n = h /\ map'[k] = {n}
      BY <1>7, <2>1
    <3>2. ASSUME NEW l \in Locs PROVE data'[n][l] = StampAt(Input, ks, k, l, at + 1, rejected)
      <4>1. CASE l = r.loc
        <5>1. StampAt(Input, ks, k, l, at + 1, rejected) = StampOf(Input[at + 1])
          BY <1>3, <1>8, <2>1, <4>1, StampNew
        <5> QED
          BY <1>3, <1>4, <3>1, <4>1, <5>1
      <4>2. CASE l # r.loc
        <5>1. StampAt(Input, ks, k, l, at + 1, rejected) = StampAt(Input, keys, k, l, at, rejected)
          BY <1>3, <4>2, StampOther
        <5>2. \A m \in 1 .. at : keys[m] = k => m \in rejected
          BY <1>2, <1>8, <2>1
        <5>3. StampAt(Input, keys, k, l, at, rejected) = NoStamp
          BY <5>2, StampNone
        <5> QED
          BY <1>4, <3>1, <4>2, <5>1, <5>3
      <4> QED
        BY <4>1, <4>2
    <3> QED
      BY <3>1, <3>2
  <2>2. CASE k # q
    <3>1. n \in map[k] /\ map'[k] = map[k]
      BY <1>7, <2>2
    <3>2. /\ map[k] = {n}
          /\ \A l \in Locs : data[n][l] = StampAt(Input, keys, k, l, at, rejected)
      BY <3>1 DEF IInv, DumpInv, StampInv
    <3>3. data'[n] = data[n]
      BY <1>4, <3>1
    <3>4. ASSUME NEW l \in Locs
          PROVE  StampAt(Input, ks, k, l, at + 1, rejected) = StampAt(Input, keys, k, l, at, rejected)
      BY <1>3, <2>2, StampOther
    <3> QED
      BY <3>1, <3>2, <3>3, <3>4
  <2> QED
    BY <2>1, <2>2
<1>11. \A k \in Keys : map'[k] = {} => k # q /\ map[k] = {}
  BY <1>7
<1> QED
  BY <1>2, <1>4, <1>5, <1>7, <1>9, <1>10, <1>11, AcceptKept, RecordRead
-----------------------------------------------------------------------------
(* A trace is printed *)

\* A time is printed as it is if it comes from the NIC, and cycles as 0.
LEMMA PrintedTyped ==
  ASSUME NEW x \in Stamps
  PROVE  /\ Printed(x) \in Shown
         /\ Printed(x) = [tid |-> x.tid, nsec |-> IF x.type = "timespec" THEN x.time ELSE 0]
<1>1. x.tid \in Nat /\ x.time \in Nat /\ x.type \in {"cycles", "timespec"}
  BY DEF Stamps
<1>2. GetTimeNs(x) = IF x.type = "timespec" THEN x.time ELSE 0
  BY <1>1 DEF GetTimeNs, CpuHz
<1>3. GetTimeNs(x) \in Nat
  BY <1>1, <1>2
<1> QED
  BY <1>1, <1>2, <1>3 DEF Printed, Shown

LEMMA PrintKept ==
  ASSUME IInv, NEW k \in Keys, PrintTrace(k)
  PROVE  IInv'
<1>1. PICK n \in map[k] :
        lines' = Append(lines, [key |-> k, stamps |-> [l \in 0 .. maxLoc |-> Printed(data[n][l])]])
  BY DEF PrintTrace
<1>2. PICK e : e = [key |-> k, stamps |-> [l \in 0 .. maxLoc |-> Printed(data[n][l])]]
  OBVIOUS
<1>3. /\ phase = "print" /\ phase' = phase /\ k \in Unprinted /\ at' = at
      /\ map' = map /\ ret' = ret /\ data' = data /\ files' = files
      /\ ring' = ring /\ maxLoc' = maxLoc /\ rejected' = rejected
      /\ tid' = tid /\ cache' = cache /\ file' = file /\ batch' = batch /\ came' = came
      /\ loc' = loc /\ captured' = captured /\ keys' = keys /\ maxLoc \in Locs
  BY DEF PrintTrace, fileVars, threadVars, callVars, readVars, tableVars
<1>4. Input' = Input
  BY <1>3 DEF Input
<1>5. FileInv'
  BY <1>3 DEF IInv, FileInv, TypeFile, CapturedKept, OpenInv, Tracing, Role, Thread
<1>6. TypeOK'
  BY <1>3, <1>4, <1>5 DEF IInv, TypeOK, FileInv
<1>7. IndicesUsedOnce'
  BY <1>3 DEF IInv, DumpInv, IndicesUsedOnce
<1>8. StampInv'
  BY <1>3, <1>4 DEF IInv, DumpInv, StampInv
<1>9. RejectInv'
  BY <1>3, <1>4 DEF IInv, DumpInv, RejectInv
<1>10. PhaseInv' /\ ReadInv' /\ RowsHold'
  BY <1>3, <1>4 DEF IInv, DumpInv, PhaseInv, ReadInv, RowsHold
<1>11. /\ maxLoc \in Nat /\ (\A l \in 0 .. maxLoc : l \in Locs)
       /\ n \in Indices /\ data[n] \in [Locs -> Stamps]
       /\ \A l \in Locs : data[n][l] = StampAt(Input, keys, k, l, at, rejected)
       /\ map[k] # {}
  <2>1. maxLoc \in Locs /\ LocMax \in Nat
    BY <1>3, DumpAssumption
  <2>2. maxLoc \in Nat /\ \A l \in 0 .. maxLoc : l \in Locs
    BY <2>1 DEF Locs
  <2>3. n \in Indices /\ data[n] \in [Locs -> Stamps]
    BY DEF IInv, TypeOK, Stamps
  <2> QED
    BY <2>2, <2>3 DEF IInv, DumpInv, StampInv
<1>12. /\ e \in [key : Keys, stamps : [0 .. maxLoc -> Shown]] /\ e.key = k
       /\ \A l \in 0 .. maxLoc : e.stamps[l] = Printed(StampAt(Input, keys, k, l, at, rejected))
  <2>1. \A l \in 0 .. maxLoc : Printed(data[n][l]) \in Shown
    BY <1>11, PrintedTyped
  <2>2. [l \in 0 .. maxLoc |-> Printed(data[n][l])] \in [0 .. maxLoc -> Shown]
    BY <2>1
  <2>3. e.key = k /\ e.stamps = [l \in 0 .. maxLoc |-> Printed(data[n][l])]
    BY <1>2
  <2>4. e \in [key : Keys, stamps : [0 .. maxLoc -> Shown]]
    BY <1>2, <2>2
  <2> QED
    BY <1>11, <2>3, <2>4
<1>13. /\ lines \in Seq([key : Keys, stamps : [0 .. maxLoc -> Shown]])
       /\ \A m \in 1 .. Len(lines) :
            /\ map[lines[m].key] # {}
            /\ \A h \in 1 .. m - 1 : lines[h].key # lines[m].key
            /\ \A l \in 0 .. maxLoc :
                 lines[m].stamps[l] = Printed(StampAt(Input, keys, lines[m].key, l, at, rejected))
  BY DEF IInv, DumpInv, LinesInv
<1>14. Len(lines) \in Nat /\ \A m \in 1 .. Len(lines) : lines[m].key # k
  <2>1. Len(lines) \in Nat /\ DOMAIN lines = 1 .. Len(lines)
    BY <1>13, LenProperties
  <2> QED
    BY <1>3, <2>1 DEF Unprinted
<1>15. /\ lines' \in Seq([key : Keys, stamps : [0 .. maxLoc -> Shown]])
       /\ Len(lines') = Len(lines) + 1
       /\ \A m \in 1 .. Len(lines) : lines'[m] = lines[m]
       /\ lines'[Len(lines) + 1] = e
  BY <1>1, <1>2, <1>12, <1>13, AppendProperties
<1>16. ASSUME NEW m \in 1 .. Len(lines')
       PROVE  /\ map[lines'[m].key] # {}
              /\ \A h \in 1 .. m - 1 : lines'[h].key # lines'[m].key
              /\ \A l \in 0 .. maxLoc :
                   lines'[m].stamps[l] = Printed(StampAt(Input, keys, lines'[m].key, l, at, rejected))
  <2>1. CASE m = Len(lines) + 1
    <3>1. lines'[m] = e
      BY <1>15, <2>1
    <3>2. ASSUME NEW h \in 1 .. m - 1 PROVE lines'[h].key # k
      <4>1. h \in 1 .. Len(lines)
        BY <1>14, <2>1
      <4> QED
        BY <1>14, <1>15, <4>1
    <3> QED
      BY <1>11, <1>12, <3>1, <3>2
  <2>2. CASE m # Len(lines) + 1
    <3>1. m \in 1 .. Len(lines)
      BY <1>14, <1>15, <2>2
    <3>2. \A h \in 1 .. m - 1 : h \in 1 .. Len(lines)
      BY <1>14, <3>1
    <3>3. lines'[m] = lines[m] /\ \A h \in 1 .. m - 1 : lines'[h] = lines[h]
      BY <1>15, <3>1, <3>2
    <3> QED
      BY <1>13, <3>1, <3>3
  <2> QED
    BY <2>1, <2>2
<1>17. LinesInv'
  BY <1>3, <1>4, <1>15, <1>16 DEF LinesInv
<1> QED
  BY <1>5, <1>6, <1>7, <1>8, <1>9, <1>10, <1>17 DEF IInv, DumpInv

-----------------------------------------------------------------------------
(* The theorems *)

LEMMA NextKept == IInv /\ [Next]_vars => IInv'
<1> SUFFICES ASSUME IInv, [Next]_vars PROVE IInv'
  OBVIOUS
<1>1. CASE Trace
  BY <1>1, TraceKept
<1>2. CASE OpenFiles \/ DumpFails
  BY <1>2, OpenKept
<1>3. CASE InitTable
  BY <1>3, InitTableKept
<1>4. ASSUME NEW r, NEW q, AddRecord(r, q) PROVE IInv'
  BY <1>4, UpdateKept, NoIndexKept, AddKept, FullKept, OverrunKept DEF AddRecord
<1>5. CASE ReadEnds \/ PrintEnds
  BY <1>5, EndsKept
<1>6. ASSUME NEW k \in Keys, PrintTrace(k) \/ PrintOverruns(k) PROVE IInv'
  BY <1>6, PrintKept, OverrunKept
<1>7. CASE UNCHANGED vars
  <2>1. UNCHANGED <<fileVars, readVars, lines, phase>>
    BY <1>7 DEF vars, dumpVars
  <2>2. /\ phase \in {"trace", "init", "read", "print", "done", "failed", "overrun"}
        /\ phase \notin {"print", "done", "overrun"} => lines = <<>>
        /\ phase = "done" => Unprinted = {}
        /\ PhaseInv /\ RowsHold
    BY DEF IInv, TypeOK, DumpInv, LinesInv
  <2>3. PhaseInv' /\ RowsHold'
    BY <2>1, <2>2 DEF PhaseInv, RowsHold, Input, fileVars, readVars, tableVars
  <2> QED
    BY <2>1, <2>2, <2>3, PhaseKept
<1> QED
  BY <1>1, <1>2, <1>3, <1>4, <1>5, <1>6, <1>7 DEF Next

\* The invariant holds in every reachable state.
THEOREM Invariance == Spec => []IInv
BY InitIInv, NextKept, PTL DEF Spec

\* The cache never overruns and indices stay within trace_data, for any number of
\* threads, sizes of the cache and of the analyser's table.
THEOREM TypeCorrect == Spec => []TypeOK
<1>1. IInv => TypeOK
  BY DEF IInv
<1> QED
  BY <1>1, Invariance, PTL

\* What a thread was given is in its file and its cache, in order and without a gap,
\* but for a beginning that was lost while the file could not be opened.
THEOREM NoRecordLost == Spec => []CapturedKept
<1>1. IInv => CapturedKept
  BY DEF IInv, FileInv
<1> QED
  BY <1>1, Invariance, PTL

\* No two traces share an index of trace_data, whichever records found no place.
THEOREM OneIndexPerTrace == Spec => []IndicesUsedOnce
<1>1. IInv => IndicesUsedOnce
  BY DEF IInv, DumpInv
<1> QED
  BY <1>1, Invariance, PTL

\* The rows of trace_data are overrun only by files that hold a location beyond them,
\* whatever the order of the records and whichever of them find no place.
THEOREM OverrunOnlyByLocation == Spec => []RowsHold
<1>1. IInv => RowsHold
  BY DEF IInv, DumpInv
<1> QED
  BY <1>1, Invariance, PTL

\* A bounded set of numbers has a greatest one.
LEMMA MaxOfBounded ==
  ASSUME NEW N \in Nat, NEW P, P \subseteq Nat, P # {}, \A n \in P : n <= N
  PROVE  Max(P) \in P
<1> DEFINE B == {b \in Nat : \A n \in P : n <= b}
           R == OpToRel(<, Nat)
<1>1. B \subseteq Nat /\ B # {}
  OBVIOUS
<1>2. \A y, x \in Nat : y < x => <<y, x>> \in R
  BY DEF OpToRel
<1>3. IsWellFoundedOn(R, Nat)
  BY NatLessThanWellFounded
<1> HIDE DEF R
<1>4. PICK b \in B : \A y \in B : <<y, b>> \notin R
  <2> HIDE DEF B
  <2> QED
    BY <1>1, <1>3, WFMin
<1>5. b \in Nat /\ \A n \in P : n <= b
  OBVIOUS
<1>6. b \in P
  <2> SUFFICES ASSUME b \notin P PROVE FALSE
    OBVIOUS
  <2>1. \A n \in P : n \in Nat /\ n <= b /\ n # b
    BY <1>5
  <2>2. b # 0
    <3> SUFFICES ASSUME b = 0 PROVE FALSE
      OBVIOUS
    <3>1. \A n \in P : FALSE
      BY <2>1
    <3> QED
      BY <3>1
  <2>3. b - 1 \in B /\ b - 1 < b
    BY <1>5, <2>1, <2>2
  <2> QED
    BY <1>2, <1>4, <1>5, <2>3
<1>7. \A n \in P : b >= n
  BY <1>5
<1> QED
  BY <1>6, <1>7 DEF Max

LEMMA FaithfulWhenDone == IInv => DumpFaithful
<1> SUFFICES ASSUME IInv, phase = "done" PROVE DumpFaithful
  BY DEF DumpFaithful
<1>1. PICK s : s = Input
  OBVIOUS
<1>2. s \in Seq(Records) /\ Len(s) \in Nat /\ DOMAIN s = 1 .. Len(s)
  BY <1>1, InputTyped DEF IInv, TypeOK
<1>3. at = Len(s) /\ maxLoc \in Nat
  BY <1>1 DEF IInv, DumpInv, PhaseInv, TypeOK
<1>4. /\ \A k \in Keys : map[k] = {} => \A n \in DOMAIN s : keys[n] = k => n \in rejected
      /\ \A n \in rejected : \A h \in 1 .. n - 1 : keys[h] = keys[n] => h \in rejected
      /\ \A n \in DOMAIN s : s[n].loc <= maxLoc
      /\ \A n \in DOMAIN s : keys[n][1] = s[n].probe
  BY <1>1, <1>2, <1>3 DEF IInv, DumpInv, RejectInv, ReadInv
<1>5. /\ lines \in Seq([key : Keys, stamps : [0 .. maxLoc -> Shown]])
      /\ Unprinted = {}
      /\ \A m \in 1 .. Len(lines) :
           /\ \A h \in 1 .. m - 1 : lines[h].key # lines[m].key
           /\ \A l \in 0 .. maxLoc :
                lines[m].stamps[l] = Printed(StampAt(s, keys, lines[m].key, l, at, rejected))
  BY <1>1 DEF IInv, DumpInv, LinesInv
<1>6. /\ DOMAIN lines = 1 .. Len(lines)
      /\ \A m \in DOMAIN lines : DOMAIN lines[m].stamps = 0 .. maxLoc
  <2>1. DOMAIN lines = 1 .. Len(lines)
    BY <1>5, LenProperties
  <2>2. \A m \in DOMAIN lines : lines[m] \in [key : Keys, stamps : [0 .. maxLoc -> Shown]]
    BY <1>5, <2>1, ElementOfSeq
  <2> QED
    BY <2>1, <2>2
<1>7. ASSUME NEW n \in (DOMAIN s) \ rejected
      PROVE  \E m \in DOMAIN lines :
               lines[m].key = keys[n] /\ s[n].loc \in DOMAIN lines[m].stamps
  <2>1. s[n] \in Records
    BY <1>2, ElementOfSeq
  <2>2. keys[n] \in Keys /\ s[n].loc \in Nat
    <3>1. keys \in Seq(Keys) /\ Len(keys) = at
      BY DEF IInv, TypeOK
    <3>2. keys[n] \in Keys
      BY <1>2, <1>3, <3>1, ElementOfSeq
    <3> QED
      BY <2>1, <3>2 DEF Records
  <2>3. map[keys[n]] # {}
    BY <1>4, <2>2
  <2>4. PICK m \in DOMAIN lines : lines[m].key = keys[n]
    BY <1>5, <2>2, <2>3 DEF Unprinted
  <2>5. s[n].loc \in 0 .. maxLoc
    BY <1>3, <1>4, <2>2
  <2> QED
    BY <1>6, <2>4, <2>5
<1>8. ASSUME NEW k, NEW l
      PROVE  LastStamp(k, l) = Printed(StampAt(s, keys, k, l, at, rejected))
  <2>1. PICK P : P = PlacesOf(s, keys, k, l, at, rejected)
    OBVIOUS
  <2>2. P = {n \in (DOMAIN Input) \ rejected : keys[n] = k /\ Input[n].loc = l}
    BY <1>1, <1>2, <1>3, <2>1 DEF PlacesOf
  <2>3. CASE P = {}
    <3>1. LastStamp(k, l) = [tid |-> 0, nsec |-> 0]
      BY <2>2, <2>3 DEF LastStamp
    <3>2. StampAt(s, keys, k, l, at, rejected) = NoStamp
      BY <2>1, <2>3 DEF StampAt
    <3>3. /\ NoStamp \in Stamps /\ NoStamp.tid = 0 /\ NoStamp.type = "cycles"
      BY DEF NoStamp, Stamps
    <3>4. Printed(NoStamp) = [tid |-> 0, nsec |-> 0]
      BY <3>3, PrintedTyped
    <3> QED
      BY <3>1, <3>2, <3>4
  <2>4. CASE P # {}
    <3>1. PICK r : r = s[Max(P)]
      OBVIOUS
    <3>2. LastStamp(k, l) =
            [tid |-> r.tid, nsec |-> IF r.type = "timespec" THEN r.time ELSE 0]
      BY <1>1, <2>2, <2>4, <3>1 DEF LastStamp
    <3>3. StampAt(s, keys, k, l, at, rejected) = StampOf(r)
      BY <2>1, <2>4, <3>1 DEF StampAt
    <3>4. Max(P) \in P
      <4>1. P \subseteq 1 .. Len(s)
        BY <1>2, <1>3, <2>1 DEF PlacesOf
      <4>2. P \subseteq Nat /\ \A n \in P : n <= Len(s)
        BY <1>2, <4>1
      <4> QED
        BY <1>2, <2>4, <4>2, MaxOfBounded
    <3>5. r \in Records
      <4>1. Max(P) \in 1 .. Len(s)
        BY <1>2, <2>2, <1>1, <3>4
      <4> QED
        BY <1>2, <3>1, <4>1, ElementOfSeq
    <3>6. /\ StampOf(r) \in Stamps /\ StampOf(r).tid = r.tid /\ StampOf(r).type = r.type
          /\ StampOf(r).time = r.time
      <4>1. DOMAIN Roles \subseteq Nat
        BY TraceAssumption, LenProperties
      <4>2. r.tid \in Nat /\ r.time \in Nat /\ r.type \in {"cycles", "timespec"}
        BY <3>5, <4>1 DEF Records
      <4> QED
        BY <4>2 DEF StampOf, Stamps
    <3>7. Printed(StampOf(r)) =
            [tid |-> r.tid, nsec |-> IF r.type = "timespec" THEN r.time ELSE 0]
      BY <3>6, PrintedTyped
    <3> QED
      BY <3>2, <3>3, <3>7
  <2> QED
    BY <2>3, <2>4
<1>9. ASSUME NEW m \in DOMAIN lines
      PROVE  /\ \A h \in 1 .. m - 1 : lines[h].key # lines[m].key
             /\ \A l \in DOMAIN lines[m].stamps :
                  lines[m].stamps[l] = LastStamp(lines[m].key, l)
  BY <1>5, <1>6, <1>8
<1> QED
  BY <1>1, <1>4, <1>7, <1>9 DEF DumpFaithful

\* The analyser prints what it can of the files: a line for each key that it could keep,
\* with the thread of the last record of every location and, if that holds the time of
\* a NIC, its time, however the threads ended, whatever part of their files was
\* written, and whenever indices or places in the table ran out.
THEOREM DumpCorrect == Spec => []DumpFaithful
BY FaithfulWhenDone, Invariance, PTL
=============================================================================
