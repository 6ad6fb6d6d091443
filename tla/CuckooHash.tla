------------------------------ MODULE CuckooHash ------------------------------
(****************************************************************************)
(* The hash table of src/tools/cuckoohash.c.  Each key has a place in two   *)
(* buckets.  When the first is full, make_space_bucket moves an entry to    *)
(* its other bucket, where it may have to move another one, and so on.  A   *)
(* level of that recursion is an action here, and its frames are a stack;   *)
(* lookups are possible between any two of them.                            *)
(*                                                                          *)
(* Keys and data live in the key store; the indices of its free entries are *)
(* kept in a ring (RingBuffer, used by one thread here: a queue).  What a   *)
(* deleted entry leaves behind in key_idx and in the key store is never     *)
(* read, since a signature or the ring leads there first; it is zeroed here.*)
(****************************************************************************)
EXTENDS Integers, Sequences, FiniteSetsExt, Functions

CONSTANTS
  Keys, Data,
  Pairs,       \* the keys and data that are added
  NbEntries,   \* h->entries
  NbBuckets,   \* h->num_buckets
  NbSlots,     \* HASH_BUCKET_ENTRIES
  Sigs,        \* the signatures: uint32_t
  Hash,        \* hash: the signature of a key
  Alt,         \* hash_secondary: the other signature that goes with a signature
  MaxCalls     \* bound: how many calls of add and delete there are

Buckets == 0 .. NbBuckets - 1
Slots   == 1 .. NbSlots
Indices == 1 .. NbEntries     \* 0 is reserved

ASSUME MaxCallsAssumption == MaxCalls \in Nat
\* A key has a byte at least, and data is a pointer: there are some of each.
ASSUME PairsAssumption == Keys # {} /\ Data # {} /\ Pairs \subseteq Keys \X Data
ASSUME SizesAssumption == NbEntries \in Nat /\ NbBuckets \in Nat \ {0} /\ NbSlots \in Nat \ {0}
\* hash_secondary(0) = 0x5bd1e995.
ASSUME HashAssumption ==
  /\ Sigs \subseteq Nat /\ 0 \in Sigs
  /\ Hash \in [Keys -> Sigs]
  /\ Alt \in [Sigs -> Sigs]
  /\ Alt[0] # 0

VARIABLES
  table,      \* buckets: the signatures and key_idx of every slot
  flags,      \* the slots whose flag is set
  keyStore,   \* key_store
  free,       \* free_slots
  pc,         \* where add is: "idle", "search", "unwind" or "fail"
  new,        \* the index it took from free_slots
  bucket,     \* bkt of the innermost make_space_bucket
  stack,      \* the slots that the outer ones are to move
  hole,       \* the slot whose entry was moved last
  ret,        \* what the latest add or delete returned
  calls       \* how many calls there were

frame == <<pc, new, bucket, stack, hole>>
vars  == <<table, flags, keyStore, free, frame, ret, calls>>

\* NULL_SIGNATURE, in a slot that was never used
Empty == [cur |-> 0, alt |-> 0, idx |-> 0]

IsNull(e) == e.cur = 0 /\ e.alt = 0

\* sig & h->bucket_bitmask
BucketOf(sig) == sig % NbBuckets

AltHash(k) == Alt[Hash[k]]
Primary(k) == BucketOf(Hash[k])
Secondary(k) == BucketOf(AltHash(k))

\* Zeroed memory, which is some key and some data, too.
Zeroed == [key |-> CHOOSE k \in Keys : TRUE, data |-> CHOOSE d \in Data : TRUE]

\* cuckoohash_create
Init ==
  /\ table = [b \in Buckets |-> [i \in Slots |-> Empty]]
  /\ flags = {}
  /\ keyStore = [n \in Indices |-> Zeroed]
  /\ free = [n \in Indices |-> n]
  /\ pc = "idle" /\ new = 0 /\ bucket = 0 /\ stack = <<>> /\ hole = <<0, 1>>
  /\ ret = "ok" /\ calls = 0

-----------------------------------------------------------------------------
(* Lookup *)

HasKey(e, k) == e.idx \in Indices /\ keyStore[e.idx].key = k

\* The slots of the first and of the second bucket in which a lookup finds k.
InPrimary(k) ==
  {i \in Slots : LET e == table[Primary(k)][i]
                 IN  e.cur = Hash[k] /\ ~IsNull(e) /\ HasKey(e, k)}
InSecondary(k) ==
  {i \in Slots : LET e == table[Secondary(k)][i]
                 IN  e.cur = AltHash(k) /\ e.alt = Hash[k] /\ HasKey(e, k)}

\* cuckoohash_lookup_data: the index in the key store, or none (-ENOENT)
Lookup(k) ==
  IF InPrimary(k) # {} THEN {table[Primary(k)][Min(InPrimary(k))].idx}
  ELSE {table[Secondary(k)][i].idx : i \in {i \in InSecondary(k) : i = Min(InSecondary(k))}}

-----------------------------------------------------------------------------
(* cuckoohash_add_key_data *)

\* A call of add or delete, one at a time.
Call == pc = "idle" /\ calls < MaxCalls /\ calls' = calls + 1

Free(b) == {i \in Slots : IsNull(table[b][i])}
Set(b, i, e) == table' = [table EXCEPT ![b][i] = e]

NewEntry(k, n) == [cur |-> Hash[k], alt |-> AltHash(k), idx |-> n]

\* The slots in which add recognises k.
Same(k) ==
  {i \in Slots : LET e == table[Primary(k)][i]
                 IN  e.cur = Hash[k] /\ e.alt = AltHash(k) /\ HasKey(e, k)}

\* No index is free: -ENOSPC, also for a key that is in the table.
AddNoIndex ==
  /\ Call /\ free = <<>>
  /\ ret' = "ENOSPC"
  /\ UNCHANGED <<table, flags, keyStore, free, frame>>

\* The key is there: the index goes back to the ring and the data is replaced.
AddExisting(k, d) ==
  /\ Call /\ free # <<>> /\ Same(k) \cup InSecondary(k) # {}
  /\ free' = Append(Tail(free), Head(free))
  /\ LET n == IF Same(k) # {} THEN table[Primary(k)][Min(Same(k))].idx
              ELSE table[Secondary(k)][Min(InSecondary(k))].idx
     IN  keyStore' = [keyStore EXCEPT ![n].data = d]
  /\ ret' = "ok"
  /\ UNCHANGED <<table, flags, frame>>

\* Mutant: the keys in the second bucket are not looked at.
AddNew_Unchecked(k, d) ==
  /\ Call /\ free # <<>> /\ Same(k) = {}
  /\ free' = Tail(free)
  /\ keyStore' = [keyStore EXCEPT ![Head(free)] = [key |-> k, data |-> d]]
  /\ IF Free(Primary(k)) # {}
       THEN /\ Set(Primary(k), Min(Free(Primary(k))), NewEntry(k, Head(free)))
            /\ ret' = "ok"
            /\ UNCHANGED frame
       ELSE /\ pc' = "search" /\ new' = Head(free) /\ bucket' = Primary(k)
            /\ UNCHANGED <<table, stack, hole, ret>>
  /\ UNCHANGED flags

\* It is not: it is put into the first bucket, if there is room.
AddNew(k, d) ==
  /\ Call /\ free # <<>> /\ Same(k) \cup InSecondary(k) = {}
  /\ free' = Tail(free)
  /\ keyStore' = [keyStore EXCEPT ![Head(free)] = [key |-> k, data |-> d]]
  /\ IF Free(Primary(k)) # {}
       THEN /\ Set(Primary(k), Min(Free(Primary(k))), NewEntry(k, Head(free)))
            /\ ret' = "ok"
            /\ UNCHANGED frame
       ELSE /\ pc' = "search" /\ new' = Head(free) /\ bucket' = Primary(k)
            /\ UNCHANGED <<table, stack, hole, ret>>
  /\ UNCHANGED flags

-----------------------------------------------------------------------------
(* make_space_bucket *)

\* The bucket to which an entry can be moved, and the entry as it is there.
Other(e) == BucketOf(e.alt)

\* Mutant: the signatures are not exchanged.
Moved_Same(e) == e

Moved(e) == [e EXCEPT !.cur = e.alt, !.alt = e.cur]

\* The entries of b that can be moved at once, and those not being moved already.
Movable(b) == {i \in Slots : Free(Other(table[b][i])) # {}}
Unflagged(b) == {i \in Slots : <<b, i>> \notin flags}

Push ==
  /\ pc = "search" /\ Movable(bucket) # {}
  /\ LET i == Min(Movable(bucket))
         e == table[bucket][i]
     IN  /\ Set(Other(e), Min(Free(Other(e))), Moved(e))
         /\ hole' = <<bucket, i>>
  /\ pc' = "unwind"
  /\ UNCHANGED <<flags, keyStore, free, new, bucket, stack, ret, calls>>

\* Mutant: the flag is not set, and the C stack overflows.
Descend_Unflagged ==
  /\ pc = "search" /\ Movable(bucket) = {} /\ Unflagged(bucket) # {}
  /\ LET i == Min(Unflagged(bucket))
     IN  /\ stack' = Append(stack, <<bucket, i>>)
         /\ bucket' = Other(table[bucket][i])
  /\ Len(stack) < NbBuckets * NbSlots
  /\ UNCHANGED <<table, flags, keyStore, free, pc, new, hole, ret, calls>>

\* The recursive call.
Descend ==
  /\ pc = "search" /\ Movable(bucket) = {} /\ Unflagged(bucket) # {}
  /\ LET i == Min(Unflagged(bucket))
     IN  /\ flags' = flags \cup {<<bucket, i>>}
         /\ stack' = Append(stack, <<bucket, i>>)
         /\ bucket' = Other(table[bucket][i])
  /\ UNCHANGED <<table, keyStore, free, pc, new, hole, ret, calls>>

NoSpace ==
  /\ pc = "search" /\ Movable(bucket) = {} /\ Unflagged(bucket) = {}
  /\ pc' = "fail"
  /\ UNCHANGED <<table, flags, keyStore, free, new, bucket, stack, hole, ret, calls>>

\* The return from a recursive call, with its flag cleared.
Top == stack[Len(stack)]
Return ==
  /\ stack # <<>>
  /\ flags' = flags \ {Top}
  /\ stack' = SubSeq(stack, 1, Len(stack) - 1)
  /\ UNCHANGED <<keyStore, free, pc, new, bucket, ret, calls>>

\* It made room at hole: the entry is moved there.
Unwind ==
  /\ pc = "unwind" /\ Return
  /\ Set(hole[1], hole[2], Moved(table[Top[1]][Top[2]]))
  /\ hole' = Top

UnwindFailure ==
  /\ pc = "fail" /\ Return
  /\ UNCHANGED <<table, hole>>

\* The outermost call returned: the new entry takes the place of the moved one ...
AddMoved ==
  /\ pc = "unwind" /\ stack = <<>>
  /\ Set(hole[1], hole[2], NewEntry(keyStore[new].key, new))
  /\ pc' = "idle" /\ new' = 0 /\ bucket' = 0 /\ hole' = <<0, 1>> /\ ret' = "ok"
  /\ UNCHANGED <<flags, keyStore, free, stack, calls>>

\* Mutant: the index is lost.
AddNoSpace_Leak ==
  /\ pc = "fail" /\ stack = <<>>
  /\ keyStore' = [keyStore EXCEPT ![new] = Zeroed]
  /\ pc' = "idle" /\ new' = 0 /\ bucket' = 0 /\ ret' = "ENOSPC"
  /\ UNCHANGED <<table, flags, free, stack, hole, calls>>

\* ... or its index goes back to the ring.
AddNoSpace ==
  /\ pc = "fail" /\ stack = <<>>
  /\ free' = Append(free, new)
  /\ keyStore' = [keyStore EXCEPT ![new] = Zeroed]
  /\ pc' = "idle" /\ new' = 0 /\ bucket' = 0 /\ ret' = "ENOSPC"
  /\ UNCHANGED <<table, flags, stack, hole, calls>>

-----------------------------------------------------------------------------
(* cuckoohash_del_key *)

\* The slots of the second bucket in which a delete finds k.
ToDelete(k) ==
  {i \in Slots : LET e == table[Secondary(k)][i]
                 IN  e.cur = AltHash(k) /\ ~IsNull(e) /\ HasKey(e, k)}

\* Mutant: the slot is cleared before its index is put back.
Remove_ClearFirst(b, i) ==
  /\ Set(b, i, Empty)
  /\ free' = Append(free, Empty.idx)
  /\ keyStore' = [keyStore EXCEPT ![table[b][i].idx] = Zeroed]
  /\ ret' = "ok"

Remove(b, i) ==
  /\ Set(b, i, Empty)
  /\ free' = Append(free, table[b][i].idx)
  /\ keyStore' = [keyStore EXCEPT ![table[b][i].idx] = Zeroed]
  /\ ret' = "ok"

Delete(k) ==
  /\ Call
  /\ IF InPrimary(k) # {} THEN Remove(Primary(k), Min(InPrimary(k)))
     ELSE ToDelete(k) # {} /\ Remove(Secondary(k), Min(ToDelete(k)))
  /\ UNCHANGED <<flags, frame>>

DeleteNoKey(k) ==
  /\ Call /\ InPrimary(k) \cup ToDelete(k) = {}
  /\ ret' = "ENOENT"
  /\ UNCHANGED <<table, flags, keyStore, free, frame>>

-----------------------------------------------------------------------------
MakeSpace == Push \/ Descend \/ NoSpace \/ Unwind \/ UnwindFailure \/ AddMoved \/ AddNoSpace

Next ==
  \/ MakeSpace \/ AddNoIndex
  \/ \E p \in Pairs : AddExisting(p[1], p[2]) \/ AddNew(p[1], p[2])
  \/ \E k \in Keys : Delete(k) \/ DeleteNoKey(k)

Spec == Init /\ [][Next]_vars

\* A call that was made goes on.
FairSpec == Spec /\ WF_vars(MakeSpace)

-----------------------------------------------------------------------------
(* Properties *)

Places  == Buckets \X Slots
Entry(p) == table[p[1]][p[2]]
Used    == {p \in Places : ~IsNull(Entry(p))}

\* The variables hold values of their types.
TypeOK ==
  /\ table \in [Buckets -> [Slots -> [cur : Sigs, alt : Sigs, idx : 0 .. NbEntries]]]
  /\ flags \in SUBSET Places
  /\ keyStore \in [Indices -> [key : Keys, data : Data]]
  /\ free \in Seq(Indices)
  /\ pc \in {"idle", "search", "unwind", "fail"}
  /\ new \in 0 .. NbEntries
  /\ bucket \in Buckets
  /\ stack \in Seq(Places)
  /\ hole \in Places
  /\ ret \in {"ok", "ENOSPC", "ENOENT"}
  /\ calls \in 0 .. MaxCalls

\* Every used entry is where the signatures of its key lead, also while entries
\* are moved (the comments in make_space_bucket).
EntriesInPlace ==
  \A p \in Used : LET e == Entry(p) IN
    /\ e.idx \in Indices
    /\ p[1] = BucketOf(e.cur)
    /\ LET k == keyStore[e.idx].key
       IN  <<e.cur, e.alt>> \in {<<Hash[k], AltHash(k)>>, <<AltHash(k), Hash[k]>>}

\* Each index of the key store is free, or in one entry, or in the hands of an
\* add; only the entry in the hole has been moved and is not yet overwritten.
IndicesConserved ==
  LET settled == IF pc = "unwind" THEN Used \ {hole} ELSE Used
      stored  == {Entry(p).idx : p \in settled}
      taken   == {new} \ {0}
  IN  /\ IsInjective(free)
      /\ \A p, q \in settled : Entry(p).idx = Entry(q).idx => p = q
      /\ Range(free) \cup stored \cup taken = Indices
      /\ Range(free) \cap stored = {} /\ taken \cap (Range(free) \cup stored) = {}
      /\ pc = "idle" => flags = {} /\ new = 0

\* Every add ends: the recursion does not go round in circles.
AddReturns == pc = "search" ~> pc = "idle"

\* The table implements a map, in which the moving of entries cannot be seen: a
\* lookup finds every key, with its data, at every moment.
Map == INSTANCE KeyMap WITH map <- [k \in Keys |-> {keyStore[n].data : n \in Lookup(k)}]

ImplementsMap == Map!Spec
=============================================================================
