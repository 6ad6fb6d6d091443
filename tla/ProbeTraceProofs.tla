--------------------------- MODULE ProbeTraceProofs ---------------------------
(****************************************************************************)
(* The safety properties of ProbeTrace, for any ports, any patience of      *)
(* trace_hw_tx_record and any number of probes.                             *)
(****************************************************************************)
EXTENDS TLAPS, SequenceTheorems, ProbeTrace

\* How many probes of p the NIC has sent.
Sent(p) == Len(accepted[p]) - Len(queue[p])

\* The callback is about to hand over a probe of p, or waits for its timestamp.
Handing(p) == pc \in {"prepare", "send"} /\ i = p
Polling(p) == pc = "poll" /\ i = p

\* A callback that is not over works on a port, which is enabled from __construct_probe on.
PlaceInv ==
  /\ IF pc = "idle" THEN i = 0 ELSE i \in PortIds
  /\ pc \in {"prepare", "send", "poll"} => i \in Enabled

\* The probes of a port are numbered as they are handed over; next_pkt is the next
\* one, or, while its timestamp is waited for, the last one.
Numbered(p) ==
  /\ \A n \in 1 .. Len(accepted[p]) : accepted[p][n] = n - 1
  /\ Polling(p) => /\ Len(accepted[p]) > 0
                   /\ nextPkt[p] = {Len(accepted[p]) - 1} /\ nextIdx[p] = Len(accepted[p])
  /\ ~Polling(p) => \/ nextPkt[p] = {} /\ nextIdx[p] = Len(accepted[p])
                    \/ nextPkt[p] = {Len(accepted[p])} /\ nextIdx[p] = Len(accepted[p]) + 1
  /\ Handing(p) => nextPkt[p] # {}

\* The NIC holds the last probes that it took, and the timestamp of one it sent.
Held(p) ==
  /\ Len(queue[p]) <= Len(accepted[p])
  /\ \A n \in 1 .. Len(queue[p]) : queue[p][n] = Sent(p) + n - 1
  /\ latch[p] = {} \/ \E t \in 1 .. Sent(p) : latch[p] = {t}

\* What was recorded is older than what may be recorded next, both in the index
\* and in the timestamp.
Older(p) ==
  \A n \in 1 .. Len(records[p]) :
    /\ records[p][n].idx < Len(accepted[p])
    /\ Polling(p) => records[p][n].idx < Len(accepted[p]) - 1
    /\ records[p][n].stamp <= Sent(p)
    /\ \A t \in latch[p] : records[p][n].stamp < t

\* While timestamps are recorded and none was missed on a port, its register is
\* empty between probes, and holds the timestamp of the one probe under way.
Clean(p) ==
  file # "failed" /\ p \notin missed =>
    /\ ~Polling(p) => Len(queue[p]) = 0 /\ latch[p] = {}
    /\ Polling(p) => \/ Len(queue[p]) = 1 /\ latch[p] = {}
                     \/ Len(queue[p]) = 0 /\ latch[p] = {Len(accepted[p])}

PortInv(p) == Numbered(p) /\ Held(p) /\ Older(p) /\ Clean(p)

IInv ==
  /\ TypeOK /\ PlaceInv /\ \A p \in PortIds : PortInv(p)
  /\ OwnTimestamps /\ StampsNeverAhead

-----------------------------------------------------------------------------
LEMMA InitIInv == Init => IInv
<1> SUFFICES ASSUME Init PROVE IInv
  OBVIOUS
<1> USE PortsAssumption, MaxWaitAssumption DEF Init
<1>1. TypeOK
  BY DEF TypeOK
<1>2. PlaceInv
  BY DEF PlaceInv
<1>3. ASSUME NEW p \in PortIds PROVE PortInv(p)
  BY DEF PortInv, Numbered, Held, Older, Clean, Sent, Polling, Handing
<1>4. OwnTimestamps /\ StampsNeverAhead
  BY DEF OwnTimestamps, StampsNeverAhead
<1> QED
  BY <1>1, <1>2, <1>3, <1>4 DEF IInv

\* A step that does nothing on a port preserves what is known of it.
LEMMA PortUntouched ==
  ASSUME NEW p \in PortIds, PortInv(p),
         nextIdx'[p] = nextIdx[p], nextPkt'[p] = nextPkt[p], accepted'[p] = accepted[p],
         records'[p] = records[p], queue'[p] = queue[p], latch'[p] = latch[p],
         Polling(p)' <=> Polling(p), Handing(p)' => nextPkt[p] # {},
         file = "failed" => file' = "failed", missed \subseteq missed'
  PROVE  PortInv(p)'
<1>1. Numbered(p)'
  BY DEF PortInv, Numbered
<1>2. Held(p)' /\ Older(p)'
  BY DEF PortInv, Held, Older, Sent
<1>3. Clean(p)'
  BY DEF PortInv, Clean
<1> QED
  BY <1>1, <1>2, <1>3 DEF PortInv

LEMMA RecordTypes ==
  ASSUME TypeOK, NEW p \in PortIds, NEW n \in 1 .. Len(records[p])
  PROVE  records[p][n].idx \in Nat /\ records[p][n].stamp \in Nat
<1>1. records[p] \in Seq([idx : Nat, stamp : Nat])
  BY DEF TypeOK
<1>2. records[p][n] \in [idx : Nat, stamp : Nat]
  BY <1>1, ElementOfSeq
<1> QED
  BY <1>2

LEMMA RecordsUntouched ==
  ASSUME IInv, records' = records, missed \subseteq missed'
  PROVE  OwnTimestamps' /\ StampsNeverAhead'
BY DEF IInv, OwnTimestamps, StampsNeverAhead

-----------------------------------------------------------------------------
\* The steps that hand nothing over, get no timestamp and end no wait.
Quiet ==
  \/ StopTx \/ Tick \/ SkipPort \/ ConstructFails \/ Retry \/ Prepare \/ Refuse \/ ReadAgain
  \/ UNCHANGED vars

LEMMA QuietStep == IInv /\ Quiet => IInv'
<1> SUFFICES ASSUME IInv, Quiet PROVE IInv'
  OBVIOUS
<1> USE DEF callback, probes, nic, history, At, Goto
<1>1. UNCHANGED <<nextIdx, nextPkt, file, records, queue, latch, accepted, missed>>
  BY DEF Quiet, StopTx, Tick, SkipPort, ConstructFails, Retry, Prepare, Flagged, Refuse,
         ReadAgain, vars
<1>2. /\ pc \in {"idle", "port", "prepare", "send", "poll"} /\ i \in Nat /\ wait \in 0 .. MaxWait
      /\ txRunning \in {"yes", "no"}
      /\ pc \in {"prepare", "send"} => nextPkt[i] # {}
  BY DEF IInv, TypeOK, PlaceInv, PortInv, Numbered, Handing
<1>3. /\ PlaceInv'
      /\ pc' \in {"idle", "port", "prepare", "send", "poll"} /\ i' \in Nat /\ wait' \in 0 .. MaxWait
      /\ txRunning' \in {"yes", "no"}
      /\ \A p \in PortIds : Polling(p)' <=> Polling(p)
      /\ pc' \in {"prepare", "send"} => nextPkt[i'] # {}
  <2> PlaceInv
    BY DEF IInv
  <2> USE <1>2, PortsAssumption, MaxWaitAssumption DEF PlaceInv, PortIds, Polling
  <2>1. CASE StopTx \/ UNCHANGED vars
    BY <2>1 DEF StopTx, vars
  <2>2. CASE Tick \/ Prepare
    BY <2>2 DEF Tick, Prepare
  <2>3. CASE SkipPort \/ ConstructFails \/ Refuse
    BY <2>3 DEF SkipPort, ConstructFails, Refuse, NextPort
  <2>4. CASE Retry \/ ReadAgain
    BY <2>4 DEF Retry, ReadAgain
  <2> QED
    BY <2>1, <2>2, <2>3, <2>4 DEF Quiet
<1>4. TypeOK'
  BY <1>1, <1>3 DEF IInv, TypeOK
<1>5. ASSUME NEW p \in PortIds PROVE PortInv(p)'
  BY <1>1, <1>3, PortUntouched DEF IInv, Handing
<1>6. OwnTimestamps' /\ StampsNeverAhead'
  BY <1>1, RecordsUntouched
<1> QED
  BY <1>3, <1>4, <1>5, <1>6 DEF IInv

\* __construct_probe
LEMMA ConstructStep == IInv /\ Construct => IInv'
<1> SUFFICES ASSUME IInv, Construct PROVE IInv'
  OBVIOUS
<1> USE DEF callback, probes, nic, history, At, Goto, Polling, Handing
<1>1. /\ UNCHANGED <<i, file, records, queue, latch, accepted, missed>>
      /\ pc = "port" /\ pc' = "prepare" /\ i \in PortIds /\ i \in Enabled
      /\ nextPkt' = [nextPkt EXCEPT ![i] = {nextIdx[i]}]
      /\ nextIdx' = [nextIdx EXCEPT ![i] = @ + 1]
      /\ nextPkt[i] = {}
  BY DEF Construct, IInv, PlaceInv
<1>2. TypeOK'
  BY <1>1 DEF Construct, IInv, TypeOK
<1>3. PlaceInv'
  BY <1>1 DEF PlaceInv
<1>4. PortInv(i)'
  <2>1. Numbered(i)'
    BY <1>1 DEF IInv, TypeOK, PortInv, Numbered
  <2>2. Held(i)' /\ Older(i)' /\ Clean(i)'
    BY <1>1 DEF IInv, PortInv, Held, Older, Clean, Sent
  <2> QED
    BY <1>1, <2>1, <2>2 DEF PortInv
<1>5. ASSUME NEW p \in PortIds, p # i PROVE PortInv(p)'
  BY <1>1, <1>5, PortUntouched DEF IInv, TypeOK
<1>6. OwnTimestamps' /\ StampsNeverAhead'
  BY <1>1, RecordsUntouched
<1> QED
  BY <1>1, <1>2, <1>3, <1>4, <1>5, <1>6 DEF IInv

\* rte_eth_tx_burst takes the probe.
LEMMA SendStep == IInv /\ Send => IInv'
<1> SUFFICES ASSUME IInv, Send PROVE IInv'
  OBVIOUS
<1> USE DEF callback, probes, nic, history, At, Goto, Polling, Handing
<1> DEFINE len == Len(accepted[i])
<1>1. /\ UNCHANGED <<i, file, records, nextIdx, nextPkt, latch, missed>>
      /\ pc = "send" /\ pc' = "poll" /\ i \in PortIds /\ i \in Enabled
      /\ accepted[i] \in Seq(Nat) /\ queue[i] \in Seq(Nat) /\ len \in Nat
      /\ nextPkt[i] = {len} /\ nextIdx[i] = len + 1
  BY DEF Send, IInv, TypeOK, PlaceInv, PortInv, Numbered
<1>2. /\ queue' = [queue EXCEPT ![i] = Append(@, len)]
      /\ accepted' = [accepted EXCEPT ![i] = Append(@, len)]
  BY <1>1 DEF Send
<1>3. TypeOK'
  BY <1>1, <1>2, MaxWaitAssumption DEF Send, IInv, TypeOK
<1>4. /\ Len(accepted'[i]) = len + 1 /\ Len(queue'[i]) = Len(queue[i]) + 1
      /\ \A n \in 1 .. len : accepted'[i][n] = accepted[i][n]
      /\ accepted'[i][len + 1] = len
      /\ \A n \in 1 .. Len(queue[i]) : queue'[i][n] = queue[i][n]
      /\ queue'[i][Len(queue[i]) + 1] = len
      /\ Sent(i)' = Sent(i) /\ Len(queue[i]) \in Nat
  BY <1>1, <1>2 DEF IInv, TypeOK, Sent
<1>5. PlaceInv'
  BY <1>1 DEF PlaceInv
<1>6. PortInv(i)'
  <2> PortInv(i)
    BY <1>1 DEF IInv
  <2> HIDE DEF len
  <2>1. Numbered(i)'
    BY <1>1, <1>4 DEF PortInv, Numbered
  <2>2. Held(i)'
    <3>1. Len(queue[i]) <= len /\ \A n \in 1 .. Len(queue[i]) : queue[i][n] = Sent(i) + n - 1
      BY DEF PortInv, Held, len
    <3>2. Sent(i) = len - Len(queue[i])
      BY DEF Sent, len
    <3>3. \A n \in 1 .. Len(queue'[i]) : queue'[i][n] = Sent(i) + n - 1
      <4>1. len \in Nat /\ Len(queue[i]) \in Nat /\ Len(queue'[i]) = Len(queue[i]) + 1
        BY <1>1, <1>4 DEF len
      <4>2. ASSUME NEW n \in 1 .. Len(queue[i]) PROVE queue'[i][n] = Sent(i) + n - 1
        BY <1>4, <3>1
      <4>3. queue'[i][Len(queue[i]) + 1] = Sent(i) + (Len(queue[i]) + 1) - 1
        BY <1>4, <3>2, <4>1
      <4> QED
        BY <4>1, <4>2, <4>3
    <3>4. latch[i] = {} \/ \E t \in 1 .. Sent(i) : latch[i] = {t}
      BY DEF PortInv, Held
    <3> QED
      BY <1>1, <1>4, <3>1, <3>3, <3>4 DEF Held
  <2>3. Older(i)'
    <3> SUFFICES ASSUME NEW n \in 1 .. Len(records[i])
                 PROVE  /\ records[i][n].idx < len
                        /\ records[i][n].stamp <= Sent(i)
                        /\ \A t \in latch[i] : records[i][n].stamp < t
      <4> SUFFICES ASSUME NEW n \in 1 .. Len(records[i])
                   PROVE  /\ records[i][n].idx < len + 1 /\ records[i][n].idx < len + 1 - 1
                          /\ records[i][n].stamp <= Sent(i)
                          /\ \A t \in latch[i] : records[i][n].stamp < t
        BY <1>1, <1>4 DEF Older
      <4> QED
        BY <1>1, RecordTypes DEF IInv
    <3> QED
      BY DEF PortInv, Older, len
  <2>4. Clean(i)'
    BY <1>1, <1>4 DEF PortInv, Clean
  <2> QED
    BY <2>1, <2>2, <2>3, <2>4 DEF PortInv
<1>7. ASSUME NEW p \in PortIds, p # i PROVE PortInv(p)'
  BY <1>1, <1>2, <1>7, PortUntouched DEF IInv, TypeOK
<1>8. OwnTimestamps' /\ StampsNeverAhead'
  BY <1>1, RecordsUntouched
<1> QED
  BY <1>1, <1>3, <1>5, <1>6, <1>7, <1>8 DEF IInv

\* The NIC sends a probe.
LEMMA TransmitStep == ASSUME IInv, NEW q \in PortIds, Transmit(q) PROVE IInv'
<1> USE DEF callback, probes, nic, history, Polling, Handing
<1>1. /\ UNCHANGED <<pc, i, wait, txRunning, file, records, nextIdx, nextPkt, accepted, missed>>
      /\ queue[q] # << >> /\ queue[q] \in Seq(Nat)
      /\ queue' = [queue EXCEPT ![q] = Tail(@)]
      /\ Len(accepted[q]) \in Nat /\ Len(queue[q]) <= Len(accepted[q])
  BY DEF Transmit, IInv, TypeOK, PortInv, Held
<1>2. /\ Len(queue[q]) \in Nat \ {0}
      /\ queue'[q] \in Seq(Nat) /\ Len(queue'[q]) = Len(queue[q]) - 1
      /\ \A n \in 1 .. Len(queue'[q]) : queue'[q][n] = queue[q][n + 1]
  BY <1>1, HeadTailProperties, EmptySeq DEF IInv, TypeOK
<1>3. Sent(q) \in Nat /\ Sent(q)' = Sent(q) + 1
  <2>1. Len(accepted'[q]) = Len(accepted[q]) /\ Len(accepted[q]) \in Nat
        /\ Len(queue[q]) <= Len(accepted[q])
    BY <1>1
  <2>2. Len(queue[q]) \in Nat \ {0} /\ Len(queue'[q]) = Len(queue[q]) - 1
    BY <1>2
  <2> QED
    BY <2>1, <2>2 DEF Sent
<1>4. latch' = [latch EXCEPT ![q] = IF @ = {} THEN {Sent(q) + 1} ELSE @]
  <2>1. Head(queue[q]) = queue[q][1]
    OBVIOUS
  <2>2. queue[q][1] = Sent(q)
    BY <1>2, <1>3 DEF IInv, PortInv, Held
  <2> QED
    BY <2>1, <2>2 DEF Transmit
<1>5. TypeOK'
  <2>1. queue' \in [PortIds -> Seq(Nat)]
    BY <1>1, <1>2 DEF IInv, TypeOK
  <2>2. latch' \in [PortIds -> SUBSET Nat]
    BY <1>3, <1>4 DEF IInv, TypeOK
  <2> QED
    BY <1>1, <2>1, <2>2 DEF IInv, TypeOK
<1>6. PlaceInv'
  BY <1>1 DEF IInv, PlaceInv
<1>7. PortInv(q)'
  <2>1. /\ PortInv(q) /\ latch[q] \in SUBSET Nat
        /\ latch'[q] = IF latch[q] = {} THEN {Sent(q) + 1} ELSE latch[q]
    BY <1>4 DEF IInv, TypeOK
  <2>2. Numbered(q)'
    BY <1>1, <2>1 DEF PortInv, Numbered
  <2>3. Held(q)'
    <3>1. \A n \in 1 .. Len(queue'[q]) : queue'[q][n] = Sent(q)' + n - 1
      BY <1>2, <1>3, <2>1 DEF PortInv, Held
    <3>2. Len(queue'[q]) <= Len(accepted'[q])
      BY <1>1, <1>2
    <3>3. latch'[q] = {} \/ \E t \in 1 .. Sent(q)' : latch'[q] = {t}
      <4>1. CASE latch[q] = {}
        BY <1>3, <2>1, <4>1
      <4>2. CASE latch[q] # {}
        BY <1>3, <2>1, <4>2 DEF PortInv, Held
      <4> QED
        BY <4>1, <4>2
    <3> QED
      BY <3>1, <3>2, <3>3 DEF Held
  <2>4. Older(q)'
    <3> SUFFICES ASSUME NEW n \in 1 .. Len(records[q])
                 PROVE  /\ records[q][n].idx < Len(accepted[q])
                        /\ Polling(q) => records[q][n].idx < Len(accepted[q]) - 1
                        /\ records[q][n].stamp <= Sent(q) + 1
                        /\ \A t \in latch'[q] : records[q][n].stamp < t
      BY <1>1, <1>3 DEF Older
    <3>1. records[q][n].stamp \in Nat
      BY RecordTypes DEF IInv
    <3> QED
      BY <1>3, <2>1, <3>1 DEF PortInv, Older
  <2>5. Clean(q)'
    <3> SUFFICES ASSUME file # "failed", q \notin missed
                 PROVE  /\ Polling(q) /\ Len(queue'[q]) = 0
                        /\ latch'[q] = {Len(accepted[q])}
      BY <1>1 DEF Clean
    <3>1. Polling(q) /\ Len(queue[q]) = 1 /\ latch[q] = {}
      BY <1>2, <2>1 DEF PortInv, Clean
    <3>2. Sent(q) = Len(accepted[q]) - 1
      BY <3>1 DEF Sent
    <3> QED
      BY <1>1, <1>2, <2>1, <3>1, <3>2
  <2> QED
    BY <2>2, <2>3, <2>4, <2>5 DEF PortInv
<1>8. ASSUME NEW p \in PortIds, p # q PROVE PortInv(p)'
  BY <1>1, <1>4, <1>8, PortUntouched DEF IInv, TypeOK, PortInv, Numbered
<1>9. OwnTimestamps' /\ StampsNeverAhead'
  BY <1>1, RecordsUntouched
<1> QED
  BY <1>5, <1>6, <1>7, <1>8, <1>9 DEF IInv

\* The end of a wait, and what it leaves of the register and of the trace file.
EndOfWait ==
  /\ pc = "poll" /\ Done
  /\ UNCHANGED wait /\ file' \in {"none", "open", "failed"}
  /\ file = "failed" => file' = "failed"
  /\ latch' \in {latch, [latch EXCEPT ![i] = {}]}

LEMMA NextPortPlace ==
  ASSUME PlaceInv, pc = "poll", NextPort
  PROVE  PlaceInv' /\ pc' \in {"idle", "port"} /\ i' \in Nat
BY PortsAssumption DEF PlaceInv, NextPort, PortIds

LEMMA AfterWait ==
  ASSUME IInv, EndOfWait, NEW q \in PortIds, q = i,
         records' \in [PortIds -> Seq([idx : Nat, stamp : Nat])],
         \A p \in PortIds \ {q} : records'[p] = records[p],
         missed \subseteq missed', missed' \in SUBSET PortIds
  PROVE  /\ TypeOK' /\ PlaceInv' /\ ~Polling(q)'
         /\ Numbered(q)' /\ Held(q)' /\ UNCHANGED <<accepted, queue>>
         /\ \A p \in PortIds \ {q} : PortInv(p)'
<1>1. /\ UNCHANGED <<nextIdx, queue, accepted, txRunning>>
      /\ pc = "poll" /\ pc' \in {"idle", "port"} /\ i' \in Nat /\ PlaceInv'
      /\ nextPkt' = [nextPkt EXCEPT ![i] = {}]
  BY NextPortPlace DEF EndOfWait, Done, IInv
<1>2. TypeOK'
  BY <1>1 DEF EndOfWait, IInv, TypeOK
<1>3. nextPkt'[q] = {} /\ latch'[q] \in {latch[q], {}}
  BY <1>1 DEF IInv, TypeOK, EndOfWait
<1>4. /\ PortInv(q) /\ Polling(q)
      /\ \A p : Polling(p)' = FALSE /\ Handing(p)' = FALSE
  BY <1>1 DEF IInv, PortInv, Polling, Handing
<1>5. Numbered(q)'
  BY <1>1, <1>3, <1>4 DEF PortInv, Numbered
<1>6. Held(q)'
  BY <1>1, <1>3, <1>4 DEF PortInv, Held, Sent
<1>7. ASSUME NEW p \in PortIds, p # q PROVE PortInv(p)'
  BY <1>1, <1>4, <1>7, PortUntouched DEF IInv, TypeOK, EndOfWait, Polling
<1> QED
  BY <1>1, <1>2, <1>4, <1>5, <1>6, <1>7

\* Without a record, a wait counts as missed, or recording is over.
LEMMA WaitInVain ==
  ASSUME IInv, EndOfWait, records' = records,
         missed' \in {missed, missed \cup {i}}, file' = "failed" \/ i \in missed'
  PROVE  IInv'
<1>1. PICK q \in PortIds : q = i
  BY DEF IInv, EndOfWait, PlaceInv
<1>2. /\ missed \subseteq missed' /\ missed' \in SUBSET PortIds
      /\ records' \in [PortIds -> Seq([idx : Nat, stamp : Nat])]
  BY <1>1 DEF IInv, TypeOK
<1>3. /\ TypeOK' /\ PlaceInv' /\ ~Polling(q)'
      /\ Numbered(q)' /\ Held(q)' /\ UNCHANGED <<accepted, queue>>
      /\ \A p \in PortIds \ {q} : PortInv(p)'
  BY <1>1, <1>2, AfterWait
<1>4. Older(q)'
  <2>1. PortInv(q) /\ latch'[q] \subseteq latch[q]
    BY <1>1 DEF IInv, TypeOK, EndOfWait
  <2> QED
    BY <1>3, <2>1 DEF PortInv, Older, Sent
<1>5. Clean(q)'
  BY <1>1 DEF Clean
<1>6. OwnTimestamps' /\ StampsNeverAhead'
  BY <1>2, RecordsUntouched
<1> QED
  BY <1>3, <1>4, <1>5, <1>6 DEF IInv, PortInv

\* Untraced, GiveUp, ReadTooLate, OpenFails
LEMMA VainStep == IInv /\ (Untraced \/ GiveUp \/ ReadTooLate \/ OpenFails) => IInv'
<1> SUFFICES ASSUME IInv, Untraced \/ GiveUp \/ ReadTooLate \/ OpenFails PROVE IInv'
  OBVIOUS
<1>1. EndOfWait
  BY DEF Untraced, GiveUp, ReadTooLate, OpenFails, EndOfWait, At, IInv, TypeOK
<1>2. /\ records' = records /\ missed' \in {missed, missed \cup {i}}
      /\ file' = "failed" \/ i \in missed'
  BY DEF Untraced, GiveUp, ReadTooLate, OpenFails
<1> QED
  BY <1>1, <1>2, WaitInVain

\* A timestamp is read in time and recorded.
LEMMA RecordStep == IInv /\ Record => IInv'
<1> SUFFICES ASSUME IInv, Record PROVE IInv'
  OBVIOUS
<1>1. PICK q \in PortIds : q = i
  BY DEF IInv, PlaceInv, Record, At
<1> DEFINE len == Len(accepted[q])
           last == Len(records[q])
<1>2. /\ TypeOK /\ PortInv(q) /\ Polling(q)
      /\ accepted[q] \in Seq(Nat) /\ queue[q] \in Seq(Nat) /\ len \in Nat
      /\ records[q] \in Seq([idx : Nat, stamp : Nat]) /\ last \in Nat
  BY <1>1 DEF Record, At, IInv, TypeOK, Polling
<1>3. len > 0 /\ nextPkt[q] = {len - 1}
  BY <1>2 DEF PortInv, Numbered
<1>4. Sent(q) \in Int /\ Sent(q) <= len
  <2> DEFINE held == Len(queue[q])
  <2>1. len \in Nat /\ held \in Nat /\ Sent(q) = len - held
    BY <1>2 DEF Sent
  <2> HIDE DEF len, held
  <2> QED
    BY <2>1
<1>5. PICK t \in 1 .. Sent(q) : latch[q] = {t}
  BY <1>1, <1>2 DEF Record, PortInv, Held
<1>6. t \in Nat \ {0} /\ t <= len
  BY <1>2, <1>4, <1>5
<1> DEFINE new == [idx |-> len - 1, stamp |-> t]
<1>7. records' = [records EXCEPT ![q] = Append(@, new)] /\ new \in [idx : Nat, stamp : Nat]
  <2>1. (CHOOSE n \in nextPkt[q] : TRUE) = len - 1
    BY <1>3
  <2>2. RecordOf(i, t) = new
    BY <1>1, <2>1 DEF RecordOf
  <2>3. new \in [idx : Nat, stamp : Nat]
    BY <1>2, <1>3, <1>4, <1>6
  <2> QED
    BY <1>1, <1>5, <2>2, <2>3 DEF Record
<1>8. /\ records' \in [PortIds -> Seq([idx : Nat, stamp : Nat])]
      /\ \A p \in PortIds \ {q} : records'[p] = records[p]
      /\ Len(records'[q]) = last + 1
      /\ records'[q][last + 1].idx = len - 1 /\ records'[q][last + 1].stamp = t
      /\ \A n \in 1 .. last : records'[q][n] = records[q][n]
  <2> HIDE DEF new
  <2>1. Append(records[q], new) \in Seq([idx : Nat, stamp : Nat])
    BY <1>2, <1>7, AppendProperties
  <2>2. /\ records' \in [PortIds -> Seq([idx : Nat, stamp : Nat])]
        /\ \A p \in PortIds \ {q} : records'[p] = records[p]
        /\ records'[q] = Append(records[q], new)
    BY <1>2, <1>7, <2>1 DEF TypeOK
  <2>3. /\ Len(records'[q]) = last + 1 /\ records'[q][last + 1] = new
        /\ \A n \in 1 .. last : records'[q][n] = records[q][n]
    BY <1>2, <1>7, <2>2, AppendProperties
  <2> QED
    BY <2>2, <2>3 DEF new
<1>9. EndOfWait /\ missed' = missed /\ latch'[q] = {} /\ missed \in SUBSET PortIds
  BY <1>1, <1>2 DEF Record, EndOfWait, At, TypeOK
<1>10. /\ TypeOK' /\ PlaceInv' /\ ~Polling(q)'
      /\ Numbered(q)' /\ Held(q)' /\ UNCHANGED <<accepted, queue>>
      /\ \A p \in PortIds \ {q} : PortInv(p)'
  BY <1>1, <1>8, <1>9, AfterWait
<1>11. \A n \in 1 .. last : /\ records[q][n].idx < len - 1 /\ records[q][n].stamp < t
                            /\ records[q][n].idx \in Nat /\ records[q][n].stamp \in Nat
  BY <1>2, <1>5, RecordTypes DEF PortInv, Older
<1> HIDE DEF len, last, new
<1>12. Older(q)'
  <2>1. ASSUME NEW n \in 1 .. last + 1
        PROVE  records'[q][n].idx < len /\ records'[q][n].stamp <= Sent(q)
    <3>1. CASE n = last + 1
      BY <1>2, <1>5, <1>8, <3>1
    <3>2. CASE n \in 1 .. last
      <4>1. records'[q][n] = records[q][n]
        BY <1>8, <3>2
      <4>2. /\ records[q][n].idx < len - 1 /\ records[q][n].stamp < t
            /\ records[q][n].idx \in Nat /\ records[q][n].stamp \in Nat
        BY <1>11, <3>2
      <4> DEFINE sent == Sent(q)
                 idx == records[q][n].idx
                 stamp == records[q][n].stamp
      <4>3. /\ len \in Nat /\ sent \in Int /\ t \in 1 .. sent
            /\ idx \in Nat /\ stamp \in Nat /\ idx < len - 1 /\ stamp < t
        BY <1>2, <1>4, <1>5, <4>2
      <4> HIDE DEF sent, idx, stamp
      <4>4. idx < len /\ stamp <= sent
        BY <4>3
      <4> QED
        BY <4>1, <4>4 DEF sent, idx, stamp
    <3> QED
      BY <1>2, <3>1, <3>2
  <2> QED
    BY <1>8, <1>9, <1>10, <2>1 DEF Older, Sent, len
<1>13. Clean(q)'
  <2> SUFFICES ASSUME q \notin missed PROVE Len(queue[q]) = 0
    BY <1>9, <1>10 DEF Clean
  <2> QED
    BY <1>1, <1>2, <1>5 DEF PortInv, Clean, Record
<1>14. OwnTimestamps'
  <2>1. q \notin missed => t = len
    BY <1>1, <1>2, <1>5 DEF PortInv, Clean, Record, len
  <2>2. \A p \in PortIds \ missed : \A n \in 1 .. Len(records[p]) :
          records[p][n].stamp = records[p][n].idx + 1
    BY DEF IInv, OwnTimestamps
  <2>3. ASSUME q \notin missed, NEW n \in 1 .. last + 1
        PROVE  records'[q][n].stamp = records'[q][n].idx + 1
    <3>1. CASE n = last + 1
      BY <1>2, <1>8, <2>1, <2>3, <3>1 DEF len
    <3>2. CASE n \in 1 .. last
      BY <1>8, <2>2, <2>3, <3>2 DEF last
    <3> QED
      BY <1>2, <3>1, <3>2
  <2>4. ASSUME NEW p \in PortIds \ missed, NEW n \in 1 .. Len(records'[p])
        PROVE  records'[p][n].stamp = records'[p][n].idx + 1
    <3>1. CASE p = q
      BY <1>8, <2>3, <2>4, <3>1
    <3>2. CASE p # q
      BY <1>8, <2>2, <2>4, <3>2
    <3> QED
      BY <3>1, <3>2
  <2> QED
    BY <1>9, <2>4 DEF OwnTimestamps
<1>15. StampsNeverAhead'
  <2>1. \A p \in PortIds : \A n \in 1 .. Len(records[p]) :
          /\ records[p][n].stamp \in 1 .. records[p][n].idx + 1
          /\ n > 1 => /\ records[p][n - 1].idx < records[p][n].idx
                      /\ records[p][n - 1].stamp < records[p][n].stamp
    BY DEF IInv, StampsNeverAhead
  <2>2. ASSUME NEW n \in 1 .. last + 1
        PROVE  /\ records'[q][n].stamp \in 1 .. records'[q][n].idx + 1
               /\ n > 1 => /\ records'[q][n - 1].idx < records'[q][n].idx
                           /\ records'[q][n - 1].stamp < records'[q][n].stamp
    <3>1. CASE n = last + 1
      <4>1. records'[q][n].stamp \in 1 .. records'[q][n].idx + 1
        BY <1>2, <1>4, <1>6, <1>8, <3>1
      <4>2. n > 1 => n - 1 \in 1 .. last
        BY <1>2, <3>1
      <4> QED
        BY <1>8, <1>11, <3>1, <4>1, <4>2
    <3>2. CASE n \in 1 .. last
      <4>1. n > 1 => n - 1 \in 1 .. last
        BY <1>2, <3>2
      <4> QED
        BY <1>1, <1>8, <2>1, <3>2, <4>1 DEF last
    <3> QED
      BY <1>2, <3>1, <3>2
  <2> QED
    BY <1>8, <2>1, <2>2 DEF StampsNeverAhead
<1> QED
  BY <1>10, <1>12, <1>13, <1>14, <1>15 DEF IInv, PortInv

-----------------------------------------------------------------------------
LEMMA StepIInv == IInv /\ [Next]_vars => IInv'
<1> SUFFICES ASSUME IInv, [Next]_vars PROVE IInv'
  OBVIOUS
<1>1. CASE Quiet
  BY <1>1, QuietStep
<1>2. CASE Construct \/ Send
  BY <1>2, ConstructStep, SendStep
<1>3. CASE Untraced \/ GiveUp \/ ReadTooLate \/ OpenFails
  BY <1>3, VainStep
<1>4. CASE Record
  BY <1>4, RecordStep
<1>5. ASSUME NEW p \in PortIds, Transmit(p) PROVE IInv'
  BY <1>5, TransmitStep
<1> QED
  BY <1>1, <1>2, <1>3, <1>4, <1>5 DEF Next, Callback, Quiet

\* The inductive invariant: the probe that is waited for is the last one handed over,
\* the register never holds anything newer, and no record anything as new.
THEOREM Invariance == Spec => []IInv
BY InitIInv, StepIInv, PTL DEF Spec

\* The variables of __process_probe, libpkttracer and the NIC keep their types.
THEOREM TypeCorrect == Spec => []TypeOK
<1>1. IInv => TypeOK
  BY DEF IInv
<1> QED
  BY <1>1, Invariance, PTL

\* However often rte_eth_tx_burst refuses a probe, mbufs run out or TX is stopped, a
\* port's probes are handed over in the order of their indices, with none left out.
THEOREM NoIndexSkipped == Spec => []ProbesInSequence
<1>1. IInv => ProbesInSequence
  <2> SUFFICES ASSUME IInv, NEW p \in PortIds
               PROVE  /\ \A n \in 1 .. Len(accepted[p]) : accepted[p][n] = n - 1
                      /\ nextIdx[p] - Len(accepted[p]) \in 0 .. 1
                      /\ nextIdx[p] > Len(accepted[p]) => nextPkt[p] = {Len(accepted[p])}
    BY DEF ProbesInSequence
  <2>1. Len(accepted[p]) \in Nat
    BY DEF IInv, TypeOK
  <2> QED
    BY <2>1 DEF IInv, PortInv, Numbered
<1> QED
  BY <1>1, Invariance, PTL

\* trace_hw_tx_record writes a probe's own timestamp as long as it missed none on that port.
THEOREM TimestampsMatch == Spec => []OwnTimestamps
<1>1. IInv => OwnTimestamps
  BY DEF IInv
<1> QED
  BY <1>1, Invariance, PTL

\* Whatever trace_hw_tx_record missed, no record has the timestamp of a later probe, or
\* one that was used before.
THEOREM TimestampsInOrder == Spec => []StampsNeverAhead
<1>1. IInv => StampsNeverAhead
  BY DEF IInv
<1> QED
  BY <1>1, Invariance, PTL
=============================================================================
