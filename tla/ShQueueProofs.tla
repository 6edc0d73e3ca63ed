---------------------------- MODULE ShQueueProofs ----------------------------
(***************************************************************************)
(* Proofs about ShQueue for every number of pages and of publications.     *)
(***************************************************************************)
EXTENDS ShQueue, TLAPS

(* The index arithmetic, with the remainder resolved once and for all. *)
LEMMA NextIndexValue ==
  ASSUME NEW i \in Slots
  PROVE  nextIndex(i) = IF i = Count - 1 THEN 0 ELSE i + 1
BY CountAssumption DEF nextIndex, Slots

(* Stepping an index keeps it inside the queue. *)
LEMMA NextIndexInSlots ==
  ASSUME NEW i \in Slots
  PROVE  nextIndex(i) \in Slots
BY NextIndexValue, CountAssumption DEF Slots

(* The queue is type correct: the indices never leave the queue and the    *)
(* wait state word is one of the three of storage.H.                       *)
LEMMA TypeStep == TypeOK /\ [Next]_vars => TypeOK'
<1> SUFFICES ASSUME TypeOK, [Next]_vars PROVE TypeOK'
  OBVIOUS
<1> USE DEF TypeOK
<1>1. CASE WAny
  <2> USE DEF shared, others
  <2>1. CASE WNext \/ WPollNext \/ WCheck \/ WRecheck \/ WWait \/ WInterrupt
    BY <2>1 DEF WNext, WPollNext, WCheck, WRecheck, WWait, WInterrupt,
       WriterPoints, Points
  <2>2. CASE WXchg \/ WUnblock \/ WExchange
    BY <2>2 DEF WXchg, WUnblock, WExchange, WriterPoints, Points,
       WaitStates, Unblocked, WriterWaiting
  <2>3. CASE WWake \/ WNotify
    BY <2>3 DEF WWake, WNotify, WakeReader, WriterPoints, ReaderPoints, Points
  <2>4. CASE WFill
    BY <2>4 DEF WFill, WriterPoints, Points
  <2>5. CASE WPush
    BY <2>5, NextIndexInSlots DEF WPush, WriterPoints, Points
  <2> QED
    BY <1>1, <2>1, <2>2, <2>3, <2>4, <2>5 DEF WAny, WStep
<1>2. CASE RAny
  <2> USE DEF shared, others
  <2>1. CASE RNext \/ RPollNext \/ RCheck \/ RRecheck \/ RWait \/ RInterrupt
             \/ RTimeout
    BY <2>1 DEF RNext, RPollNext, RCheck, RRecheck, RWait, RInterrupt,
       RTimeout, ReaderPoints, Points
  <2>2. CASE RXchg \/ RUnblock \/ RExchange
    BY <2>2 DEF RXchg, RUnblock, RExchange, ReaderPoints, Points,
       WaitStates, Unblocked, ReaderWaiting
  <2>3. CASE RWake \/ RNotify
    BY <2>3 DEF RWake, RNotify, WakeWriter, WriterPoints, ReaderPoints, Points
  <2>4. CASE RRead
    BY <2>4 DEF RRead, ReaderPoints, Points
  <2>5. CASE RPop
    BY <2>5, NextIndexInSlots DEF RPop, ReaderPoints, Points
  <2> QED
    BY <1>2, <2>1, <2>2, <2>3, <2>4, <2>5 DEF RAny, RStep
<1>3. CASE UNCHANGED vars
  BY <1>3 DEF vars
<1> QED
  BY <1>1, <1>2, <1>3 DEF Next
-----------------------------------------------------------------------------
(* Distances around the ring. *)

LEMMA DistBounds ==
  ASSUME NEW i \in Slots, NEW j \in Slots
  PROVE  /\ Dist(i, j) \in 0 .. Count - 1
         /\ Dist(i, j) = 0 <=> i = j
BY CountAssumption DEF Slots, Dist

LEMMA DistInjective ==
  ASSUME NEW i \in Slots, NEW j \in Slots, NEW k \in Slots,
         Dist(i, j) = Dist(i, k)
  PROVE  j = k
BY CountAssumption DEF Slots, Dist

(* Publishing a page moves the write index one further from the read one. *)
LEMMA DistAdvance ==
  ASSUME NEW i \in Slots, NEW j \in Slots, i # nextIndex(j)
  PROVE  Dist(i, nextIndex(j)) = Dist(i, j) + 1
BY NextIndexValue, CountAssumption DEF Slots, Dist

(* Freeing a page moves the read index one closer to every other slot. *)
LEMMA DistApproach ==
  ASSUME NEW i \in Slots, NEW j \in Slots, i # j
  PROVE  Dist(nextIndex(i), j) = Dist(i, j) - 1
BY NextIndexValue, CountAssumption DEF Slots, Dist

(* The slot just freed is the last the reader will come back to. *)
LEMMA DistAround ==
  ASSUME NEW i \in Slots
  PROVE  Dist(nextIndex(i), i) = Count - 1
BY NextIndexValue, CountAssumption DEF Slots, Dist

LEMMA NextIndexInjective ==
  ASSUME NEW i \in Slots, NEW j \in Slots, nextIndex(i) = nextIndex(j)
  PROVE  i = j
BY NextIndexValue, CountAssumption DEF Slots

-----------------------------------------------------------------------------
(* The pages: what the writer and the reader own is preserved. *)

PagesInv == PagesIntact /\ InOrder /\ WriterHolds /\ ReaderHolds

(* A step that leaves the indices, the pages and the history alone, and    *)
(* lets a process reach a page only when the code's test allowed it.       *)
LEMMA PagesStep == TypeOK /\ PagesInv /\ [Next]_vars => PagesInv'
<1> SUFFICES ASSUME TypeOK, PagesInv, [Next]_vars PROVE PagesInv'
  OBVIOUS
<1>type. TypeOK'
  BY TypeStep
<1>same. ASSUME UNCHANGED <<ri, wi, data, pushed, popped, received, rval>>,
                wpc' = wpc \/ wpc' \notin {"fill", "step"}
                           \/ (wpc' = "fill" /\ ~Full),
                rpc' = rpc \/ rpc' \notin {"read", "step"}
                           \/ (rpc' = "read" /\ ~Empty)
         PROVE  PagesInv'
  BY <1>same DEF PagesInv, PagesIntact, InOrder, WriterHolds, ReaderHolds,
     Dist, Full, Empty
<1>fill. CASE WFill
  <2>1. /\ ri' = ri /\ wi' = wi /\ pushed' = pushed /\ popped' = popped
        /\ rval' = rval /\ received' = received /\ rpc' = rpc
        /\ wpc = "fill" /\ wpc' = "step"
        /\ data' = [data EXCEPT ![wi] = pushed + 1]
    BY <1>fill DEF WFill, others
  <2>2. PagesIntact'
    <3>1. ASSUME NEW s \in Slots, Dist(ri, s) < Dist(ri, wi)
          PROVE  data'[s] = popped + 1 + Dist(ri, s)
      <4>1. s # wi
        BY <3>1, DistBounds DEF TypeOK, Slots
      <4> QED
        BY <2>1, <3>1, <4>1 DEF TypeOK, PagesInv, PagesIntact
    <3> QED
      BY <2>1, <3>1 DEF PagesInv, PagesIntact, Dist
  <2>3. InOrder'
    BY <2>1 DEF PagesInv, InOrder
  <2>4. WriterHolds'
    BY <2>1 DEF PagesInv, WriterHolds, Full, TypeOK
  <2>5. ReaderHolds'
    BY <2>1 DEF PagesInv, ReaderHolds, Empty
  <2> QED
    BY <2>2, <2>3, <2>4, <2>5 DEF PagesInv
<1>push. CASE WPush
  <2>1. /\ ri' = ri /\ data' = data /\ popped' = popped /\ rval' = rval
        /\ received' = received /\ rpc' = rpc /\ pushed' = pushed + 1
        /\ wpc = "step" /\ wpc' = "exchange" /\ wi' = nextIndex(wi)
    BY <1>push DEF WPush
  <2>2. Dist(ri, wi') = Dist(ri, wi) + 1
    BY <2>1, DistAdvance DEF PagesInv, WriterHolds, Full, TypeOK
  <2>3. PagesIntact'
    <3>1. ASSUME NEW s \in Slots, Dist(ri, s) < Dist(ri, wi')
          PROVE  data[s] = popped + 1 + Dist(ri, s)
      <4>1. CASE Dist(ri, s) < Dist(ri, wi)
        BY <4>1 DEF PagesInv, PagesIntact
      <4>2. CASE Dist(ri, s) = Dist(ri, wi)
        <5>1. s = wi
          BY <4>2, DistInjective DEF TypeOK
        <5> QED
          BY <2>1, <4>2, <5>1 DEF PagesInv, PagesIntact, WriterHolds, TypeOK
      <4>3. Dist(ri, s) \in Int /\ Dist(ri, wi) \in Int
        BY CountAssumption, DistBounds DEF TypeOK
      <4> QED
        BY <2>2, <3>1, <4>1, <4>2, <4>3
    <3>2. pushed' - popped' = Dist(ri, wi')
      BY <2>1, <2>2, DistBounds DEF PagesInv, PagesIntact, TypeOK, Slots
    <3> QED
      BY <2>1, <3>1, <3>2 DEF PagesIntact, Dist
  <2>4. InOrder' /\ WriterHolds'
    BY <2>1 DEF PagesInv, InOrder, WriterHolds
  <2>5. ReaderHolds'
    BY <2>1, <2>2, DistBounds, <1>type
       DEF PagesInv, ReaderHolds, Empty, TypeOK, Slots
  <2> QED
    BY <2>3, <2>4, <2>5 DEF PagesInv
<1>read. CASE RRead
  <2>1. /\ UNCHANGED <<ri, wi, data, pushed, popped, received, wpc>>
        /\ rpc = "read" /\ rpc' = "step" /\ rval' = data[ri]
    BY <1>read DEF RRead, shared
  <2>2. data[ri] = popped + 1
    <3>1. Dist(ri, ri) = 0 /\ Dist(ri, wi) > 0
      BY <2>1, DistBounds DEF PagesInv, ReaderHolds, Empty, TypeOK, Slots
    <3> QED
      BY <3>1 DEF PagesInv, PagesIntact, TypeOK
  <2> QED
    BY <2>1, <2>2 DEF PagesInv, PagesIntact, InOrder, WriterHolds,
       ReaderHolds, Dist, Full, Empty
<1>pop. CASE RPop
  <2>1. /\ wi' = wi /\ data' = data /\ pushed' = pushed /\ rval' = rval
        /\ wpc' = wpc /\ popped' = popped + 1 /\ received' = rval
        /\ rpc = "step" /\ rpc' = "exchange" /\ ri' = nextIndex(ri)
    BY <1>pop DEF RPop
  <2>2. wi # ri
    BY <2>1 DEF PagesInv, ReaderHolds, Empty
  <2>3. Dist(ri', wi) = Dist(ri, wi) - 1
    BY <2>1, <2>2, DistApproach DEF TypeOK
  <2>4. PagesIntact'
    <3>1. ASSUME NEW s \in Slots, Dist(ri', s) < Dist(ri', wi)
          PROVE  data[s] = popped + 1 + 1 + Dist(ri', s)
      <4>1. s # ri
        <5>1. Dist(ri', ri) = Count - 1
          BY <2>1, DistAround DEF TypeOK
        <5>2. Dist(ri', wi) \in 0 .. Count - 1
          BY <1>type, DistBounds DEF TypeOK
        <5> QED
          BY <3>1, <5>1, <5>2, CountAssumption
      <4>2. Dist(ri', s) = Dist(ri, s) - 1
        BY <2>1, <4>1, DistApproach DEF TypeOK
      <4>3. Dist(ri, s) < Dist(ri, wi)
        BY <2>3, <3>1, <4>2, DistBounds DEF TypeOK, Slots
      <4>4. Dist(ri, s) \in 0 .. Count - 1
        BY DistBounds DEF TypeOK
      <4>5. data[s] = popped + 1 + Dist(ri, s)
        BY <4>3 DEF PagesInv, PagesIntact
      <4> QED
        BY <4>2, <4>4, <4>5 DEF TypeOK
    <3>2. pushed' - popped' = Dist(ri', wi)
      BY <2>1, <2>3, DistBounds DEF PagesInv, PagesIntact, TypeOK, Slots
    <3> QED
      BY <2>1, <3>1, <3>2 DEF PagesIntact, Dist, TypeOK
  <2>5. InOrder' /\ ReaderHolds'
    BY <2>1 DEF PagesInv, InOrder, ReaderHolds
  <2>6. WriterHolds'
    <3>1. ri' # nextIndex(wi)
      BY <2>1, <2>2, NextIndexInjective DEF TypeOK
    <3> QED
      BY <2>1, <3>1 DEF PagesInv, WriterHolds, Full
  <2> QED
    BY <2>4, <2>5, <2>6 DEF PagesInv
<1>wother. CASE WNext \/ WPollNext \/ WCheck \/ WXchg \/ WRecheck \/ WWait
                \/ WInterrupt \/ WUnblock \/ WWake \/ WExchange \/ WNotify
  BY <1>wother, <1>same DEF WNext, WPollNext, WCheck, WXchg, WRecheck, WWait,
     WInterrupt, WUnblock, WWake, WExchange, WNotify, WakeReader, shared,
     others
<1>rother. CASE RNext \/ RPollNext \/ RCheck \/ RXchg \/ RRecheck \/ RWait
                \/ RInterrupt \/ RTimeout \/ RUnblock \/ RWake \/ RExchange
                \/ RNotify
  BY <1>rother, <1>same DEF RNext, RPollNext, RCheck, RXchg, RRecheck, RWait,
     RInterrupt, RTimeout, RUnblock, RWake, RExchange, RNotify, WakeWriter,
     shared, others
<1>stutter. CASE UNCHANGED vars
  BY <1>stutter, <1>same DEF vars
<1> QED
  BY <1>fill, <1>push, <1>read, <1>pop, <1>wother, <1>rother, <1>stutter
     DEF Next, WAny, WStep, RAny, RStep
-----------------------------------------------------------------------------
(* The wait state protocol. *)

WakeInv ==
  ReaderMayWait /\ WriterMayWait /\ ReaderWillWake /\ WriterWillWake

(* No step lets a process sleep without the other being on its way to wake *)
(* it.  The interesting steps are the exchanges: each finds out what the   *)
(* other process had announced and takes over the duty to wake it.         *)
LEMMA WakeStep == TypeOK /\ PagesInv /\ WakeInv /\ [Next]_vars => WakeInv'
<1> SUFFICES ASSUME TypeOK, PagesInv, WakeInv, [Next]_vars PROVE WakeInv'
  OBVIOUS
<1> USE DEF WakeInv, ReaderMayWait, WriterMayWait, ReaderWillWake,
            WriterWillWake, Unblocked, ReaderWaiting, WriterWaiting
<1>1. CASE WNext \/ WPollNext \/ WCheck \/ WRecheck \/ WWait \/ WInterrupt
           \/ WFill
  BY <1>1 DEF WNext, WPollNext, WCheck, WRecheck, WWait, WInterrupt, WFill,
     shared, others, Full, Empty
<1>2. CASE WXchg \/ WUnblock
  BY <1>2 DEF WXchg, WUnblock, others, Full, Empty
<1>3. CASE WWake \/ WNotify
  BY <1>3 DEF WWake, WNotify, WakeReader, shared, others, Full, Empty
<1>4. CASE WPush
  BY <1>4 DEF WPush, Full, Empty
<1>5. CASE WExchange
  BY <1>5 DEF WExchange, others, Full, Empty
<1>6. CASE RNext \/ RPollNext \/ RCheck \/ RRecheck \/ RWait \/ RInterrupt
           \/ RTimeout \/ RRead
  BY <1>6 DEF RNext, RPollNext, RCheck, RRecheck, RWait, RInterrupt,
     RTimeout, RRead, shared, others, Full, Empty
<1>7. CASE RXchg \/ RUnblock
  BY <1>7 DEF RXchg, RUnblock, others, Full, Empty
<1>8. CASE RWake \/ RNotify
  BY <1>8 DEF RWake, RNotify, WakeWriter, shared, others, Full, Empty
<1>9. CASE RPop
  BY <1>9 DEF RPop, Full, Empty
<1>10. CASE RExchange
  BY <1>10 DEF RExchange, others, Full, Empty
<1>11. CASE UNCHANGED vars
  BY <1>11 DEF vars, Full, Empty
<1> QED
  BY <1>1, <1>2, <1>3, <1>4, <1>5, <1>6, <1>7, <1>8, <1>9, <1>10, <1>11
     DEF Next, WAny, WStep, RAny, RStep
-----------------------------------------------------------------------------
(* The theorems. *)

LEMMA InitInv == Init => QueueInv
<1> SUFFICES ASSUME Init PROVE QueueInv
  OBVIOUS
<1> USE DEF Init
<1>1. TypeOK
  <2>1. futex \in BOOLEAN
    BY BuildsAssumption, Zenon
  <2> QED
    BY <2>1, CountAssumption DEF TypeOK, WaitStates, Unblocked, Slots,
       WriterPoints, ReaderPoints, Points
<1>2. PagesIntact
  BY CountAssumption DEF PagesIntact, Dist, Slots
<1>3. InOrder /\ WriterHolds /\ ReaderHolds
  BY DEF InOrder, WriterHolds, ReaderHolds
<1>4. ReaderMayWait /\ WriterMayWait /\ ReaderWillWake /\ WriterWillWake
  BY DEF ReaderMayWait, WriterMayWait, ReaderWillWake, WriterWillWake
<1> QED
  BY <1>1, <1>2, <1>3, <1>4 DEF QueueInv

(* QueueInv is inductive. *)
THEOREM Inductive == SafeSpec => []QueueInv
<1>1. QueueInv /\ [Next]_vars => QueueInv'
  <2> SUFFICES ASSUME QueueInv, [Next]_vars PROVE QueueInv'
    OBVIOUS
  <2>1. TypeOK /\ PagesInv /\ WakeInv
    BY DEF QueueInv, PagesInv, WakeInv
  <2>2. TypeOK' /\ PagesInv' /\ WakeInv'
    BY <2>1, TypeStep, PagesStep, WakeStep
  <2> QED
    BY <2>2 DEF QueueInv, PagesInv, WakeInv
<1> QED
  BY <1>1, InitInv, PTL DEF SafeSpec

(* The queue is type correct: the indices stay inside the queue and the    *)
(* wait state word is one of the three storage.H names.                    *)
THEOREM TypeCorrect == Spec => []TypeOK
BY Inductive, PTL DEF Spec, QueueInv

(* writer::next() and pollNext() never hand out a page the reader has not  *)
(* freed, whatever the interleaving.                                       *)
THEOREM PagesAreIntact == Spec => []PagesIntact
BY Inductive, PTL DEF Spec, QueueInv

(* reader::next() and pop() yield the published pages in order, each once. *)
THEOREM PagesInOrder == Spec => []InOrder
BY Inductive, PTL DEF Spec, QueueInv

(* No wakeup is lost, on either side, with interrupted and timed waits.    *)
THEOREM NoLostWakeup == Spec => []SleepersWillWake
BY Inductive, PTL DEF Spec, QueueInv, SleepersWillWake
-----------------------------------------------------------------------------
(* The queue implements the bounded FIFO of PageQueue.  Under QueueInv the *)
(* unread pages are a run of consecutive publication numbers.              *)

Run(p, n) == [k \in 1 .. n |-> p + k]

LEMMA RunSeq ==
  ASSUME NEW p \in Nat, NEW n \in Nat
  PROVE  /\ Run(p, n) \in Seq(Nat)
         /\ Len(Run(p, n)) = n
BY DEF Run

LEMMA RunAppend ==
  ASSUME NEW p \in Nat, NEW n \in Nat
  PROVE  Append(Run(p, n), p + n + 1) = Run(p, n + 1)
<1> DEFINE s == Append(Run(p, n), p + n + 1)
<1>1. s \in Seq(Nat) /\ Len(s) = n + 1
  BY RunSeq
<1>2. ASSUME NEW k \in 1 .. n + 1 PROVE s[k] = p + k
  BY RunSeq DEF Run
<1>3. s = [k \in 1 .. n + 1 |-> s[k]]
  BY <1>1
<1> QED
  BY <1>2, <1>3 DEF Run

LEMMA RunTail ==
  ASSUME NEW p \in Nat, NEW n \in Nat, n > 0
  PROVE  /\ Run(p, n) # <<>>
         /\ Head(Run(p, n)) = p + 1
         /\ Tail(Run(p, n)) = Run(p + 1, n - 1)
<1>1. Run(p, n) # <<>> /\ Head(Run(p, n)) = p + 1
  BY RunSeq DEF Run
<1> DEFINE s == Tail(Run(p, n))
<1>2. s \in Seq(Nat) /\ Len(s) = n - 1
  BY RunSeq
<1>3. ASSUME NEW k \in 1 .. n - 1 PROVE s[k] = (p + 1) + k
  BY RunSeq DEF Run
<1>4. s = [k \in 1 .. n - 1 |-> s[k]]
  <2> HIDE DEF s
  <2> QED
    BY <1>2
<1> QED
  BY <1>1, <1>3, <1>4 DEF Run

(* The slot of the k-th unread page, with the remainder resolved. *)
LEMMA UnreadSlot ==
  ASSUME NEW i \in Slots, NEW k \in 1 .. Count - 1
  PROVE  /\ (i + k - 1) % Count \in Slots
         /\ Dist(i, (i + k - 1) % Count) = k - 1
<1>1. (i + k - 1) % Count =
        IF i + k - 1 < Count THEN i + k - 1 ELSE i + k - 1 - Count
  BY CountAssumption DEF Slots
<1> QED
  BY <1>1, CountAssumption DEF Slots, Dist

UnreadRun ==
  /\ pushed - popped \in Nat
  /\ Unread = Run(popped, pushed - popped)

LEMMA UnreadIsRun == QueueInv => UnreadRun
<1> SUFFICES ASSUME QueueInv PROVE UnreadRun
  OBVIOUS
<1>1. pushed - popped = Dist(ri, wi) /\ Dist(ri, wi) \in 0 .. Count - 1
  BY DistBounds DEF QueueInv, TypeOK, PagesIntact
<1>2. ASSUME NEW k \in 1 .. (pushed - popped)
      PROVE  data[(ri + k - 1) % Count] = popped + k
  <2>1. k \in 1 .. Count - 1
    BY <1>1, CountAssumption
  <2>2. /\ (ri + k - 1) % Count \in Slots
        /\ Dist(ri, (ri + k - 1) % Count) = k - 1
    BY <2>1, UnreadSlot DEF QueueInv, TypeOK
  <2>3. k - 1 < Dist(ri, wi)
    BY <1>1, CountAssumption
  <2>4. data[(ri + k - 1) % Count] = popped + 1 + (k - 1)
    BY <2>2, <2>3 DEF QueueInv, PagesIntact
  <2> QED
    BY <2>1, <2>4, CountAssumption DEF QueueInv, TypeOK
<1> QED
  BY <1>1, <1>2, CountAssumption DEF UnreadRun, Unread, Run

(* Every step of the queue is a step of PageQueue or leaves its state as   *)
(* it was: push() is Put, pop() is Get, and nothing else is visible.       *)
LEMMA RefineStep ==
  ASSUME QueueInv, QueueInv', [Next]_vars
  PROVE  [Queue!Next]_(Queue!pvars)
<1> DEFINE n == pushed - popped
           u == Unread
<1>1. n \in Nat /\ u = Run(popped, n)
  BY UnreadIsRun DEF UnreadRun
<1>2. n' \in Nat /\ u' = Run(popped', n')
  <2>1. UnreadRun'
    BY UnreadIsRun, PTL
  <2> QED
    BY <2>1 DEF UnreadRun
<1>3. popped \in Nat /\ pushed \in Nat /\ popped' \in Nat
  BY DEF QueueInv, TypeOK
<1> HIDE DEF u
<1>put. CASE WPush
  <2>1. pushed' = pushed + 1 /\ popped' = popped /\ received' = received
        /\ wpc = "step"
    BY <1>put DEF WPush
  <2>2. n < Count - 1
    <3>1. /\ ~Full
          /\ n = Dist(ri, wi)
      BY <2>1 DEF QueueInv, WriterHolds, PagesIntact
    <3>2. Dist(ri, nextIndex(wi)) = Dist(ri, wi) + 1
      BY <3>1, DistAdvance DEF QueueInv, TypeOK, Full
    <3>3. Dist(ri, nextIndex(wi)) \in 0 .. Count - 1
      BY NextIndexInSlots, DistBounds DEF QueueInv, TypeOK
    <3> QED
      BY <1>1, <3>1, <3>2, <3>3, CountAssumption
  <2>3. Len(u) < Count - 1
    BY <1>1, <1>3, <2>2, RunSeq
  <2>4. u' = Append(u, pushed + 1)
    <3>1. n' = n + 1 /\ pushed + 1 = popped + n + 1
      BY <1>3, <2>1
    <3> QED
      BY <1>1, <1>2, <1>3, <2>1, <3>1, RunAppend, ZenonT(60)
  <2> QED
    BY <2>1, <2>3, <2>4 DEF Queue!Next, Queue!Put, u
<1>get. CASE RPop
  <2>1. /\ popped' = popped + 1 /\ pushed' = pushed /\ received' = rval
        /\ rpc = "step"
    BY <1>get DEF RPop
  <2>2. n > 0 /\ n' = n - 1
    <3>1. n = Dist(ri, wi) /\ wi # ri
      BY <2>1 DEF QueueInv, ReaderHolds, PagesIntact, Empty
    <3>2. Dist(ri, wi) # 0
      BY <3>1, DistBounds DEF QueueInv, TypeOK
    <3> QED
      BY <1>1, <1>3, <2>1, <3>1, <3>2
  <2>3. received' = popped + 1
    BY <2>1 DEF QueueInv, InOrder
  <2>4. u # <<>> /\ Head(u) = popped + 1 /\ u' = Tail(u)
    <3>1. u' = Run(popped + 1, n - 1)
      BY <1>2, <2>1, <2>2
    <3> QED
      BY <1>1, <1>3, <2>2, <3>1, RunTail
  <2> QED
    BY <2>1, <2>3, <2>4 DEF Queue!Next, Queue!Get, u
<1>other. ASSUME UNCHANGED <<pushed, popped, received>>
          PROVE  UNCHANGED Queue!pvars
  <2>1. n' = n
    BY <1>other
  <2>2. u' = u
    BY <1>1, <1>2, <1>other, <2>1
  <2> QED
    BY <1>other, <2>2 DEF Queue!pvars, u
<1>w. CASE WNext \/ WPollNext \/ WCheck \/ WXchg \/ WRecheck \/ WWait
           \/ WInterrupt \/ WUnblock \/ WWake \/ WFill \/ WExchange \/ WNotify
  BY <1>w, <1>other DEF WNext, WPollNext, WCheck, WXchg, WRecheck, WWait,
     WInterrupt, WUnblock, WWake, WFill, WExchange, WNotify, others
<1>r. CASE RNext \/ RPollNext \/ RCheck \/ RXchg \/ RRecheck \/ RWait
           \/ RInterrupt \/ RTimeout \/ RUnblock \/ RWake \/ RRead
           \/ RExchange \/ RNotify
  BY <1>r, <1>other DEF RNext, RPollNext, RCheck, RXchg, RRecheck, RWait,
     RInterrupt, RTimeout, RUnblock, RWake, RRead, RExchange, RNotify, others
<1>s. CASE UNCHANGED vars
  BY <1>s, <1>other DEF vars
<1> QED
  BY <1>put, <1>get, <1>w, <1>r, <1>s DEF Next, WAny, WStep, RAny, RStep

(* The lock-free queue is a bounded FIFO: its safety part of the promise   *)
(* that ImplementsPageQueue checks with TLC, for every Count and MaxPush.  *)
THEOREM QueueRefines == SafeSpec => Queue!SafeSpec
<1>1. Init => Queue!Init
  BY DEF Init, Queue!Init, Unread
<1>2. QueueInv /\ QueueInv' /\ [Next]_vars => [Queue!Next]_(Queue!pvars)
  BY RefineStep
<1> QED
  BY <1>1, <1>2, Inductive, PTL DEF SafeSpec, Queue!SafeSpec
==============================================================================
