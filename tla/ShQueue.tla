------------------------------- MODULE ShQueue -------------------------------
(***************************************************************************)
(* The single-writer, single-reader queue of pages in shared memory that   *)
(* carries all recorded data from a producer to its consumer (classes      *)
(* writer and reader of include/hobbes/storage.H).                         *)
(*                                                                         *)
(* The two processes share a read index, a write index and one wait state  *)
(* word; they use no lock.  Each access to a shared word is a step of its  *)
(* own: a read, an exchange, the kernel's compare-and-sleep or its wake.   *)
(* x86's xchg is a full barrier and the only shared stores made without    *)
(* it are to the page being filled, which the next xchg orders, so         *)
(* interleaving the accesses covers the outcomes of the build.             *)
(***************************************************************************)
EXTENDS Integers, Sequences

CONSTANTS
  Count,            \* hdr->count: pages in the queue
  MaxPush,          \* bound on the pages published in one behaviour
  Builds            \* TRUE: the futex waits of Linux; FALSE: the polling of macOS

ASSUME CountAssumption == Count \in Nat /\ Count >= 2
ASSUME MaxPushAssumption == MaxPush \in Nat
ASSUME BuildsAssumption == Builds \subseteq BOOLEAN

VARIABLES
  futex,            \* the build: does waitForUpdate use a futex
  wstate,           \* the shared wait state
  ri, wi,           \* the shared read and write indices
  data,             \* the shared pages: each holds its publication number
  wpc, rpc,         \* where the writer and the reader are
  rval,             \* the page contents the reader copied out
  pushed, popped,   \* how many pages were published and freed
  received          \* the contents the reader took from the last freed page

shared == <<wstate, ri, wi, data>>
others == <<futex, rval, pushed, popped, received>>
vars == <<futex, wstate, ri, wi, data, wpc, rpc, rval, pushed, popped, received>>

Unblocked     == 0
ReaderWaiting == 1
WriterWaiting == 2
WaitStates    == {Unblocked, ReaderWaiting, WriterWaiting}

Slots == 0 .. Count - 1
nextIndex(i) == (i + 1) % Count

(* The control points shared by next() and by the end of push() and pop(). *)
Points ==
  {"idle", "check", "xchg", "recheck", "wait", "sleep", "unblock", "wake",
   "step", "exchange", "notify"}
WriterPoints == Points \cup {"fill"}
ReaderPoints == Points \cup {"read"}

(* A new queue: shm_open makes a region of zeros.                          *)
Init ==
  /\ futex \in Builds
  /\ wstate = Unblocked
  /\ ri = 0
  /\ wi = 0
  /\ data = [s \in Slots |-> 0]
  /\ wpc = "idle"
  /\ rpc = "idle"
  /\ rval = 0
  /\ pushed = 0
  /\ popped = 0
  /\ received = 0

Full  == ri = nextIndex(wi)
Empty == wi = ri

-----------------------------------------------------------------------------
(* Faulty variants of the steps below, one for each property: what a       *)
(* plausible slip in the code would do.  Only mutation runs use them.      *)

(* The full queue is not noticed by the non-blocking take. *)
WPollNextUnchecked ==
  /\ wpc = "idle"
  /\ pushed < MaxPush
  /\ wpc' = "fill"
  /\ UNCHANGED <<shared, rpc, others>>

(* ... nor by the blocking one. *)
WCheckUnchecked ==
  /\ wpc = "check"
  /\ wpc' = "fill"
  /\ UNCHANGED <<shared, rpc, others>>

(* The indices are not read again between the exchange and the wait. *)
RRecheckSkipped ==
  /\ rpc = "recheck"
  /\ rpc' = "wait"
  /\ UNCHANGED <<shared, wpc, others>>

(* The exchange is made and its result ignored: nobody is woken. *)
RExchangeNoWake ==
  /\ rpc = "exchange"
  /\ wstate' = Unblocked
  /\ rpc' = "idle"
  /\ UNCHANGED <<ri, wi, data, wpc, others>>

-----------------------------------------------------------------------------
(* The writer.                                                             *)

(* writer::next(): take a page, blocking while the queue is full. *)
WNext ==
  /\ wpc = "idle"
  /\ pushed < MaxPush
  /\ wpc' = "check"
  /\ UNCHANGED <<shared, rpc, others>>

(* writer::pollNext(): take a page if the queue is not full, else null. *)
WPollNext ==
  /\ wpc = "idle"
  /\ pushed < MaxPush
  /\ wpc' = IF Full THEN "idle" ELSE "fill"
  /\ UNCHANGED <<shared, rpc, others>>

WCheck ==
  /\ wpc = "check"
  /\ wpc' = IF Full THEN "xchg" ELSE "fill"
  /\ UNCHANGED <<shared, rpc, others>>

WXchg ==
  /\ wpc = "xchg"
  /\ wstate' = WriterWaiting
  /\ \/ wstate = Unblocked     /\ wpc' = "recheck"
     \/ wstate = ReaderWaiting /\ wpc' = "unblock"
     \/ wstate = WriterWaiting /\ wpc' = "check"
  /\ UNCHANGED <<ri, wi, data, rpc, others>>

WRecheck ==
  /\ wpc = "recheck"
  /\ wpc' = IF Full THEN "wait" ELSE "check"
  /\ UNCHANGED <<shared, rpc, others>>

(* waitForUpdate(): the kernel compares the word and sleeps in one step;   *)
(* the polling version reads the word until it has changed.                *)
WWait ==
  /\ wpc = "wait"
  /\ \/ wstate # WriterWaiting /\ wpc' = "check"
     \/ wstate = WriterWaiting /\ futex /\ wpc' = "sleep"
  /\ UNCHANGED <<shared, rpc, others>>

(* A signal interrupts the futex call, which is not restarted. *)
WInterrupt ==
  /\ wpc = "sleep"
  /\ wpc' = "check"
  /\ UNCHANGED <<shared, rpc, others>>

WUnblock ==
  /\ wpc = "unblock"
  /\ wstate' = Unblocked
  /\ wpc' = "wake"
  /\ UNCHANGED <<ri, wi, data, rpc, others>>

(* wakeN(): the reader, if the kernel holds it asleep, resumes in next().  *)
WakeReader == rpc' = IF rpc = "sleep" THEN "check" ELSE rpc

WWake ==
  /\ wpc = "wake"
  /\ wpc' = "check"
  /\ WakeReader
  /\ UNCHANGED <<shared, others>>

(* The owner of the page fills it. *)
WFill ==
  /\ wpc = "fill"
  /\ data' = [data EXCEPT ![wi] = pushed + 1]
  /\ wpc' = "step"
  /\ UNCHANGED <<wstate, ri, wi, rpc, others>>

(* writer::push(): advance the write index ... *)
WPush ==
  /\ wpc = "step"
  /\ wi' = nextIndex(wi)
  /\ pushed' = pushed + 1
  /\ wpc' = "exchange"
  /\ UNCHANGED <<futex, wstate, ri, data, rpc, rval, popped, received>>

(* ... then clear the wait state, and wake the reader if it was set.       *)
WExchange ==
  /\ wpc = "exchange"
  /\ wstate' = Unblocked
  /\ wpc' = IF wstate = ReaderWaiting THEN "notify" ELSE "idle"
  /\ UNCHANGED <<ri, wi, data, rpc, others>>

WNotify ==
  /\ wpc = "notify"
  /\ wpc' = "idle"
  /\ WakeReader
  /\ UNCHANGED <<shared, others>>

-----------------------------------------------------------------------------
(* The reader.                                                             *)

(* reader::next(): wait for a page. *)
RNext ==
  /\ rpc = "idle"
  /\ rpc' = "check"
  /\ UNCHANGED <<shared, wpc, others>>

(* reader::pollNext(): take a page if there is one, else null. *)
RPollNext ==
  /\ rpc = "idle"
  /\ rpc' = IF Empty THEN "idle" ELSE "read"
  /\ UNCHANGED <<shared, wpc, others>>

RCheck ==
  /\ rpc = "check"
  /\ rpc' = IF Empty THEN "xchg" ELSE "read"
  /\ UNCHANGED <<shared, wpc, others>>

RXchg ==
  /\ rpc = "xchg"
  /\ wstate' = ReaderWaiting
  /\ \/ wstate = Unblocked     /\ rpc' = "recheck"
     \/ wstate = WriterWaiting /\ rpc' = "unblock"
     \/ wstate = ReaderWaiting /\ rpc' = "check"
  /\ UNCHANGED <<ri, wi, data, wpc, others>>

RRecheck ==
  /\ rpc = "recheck"
  /\ rpc' = IF Empty THEN "wait" ELSE "check"
  /\ UNCHANGED <<shared, wpc, others>>

RWait ==
  /\ rpc = "wait"
  /\ \/ wstate # ReaderWaiting /\ rpc' = "check"
     \/ wstate = ReaderWaiting /\ futex /\ rpc' = "sleep"
  /\ UNCHANGED <<shared, wpc, others>>

RInterrupt ==
  /\ rpc = "sleep"
  /\ rpc' = "check"
  /\ UNCHANGED <<shared, wpc, others>>

(* A timed wait expires: timeoutF() is called and the wait is made again.  *)
RTimeout ==
  /\ rpc = "sleep"
  /\ rpc' = "wait"
  /\ UNCHANGED <<shared, wpc, others>>

RUnblock ==
  /\ rpc = "unblock"
  /\ wstate' = Unblocked
  /\ rpc' = "wake"
  /\ UNCHANGED <<ri, wi, data, wpc, others>>

WakeWriter == wpc' = IF wpc = "sleep" THEN "check" ELSE wpc

RWake ==
  /\ rpc = "wake"
  /\ rpc' = "check"
  /\ WakeWriter
  /\ UNCHANGED <<shared, others>>

(* The owner of the page copies out what is in it. *)
RRead ==
  /\ rpc = "read"
  /\ rval' = data[ri]
  /\ rpc' = "step"
  /\ UNCHANGED <<futex, shared, wpc, pushed, popped, received>>

(* reader::pop(): advance the read index ... *)
RPop ==
  /\ rpc = "step"
  /\ ri' = nextIndex(ri)
  /\ popped' = popped + 1
  /\ received' = rval
  /\ rpc' = "exchange"
  /\ UNCHANGED <<futex, wstate, wi, data, wpc, rval, pushed>>

(* ... then clear the wait state, and wake the writer if it was set.       *)
RExchange ==
  /\ rpc = "exchange"
  /\ wstate' = Unblocked
  /\ rpc' = IF wstate = WriterWaiting THEN "notify" ELSE "idle"
  /\ UNCHANGED <<ri, wi, data, wpc, others>>

RNotify ==
  /\ rpc = "notify"
  /\ rpc' = "idle"
  /\ WakeWriter
  /\ UNCHANGED <<shared, others>>

-----------------------------------------------------------------------------
(* The steps a process takes by itself once it is inside an operation.     *)
(* Interrupts and timeouts come from outside, and it is the application    *)
(* that decides when to take, fill and publish a page.                     *)
WStep ==
  WCheck \/ WXchg \/ WRecheck \/ WWait \/ WUnblock \/ WWake
    \/ WPush \/ WExchange \/ WNotify
RStep ==
  RNext \/ RCheck \/ RXchg \/ RRecheck \/ RWait \/ RUnblock \/ RWake
    \/ RRead \/ RPop \/ RExchange \/ RNotify

WAny == WNext \/ WPollNext \/ WFill \/ WInterrupt \/ WStep
RAny == RPollNext \/ RInterrupt \/ RTimeout \/ RStep

Next == WAny \/ RAny

(* Both processes are scheduled; the consumer's loop (runReadProcess) never *)
(* stops asking for the next page.                                          *)
Fairness == WF_vars(WStep) /\ WF_vars(RStep)

SafeSpec == Init /\ [][Next]_vars
Spec == SafeSpec /\ Fairness

-----------------------------------------------------------------------------
(* Properties.                                                             *)

(* The ring indices never leave the ring, and the control points of both   *)
(* processes and the shared wait state are among those of the code.        *)
TypeOK ==
  /\ futex \in BOOLEAN
  /\ wstate \in WaitStates
  /\ ri \in Slots
  /\ wi \in Slots
  /\ data \in [Slots -> Nat]
  /\ wpc \in WriterPoints
  /\ rpc \in ReaderPoints
  /\ rval \in Nat
  /\ pushed \in Nat
  /\ popped \in Nat
  /\ received \in Nat

(* How far slot j is ahead of slot i around the ring. *)
Dist(i, j) == IF i <= j THEN j - i ELSE j - i + Count

(* The two indices alone tell how many pages are unread, and every unread  *)
(* page still holds what was published in it: the writer, which writes     *)
(* into its page while the reader copies out another, never reaches one    *)
(* the reader has not freed.                                               *)
PagesIntact ==
  /\ pushed - popped = Dist(ri, wi)
  /\ \A s \in Slots :
       Dist(ri, s) < Dist(ri, wi) => data[s] = popped + 1 + Dist(ri, s)

(* The reader takes the pages in the order they were published, each once. *)
InOrder ==
  /\ received = popped
  /\ rpc = "step" => rval = popped + 1

(* No lost wakeup, reader's side.  A sleeping reader has nothing to read,  *)
(* or the writer is on its way to wake it.                                 *)
ReaderWillWake ==
  rpc = "sleep" =>
    \/ wstate = ReaderWaiting /\ (Empty \/ wpc = "exchange")
    \/ wstate = WriterWaiting /\ wpc = "unblock"
    \/ wstate = Unblocked /\ wpc \in {"wake", "notify"}

(* No lost wakeup, writer's side.  A sleeping writer has no page to take,  *)
(* or the reader is on its way to wake it.                                 *)
WriterWillWake ==
  wpc = "sleep" =>
    \/ wstate = WriterWaiting /\ (Full \/ rpc = "exchange")
    \/ wstate = ReaderWaiting /\ rpc = "unblock"
    \/ wstate = Unblocked /\ rpc \in {"wake", "notify"}

(* No wakeup is lost on either side.                                       *)
SleepersWillWake == ReaderWillWake /\ WriterWillWake

(* The inductive invariant: a process that holds a page holds one the      *)
(* other cannot, a filled page is the next to be published, and a process  *)
(* about to sleep has just seen that it must.                              *)
WriterHolds ==
  /\ wpc \in {"fill", "step"} => ~Full
  /\ wpc = "step" => data[wi] = pushed + 1

ReaderHolds == rpc \in {"read", "step"} => ~Empty

ReaderMayWait ==
  rpc = "wait" /\ wstate = ReaderWaiting => Empty \/ wpc = "exchange"

WriterMayWait ==
  wpc = "wait" /\ wstate = WriterWaiting => Full \/ rpc = "exchange"

(* Everything above at once: what each step of the queue preserves.        *)
QueueInv ==
  /\ TypeOK
  /\ PagesIntact
  /\ InOrder
  /\ WriterHolds
  /\ ReaderHolds
  /\ ReaderMayWait
  /\ WriterMayWait
  /\ ReaderWillWake
  /\ WriterWillWake

(* A writer blocked on a full queue eventually gets its page. *)
WriterProceeds == wpc = "check" ~> wpc = "fill"

(* The queue implements the bounded FIFO of pages: the unread pages are    *)
(* read off the ring, from the read index on.                              *)
Unread == [k \in 1 .. (pushed - popped) |-> data[(ri + k - 1) % Count]]

Queue == INSTANCE PageQueue WITH unread <- Unread, sent <- pushed

(* Writer and reader together are that FIFO, and every page is taken. *)
ImplementsPageQueue == Queue!Spec
==============================================================================
