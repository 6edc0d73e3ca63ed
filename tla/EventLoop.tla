------------------------------ MODULE EventLoop ------------------------------
(***************************************************************************)
(* The event loop of lib/hobbes/events/events.C (the epoll build): the     *)
(* handlers registered for descriptors, and the timers.                    *)
(*                                                                         *)
(* A handler is a closure on the heap.  The map epClosures and the kernel  *)
(* both hold its address, and neither forgets it when the closure is       *)
(* deleted.  What handlers do to this state is given as operators on a     *)
(* record ev, so that a handler of another module may make several of      *)
(* these calls in one step:                                                *)
(*   ev.closures  epClosures: the closure last registered for a descriptor *)
(*   ev.watch     the kernel's set: what epoll_wait() returns for one      *)
(*   ev.heap      the closures that are allocated                          *)
(*   ev.wild      history: a deleted closure was deleted again or called   *)
(***************************************************************************)
EXTENDS Integers, Sequences, FiniteSets, Functions

CONSTANTS
  Fds,        \* the descriptors of the server's thread, numbers from 1
  Timers      \* its timers

ASSUME FdAssumption == IsFiniteSet(Fds) /\ Fds \subseteq Nat \ {0}

VARIABLES
  ev,         \* the handlers, as above
  batch,      \* closures epoll_wait() returned whose handlers are still to run
  timers      \* each timer: "off", "waiting" or "due" (callTime has passed)

Listen == 0             \* the descriptor that accepts connections
NoClosure == <<>>
AllFds == Fds \union {Listen}

NoHandlers ==
  [closures |-> [fd \in AllFds |-> NoClosure],
   watch    |-> [fd \in AllFds |-> NoClosure],
   heap     |-> {},
   wild     |-> FALSE]

(* registerEventHandler(): the map is written first; EPOLL_CTL_ADD fails   *)
(* on a closed descriptor, and then the closure is deleted and the map     *)
(* keeps its address.                                                      *)
registerEventHandler(e, fd, c, open) ==
  IF open
  THEN [e EXCEPT !.closures[fd] = c, !.watch[fd] = c, !.heap = @ \union {c}]
  ELSE [e EXCEPT !.closures[fd] = c]

(* unregisterEventHandler(): deletes what the map holds, if anything, and  *)
(* leaves the entry there.                                                 *)
unregisterEventHandler(e, fd) ==
  LET c == e.closures[fd]
  IN  IF c = NoClosure THEN e
      ELSE [e EXCEPT !.watch[fd] = NoClosure,
                     !.heap = @ \ {c},
                     !.wild = @ \/ c \notin e.heap]

(* close(): the kernel drops a closed descriptor from its set.             *)
closed(e, fd) == [e EXCEPT !.watch[fd] = NoClosure]

(* The loop calls through the address epoll_wait() gave it.                *)
called(e, c) == [e EXCEPT !.wild = @ \/ c \notin e.heap]

-----------------------------------------------------------------------------
(* stepEventLoop(), some descriptor ready: epoll_wait() returns them, in   *)
(* an order of the kernel's, and the handlers are then run one by one.     *)
Wait(ready) ==
  LET R == {fd \in ready : ev.watch[fd] # NoClosure}
  IN  /\ batch = <<>>
      /\ R # {}
      /\ \E s \in [1..Cardinality(R) -> R] :
           /\ IsInjective(s)
           /\ batch' = [i \in DOMAIN s |-> ev.watch[s[i]]]
      /\ UNCHANGED <<ev, timers>>

(* epoll_wait() times out when nothing is ready.  Mutant: the timeout is   *)
(* only set while no connection is open.                                   *)
TimesOutAlone(ready) == \A fd \in Fds : ev.watch[fd] = NoClosure
TimesOut(ready) == \A fd \in ready : ev.watch[fd] = NoClosure

(* stepEventLoop(), no descriptor ready until the timeout (or a signal):   *)
(* every due timer runs once; one that returns true is pushed again after  *)
(* the pass.                                                               *)
RunTimers(ready) ==
  /\ batch = <<>>
  /\ TimesOut(ready)
  /\ \E t \in Timers : timers[t] = "due"
  /\ \E repeat \in SUBSET {t \in Timers : timers[t] = "due"} :
       timers' = [t \in Timers |->
                    IF timers[t] # "due" THEN timers[t]
                    ELSE IF t \in repeat THEN "waiting" ELSE "off"]
  /\ UNCHANGED <<ev, batch>>

(* addTimer().                                                             *)
addTimer(t) ==
  /\ timers[t] = "off"
  /\ timers' = [timers EXCEPT ![t] = "waiting"]
  /\ UNCHANGED <<ev, batch>>

(* The clock reaches a timer's callTime.                                   *)
Elapse(t) ==
  /\ timers[t] = "waiting"
  /\ timers' = [timers EXCEPT ![t] = "due"]
  /\ UNCHANGED <<ev, batch>>
=============================================================================
