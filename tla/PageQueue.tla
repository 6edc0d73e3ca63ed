------------------------------ MODULE PageQueue ------------------------------
(***************************************************************************)
(* What the shared memory queue of include/hobbes/storage.H promises to    *)
(* the pipes built on it: a bounded FIFO of pages between one writer and   *)
(* one reader.  A page published by push() is read by next() and freed by  *)
(* pop(), in order, once, and never while it can still be overwritten.     *)
(*                                                                         *)
(* A queue of Count pages holds at most Count - 1 unread ones: the writer  *)
(* always keeps the page it is filling.  Pages are told apart by their     *)
(* publication number.                                                     *)
(***************************************************************************)
EXTENDS Integers, Sequences

CONSTANT Count      \* hdr->count, the number of pages in the queue

VARIABLES
  unread,           \* the pages published and not yet freed, oldest first
  sent,             \* how many pages were published
  received          \* the last page the reader took, 0 before the first

pvars == <<unread, sent, received>>

Init ==
  /\ unread = <<>>
  /\ sent = 0
  /\ received = 0

(* The writer publishes a page: only if one is free besides its own.       *)
Put ==
  /\ Len(unread) < Count - 1
  /\ sent' = sent + 1
  /\ unread' = Append(unread, sent + 1)
  /\ UNCHANGED received

(* The reader takes the oldest unread page. *)
Get ==
  /\ unread # <<>>
  /\ received' = Head(unread)
  /\ unread' = Tail(unread)
  /\ UNCHANGED sent

Next == Put \/ Get

SafeSpec == Init /\ [][Next]_pvars

(* Every published page is eventually taken: a reader that keeps calling   *)
(* next() is never left asleep with pages in the queue.                    *)
Spec == SafeSpec /\ WF_pvars(Get)
==============================================================================
