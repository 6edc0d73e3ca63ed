------------------------------ MODULE TxnChannel ------------------------------
(***************************************************************************)
(* What a storage group promises the program that records into it and the  *)
(* process that consumes it (include/hobbes/storage.H): transactions       *)
(* arrive whole, in the order they were committed, each once; what was     *)
(* rolled back or dropped never arrives.  Only an unreliable group drops,  *)
(* and it drops a whole transaction.                                       *)
(***************************************************************************)
EXTENDS Integers, Sequences, SequencesExt

VARIABLES
  reliable,         \* qos: block (TRUE) or drop (FALSE) when the reader is late
  open,             \* the bytes of the current transaction
  doomed,           \* the current transaction is dropped
  committed,        \* the transactions committed so far
  delivered         \* the transactions handed to the consumer so far

tvars == <<reliable, open, doomed, committed, delivered>>

Init ==
  /\ reliable \in BOOLEAN
  /\ open = <<>>
  /\ doomed = FALSE
  /\ committed = <<>>
  /\ delivered = <<>>

(* One statement is recorded, entirely. *)
Store ==
  /\ ~doomed
  /\ IsPrefix(open, open')
  /\ UNCHANGED <<reliable, doomed, committed, delivered>>

(* The current transaction is dropped. *)
Drop ==
  /\ ~reliable
  /\ doomed' = TRUE
  /\ open' = <<>>
  /\ UNCHANGED <<reliable, committed, delivered>>

(* The current transaction ends: committed unless it was dropped. *)
Commit ==
  /\ committed' = IF doomed THEN committed ELSE Append(committed, open)
  /\ doomed' = FALSE
  /\ open' = <<>>
  /\ UNCHANGED <<reliable, delivered>>

(* The current transaction ends without effect. *)
Abandon ==
  /\ doomed' = FALSE
  /\ open' = <<>>
  /\ UNCHANGED <<reliable, committed, delivered>>

(* The consumer is handed the next committed transaction. *)
Deliver ==
  /\ Len(delivered) < Len(committed)
  /\ delivered' = Append(delivered, committed[Len(delivered) + 1])
  /\ UNCHANGED <<reliable, open, doomed, committed>>

Next == Store \/ Drop \/ Commit \/ Abandon \/ Deliver

SafeSpec == Init /\ [][Next]_tvars
Spec == SafeSpec /\ WF_tvars(Deliver)
==============================================================================
