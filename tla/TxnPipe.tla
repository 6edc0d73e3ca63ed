------------------------------- MODULE TxnPipe -------------------------------
(***************************************************************************)
(* Transactions over the shared memory queue (include/hobbes/storage.H):   *)
(* class wpipe cuts the bytes of HSTORE statements into pages, class rpipe *)
(* reads them back, and runReadProcessWithTimeout assembles transactions.  *)
(*                                                                         *)
(* The queue is the bounded FIFO that ShQueue implements, so a push and a  *)
(* pop are one step each here; but a page published by push() stays in     *)
(* the ring, where the writer may still change its mark.  A byte is the    *)
(* pair of its statement's number and its place in the statement.          *)
(***************************************************************************)
EXTENDS Integers, Sequences, SequencesExt

CONSTANTS
  Count,            \* pages in the queue
  PageSize,         \* bytes of data in a page
  IdSize,           \* sizeof(uint32_t): a statement starts with its id
  Payloads,         \* the sizes of the statements' payloads
  Block,            \* blockSize of runReadProcessWithTimeout
  PipeQOS,          \* the kinds of group: TRUE for reliable ones that block,
  CommitMethod,     \* FALSE for those that drop; TRUE for automatic commits
  MaxStatements,    \* bound on the statements recorded in one behaviour
  MaxEnds           \* bound on the commits and rollbacks of the application

ASSUME PipeAssumption ==
  /\ Count \in Nat /\ Count >= 2
  /\ PageSize \in Nat \ {0} /\ IdSize \in Nat /\ Block \in Nat \ {0}
  /\ Payloads \subseteq Nat
  /\ PipeQOS \subseteq BOOLEAN /\ CommitMethod \subseteq BOOLEAN
  /\ MaxStatements \in Nat /\ MaxEnds \in Nat

VARIABLES
  reliable, auto,   \* StorageGroup::qos and cm, fixed for a group
  ring,             \* the pages in shared memory
  wi, ri,           \* how many pages were published and freed
  wpc,              \* where the writer is
  page, offset,     \* wpipe: does it own a page, how many bytes are in it
  stmt, todo,       \* the statement's bytes, the writes left of it
  rest,             \* the bytes left of the current write
  npage,            \* stepPage: did pollNext give a page
  goal,             \* where commit() returns to
  statements, ends, \* how many statements, commits and rollbacks so far
  rpc,              \* where the reader is
  rpage, roffset,   \* rpipe: does it hold a page, how much of it was read
  want, flag,       \* read(): bytes still wanted, state of the last page
  txn,              \* the transaction being assembled
  open, committed, delivered,   \* history: see TxnChannel
  whole             \* history: the bytes copied into complete pages

group == <<reliable, auto>>
queue == <<ring, wi, ri>>
writer == <<wpc, page, offset, stmt, todo, rest, npage, goal, statements, ends>>
reader == <<rpc, rpage, roffset, want, flag, txn>>
history == <<open, committed, delivered, whole>>
vars == <<reliable, auto, ring, wi, ri, wpc, page, offset, stmt, todo, rest, npage, goal,
          statements, ends, rpc, rpage, roffset, want, flag, txn,
          open, committed, delivered, whole>>

(* The states of a page. *)
Marks == {"tentative", "cont", "commit", "rollback"}

Slots == 0 .. Count - 1
FullQueue == wi - ri = Count - 1
EmptyQueue == wi = ri

(* The pages are all zeros; the constructor of wpipe polls for a page. *)
Init ==
  /\ reliable \in PipeQOS /\ auto \in CommitMethod
  /\ ring = [s \in Slots |-> [bytes |-> <<>>, size |-> 0, mark |-> "tentative"]]
  /\ wi = 0 /\ ri = 0
  /\ wpc = "idle" /\ page = TRUE /\ offset = 0
  /\ stmt = <<>> /\ todo = <<>> /\ rest = <<>> /\ npage = FALSE /\ goal = "idle"
  /\ statements = 0 /\ ends = 0
  /\ rpc = "next" /\ rpage = FALSE /\ roffset = 0
  /\ want = Block /\ flag = "tentative" /\ txn = <<>>
  /\ open = <<>> /\ committed = <<>> /\ delivered = <<>> /\ whole = {}

-----------------------------------------------------------------------------
(* The writer.                                                             *)

(* The page being filled, after bytes b are copied to its place o. *)
Copy(o, b) ==
  [ring EXCEPT ![wi % Count].bytes = SubSeq(@, 1, o) \o b]

(* markPage() and push(): the page gets its size and state, then the reader *)
(* may see it.                                                              *)
Publish(mark) ==
  /\ ring' = [ring EXCEPT ![wi % Count].size = offset, ![wi % Count].mark = mark]
  /\ wi' = wi + 1

StatementBytes(s, n) == [k \in 1 .. IdSize + n |-> <<s, k>>]

hasSpaceFor(sz) == page /\ sz < PageSize - offset

(* HSTORE returns, with nothing left of its local state. *)
Return == wpc' = "idle" /\ stmt' = <<>> /\ todo' = <<>> /\ rest' = <<>>

(* Faulty variants of steps below, for mutation runs only. *)

(* The transaction that found no next page is not rolled back. *)
StepMarkContinues ==
  /\ wpc = "stepMark"
  /\ ring' = [ring EXCEPT ![(wi - 1) % Count].mark = "cont"]
  /\ page' = npage
  /\ offset' = 0
  /\ npage' = FALSE
  /\ IF npage
       THEN wpc' = "spread" /\ UNCHANGED <<stmt, todo, rest, open>>
       ELSE Return /\ open' = <<>>
  /\ UNCHANGED <<wi, ri, goal, statements, ends, reader, committed, delivered, whole>>

(* The reader does not wait for the state of the page. *)
ReadEndUndecided ==
  /\ rpc = "end"
  /\ flag' = ring[ri % Count].mark
  /\ ri' = ri + 1
  /\ roffset' = 0
  /\ IF ring[ri % Count].mark = "cont"
       THEN rpc' = "poll" /\ UNCHANGED rpage
       ELSE rpc' = "return" /\ rpage' = FALSE
  /\ UNCHANGED <<ring, wi, writer, want, txn, history>>

(* The reader frees the pages of a transaction only when it has ended. *)
ReadEndHolds ==
  /\ rpc = "end"
  /\ ring[ri % Count].mark # "tentative"
  /\ ring[ri % Count].mark = "cont" =>
       \E k \in ri .. wi - 1 : ring[k % Count].mark \in {"commit", "rollback"}
  /\ flag' = ring[ri % Count].mark
  /\ ri' = ri + 1
  /\ roffset' = 0
  /\ IF ring[ri % Count].mark = "cont"
       THEN rpc' = "poll" /\ UNCHANGED rpage
       ELSE rpc' = "return" /\ rpage' = FALSE
  /\ UNCHANGED <<ring, wi, writer, want, txn, history>>

(* write(group, id, payload): the id and the payload are written one after *)
(* the other; an AutoCommit group commits first if the page is too full.   *)
HStore(n) ==
  /\ wpc = "idle"
  /\ statements < MaxStatements
  /\ statements' = statements + 1
  /\ stmt' = StatementBytes(statements + 1, n)
  /\ todo' = <<SubSeq(stmt', 1, IdSize), SubSeq(stmt', IdSize + 1, IdSize + n)>>
  /\ IF auto /\ ~hasSpaceFor(IdSize + n)
       THEN wpc' = "commit" /\ goal' = "write"
       ELSE wpc' = "write" /\ UNCHANGED goal
  /\ UNCHANGED <<queue, page, offset, rest, npage, ends, reader, history>>

(* The current write is complete: the statement goes on with its next one, *)
(* and after the last one HSTORE returns true.                             *)
WriteDone ==
  /\ todo' = Tail(todo)
  /\ rest' = <<>>
  /\ IF Len(todo) > 1
       THEN wpc' = "write" /\ UNCHANGED <<stmt, open>>
       ELSE wpc' = "idle" /\ stmt' = <<>> /\ open' = open \o stmt

(* wpipe::write() without a page, after a drop: HSTORE returns false. *)
WriteFails ==
  /\ wpc = "write"
  /\ ~page
  /\ Return
  /\ UNCHANGED <<queue, page, offset, npage, goal, statements, ends, reader,
                 history>>

(* wpipe::write(), with room for all the bytes in the page. *)
WriteFits ==
  /\ wpc = "write"
  /\ page
  /\ Len(Head(todo)) < PageSize - offset
  /\ ring' = Copy(offset, Head(todo))
  /\ offset' = offset + Len(Head(todo))
  /\ WriteDone
  /\ UNCHANGED <<wi, ri, page, npage, goal, statements, ends, reader, committed,
                 delivered, whole>>

(* wpipe::write(), the first part: the prefix that fills the page. *)
WriteFills ==
  /\ wpc = "write"
  /\ page
  /\ Len(Head(todo)) >= PageSize - offset
  /\ LET remsz == PageSize - offset
     IN  /\ ring' = Copy(offset, SubSeq(Head(todo), 1, remsz))
         /\ rest' = SubSeq(Head(todo), remsz + 1, Len(Head(todo)))
  /\ offset' = PageSize
  /\ wpc' = "step"
  /\ UNCHANGED <<wi, ri, page, stmt, todo, npage, goal, statements, ends, reader,
                 history>>

(* wpipe::stepPage(): publish the full page.  An unreliable pipe does not  *)
(* know yet whether the transaction can go on.                             *)
StepPush ==
  /\ wpc = "step"
  /\ Publish(IF reliable THEN "cont" ELSE "tentative")
  /\ wpc' = IF reliable THEN "stepNext" ELSE "stepPoll"
  /\ UNCHANGED <<ri, page, offset, stmt, todo, rest, npage, goal, statements,
                 ends, reader, history>>

StepNext ==
  /\ wpc = "stepNext"
  /\ ~FullQueue
  /\ offset' = 0
  /\ wpc' = "spread"
  /\ UNCHANGED <<queue, page, stmt, todo, rest, npage, goal, statements, ends,
                 reader, history>>

StepPoll ==
  /\ wpc = "stepPoll"
  /\ npage' = ~FullQueue
  /\ wpc' = "stepMark"
  /\ UNCHANGED <<queue, page, offset, stmt, todo, rest, goal, statements, ends,
                 reader, history>>

(* The published page gets its final state.  Without a next page, the      *)
(* transaction is rolled back and HSTORE returns false.                    *)
StepMark ==
  /\ wpc = "stepMark"
  /\ ring' = [ring EXCEPT ![(wi - 1) % Count].mark =
                IF npage THEN "cont" ELSE "rollback"]
  /\ page' = npage
  /\ offset' = 0
  /\ npage' = FALSE
  /\ IF npage
       THEN wpc' = "spread" /\ UNCHANGED <<stmt, todo, rest, open>>
       ELSE Return /\ open' = <<>>
  /\ UNCHANGED <<wi, ri, goal, statements, ends, reader, committed, delivered, whole>>

(* wpipe::write(), the loop over complete pages: the page is filled, and   *)
(* the offset that stepPage() will publish with it stays 0.                *)
SpreadPage ==
  /\ wpc = "spread"
  /\ Len(rest) >= PageSize
  /\ ring' = Copy(0, SubSeq(rest, 1, PageSize))
  /\ rest' = SubSeq(rest, PageSize + 1, Len(rest))
  /\ whole' = whole \cup Range(SubSeq(rest, 1, PageSize))
  /\ wpc' = "step"
  /\ UNCHANGED <<wi, ri, page, offset, stmt, todo, npage, goal, statements, ends,
                 reader, open, committed, delivered>>

(* wpipe::write(), the last part: the suffix goes to the last page. *)
SpreadSuffix ==
  /\ wpc = "spread"
  /\ Len(rest) < PageSize
  /\ ring' = Copy(0, rest)
  /\ offset' = Len(rest)
  /\ WriteDone
  /\ UNCHANGED <<wi, ri, page, npage, goal, statements, ends, reader, committed,
                 delivered, whole>>

(* The application ends its transaction. *)
End(how) ==
  /\ wpc = "idle"
  /\ ends < MaxEnds
  /\ ends' = ends + 1
  /\ wpc' = how
  /\ goal' = "idle"
  /\ UNCHANGED <<queue, page, offset, stmt, todo, rest, npage, statements, reader,
                 history>>

Commit == End("commit")
Rollback == End("rollback")

(* wpipe::commit() and rollback(): publish the last page of the            *)
(* transaction, if there is one ...                                        *)
CommitPush ==
  /\ wpc = "commit"
  /\ IF page
       THEN Publish("commit") /\ committed' = Append(committed, open)
       ELSE UNCHANGED <<ring, wi, committed>>
  /\ open' = <<>>
  /\ wpc' = "acquire"
  /\ UNCHANGED <<ri, page, offset, stmt, todo, rest, npage, goal, statements,
                 ends, reader, delivered, whole>>

RollbackPush ==
  /\ wpc = "rollback"
  /\ IF page THEN Publish("rollback") ELSE UNCHANGED <<ring, wi>>
  /\ open' = <<>>
  /\ wpc' = "acquire"
  /\ UNCHANGED <<ri, page, offset, stmt, todo, rest, npage, goal, statements,
                 ends, reader, committed, delivered, whole>>

(* ... and take the page of the next one: a reliable pipe waits for it.    *)
Acquire ==
  /\ wpc = "acquire"
  /\ reliable => ~FullQueue
  /\ page' = ~FullQueue
  /\ offset' = 0
  /\ wpc' = goal
  /\ goal' = "idle"
  /\ UNCHANGED <<queue, stmt, todo, rest, npage, statements, ends, reader,
                 history>>

(* The recording process dies; only shared memory is left. *)
Crash ==
  /\ wpc # "dead"
  /\ wpc' = "dead"
  /\ page' = FALSE /\ offset' = 0
  /\ stmt' = <<>> /\ todo' = <<>> /\ rest' = <<>> /\ npage' = FALSE /\ goal' = "idle"
  /\ open' = <<>>
  /\ UNCHANGED <<queue, statements, ends, reader, committed, delivered, whole>>

-----------------------------------------------------------------------------
(* The reader.                                                             *)

current == ring[ri % Count]

(* rpipe::read() without a page blocks in reader::next(). *)
ReadNext ==
  /\ rpc = "next"
  /\ ~EmptyQueue
  /\ rpage' = TRUE
  /\ rpc' = "copy"
  /\ UNCHANGED <<queue, writer, roffset, want, flag, txn, history>>

(* rpipe::read(), the loop: copy what is wanted and left in the page. *)
ReadCopy ==
  /\ rpc = "copy"
  /\ LET avail == current.size - roffset
         csz   == IF want < avail THEN want ELSE avail
     IN  /\ txn' = txn \o SubSeq(current.bytes, roffset + 1, roffset + csz)
         /\ roffset' = roffset + csz
         /\ want' = want - csz
  /\ rpc' = IF roffset' = current.size THEN "end" ELSE "return"
  /\ UNCHANGED <<queue, writer, rpage, flag, history>>

(* The end of the page: spin until the writer decides its state, pop it.   *)
ReadEnd ==
  /\ rpc = "end"
  /\ current.mark # "tentative"
  /\ flag' = current.mark
  /\ ri' = ri + 1
  /\ roffset' = 0
  /\ IF current.mark = "cont"
       THEN rpc' = "poll" /\ UNCHANGED rpage
       ELSE rpc' = "return" /\ rpage' = FALSE
  /\ UNCHANGED <<ring, wi, writer, want, txn, history>>

(* Inside a transaction, poll for the next page. *)
ReadPoll ==
  /\ rpc = "poll"
  /\ rpage' = ~EmptyQueue
  /\ rpc' = IF want > 0 /\ ~EmptyQueue THEN "copy" ELSE "return"
  /\ UNCHANGED <<queue, writer, roffset, want, flag, txn, history>>

(* runReadProcessWithTimeout: read() returned; the state of the last page  *)
(* it finished says what to do with the bytes gathered so far.             *)
ReadReturn ==
  /\ rpc = "return"
  /\ \/ /\ flag = "commit"
        /\ delivered' = Append(delivered, txn)
        /\ txn' = <<>>
     \/ /\ flag = "rollback"
        /\ txn' = <<>>
        /\ UNCHANGED delivered
     \/ /\ flag \in {"cont", "tentative"}
        /\ UNCHANGED <<txn, delivered>>
  /\ flag' = "tentative"
  /\ want' = Block
  /\ rpc' = IF rpage THEN "copy" ELSE "next"
  /\ UNCHANGED <<queue, writer, rpage, roffset, open, committed, whole>>

-----------------------------------------------------------------------------
WriterStep ==
  /\ \/ WriteFails \/ WriteFits \/ WriteFills
     \/ StepPush \/ StepNext \/ StepPoll \/ StepMark \/ SpreadPage \/ SpreadSuffix
     \/ CommitPush \/ RollbackPush \/ Acquire
  /\ UNCHANGED group
ReaderStep ==
  /\ ReadNext \/ ReadCopy \/ ReadEnd \/ ReadPoll \/ ReadReturn
  /\ UNCHANGED group
Application ==
  /\ (\E n \in Payloads : HStore(n)) \/ Commit \/ Rollback \/ Crash
  /\ UNCHANGED group

Next == Application \/ WriterStep \/ ReaderStep

(* A live process goes on with the operation it is in, and the consumer's  *)
(* loop never ends.  Nothing obliges the application to record or commit.  *)
Fairness == WF_vars(WriterStep) /\ WF_vars(ReaderStep)

SafeSpec == Init /\ [][Next]_vars
Spec == SafeSpec /\ Fairness
-----------------------------------------------------------------------------
(* Properties.                                                             *)

Bytes == (1 .. MaxStatements) \X Nat
Pages == [bytes : Seq(Bytes), size : 0 .. PageSize, mark : Marks]

(* Types; the writer's own page is never among the published ones, and no  *)
(* page is filled or read beyond its end.                                  *)
TypeOK ==
  /\ reliable \in BOOLEAN /\ auto \in BOOLEAN
  /\ ring \in [Slots -> Pages] /\ \A s \in Slots : Len(ring[s].bytes) <= PageSize
  /\ wi \in Nat /\ ri \in Nat /\ wi - ri \in 0 .. Count - 1
  /\ wpc \in {"idle", "write", "step", "stepNext", "stepPoll", "stepMark",
              "spread", "commit", "rollback", "acquire", "dead"}
  /\ page \in BOOLEAN /\ npage \in BOOLEAN /\ offset \in 0 .. PageSize
  /\ goal \in {"idle", "write"}
  /\ rpc \in {"next", "copy", "end", "poll", "return"}
  /\ rpage \in BOOLEAN /\ roffset \in 0 .. PageSize
  /\ want \in 0 .. Block /\ flag \in Marks

(* The consumer is handed exactly what was committed, transaction by       *)
(* transaction: no byte of a write is lost, however many pages it crosses. *)
DeliveredAsCommitted == IsPrefix(delivered, committed)

(* stepPage() marks a page after publishing it: that page has not been     *)
(* freed, and perhaps refilled, by then.                                   *)
MarkedPageUnread == wpc \in {"stepPoll", "stepMark"} => ri < wi

(* A page is the writer's: it was acquired, and not published since. *)
Owns == page /\ wpc \notin {"stepNext", "stepPoll", "stepMark", "acquire", "dead"}

(* Where the writer is and what it has: a write under way has bytes to     *)
(* copy, and the page it has is not among those the reader may see.        *)
WriterPlace ==
  /\ statements \in 0 .. MaxStatements
  /\ stmt \in Seq(Bytes) /\ rest \in Seq(Bytes)
  /\ todo \in Seq(Seq(Bytes)) /\ Len(todo) <= 2
  /\ wpc \in {"write", "step", "stepNext", "stepPoll", "stepMark", "spread"} =>
       todo # <<>> /\ goal = "idle"
  /\ wpc \in {"step", "stepNext", "stepPoll", "stepMark", "spread"} => page
  /\ wpc \in {"idle", "rollback", "dead"} => todo = <<>> /\ goal = "idle"
  /\ goal = "write" <=> wpc \in {"commit", "acquire"} /\ todo # <<>>
  /\ Owns \/ (wpc = "stepMark" /\ npage) => wi - ri < Count - 1
  /\ wpc = "spread" => offset = 0

(* What is in the pages the writer has and had: an undecided page is the   *)
(* last one published, and only an unreliable pipe has one.                *)
PagesPlace ==
  /\ Owns => offset <= Len(ring[wi % Count].bytes)
  /\ wpc \in {"stepPoll", "stepMark"} =>
       ~reliable /\ ri < wi /\ ring[(wi - 1) % Count].mark = "tentative"
  /\ \A k \in ri .. wi - 1 :
       /\ ring[k % Count].size <= Len(ring[k % Count].bytes)
       /\ ring[k % Count].mark = "tentative" =>
            k = wi - 1 /\ wpc \in {"stepPoll", "stepMark", "dead"}

(* Where the reader is: it holds a published page while it copies, and the *)
(* end of a transaction is noticed by the call that returns next.          *)
ReaderPlace ==
  /\ txn \in Seq(Bytes)
  /\ rpc = "next" => ~rpage /\ flag = "tentative"
  /\ rpc \in {"copy", "end"} => rpage /\ flag \in {"tentative", "cont"}
  /\ rpc = "poll" => flag = "cont" /\ roffset = 0
  /\ rpage /\ rpc # "poll" => ri < wi /\ roffset <= ring[ri % Count].size
  /\ ~rpage => roffset = 0
  /\ rpc = "end" => roffset = ring[ri % Count].size
  /\ flag \in {"commit", "rollback"} => rpc = "return" /\ ~rpage

(* The inductive invariant behind MarkedPageUnread. *)
PlaceInv == TypeOK /\ WriterPlace /\ PagesPlace /\ ReaderPlace

(* Every operation of the application ends, also for a transaction larger  *)
(* than the whole queue.                                                   *)
OperationsEnd == wpc # "idle" ~> wpc \in {"idle", "dead"}

(* The state of the channel.  The current transaction is dropped while the *)
(* writer has no page to put it in.  The bytes of complete pages are left  *)
(* out on both sides: that they are lost must disturb no other byte.       *)
Without(s, W) ==
  LET left[n \in 0 .. Len(s)] ==
        IF n = 0 THEN <<>>
        ELSE IF s[n] \in W THEN left[n - 1] ELSE Append(left[n - 1], s[n])
  IN  left[Len(s)]

Partial(t) == Without(t, whole)
Doomed == ~page /\ wpc \notin {"acquire", "dead"}
Commits == [k \in DOMAIN committed |-> Partial(committed[k])]
Deliveries == [k \in DOMAIN delivered |-> Partial(delivered[k])]

Channel ==
  INSTANCE TxnChannel WITH
    doomed <- Doomed,
    open <- Partial(open),
    committed <- Commits,
    delivered <- Deliveries

(* The pipes implement the transaction channel: the consumer is handed the *)
(* committed transactions, whole, once and in order, also if the recording *)
(* process dies right after a commit, and nothing of any other.            *)
ImplementsTxnChannel == Channel!Spec
==============================================================================
