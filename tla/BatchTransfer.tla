---------------------------- MODULE BatchTransfer ----------------------------
(***************************************************************************)
(* Store and forward of recorded transactions between two hogs:            *)
(* bin/hog/batchsend.C batches transactions into compressed segment files  *)
(* in a local directory and a second thread sends the files over TCP;      *)
(* bin/hog/batchrecv.C applies their transactions and acknowledges files.  *)
(*                                                                         *)
(* Transactions are numbered in the order the recording thread takes them. *)
(* A file is the sequence of its transactions.  The connection may break   *)
(* at any time; what the receiver has already got it still processes,      *)
(* while the sender connects again.  Either hog may die.                   *)
(***************************************************************************)
EXTENDS Integers, Sequences, FiniteSets, Functions

CONSTANTS
  MaxTxns,          \* bound on the transactions recorded
  MaxFiles,         \* bound on the files one session publishes
  MaxBreaks,        \* bound on how often a connection breaks, or is closed
                    \* because what it carries cannot be read
  MaxClock,         \* bound on the time, in seconds
  MaxRestarts       \* bound on the restarts of the sending hog

ASSUME BatchAssumption ==
  /\ MaxTxns \in Nat /\ MaxFiles \in Nat /\ MaxBreaks \in Nat
  /\ MaxClock \in Nat /\ MaxRestarts \in Nat

VARIABLES
  taken,            \* transactions taken off the queue so far
  buffer,           \* the transactions in the current temporary file
  fileno,           \* BatchSendSession::c, the number of the next file
  linking,          \* the session is between its link() and its unlink()
  dir,              \* the published files: number -> [txns, ctime]
  aliases,          \* those that are the temporary file by another name
  torn,             \* those that a restart truncated
  clock,            \* the time, in seconds
  spc,              \* where the sending thread is
  conn,             \* its connection, 0 when there is none
  segfiles,         \* the segment files it found and has not yet sent:
                    \* number -> the change time it saw
  file,             \* the file it has sent and waits for
  links,            \* each connection made, with its receiving thread
  breaks, restarts, \* breaks and restarts so far
  applied,          \* history: the transactions applied, in order
  published,        \* history: the transactions given to link()
  discarded,        \* history: the transactions of unlinked files
  stranded,         \* history: those in directories nobody sends from
  overwritten       \* history: those in files that a restart truncated

session == <<taken, buffer, fileno, linking, clock, published, stranded,
             overwritten, restarts>>
files == <<dir, aliases, torn>>
sender == <<spc, conn, segfiles, file>>
vars == <<session, files, sender, links, breaks, applied, discarded>>

InitFile == 0       \* init.gz; segment files are numbered from 1

Init ==
  /\ taken = 0 /\ buffer = <<>> /\ fileno = InitFile /\ linking = FALSE /\ clock = 0
  /\ dir = <<>> /\ aliases = {} /\ torn = {}
  /\ spc = "connect" /\ conn = 0 /\ segfiles = <<>> /\ file = InitFile
  /\ links = <<>> /\ breaks = 0 /\ restarts = 0
  /\ applied = <<>> /\ published = {} /\ discarded = {}
  /\ stranded = {} /\ overwritten = {}

-----------------------------------------------------------------------------
(* The session: a reader of a local queue that fills segment files.        *)

(* The files of fs change now: they are written, or get or lose a name. *)
Touch(d, fs) ==
  [f \in DOMAIN d |-> IF f \in fs THEN [txns |-> d[f].txns, ctime |-> clock] ELSE d[f]]

(* The first half of BatchSendSession::stepFile(), with b in the temporary *)
(* file: close it, and link it to its number.  The result of link() is not *)
(* looked at, and it fails when the name is taken.  (A name the file still *)
(* has from before a restart shows what was written; that is whole only    *)
(* for the init file, as the first file a session closes is that one.)     *)
LinkFile(b) ==
  /\ ~linking /\ linking' = TRUE
  /\ fileno <= MaxFiles /\ fileno' = fileno + 1
  /\ IF fileno \in DOMAIN dir
       THEN dir' = Touch(dir, aliases) /\ UNCHANGED aliases
       ELSE /\ dir' = [f \in DOMAIN dir \cup {fileno} |->
                        IF f = fileno THEN [txns |-> b, ctime |-> clock]
                        ELSE Touch(dir, aliases)[f]]
            /\ aliases' = aliases \cup {fileno}
  /\ torn' = torn \ (aliases \cap {InitFile})
  /\ published' = published \cup Range(b)
  /\ buffer' = <<>>

(* The second half: unlink the temporary file, and open a new one. *)
UnlinkFile ==
  /\ linking /\ linking' = FALSE
  /\ dir' = Touch(dir, aliases)
  /\ aliases' = {}
  /\ UNCHANGED <<taken, buffer, fileno, clock, published, stranded, overwritten,
                 restarts, torn, sender, links, breaks, applied, discarded>>

(* What publishing a file leaves alone. *)
others == <<clock, stranded, overwritten, restarts, sender, links, breaks, applied,
            discarded>>

(* initNetSession(): the description of the statements is the first file. *)
StartSession ==
  /\ fileno = InitFile
  /\ LinkFile(<<>>)
  /\ UNCHANGED <<taken, others>>

(* A transaction is written; then batchCheckF(), which publishes the file  *)
(* if it is large or old enough.                                           *)
Take ==
  /\ fileno # InitFile /\ ~linking
  /\ taken < MaxTxns
  /\ taken' = taken + 1
  /\ LET b == Append(buffer, taken + 1)
     IN  \/ buffer' = b /\ UNCHANGED <<files, linking, published, fileno>>
         \/ LinkFile(b)
  /\ UNCHANGED others

(* The wait for a transaction times out, and batchCheckF() publishes what  *)
(* there is, perhaps nothing.                                              *)
Timeout ==
  /\ fileno # InitFile
  /\ LinkFile(buffer)
  /\ UNCHANGED <<taken, others>>

(* The next second. *)
Tick ==
  /\ clock < MaxClock
  /\ clock' = clock + 1
  /\ UNCHANGED <<taken, buffer, fileno, linking, published, stranded, overwritten,
                 restarts, files, sender, links, breaks, applied, discarded>>

-----------------------------------------------------------------------------
(* The sending thread.                                                     *)

Connect ==
  /\ spc = "connect"
  /\ links' = Append(links, [up |-> TRUE, msg |-> {}, ack |-> FALSE,
                             todo |-> <<>>, rpc |-> "init", bad |-> FALSE])
  /\ conn' = Len(links) + 1
  /\ spc' = "init"
  /\ UNCHANGED <<session, files, segfiles, file, breaks, applied, discarded>>

(* Is what file f has unreadable at the other end?  A truncated file is    *)
(* empty until the session closes it with the init message in it, or part  *)
(* of that is written before.  No error of inflate() is noticed there, so  *)
(* that a segment which is empty is one without transactions.              *)
Unreadable(f) ==
  CASE f \notin torn -> {FALSE}
    [] f \in torn /\ f \in aliases /\ f # InitFile /\ fileno = InitFile -> BOOLEAN
    [] OTHER -> {TRUE}

(* sendFileContents(): size and contents of file f; on a broken connection *)
(* they arrive nowhere, and the error may only show later.  What cannot be *)
(* read at the other end breaks the connection.                            *)
Transmit(f) ==
  \E bad \in Unreadable(f) :
    /\ links' = [links EXCEPT ![conn].msg = IF links[conn].up THEN {dir[f].txns} ELSE {},
                              ![conn].bad = bad]
    /\ IF bad THEN breaks < MaxBreaks /\ breaks' = breaks + 1 ELSE UNCHANGED breaks

(* sendInitMessage(): wait for the init file, send it. *)
SendInit ==
  /\ spc = "init"
  /\ InitFile \in DOMAIN dir
  /\ Transmit(InitFile)
  /\ spc' = "initAck"
  /\ UNCHANGED <<session, files, conn, segfiles, file, applied, discarded>>

AckInit ==
  /\ spc = "initAck"
  /\ links[conn].ack
  /\ links' = [links EXCEPT ![conn].ack = FALSE]
  /\ spc' = "poll"
  /\ UNCHANGED <<session, files, conn, segfiles, file, breaks, applied, discarded>>

(* Faulty variants of steps, for mutation runs only. *)

(* The newest file first. *)
BeforeReversed(f, g) ==
  \/ segfiles[f] > segfiles[g]
  \/ segfiles[f] = segfiles[g] /\ f > g

(* An acknowledged file stays in the directory. *)
AckSegmentKeeps ==
  /\ spc = "ack"
  /\ links[conn].ack
  /\ links' = [links EXCEPT ![conn].ack = FALSE]
  /\ discarded' = discarded \cup Range(dir[file].txns)
  /\ segfiles' = [f \in DOMAIN segfiles \ {file} |-> segfiles[f]]
  /\ spc' = IF DOMAIN segfiles = {file} THEN "poll" ELSE "send"
  /\ UNCHANGED <<session, files, conn, file, breaks, applied>>

(* The files already found are sent again on the broken connection. *)
SendErrorRetries ==
  /\ spc \in {"initAck", "send", "ack"}
  /\ ~links[conn].up
  /\ spc' = "poll"
  /\ segfiles' = <<>>
  /\ UNCHANGED <<session, files, conn, file, links, breaks, applied, discarded>>

(* A segment is acknowledged when it arrives. *)
RecvSegmentAcks(c) ==
  /\ links[c].rpc = "recv"
  /\ \E m \in links[c].msg :
       links' = [links EXCEPT ![c].msg = {}, ![c].todo = m, ![c].rpc = "apply",
                              ![c].ack = links[c].up]
  /\ UNCHANGED <<session, files, sender, breaks, applied, discarded>>

(* sendSegmentFiles(): the order of segment files, by change time and then *)
(* by name.                                                                *)
Before(f, g) ==
  \/ segfiles[f] < segfiles[g]
  \/ segfiles[f] = segfiles[g] /\ f < g

Poll ==
  /\ spc = "poll"
  /\ DOMAIN dir \ {InitFile} # {}
  /\ segfiles' = [f \in DOMAIN dir \ {InitFile} |-> dir[f].ctime]
  /\ spc' = "send"
  /\ UNCHANGED <<session, files, conn, file, links, breaks, applied, discarded>>

SendSegment ==
  /\ spc = "send"
  /\ file' \in DOMAIN segfiles
  /\ \A g \in DOMAIN segfiles \ {file'} : Before(file', g)
  /\ Transmit(file')
  /\ spc' = "ack"
  /\ UNCHANGED <<session, files, conn, segfiles, applied, discarded>>

(* The acknowledgement arrives: the file is unlinked. *)
AckSegment ==
  /\ spc = "ack"
  /\ links[conn].ack
  /\ links' = [links EXCEPT ![conn].ack = FALSE]
  /\ dir' = [g \in DOMAIN dir \ {file} |-> dir[g]]
  /\ aliases' = aliases \ {file} /\ torn' = torn \ {file}
  /\ discarded' = discarded \cup Range(dir[file].txns)
  /\ segfiles' = [f \in DOMAIN segfiles \ {file} |-> segfiles[f]]
  /\ file' = InitFile
  /\ spc' = IF DOMAIN segfiles = {file} THEN "poll" ELSE "send"
  /\ UNCHANGED <<session, conn, breaks, applied>>

(* An error on the connection: close it, and connect again later. *)
SendError ==
  /\ spc \in {"initAck", "send", "ack"}
  /\ ~links[conn].up
  /\ links' = [links EXCEPT ![conn].ack = FALSE]
  /\ spc' = "connect"
  /\ conn' = 0
  /\ segfiles' = <<>> /\ file' = InitFile
  /\ UNCHANGED <<session, files, breaks, applied, discarded>>

-----------------------------------------------------------------------------
(* The receiving hog: one thread for each connection (runRecvConnection).  *)

RecvInit(c) ==
  /\ links[c].rpc = "init"
  /\ links[c].msg # {} /\ ~links[c].bad
  /\ links' = [links EXCEPT ![c].msg = {}, ![c].ack = links[c].up,
                            ![c].rpc = IF links[c].up THEN "recv" ELSE "dead"]
  /\ UNCHANGED <<session, files, sender, breaks, applied, discarded>>

RecvSegment(c) ==
  /\ links[c].rpc = "recv" /\ ~links[c].bad
  /\ \E m \in links[c].msg :
       links' = [links EXCEPT ![c].msg = {}, ![c].todo = m, ![c].rpc = "apply"]
  /\ UNCHANGED <<session, files, sender, breaks, applied, discarded>>

ApplyTxn(c) ==
  /\ links[c].rpc = "apply"
  /\ links[c].todo # <<>>
  /\ applied' = Append(applied, Head(links[c].todo))
  /\ links' = [links EXCEPT ![c].todo = Tail(@)]
  /\ UNCHANGED <<session, files, sender, breaks, discarded>>

(* All transactions of the segment are applied: acknowledge it, unless the *)
(* connection is gone.                                                     *)
SendAck(c) ==
  /\ links[c].rpc = "apply"
  /\ links[c].todo = <<>>
  /\ links' = [links EXCEPT ![c].ack = links[c].up,
                            ![c].rpc = IF links[c].up THEN "recv" ELSE "dead"]
  /\ UNCHANGED <<session, files, sender, breaks, applied, discarded>>

(* What arrives cannot be read: the thread ends and closes the connection. *)
RecvFails(c) ==
  /\ links[c].rpc \in {"init", "recv"}
  /\ links[c].msg # {} /\ links[c].bad
  /\ links' = [links EXCEPT ![c].msg = {}, ![c].up = FALSE, ![c].rpc = "dead"]
  /\ UNCHANGED <<session, files, sender, breaks, applied, discarded>>

(* srecv() finds the connection gone: the thread ends. *)
RecvError(c) ==
  /\ links[c].rpc \in {"init", "recv"}
  /\ ~links[c].up
  /\ links[c].msg = {}
  /\ links' = [links EXCEPT ![c].rpc = "dead"]
  /\ UNCHANGED <<session, files, sender, breaks, applied, discarded>>

-----------------------------------------------------------------------------
(* Failures.                                                               *)

(* A connection breaks: what is under way in either direction may or may   *)
(* not have arrived.                                                       *)
Break(c) ==
  /\ breaks < MaxBreaks
  /\ links[c].up
  /\ breaks' = breaks + 1
  /\ \E m \in {{}, links[c].msg}, a \in {FALSE, links[c].ack} :
       links' = [links EXCEPT ![c].up = FALSE, ![c].msg = m, ![c].ack = a]
  /\ UNCHANGED <<session, files, sender, applied, discarded>>

(* The receiving hog dies, and with it the threads of all connections. *)
ReceiverDies ==
  /\ breaks < MaxBreaks
  /\ links # <<>>
  /\ breaks' = breaks + 1
  /\ links' = [c \in DOMAIN links |->
                 [links[c] EXCEPT !.up = FALSE, !.msg = {}, !.todo = <<>>,
                                  !.rpc = "dead"]]
  /\ UNCHANGED <<session, files, sender, applied, discarded>>

(* The sending hog is restarted and its queue registered again.  The       *)
(* directory is named after the process and thread ids: it is a new one,   *)
(* or an old one whose temporary file is truncated, and with it the        *)
(* published file that was the same one when the hog died.                 *)
Restart ==
  /\ restarts < MaxRestarts
  /\ restarts' = restarts + 1
  /\ buffer' = <<>>
  /\ fileno' = InitFile /\ linking' = FALSE
  /\ \/ /\ dir' = [f \in DOMAIN dir |->
                   IF f \in aliases THEN [txns |-> <<>>, ctime |-> clock] ELSE dir[f]]
        /\ torn' = torn \cup aliases
        /\ overwritten' = overwritten \cup UNION {Range(dir[f].txns) : f \in aliases}
        /\ UNCHANGED <<aliases, stranded>>
     \/ /\ dir' = <<>> /\ aliases' = {} /\ torn' = {}
        /\ UNCHANGED overwritten
        /\ stranded' = stranded \cup UNION {Range(dir[f].txns) : f \in DOMAIN dir}
  /\ spc' = "connect" /\ conn' = 0 /\ segfiles' = <<>> /\ file' = InitFile
  /\ links' = IF conn = 0 THEN links
              ELSE [links EXCEPT ![conn].up = FALSE, ![conn].ack = FALSE]
  /\ UNCHANGED <<taken, clock, breaks, applied, published, discarded>>

-----------------------------------------------------------------------------
SendStep ==
  Connect \/ SendInit \/ AckInit \/ Poll \/ SendSegment \/ AckSegment \/ SendError
RecvStep(c) ==
  \/ RecvInit(c) \/ RecvSegment(c) \/ ApplyTxn(c) \/ SendAck(c)
  \/ RecvFails(c) \/ RecvError(c)

Next ==
  \/ StartSession \/ Take \/ Timeout \/ UnlinkFile \/ Tick
  \/ SendStep
  \/ \E c \in DOMAIN links : RecvStep(c) \/ Break(c)
  \/ ReceiverDies \/ Restart

(* The session starts, both processes are scheduled, and the connection    *)
(* does not break for ever.                                                *)
Fairness ==
  /\ WF_vars(StartSession \/ UnlinkFile)
  /\ WF_vars(SendStep)
  /\ \A c \in 1 .. (MaxBreaks + MaxRestarts + 1) :
       WF_vars(c \in DOMAIN links /\ RecvStep(c))

Spec == Init /\ [][Next]_vars /\ Fairness

-----------------------------------------------------------------------------
(* Properties.                                                             *)

Txns == 1 .. MaxTxns
Links == [up : BOOLEAN, msg : SUBSET Seq(Txns), ack : BOOLEAN, todo : Seq(Txns),
          rpc : {"init", "recv", "apply", "dead"}, bad : BOOLEAN]

(* Types; there is a connection exactly while the sender is past "connect", *)
(* and the files it means to send are in the directory.                     *)
TypeOK ==
  /\ taken \in 0 .. MaxTxns /\ buffer \in Seq(Txns)
  /\ fileno \in 0 .. MaxFiles + 1 /\ clock \in 0 .. MaxClock
  /\ linking \in BOOLEAN /\ aliases \subseteq DOMAIN dir /\ torn \subseteq DOMAIN dir
  /\ DOMAIN dir \subseteq 0 .. MaxFiles
  /\ \A f \in DOMAIN dir : dir[f].txns \in Seq(Txns) /\ dir[f].ctime \in 0 .. clock
  /\ spc \in {"connect", "init", "initAck", "poll", "send", "ack"}
  /\ conn \in 0 .. Len(links) /\ (conn = 0 <=> spc = "connect")
  /\ DOMAIN segfiles \subseteq DOMAIN dir
  /\ \A f \in DOMAIN segfiles : segfiles[f] \in Nat
  /\ links \in Seq(Links)
  /\ applied \in Seq(Txns)

(* A segment file is unlinked only when all of its transactions have been  *)
(* applied, whatever broke in between.                                     *)
DiscardedIsApplied == discarded \subseteq Range(applied)

(* How sender and receiver of one connection l stand to each other while   *)
(* the sender is at s, has sent a file with transactions m, and done are   *)
(* applied: nothing is under way unless the sender waits for it, and what  *)
(* the receiver has not applied of m it still has before it.               *)
Standing(l, s, m, done) ==
  /\ s = "init" => l.rpc \in {"init", "dead"} /\ l.msg = {} /\ ~l.ack
  /\ s = "initAck" =>
       \/ l.rpc \in {"init", "dead"} /\ ~l.ack
       \/ l.rpc \in {"recv", "dead"} /\ l.msg = {}
  /\ s \in {"poll", "send"} => l.rpc \in {"recv", "dead"} /\ l.msg = {} /\ ~l.ack
  /\ s = "ack" =>
       /\ l.rpc # "init"
       /\ l.msg \subseteq {m}
       /\ l.msg # {} => l.rpc # "apply" /\ ~l.ack
       /\ l.rpc = "apply" => ~l.ack /\ Range(m) \subseteq done \cup Range(l.todo)
       /\ l.ack => Range(m) \subseteq done

(* The current connection stands so, and its file is still there. *)
HandOver ==
  /\ spc # "connect" =>
       /\ conn \in DOMAIN links
       /\ Standing(links[conn], spc, dir[file].txns, Range(applied))
  /\ spc = "ack" => file \in DOMAIN segfiles

(* The inductive invariant behind DiscardedIsApplied. *)
TransferInv == TypeOK /\ HandOver /\ DiscardedIsApplied

(* No transaction is applied before an earlier one: at any time, what was  *)
(* applied is all that was recorded up to some point.  Threads of old      *)
(* connections that are still applying do not break this; a restart of the *)
(* sender, which loses what was in the temporary file, does.               *)
AppliedInOrder ==
  restarts = 0 => \A t \in Range(applied) : 1 .. t \subseteq Range(applied)

(* A transaction is applied again only because of a broken connection or a *)
(* restart of the sender.                                                  *)
RepeatsNeedBreaks ==
  \A t \in Range(applied) :
    Cardinality({i \in DOMAIN applied : applied[i] = t}) <= 1 + breaks + restarts

(* Transaction t is older than those in the temporary file.                  *)
Older(t) == t <= taken /\ \A u \in Range(buffer) : t < u

Increasing(s) == \A i, j \in DOMAIN s : i < j => s[i] < s[j]

(* The transactions of a published file, or of the rest of one.              *)
Recorded(s) == Increasing(s) /\ \A t \in Range(s) : Older(t)

(* What connection l carries, and its thread has before it.                  *)
Carries(l) ==
  /\ Recorded(l.todo)
  /\ \A m \in l.msg : Recorded(m)
  /\ l.rpc = "apply" => l.msg = {}

(* Every transaction is recorded once: in the temporary file or in one       *)
(* published file, in order, and so it travels.                              *)
RecordedOnce ==
  /\ Increasing(buffer)
  /\ \A u \in Range(buffer) : u <= taken
  /\ \A f \in DOMAIN dir : Recorded(dir[f].txns)
  /\ \A f, g \in DOMAIN dir : f # g => Range(dir[f].txns) \cap Range(dir[g].txns) = {}
  /\ \A c \in DOMAIN links : Carries(links[c])
  /\ \A t \in Range(applied) : Older(t)

(* All that is older than a transaction of s is applied or before it in s.   *)
Ready(s) ==
  \A i \in DOMAIN s : \A t \in 1 .. s[i] - 1 :
     t \in Range(applied) \/ \E j \in DOMAIN s : j < i /\ s[j] = t

(* Until the sender restarts: the files are in order, only the last one may  *)
(* still change, those the sender has found are the oldest and it saw them   *)
(* in order, nothing is lost, and nothing is on its way before what is older *)
(* has been applied.                                                         *)
FilesInOrder ==
  restarts = 0 =>
    /\ \A f \in DOMAIN dir : f < fileno
    /\ \A f, g \in DOMAIN dir : f < g =>
         /\ dir[f].ctime <= dir[g].ctime
         /\ \A t \in Range(dir[f].txns), u \in Range(dir[g].txns) : t < u
    /\ fileno = InitFile => buffer = <<>>
    /\ InitFile \in DOMAIN dir => dir[InitFile].txns = <<>>
    /\ aliases \subseteq IF linking THEN {fileno - 1} ELSE {}
    /\ \A g \in DOMAIN segfiles : \A f \in DOMAIN dir \ {InitFile} :
         f < g => f \in DOMAIN segfiles /\ segfiles[f] <= segfiles[g]
    /\ \A t \in 1 .. taken :
         \/ t \in Range(applied) \/ t \in Range(buffer)
         \/ \E f \in DOMAIN dir : t \in Range(dir[f].txns)
    /\ \A c \in DOMAIN links :
         Ready(links[c].todo) /\ \A m \in links[c].msg : Ready(m)

(* The inductive invariant behind AppliedInOrder. *)
OrderInv ==
  /\ restarts \in Nat
  /\ TransferInv /\ RecordedOnce /\ FilesInOrder /\ AppliedInOrder

(* Each connection but the first took a break or a restart; only the last    *)
(* one can be up, and when what it carries cannot be read its own break is   *)
(* already counted.                                                          *)
LinksNeedBreaks ==
  /\ breaks \in Nat /\ restarts \in Nat
  /\ conn # 0 => conn = Len(links)
  /\ \A c \in DOMAIN links : links[c].up => c = conn
  /\ \/ Len(links) <= breaks + restarts
     \/ /\ Len(links) = 1 + breaks + restarts
        /\ conn # 0 /\ links[conn].up /\ ~links[conn].bad

(* The i-th application of a transaction came over the connection by[i]: no  *)
(* connection applies a transaction twice, as it is neither before its       *)
(* thread again nor in a file that the sender has yet to send over it.       *)
AppliedOnceBy(by) ==
  /\ \A i, j \in DOMAIN applied : i # j /\ applied[i] = applied[j] => by[i] # by[j]
  /\ \A i \in DOMAIN applied :
       /\ applied[i] \notin Range(links[by[i]].todo)
       /\ \A m \in links[by[i]].msg : applied[i] \notin Range(m)
       /\ by[i] = conn => \A f \in DOMAIN dir :
            applied[i] \in Range(dir[f].txns) => spc = "ack" /\ f = file

(* What the thread of the sender's connection has before it is of the file   *)
(* the sender waits for.                                                     *)
OfThatFile ==
  spc = "ack" /\ links[conn].rpc = "apply" =>
    Range(links[conn].todo) \subseteq Range(dir[file].txns)

(* The inductive invariant behind RepeatsNeedBreaks. *)
RepeatsInv ==
  /\ TransferInv /\ RecordedOnce /\ LinksNeedBreaks /\ OfThatFile
  /\ \E by \in [DOMAIN applied -> DOMAIN links] : AppliedOnceBy(by)

(* The transactions in published files. *)
Waiting == UNION {Range(dir[f].txns) : f \in DOMAIN dir}

(* Every transaction in a published file is eventually applied, unless a     *)
(* restart of the sender leaves the directory behind, or truncates a file:   *)
(* its own, or one that then keeps the sender from those behind it, as it    *)
(* breaks the connection whenever it is sent.                                *)
WaitingIsApplied ==
  \A t \in Txns :
    t \in Waiting ~> \/ t \in Range(applied) \cup stranded \cup overwritten
                     \/ torn \ {InitFile} # {}

(* README.md: data is kept in temporary local storage pending successful   *)
(* sends.  A published transaction is in a file until it is applied, or    *)
(* the file was; those that a restart leaves behind, or truncates, are not *)
(* what this is about.                                                     *)
PublishedIsKept ==
  published \subseteq Range(applied) \cup stranded \cup Waiting \cup overwritten
==============================================================================
