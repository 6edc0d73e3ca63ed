------------------------ MODULE BatchTransferProofs -------------------------
(***************************************************************************)
(* Proofs about BatchTransfer for any number of transactions, files,       *)
(* broken connections and restarts: what is under way and what has been    *)
(* applied, then in which order transactions are applied, and how often.   *)
(***************************************************************************)
EXTENDS BatchTransfer, SequenceTheorems, FiniteSetTheorems, TLAPS

(* What a step does to one link leaves a sequence of links. *)
LEMMA ChangeLink ==
  ASSUME NEW s \in Seq(Links), NEW c \in DOMAIN s, NEW r \in Links
  PROVE  /\ [s EXCEPT ![c] = r] \in Seq(Links)
         /\ Len([s EXCEPT ![c] = r]) = Len(s)
         /\ DOMAIN [s EXCEPT ![c] = r] = DOMAIN s
<1>1. c \in 1 .. Len(s)
  BY LenProperties
<1> QED
  BY <1>1, ExceptSeq

(* A link is a record of Links. *)
LEMMA LinkType ==
  ASSUME TypeOK, NEW c \in DOMAIN links
  PROVE  links[c] \in Links
<1>1. links \in Seq(Links) /\ c \in 1 .. Len(links)
  BY LenProperties DEF TypeOK
<1> QED
  BY <1>1, ElementOfSeq

(* More applied transactions do not disturb the standing of a link. *)
LEMMA StandingGrows ==
  ASSUME NEW l, NEW s, NEW m, NEW done, NEW more,
         Standing(l, s, m, done), done \subseteq more
  PROVE  Standing(l, s, m, more)
BY DEF Standing

(* What the elements of a sequence are after appending and taking one.     *)
LEMMA RangeAppend ==
  ASSUME NEW S, NEW s \in Seq(S), NEW e \in S
  PROVE  Append(s, e) \in Seq(S) /\ Range(Append(s, e)) = Range(s) \cup {e}
<1>1. /\ Append(s, e) \in Seq(S)
      /\ Len(Append(s, e)) = Len(s) + 1
      /\ \A i \in 1 .. Len(s) : Append(s, e)[i] = s[i]
      /\ Append(s, e)[Len(s) + 1] = e
  BY AppendProperties
<1>2. /\ DOMAIN s = 1 .. Len(s) /\ Len(s) \in Nat
      /\ DOMAIN Append(s, e) = 1 .. Len(s) + 1
  BY <1>1, LenProperties
<1>3. 1 .. Len(s) + 1 = (1 .. Len(s)) \cup {Len(s) + 1}
  BY <1>2
<1> QED
  BY <1>1, <1>2, <1>3 DEF Range

LEMMA RangeTail ==
  ASSUME NEW S, NEW s \in Seq(S), s # <<>>
  PROVE  /\ Head(s) \in S /\ Tail(s) \in Seq(S)
         /\ Range(s) = {Head(s)} \cup Range(Tail(s))
<1>1. /\ Head(s) \in S /\ Tail(s) \in Seq(S)
      /\ Len(Tail(s)) = Len(s) - 1 /\ Len(s) \in Nat \ {0}
      /\ \A i \in 1 .. Len(Tail(s)) : Tail(s)[i] = s[i + 1]
  BY HeadTailProperties
<1>2. Range(s) \subseteq {Head(s)} \cup Range(Tail(s))
  <2> SUFFICES ASSUME NEW i \in 1 .. Len(s), i # 1
               PROVE  s[i] \in Range(Tail(s))
    BY DEF Range
  <2>1. i - 1 \in 1 .. Len(Tail(s)) /\ Tail(s)[i - 1] = s[i]
    BY <1>1
  <2> QED
    BY <1>1, <2>1 DEF Range
<1>3. {Head(s)} \cup Range(Tail(s)) \subseteq Range(s)
  <2>1. \A i \in 1 .. Len(Tail(s)) : i + 1 \in 1 .. Len(s) /\ Tail(s)[i] = s[i + 1]
    BY <1>1
  <2> QED
    BY <1>1, <2>1 DEF Range
<1> QED
  BY <1>1, <1>2, <1>3

-----------------------------------------------------------------------------
(* Only change times are different in what was touched. *)
LEMMA Touched ==
  ASSUME TypeOK, NEW fs
  PROVE  /\ DOMAIN Touch(dir, fs) = DOMAIN dir
         /\ \A f \in DOMAIN dir :
              /\ Touch(dir, fs)[f].txns = dir[f].txns
              /\ Touch(dir, fs)[f].ctime \in 0 .. clock
              /\ f \in fs => Touch(dir, fs)[f].ctime = clock
              /\ f \notin fs => Touch(dir, fs)[f].ctime = dir[f].ctime
<1>1. clock \in 0 .. clock
  BY DEF TypeOK
<1>2. DOMAIN Touch(dir, fs) = DOMAIN dir
  BY DEF Touch
<1>3. ASSUME NEW f \in DOMAIN dir
      PROVE  Touch(dir, fs)[f] = IF f \in fs THEN [txns |-> dir[f].txns, ctime |-> clock]
                                 ELSE dir[f]
  BY DEF Touch
<1>4. \A f \in DOMAIN dir : dir[f].ctime \in 0 .. clock
  BY DEF TypeOK
<1> HIDE DEF Touch
<1> QED
  BY <1>1, <1>2, <1>3, <1>4

(* Publishing a file keeps what the published files contain. *)
LEMMA LinkFileKeeps ==
  ASSUME TypeOK, NEW b \in Seq(Txns), LinkFile(b)
  PROVE  /\ buffer' = <<>> /\ fileno' = fileno + 1 /\ fileno' \in 0 .. MaxFiles + 1
         /\ linking' = TRUE
         /\ DOMAIN dir' \subseteq 0 .. MaxFiles
         /\ aliases' \subseteq DOMAIN dir' /\ torn' \subseteq DOMAIN dir'
         /\ aliases' \subseteq aliases \cup {fileno}
         /\ \A f \in DOMAIN dir' :
              dir'[f].txns \in Seq(Txns) /\ dir'[f].ctime \in 0 .. clock
         /\ DOMAIN dir \subseteq DOMAIN dir'
         /\ \A f \in DOMAIN dir :
              /\ dir'[f].txns = dir[f].txns
              /\ f \notin aliases => dir'[f].ctime = dir[f].ctime
         /\ fileno \in DOMAIN dir => DOMAIN dir' = DOMAIN dir
         /\ fileno \notin DOMAIN dir =>
              /\ DOMAIN dir' = DOMAIN dir \cup {fileno}
              /\ dir'[fileno].txns = b /\ dir'[fileno].ctime = clock
<1> USE BatchAssumption
<1> DEFINE t == Touch(dir, aliases)
<1>1. /\ DOMAIN t = DOMAIN dir
      /\ \A f \in DOMAIN dir :
           /\ t[f].txns = dir[f].txns /\ t[f].ctime \in 0 .. clock
           /\ f \notin aliases => t[f].ctime = dir[f].ctime
  BY Touched
<1>2. /\ buffer' = <<>> /\ fileno' = fileno + 1 /\ fileno' \in 0 .. MaxFiles + 1
      /\ fileno \in 0 .. MaxFiles /\ linking' = TRUE
      /\ torn' \subseteq torn /\ clock \in 0 .. clock
  BY SMTT(30) DEF TypeOK, LinkFile
<1>3. /\ aliases \subseteq DOMAIN dir /\ torn \subseteq DOMAIN dir
      /\ DOMAIN dir \subseteq 0 .. MaxFiles
      /\ \A f \in DOMAIN dir : dir[f].txns \in Seq(Txns)
  BY DEF TypeOK
<1>4. CASE fileno \in DOMAIN dir
  <2>1. dir' = t /\ aliases' = aliases
    BY <1>4 DEF LinkFile
  <2> HIDE DEF t
  <2> QED
    BY <1>1, <1>2, <1>3, <1>4, <2>1
<1>5. CASE fileno \notin DOMAIN dir
  <2>1. /\ dir' = [f \in DOMAIN dir \cup {fileno} |->
                    IF f = fileno THEN [txns |-> b, ctime |-> clock] ELSE t[f]]
        /\ aliases' = aliases \cup {fileno}
    BY <1>5 DEF LinkFile
  <2> HIDE DEF t
  <2>2. DOMAIN dir' = DOMAIN dir \cup {fileno}
    BY <2>1
  <2>3. \A f \in DOMAIN dir : dir'[f] = t[f]
    BY <1>5, <2>1
  <2>4. dir'[fileno].txns = b /\ dir'[fileno].ctime = clock
    BY <2>1
  <2> QED
    BY <1>1, <1>2, <1>3, <1>5, <2>1, <2>2, <2>3, <2>4
<1> QED
  BY <1>4, <1>5

(* So does unlinking the temporary file. *)
LEMMA UnlinkKeeps ==
  ASSUME TypeOK, UnlinkFile
  PROVE  /\ DOMAIN dir' = DOMAIN dir /\ aliases' = {} /\ linking' = FALSE
         /\ \A f \in DOMAIN dir :
              /\ dir'[f].txns = dir[f].txns /\ dir'[f].ctime \in 0 .. clock
              /\ f \in aliases => dir'[f].ctime = clock
              /\ f \notin aliases => dir'[f].ctime = dir[f].ctime
BY Touched DEF UnlinkFile

(* The steps of the session, each with what it publishes. *)
SessionStep == StartSession \/ Take \/ Timeout \/ UnlinkFile \/ Tick

(* The recording side leaves sender and receivers where they are. *)
LEMMA SessionInv ==
  ASSUME TransferInv, SessionStep
  PROVE  TransferInv'
<1> USE BatchAssumption
<1>1. UNCHANGED <<spc, conn, segfiles, file, links, applied, discarded>>
  BY DEF SessionStep, StartSession, Take, Timeout, UnlinkFile, Tick, others, sender
<1>2. /\ taken' \in 0 .. MaxTxns /\ buffer' \in Seq(Txns)
      /\ fileno' \in 0 .. MaxFiles + 1 /\ clock' \in 0 .. MaxClock
      /\ linking' \in BOOLEAN /\ aliases' \subseteq DOMAIN dir' /\ torn' \subseteq DOMAIN dir'
      /\ DOMAIN dir' \subseteq 0 .. MaxFiles
      /\ \A f \in DOMAIN dir' :
           dir'[f].txns \in Seq(Txns) /\ dir'[f].ctime \in 0 .. clock'
      /\ DOMAIN dir \subseteq DOMAIN dir'
      /\ \A f \in DOMAIN dir : dir'[f].txns = dir[f].txns
  <2> USE DEF TransferInv
  <2>0. <<>> \in Seq(Txns)
    BY EmptySeq
  <2>1. CASE StartSession
    <3> DEFINE b == <<>>
    <3>1. LinkFile(b) /\ b \in Seq(Txns)
      BY <2>0, <2>1 DEF StartSession
    <3> HIDE DEF b
    <3>2. taken' \in 0 .. MaxTxns /\ clock' = clock /\ clock \in 0 .. MaxClock
      BY <2>1 DEF StartSession, others, TypeOK
    <3> QED
      BY <2>0, <3>1, <3>2, LinkFileKeeps
  <2>2. CASE Timeout
    <3>1. /\ LinkFile(buffer) /\ buffer \in Seq(Txns) /\ taken' \in 0 .. MaxTxns
          /\ clock' = clock /\ clock \in 0 .. MaxClock
      BY <2>2 DEF Timeout, TypeOK, others
    <3> QED
      BY <2>0, <3>1, LinkFileKeeps
  <2>3. CASE Take
    <3> DEFINE b == Append(buffer, taken + 1)
    <3>1. /\ taken + 1 \in Txns /\ taken' = taken + 1 /\ taken' \in 0 .. MaxTxns
          /\ clock' = clock /\ clock \in 0 .. MaxClock
      BY <2>3 DEF Take, TypeOK, Txns, others
    <3>2. b \in Seq(Txns)
      BY <3>1 DEF TypeOK
    <3>3. CASE LinkFile(b)
      <4> HIDE DEF b
      <4> QED
        BY <2>0, <3>1, <3>2, <3>3, LinkFileKeeps
    <3>4. CASE buffer' = b /\ UNCHANGED <<files, linking, published, fileno>>
      BY <3>1, <3>2, <3>4 DEF TypeOK, Txns, files
    <3> QED
      BY <2>3, <3>3, <3>4 DEF Take
  <2>4. CASE UnlinkFile
    <3>1. UNCHANGED <<taken, buffer, fileno, clock, torn>>
      BY <2>4 DEF UnlinkFile
    <3>2. /\ taken \in 0 .. MaxTxns /\ buffer \in Seq(Txns)
          /\ fileno \in 0 .. MaxFiles + 1 /\ clock \in 0 .. MaxClock
          /\ torn \subseteq DOMAIN dir /\ DOMAIN dir \subseteq 0 .. MaxFiles
          /\ \A f \in DOMAIN dir : dir[f].txns \in Seq(Txns)
      BY DEF TypeOK
    <3> QED
      BY <2>4, <3>1, <3>2, UnlinkKeeps
  <2>5. CASE Tick
    <3>1. /\ UNCHANGED <<taken, buffer, fileno, linking, dir, aliases, torn>>
          /\ clock' \in 0 .. MaxClock /\ 0 .. clock \subseteq 0 .. clock'
      BY <2>5 DEF Tick, files, TypeOK
    <3> QED
      BY <3>1 DEF TypeOK
  <2> QED
    BY <2>1, <2>2, <2>3, <2>4, <2>5 DEF SessionStep
<1>3. TypeOK'
  BY <1>1, <1>2 DEF TransferInv, TypeOK
<1>4. HandOver'
  <2>1. spc = "ack" => dir'[file].txns = dir[file].txns
    BY <1>2 DEF TransferInv, TypeOK, HandOver
  <2> QED
    BY <1>1, <2>1 DEF TransferInv, HandOver, Standing
<1>5. DiscardedIsApplied'
  BY <1>1 DEF TransferInv, DiscardedIsApplied
<1> QED
  BY <1>3, <1>4, <1>5 DEF TransferInv

-----------------------------------------------------------------------------
(* A step on link c that makes it r keeps the invariant if what is applied *)
(* grows and, should c be the sender's connection, r stands as it must.    *)
LEMMA LinkStep ==
  ASSUME TransferInv, NEW c \in DOMAIN links, NEW r \in Links,
         links' = [links EXCEPT ![c] = r],
         UNCHANGED <<session, files, sender, discarded>>,
         applied' \in Seq(Txns), Range(applied) \subseteq Range(applied'),
         c = conn => Standing(r, spc, dir[file].txns, Range(applied'))
  PROVE  TransferInv'
<1>1. links' \in Seq(Links) /\ Len(links') = Len(links) /\ DOMAIN links' = DOMAIN links
  BY ChangeLink DEF TransferInv, TypeOK
<1>2. TypeOK'
  BY <1>1 DEF TransferInv, TypeOK, session, files, sender
<1>3. ASSUME spc # "connect"
      PROVE  Standing(links'[conn], spc, dir[file].txns, Range(applied'))
  <2>1. conn \in DOMAIN links /\ Standing(links[conn], spc, dir[file].txns, Range(applied))
    BY <1>3 DEF TransferInv, HandOver
  <2>2. CASE c = conn
    BY <2>1, <2>2
  <2>3. CASE c # conn
    <3>1. links'[conn] = links[conn]
      BY <2>1, <2>3
    <3> QED
      BY <2>1, <3>1, StandingGrows
  <2> QED
    BY <2>2, <2>3
<1>4. HandOver'
  <2>1. UNCHANGED <<spc, conn, file, dir, segfiles>>
    BY DEF sender, files
  <2> QED
    BY <1>1, <1>3, <2>1 DEF TransferInv, HandOver
<1>5. DiscardedIsApplied'
  BY DEF TransferInv, DiscardedIsApplied
<1> QED
  BY <1>2, <1>4, <1>5 DEF TransferInv

(* The standing of the sender's own connection. *)
LEMMA OwnLink ==
  ASSUME TransferInv, NEW c \in DOMAIN links
  PROVE  /\ links[c] \in Links
         /\ c = conn => Standing(links[c], spc, dir[file].txns, Range(applied))
<1>1. links[c] \in Links
  BY LinkType DEF TransferInv
<1>2. c = conn => spc # "connect"
  <2>1. c # 0
    BY LenProperties DEF TransferInv, TypeOK
  <2> QED
    BY <2>1 DEF TransferInv, TypeOK
<1> QED
  BY <1>1, <1>2 DEF TransferInv, HandOver

LEMMA RecvInv ==
  ASSUME TransferInv, NEW c \in DOMAIN links, RecvStep(c) \/ Break(c)
  PROVE  TransferInv'
<1> DEFINE l == links[c]
           S(r, done) == c = conn => Standing(r, spc, dir[file].txns, done)
<1>1. l \in Links /\ S(l, Range(applied))
  BY OwnLink
<1>2. applied \in Seq(Txns)
  BY DEF TransferInv, TypeOK
<1>3. CASE RecvInit(c)
  <2> DEFINE r == [l EXCEPT !.msg = {}, !.ack = l.up,
                            !.rpc = IF l.up THEN "recv" ELSE "dead"]
  <2>1. r \in Links /\ links' = [links EXCEPT ![c] = r]
    BY <1>1, <1>3 DEF RecvInit, Links
  <2>2. S(r, Range(applied))
    BY <1>1, <1>3 DEF RecvInit, Links, Standing
  <2> HIDE DEF r
  <2> QED
    BY <1>2, <1>3, <2>1, <2>2, LinkStep DEF RecvInit
<1>4. CASE RecvSegment(c)
  <2>1. PICK m \in l.msg :
          links' = [links EXCEPT ![c].msg = {}, ![c].todo = m, ![c].rpc = "apply"]
    BY <1>4 DEF RecvSegment
  <2> DEFINE r == [l EXCEPT !.msg = {}, !.todo = m, !.rpc = "apply"]
  <2>2. r \in Links /\ links' = [links EXCEPT ![c] = r]
    BY <1>1, <2>1 DEF Links
  <2>3. S(r, Range(applied))
    BY <1>1, <1>4, <2>1 DEF RecvSegment, Links, Standing
  <2> QED
    BY <1>2, <1>4, <2>2, <2>3, LinkStep DEF RecvSegment
<1>5. CASE ApplyTxn(c)
  <2> DEFINE r == [l EXCEPT !.todo = Tail(l.todo)]
  <2>1. l.todo \in Seq(Txns) /\ l.todo # <<>>
    BY <1>1, <1>5 DEF ApplyTxn, Links
  <2>2. /\ Head(l.todo) \in Txns /\ Tail(l.todo) \in Seq(Txns)
        /\ Range(l.todo) = {Head(l.todo)} \cup Range(Tail(l.todo))
    BY <2>1, RangeTail
  <2>3. applied' \in Seq(Txns) /\ Range(applied') = Range(applied) \cup {Head(l.todo)}
    BY <1>2, <1>5, <2>2, RangeAppend DEF ApplyTxn
  <2>4. r \in Links /\ links' = [links EXCEPT ![c] = r]
    BY <1>1, <1>5, <2>2 DEF ApplyTxn, Links
  <2>5. S(r, Range(applied'))
    BY <1>1, <1>5, <2>2, <2>3 DEF ApplyTxn, Links, Standing
  <2> QED
    BY <1>5, <2>3, <2>4, <2>5, LinkStep DEF ApplyTxn
<1>6. CASE SendAck(c)
  <2> DEFINE r == [l EXCEPT !.ack = l.up, !.rpc = IF l.up THEN "recv" ELSE "dead"]
  <2>1. r \in Links /\ links' = [links EXCEPT ![c] = r]
    BY <1>1, <1>6 DEF SendAck, Links
  <2>2. Range(l.todo) = {}
    BY <1>6 DEF SendAck, Range
  <2>3. S(r, Range(applied))
    BY <1>1, <1>6, <2>2 DEF SendAck, Links, Standing
  <2> QED
    BY <1>2, <1>6, <2>1, <2>3, LinkStep DEF SendAck
<1>7. CASE RecvError(c)
  <2> DEFINE r == [l EXCEPT !.rpc = "dead"]
  <2>1. r \in Links /\ links' = [links EXCEPT ![c] = r]
    BY <1>1, <1>7 DEF RecvError, Links
  <2>2. S(r, Range(applied))
    BY <1>1, <1>7 DEF RecvError, Links, Standing
  <2> QED
    BY <1>2, <1>7, <2>1, <2>2, LinkStep DEF RecvError
<1>8. CASE Break(c)
  <2>1. PICK m \in {{}, l.msg}, a \in {FALSE, l.ack} :
          links' = [links EXCEPT ![c].up = FALSE, ![c].msg = m, ![c].ack = a]
    BY <1>8 DEF Break
  <2> DEFINE r == [l EXCEPT !.up = FALSE, !.msg = m, !.ack = a]
  <2>2. r \in Links /\ links' = [links EXCEPT ![c] = r]
    BY <1>1, <2>1 DEF Links
  <2>3. S(r, Range(applied))
    BY <1>1, <2>1 DEF Links, Standing
  <2> QED
    BY <1>2, <1>8, <2>2, <2>3, LinkStep DEF Break
<1>9. CASE RecvFails(c)
  <2> DEFINE r == [l EXCEPT !.msg = {}, !.up = FALSE, !.rpc = "dead"]
  <2>1. r \in Links /\ links' = [links EXCEPT ![c] = r]
    BY <1>1, <1>9 DEF RecvFails, Links
  <2>2. S(r, Range(applied))
    BY <1>1, <1>9 DEF RecvFails, Links, Standing
  <2> HIDE DEF r
  <2> QED
    BY <1>2, <1>9, <2>1, <2>2, LinkStep DEF RecvFails
<1> QED
  BY <1>3, <1>4, <1>5, <1>6, <1>7, <1>8, <1>9 DEF RecvStep

-----------------------------------------------------------------------------
(* A step of the sender on its connection: it makes the link r, and r      *)
(* stands as the sender's new place and file ask.                          *)
LEMMA OwnStep ==
  ASSUME TransferInv, conn \in DOMAIN links, NEW r \in Links,
         links' = [links EXCEPT ![conn] = r],
         UNCHANGED <<session, files, conn, applied, discarded, segfiles>>,
         spc # "connect", spc' \in {"init", "initAck", "poll", "send", "ack"},
         spc' = "ack" => file' \in DOMAIN segfiles,
         Standing(r, spc', dir[file'].txns, Range(applied))
  PROVE  TransferInv'
<1>1. links' \in Seq(Links) /\ Len(links') = Len(links) /\ DOMAIN links' = DOMAIN links
  BY ChangeLink DEF TransferInv, TypeOK
<1>2. TypeOK'
  BY <1>1 DEF TransferInv, TypeOK, session, files
<1>3. links'[conn] = r
  OBVIOUS
<1>4. HandOver'
  BY <1>1, <1>3 DEF HandOver, files
<1>5. DiscardedIsApplied'
  BY DEF TransferInv, DiscardedIsApplied
<1> QED
  BY <1>2, <1>4, <1>5 DEF TransferInv

(* File f is sent, readable at the other end or not. *)
SentAs(f, bad) ==
  /\ links' = [links EXCEPT ![conn].msg = IF links[conn].up THEN {dir[f].txns} ELSE {},
                            ![conn].bad = bad]
  /\ IF bad THEN breaks < MaxBreaks /\ breaks' = breaks + 1 ELSE UNCHANGED breaks

LEMMA SentSomehow ==
  ASSUME NEW f, Transmit(f)
  PROVE  \E bad \in BOOLEAN : SentAs(f, bad)
<1>1. PICK bad \in Unreadable(f) : SentAs(f, bad)
  BY DEF Transmit, SentAs
<1>2. Unreadable(f) \subseteq BOOLEAN
  <2>1. \/ Unreadable(f) = {FALSE} \/ Unreadable(f) = BOOLEAN \/ Unreadable(f) = {TRUE}
    BY DEF Unreadable
  <2> QED
    BY <2>1
<1> QED
  BY <1>1, <1>2

(* Sending on the connection puts the message there, or loses it. *)
LEMMA Transmitted ==
  ASSUME NEW f, dir[f].txns \in Seq(Txns), conn \in DOMAIN links, links[conn] \in Links,
         Transmit(f)
  PROVE  \E r \in Links :
           /\ links' = [links EXCEPT ![conn] = r]
           /\ r.msg \subseteq {dir[f].txns} /\ r.ack = links[conn].ack
           /\ r.rpc = links[conn].rpc
<1>0. PICK v \in BOOLEAN : SentAs(f, v)
  BY SentSomehow
<1> DEFINE l == links[conn]
           r == [l EXCEPT !.msg = IF l.up THEN {dir[f].txns} ELSE {}, !.bad = v]
<1>1. r \in Links
  BY DEF Links
<1>2. r.msg \subseteq {dir[f].txns} /\ r.ack = l.ack /\ r.rpc = l.rpc
  BY DEF Links
<1>3. links' = [links EXCEPT ![conn] = r]
  BY <1>0 DEF SentAs
<1> QED
  BY <1>1, <1>2, <1>3

LEMMA SendInv ==
  ASSUME TransferInv, SendStep
  PROVE  TransferInv'
<1> DEFINE l == links[conn]
           done == Range(applied)
<1>1. ASSUME spc # "connect"
      PROVE  /\ conn \in DOMAIN links /\ l \in Links
             /\ Standing(l, spc, dir[file].txns, done)
  <2>1. conn \in DOMAIN links /\ Standing(l, spc, dir[file].txns, done)
    BY <1>1 DEF TransferInv, HandOver
  <2> QED
    BY <2>1, LinkType DEF TransferInv
<1>2. CASE Connect
  <2> DEFINE r == [up |-> TRUE, msg |-> {}, ack |-> FALSE, todo |-> <<>>, rpc |-> "init",
                  bad |-> FALSE]
  <2>1. r \in Links
    BY EmptySeq DEF Links
  <2>2. links \in Seq(Links) /\ links' = Append(links, r)
    BY <1>2 DEF Connect, TransferInv, TypeOK
  <2>3. Standing(r, "init", dir[file].txns, done)
    BY DEF Standing
  <2> HIDE DEF r
  <2>4. /\ links' \in Seq(Links) /\ Len(links') = Len(links) + 1
        /\ links'[Len(links) + 1] = r /\ Len(links) \in Nat
    BY <2>1, <2>2, AppendProperties, LenProperties
  <2>5. /\ conn' = Len(links) + 1 /\ conn' \in 1 .. Len(links') /\ conn' \in DOMAIN links'
        /\ spc' = "init"
    BY <1>2, <2>4, LenProperties DEF Connect
  <2>6. UNCHANGED <<taken, buffer, fileno, linking, clock, dir, aliases, torn, segfiles, file,
                    applied, discarded>>
    BY <1>2 DEF Connect, session, files
  <2>7. TypeOK'
    BY <2>4, <2>5, <2>6 DEF TransferInv, TypeOK
  <2>8. HandOver'
    BY <2>3, <2>4, <2>5, <2>6 DEF HandOver
  <2>9. DiscardedIsApplied'
    BY <2>6 DEF TransferInv, DiscardedIsApplied
  <2> QED
    BY <2>7, <2>8, <2>9 DEF TransferInv
<1>3. CASE SendInit
  <2>1. dir[InitFile].txns \in Seq(Txns) /\ spc = "init" /\ spc' = "initAck"
    BY <1>3 DEF SendInit, TransferInv, TypeOK
  <2>2. PICK r \in Links :
          /\ links' = [links EXCEPT ![conn] = r]
          /\ r.ack = l.ack /\ r.rpc = l.rpc /\ r.msg \subseteq {dir[InitFile].txns}
    BY <1>1, <1>3, <2>1, Transmitted DEF SendInit
  <2>3. Standing(r, spc', dir[file'].txns, done)
    BY <1>1, <2>1, <2>2 DEF Standing, Links
  <2> QED
    BY <1>1, <1>3, <2>1, <2>2, <2>3, OwnStep DEF SendInit
<1>4. CASE AckInit
  <2> DEFINE r == [l EXCEPT !.ack = FALSE]
  <2>1. spc = "initAck" /\ spc' = "poll"
    BY <1>4 DEF AckInit
  <2>2. r \in Links /\ links' = [links EXCEPT ![conn] = r]
    BY <1>1, <1>4, <2>1 DEF AckInit, Links
  <2>3. Standing(r, spc', dir[file'].txns, done)
    BY <1>1, <1>4, <2>1 DEF AckInit, Standing, Links
  <2> HIDE DEF r
  <2> QED
    BY <1>1, <1>4, <2>1, <2>2, <2>3, OwnStep DEF AckInit
<1>5. CASE Poll
  <2>1. /\ spc = "poll" /\ spc' = "send"
        /\ segfiles' = [f \in DOMAIN dir \ {InitFile} |-> dir[f].ctime]
        /\ UNCHANGED <<session, files, conn, links, file, applied, discarded>>
    BY <1>5 DEF Poll
  <2>a. /\ DOMAIN segfiles' \subseteq DOMAIN dir
        /\ \A f \in DOMAIN segfiles' : segfiles'[f] \in Nat
    BY <2>1 DEF TransferInv, TypeOK
  <2>2. TypeOK'
    BY <2>1, <2>a DEF TransferInv, TypeOK, session, files
  <2>3. HandOver'
    BY <1>1, <2>1 DEF HandOver, Standing, files
  <2>4. DiscardedIsApplied'
    BY <2>1 DEF TransferInv, DiscardedIsApplied
  <2> QED
    BY <2>2, <2>3, <2>4 DEF TransferInv
<1>6. CASE SendSegment
  <2>1. dir[file'].txns \in Seq(Txns) /\ file' \in DOMAIN segfiles /\ spc = "send" /\ spc' = "ack"
    BY <1>6 DEF SendSegment, TransferInv, TypeOK
  <2>2. PICK r \in Links :
          /\ links' = [links EXCEPT ![conn] = r]
          /\ r.ack = l.ack /\ r.rpc = l.rpc /\ r.msg \subseteq {dir[file'].txns}
    BY <1>1, <1>6, <2>1, Transmitted DEF SendSegment
  <2>3. Standing(r, spc', dir[file'].txns, done)
    BY <1>1, <2>1, <2>2 DEF Standing, Links
  <2> QED
    BY <1>1, <1>6, <2>1, <2>2, <2>3, OwnStep DEF SendSegment
<1>7. CASE AckSegment
  <2> DEFINE r == [l EXCEPT !.ack = FALSE]
  <2>1. spc = "ack" /\ l.ack /\ spc' \in {"poll", "send"}
    BY <1>7 DEF AckSegment
  <2>2. r \in Links /\ links' = [links EXCEPT ![conn] = r]
    BY <1>1, <1>7, <2>1 DEF AckSegment, Links
  <2>3. Range(dir[file].txns) \subseteq done
    BY <1>1, <2>1 DEF Standing
  <2>4. Standing(r, spc', dir'[file'].txns, done)
    BY <1>1, <2>1 DEF Standing, Links
  <2> HIDE DEF r
  <2>5. links' \in Seq(Links) /\ Len(links') = Len(links) /\ DOMAIN links' = DOMAIN links
    BY <1>1, <2>1, <2>2, ChangeLink DEF TransferInv, TypeOK
  <2>6. /\ dir' = [g \in DOMAIN dir \ {file} |-> dir[g]]
        /\ aliases' = aliases \ {file} /\ torn' = torn \ {file}
        /\ discarded' = discarded \cup Range(dir[file].txns)
        /\ segfiles' = [f \in DOMAIN segfiles \ {file} |-> segfiles[f]]
        /\ UNCHANGED <<taken, buffer, fileno, linking, clock, conn, applied>>
    BY <1>7 DEF AckSegment, session
  <2>7. TypeOK'
    BY <2>1, <2>5, <2>6 DEF TransferInv, TypeOK
  <2>8. HandOver'
    BY <1>1, <2>1, <2>2, <2>4, <2>5, <2>6 DEF HandOver
  <2>9. DiscardedIsApplied'
    BY <2>3, <2>6 DEF TransferInv, DiscardedIsApplied
  <2> QED
    BY <2>7, <2>8, <2>9 DEF TransferInv
<1>8. CASE SendError
  <2>1. /\ spc' = "connect" /\ conn' = 0 /\ segfiles' = <<>> /\ DOMAIN <<>> = {}
        /\ UNCHANGED <<taken, buffer, fileno, linking, clock, dir, aliases, torn, applied,
                       discarded>>
    BY <1>8 DEF SendError, session, files
  <2>2. links' \in Seq(Links) /\ Len(links') \in Nat
    <3> DEFINE r == [l EXCEPT !.ack = FALSE]
    <3>1. spc # "connect"
      BY <1>8 DEF SendError
    <3>2. r \in Links /\ links' = [links EXCEPT ![conn] = r]
      BY <1>1, <1>8, <3>1 DEF SendError, Links
    <3> HIDE DEF r
    <3> QED
      BY <1>1, <3>1, <3>2, ChangeLink, LenProperties DEF TransferInv, TypeOK
  <2>3. TypeOK'
    BY <2>1, <2>2 DEF TransferInv, TypeOK
  <2> QED
    BY <2>1, <2>3 DEF TransferInv, HandOver, DiscardedIsApplied
<1> QED
  BY <1>2, <1>3, <1>4, <1>5, <1>6, <1>7, <1>8 DEF SendStep

-----------------------------------------------------------------------------
(* The death of the receiving hog ends every thread and loses every        *)
(* message; that of the sending hog ends its connection.                   *)
LEMMA FailureInv ==
  ASSUME TransferInv, ReceiverDies \/ Restart
  PROVE  TransferInv'
<1> USE BatchAssumption
<1>1. links \in Seq(Links) /\ DOMAIN links = 1 .. Len(links) /\ Len(links) \in Nat
  BY LenProperties DEF TransferInv, TypeOK
<1>2. \A c \in DOMAIN links : links[c] \in Links
  BY LinkType DEF TransferInv
<1>3. CASE ReceiverDies
  <2> DEFINE r(c) == [links[c] EXCEPT !.up = FALSE, !.msg = {}, !.todo = <<>>,
                                    !.rpc = "dead"]
  <2>1. \A c \in DOMAIN links : r(c) \in Links /\ r(c).msg = {} /\ r(c).rpc = "dead"
                                 /\ r(c).ack = links[c].ack
    BY <1>2, EmptySeq DEF Links
  <2>2. links' = [c \in 1 .. Len(links) |-> r(c)]
    BY <1>1, <1>3 DEF ReceiverDies
  <2> HIDE DEF r
  <2>3. links' \in Seq(Links) /\ Len(links') = Len(links) /\ DOMAIN links' = DOMAIN links
    BY <1>1, <2>1, <2>2
  <2>4. UNCHANGED <<taken, buffer, fileno, linking, clock, dir, aliases, torn, spc, conn,
                    segfiles, file, applied, discarded>>
    BY <1>3 DEF ReceiverDies, session, files, sender
  <2>5. TypeOK'
    BY <2>3, <2>4 DEF TransferInv, TypeOK
  <2>6. ASSUME spc # "connect"
        PROVE  Standing(links'[conn], spc, dir[file].txns, Range(applied))
    <3>1. conn \in DOMAIN links /\ Standing(links[conn], spc, dir[file].txns, Range(applied))
      BY <2>6 DEF TransferInv, HandOver
    <3>2. /\ links'[conn].msg = {} /\ links'[conn].rpc = "dead"
          /\ links'[conn].ack = links[conn].ack
      BY <1>1, <2>1, <2>2, <3>1
    <3> QED
      BY <3>1, <3>2 DEF Standing
  <2>7. HandOver'
    BY <2>3, <2>4, <2>6 DEF TransferInv, HandOver
  <2> QED
    BY <2>4, <2>5, <2>7 DEF TransferInv, DiscardedIsApplied
<1>4. CASE Restart
  <2>1. links' \in Seq(Links) /\ Len(links') = Len(links)
    <3>1. CASE conn = 0
      BY <1>1, <1>4, <3>1 DEF Restart
    <3>2. CASE conn # 0
      <4> DEFINE r == [links[conn] EXCEPT !.up = FALSE, !.ack = FALSE]
      <4>1. conn \in DOMAIN links
        BY <1>1, <3>2 DEF TransferInv, TypeOK
      <4>2. r \in Links /\ links' = [links EXCEPT ![conn] = r]
        BY <1>2, <1>4, <3>2, <4>1 DEF Restart, Links
      <4> HIDE DEF r
      <4> QED
        BY <1>1, <4>1, <4>2, ChangeLink
    <3> QED
      BY <3>1, <3>2
  <2>2. /\ DOMAIN dir' \subseteq DOMAIN dir
        /\ aliases' \subseteq DOMAIN dir' /\ torn' \subseteq DOMAIN dir'
        /\ \A f \in DOMAIN dir' :
             dir'[f].txns \in Seq(Txns) /\ dir'[f].ctime \in 0 .. clock
    <3>0. /\ aliases \subseteq DOMAIN dir /\ torn \subseteq DOMAIN dir
          /\ \A f \in DOMAIN dir : dir[f].txns \in Seq(Txns) /\ dir[f].ctime \in 0 .. clock
          /\ clock \in 0 .. clock
      BY DEF TransferInv, TypeOK
    <3>1. CASE dir' = <<>> /\ aliases' = {} /\ torn' = {}
      <4>1. DOMAIN <<>> = {}
        OBVIOUS
      <4> QED
        BY <3>1, <4>1
    <3>2. CASE /\ dir' = [f \in DOMAIN dir |->
                            IF f \in aliases THEN [txns |-> <<>>, ctime |-> clock] ELSE dir[f]]
               /\ torn' = torn \cup aliases /\ aliases' = aliases
      <4>1. DOMAIN dir' = DOMAIN dir
        BY <3>2
      <4>2. \A f \in DOMAIN dir : dir'[f] = IF f \in aliases
                                             THEN [txns |-> <<>>, ctime |-> clock] ELSE dir[f]
        BY <3>2
      <4>3. <<>> \in Seq(Txns)
        BY EmptySeq
      <4> QED
        BY <3>0, <3>2, <4>1, <4>2, <4>3
    <3> QED
      BY <1>4, <3>1, <3>2 DEF Restart
  <2>3. /\ buffer' = <<>> /\ fileno' = 0 /\ linking' = FALSE
        /\ spc' = "connect" /\ conn' = 0 /\ segfiles' = <<>> /\ DOMAIN <<>> = {}
        /\ UNCHANGED <<taken, clock, applied, discarded>>
    BY <1>4 DEF Restart, InitFile
  <2>c. linking' \in BOOLEAN
    BY <2>3
  <2>a. /\ buffer' \in Seq(Txns) /\ fileno' \in 0 .. MaxFiles + 1
        /\ spc' \in {"connect", "init", "initAck", "poll", "send", "ack"}
        /\ conn' \in 0 .. Len(links') /\ (conn' = 0 <=> spc' = "connect")
    BY <1>1, <2>1, <2>3, EmptySeq
  <2>b. /\ DOMAIN segfiles' \subseteq DOMAIN dir'
        /\ \A f \in DOMAIN segfiles' : segfiles'[f] \in Nat
    BY <2>3
  <2>4. TypeOK'
    BY <2>1, <2>2, <2>3, <2>a, <2>b, <2>c DEF TransferInv, TypeOK
  <2> QED
    BY <2>3, <2>4 DEF TransferInv, HandOver, DiscardedIsApplied
<1> QED
  BY <1>3, <1>4

(* The three facts about TransferInv. *)
LEMMA TransferInit == Init => TransferInv
<1> SUFFICES ASSUME Init PROVE TransferInv
  OBVIOUS
<1> USE BatchAssumption
<1>1. <<>> \in Seq(Txns) /\ <<>> \in Seq(Links) /\ Len(<<>>) = 0 /\ DOMAIN <<>> = {}
  BY EmptySeq
<1>a. /\ linking \in BOOLEAN /\ spc = "connect" /\ conn = 0 /\ segfiles = <<>> /\ dir = <<>>
      /\ links = <<>>
  BY DEF Init
<1>b. /\ DOMAIN segfiles \subseteq DOMAIN dir /\ \A f \in DOMAIN segfiles : segfiles[f] \in Nat
      /\ conn \in 0 .. Len(links) /\ (conn = 0 <=> spc = "connect")
      /\ spc \in {"connect", "init", "initAck", "poll", "send", "ack"}
  BY <1>1, <1>a
<1>c. /\ taken \in 0 .. MaxTxns /\ buffer \in Seq(Txns) /\ fileno \in 0 .. MaxFiles + 1
      /\ clock \in 0 .. MaxClock /\ aliases = {} /\ torn = {} /\ applied \in Seq(Txns)
  BY <1>1 DEF Init, InitFile
<1>2. TypeOK
  BY <1>1, <1>a, <1>b, <1>c DEF TypeOK
<1> QED
  BY <1>2 DEF Init, TransferInv, HandOver, DiscardedIsApplied

LEMMA TransferNext == TransferInv /\ [Next]_vars => TransferInv'
<1> SUFFICES ASSUME TransferInv, [Next]_vars PROVE TransferInv'
  OBVIOUS
<1>1. CASE SessionStep
  BY <1>1, SessionInv
<1>2. CASE SendStep
  BY <1>2, SendInv
<1>3. ASSUME NEW c \in DOMAIN links, RecvStep(c) \/ Break(c)
      PROVE  TransferInv'
  BY <1>3, RecvInv
<1>4. CASE ReceiverDies \/ Restart
  BY <1>4, FailureInv
<1>5. CASE UNCHANGED vars
  BY <1>5 DEF vars, session, files, sender, TransferInv, TypeOK, HandOver, Standing,
     DiscardedIsApplied
<1> QED
  BY <1>1, <1>2, <1>3, <1>4, <1>5 DEF Next, SessionStep

(* Sender and receiver of a connection agree on what is under way, in      *)
(* every reachable state: after breaks of the connection, the death of the *)
(* receiver and restarts of the sender (runConnection, runRecvConnection). *)
THEOREM Transfer == Spec => []TransferInv
<1> QED
  BY TransferInit, TransferNext, PTL DEF Spec

(* The sender unlinks a segment file only after every transaction in it    *)
(* has been applied, however many connections break and hogs die.          *)
THEOREM DiscardOnlyApplied == Spec => []DiscardedIsApplied
<1>1. TransferInv => DiscardedIsApplied
  BY DEF TransferInv
<1> QED
  BY <1>1, Transfer, PTL

(***************************************************************************)
(* The order in which transactions are applied, and how often              *)
(***************************************************************************)

(* What a step makes of a link l: r.                                         *)
Kept(l, r) ==
  /\ r.msg \subseteq l.msg /\ r.todo \in {l.todo, <<>>}
  /\ r.rpc = "apply" => l.rpc = "apply"
Received(l, r) == r.todo \in l.msg /\ r.msg = {}
Took(l, r) ==
  /\ l.rpc = "apply" /\ l.todo # <<>>
  /\ r.todo = Tail(l.todo) /\ r.msg = l.msg
  /\ applied' = Append(applied, Head(l.todo))
Sent(l, r, f) ==
  /\ f \in DOMAIN dir /\ r.msg \subseteq {dir[f].txns}
  /\ r.todo = l.todo /\ r.rpc = l.rpc /\ l.rpc # "apply"
Fresh(r) == r.todo = <<>> /\ r.msg = {}

Effect(c) ==
  \/ Kept(links[c], links'[c])
  \/ Received(links[c], links'[c])
  \/ Took(links[c], links'[c])
  \/ c = conn /\ SendInit /\ Sent(links[c], links'[c], InitFile)
  \/ c = conn /\ SendSegment /\ Sent(links[c], links'[c], file')

(* The effect of a step on each connection; a new one starts empty.          *)
LEMMA LinkEffects ==
  ASSUME TransferInv, [Next]_vars
  PROVE  /\ DOMAIN links \subseteq DOMAIN links'
         /\ \A c \in DOMAIN links : Effect(c)
         /\ \A c \in DOMAIN links' \ DOMAIN links : Fresh(links'[c])
<1>0. /\ \A c \in DOMAIN links : links[c] \in Links
      /\ links \in Seq(Links) /\ Len(links) \in Nat /\ DOMAIN links = 1 .. Len(links)
      /\ conn # 0 => conn \in DOMAIN links
      /\ conn = 0 <=> spc = "connect"
  BY LinkType, LenProperties DEF TransferInv, TypeOK
<1>1. CASE UNCHANGED links
  BY <1>1 DEF Effect, Kept
<1>2. ASSUME NEW c \in DOMAIN links, RecvStep(c) \/ Break(c)
      PROVE  /\ DOMAIN links' = DOMAIN links
             /\ \A d \in DOMAIN links : Effect(d)
  <2>0. links[c] \in Links
    BY <1>0
  <2>1. CASE RecvInit(c)
    BY <2>0, <2>1 DEF RecvInit, Effect, Kept, Links
  <2>2. CASE RecvSegment(c)
    BY <2>0, <2>2 DEF RecvSegment, Effect, Kept, Received, Links
  <2>3. CASE ApplyTxn(c)
    BY <2>0, <2>3 DEF ApplyTxn, Effect, Kept, Took, Links
  <2>4. CASE SendAck(c)
    BY <2>0, <2>4 DEF SendAck, Effect, Kept, Links
  <2>5. CASE RecvError(c)
    BY <2>0, <2>5 DEF RecvError, Effect, Kept, Links
  <2>6. CASE Break(c)
    BY <2>0, <2>6 DEF Break, Effect, Kept, Links
  <2>7. CASE RecvFails(c)
    BY <2>0, <2>7 DEF RecvFails, Effect, Kept, Links
  <2> QED
    BY <1>2, <2>1, <2>2, <2>3, <2>4, <2>5, <2>6, <2>7 DEF RecvStep
<1>3. CASE SendInit
  <2>1. spc = "init" /\ conn \in DOMAIN links /\ links[conn].rpc # "apply"
        /\ links[conn] \in Links
    BY <1>0, <1>3 DEF SendInit, TransferInv, HandOver, Standing
  <2>2. InitFile \in DOMAIN dir /\ Transmit(InitFile)
    BY <1>3 DEF SendInit
  <2> QED
    <3>1. PICK v \in BOOLEAN : SentAs(InitFile, v)
      BY <2>2, SentSomehow
    <3> QED
      BY <1>3, <2>1, <2>2, <3>1 DEF Effect, Kept, Sent, SentAs, Links
<1>4. CASE SendSegment
  <2>1. spc = "send" /\ conn \in DOMAIN links /\ links[conn].rpc # "apply"
        /\ links[conn] \in Links
    BY <1>0, <1>4 DEF SendSegment, TransferInv, HandOver, Standing
  <2>2. file' \in DOMAIN dir /\ Transmit(file')
    BY <1>4 DEF SendSegment, TransferInv, TypeOK
  <2> QED
    <3>1. PICK v \in BOOLEAN : SentAs(file', v)
      BY <2>2, SentSomehow
    <3> QED
      BY <1>4, <2>1, <2>2, <3>1 DEF Effect, Kept, Sent, SentAs, Links
<1>5. CASE AckInit \/ AckSegment \/ SendError
  <2>1. spc \in {"initAck", "ack", "send"} /\ conn \in DOMAIN links
    BY <1>0, <1>5 DEF AckInit, AckSegment, SendError
  <2>2. links' = [links EXCEPT ![conn].ack = FALSE]
    BY <1>5 DEF AckInit, AckSegment, SendError
  <2> QED
    BY <1>0, <2>1, <2>2 DEF Effect, Kept, Links
<1>6. CASE Connect
  <2>1. links' = Append(links, [up |-> TRUE, msg |-> {}, ack |-> FALSE,
                                todo |-> <<>>, rpc |-> "init", bad |-> FALSE])
    BY <1>6 DEF Connect
  <2>2. /\ DOMAIN links' = DOMAIN links \cup {Len(links) + 1}
        /\ \A c \in DOMAIN links : links'[c] = links[c]
        /\ Fresh(links'[Len(links) + 1])
    BY <1>0, <2>1 DEF Fresh
  <2> QED
    BY <2>2 DEF Effect, Kept
<1>7. CASE ReceiverDies
  BY <1>0, <1>7 DEF ReceiverDies, Effect, Kept, Links
<1>8. CASE Restart
  <2>1. CASE conn = 0
    BY <1>1, <1>8, <2>1 DEF Restart
  <2>2. CASE conn # 0
    BY <1>0, <1>8, <2>2 DEF Restart, Effect, Kept, Links
  <2> QED
    BY <2>1, <2>2
<1>9. CASE SessionStep \/ Poll \/ UNCHANGED vars
  BY <1>1, <1>9 DEF SessionStep, StartSession, Take, Timeout, UnlinkFile, Tick, others, Poll,
     vars
<1> QED
  BY <1>2, <1>3, <1>4, <1>5, <1>6, <1>7, <1>8, <1>9 DEF Next, SendStep, SessionStep

-----------------------------------------------------------------------------
(* Only receiving threads apply transactions. *)
LEMMA AppliedEffect ==
  ASSUME [Next]_vars
  PROVE  UNCHANGED applied \/ \E c \in DOMAIN links : ApplyTxn(c)
BY DEF Next, StartSession, Take, Timeout, UnlinkFile, Tick, others, SendStep, Connect,
       SendInit, AckInit, Poll, SendSegment, AckSegment, SendError, RecvStep, RecvInit,
       RecvSegment, SendAck, RecvFails, RecvError, Break, ReceiverDies, Restart, vars

LEMMA IncreasingAppend ==
  ASSUME NEW s \in Seq(Nat), NEW n \in Nat, Increasing(s), \A u \in Range(s) : u < n
  PROVE  Increasing(Append(s, n))
<1>1. /\ \A i \in 1 .. Len(s) : s[i] \in Nat /\ s[i] \in Range(s)
      /\ DOMAIN s = 1 .. Len(s) /\ Len(s) \in Nat
  BY LenProperties, ElementOfSeq DEF Range
<1>2. /\ DOMAIN Append(s, n) = 1 .. Len(s) + 1 /\ Append(s, n)[Len(s) + 1] = n
      /\ \A i \in 1 .. Len(s) : Append(s, n)[i] = s[i]
  BY AppendProperties, LenProperties
<1> QED
  BY <1>1, <1>2 DEF Increasing

LEMMA RangeInNat ==
  ASSUME NEW s \in Seq(Txns)
  PROVE  Range(s) \subseteq Nat
<1>1. Range(s) \subseteq Txns
  BY RangeOfSeq
<1> QED
  BY <1>1 DEF Txns

LEMMA IncreasingNext ==
  ASSUME NEW s \in Seq(Txns), NEW n \in Nat, Increasing(s), \A u \in Range(s) : u <= n
  PROVE  Increasing(Append(s, n + 1))
<1>1. Txns \subseteq Nat
  BY DEF Txns
<1>2. s \in Seq(Nat) /\ Range(s) \subseteq Nat
  BY <1>1, SeqMonotonic, RangeOfSeq
<1>3. n + 1 \in Nat /\ \A u \in Range(s) : u < n + 1
  BY <1>2
<1> QED
  BY <1>2, <1>3, IncreasingAppend

LEMMA IncreasingTail ==
  ASSUME NEW s \in Seq(Txns), s # <<>>, Increasing(s)
  PROVE  Increasing(Tail(s))
<1>1. /\ Tail(s) \in Seq(Txns) /\ Len(Tail(s)) = Len(s) - 1 /\ Len(s) \in Nat
      /\ \A i \in 1 .. Len(Tail(s)) : Tail(s)[i] = s[i + 1]
  BY HeadTailProperties, LenProperties
<1>2. DOMAIN s = 1 .. Len(s) /\ DOMAIN Tail(s) = 1 .. Len(Tail(s))
  BY <1>1, LenProperties
<1> QED
  BY <1>1, <1>2 DEF Increasing

(* What the temporary file is published with: older transactions it holds,   *)
(* in order, and perhaps the next one.                                       *)
FromBuffer(b) ==
  /\ Increasing(b)
  /\ \A t \in Range(b) : t <= taken' /\ (t \in Range(buffer) \/ taken < t)

(* What a step does to the session's files: the directory stays, loses       *)
(* files or, in a restart, contents, or gets what the temporary file holds.  *)
FilesStay ==
  /\ DOMAIN dir' \subseteq DOMAIN dir
  /\ \A f \in DOMAIN dir' : dir'[f].txns \in {dir[f].txns, <<>>}

LEMMA FileEffects ==
  ASSUME TransferInv, RecordedOnce, [Next]_vars
  PROVE  /\ taken \in Nat /\ taken' \in Nat /\ taken <= taken'
         /\ \/ FilesStay /\ FromBuffer(buffer')
            \/ \E b \in Seq(Txns) : FromBuffer(b) /\ LinkFile(b)
<1>1. /\ taken \in Nat /\ buffer \in Seq(Txns) /\ Range(buffer) \subseteq Txns /\ taken <= MaxTxns
      /\ Increasing(buffer) /\ \A u \in Range(buffer) : u <= taken
      /\ DOMAIN buffer = 1 .. Len(buffer) /\ Len(buffer) \in Nat
  BY BatchAssumption, RangeOfSeq, LenProperties DEF TransferInv, TypeOK, RecordedOnce
<1>2. Increasing(<<>>) /\ Range(<<>>) = {} /\ <<>> \in Seq(Txns)
  BY EmptySeq DEF Increasing, Range
<1>3. CASE StartSession
  <2>1. taken' = taken /\ LinkFile(<<>>)
    BY <1>3 DEF StartSession
  <2>2. FromBuffer(<<>>)
    BY <1>2 DEF FromBuffer
  <2> DEFINE b == <<>>
  <2>3. b \in Seq(Txns) /\ FromBuffer(b) /\ LinkFile(b)
    BY <1>2, <2>1, <2>2
  <2> HIDE DEF b
  <2> QED
    BY <1>1, <2>1, <2>3
<1>4. CASE Timeout
  BY <1>1, <1>4 DEF Timeout, FromBuffer
<1>5. CASE Take
  <2> DEFINE b == Append(buffer, taken + 1)
  <2>1. taken' = taken + 1 /\ taken + 1 \in Txns
    BY <1>1, <1>5, BatchAssumption DEF Take, Txns
  <2>2. b \in Seq(Txns) /\ Range(b) = Range(buffer) \cup {taken + 1}
    BY <1>1, <2>1, RangeAppend
  <2>3. Increasing(b)
    BY <1>1, IncreasingNext
  <2>4. FromBuffer(b)
    BY <1>1, <2>1, <2>2, <2>3 DEF FromBuffer, Txns
  <2> HIDE DEF b
  <2>5. (buffer' = b /\ dir' = dir) \/ LinkFile(b)
    BY <1>5 DEF Take, b, files
  <2> QED
    BY <1>1, <2>1, <2>2, <2>4, <2>5 DEF FilesStay
<1>6. CASE Restart
  <2>1. /\ taken' = taken /\ buffer' = <<>>
        /\ \/ dir' = <<>>
           \/ dir' = [f \in DOMAIN dir |->
                        IF f \in aliases THEN [txns |-> <<>>, ctime |-> clock] ELSE dir[f]]
    BY <1>6 DEF Restart
  <2>2. DOMAIN <<>> = {}
    OBVIOUS
  <2>3. FilesStay
    BY <2>1, <2>2 DEF FilesStay
  <2> QED
    BY <1>1, <1>2, <2>1, <2>3 DEF FromBuffer
<1>7. CASE AckSegment
  <2>1. /\ taken' = taken /\ buffer' = buffer
        /\ dir' = [g \in DOMAIN dir \ {file} |-> dir[g]]
    BY <1>7 DEF AckSegment, session
  <2> QED
    BY <1>1, <2>1 DEF FromBuffer, FilesStay
<1>8. CASE UnlinkFile
  <2>1. taken' = taken /\ buffer' = buffer
    BY <1>8 DEF UnlinkFile
  <2>2. FilesStay
    BY <1>8, UnlinkKeeps DEF TransferInv, FilesStay
  <2> QED
    BY <1>1, <2>1, <2>2 DEF FromBuffer
<1>9. CASE UNCHANGED <<taken, buffer, dir>>
  BY <1>1, <1>9 DEF FromBuffer, FilesStay
<1> QED
  BY <1>3, <1>4, <1>5, <1>6, <1>7, <1>8, <1>9
  DEF Next, SendStep, Connect, SendInit, AckInit, Poll, SendSegment, SendError, Tick,
      RecvStep, RecvInit, RecvSegment, ApplyTxn, SendAck, RecvFails, RecvError, Break,
      ReceiverDies, vars, session, files

(* Older, Recorded and Carries as they are after the step. *)
OlderNow(t) == t <= taken' /\ \A u \in Range(buffer') : t < u
RecordedNow(s) == Increasing(s) /\ \A t \in Range(s) : OlderNow(t)
CarriesNow(l) ==
  /\ RecordedNow(l.todo)
  /\ \A m \in l.msg : RecordedNow(m)
  /\ l.rpc = "apply" => l.msg = {}

(* What is older than the temporary file stays so: the file only gets newer  *)
(* transactions.                                                             *)
LEMMA OlderStays ==
  ASSUME TransferInv, RecordedOnce, [Next]_vars
  PROVE  /\ \A t \in Nat : Older(t) => OlderNow(t)
         /\ \A s \in Seq(Txns) : Recorded(s) => RecordedNow(s)
<1> USE DEF OlderNow, RecordedNow
<1>1. /\ taken \in Nat /\ taken' \in Nat /\ taken <= taken'
      /\ \A u \in Range(buffer') : u \in Range(buffer) \/ taken < u
      /\ \A u \in Range(buffer') : u \in Nat
  <2>1. \/ FromBuffer(buffer')
        \/ \E b \in Seq(Txns) : FromBuffer(b) /\ LinkFile(b)
    BY FileEffects
  <2>2. Range(<<>>) = {}
    BY DEF Range
  <2>3. \A u \in Range(buffer') : u \in Nat
    <3>1. buffer' \in Seq(Txns)
      BY TransferNext DEF TransferInv, TypeOK
    <3>2. Range(buffer') \subseteq Txns
      BY <3>1, RangeOfSeq
    <3> QED
      BY <3>2 DEF Txns
  <2> QED
    BY <2>1, <2>2, <2>3, FileEffects DEF FromBuffer, LinkFile
<1>2. \A t \in Nat : Older(t) => OlderNow(t)
  BY <1>1 DEF Older
<1>3. \A s \in Seq(Txns) : \A t \in Range(s) : t \in Nat
  <2>1. \A s \in Seq(Txns) : Range(s) \subseteq Txns
    BY RangeOfSeq
  <2> QED
    BY <2>1 DEF Txns
<1> QED
  BY <1>2, <1>3 DEF Recorded

LEMMA RecordedOnceNext ==
  ASSUME TransferInv, RecordedOnce, [Next]_vars
  PROVE  RecordedOnce'
<1> USE DEF RecordedNow, OlderNow
<1>1. \A s \in Seq(Txns) : Recorded(s) => RecordedNow(s)
  BY OlderStays
<1>2. Range(<<>>) = {} /\ <<>> \in Seq(Txns) /\ Increasing(<<>>) /\ RecordedNow(<<>>)
  BY EmptySeq DEF Range, Increasing, Recorded
<1> DEFINE Files ==
       /\ Increasing(buffer') /\ \A u \in Range(buffer') : u <= taken'
       /\ \A f \in DOMAIN dir' : RecordedNow(dir'[f].txns)
       /\ \A f, g \in DOMAIN dir' : f # g => Range(dir'[f].txns) \cap Range(dir'[g].txns) = {}
<1>3. Files
  <2>1. \A f \in DOMAIN dir : dir[f].txns \in Seq(Txns) /\ Recorded(dir[f].txns)
    BY DEF RecordedOnce, TransferInv, TypeOK
  <2>2. CASE FilesStay /\ FromBuffer(buffer')
    <3>1. \A f \in DOMAIN dir' : RecordedNow(dir'[f].txns)
      BY <1>1, <1>2, <2>1, <2>2 DEF FilesStay
    <3> QED
      BY <1>2, <2>2, <3>1 DEF FromBuffer, RecordedOnce, FilesStay
  <2>3. ASSUME NEW b \in Seq(Txns), FromBuffer(b), LinkFile(b)
        PROVE  Files
    <3>0. TypeOK
      BY DEF TransferInv
    <3>1. buffer' = <<>>
      BY <2>3 DEF LinkFile
    <3>2. RecordedNow(b)
      BY <1>2, <2>3, <3>1 DEF FromBuffer
    <3>3. \A f \in DOMAIN dir : Range(dir[f].txns) \cap Range(b) = {}
      <4>1. ASSUME NEW f \in DOMAIN dir, NEW t \in Range(dir[f].txns), t \in Range(b)
            PROVE  FALSE
        <5>1. t \in Txns /\ taken \in Nat
          BY <2>1, <4>1, RangeOfSeq, FileEffects
        <5>2. t <= taken /\ \A u \in Range(buffer) : t < u
          BY <2>1, <4>1 DEF Recorded, Older
        <5>3. t \in Range(buffer) \/ taken < t
          BY <2>3, <4>1 DEF FromBuffer
        <5> QED
          BY <5>1, <5>2, <5>3 DEF Txns
      <4> QED
        BY <4>1
    <3>4. CASE fileno \in DOMAIN dir
      <4>1. DOMAIN dir' = DOMAIN dir /\ \A f \in DOMAIN dir : dir'[f].txns = dir[f].txns
        BY <2>3, <3>0, <3>4, LinkFileKeeps
      <4> QED
        BY <1>1, <1>2, <2>1, <3>1, <4>1 DEF RecordedOnce
    <3>5. CASE fileno \notin DOMAIN dir
      <4>1. /\ DOMAIN dir' = DOMAIN dir \cup {fileno}
            /\ dir'[fileno].txns = b
            /\ \A f \in DOMAIN dir : dir'[f].txns = dir[f].txns
        BY <2>3, <3>0, <3>5, LinkFileKeeps
      <4>2. \A f \in DOMAIN dir' : RecordedNow(dir'[f].txns)
        BY <1>1, <2>1, <3>2, <4>1
      <4> QED
        BY <1>2, <3>1, <3>3, <4>1, <4>2 DEF RecordedOnce
    <3> QED
      BY <3>4, <3>5
  <2> QED
    BY <2>2, <2>3, FileEffects
<1>4. ASSUME NEW c \in DOMAIN links'
      PROVE  CarriesNow(links'[c])
  <2>1. CASE c \notin DOMAIN links
    BY <1>2, <2>1, LinkEffects DEF Fresh, CarriesNow
  <2>2. CASE c \in DOMAIN links
    <3> DEFINE l == links[c]
               r == links'[c]
    <3>1. /\ Carries(l) /\ l \in Links /\ Effect(c)
          /\ l.todo \in Seq(Txns) /\ \A m \in l.msg : m \in Seq(Txns)
      <4>1. l \in Links
        BY <2>2, LinkType DEF TransferInv
      <4> QED
        BY <2>2, <4>1, LinkEffects DEF RecordedOnce, Links
    <3>2. /\ RecordedNow(l.todo) /\ \A m \in l.msg : RecordedNow(m)
          /\ l.rpc = "apply" => l.msg = {}
      BY <1>1, <3>1 DEF Carries
    <3>3. CASE Kept(l, r)
      BY <1>2, <3>2, <3>3 DEF Kept, CarriesNow
    <3>4. CASE Received(l, r)
      BY <3>2, <3>4 DEF Received, CarriesNow
    <3>5. CASE Took(l, r)
      <4>1. RecordedNow(Tail(l.todo))
        <5>1. Range(Tail(l.todo)) \subseteq Range(l.todo)
          BY <3>1, <3>5, RangeTail DEF Took
        <5>2. Increasing(Tail(l.todo))
          BY <3>1, <3>5, IncreasingTail DEF Took, Carries, Recorded
        <5> QED
          BY <3>2, <5>1, <5>2 DEF Recorded
      <4> QED
        BY <3>2, <3>5, <4>1 DEF Took, CarriesNow
    <3>6. ASSUME NEW f, Sent(l, r, f)
          PROVE  CarriesNow(r)
      <4>1. RecordedNow(dir[f].txns)
        BY <1>1, <3>6 DEF Sent, RecordedOnce, TransferInv, TypeOK
      <4> QED
        BY <3>2, <3>6, <4>1 DEF Sent, CarriesNow
    <3> QED
      BY <3>1, <3>3, <3>4, <3>5, <3>6 DEF Effect
  <2> QED
    BY <2>1, <2>2
<1>5. \A t \in Range(applied') : OlderNow(t)
  <2>1. /\ applied \in Seq(Txns) /\ \A t \in Range(applied) : t \in Nat /\ OlderNow(t)
    <3>1. applied \in Seq(Txns)
      BY DEF TransferInv, TypeOK
    <3>2. \A t \in Range(applied) : t \in Nat
      <4>1. Range(applied) \subseteq Txns
        BY <3>1, RangeOfSeq
      <4> QED
        BY <4>1 DEF Txns
    <3> QED
      BY <3>1, <3>2, OlderStays DEF RecordedOnce
  <2>2. ASSUME NEW c \in DOMAIN links, ApplyTxn(c)
        PROVE  \A t \in Range(applied') : OlderNow(t)
    <3>1. /\ links[c].todo \in Seq(Txns) /\ links[c].todo # <<>>
          /\ Recorded(links[c].todo) /\ applied' = Append(applied, Head(links[c].todo))
      <4>1. links[c] \in Links
        BY LinkType DEF TransferInv
      <4> QED
        BY <2>2, <4>1 DEF ApplyTxn, RecordedOnce, Carries, Links
    <3>2. Head(links[c].todo) \in Txns /\ Head(links[c].todo) \in Range(links[c].todo)
      BY <3>1, RangeTail
    <3>3. Range(applied') = Range(applied) \cup {Head(links[c].todo)}
      BY <2>1, <3>1, <3>2, RangeAppend
    <3> QED
      BY <1>1, <2>1, <3>1, <3>2, <3>3 DEF Recorded
  <2> QED
    BY <2>1, <2>2, AppliedEffect
<1> QED
  BY <1>3, <1>4, <1>5 DEF RecordedOnce, CarriesNow, Carries, Recorded, Older, OlderNow

-----------------------------------------------------------------------------
(* FilesInOrder in parts, for a sender that was never restarted.             *)
Ordered ==
  /\ \A f \in DOMAIN dir : f < fileno
  /\ \A f, g \in DOMAIN dir : f < g =>
       /\ dir[f].ctime <= dir[g].ctime
       /\ \A t \in Range(dir[f].txns), u \in Range(dir[g].txns) : t < u
  /\ fileno = InitFile => buffer = <<>>
  /\ InitFile \in DOMAIN dir => dir[InitFile].txns = <<>>
  /\ aliases \subseteq IF linking THEN {fileno - 1} ELSE {}
OldestFound ==
  \A g \in DOMAIN segfiles : \A f \in DOMAIN dir \ {InitFile} :
    f < g => f \in DOMAIN segfiles /\ segfiles[f] <= segfiles[g]
NothingLost ==
  \A t \in 1 .. taken :
    \/ t \in Range(applied) \/ t \in Range(buffer)
    \/ \E f \in DOMAIN dir : t \in Range(dir[f].txns)
LinksReady ==
  \A c \in DOMAIN links :
    Ready(links[c].todo) /\ \A m \in links[c].msg : Ready(m)

(* Publishing a file keeps the files in order, and loses nothing.            *)
LEMMA PublishInOrder ==
  ASSUME TransferInv, RecordedOnce, Ordered, OldestFound, NothingLost,
         NEW b \in Seq(Txns), FromBuffer(b), LinkFile(b),
         taken \in Nat, taken' \in Nat, taken <= taken',
         fileno = InitFile => b = <<>>,
         \A t \in Nat : t \in Range(buffer) \/ (taken < t /\ t <= taken') => t \in Range(b),
         UNCHANGED <<applied, segfiles>>
  PROVE  Ordered' /\ OldestFound' /\ NothingLost'
<1>0. /\ fileno \in Nat /\ fileno' = fileno + 1 /\ buffer' = <<>>
      /\ \A f \in DOMAIN dir : f \in Nat
      /\ DOMAIN segfiles \subseteq DOMAIN dir
      /\ clock \in Nat
      /\ \A f \in DOMAIN dir : dir[f].ctime \in Nat /\ dir[f].ctime <= clock
  BY BatchAssumption, SMTT(30) DEF TransferInv, TypeOK, LinkFile
<1>a. aliases = {} /\ aliases' \subseteq {fileno' - 1} /\ linking' = TRUE
  <2>1. aliases = {}
    BY DEF Ordered, LinkFile
  <2>2. aliases' \subseteq {fileno} /\ linking' = TRUE
    BY <2>1, LinkFileKeeps DEF TransferInv
  <2> QED
    BY <1>0, <2>1, <2>2
<1>1. /\ DOMAIN dir' = DOMAIN dir \cup {fileno}
      /\ dir'[fileno].txns = b /\ dir'[fileno].ctime = clock
      /\ \A f \in DOMAIN dir :
           dir'[f].txns = dir[f].txns /\ dir'[f].ctime = dir[f].ctime
  <2>1. fileno \notin DOMAIN dir
    BY <1>0 DEF Ordered
  <2> QED
    BY <1>a, <2>1, LinkFileKeeps DEF TransferInv
<1>2. \A f \in DOMAIN dir : \A t \in Range(dir[f].txns), u \in Range(b) : t < u
  <2> SUFFICES ASSUME NEW f \in DOMAIN dir, NEW t \in Range(dir[f].txns), NEW u \in Range(b)
               PROVE  t < u
    OBVIOUS
  <2>1. t \in Nat /\ u \in Nat
    <3>1. dir[f].txns \in Seq(Txns)
      BY DEF TransferInv, TypeOK
    <3>2. t \in Txns /\ u \in Txns
      BY <3>1, RangeOfSeq
    <3> QED
      BY <3>2 DEF Txns
  <2>2. t <= taken /\ \A v \in Range(buffer) : t < v
    BY DEF RecordedOnce, Recorded, Older
  <2>3. u \in Range(buffer) \/ taken < u
    BY DEF FromBuffer
  <2> QED
    BY <2>1, <2>2, <2>3
<1>3. Ordered'
  <2>1. \A f \in DOMAIN dir' : f < fileno'
    BY <1>0, <1>1 DEF Ordered
  <2>2. \A f, g \in DOMAIN dir' : f < g =>
          /\ dir'[f].ctime <= dir'[g].ctime
          /\ \A t \in Range(dir'[f].txns), u \in Range(dir'[g].txns) : t < u
    <3> SUFFICES ASSUME NEW f \in DOMAIN dir', NEW g \in DOMAIN dir', f < g
                 PROVE  /\ dir'[f].ctime <= dir'[g].ctime
                        /\ \A t \in Range(dir'[f].txns), u \in Range(dir'[g].txns) : t < u
      OBVIOUS
    <3>1. f \in DOMAIN dir
      BY <1>0, <1>1 DEF Ordered
    <3>2. CASE g \in DOMAIN dir
      BY <1>1, <3>1, <3>2 DEF Ordered
    <3>3. CASE g = fileno
      <4>1. dir[f].ctime <= clock
        BY <1>0, <3>1
      <4> QED
        BY <1>1, <1>2, <3>1, <3>3, <4>1
    <3> QED
      BY <1>1, <3>2, <3>3
  <2>3. InitFile \in DOMAIN dir' => dir'[InitFile].txns = <<>>
    BY <1>1 DEF Ordered
  <2> QED
    BY <1>0, <1>a, <2>1, <2>2, <2>3 DEF Ordered, InitFile
<1>4. OldestFound'
  BY <1>0, <1>1 DEF OldestFound, Ordered
<1>5. NothingLost'
  <2> SUFFICES ASSUME NEW t \in 1 .. taken'
               PROVE  t \in Range(applied) \/ \E f \in DOMAIN dir' : t \in Range(dir'[f].txns)
    BY DEF NothingLost
  <2>1. CASE t \in Range(b)
    BY <1>1, <2>1
  <2>2. CASE t \notin Range(b)
    <3>1. t \in 1 .. taken /\ t \notin Range(buffer)
      BY <2>2
    <3> QED
      BY <1>1, <3>1 DEF NothingLost
  <2> QED
    BY <2>1, <2>2
<1> QED
  BY <1>3, <1>4, <1>5

LEMMA SessionInOrder ==
  ASSUME TransferInv, RecordedOnce, Ordered, OldestFound, NothingLost,
         SessionStep
  PROVE  Ordered' /\ OldestFound' /\ NothingLost'
<1>1. UNCHANGED <<applied, segfiles>>
  BY DEF SessionStep, StartSession, Take, Timeout, UnlinkFile, Tick, others, sender
<1>2. /\ buffer \in Seq(Txns) /\ taken \in Nat
      /\ \A u \in Range(buffer) : u <= taken
      /\ Increasing(buffer)
  BY BatchAssumption DEF TransferInv, TypeOK, RecordedOnce
<1>3. Range(<<>>) = {} /\ Increasing(<<>>) /\ <<>> \in Seq(Txns)
  BY EmptySeq DEF Range, Increasing
<1>4. CASE StartSession
  <2>1. /\ taken' = taken /\ fileno = InitFile /\ LinkFile(<<>>)
        /\ buffer = <<>>
    BY <1>4 DEF StartSession, Ordered
  <2>2. FromBuffer(buffer) /\ LinkFile(buffer)
    BY <1>3, <2>1 DEF FromBuffer
  <2>3. \A t \in Nat : t \in Range(buffer) \/ (taken < t /\ t <= taken') => t \in Range(buffer)
    BY <1>2, <2>1
  <2>4. taken' = taken /\ taken <= taken' /\ (fileno = InitFile => buffer = <<>>)
    BY <1>2, <2>1
  <2> QED
    BY <1>1, <1>2, <2>2, <2>3, <2>4, PublishInOrder
<1>5. CASE Timeout
  <2>1. LinkFile(buffer)
    BY <1>5 DEF Timeout
  <2>2. taken' = taken /\ fileno # InitFile
    BY <1>5 DEF Timeout
  <2>3. FromBuffer(buffer)
    BY <1>2, <2>2 DEF FromBuffer
  <2>4. \A t \in Nat : t \in Range(buffer) \/ (taken < t /\ t <= taken') => t \in Range(buffer)
    BY <1>2, <2>2
  <2> QED
    BY <1>1, <1>2, <2>1, <2>2, <2>3, <2>4, PublishInOrder
<1>6. CASE Take
  <2> DEFINE b == Append(buffer, taken + 1)
  <2>1. taken' = taken + 1 /\ taken + 1 \in Txns /\ fileno # InitFile
    BY <1>2, <1>6, BatchAssumption DEF Take, Txns
  <2>2. b \in Seq(Txns) /\ Range(b) = Range(buffer) \cup {taken + 1}
    BY <1>2, <2>1, RangeAppend
  <2>3. FromBuffer(b)
    <3>1. Increasing(b)
      BY <1>2, IncreasingNext
    <3>2. \A t \in Range(b) : t <= taken' /\ (t \in Range(buffer) \/ taken < t)
      <4>1. Range(buffer) \subseteq Nat
        BY <1>2, RangeInNat
      <4> QED
        BY <1>2, <2>1, <2>2, <4>1
    <3> HIDE DEF b
    <3> QED
      BY <3>1, <3>2 DEF FromBuffer
  <2>4. \A t \in Nat : t \in Range(buffer) \/ (taken < t /\ t <= taken') => t \in Range(b)
    BY <1>2, <2>1, <2>2
  <2> HIDE DEF b
  <2>5. CASE LinkFile(b)
    BY <1>1, <1>2, <2>1, <2>2, <2>3, <2>4, <2>5, PublishInOrder
  <2>6. CASE buffer' = b /\ UNCHANGED <<files, linking, published, fileno>>
    <3>0. UNCHANGED <<dir, aliases, linking, fileno>>
      BY <2>6 DEF files
    <3>1. Ordered' /\ OldestFound'
      BY <1>1, <2>1, <3>0 DEF Ordered, OldestFound
    <3>2. NothingLost'
      BY <1>1, <1>2, <2>1, <2>4, <2>6, <3>0, <2>2 DEF NothingLost
    <3> QED
      BY <3>1, <3>2
  <2> QED
    BY <1>6, <2>5, <2>6 DEF Take, b
<1>7. CASE UnlinkFile
  <2>1. UNCHANGED <<taken, buffer, fileno>>
    BY <1>7 DEF UnlinkFile
  <2>2. /\ DOMAIN dir' = DOMAIN dir /\ aliases' = {} /\ linking' = FALSE
        /\ \A f \in DOMAIN dir :
             /\ dir'[f].txns = dir[f].txns
             /\ f \in aliases => dir'[f].ctime = clock
             /\ f \notin aliases => dir'[f].ctime = dir[f].ctime
    BY <1>7, UnlinkKeeps DEF TransferInv
  <2>3. \A f \in DOMAIN dir : f \in Nat /\ dir[f].ctime \in Nat /\ dir[f].ctime <= clock
    BY BatchAssumption DEF TransferInv, TypeOK
  <2>4. /\ fileno \in Nat /\ clock \in Nat
        /\ \A f \in DOMAIN dir, g \in aliases : f <= g
    <3>1. fileno \in Nat /\ clock \in Nat
      BY BatchAssumption DEF TransferInv, TypeOK
    <3>2. aliases \subseteq {fileno - 1} /\ \A f \in DOMAIN dir : f < fileno
      BY DEF Ordered
    <3> QED
      BY <2>3, <3>1, <3>2
  <2>5. \A f, g \in DOMAIN dir : f < g => dir'[f].ctime <= dir'[g].ctime
    <3> SUFFICES ASSUME NEW f \in DOMAIN dir, NEW g \in DOMAIN dir, f < g
                 PROVE  dir'[f].ctime <= dir'[g].ctime
      OBVIOUS
    <3>1. f \notin aliases
      BY <2>3, <2>4
    <3>2. dir[f].ctime <= dir[g].ctime
      BY DEF Ordered
    <3> QED
      BY <2>2, <2>3, <2>4, <3>1, <3>2
  <2>6. Ordered'
    BY <2>1, <2>2, <2>5 DEF Ordered
  <2>7. OldestFound' /\ NothingLost'
    BY <1>1, <2>1, <2>2 DEF OldestFound, NothingLost
  <2> QED
    BY <2>6, <2>7
<1>8. CASE Tick
  <2>1. UNCHANGED <<taken, buffer, fileno, linking, dir, aliases>>
    BY <1>8 DEF Tick, files
  <2> QED
    BY <1>1, <2>1 DEF Ordered, OldestFound, NothingLost
<1> QED
  BY <1>4, <1>5, <1>6, <1>7, <1>8 DEF SessionStep

(* What is applied stays applied. *)
LEMMA AppliedGrows ==
  ASSUME TransferInv, [Next]_vars
  PROVE  Range(applied) \subseteq Range(applied')
<1>1. ASSUME NEW c \in DOMAIN links, ApplyTxn(c)
      PROVE  Range(applied) \subseteq Range(applied')
  <2>1. links[c].todo \in Seq(Txns) /\ links[c].todo # <<>> /\ applied \in Seq(Txns)
    BY <1>1, LinkType DEF ApplyTxn, TransferInv, TypeOK, Links
  <2>2. Head(links[c].todo) \in Txns
    BY <2>1, RangeTail
  <2> QED
    BY <1>1, <2>1, <2>2, RangeAppend DEF ApplyTxn
<1> QED
  BY <1>1, AppliedEffect

(* An acknowledged file has been applied: taking it away loses nothing.      *)
LEMMA AckInOrder ==
  ASSUME TransferInv, Ordered, OldestFound, NothingLost, AckSegment
  PROVE  Ordered' /\ OldestFound' /\ NothingLost'
<1>1. /\ dir' = [g \in DOMAIN dir \ {file} |-> dir[g]]
      /\ segfiles' = [f \in DOMAIN segfiles \ {file} |-> segfiles[f]]
      /\ aliases' \subseteq aliases
      /\ UNCHANGED <<taken, buffer, fileno, linking, applied>>
  BY DEF AckSegment, session
<1>2. Range(dir[file].txns) \subseteq Range(applied)
  BY DEF AckSegment, TransferInv, HandOver, Standing
<1>3. Ordered' /\ OldestFound'
  BY <1>1 DEF Ordered, OldestFound
<1>4. NothingLost'
  BY <1>1, <1>2 DEF NothingLost
<1> QED
  BY <1>3, <1>4

(* Polling finds every file; the other steps of sender and receivers leave   *)
(* the files alone.                                                          *)
LEMMA OthersInOrder ==
  ASSUME TransferInv, Ordered, OldestFound, NothingLost, [Next]_vars,
         UNCHANGED <<taken, buffer, fileno, linking, dir, aliases>>
  PROVE  Ordered' /\ OldestFound' /\ NothingLost'
<1>1. Ordered'
  BY DEF Ordered
<1>2. NothingLost'
  BY AppliedGrows DEF NothingLost
<1>3. \/ segfiles' = segfiles \/ segfiles' = <<>>
      \/ segfiles' = [f \in DOMAIN dir \ {InitFile} |-> dir[f].ctime]
      \/ AckSegment
  BY DEF Next, StartSession, Take, Timeout, UnlinkFile, Tick, others, SendStep, Connect,
         SendInit, AckInit, Poll, SendSegment, SendError, RecvStep, RecvInit, RecvSegment,
         ApplyTxn, SendAck, RecvFails, RecvError, Break, ReceiverDies, Restart, vars, sender
<1>4. OldestFound'
  <2>1. CASE segfiles' = [f \in DOMAIN dir \ {InitFile} |-> dir[f].ctime]
    BY <2>1 DEF OldestFound, Ordered
  <2>2. CASE segfiles' = <<>>
    <3>1. DOMAIN <<>> = {}
      OBVIOUS
    <3> QED
      BY <2>2, <3>1 DEF OldestFound
  <2> QED
    BY <1>3, <2>1, <2>2, AckInOrder DEF OldestFound
<1> QED
  BY <1>1, <1>2, <1>4

(* The file the sender picks is the oldest one in the directory. *)
LEMMA PicksOldest ==
  ASSUME TransferInv, Ordered, OldestFound, SendSegment,
         NEW f \in DOMAIN dir \ {InitFile}, f # file'
  PROVE  file' < f
<1>1. /\ file' \in DOMAIN segfiles /\ file' \in Nat /\ f \in Nat
      /\ \A g \in DOMAIN segfiles \ {file'} : Before(file', g)
      /\ \A g \in DOMAIN segfiles : segfiles[g] \in Nat
  BY BatchAssumption DEF SendSegment, TransferInv, TypeOK
<1> SUFFICES ASSUME f < file' PROVE FALSE
  BY <1>1
<1>2. f \in DOMAIN segfiles /\ segfiles[f] <= segfiles[file']
  BY <1>1 DEF OldestFound
<1>3. Before(file', f)
  BY <1>1, <1>2
<1> QED
  BY <1>1, <1>2, <1>3 DEF Before

(* A file is sent when all older transactions are applied.                   *)
LEMMA SentReady ==
  ASSUME TransferInv, RecordedOnce, Ordered, OldestFound, NothingLost, SendSegment
  PROVE  Ready(dir[file'].txns)
<1> DEFINE s == dir[file'].txns
<1>1. /\ file' \in DOMAIN dir /\ s \in Seq(Txns) /\ Recorded(s)
      /\ taken \in Nat /\ file' \in Nat
  BY BatchAssumption DEF SendSegment, TransferInv, TypeOK, RecordedOnce
<1> SUFFICES ASSUME NEW i \in DOMAIN s, NEW t \in 1 .. s[i] - 1, t \notin Range(applied)
             PROVE  \E j \in DOMAIN s : j < i /\ s[j] = t
  BY DEF Ready
<1>2. s[i] \in Nat /\ s[i] \in Range(s) /\ t < s[i] /\ t \in Nat
  <2>1. s[i] \in Range(s)
    BY DEF Range
  <2> QED
    BY <1>1, <2>1, RangeInNat
<1>3. t \in 1 .. taken /\ t \notin Range(buffer)
  <2>1. s[i] <= taken /\ \A u \in Range(buffer) : s[i] < u
    BY <1>1, <1>2 DEF Recorded, Older
  <2>2. Range(buffer) \subseteq Nat
    BY RangeInNat DEF TransferInv, TypeOK
  <2> QED
    BY <1>1, <1>2, <2>1, <2>2
<1>4. PICK g \in DOMAIN dir : t \in Range(dir[g].txns)
  BY <1>3 DEF NothingLost
<1>5. g = file'
  <2> SUFFICES ASSUME g # file' PROVE FALSE
    OBVIOUS
  <2>1. CASE g = InitFile
    BY <1>4, <2>1 DEF Ordered, Range
  <2>2. CASE g # InitFile
    <3>1. file' < g
      BY <2>2, PicksOldest
    <3>2. \A v \in Range(s), u \in Range(dir[g].txns) : v < u
      BY <1>1, <3>1 DEF Ordered
    <3>3. s[i] < t
      BY <1>2, <1>4, <3>2
    <3> QED
      BY <1>2, <3>3
  <2> QED
    BY <2>1, <2>2
<1>6. PICK j \in DOMAIN s : s[j] = t
  BY <1>4, <1>5 DEF Range
<1>7. j < i
  <2>1. i \in Nat /\ j \in Nat
    BY <1>1, LenProperties
  <2> QED
    BY <1>1, <1>2, <1>6, <2>1 DEF Recorded, Increasing
<1> QED
  BY <1>6, <1>7

ReadyNow(s) ==
  \A i \in DOMAIN s : \A t \in 1 .. s[i] - 1 :
     t \in Range(applied') \/ \E j \in DOMAIN s : j < i /\ s[j] = t

(* Nothing is on its way before what is older has been applied. *)
LEMMA LinksReadyNext ==
  ASSUME TransferInv, RecordedOnce, Ordered, OldestFound, NothingLost, LinksReady,
         [Next]_vars
  PROVE  LinksReady'
<1>1. \A s : Ready(s) => ReadyNow(s)
  BY AppliedGrows DEF Ready, ReadyNow
<1>2. ReadyNow(<<>>)
  BY DEF ReadyNow
<1>3. ASSUME NEW c \in DOMAIN links'
      PROVE  ReadyNow(links'[c].todo) /\ \A m \in links'[c].msg : ReadyNow(m)
  <2>1. CASE c \notin DOMAIN links
    BY <1>2, <2>1, LinkEffects DEF Fresh
  <2>2. CASE c \in DOMAIN links
    <3> DEFINE l == links[c]
               r == links'[c]
    <3>1. /\ ReadyNow(l.todo) /\ \A m \in l.msg : ReadyNow(m)
          /\ Effect(c) /\ l.todo \in Seq(Txns)
      BY <1>1, <2>2, LinkEffects, LinkType DEF LinksReady, TransferInv, Links
    <3>2. CASE Kept(l, r)
      BY <1>2, <3>1, <3>2 DEF Kept
    <3>3. CASE Received(l, r)
      BY <3>1, <3>3 DEF Received
    <3>4. CASE Took(l, r)
      <4> DEFINE s == l.todo
      <4>1. /\ s \in Seq(Txns) /\ s # <<>>
            /\ DOMAIN s = 1 .. Len(s) /\ Len(s) \in Nat
            /\ DOMAIN Tail(s) = 1 .. Len(s) - 1
            /\ \A i \in 1 .. Len(s) - 1 : Tail(s)[i] = s[i + 1]
            /\ s[1] = Head(s)
        BY <3>1, <3>4, HeadTailProperties, LenProperties DEF Took
      <4>2. Head(s) \in Range(applied')
        <5>1. applied \in Seq(Txns) /\ Head(s) \in Txns
          BY <3>1, <4>1, RangeTail DEF TransferInv, TypeOK
        <5> QED
          BY <3>4, <5>1, RangeAppend DEF Took
      <4>3. ReadyNow(Tail(s))
        <5> SUFFICES ASSUME NEW i \in DOMAIN Tail(s), NEW t \in 1 .. Tail(s)[i] - 1,
                            t \notin Range(applied')
                     PROVE  \E j \in DOMAIN Tail(s) : j < i /\ Tail(s)[j] = t
          BY DEF ReadyNow
        <5>1. i + 1 \in DOMAIN s /\ Tail(s)[i] = s[i + 1]
          BY <4>1
        <5>2. PICK j \in DOMAIN s : j < i + 1 /\ s[j] = t
          BY <3>1, <5>1 DEF ReadyNow
        <5>3. j # 1
          BY <4>1, <4>2, <5>2
        <5>4. /\ j - 1 \in DOMAIN Tail(s) /\ Tail(s)[j - 1] = t
              /\ j - 1 < i
          BY <4>1, <5>2, <5>3, SMTT(30)
        <5> QED
          BY <5>4
      <4> QED
        BY <3>1, <3>4, <4>3 DEF Took
    <3>5. CASE Sent(l, r, InitFile)
      <4>1. ReadyNow(dir[InitFile].txns)
        BY <1>2, <3>5 DEF Sent, Ordered
      <4> QED
        BY <3>1, <3>5, <4>1 DEF Sent
    <3>6. CASE SendSegment /\ Sent(l, r, file')
      <4>1. ReadyNow(dir[file'].txns)
        BY <1>1, <3>6, SentReady
      <4> QED
        BY <3>1, <3>6, <4>1 DEF Sent
    <3> QED
      BY <3>1, <3>2, <3>3, <3>4, <3>5, <3>6 DEF Effect
  <2> QED
    BY <2>1, <2>2
<1> QED
  BY <1>3 DEF LinksReady, ReadyNow, Ready

(* So what is applied is all that is older, too. *)
LEMMA AppliedInOrderNext ==
  ASSUME TransferInv, LinksReady, [Next]_vars,
         \A t \in Range(applied) : 1 .. t \subseteq Range(applied)
  PROVE  \A t \in Range(applied') : 1 .. t \subseteq Range(applied')
<1>1. ASSUME NEW c \in DOMAIN links, ApplyTxn(c)
      PROVE  \A t \in Range(applied') : 1 .. t \subseteq Range(applied')
  <2> DEFINE s == links[c].todo
  <2>1. s \in Seq(Txns) /\ s # <<>> /\ applied \in Seq(Txns) /\ Ready(s)
    BY <1>1, LinkType DEF ApplyTxn, TransferInv, TypeOK, Links, LinksReady
  <2>2. Head(s) \in Txns /\ Range(applied') = Range(applied) \cup {Head(s)}
    BY <1>1, <2>1, RangeTail, RangeAppend DEF ApplyTxn
  <2>3. 1 \in DOMAIN s /\ s[1] = Head(s) /\ \A j \in DOMAIN s : ~(j < 1)
    BY <2>1, LenProperties
  <2>4. 1 .. s[1] - 1 \subseteq Range(applied)
    BY <2>1, <2>3 DEF Ready
  <2>5. 1 .. Head(s) = (1 .. Head(s) - 1) \cup {Head(s)}
    BY <2>2 DEF Txns
  <2> HIDE DEF s
  <2> QED
    BY <2>2, <2>3, <2>4, <2>5
<1> QED
  BY <1>1, AppliedEffect

LEMMA OrderInit == Init => OrderInv
<1> SUFFICES ASSUME Init PROVE OrderInv
  OBVIOUS
<1>1. TransferInv
  BY TransferInit
<1>2. Range(<<>>) = {} /\ DOMAIN <<>> = {}
  BY DEF Range
<1>3. RecordedOnce
  BY <1>2 DEF Init, RecordedOnce, Increasing, InitFile
<1>4. FilesInOrder
  BY <1>2 DEF Init, FilesInOrder, InitFile
<1> QED
  BY <1>1, <1>2, <1>3, <1>4 DEF Init, OrderInv, AppliedInOrder

LEMMA OrderNext == OrderInv /\ [Next]_vars => OrderInv'
<1> SUFFICES ASSUME OrderInv, [Next]_vars PROVE OrderInv'
  OBVIOUS
<1>1. TransferInv' /\ RecordedOnce'
  BY TransferNext, RecordedOnceNext DEF OrderInv
<1>2. CASE Restart
  <2>1. restarts' \in Nat /\ restarts' # 0
    BY <1>2 DEF Restart, OrderInv
  <2> QED
    BY <1>1, <2>1 DEF OrderInv, FilesInOrder, AppliedInOrder
<1>3. CASE ~Restart
  <2>1. restarts' = restarts
    BY <1>3 DEF Next, StartSession, Take, Timeout, UnlinkFile, Tick, others, SendStep, Connect,
         SendInit, AckInit, Poll, SendSegment, AckSegment, SendError, RecvStep, RecvInit,
         RecvSegment, ApplyTxn, SendAck, RecvFails, RecvError, Break, ReceiverDies, vars,
         session
  <2>2. ASSUME restarts = 0
        PROVE  /\ Ordered' /\ OldestFound' /\ NothingLost' /\ LinksReady'
               /\ \A t \in Range(applied') : 1 .. t \subseteq Range(applied')
    <3>1. TransferInv /\ RecordedOnce /\ Ordered /\ OldestFound /\ NothingLost /\ LinksReady
      BY <2>2 DEF OrderInv, FilesInOrder, Ordered, OldestFound, NothingLost, LinksReady
    <3>2. LinksReady'
      BY <3>1, LinksReadyNext
    <3>3. \A t \in Range(applied') : 1 .. t \subseteq Range(applied')
      BY <2>2, <3>1, AppliedInOrderNext DEF OrderInv, AppliedInOrder
    <3>4. \/ SessionStep \/ AckSegment
          \/ UNCHANGED <<taken, buffer, fileno, linking, dir, aliases>>
      BY <1>3, ZenonT(60) DEF Next, SessionStep, SendStep, Connect, SendInit, AckInit, Poll,
           SendSegment, SendError, RecvStep, RecvInit, RecvSegment, ApplyTxn, SendAck,
           RecvFails, RecvError, Break, ReceiverDies, vars, session, files
    <3> QED
      BY <3>1, <3>2, <3>3, <3>4, SessionInOrder, AckInOrder, OthersInOrder
  <2> QED
    BY <1>1, <2>1, <2>2 DEF OrderInv, FilesInOrder, AppliedInOrder, Ordered, OldestFound,
       NothingLost, LinksReady
<1> QED
  BY <1>2, <1>3

(* A hog whose sender was not restarted applies transactions in the order    *)
(* they were recorded, and none before an earlier one, although the threads  *)
(* of broken connections go on applying what they have                       *)
(* (sendSegmentFiles, runRecvConnection).                                    *)
THEOREM OldestFirst == Spec => []AppliedInOrder
<1>1. OrderInv => AppliedInOrder
  BY DEF OrderInv
<1> QED
  BY <1>1, OrderInit, OrderNext, PTL DEF Spec

-----------------------------------------------------------------------------
(* A connection more needs a break or a restart more: the sender gives up    *)
(* only a connection that is down, or dies.                                  *)
LEMMA LinksNeedBreaksNext ==
  ASSUME TransferInv, LinksNeedBreaks, [Next]_vars
  PROVE  LinksNeedBreaks'
<1>0. /\ links \in Seq(Links) /\ Len(links) \in Nat /\ DOMAIN links = 1 .. Len(links)
      /\ \A c \in DOMAIN links : links[c] \in Links
      /\ breaks \in Nat /\ restarts \in Nat
      /\ conn # 0 => conn \in DOMAIN links /\ conn = Len(links)
      /\ conn = 0 <=> spc = "connect"
  BY LinkType, LenProperties DEF TransferInv, TypeOK, LinksNeedBreaks
<1>a. Len(links) \in Int /\ Len(links) <= 1 + breaks + restarts
  <2>1. Len(links) <= breaks + restarts \/ Len(links) = 1 + breaks + restarts
    BY DEF LinksNeedBreaks
  <2>2. Len(links) \in Nat /\ breaks \in Nat /\ restarts \in Nat
    BY <1>0
  <2> QED
    BY <2>1, <2>2
<1> DEFINE SameUps ==
       /\ DOMAIN links' = DOMAIN links
       /\ \A c \in DOMAIN links :
            /\ links'[c].up = links[c].up
            /\ links'[c].bad => links[c].bad
<1>1. DOMAIN links' = DOMAIN links => Len(links') = Len(links)
  <2>1. links' \in Seq(Links)
    BY TransferNext DEF TransferInv, TypeOK
  <2>2. Len(links') \in Nat /\ DOMAIN links' = 1 .. Len(links')
    BY <2>1, LenProperties
  <2>3. ASSUME NEW m \in Nat, NEW n \in Nat, 1 .. m = 1 .. n
        PROVE  m = n
    <3>1. \A i \in Int : i \in 1 .. m <=> 1 <= i /\ i <= m
      OBVIOUS
    <3>2. \A i \in Int : i \in 1 .. m <=> 1 <= i /\ i <= n
      BY <2>3
    <3> QED
      BY <3>1, <3>2
  <2> QED
    BY <1>0, <2>2, <2>3
<1>2. CASE SameUps /\ UNCHANGED <<conn, breaks, restarts>>
  BY <1>0, <1>1, <1>2 DEF LinksNeedBreaks
<1>3. ASSUME NEW c \in DOMAIN links, RecvStep(c), ~RecvFails(c)
      PROVE  LinksNeedBreaks'
  <2>0. links[c] \in Links /\ DOMAIN links[c] = {"up", "msg", "ack", "todo", "rpc", "bad"}
    BY <1>0 DEF Links
  <2>1. SameUps
    <3>1. CASE RecvInit(c)
      BY <2>0, <3>1 DEF RecvInit
    <3>2. CASE RecvSegment(c)
      BY <2>0, <3>2 DEF RecvSegment
    <3>3. CASE ApplyTxn(c)
      BY <2>0, <3>3 DEF ApplyTxn
    <3>4. CASE SendAck(c)
      BY <2>0, <3>4 DEF SendAck
    <3>5. CASE RecvError(c)
      BY <2>0, <3>5 DEF RecvError
    <3> QED
      BY <1>3, <3>1, <3>2, <3>3, <3>4, <3>5 DEF RecvStep
  <2>2. UNCHANGED <<conn, breaks, restarts>>
    BY <1>3 DEF RecvStep, RecvInit, RecvSegment, ApplyTxn, SendAck, RecvError, session, sender
  <2> QED
    BY <1>2, <2>1, <2>2
<1>b. ASSUME NEW c \in DOMAIN links, RecvFails(c)
      PROVE  LinksNeedBreaks'
  <2>1. /\ links[c] \in Links /\ links[c].bad
        /\ links' = [links EXCEPT ![c].msg = {}, ![c].up = FALSE, ![c].rpc = "dead"]
        /\ UNCHANGED <<conn, breaks, restarts>>
    BY <1>0, <1>b DEF RecvFails, session, sender
  <2>2. /\ DOMAIN links' = DOMAIN links
        /\ \A d \in DOMAIN links : links'[d].up => links[d].up
        /\ \A d \in DOMAIN links : d # c => links'[d] = links[d]
    BY <1>0, <2>1 DEF Links
  <2>3. Len(links') = Len(links)
    BY <1>1, <2>2
  <2> QED
    BY <1>0, <2>1, <2>2, <2>3 DEF LinksNeedBreaks
<1>4. CASE AckInit \/ AckSegment
  <2>1. conn \in DOMAIN links
    BY <1>0, <1>4 DEF AckInit, AckSegment
  <2>2. SameUps
    BY <1>0, <1>4, <2>1, ZenonT(60) DEF AckInit, AckSegment, Links
  <2>3. UNCHANGED <<conn, breaks, restarts>>
    BY <1>4 DEF AckInit, AckSegment, session
  <2> QED
    BY <1>2, <2>2, <2>3
<1>c. ASSUME NEW f, Transmit(f), conn \in DOMAIN links, UNCHANGED <<conn, restarts>>
      PROVE  LinksNeedBreaks'
  <2>1. PICK v \in BOOLEAN : SentAs(f, v)
    BY <1>c, SentSomehow
  <2>6. links[conn] \in Links
    BY <1>0, <1>c
  <2>2. /\ DOMAIN links' = DOMAIN links
        /\ \A c \in DOMAIN links : links'[c].up = links[c].up
        /\ links'[conn].bad = v
        /\ \A c \in DOMAIN links : c # conn => links'[c] = links[c]
    BY <1>c, <2>1, <2>6 DEF Links, SentAs
  <2>3. Len(links') = Len(links)
    BY <1>1, <2>2
  <2>4. CASE ~v
    BY <1>2, <1>c, <2>1, <2>2, <2>4 DEF SentAs
  <2>5. CASE v
    <3>1. breaks' = breaks + 1
      BY <2>1, <2>5 DEF SentAs
    <3>2. Len(links') <= breaks' + restarts' /\ breaks' \in Nat /\ restarts' \in Nat
      BY <1>0, <1>a, <1>c, <2>3, <3>1
    <3> QED
      BY <1>0, <1>c, <2>2, <2>3, <3>2 DEF LinksNeedBreaks
  <2> QED
    BY <2>4, <2>5
<1>d. CASE SendInit \/ SendSegment
  <2>1. conn \in DOMAIN links /\ UNCHANGED <<conn, restarts>>
    BY <1>0, <1>d DEF SendInit, SendSegment, session
  <2> QED
    BY <1>c, <1>d, <2>1 DEF SendInit, SendSegment
<1>5. CASE SendError
  <2>1. conn \in DOMAIN links /\ ~links[conn].up /\ conn' = 0
    BY <1>0, <1>5 DEF SendError
  <2>2. SameUps
    BY <1>0, <1>5, <2>1 DEF SendError, Links
  <2>3. UNCHANGED <<breaks, restarts>>
    BY <1>5 DEF SendError, session
  <2> QED
    BY <1>0, <1>1, <2>1, <2>2, <2>3 DEF LinksNeedBreaks
<1>6. CASE Connect
  <2> DEFINE r == [up |-> TRUE, msg |-> {}, ack |-> FALSE, todo |-> <<>>, rpc |-> "init",
                  bad |-> FALSE]
  <2>1. links' = Append(links, r) /\ conn = 0 /\ conn' = Len(links) + 1
        /\ UNCHANGED <<breaks, restarts>>
    BY <1>0, <1>6 DEF Connect, session
  <2>2. /\ Len(links') = Len(links) + 1 /\ DOMAIN links' = 1 .. Len(links) + 1
        /\ \A c \in DOMAIN links : links'[c] = links[c]
        /\ links'[Len(links) + 1].up /\ ~links'[Len(links) + 1].bad
    BY <1>0, <2>1
  <2> QED
    BY <1>0, <2>1, <2>2 DEF LinksNeedBreaks
<1>7. ASSUME NEW c \in DOMAIN links, Break(c)
      PROVE  LinksNeedBreaks'
  <2>1. /\ links[c].up /\ breaks' = breaks + 1
        /\ UNCHANGED <<conn, restarts>>
    BY <1>7 DEF Break, session, sender
  <2>2. /\ DOMAIN links' = DOMAIN links
        /\ \A d \in DOMAIN links : links'[d].up => links[d].up
    BY <1>0, <1>7 DEF Break, Links
  <2>3. Len(links') = Len(links)
    BY <1>1, <2>2
  <2>4. conn = c /\ conn' = c /\ c # 0 /\ c = Len(links)
    <3>1. conn = c
      BY <2>1 DEF LinksNeedBreaks
    <3>2. c \in 1 .. Len(links)
      BY <1>0
    <3> QED
      BY <1>0, <2>1, <3>1, <3>2
  <2>5. Len(links') <= breaks' + restarts'
    BY <1>0, <1>a, <2>1, <2>3
  <2>6. \A d \in DOMAIN links' : links'[d].up => d = conn'
    BY <2>1, <2>2 DEF LinksNeedBreaks
  <2>7. breaks' \in Nat /\ restarts' \in Nat
    BY <1>0, <2>1
  <2> QED
    BY <2>3, <2>4, <2>5, <2>6, <2>7 DEF LinksNeedBreaks
<1>8. CASE ReceiverDies
  <2>1. /\ breaks' = breaks + 1 /\ UNCHANGED <<conn, restarts>>
        /\ DOMAIN links' = DOMAIN links
        /\ \A d \in DOMAIN links : ~links'[d].up
    BY <1>0, <1>8 DEF ReceiverDies, session, sender, Links
  <2>2. Len(links') = Len(links)
    BY <1>1, <2>1
  <2>3. Len(links') <= breaks' + restarts'
    BY <1>0, <1>a, <2>1, <2>2
  <2>4. breaks' \in Nat /\ restarts' \in Nat /\ (conn' # 0 => conn' = Len(links'))
    BY <1>0, <2>1, <2>2
  <2> QED
    BY <2>1, <2>3, <2>4 DEF LinksNeedBreaks
<1>9. CASE Restart
  <2>1. /\ restarts' = restarts + 1 /\ UNCHANGED breaks /\ conn' = 0
    BY <1>9 DEF Restart
  <2>2. /\ DOMAIN links' = DOMAIN links
        /\ \A d \in DOMAIN links : ~links'[d].up
    BY <1>0, <1>9 DEF Restart, LinksNeedBreaks, Links
  <2>3. Len(links') = Len(links)
    BY <1>1, <2>2
  <2>4. Len(links') <= breaks' + restarts'
    BY <1>0, <1>a, <2>1, <2>3
  <2>5. breaks' \in Nat /\ restarts' \in Nat
    BY <1>0, <2>1
  <2> QED
    BY <2>1, <2>2, <2>4, <2>5 DEF LinksNeedBreaks
<1>10. CASE SessionStep \/ Poll \/ UNCHANGED vars
  BY <1>2, <1>10 DEF SessionStep, StartSession, Take, Timeout, UnlinkFile, Tick, others, Poll,
     vars, session, sender
<1> QED
  BY <1>3, <1>b, <1>4, <1>d, <1>5, <1>6, <1>7, <1>8, <1>9, <1>10 DEF Next, SendStep, SessionStep

(* The sender waits for the file its receiving thread has before it.         *)
LEMMA OfThatFileNext ==
  ASSUME TransferInv, RecordedOnce, OfThatFile, [Next]_vars
  PROVE  OfThatFile'
<1> SUFFICES ASSUME spc' = "ack", links'[conn'].rpc = "apply"
             PROVE  Range(links'[conn'].todo) \subseteq Range(dir'[file'].txns)
  BY DEF OfThatFile
<1>1. CASE SendSegment
  <2>1. conn' = conn /\ conn \in DOMAIN links /\ links[conn].rpc # "apply"
        /\ links[conn] \in Links
    BY <1>1, LinkType DEF SendSegment, TransferInv, HandOver, Standing
  <2>2. links'[conn].rpc = links[conn].rpc
    <3>1. PICK v \in BOOLEAN : SentAs(file', v)
      BY <1>1, SentSomehow DEF SendSegment
    <3> QED
      BY <2>1, <3>1 DEF SentAs, Links
  <2> QED
    BY <2>1, <2>2
<1>2. CASE ~SendSegment
  <2>1. spc = "ack" /\ UNCHANGED <<conn, file>> /\ ~AckSegment /\ ~Restart
    BY <1>2 DEF Next, StartSession, Take, Timeout, UnlinkFile, Tick, others, SendStep, Connect,
       SendInit, AckInit, Poll, AckSegment, SendError, RecvStep, RecvInit, RecvSegment,
       ApplyTxn, SendAck, RecvFails, RecvError, Break, ReceiverDies, Restart, vars, sender
  <2>2. /\ conn \in DOMAIN links /\ links[conn] \in Links /\ file \in DOMAIN dir
        /\ links[conn].msg \subseteq {dir[file].txns}
    BY <2>1, LinkType DEF TransferInv, TypeOK, HandOver, Standing
  <2>3. dir'[file].txns = dir[file].txns
    <3>0. /\ TypeOK /\ buffer \in Seq(Txns) /\ <<>> \in Seq(Txns)
          /\ taken < MaxTxns => Append(buffer, taken + 1) \in Seq(Txns)
      BY BatchAssumption, EmptySeq DEF TransferInv, TypeOK, Txns
    <3>1. CASE UNCHANGED dir
      BY <3>1
    <3>2. \/ StartSession \/ Take \/ Timeout \/ UnlinkFile \/ UNCHANGED dir
      BY <2>1 DEF Next, Tick, SendStep, Connect, SendInit, AckInit, Poll, SendSegment,
         SendError, RecvStep, RecvInit, RecvSegment, ApplyTxn, SendAck, RecvFails, RecvError,
         Break, ReceiverDies, vars, files
    <3>3. CASE Take
      BY <2>2, <3>0, <3>1, <3>3, LinkFileKeeps DEF Take, files
    <3>4. CASE StartSession \/ Timeout
      BY <2>2, <3>0, <3>4, LinkFileKeeps DEF StartSession, Timeout
    <3>5. CASE UnlinkFile
      BY <2>2, <3>0, <3>5, UnlinkKeeps
    <3> QED
      BY <3>1, <3>2, <3>3, <3>4, <3>5
  <2>4. Effect(conn) /\ ~SendInit
    BY <2>1, <2>2, LinkEffects DEF SendInit
  <2> DEFINE l == links[conn]
             r == links'[conn]
  <2>5. CASE Kept(l, r)
    <3>1. Range(<<>>) = {}
      BY DEF Range
    <3> QED
      BY <2>1, <2>3, <2>5, <3>1 DEF Kept, OfThatFile
  <2>6. CASE Received(l, r)
    BY <2>1, <2>2, <2>3, <2>6 DEF Received
  <2>7. CASE Took(l, r)
    <3>1. Range(Tail(l.todo)) \subseteq Range(l.todo)
      BY <2>2, <2>7, RangeTail DEF Took, Links
    <3> QED
      BY <2>1, <2>3, <2>7, <3>1 DEF Took, OfThatFile
  <2> QED
    BY <1>2, <2>4, <2>5, <2>6, <2>7 DEF Effect
<1> QED
  BY <1>1, <1>2

-----------------------------------------------------------------------------
(* AppliedOnceBy as it is after the step. *)
AppliedOnceByNow(by) ==
  /\ \A i, j \in DOMAIN applied' : i # j /\ applied'[i] = applied'[j] => by[i] # by[j]
  /\ \A i \in DOMAIN applied' :
       /\ applied'[i] \notin Range(links'[by[i]].todo)
       /\ \A m \in links'[by[i]].msg : applied'[i] \notin Range(m)
       /\ by[i] = conn' => \A f \in DOMAIN dir' :
            applied'[i] \in Range(dir'[f].txns) => spc' = "ack" /\ f = file'

(* A transaction leaves its connection for good: no other step brings one    *)
(* that was applied over a connection to it again.                           *)
LEMMA AppliedStays ==
  ASSUME TransferInv, RecordedOnce, [Next]_vars, applied' = applied,
         NEW by \in [DOMAIN applied -> DOMAIN links], AppliedOnceBy(by)
  PROVE  AppliedOnceByNow(by)
<1>1. ASSUME NEW i \in DOMAIN applied
      PROVE  /\ applied[i] \notin Range(links'[by[i]].todo)
             /\ \A m \in links'[by[i]].msg : applied[i] \notin Range(m)
  <2> DEFINE c == by[i]
             l == links[c]
             r == links'[c]
  <2>1. /\ c \in DOMAIN links /\ Effect(c)
        /\ applied[i] \notin Range(l.todo)
        /\ \A m \in l.msg : applied[i] \notin Range(m)
        /\ c = conn => \A f \in DOMAIN dir : applied[i] \in Range(dir[f].txns) => spc = "ack"
    BY <1>1, LinkEffects DEF AppliedOnceBy
  <2>2. CASE Kept(l, r)
    <3>1. Range(<<>>) = {}
      BY DEF Range
    <3> QED
      BY <2>1, <2>2, <3>1 DEF Kept
  <2>3. CASE Received(l, r)
    BY <2>1, <2>3 DEF Received
  <2>4. ~Took(l, r)
    <3>1. l \in Links /\ applied \in Seq(Txns)
      BY <2>1, LinkType DEF TransferInv, TypeOK
    <3>2. CASE l.todo = <<>>
      BY <3>2 DEF Took
    <3>3. CASE l.todo # <<>>
      <4>1. Head(l.todo) \in Txns /\ Len(applied) \in Nat
        BY <3>1, <3>3, HeadTailProperties, LenProperties DEF Links
      <4>2. Len(Append(applied, Head(l.todo))) = Len(applied) + 1
        BY <3>1, <4>1, AppendProperties
      <4> QED
        BY <4>1, <4>2 DEF Took
    <3> QED
      BY <3>2, <3>3
  <2>5. CASE c = conn /\ SendInit /\ Sent(l, r, InitFile)
    BY <2>1, <2>5 DEF Sent, SendInit
  <2>6. CASE c = conn /\ SendSegment /\ Sent(l, r, file')
    BY <2>1, <2>6 DEF Sent, SendSegment
  <2> QED
    BY <2>1, <2>2, <2>3, <2>4, <2>5, <2>6 DEF Effect
<1>2. ASSUME NEW i \in DOMAIN applied, by[i] = conn',
             NEW f \in DOMAIN dir', applied[i] \in Range(dir'[f].txns)
      PROVE  spc' = "ack" /\ f = file'
  <2>1. by[i] = conn /\ conn' = conn
    <3>1. /\ by[i] \in 1 .. Len(links) /\ Len(links) \in Nat
      BY LenProperties DEF TransferInv, TypeOK
    <3>2. conn' \in {conn, 0, Len(links) + 1}
      BY DEF Next, StartSession, Take, Timeout, UnlinkFile, Tick, others, SendStep, Connect,
         SendInit, AckInit, Poll, SendSegment, AckSegment, SendError, RecvStep, RecvInit,
         RecvSegment, ApplyTxn, SendAck, RecvFails, RecvError, Break, ReceiverDies, Restart,
         vars, sender
    <3> QED
      BY <1>2, <3>1, <3>2
  <2>2. f \in DOMAIN dir /\ dir'[f].txns = dir[f].txns
    <3>1. CASE FilesStay
      <4>1. Range(<<>>) = {}
        BY DEF Range
      <4> QED
        BY <1>2, <3>1, <4>1 DEF FilesStay
    <3>2. ASSUME NEW b \in Seq(Txns), FromBuffer(b), LinkFile(b)
          PROVE  f \in DOMAIN dir /\ dir'[f].txns = dir[f].txns
      <4>1. Older(applied[i]) /\ applied[i] \in Nat
        <5>1. applied[i] \in Range(applied) /\ applied \in Seq(Txns)
          BY <1>2 DEF Range, TransferInv, TypeOK
        <5> QED
          BY <5>1, RangeInNat DEF RecordedOnce
      <4>2. applied[i] \notin Range(b)
        <5>1. taken \in Nat /\ ~(applied[i] < applied[i]) /\ ~(taken < applied[i])
          BY <4>1, FileEffects DEF Older
        <5> QED
          BY <3>2, <4>1, <5>1 DEF FromBuffer, Older
      <4>3. f \in DOMAIN dir => dir'[f].txns = dir[f].txns
        BY <3>2, LinkFileKeeps DEF TransferInv
      <4>4. f \notin DOMAIN dir => dir'[f].txns = b
        BY <1>2, <3>2, LinkFileKeeps DEF TransferInv
      <4> QED
        BY <1>2, <4>2, <4>3, <4>4
    <3> QED
      BY <3>1, <3>2, FileEffects
  <2>3. spc = "ack" /\ f = file
    BY <1>2, <2>1, <2>2 DEF AppliedOnceBy
  <2>4. conn # 0
    BY <2>3 DEF TransferInv, TypeOK
  <2>5. ~AckSegment
    BY <1>2, <2>3 DEF AckSegment
  <2>6. spc' = spc /\ file' = file
    BY <2>1, <2>3, <2>4, <2>5 DEF Next, StartSession, Take, Timeout, UnlinkFile, Tick, others,
       SendStep, Connect, SendInit, AckInit, Poll, SendSegment, SendError, RecvStep, RecvInit,
       RecvSegment, ApplyTxn, SendAck, RecvFails, RecvError, Break, ReceiverDies, Restart,
       vars, sender
  <2> QED
    BY <2>3, <2>6
<1> QED
  BY <1>1, <1>2 DEF AppliedOnceBy, AppliedOnceByNow

(* The thread of a connection applies what it has not applied before.        *)
LEMMA ApplicationIsNew ==
  ASSUME TransferInv, RecordedOnce, OfThatFile,
         NEW by \in [DOMAIN applied -> DOMAIN links], AppliedOnceBy(by),
         NEW c \in DOMAIN links, ApplyTxn(c)
  PROVE  AppliedOnceByNow([i \in DOMAIN applied' |->
                             IF i = Len(applied) + 1 THEN c ELSE by[i]])
<1> DEFINE s == links[c].todo
           h == Head(s)
           n == Len(applied) + 1
           next == [i \in DOMAIN applied' |-> IF i = n THEN c ELSE by[i]]
<1>1. /\ s \in Seq(Txns) /\ s # <<>> /\ applied \in Seq(Txns)
      /\ links[c].rpc = "apply" /\ links[c].msg = {} /\ Increasing(s)
      /\ links[c] \in Links
  BY LinkType DEF ApplyTxn, TransferInv, TypeOK, Links, RecordedOnce, Carries, Recorded
<1>2. h \in Range(s) /\ Range(Tail(s)) \subseteq Range(s) /\ h \in Txns
  BY <1>1, RangeTail
<1>3. h \notin Range(Tail(s))
  <2>1. /\ Tail(s) \in Seq(Txns) /\ DOMAIN Tail(s) = 1 .. Len(s) - 1
        /\ DOMAIN s = 1 .. Len(s) /\ Len(s) \in Nat /\ s[1] = h
        /\ \A i \in 1 .. Len(s) - 1 : Tail(s)[i] = s[i + 1]
    BY <1>1, HeadTailProperties, LenProperties
  <2>2. ASSUME NEW i \in DOMAIN Tail(s), Tail(s)[i] = h
        PROVE  FALSE
    <3>1. 1 \in DOMAIN s /\ i + 1 \in DOMAIN s /\ 1 < i + 1 /\ s[i + 1] = h
      BY <2>1, <2>2
    <3>2. s[1] < s[i + 1]
      BY <1>1, <3>1 DEF Increasing
    <3>3. h \in Nat
      BY <1>2 DEF Txns
    <3> QED
      BY <2>1, <3>1, <3>2, <3>3
  <2> QED
    BY <2>2 DEF Range
<1>4. /\ DOMAIN applied' = DOMAIN applied \cup {n} /\ n \notin DOMAIN applied
      /\ applied'[n] = h /\ \A i \in DOMAIN applied : applied'[i] = applied[i]
  <2>1. applied' = Append(applied, h)
    BY DEF ApplyTxn
  <2> QED
    BY <1>1, <1>2, <2>1, AppendProperties, LenProperties
<1>5. /\ links'[c].todo = Tail(s) /\ links'[c].msg = {}
      /\ \A d \in DOMAIN links : d # c => links'[d] = links[d]
      /\ UNCHANGED <<dir, spc, conn, file>>
  BY <1>1 DEF ApplyTxn, sender, files, Links
<1>6. ASSUME NEW i \in DOMAIN applied
      PROVE  /\ next[i] = by[i] /\ by[i] \in DOMAIN links /\ applied'[i] = applied[i]
             /\ applied[i] = h => by[i] # c
  BY <1>2, <1>4 DEF AppliedOnceBy
<1>7. next[n] = c /\ applied'[n] = h
  BY <1>4
<1>8. ASSUME NEW f \in DOMAIN dir, c = conn, h \in Range(dir[f].txns)
      PROVE  spc = "ack" /\ f = file
  <2>1. spc # "connect"
    BY <1>8, <1>1, LenProperties DEF TransferInv, TypeOK
  <2>2. spc = "ack"
    BY <1>1, <1>8, <2>1 DEF TransferInv, TypeOK, HandOver, Standing
  <2>3. file \in DOMAIN dir /\ h \in Range(dir[file].txns)
    BY <1>1, <1>2, <1>8, <2>2 DEF TransferInv, TypeOK, HandOver, OfThatFile
  <2> QED
    BY <1>8, <2>2, <2>3 DEF RecordedOnce
<1> HIDE DEF next, n, h, s
<1>9. ASSUME NEW i \in DOMAIN applied', NEW j \in DOMAIN applied',
             i # j, applied'[i] = applied'[j]
      PROVE  next[i] # next[j]
  BY <1>4, <1>6, <1>7, <1>9 DEF AppliedOnceBy
<1>10. ASSUME NEW i \in DOMAIN applied
       PROVE  /\ applied[i] \notin Range(links'[by[i]].todo)
              /\ \A m \in links'[by[i]].msg : applied[i] \notin Range(m)
              /\ by[i] = conn => \A f \in DOMAIN dir :
                   applied[i] \in Range(dir[f].txns) => spc = "ack" /\ f = file
  BY <1>2, <1>5, <1>6 DEF AppliedOnceBy, s
<1>11. AppliedOnceByNow(next)
  <2>1. ASSUME NEW i \in DOMAIN applied
        PROVE  /\ applied'[i] \notin Range(links'[next[i]].todo)
               /\ \A m \in links'[next[i]].msg : applied'[i] \notin Range(m)
               /\ next[i] = conn' => \A f \in DOMAIN dir' :
                    applied'[i] \in Range(dir'[f].txns) => spc' = "ack" /\ f = file'
    BY <1>5, <1>6, <1>10
  <2>2. /\ applied'[n] \notin Range(links'[next[n]].todo)
        /\ \A m \in links'[next[n]].msg : applied'[n] \notin Range(m)
        /\ next[n] = conn' => \A f \in DOMAIN dir' :
             applied'[n] \in Range(dir'[f].txns) => spc' = "ack" /\ f = file'
    BY <1>3, <1>5, <1>7, <1>8
  <2> QED
    BY <1>4, <1>9, <2>1, <2>2 DEF AppliedOnceByNow
<1> QED
  BY <1>11 DEF next, n

LEMMA RepeatsInit == Init => RepeatsInv
<1> SUFFICES ASSUME Init PROVE RepeatsInv
  OBVIOUS
<1>1. TransferInv /\ RecordedOnce
  BY TransferInit, OrderInit DEF OrderInv
<1>2. LinksNeedBreaks /\ OfThatFile
  BY DEF Init, LinksNeedBreaks, OfThatFile
<1>3. <<>> \in [DOMAIN applied -> DOMAIN links] /\ AppliedOnceBy(<<>>)
  BY DEF Init, AppliedOnceBy
<1> QED
  BY <1>1, <1>2, <1>3 DEF RepeatsInv

LEMMA RepeatsNext == RepeatsInv /\ [Next]_vars => RepeatsInv'
<1> SUFFICES ASSUME RepeatsInv, [Next]_vars PROVE RepeatsInv'
  OBVIOUS
<1>1. TransferInv' /\ RecordedOnce' /\ LinksNeedBreaks' /\ OfThatFile'
  BY TransferNext, RecordedOnceNext, LinksNeedBreaksNext, OfThatFileNext DEF RepeatsInv
<1>2. PICK by \in [DOMAIN applied -> DOMAIN links] : AppliedOnceBy(by)
  BY DEF RepeatsInv
<1>3. DOMAIN links \subseteq DOMAIN links'
  BY LinkEffects DEF RepeatsInv
<1>4. \E next \in [DOMAIN applied' -> DOMAIN links'] : AppliedOnceByNow(next)
  <2>1. CASE UNCHANGED applied
    <3>1. by \in [DOMAIN applied' -> DOMAIN links']
      BY <1>3, <2>1
    <3> QED
      BY <1>2, <2>1, <3>1, AppliedStays DEF RepeatsInv
  <2>2. ASSUME NEW c \in DOMAIN links, ApplyTxn(c)
        PROVE  \E next \in [DOMAIN applied' -> DOMAIN links'] : AppliedOnceByNow(next)
    <3> DEFINE next == [i \in DOMAIN applied' |-> IF i = Len(applied) + 1 THEN c ELSE by[i]]
    <3>1. AppliedOnceByNow(next)
      BY <1>2, <2>2, ApplicationIsNew DEF RepeatsInv
    <3>2. DOMAIN applied' \subseteq DOMAIN applied \cup {Len(applied) + 1}
      <4>1. applied \in Seq(Txns) /\ applied' = Append(applied, Head(links[c].todo))
        BY <2>2 DEF ApplyTxn, RepeatsInv, TransferInv, TypeOK
      <4>2. applied' \in Seq(Txns)
        BY <1>1 DEF TransferInv, TypeOK
      <4>3. Head(links[c].todo) \in Txns
        <5>1. links[c].todo \in Seq(Txns) /\ links[c].todo # <<>>
          BY <2>2, LinkType DEF ApplyTxn, RepeatsInv, TransferInv, TypeOK, Links
        <5> QED
          BY <5>1, HeadTailProperties
      <4> QED
        BY <4>1, <4>3, AppendProperties, LenProperties
    <3>3. next \in [DOMAIN applied' -> DOMAIN links']
      BY <1>2, <1>3, <2>2, <3>2
    <3> QED
      BY <3>1, <3>3
  <2> QED
    BY <2>1, <2>2, AppliedEffect
<1>5. (\E next \in [DOMAIN applied -> DOMAIN links] : AppliedOnceBy(next))'
  BY <1>4 DEF AppliedOnceBy, AppliedOnceByNow
<1> QED
  BY <1>1, <1>5 DEF RepeatsInv

(* There are only so many connections. *)
LEMMA RepeatsBounded == RepeatsInv => RepeatsNeedBreaks
<1> SUFFICES ASSUME RepeatsInv, NEW t \in Range(applied)
             PROVE  Cardinality({i \in DOMAIN applied : applied[i] = t})
                      <= 1 + breaks + restarts
  BY DEF RepeatsNeedBreaks
<1>1. PICK by \in [DOMAIN applied -> DOMAIN links] : AppliedOnceBy(by)
  BY DEF RepeatsInv
<1> DEFINE S == {i \in DOMAIN applied : applied[i] = t}
           F == [i \in S |-> by[i]]
<1>2. F \in Injection(S, 1 .. Len(links)) /\ Len(links) \in Nat
  <2>1. DOMAIN links = 1 .. Len(links) /\ Len(links) \in Nat
    BY LenProperties DEF RepeatsInv, TransferInv, TypeOK
  <2>2. F \in [S -> 1 .. Len(links)]
    BY <2>1
  <2>3. \A i, j \in S : i # j => F[i] # F[j]
    BY <1>1 DEF AppliedOnceBy
  <2> QED
    BY <2>1, <2>2, <2>3 DEF Injection, IsInjective
<1>3. IsFiniteSet(1 .. Len(links)) /\ Cardinality(1 .. Len(links)) = Len(links)
  <2>1. 1 \in Int /\ Len(links) \in Int
    BY <1>2
  <2>2. /\ IsFiniteSet(1 .. Len(links))
        /\ Cardinality(1 .. Len(links)) = IF 1 > Len(links) THEN 0 ELSE Len(links) - 1 + 1
    BY <2>1, FS_Interval
  <2> QED
    BY <1>2, <2>2
<1>4. Cardinality(S) \in Nat /\ Cardinality(S) <= Len(links)
  BY <1>2, <1>3, FS_Injection, FS_CardinalityType
<1>5. Len(links) <= 1 + breaks + restarts /\ breaks \in Nat /\ restarts \in Nat
  <2>1. Len(links) <= breaks + restarts \/ Len(links) = 1 + breaks + restarts
    BY DEF RepeatsInv, LinksNeedBreaks
  <2>2. breaks \in Nat /\ restarts \in Nat
    BY DEF RepeatsInv, LinksNeedBreaks
  <2> QED
    BY <1>2, <2>1, <2>2
<1> QED
  BY <1>2, <1>4, <1>5

(* However connections break and however long their threads go on, a         *)
(* transaction is applied at most once per connection, and there is one      *)
(* more connection only after a break or a restart of the sender             *)
(* (runConnection, runRecvConnection).                                       *)
THEOREM RepeatsAreCaused == Spec => []RepeatsNeedBreaks
BY RepeatsInit, RepeatsNext, RepeatsBounded, PTL DEF Spec
=============================================================================
