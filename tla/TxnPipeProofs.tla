--------------------------- MODULE TxnPipeProofs ----------------------------
(***************************************************************************)
(* Proofs about TxnPipe for any ring, page and statement sizes, numbers of *)
(* statements and all kinds of group.  Types and MarkedPageUnread come     *)
(* first, with the inductive invariant PlaceInv: where wpipe and rpipe     *)
(* are, which pages they have, and that the writer's page is never among   *)
(* those the reader may see.  Then TxnPipe implements TxnChannel: its      *)
(* steps are steps of the channel or change nothing of it.  Liveness is    *)
(* left to TLC.                                                            *)
(***************************************************************************)
EXTENDS TxnPipe, SequenceTheorems, NaturalsInduction, WellFoundedInduction, TLAPS

(* A page number names a slot of the ring. *)
LEMMA SlotRange ==
  ASSUME NEW k \in Nat
  PROVE  k % Count \in Slots
BY PipeAssumption DEF Slots

(* What division with a remainder gives. *)
LEMMA DivMod ==
  ASSUME NEW N \in Nat \ {0}, NEW a \in Nat
  PROVE  a \div N \in Nat /\ a % N \in 0 .. N - 1 /\ a = N * (a \div N) + (a % N)
OBVIOUS

(* Fewer than Count pages apart, two pages are in different slots. *)
LEMMA SlotsDiffer ==
  ASSUME NEW a \in Nat, NEW b \in Nat, a < b, b - a < Count
  PROVE  a % Count # b % Count
<1> SUFFICES ASSUME a % Count = b % Count PROVE FALSE
  OBVIOUS
<1> DEFINE p == a \div Count
           q == b \div Count
           r == a % Count
<1>1. /\ Count \in Nat /\ p \in Nat /\ q \in Nat /\ r \in 0 .. Count - 1
      /\ a = Count * p + r /\ b = Count * q + r
  <2>1. Count \in Nat \ {0}
    BY PipeAssumption
  <2> QED
    BY <2>1, DivMod
<1> HIDE DEF p, q, r
<1>2. b - a = Count * (q - p)
  BY <1>1
<1>3. CASE q - p >= 1
  <2>1. Count * (q - p) >= Count
    BY <1>1, <1>3
  <2> QED
    BY <1>1, <1>2, <2>1
<1>4. CASE q - p <= 0
  <2>1. Count * (q - p) <= 0
    BY <1>1, <1>4
  <2> QED
    BY <1>2, <2>1
<1> QED
  BY <1>1, <1>3, <1>4

(* A page between two is no farther from the second than the first is. *)
LEMMA Nearer ==
  ASSUME NEW i \in Nat, NEW j \in Nat, NEW k \in i .. j, NEW n \in Nat, j - i \in 0 .. n - 1
  PROVE  k \in Nat /\ j - k \in 0 .. n - 1 /\ j - k <= j - i
OBVIOUS

(* The beginning and the rest of a sequence. *)
LEMMA Cut ==
  ASSUME NEW S, NEW s \in Seq(S), NEW n \in 0 .. Len(s)
  PROVE  /\ SubSeq(s, 1, n) \in Seq(S) /\ Len(SubSeq(s, 1, n)) = n
         /\ SubSeq(s, n + 1, Len(s)) \in Seq(S) /\ Len(SubSeq(s, n + 1, Len(s))) = Len(s) - n
         /\ SubSeq(s, 1, n) \o SubSeq(s, n + 1, Len(s)) = s
<1>1. Len(s) \in Nat /\ \A i \in 1 .. Len(s) : s[i] \in S
  BY LenProperties, ElementOfSeq
<1>2. SubSeq(s, 1, n) \in Seq(S) /\ Len(SubSeq(s, 1, n)) = n
  <2>1. \A i \in 1 .. n : s[i] \in S
    BY <1>1
  <2>2. SubSeq(s, 1, n) \in Seq(S) /\ Len(SubSeq(s, 1, n)) = IF 1 <= n THEN n - 1 + 1 ELSE 0
    BY <2>1, SubSeqProperties
  <2> QED
    BY <1>1, <2>2
<1>3. SubSeq(s, n + 1, Len(s)) \in Seq(S) /\ Len(SubSeq(s, n + 1, Len(s))) = Len(s) - n
  <2>1. n + 1 \in Int /\ Len(s) \in Int /\ \A i \in n + 1 .. Len(s) : s[i] \in S
    BY <1>1
  <2>2. /\ SubSeq(s, n + 1, Len(s)) \in Seq(S)
        /\ Len(SubSeq(s, n + 1, Len(s))) =
             IF n + 1 <= Len(s) THEN Len(s) - (n + 1) + 1 ELSE 0
    BY <2>1, SubSeqProperties
  <2> QED
    BY <1>1, <2>2
<1>4. SubSeq(s, 1, n) \o SubSeq(s, n + 1, Len(s)) = SubSeq(s, 1, Len(s))
  <2>1. /\ 1 \in 1 .. Len(s) + 1 /\ n \in 1 - 1 .. Len(s) /\ Len(s) \in n .. Len(s)
    BY <1>1
  <2> QED
    BY <2>1, ConcatAdjacentSubSeq
<1> QED
  BY <1>2, <1>3, <1>4, SubSeqFull

(* The beginning of a concatenation. *)
LEMMA CutConcat ==
  ASSUME NEW S, NEW s \in Seq(S), NEW t \in Seq(S)
  PROVE  SubSeq(s \o t, 1, Len(s)) = s
<1> DEFINE u == SubSeq(s \o t, 1, Len(s))
<1>1. /\ s \o t \in Seq(S) /\ Len(s \o t) = Len(s) + Len(t) /\ Len(s) \in Nat /\ Len(t) \in Nat
      /\ \A i \in 1 .. Len(s) : (s \o t)[i] = s[i]
  BY ConcatProperties, LenProperties
<1>2. u \in Seq(S) /\ Len(u) = Len(s)
  BY <1>1, Cut
<1>3. \A i \in 1 .. Len(s) : u[i] = s[i]
  BY <1>1
<1> QED
  BY <1>2, <1>3, SeqEqual

-----------------------------------------------------------------------------
(* What the writer does to the page it has. *)
LEMMA CopyEffect ==
  ASSUME TypeOK, NEW o \in Nat, NEW b \in Seq(Bytes), ring' = Copy(o, b),
         o <= Len(ring[wi % Count].bytes), o + Len(b) <= PageSize
  PROVE  LET p == ring[wi % Count]
             q == ring'[wi % Count]
         IN  /\ ring' \in [Slots -> Pages]
             /\ \A s \in Slots : Len(ring'[s].bytes) <= PageSize
             /\ \A s \in Slots : s # wi % Count => ring'[s] = ring[s]
             /\ q.size = p.size /\ q.mark = p.mark /\ Len(q.bytes) = o + Len(b)
             /\ SubSeq(q.bytes, 1, o + Len(b)) = SubSeq(p.bytes, 1, o) \o b
<1> DEFINE w == wi % Count
           p == ring[w]
           c == SubSeq(p.bytes, 1, o) \o b
<1>1. w \in Slots /\ p \in Pages /\ p.bytes \in Seq(Bytes)
  BY SlotRange DEF TypeOK, Pages
<1>2. /\ SubSeq(p.bytes, 1, o) \in Seq(Bytes) /\ Len(SubSeq(p.bytes, 1, o)) = o
      /\ Len(b) \in Nat
  BY <1>1, Cut, LenProperties
<1>3. c \in Seq(Bytes) /\ Len(c) = o + Len(b)
  BY <1>2, ConcatProperties
<1>4. SubSeq(c, 1, o + Len(b)) = c
  BY <1>3, SubSeqFull
<1> HIDE DEF c
<1>5. ring' = [ring EXCEPT ![w].bytes = c]
  BY DEF Copy, c
<1> QED
  BY <1>1, <1>3, <1>4, <1>5, ZenonT(60) DEF TypeOK, Pages, c

(* markPage() changes the size and the state of the writer's page, and     *)
(* neither its bytes nor any other page.                                   *)
LEMMA PublishEffect ==
  ASSUME TypeOK, NEW mark \in Marks, Publish(mark)
  PROVE  LET p == ring[wi % Count]
             q == ring'[wi % Count]
         IN  /\ ring' \in [Slots -> Pages]
             /\ \A s \in Slots : Len(ring'[s].bytes) <= PageSize
             /\ \A s \in Slots : s # wi % Count => ring'[s] = ring[s]
             /\ q.size = offset /\ q.mark = mark /\ q.bytes = p.bytes
             /\ wi' = wi + 1
<1>1. wi % Count \in Slots /\ offset \in 0 .. PageSize
  BY SlotRange DEF TypeOK
<1> QED
  BY <1>1 DEF Publish, TypeOK, Pages

(* wpipe starts with an empty page of its own, rpipe with none. *)
LEMMA PlaceInit == Init => PlaceInv
<1> SUFFICES ASSUME Init PROVE PlaceInv
  OBVIOUS
<1>1. <<>> \in Seq(Bytes) /\ <<>> \in Seq(Seq(Bytes)) /\ Len(<<>>) = 0
  BY EmptySeq
<1>2. TypeOK
  <2>1. reliable \in BOOLEAN /\ auto \in BOOLEAN
    BY PipeAssumption DEF Init
  <2>2. [bytes |-> <<>>, size |-> 0, mark |-> "tentative"] \in Pages
    BY <1>1, PipeAssumption DEF Pages, Marks
  <2>3. ring \in [Slots -> Pages] /\ \A s \in Slots : Len(ring[s].bytes) <= PageSize
    BY <1>1, <2>2, PipeAssumption DEF Init
  <2>4. 0 - 0 \in 0 .. Count - 1 /\ 0 \in 0 .. PageSize /\ Block \in 0 .. Block
    BY PipeAssumption
  <2> QED
    BY <2>1, <2>3, <2>4 DEF Init, TypeOK, Marks
<1>3. WriterPlace /\ PagesPlace /\ ReaderPlace
  BY <1>1, PipeAssumption DEF Init, WriterPlace, PagesPlace, ReaderPlace, Owns
<1> QED
  BY <1>2, <1>3 DEF PlaceInv

(* What stays of the types and the writer's place while the reader moves.   *)
LEMMA ReaderMoves ==
  ASSUME PlaceInv, UNCHANGED <<group, ring, wi, writer>>,
         ri' \in ri .. wi, wpc \in {"stepPoll", "stepMark"} => ri' < wi,
         rpc' \in {"next", "copy", "end", "poll", "return"}, rpage' \in BOOLEAN,
         roffset' \in 0 .. PageSize, want' \in 0 .. Block, flag' \in Marks
  PROVE  TypeOK' /\ WriterPlace' /\ PagesPlace'
<1>1. wi \in Nat /\ ri \in Nat /\ ri' \in Nat /\ wi - ri' \in 0 .. Count - 1 /\ wi - ri' <= wi - ri
  <2>1. /\ wi \in Nat /\ ri \in Nat /\ wi - ri \in 0 .. Count - 1
        /\ ri' \in ri .. wi /\ Count \in Nat
    BY PipeAssumption DEF PlaceInv, TypeOK
  <2> QED
    BY <2>1, Nearer
<1>2. TypeOK'
  BY <1>1 DEF PlaceInv, TypeOK, group, writer
<1>3. Owns' = Owns
  BY DEF Owns, writer
<1>4. (\A k \in ri .. wi - 1 :
         /\ ring[k % Count].size <= Len(ring[k % Count].bytes)
         /\ ring[k % Count].mark = "tentative" =>
              k = wi - 1 /\ wpc \in {"stepPoll", "stepMark", "dead"})'
  <2>1. UNCHANGED <<ring, wi, wpc>> /\ ri' .. wi - 1 \subseteq ri .. wi - 1
    BY <1>1 DEF writer
  <2> QED
    BY <2>1 DEF PlaceInv, WriterPlace, PagesPlace
<1>5. (Owns \/ (wpc = "stepMark" /\ npage) => wi - ri < Count - 1)'
  BY <1>1, <1>3, PipeAssumption DEF PlaceInv, WriterPlace, PagesPlace, writer
<1>6. (wpc \in {"stepPoll", "stepMark"} =>
       ~reliable /\ ri < wi /\ ring[(wi - 1) % Count].mark = "tentative")'
  BY DEF PlaceInv, WriterPlace, PagesPlace, writer, group
<1>7. (Owns => offset <= Len(ring[wi % Count].bytes))'
  BY <1>3 DEF PlaceInv, WriterPlace, PagesPlace, writer
<1> QED
  BY <1>2, <1>4, <1>5, <1>6, <1>7 DEF PlaceInv, WriterPlace, PagesPlace, writer

(* What rpipe::read() and runReadProcessWithTimeout do keeps the           *)
(* invariant: they free only a page that is decided and read to its end.   *)
LEMMA ReaderKeepsPlace ==
  ASSUME PlaceInv, ReaderStep
  PROVE  PlaceInv'
<1>0. /\ current \in Pages /\ roffset \in 0 .. PageSize /\ want \in 0 .. Block
      /\ flag \in Marks /\ rpage \in BOOLEAN /\ ri \in Nat /\ wi \in Nat /\ ri <= wi
      /\ Block \in Nat /\ PageSize \in Nat
      /\ current.bytes \in Seq(Bytes) /\ current.size \in 0 .. PageSize /\ current.mark \in Marks
      /\ txn \in Seq(Bytes) /\ ReaderPlace
      /\ rpc \in {"next", "copy", "end", "poll", "return"}
  <2>1. /\ roffset \in 0 .. PageSize /\ want \in 0 .. Block /\ flag \in Marks
        /\ rpage \in BOOLEAN /\ ri \in Nat /\ wi \in Nat /\ wi - ri \in 0 .. Count - 1
        /\ ring \in [Slots -> Pages] /\ rpc \in {"next", "copy", "end", "poll", "return"}
    BY DEF PlaceInv, TypeOK
  <2>2. Count \in Nat /\ Block \in Nat /\ PageSize \in Nat
    BY PipeAssumption
  <2>3. current \in Pages
    BY <2>1, SlotRange DEF current
  <2>4. current.bytes \in Seq(Bytes) /\ current.size \in 0 .. PageSize /\ current.mark \in Marks
    BY <2>3 DEF Pages
  <2>5. txn \in Seq(Bytes) /\ ReaderPlace
    BY DEF PlaceInv, ReaderPlace
  <2>6. ri <= wi
    BY <2>1, <2>2
  <2> QED
    BY <2>1, <2>2, <2>3, <2>4, <2>5, <2>6
<1>1. CASE ReadNext
  <2>1. TypeOK' /\ WriterPlace' /\ PagesPlace'
    BY <1>0, <1>1, ReaderMoves DEF PlaceInv, ReaderStep, ReadNext, queue, WriterPlace, PagesPlace
  <2>2. ri < wi
    BY <1>0, <1>1 DEF ReadNext, EmptyQueue
  <2>3. ReaderPlace'
    BY <1>0, <1>1, <2>2 DEF ReadNext, ReaderPlace, queue, current
  <2> QED
    BY <2>1, <2>3 DEF PlaceInv
<1>2. CASE ReadCopy
  <2> DEFINE avail == current.size - roffset
             csz == IF want < avail THEN want ELSE avail
  <2>1. avail \in Nat /\ csz \in Nat /\ csz <= avail /\ csz <= want /\ ri < wi /\ rpage
    <3>1. rpc = "copy"
      BY <1>2 DEF ReadCopy
    <3>2. rpage /\ ri < wi /\ roffset <= current.size
      BY <1>0, <3>1 DEF ReaderPlace, current
    <3>3. want \in Nat /\ roffset \in Nat /\ current.size \in Nat
      BY <1>0
    <3> QED
      BY <3>2, <3>3
  <2>2. /\ txn' = txn \o SubSeq(current.bytes, roffset + 1, roffset + csz)
        /\ roffset' = roffset + csz /\ want' = want - csz
        /\ rpc' = IF roffset' = current.size THEN "end" ELSE "return"
        /\ UNCHANGED <<queue, writer, rpage, flag, history>>
    BY <1>2 DEF ReadCopy
  <2> HIDE DEF csz
  <2>3. roffset' \in 0 .. PageSize /\ want' \in 0 .. Block /\ roffset' <= current.size
    BY <1>0, <2>1, <2>2
  <2>4. TypeOK' /\ WriterPlace' /\ PagesPlace'
    BY <1>0, <1>2, <2>2, <2>3, ReaderMoves DEF PlaceInv, ReaderStep, queue, WriterPlace, PagesPlace
  <2>5. txn' \in Seq(Bytes)
    <3>1. \A i \in roffset + 1 .. roffset + csz : current.bytes[i] \in Bytes
      <4>1. current.size <= Len(current.bytes)
        <5>1. ri \in ri .. wi - 1
          BY <1>0, <2>1
        <5> QED
          BY <5>1 DEF PlaceInv, WriterPlace, PagesPlace, current
      <4>2. Len(current.bytes) \in Nat /\ \A i \in 1 .. Len(current.bytes) : current.bytes[i] \in Bytes
        BY <1>0, LenProperties, ElementOfSeq
      <4>3. roffset + 1 .. roffset + csz \subseteq 1 .. Len(current.bytes)
        BY <1>0, <2>1, <4>1, <4>2
      <4> QED
        BY <4>2, <4>3
    <3>2. SubSeq(current.bytes, roffset + 1, roffset + csz) \in Seq(Bytes)
      BY <1>0, <2>1, <3>1, SubSeqProperties
    <3> QED
      BY <1>0, <2>2, <3>2, ConcatProperties
  <2>6. ReaderPlace'
    <3>1. /\ UNCHANGED <<ring, ri, wi, rpage, flag>> /\ rpage
          /\ flag \in {"tentative", "cont"} /\ ring[ri % Count] = current
      BY <1>0, <1>2, <2>1, <2>2 DEF ReadCopy, ReaderPlace, queue, current
    <3>2. rpc' \in {"end", "return"} /\ (rpc' = "end" => roffset' = current.size)
      BY <2>2
    <3> QED
      BY <2>1, <2>3, <2>5, <3>1, <3>2 DEF ReaderPlace
  <2> QED
    BY <2>4, <2>6 DEF PlaceInv
<1>3. CASE ReadEnd
  <2>1. ri < wi /\ rpage /\ flag \in {"tentative", "cont"}
    BY <1>0, <1>3 DEF ReadEnd, ReaderPlace
  <2>2. wpc \in {"stepPoll", "stepMark"} => ri + 1 < wi
    <3>1. ASSUME wpc \in {"stepPoll", "stepMark"}, ri = wi - 1
          PROVE  FALSE
      BY <1>3, <3>1 DEF ReadEnd, PlaceInv, WriterPlace, PagesPlace, current
    <3> QED
      BY <1>0, <2>1, <3>1
  <2>3. TypeOK' /\ WriterPlace' /\ PagesPlace'
    <3>1. /\ ri' \in ri .. wi /\ (wpc \in {"stepPoll", "stepMark"} => ri' < wi)
          /\ roffset' \in 0 .. PageSize
      BY <1>0, <1>3, <2>1, <2>2 DEF ReadEnd
    <3>2. /\ flag' \in Marks /\ want' \in 0 .. Block /\ rpage' \in BOOLEAN
          /\ rpc' \in {"next", "copy", "end", "poll", "return"}
          /\ UNCHANGED <<group, ring, wi, writer>>
      BY <1>0, <1>3 DEF ReadEnd, ReaderStep
    <3> QED
      BY <3>1, <3>2, ReaderMoves
  <2>4. ReaderPlace'
    BY <1>0, <1>3, <2>1 DEF ReadEnd, ReaderPlace, Marks
  <2> QED
    BY <2>3, <2>4 DEF PlaceInv
<1>4. CASE ReadPoll
  <2>1. TypeOK' /\ WriterPlace' /\ PagesPlace'
    BY <1>0, <1>4, ReaderMoves DEF PlaceInv, ReaderStep, ReadPoll, queue, WriterPlace, PagesPlace
  <2>2. ReaderPlace'
    <3>1. /\ rpage' = ~EmptyQueue /\ rpc' \in {"copy", "return"} /\ (rpc' = "copy" => rpage')
          /\ UNCHANGED <<ring, wi, ri, roffset, want, flag, txn>>
          /\ roffset = 0 /\ flag = "cont"
      BY <1>0, <1>4 DEF ReadPoll, ReaderPlace, queue
    <3>2. rpage' => ri < wi /\ roffset <= ring[ri % Count].size
      <4>1. 0 <= ring[ri % Count].size
        BY <1>0 DEF current
      <4>2. rpage' => ri # wi
        BY <3>1 DEF EmptyQueue
      <4> QED
        BY <1>0, <3>1, <4>1, <4>2
    <3> QED
      BY <1>0, <3>1, <3>2 DEF ReaderPlace
  <2> QED
    BY <2>1, <2>2 DEF PlaceInv
<1>5. CASE ReadReturn
  <2>1. TypeOK' /\ WriterPlace' /\ PagesPlace'
    BY <1>0, <1>5, ReaderMoves DEF PlaceInv, ReaderStep, ReadReturn, queue, WriterPlace, PagesPlace, Marks
  <2>2. txn' \in Seq(Bytes)
    BY <1>0, <1>5, EmptySeq DEF ReadReturn
  <2>3. ReaderPlace'
    BY <1>0, <1>5, <2>2 DEF ReadReturn, ReaderPlace, queue
  <2> QED
    BY <2>1, <2>3 DEF PlaceInv
<1> QED
  BY <1>1, <1>2, <1>3, <1>4, <1>5 DEF ReaderStep

-----------------------------------------------------------------------------
(* What the invariant says of the numbers in the steps of wpipe. *)
LEMMA WriterFacts ==
  ASSUME PlaceInv
  PROVE  /\ wi \in Nat /\ ri \in Nat /\ ri <= wi /\ wi - ri <= Count - 1
         /\ Count \in Nat /\ Count >= 2 /\ PageSize \in Nat /\ PageSize > 0
         /\ \A k \in ri .. wi : k \in Nat /\ k % Count \in Slots /\ ring[k % Count] \in Pages
         /\ ring[wi % Count].bytes \in Seq(Bytes) /\ Len(ring[wi % Count].bytes) \in 0 .. PageSize
         /\ \A k \in ri .. wi - 1 : k % Count # wi % Count
         /\ todo # <<>> => /\ Head(todo) \in Seq(Bytes) /\ Len(Head(todo)) \in Nat
                           /\ Tail(todo) \in Seq(Seq(Bytes)) /\ Len(Tail(todo)) = Len(todo) - 1
                           /\ Len(todo) \in {1, 2}
                           /\ Tail(todo) = <<>> <=> Len(todo) = 1
         /\ offset \in 0 .. PageSize /\ Len(rest) \in Nat
<1>1. /\ wi \in Nat /\ ri \in Nat /\ wi - ri \in 0 .. Count - 1 /\ ring \in [Slots -> Pages]
      /\ \A s \in Slots : Len(ring[s].bytes) <= PageSize
      /\ offset \in 0 .. PageSize
  BY DEF PlaceInv, TypeOK
<1>2. Count \in Nat /\ Count >= 2 /\ PageSize \in Nat /\ PageSize > 0
  BY PipeAssumption
<1>3. ri <= wi /\ wi - ri <= Count - 1
  BY <1>1, <1>2
<1>4. \A k \in ri .. wi : k \in Nat /\ k % Count \in Slots /\ ring[k % Count] \in Pages
  BY <1>1, SlotRange
<1>5. ring[wi % Count].bytes \in Seq(Bytes) /\ Len(ring[wi % Count].bytes) \in 0 .. PageSize
  <2>1. wi % Count \in Slots /\ ring[wi % Count].bytes \in Seq(Bytes)
    BY <1>1, SlotRange DEF Pages
  <2> QED
    BY <1>1, <1>2, <2>1, LenProperties
<1>6. \A k \in ri .. wi - 1 : k % Count # wi % Count
  <2>1. \A k \in ri .. wi - 1 : k \in Nat /\ k < wi /\ wi - k < Count
    BY <1>1, <1>2, <1>3
  <2> QED
    BY <1>1, <2>1, SlotsDiffer
<1>7. ASSUME todo # <<>>
      PROVE  /\ Head(todo) \in Seq(Bytes) /\ Len(Head(todo)) \in Nat
             /\ Tail(todo) \in Seq(Seq(Bytes)) /\ Len(Tail(todo)) = Len(todo) - 1
             /\ Len(todo) \in {1, 2}
             /\ Tail(todo) = <<>> <=> Len(todo) = 1
  <2>1. todo \in Seq(Seq(Bytes)) /\ Len(todo) <= 2
    BY DEF PlaceInv, WriterPlace
  <2>2. Len(todo) \in Nat \ {0}
    BY <1>7, <2>1, EmptySeq
  <2>3. /\ Head(todo) \in Seq(Bytes) /\ Tail(todo) \in Seq(Seq(Bytes))
        /\ Len(Tail(todo)) = Len(todo) - 1
    BY <1>7, <2>1, HeadTailProperties
  <2>4. Len(Head(todo)) \in Nat
    BY <2>3, LenProperties
  <2>5. Tail(todo) = <<>> <=> Len(Tail(todo)) = 0
    BY <2>3, EmptySeq
  <2> QED
    BY <2>1, <2>2, <2>3, <2>4, <2>5
<1>8. Len(rest) \in Nat
  BY LenProperties DEF PlaceInv, WriterPlace
<1> QED
  BY <1>1, <1>2, <1>3, <1>4, <1>5, <1>6, <1>7, <1>8

(* The reader does not notice what the writer does to its own page.         *)
LEMMA ReaderStays ==
  ASSUME PlaceInv, UNCHANGED <<ri, reader>>, wi' \in {wi, wi + 1},
         \A k \in ri .. wi - 1 : ring'[k % Count].size = ring[k % Count].size
  PROVE  ReaderPlace'
<1>1. wi \in Nat /\ ri \in Nat /\ (ri < wi => ri \in ri .. wi - 1 /\ ri < wi')
  <2>1. wi \in Nat /\ ri \in Nat
    BY WriterFacts
  <2>2. wi' = wi \/ wi' = wi + 1
    OBVIOUS
  <2> QED
    BY <2>1, <2>2
<1>2. rpage /\ rpc # "poll" => ri < wi /\ ring'[ri % Count].size = ring[ri % Count].size
  BY <1>1 DEF PlaceInv, ReaderPlace
<1> QED
  BY <1>1, <1>2 DEF PlaceInv, ReaderPlace, reader

(* A statement's bytes, and its two writes. *)
LEMMA HStoreData ==
  ASSUME PlaceInv, NEW n \in Payloads, HStore(n)
  PROVE  /\ stmt' \in Seq(Bytes) /\ todo' \in Seq(Seq(Bytes)) /\ Len(todo') = 2
         /\ statements' \in 0 .. MaxStatements
         /\ \A i \in DOMAIN stmt' : stmt'[i] = <<statements', i>>
         /\ todo'[1] \in Seq(Bytes) /\ todo'[2] \in Seq(Bytes) /\ stmt' = todo'[1] \o todo'[2]
<1> DEFINE m == IdSize + n
           b == StatementBytes(statements + 1, n)
<1>1. /\ statements \in Nat /\ statements < MaxStatements /\ MaxStatements \in Nat
      /\ IdSize \in Nat /\ n \in Nat /\ m \in Nat
  BY PipeAssumption DEF HStore, PlaceInv, WriterPlace
<1>2. statements + 1 \in 1 .. MaxStatements
  BY <1>1
<1>3. b = [k \in 1 .. m |-> <<statements + 1, k>>]
  BY DEF StatementBytes
<1>4. \A k \in 1 .. m : <<statements + 1, k>> \in Bytes
  BY <1>1, <1>2 DEF Bytes
<1>5. b \in Seq(Bytes) /\ Len(b) = m /\ DOMAIN b = 1 .. m
  BY <1>1, <1>3, <1>4
<1>6. stmt' = b /\ statements' = statements + 1
      /\ todo' = <<SubSeq(b, 1, IdSize), SubSeq(b, IdSize + 1, m)>>
  BY DEF HStore
<1>7. \A i \in DOMAIN b : b[i] = <<statements + 1, i>>
  BY <1>3
<1> HIDE DEF b
<1>8. /\ SubSeq(b, 1, IdSize) \in Seq(Bytes) /\ SubSeq(b, IdSize + 1, m) \in Seq(Bytes)
      /\ SubSeq(b, 1, IdSize) \o SubSeq(b, IdSize + 1, m) = b
  <2>1. IdSize \in 0 .. Len(b)
    BY <1>1, <1>5
  <2> QED
    BY <1>5, <2>1, Cut
<1>9. todo' \in Seq(Seq(Bytes)) /\ Len(todo') = 2
  BY <1>6, <1>8
<1>10. todo'[1] = SubSeq(b, 1, IdSize) /\ todo'[2] = SubSeq(b, IdSize + 1, m)
  BY <1>6
<1>11. statements' \in 0 .. MaxStatements
  BY <1>1, <1>6
<1>12. \A i \in DOMAIN stmt' : stmt'[i] = <<statements', i>>
  BY <1>6, <1>7
<1>13. todo'[1] \in Seq(Bytes) /\ todo'[2] \in Seq(Bytes) /\ stmt' = todo'[1] \o todo'[2]
  BY <1>6, <1>8, <1>10
<1> QED
  BY <1>5, <1>6, <1>9, <1>11, <1>12, <1>13

(* Steps of the writer that touch no page.                                 *)
LEMMA QuietKeepsPlace ==
  ASSUME PlaceInv, UNCHANGED group,
         \/ \E n \in Payloads : HStore(n)
         \/ Commit \/ Rollback \/ Crash \/ WriteFails \/ StepNext \/ StepPoll \/ Acquire
  PROVE  PlaceInv'
<1>0. UNCHANGED <<reliable, auto, ring, wi, ri, reader>>
  BY DEF HStore, Commit, Rollback, End, Crash, WriteFails, StepNext, StepPoll, Acquire,
         queue, group
<1>1. ReaderPlace'
  BY <1>0, ReaderStays
<1>2. ASSUME NEW n \in Payloads, HStore(n)
      PROVE  TypeOK' /\ WriterPlace' /\ PagesPlace'
  <2>1. TypeOK'
    BY <1>0, <1>2 DEF HStore, PlaceInv, TypeOK, reader
  <2>2. /\ stmt' \in Seq(Bytes) /\ todo' \in Seq(Seq(Bytes)) /\ Len(todo') = 2
        /\ statements' \in 0 .. MaxStatements
    BY <1>2, HStoreData
  <2>3. WriterPlace'
    BY <1>0, <1>2, <2>2, SMTT(30) DEF HStore, PlaceInv, WriterPlace, Owns
  <2>4. PagesPlace'
    BY <1>0, <1>2 DEF HStore, PlaceInv, PagesPlace, Owns
  <2> QED
    BY <2>1, <2>3, <2>4
<1>3. CASE Commit \/ Rollback
  <2>1. TypeOK'
    BY <1>0, <1>3 DEF Commit, Rollback, End, PlaceInv, TypeOK, reader
  <2>2. WriterPlace'
    BY <1>0, <1>3 DEF Commit, Rollback, End, PlaceInv, WriterPlace, Owns
  <2>3. PagesPlace'
    BY <1>0, <1>3 DEF Commit, Rollback, End, PlaceInv, PagesPlace, Owns
  <2> QED
    BY <1>1, <2>1, <2>2, <2>3 DEF PlaceInv
<1>4. CASE Crash
  <2>0. /\ <<>> \in Seq(Bytes) /\ <<>> \in Seq(Seq(Bytes)) /\ Len(<<>>) = 0
        /\ 0 \in 0 .. PageSize
    BY EmptySeq, PipeAssumption
  <2>1. TypeOK'
    BY <1>0, <1>4, <2>0 DEF Crash, PlaceInv, TypeOK, reader
  <2>2. WriterPlace'
    BY <1>0, <1>4, <2>0 DEF Crash, PlaceInv, WriterPlace, Owns
  <2>3. PagesPlace'
    BY <1>0, <1>4 DEF Crash, PlaceInv, PagesPlace, Owns
  <2> QED
    BY <1>1, <2>1, <2>2, <2>3 DEF PlaceInv
<1>5. CASE WriteFails
  <2>0. /\ <<>> \in Seq(Bytes) /\ <<>> \in Seq(Seq(Bytes)) /\ Len(<<>>) = 0
    BY EmptySeq
  <2>1. TypeOK'
    BY <1>0, <1>5 DEF WriteFails, Return, PlaceInv, TypeOK, reader
  <2>2. WriterPlace'
    BY <1>0, <1>5, <2>0 DEF WriteFails, Return, PlaceInv, WriterPlace, Owns
  <2>3. PagesPlace'
    BY <1>0, <1>5 DEF WriteFails, Return, PlaceInv, PagesPlace, Owns
  <2> QED
    BY <1>1, <2>1, <2>2, <2>3 DEF PlaceInv
<1>6. CASE StepNext
  <2>0. wi - ri < Count - 1 /\ 0 \in 0 .. PageSize /\ 0 <= Len(ring[wi % Count].bytes)
    BY <1>6, WriterFacts DEF StepNext, FullQueue
  <2>1. TypeOK'
    BY <1>0, <1>6, <2>0 DEF StepNext, PlaceInv, TypeOK, reader
  <2>2. WriterPlace'
    BY <1>0, <1>6, <2>0 DEF StepNext, PlaceInv, WriterPlace, Owns
  <2>3. PagesPlace'
    BY <1>0, <1>6, <2>0 DEF StepNext, PlaceInv, PagesPlace, Owns
  <2> QED
    BY <1>1, <2>1, <2>2, <2>3 DEF PlaceInv
<1>7. CASE StepPoll
  <2>0. npage' \in BOOLEAN /\ (npage' => wi - ri < Count - 1)
    <3>1. wi \in Nat /\ ri \in Nat /\ Count \in Nat /\ wi - ri <= Count - 1
      BY WriterFacts
    <3>2. npage' = (wi - ri # Count - 1)
      BY <1>7 DEF StepPoll, FullQueue
    <3>3. npage' \in BOOLEAN /\ (npage' => wi - ri # Count - 1)
      BY <3>2
    <3>4. wi - ri # Count - 1 => wi - ri < Count - 1
      BY <3>1
    <3> QED
      BY <3>1, <3>3, <3>4
  <2>1. TypeOK'
    BY <1>0, <1>7, <2>0 DEF StepPoll, PlaceInv, TypeOK, reader
  <2>2. WriterPlace'
    BY <1>0, <1>7, <2>0 DEF StepPoll, PlaceInv, WriterPlace, Owns
  <2>3. PagesPlace'
    BY <1>0, <1>7 DEF StepPoll, PlaceInv, PagesPlace, Owns
  <2> QED
    BY <1>1, <2>1, <2>2, <2>3 DEF PlaceInv
<1>8. CASE Acquire
  <2>0. /\ page' \in BOOLEAN /\ (page' => wi - ri < Count - 1)
        /\ 0 \in 0 .. PageSize /\ 0 <= Len(ring[wi % Count].bytes)
    <3>1. /\ wi \in Nat /\ ri \in Nat /\ Count \in Nat /\ wi - ri <= Count - 1
          /\ PageSize \in Nat /\ Len(ring[wi % Count].bytes) \in 0 .. PageSize
      BY WriterFacts
    <3>2. page' = (wi - ri # Count - 1)
      BY <1>8 DEF Acquire, FullQueue
    <3>3. page' \in BOOLEAN /\ (page' => wi - ri # Count - 1)
      BY <3>2
    <3>4. wi - ri # Count - 1 => wi - ri < Count - 1
      BY <3>1
    <3> QED
      BY <3>1, <3>3, <3>4
  <2>1. TypeOK'
    BY <1>0, <1>8, <2>0 DEF Acquire, PlaceInv, TypeOK, reader
  <2>2. WriterPlace'
    BY <1>0, <1>8, <2>0 DEF Acquire, PlaceInv, TypeOK, WriterPlace, Owns
  <2>3. PagesPlace'
    BY <1>0, <1>8, <2>0 DEF Acquire, PlaceInv, TypeOK, PagesPlace, Owns
  <2> QED
    BY <1>1, <2>1, <2>2, <2>3 DEF PlaceInv
<1> QED
  BY <1>1, <1>2, <1>3, <1>4, <1>5, <1>6, <1>7, <1>8 DEF PlaceInv

(* The writer copies bytes to its page.                                     *)
LEMMA CopyKeepsPages ==
  ASSUME PlaceInv, Owns, NEW o \in Nat, NEW b \in Seq(Bytes), ring' = Copy(o, b),
         o <= Len(ring[wi % Count].bytes), o + Len(b) <= PageSize,
         UNCHANGED <<group, wi, ri, page, npage, reader>>,
         offset' \in 0 .. o + Len(b),
         wpc \notin {"stepPoll", "stepMark"}, wpc' \in {"idle", "write", "step"}
  PROVE  PagesPlace' /\ ReaderPlace'
<1>1. /\ \A k \in ri .. wi - 1 : ring'[k % Count] = ring[k % Count]
      /\ Len(ring'[wi % Count].bytes) = o + Len(b)
  <2>1. \A k \in ri .. wi - 1 : k % Count \in Slots /\ k % Count # wi % Count
    BY WriterFacts
  <2> QED
    BY <2>1, CopyEffect DEF PlaceInv
<1>2. ReaderPlace'
  BY <1>1, ReaderStays
<1>3. offset' <= o + Len(b)
  BY LenProperties
<1>4. (Owns => offset <= Len(ring[wi % Count].bytes))'
  <2>1. offset' <= Len(ring'[wi % Count].bytes)
    BY <1>1, <1>3
  <2> QED
    BY <2>1
<1>5. \A k \in ri .. wi - 1 :
        /\ ring'[k % Count].size <= Len(ring'[k % Count].bytes)
        /\ ring'[k % Count].mark # "tentative"
  <2>1. wpc # "dead"
    BY DEF Owns
  <2> QED
    BY <1>1, <2>1 DEF PlaceInv, PagesPlace
<1>6. PagesPlace'
  BY <1>4, <1>5 DEF PagesPlace
<1> QED
  BY <1>2, <1>6

(* wpipe::write() copies into its own page only, and within it. *)
LEMMA CopyKeepsPlace ==
  ASSUME PlaceInv, UNCHANGED group, WriteFits \/ WriteFills \/ SpreadPage \/ SpreadSuffix
  PROVE  PlaceInv'
<1>0. UNCHANGED <<reliable, auto, wi, ri, page, npage, goal, statements, reader>>
  BY DEF WriteFits, WriteFills, SpreadPage, SpreadSuffix, group
<1> DEFINE h == Head(todo)
<1>1. /\ wi \in Nat /\ ri \in Nat /\ wi - ri <= Count - 1 /\ Count \in Nat
      /\ PageSize \in Nat /\ PageSize > 0 /\ offset \in 0 .. PageSize
      /\ todo # <<>> /\ Owns /\ wi - ri < Count - 1
      /\ h \in Seq(Bytes) /\ Len(h) \in Nat /\ rest \in Seq(Bytes) /\ Len(rest) \in Nat
      /\ offset <= Len(ring[wi % Count].bytes) /\ 0 <= Len(ring[wi % Count].bytes)
      /\ wpc \in {"write", "spread"} /\ (wpc = "spread" => offset = 0)
  <2>1. todo # <<>> /\ Owns /\ wpc \in {"write", "spread"}
    BY DEF WriteFits, WriteFills, SpreadPage, SpreadSuffix, PlaceInv, WriterPlace, Owns
  <2>2. rest \in Seq(Bytes)
    BY DEF PlaceInv, WriterPlace
  <2>3. 0 <= Len(ring[wi % Count].bytes)
    BY WriterFacts
  <2> QED
    BY <2>1, <2>2, <2>3, WriterFacts DEF PlaceInv, WriterPlace, PagesPlace
<1>2. ASSUME WriteDone
      PROVE  /\ wpc' \in {"idle", "write"} /\ todo' \in Seq(Seq(Bytes)) /\ Len(todo') <= 2
             /\ rest' \in Seq(Bytes) /\ stmt' \in Seq(Bytes)
             /\ wpc' = "write" => todo' # <<>>
             /\ wpc' = "idle" => todo' = <<>>
  <2>1. /\ Tail(todo) \in Seq(Seq(Bytes)) /\ Len(Tail(todo)) = Len(todo) - 1
        /\ Len(todo) \in {1, 2} /\ (Tail(todo) = <<>> <=> Len(todo) = 1)
    BY <1>1, WriterFacts
  <2>2. <<>> \in Seq(Bytes) /\ stmt \in Seq(Bytes)
    BY EmptySeq DEF PlaceInv, WriterPlace
  <2>3. todo' = Tail(todo) /\ rest' = <<>>
    BY <1>2 DEF WriteDone
  <2>4. CASE Len(todo) = 1
    <3>1. wpc' = "idle" /\ stmt' = <<>>
      BY <1>2, <2>4 DEF WriteDone
    <3>2. Tail(todo) = <<>> /\ Len(Tail(todo)) = 0
      BY <2>1, <2>4
    <3> QED
      BY <2>1, <2>2, <2>3, <3>1, <3>2
  <2>5. CASE Len(todo) = 2
    <3>1. wpc' = "write" /\ stmt' = stmt
      BY <1>2, <2>5 DEF WriteDone
    <3>2. todo' # <<>>
      BY <2>1, <2>3, <2>5
    <3>3. todo' \in Seq(Seq(Bytes)) /\ Len(todo') <= 2
      BY <2>1, <2>3, <2>5
    <3>4. rest' \in Seq(Bytes) /\ stmt' \in Seq(Bytes)
      BY <2>2, <2>3, <3>1
    <3> QED
      BY <3>1, <3>2, <3>3, <3>4
  <2> QED
    BY <2>1, <2>4, <2>5
<1>3. ASSUME PagesPlace', ReaderPlace', ring' \in [Slots -> Pages],
             \A s \in Slots : Len(ring'[s].bytes) <= PageSize,
             offset' \in 0 .. PageSize, WriteDone
      PROVE  PlaceInv'
  <2>1. TypeOK'
    BY <1>0, <1>2, <1>3 DEF PlaceInv, TypeOK, reader
  <2>2. WriterPlace'
    BY <1>0, <1>1, <1>2, <1>3 DEF PlaceInv, WriterPlace, Owns
  <2> QED
    BY <1>3, <2>1, <2>2 DEF PlaceInv
<1>4. ASSUME PagesPlace', ReaderPlace', ring' \in [Slots -> Pages],
             \A s \in Slots : Len(ring'[s].bytes) <= PageSize,
             offset' \in 0 .. PageSize, wpc' = "step", rest' \in Seq(Bytes),
             UNCHANGED <<todo, stmt>>
      PROVE  PlaceInv'
  <2>1. TypeOK'
    BY <1>0, <1>4 DEF PlaceInv, TypeOK, reader
  <2>2. WriterPlace'
    BY <1>0, <1>1, <1>4 DEF PlaceInv, WriterPlace, Owns
  <2> QED
    BY <1>4, <2>1, <2>2 DEF PlaceInv
<1>5. ASSUME NEW o \in Nat, NEW b \in Seq(Bytes), ring' = Copy(o, b),
             o <= Len(ring[wi % Count].bytes), o + Len(b) <= PageSize,
             offset' \in 0 .. o + Len(b), wpc' \in {"idle", "write", "step"}
      PROVE  /\ PagesPlace' /\ ReaderPlace' /\ ring' \in [Slots -> Pages]
             /\ \A s \in Slots : Len(ring'[s].bytes) <= PageSize
  BY <1>0, <1>1, <1>5, CopyKeepsPages, CopyEffect DEF PlaceInv
<1>6. CASE WriteFits
  <2>1. /\ Len(h) < PageSize - offset /\ ring' = Copy(offset, h)
        /\ offset' = offset + Len(h) /\ WriteDone
    BY <1>6 DEF WriteFits
  <2>2. /\ offset \in Nat /\ offset + Len(h) <= PageSize /\ offset' \in 0 .. offset + Len(h)
        /\ offset' \in 0 .. PageSize
    BY <1>1, <2>1
  <2>3. /\ PagesPlace' /\ ReaderPlace' /\ ring' \in [Slots -> Pages]
        /\ \A s \in Slots : Len(ring'[s].bytes) <= PageSize
    BY <1>1, <1>2, <1>5, <2>1, <2>2
  <2> QED
    BY <1>3, <2>1, <2>2, <2>3
<1>7. CASE WriteFills
  <2> DEFINE n == PageSize - offset
             b == SubSeq(h, 1, n)
  <2>1. /\ Len(h) >= n /\ ring' = Copy(offset, b)
        /\ rest' = SubSeq(h, n + 1, Len(h))
        /\ offset' = PageSize /\ wpc' = "step" /\ UNCHANGED <<todo, stmt>>
    BY <1>7 DEF WriteFills
  <2>2. n \in 0 .. Len(h) /\ offset \in Nat /\ offset + n = PageSize
    BY <1>1, <2>1
  <2>3. b \in Seq(Bytes) /\ Len(b) = n /\ rest' \in Seq(Bytes)
    BY <1>1, <2>1, <2>2, Cut
  <2> HIDE DEF b, n
  <2>4. offset + Len(b) <= PageSize /\ offset' \in 0 .. offset + Len(b) /\ offset' \in 0 .. PageSize
    BY <1>1, <2>1, <2>2, <2>3
  <2>5. /\ PagesPlace' /\ ReaderPlace' /\ ring' \in [Slots -> Pages]
        /\ \A s \in Slots : Len(ring'[s].bytes) <= PageSize
    BY <1>1, <1>5, <2>1, <2>2, <2>3, <2>4
  <2> QED
    BY <1>4, <2>1, <2>3, <2>4, <2>5
<1>8. CASE SpreadPage
  <2> DEFINE b == SubSeq(rest, 1, PageSize)
  <2>1. /\ Len(rest) >= PageSize /\ ring' = Copy(0, b)
        /\ rest' = SubSeq(rest, PageSize + 1, Len(rest))
        /\ offset' = 0 /\ wpc' = "step" /\ UNCHANGED <<todo, stmt>>
    BY <1>1, <1>8 DEF SpreadPage
  <2>2. b \in Seq(Bytes) /\ Len(b) = PageSize /\ rest' \in Seq(Bytes)
    BY <1>1, <2>1, Cut
  <2> HIDE DEF b
  <2>3. 0 \in Nat /\ 0 + Len(b) <= PageSize /\ offset' \in 0 .. 0 + Len(b) /\ offset' \in 0 .. PageSize
    BY <1>1, <2>1, <2>2
  <2>4. /\ PagesPlace' /\ ReaderPlace' /\ ring' \in [Slots -> Pages]
        /\ \A s \in Slots : Len(ring'[s].bytes) <= PageSize
    BY <1>1, <1>5, <2>1, <2>2, <2>3
  <2> QED
    BY <1>4, <2>1, <2>2, <2>3, <2>4
<1>9. CASE SpreadSuffix
  <2>1. /\ Len(rest) < PageSize /\ ring' = Copy(0, rest)
        /\ offset' = Len(rest) /\ WriteDone
    BY <1>9 DEF SpreadSuffix
  <2>2. 0 \in Nat /\ 0 + Len(rest) <= PageSize /\ offset' \in 0 .. 0 + Len(rest)
        /\ offset' \in 0 .. PageSize
    BY <1>1, <2>1
  <2>3. /\ PagesPlace' /\ ReaderPlace' /\ ring' \in [Slots -> Pages]
        /\ \A s \in Slots : Len(ring'[s].bytes) <= PageSize
    BY <1>1, <1>2, <1>5, <2>1, <2>2
  <2> QED
    BY <1>3, <2>1, <2>2, <2>3
<1> QED
  BY <1>6, <1>7, <1>8, <1>9

(* The writer publishes its page: from then on the reader may see it. *)
LEMMA PushKeepsPlace ==
  ASSUME PlaceInv, UNCHANGED <<group, ri, reader, statements>>, Owns,
         NEW mark \in Marks, Publish(mark),
         mark = "tentative" => ~reliable /\ wpc' = "stepPoll",
         UNCHANGED <<page, offset, stmt, todo, rest, npage, goal>>,
         \/ wpc = "step" /\ wpc' \in {"stepNext", "stepPoll"}
         \/ wpc \in {"commit", "rollback"} /\ wpc' = "acquire",
         wpc' = "stepPoll" => mark = "tentative"
  PROVE  PlaceInv'
<1>1. /\ wi \in Nat /\ ri \in Nat /\ ri <= wi /\ Count \in Nat /\ wi - ri < Count - 1
      /\ wi' = wi + 1 /\ wi' \in Nat /\ ri < wi' /\ wi' - 1 = wi /\ wi' - ri \in 0 .. Count - 1
      /\ offset <= Len(ring[wi % Count].bytes)
  <2>1. /\ wi \in Nat /\ ri \in Nat /\ ri <= wi /\ Count \in Nat /\ wi - ri < Count - 1
        /\ wi' = wi + 1
    BY WriterFacts, PublishEffect DEF PlaceInv, WriterPlace
  <2>2. offset <= Len(ring[wi % Count].bytes)
    BY DEF PlaceInv, PagesPlace
  <2>3. wi' \in Nat /\ ri < wi' /\ wi' - 1 = wi /\ wi' - ri \in 0 .. Count - 1
    BY <2>1
  <2> QED
    BY <2>1, <2>2, <2>3
<1>2. /\ ring' \in [Slots -> Pages] /\ \A s \in Slots : Len(ring'[s].bytes) <= PageSize
      /\ \A k \in ri .. wi - 1 : ring'[k % Count] = ring[k % Count]
      /\ ring'[wi % Count].size = offset /\ ring'[wi % Count].mark = mark
      /\ ring'[wi % Count].bytes = ring[wi % Count].bytes
  <2>1. \A k \in ri .. wi - 1 : k % Count \in Slots /\ k % Count # wi % Count
    BY WriterFacts
  <2>2. TypeOK
    BY DEF PlaceInv
  <2> QED
    BY <2>1, <2>2, PublishEffect
<1>3. TypeOK'
  BY <1>1, <1>2 DEF PlaceInv, TypeOK, group, reader
<1>4. WriterPlace'
  <2>1. ~Owns'
    BY DEF Owns
  <2> QED
    BY <2>1 DEF PlaceInv, WriterPlace, Owns
<1>5. PagesPlace'
  <2>1. ~Owns'
    BY DEF Owns
  <2>2. (wpc \in {"stepPoll", "stepMark"} =>
         ~reliable /\ ri < wi /\ ring[(wi - 1) % Count].mark = "tentative")'
    <3>1. ASSUME wpc' \in {"stepPoll", "stepMark"}
          PROVE  ~reliable' /\ ri' < wi' /\ ring'[(wi' - 1) % Count].mark = "tentative"
      <4>1. mark = "tentative" /\ ~reliable /\ reliable' = reliable /\ ri' = ri
        BY <3>1 DEF group
      <4>2. (wi' - 1) % Count = wi % Count
        BY <1>1
      <4> QED
        BY <1>1, <1>2, <4>1, <4>2
    <3> QED
      BY <3>1
  <2>3. \A k \in ri .. wi - 1 : ring[k % Count].mark # "tentative"
    BY DEF PlaceInv, PagesPlace, Owns
  <2>4. \A k \in ri .. wi' - 1 :
          /\ ring'[k % Count].size <= Len(ring'[k % Count].bytes)
          /\ ring'[k % Count].mark = "tentative" => k = wi' - 1 /\ wpc' = "stepPoll"
    <3> SUFFICES ASSUME NEW k \in ri .. wi' - 1
                 PROVE  /\ ring'[k % Count].size <= Len(ring'[k % Count].bytes)
                        /\ ring'[k % Count].mark = "tentative" => k = wi' - 1 /\ wpc' = "stepPoll"
      OBVIOUS
    <3>1. CASE k = wi
      BY <1>1, <1>2, <3>1
    <3>2. CASE k \in ri .. wi - 1
      BY <1>2, <2>3, <3>2 DEF PlaceInv, PagesPlace
    <3> QED
      BY <1>1, <3>1, <3>2
  <2> QED
    BY <2>1, <2>2, <2>4 DEF PagesPlace
<1>6. ReaderPlace'
  BY <1>1, <1>2, ReaderStays
<1> QED
  BY <1>3, <1>4, <1>5, <1>6 DEF PlaceInv

(* The steps that publish, in their cases. *)
LEMMA PublishKeepsPlace ==
  ASSUME PlaceInv, UNCHANGED group, StepPush \/ CommitPush \/ RollbackPush
  PROVE  PlaceInv'
<1>1. CASE StepPush
  <2>1. Owns
    BY <1>1 DEF StepPush, PlaceInv, WriterPlace, Owns
  <2>2. CASE reliable
    BY <1>1, <2>1, <2>2, PushKeepsPlace DEF StepPush, Marks
  <2>3. CASE ~reliable
    BY <1>1, <2>1, <2>3, PushKeepsPlace DEF StepPush, Marks
  <2> QED
    BY <2>2, <2>3
<1>2. CASE (CommitPush \/ RollbackPush) /\ page
  <2>1. Owns /\ wpc \in {"commit", "rollback"}
    BY <1>2 DEF CommitPush, RollbackPush, Owns
  <2>2. CASE CommitPush
    BY <1>2, <2>1, <2>2, PushKeepsPlace DEF CommitPush, Marks
  <2>3. CASE RollbackPush
    BY <1>2, <2>1, <2>3, PushKeepsPlace DEF RollbackPush, Marks
  <2> QED
    BY <1>2, <2>2, <2>3
<1>3. CASE (CommitPush \/ RollbackPush) /\ ~page
  <2>1. UNCHANGED <<reliable, auto, ring, wi, ri, reader, page, offset, stmt, todo, rest, npage,
                    goal, statements>> /\ wpc \in {"commit", "rollback"} /\ wpc' = "acquire"
    BY <1>3 DEF CommitPush, RollbackPush, group
  <2>2. ReaderPlace'
    BY <2>1, ReaderStays
  <2>3. TypeOK'
    BY <2>1 DEF PlaceInv, TypeOK, reader
  <2>4. WriterPlace'
    BY <1>3, <2>1 DEF PlaceInv, WriterPlace, Owns
  <2>5. PagesPlace'
    BY <1>3, <2>1 DEF PlaceInv, PagesPlace, Owns
  <2> QED
    BY <2>2, <2>3, <2>4, <2>5 DEF PlaceInv
<1> QED
  BY <1>1, <1>2, <1>3

(* An unreliable pipe decides the page it published last. *)
LEMMA MarkKeepsPlace ==
  ASSUME PlaceInv, UNCHANGED group, StepMark
  PROVE  PlaceInv'
<1> DEFINE w == (wi - 1) % Count
           m == IF npage THEN "cont" ELSE "rollback"
<1>0. UNCHANGED <<reliable, auto, wi, ri, goal, statements, reader>> /\ wpc = "stepMark"
  BY DEF StepMark, group
<1>1. /\ wi \in Nat /\ ri \in Nat /\ ri < wi /\ wi - 1 \in ri .. wi - 1 /\ w \in Slots
      /\ ring \in [Slots -> Pages] /\ 0 \in 0 .. PageSize
      /\ \A s \in Slots : Len(ring[s].bytes) <= PageSize
  <2>1. wi \in Nat /\ ri \in Nat /\ PageSize \in Nat
    BY WriterFacts
  <2>2. /\ ring \in [Slots -> Pages] /\ ri < wi /\ wpc = "stepMark"
        /\ \A s \in Slots : Len(ring[s].bytes) <= PageSize
    BY DEF PlaceInv, TypeOK, PagesPlace, StepMark
  <2>3. wi - 1 \in Nat /\ wi - 1 \in ri .. wi - 1 /\ 0 \in 0 .. PageSize
    BY <2>1, <2>2
  <2> QED
    BY <2>1, <2>2, <2>3, SlotRange
<1> HIDE DEF w
<1>2. m \in Marks /\ m # "tentative" /\ ring' = [ring EXCEPT ![w].mark = m]
  BY DEF StepMark, Marks, w
<1> HIDE DEF m
<1>3. /\ ring' \in [Slots -> Pages]
      /\ \A s \in Slots : ring'[s].bytes = ring[s].bytes /\ ring'[s].size = ring[s].size
      /\ \A s \in Slots : s # w => ring'[s] = ring[s]
      /\ ring'[w].mark = m
  BY <1>1, <1>2 DEF Pages
<1>4. /\ stmt' \in Seq(Bytes) /\ rest' \in Seq(Bytes) /\ todo' \in Seq(Seq(Bytes)) /\ Len(todo') <= 2
      /\ page' = npage /\ npage' = FALSE /\ offset' = 0
      /\ npage => wpc' = "spread" /\ UNCHANGED <<stmt, todo, rest>>
      /\ ~npage => wpc' = "idle" /\ todo' = <<>>
  <2>1. /\ <<>> \in Seq(Bytes) /\ <<>> \in Seq(Seq(Bytes)) /\ Len(<<>>) <= 2
    BY EmptySeq
  <2>2. CASE npage
    BY <2>2 DEF StepMark, PlaceInv, WriterPlace
  <2>3. CASE ~npage
    BY <2>1, <2>3 DEF StepMark, Return
  <2> QED
    BY <2>2, <2>3
<1>5. npage \in BOOLEAN /\ (npage => wi - ri < Count - 1) /\ goal = "idle" /\ todo # <<>>
  BY <1>0 DEF PlaceInv, TypeOK, WriterPlace
<1>6. TypeOK'
  <2>1. wpc' \in {"idle", "spread"}
    BY <1>4, <1>5
  <2>2. \A s \in Slots : Len(ring'[s].bytes) <= PageSize
    BY <1>1, <1>3
  <2> QED
    BY <1>0, <1>1, <1>3, <1>4, <1>5, <2>1, <2>2 DEF PlaceInv, TypeOK, reader
<1>7. WriterPlace'
  <2>1. CASE npage
    BY <1>0, <1>4, <1>5, <2>1 DEF PlaceInv, WriterPlace, Owns
  <2>2. CASE ~npage
    BY <1>0, <1>4, <1>5, <2>2 DEF PlaceInv, WriterPlace, Owns
  <2> QED
    BY <1>5, <2>1, <2>2
<1>8. \A k \in ri .. wi - 1 :
        /\ ring'[k % Count].size <= Len(ring'[k % Count].bytes)
        /\ ring'[k % Count].mark # "tentative"
  <2> SUFFICES ASSUME NEW k \in ri .. wi - 1
               PROVE  /\ ring'[k % Count].size <= Len(ring'[k % Count].bytes)
                      /\ ring'[k % Count].mark # "tentative"
    OBVIOUS
  <2>1. k \in ri .. wi
    BY <1>1
  <2>2. k % Count \in Slots
    BY <2>1, WriterFacts
  <2>3. ring'[k % Count].size <= Len(ring'[k % Count].bytes)
    BY <1>3, <2>2 DEF PlaceInv, PagesPlace
  <2>4. CASE k % Count = w
    BY <1>2, <1>3, <2>3, <2>4
  <2>5. CASE k % Count # w
    <3>1. k # wi - 1
      BY <2>5 DEF w
    <3>2. ring[k % Count].mark # "tentative"
      BY <3>1 DEF PlaceInv, PagesPlace
    <3> QED
      BY <1>3, <2>2, <2>3, <2>5, <3>2
  <2> QED
    BY <2>4, <2>5
<1>9. PagesPlace'
  <2>1. 0 <= Len(ring[wi % Count].bytes) /\ wi % Count \in Slots /\ wi \in ri .. wi
    BY <1>1, WriterFacts
  <2>2. offset' <= Len(ring'[wi % Count].bytes)
    BY <1>3, <1>4, <2>1
  <2>3. wpc' \notin {"stepPoll", "stepMark"}
    BY <1>4, <1>5
  <2> QED
    BY <1>0, <1>8, <2>2, <2>3 DEF PagesPlace
<1>10. ReaderPlace'
  <2>1. \A k \in ri .. wi - 1 : k \in ri .. wi
    BY <1>1
  <2>2. \A k \in ri .. wi - 1 : k % Count \in Slots
    BY <2>1, WriterFacts
  <2>3. \A k \in ri .. wi - 1 : ring'[k % Count].size = ring[k % Count].size
    BY <1>3, <2>2
  <2> QED
    BY <1>0, <2>3, ReaderStays
<1> QED
  BY <1>6, <1>7, <1>9, <1>10 DEF PlaceInv

(* Every step of the two processes keeps the invariant. *)
LEMMA PlaceNext == PlaceInv /\ [Next]_vars => PlaceInv'
<1> SUFFICES ASSUME PlaceInv, [Next]_vars PROVE PlaceInv'
  OBVIOUS
<1>1. CASE Application
  BY <1>1, QuietKeepsPlace DEF Application
<1>2. CASE WriterStep
  BY <1>2, QuietKeepsPlace, CopyKeepsPlace, PublishKeepsPlace, MarkKeepsPlace DEF WriterStep
<1>3. CASE ReaderStep
  BY <1>3, ReaderKeepsPlace
<1>4. CASE UNCHANGED vars
  BY <1>4 DEF vars, PlaceInv, TypeOK, WriterPlace, PagesPlace, ReaderPlace, Owns
<1> QED
  BY <1>1, <1>2, <1>3, <1>4 DEF Next

(* Types, for any ring, page and statement sizes: wpipe never has more     *)
(* pages than the ring, no write goes past the end of a page, and rpipe    *)
(* never reads past the bytes that a page was published with.              *)
THEOREM PipeTypes == Spec => []TypeOK
<1>1. PlaceInv => TypeOK
  BY DEF PlaceInv
<1> QED
  BY <1>1, PlaceInit, PlaceNext, PTL DEF Spec, SafeSpec

(* When stepPage() marks the page it has pushed, that page is still in the *)
(* ring: rpipe cannot have passed it, because it waits for the mark.       *)
THEOREM MarkedInTime == Spec => []MarkedPageUnread
<1>1. PlaceInv => MarkedPageUnread
  BY DEF PlaceInv, PagesPlace, MarkedPageUnread
<1> QED
  BY <1>1, PlaceInit, PlaceNext, PTL DEF Spec, SafeSpec

(***************************************************************************)
(* TxnPipe implements TxnChannel                                           *)
(***************************************************************************)

(* Induction over data, each stated with the set of the values for which   *)
(* the property holds, which every prover can instantiate.                 *)

(* Mathematical induction: the lengths of the statements, transactions and *)
(* transcripts of the code are natural numbers.                            *)
LEMMA SetInduction ==
  ASSUME NEW T, 0 \in T, \A n \in T : n \in Nat => n + 1 \in T
  PROVE  Nat \subseteq T
<1> DEFINE B == Nat \ T
<1> SUFFICES ASSUME B # {} PROVE FALSE
  OBVIOUS
<1>1. PICK x \in B : \A y \in B : ~(<<y, x>> \in OpToRel(<, Nat))
  BY NatLessThanWellFounded, WFMin
<1>2. x \in Nat /\ x # 0 /\ x - 1 \in Nat /\ x - 1 < x
  OBVIOUS
<1>3. x - 1 \notin B
  BY <1>1, <1>2 DEF OpToRel
<1> QED
  BY <1>2, <1>3

(* Induction over a sequence that grows at its end, as the buffers and     *)
(* transactions of the code do.                                            *)
LEMMA SequenceInduction ==
  ASSUME NEW S, NEW T, <<>> \in T,
         \A s \in Seq(S), e \in S : s \in T => Append(s, e) \in T
  PROVE  Seq(S) \subseteq T
<1> DEFINE N == {n \in Nat : \A s \in Seq(S) : Len(s) = n => s \in T}
<1>1. 0 \in N
  <2>1. \A s \in Seq(S) : Len(s) = 0 => s = <<>>
    BY EmptySeq
  <2> QED
    BY <2>1
<1>2. ASSUME NEW n \in N
      PROVE  n + 1 \in N
  <2>1. ASSUME NEW s \in Seq(S), Len(s) = n + 1
        PROVE  s \in T
    <3>1. n \in Nat /\ s # <<>>
      BY <2>1, EmptySeq
    <3>2. PICK t \in Seq(S), e \in S : s = Append(t, e)
      BY <2>1, <3>1, SequenceEmptyOrAppend
    <3>3. Len(t) = n
      <4>1. Len(s) = Len(t) + 1 /\ Len(t) \in Nat
        BY <3>2, AppendProperties, LenProperties
      <4> QED
        BY <2>1, <3>1, <4>1
    <3>4. t \in T
      BY <3>3
    <3> QED
      BY <3>2, <3>4
  <2> QED
    BY <2>1
<1> HIDE DEF N
<1>3. Nat \subseteq N
  BY <1>1, <1>2, SetInduction
<1> QED
  BY <1>3, LenProperties DEF N

-----------------------------------------------------------------------------
(* What Partial leaves of a transaction.                                   *)

(* f gives what is left of the first n bytes of s, for n up to m. *)
IsLeft(f, s, W, m) ==
  /\ f = [n \in 0 .. m |-> f[n]]
  /\ f[0] = <<>>
  /\ \A n \in 1 .. m : f[n] = IF s[n] \in W THEN f[n - 1] ELSE Append(f[n - 1], s[n])

(* The recursion that drops the bytes of W from s has a solution up to any m. *)
LEMMA LeftExists ==
  ASSUME NEW s, NEW W
  PROVE  \A m \in Nat : \E f : IsLeft(f, s, W, m)
<1> DEFINE T == {m \in Nat : \E f : IsLeft(f, s, W, m)}
<1>1. 0 \in T
  <2> DEFINE f == [n \in 0 .. 0 |-> <<>>]
  <2>1. IsLeft(f, s, W, 0)
    BY DEF IsLeft
  <2> QED
    BY <2>1
<1>2. ASSUME NEW m \in T
      PROVE  m + 1 \in T
  <2>1. m \in Nat
    OBVIOUS
  <2>2. PICK f : IsLeft(f, s, W, m)
    OBVIOUS
  <2> DEFINE g == [n \in 0 .. m + 1 |->
                     IF n <= m THEN f[n]
                     ELSE IF s[n] \in W THEN f[n - 1] ELSE Append(f[n - 1], s[n])]
  <2>3. IsLeft(g, s, W, m + 1)
    <3>1. g[0] = <<>>
      BY <2>1, <2>2 DEF IsLeft
    <3>2. ASSUME NEW n \in 1 .. m + 1
          PROVE  g[n] = IF s[n] \in W THEN g[n - 1] ELSE Append(g[n - 1], s[n])
      <4>1. g[n - 1] = f[n - 1] /\ n \in 0 .. m + 1 /\ (n <= m => n \in 1 .. m)
        BY <2>1, <3>2
      <4>2. CASE n <= m
        BY <2>2, <4>1, <4>2 DEF IsLeft
      <4>3. CASE ~(n <= m)
        BY <2>1, <4>1, <4>3
      <4> QED
        BY <4>2, <4>3
    <3> QED
      BY <3>1, <3>2 DEF IsLeft
  <2> QED
    BY <2>1, <2>3
<1> HIDE DEF T
<1>3. Nat \subseteq T
  BY <1>1, <1>2, SetInduction
<1> QED
  BY <1>3 DEF T

(* Without computes that solution. *)
LEMMA WithoutIs ==
  ASSUME NEW s, Len(s) \in Nat, NEW W
  PROVE  \E f : IsLeft(f, s, W, Len(s)) /\ Without(s, W) = f[Len(s)]
<1> DEFINE F(f) == [n \in 0 .. Len(s) |->
                      IF n = 0 THEN <<>>
                      ELSE IF s[n] \in W THEN f[n - 1] ELSE Append(f[n - 1], s[n])]
           left == CHOOSE f : f = F(f)
<1>1. PICK f : IsLeft(f, s, W, Len(s))
  BY LeftExists
<1>2. f = F(f)
  <2>1. \A n \in 0 .. Len(s) : n # 0 => n \in 1 .. Len(s)
    OBVIOUS
  <2> QED
    BY <1>1, <2>1 DEF IsLeft
<1>3. left = F(left)
  BY <1>2
<1>4. Without(s, W) = left[Len(s)]
  BY DEF Without
<1> HIDE DEF left
<1>5. IsLeft(left, s, W, Len(s))
  <2>1. \A n \in 0 .. Len(s) :
          left[n] = IF n = 0 THEN <<>>
                    ELSE IF s[n] \in W THEN left[n - 1] ELSE Append(left[n - 1], s[n])
    BY <1>3
  <2>2. left = [n \in 0 .. Len(s) |-> left[n]]
    BY <1>3
  <2> QED
    BY <2>1, <2>2 DEF IsLeft
<1> QED
  BY <1>4, <1>5

(* Nothing is dropped of nothing. *)
LEMMA WithoutEmpty ==
  ASSUME NEW W
  PROVE  Without(<<>>, W) = <<>>
<1>1. Len(<<>>) = 0
  OBVIOUS
<1>2. PICK f : IsLeft(f, <<>>, W, 0) /\ Without(<<>>, W) = f[0]
  BY <1>1, WithoutIs
<1> QED
  BY <1>2 DEF IsLeft

(* One more byte is dropped or kept. *)
LEMMA WithoutAppend ==
  ASSUME NEW S, NEW s \in Seq(S), NEW e \in S, NEW W
  PROVE  Without(Append(s, e), W) =
           IF e \in W THEN Without(s, W) ELSE Append(Without(s, W), e)
<1> DEFINE t == Append(s, e)
           m == Len(s)
<1>1. m \in Nat /\ Len(t) = m + 1 /\ t[m + 1] = e /\ \A n \in 1 .. m : t[n] = s[n]
  BY AppendProperties, LenProperties
<1>2. PICK f : IsLeft(f, s, W, m) /\ Without(s, W) = f[m]
  BY <1>1, WithoutIs
<1>3. PICK g : IsLeft(g, t, W, m + 1) /\ Without(t, W) = g[m + 1]
  <2>1. Len(t) \in Nat
    BY <1>1
  <2>2. \E g : IsLeft(g, t, W, Len(t)) /\ Without(t, W) = g[Len(t)]
    BY <2>1, WithoutIs
  <2> QED
    BY <1>1, <2>2
<1> HIDE DEF t, m
<1>a. /\ g[0] = <<>>
      /\ \A n \in 1 .. m + 1 :
           g[n] = IF t[n] \in W THEN g[n - 1] ELSE Append(g[n - 1], t[n])
  BY <1>3 DEF IsLeft
<1>4. g[m] = f[m]
  <2> DEFINE T == {n \in Nat : n <= m => g[n] = f[n]}
  <2>1. 0 \in T
    BY <1>2, <1>3 DEF IsLeft
  <2>2. ASSUME NEW n \in T
        PROVE  n + 1 \in T
    <3>1. n \in Nat
      OBVIOUS
    <3>2. CASE n + 1 <= m
      <4>1. /\ n + 1 \in 1 .. m /\ n + 1 \in 1 .. m + 1 /\ n + 1 - 1 = n /\ n <= m
        BY <1>1, <3>1, <3>2
      <4>2. g[n] = f[n] /\ t[n + 1] = s[n + 1]
        BY <1>1, <4>1
      <4>3. f[n + 1] = IF s[n + 1] \in W THEN f[n] ELSE Append(f[n], s[n + 1])
        BY <1>2, <4>1 DEF IsLeft
      <4>4. g[n + 1] = IF t[n + 1] \in W THEN g[n] ELSE Append(g[n], t[n + 1])
        BY <1>a, <4>1
      <4> QED
        BY <3>1, <4>2, <4>3, <4>4
    <3> QED
      BY <3>1, <3>2
  <2> HIDE DEF T
  <2>3. Nat \subseteq T
    BY <2>1, <2>2, SetInduction
  <2> QED
    BY <1>1, <2>3 DEF T
<1>5. g[m + 1] = IF e \in W THEN g[m] ELSE Append(g[m], e)
  <2>1. m + 1 \in 1 .. m + 1 /\ m + 1 - 1 = m
    BY <1>1
  <2> QED
    BY <1>1, <1>a, <2>1
<1> QED
  BY <1>2, <1>3, <1>4, <1>5 DEF t

(* What is kept are the bytes that are not in W. *)
LEMMA WithoutType ==
  ASSUME NEW S, NEW s \in Seq(S), NEW W
  PROVE  Without(s, W) \in Seq(S) /\ Range(Without(s, W)) = Range(s) \ W
<1> DEFINE T == {t \in Seq(S) : Without(t, W) \in Seq(S) /\ Range(Without(t, W)) = Range(t) \ W}
<1>0. ASSUME NEW t \in Seq(S), NEW e \in S
      PROVE  Range(Append(t, e)) = Range(t) \cup {e}
  <2>1. /\ DOMAIN Append(t, e) = 1 .. Len(t) + 1 /\ DOMAIN t = 1 .. Len(t) /\ Len(t) \in Nat
        /\ Append(t, e)[Len(t) + 1] = e
        /\ \A i \in 1 .. Len(t) : Append(t, e)[i] = t[i]
    BY AppendProperties, LenProperties
  <2> QED
    BY <2>1 DEF Range
<1>1. <<>> \in T
  <2>1. <<>> \in Seq(S) /\ Range(<<>>) = {}
    BY EmptySeq DEF Range
  <2> QED
    BY <2>1, WithoutEmpty
<1>2. ASSUME NEW t \in Seq(S), NEW e \in S, t \in T
      PROVE  Append(t, e) \in T
  <2>1. Append(t, e) \in Seq(S) /\ Range(Append(t, e)) = Range(t) \cup {e}
    BY <1>0, AppendProperties
  <2>2. Without(Append(t, e), W) =
          IF e \in W THEN Without(t, W) ELSE Append(Without(t, W), e)
    BY WithoutAppend
  <2>3. Without(t, W) \in Seq(S) /\ Range(Without(t, W)) = Range(t) \ W
    BY <1>2
  <2>4. /\ Append(Without(t, W), e) \in Seq(S)
        /\ Range(Append(Without(t, W), e)) = Range(Without(t, W)) \cup {e}
    BY <1>0, <2>3, AppendProperties
  <2> QED
    BY <2>1, <2>2, <2>3, <2>4
<1> HIDE DEF T
<1>3. Seq(S) \subseteq T
  BY <1>1, <1>2, SequenceInduction
<1> QED
  BY <1>3 DEF T

(* Bytes are dropped from each part of a transaction alone. *)
LEMMA WithoutConcat ==
  ASSUME NEW S, NEW s \in Seq(S), NEW t \in Seq(S), NEW W
  PROVE  Without(s \o t, W) = Without(s, W) \o Without(t, W)
<1> DEFINE T == {u \in Seq(S) : Without(s \o u, W) = Without(s, W) \o Without(u, W)}
<1>1. <<>> \in T
  BY WithoutEmpty, WithoutType, ConcatEmptySeq, EmptySeq
<1>2. ASSUME NEW u \in Seq(S), NEW e \in S, u \in T
      PROVE  Append(u, e) \in T
  <2> DEFINE p == Without(s, W)
             q == Without(u, W)
  <2>1. /\ p \in Seq(S) /\ q \in Seq(S) /\ s \o u \in Seq(S)
        /\ <<e>> \in Seq(S) /\ Append(u, e) \in Seq(S)
    BY WithoutType, ConcatProperties, AppendProperties
  <2>2. s \o Append(u, e) = Append(s \o u, e)
    BY <2>1, AppendIsConcat, ConcatAssociative, SMTT(30)
  <2>3. Without(Append(s \o u, e), W) = IF e \in W THEN p \o q ELSE Append(p \o q, e)
    <3>1. Without(s \o u, W) = p \o q
      BY <1>2
    <3> HIDE DEF p, q
    <3> QED
      <4> DEFINE v == s \o u
      <4>1. v \in Seq(S) /\ Without(v, W) = p \o q
        BY <2>1, <3>1
      <4> HIDE DEF v
      <4>2. Without(Append(v, e), W) = IF e \in W THEN Without(v, W) ELSE Append(Without(v, W), e)
        BY <4>1, WithoutAppend, ZenonT(60)
      <4> QED
        BY <4>1, <4>2 DEF v
  <2>4. Append(p \o q, e) = p \o Append(q, e)
    <3> HIDE DEF p, q
    <3>1. p \o q \in Seq(S)
      BY <2>1, ConcatProperties
    <3>2. Append(p \o q, e) = (p \o q) \o <<e>> /\ Append(q, e) = q \o <<e>>
      BY <2>1, <3>1, AppendIsConcat
    <3> QED
      BY <2>1, <3>2, ConcatAssociative, SMTT(30)
  <2>5. Without(Append(u, e), W) = IF e \in W THEN q ELSE Append(q, e)
    BY WithoutAppend
  <2> QED
    BY <2>1, <2>2, <2>3, <2>4, <2>5
<1> HIDE DEF T
<1>3. Seq(S) \subseteq T
  BY <1>1, <1>2, SequenceInduction
<1> QED
  BY <1>3 DEF T

(* Bytes that do not occur make no difference. *)
LEMMA WithoutSame ==
  ASSUME NEW S, NEW s \in Seq(S), NEW V, NEW W, Range(s) \cap V = Range(s) \cap W
  PROVE  Without(s, V) = Without(s, W)
<1> DEFINE T == {u \in Seq(S) : Range(u) \cap V = Range(u) \cap W => Without(u, V) = Without(u, W)}
<1>1. <<>> \in T
  BY WithoutEmpty
<1>2. ASSUME NEW u \in Seq(S), NEW e \in S, u \in T
      PROVE  Append(u, e) \in T
  <2>1. Append(u, e) \in Seq(S) /\ Range(u) \cup {e} \subseteq Range(Append(u, e))
    <3>1. /\ DOMAIN Append(u, e) = 1 .. Len(u) + 1 /\ DOMAIN u = 1 .. Len(u) /\ Len(u) \in Nat
          /\ Append(u, e)[Len(u) + 1] = e
          /\ \A i \in 1 .. Len(u) : Append(u, e)[i] = u[i]
      BY AppendProperties, LenProperties
    <3> QED
      BY <3>1, AppendProperties DEF Range
  <2>2. /\ Without(Append(u, e), V) = IF e \in V THEN Without(u, V) ELSE Append(Without(u, V), e)
        /\ Without(Append(u, e), W) = IF e \in W THEN Without(u, W) ELSE Append(Without(u, W), e)
    BY WithoutAppend
  <2> QED
    BY <1>2, <2>1, <2>2
<1> HIDE DEF T
<1>3. Seq(S) \subseteq T
  BY <1>1, <1>2, SequenceInduction
<1> QED
  BY <1>3 DEF T

(* A transaction without such bytes is kept as it is. *)
LEMMA WithoutNone ==
  ASSUME NEW S, NEW s \in Seq(S), NEW W, Range(s) \cap W = {}
  PROVE  Without(s, W) = s
<1> DEFINE T == {u \in Seq(S) : Without(u, {}) = u}
<1>1. <<>> \in T
  BY WithoutEmpty
<1>2. ASSUME NEW u \in Seq(S), NEW e \in S, u \in T
      PROVE  Append(u, e) \in T
  BY <1>2, WithoutAppend, AppendProperties
<1> HIDE DEF T
<1>3. Seq(S) \subseteq T
  BY <1>1, <1>2, SequenceInduction
<1>4. Without(s, {}) = s
  BY <1>3 DEF T
<1> QED
  BY <1>4, WithoutSame

(* A transaction of nothing else becomes empty. *)
LEMMA WithoutAll ==
  ASSUME NEW S, NEW s \in Seq(S), NEW W, Range(s) \subseteq W
  PROVE  Without(s, W) = <<>>
<1>1. Without(s, W) \in Seq(S) /\ Range(Without(s, W)) = {}
  BY WithoutType
<1> DEFINE t == Without(s, W)
<1>2. ASSUME t # <<>> PROVE FALSE
  <2>1. 1 \in DOMAIN t
    BY <1>1, <1>2, LenProperties, EmptySeq
  <2> QED
    BY <1>1, <2>1 DEF Range
<1> QED
  BY <1>2

-----------------------------------------------------------------------------
(* Sequences of bytes.                                                     *)

(* A statement's bytes are all different, so its parts share none. *)
LEMMA PartsApart ==
  ASSUME NEW S, NEW s \in Seq(S), NEW t \in Seq(S), NEW n,
         \A i \in DOMAIN (s \o t) : (s \o t)[i] = <<n, i>>
  PROVE  Range(s) \cap Range(t) = {}
<1> SUFFICES ASSUME NEW x \in Range(s), x \in Range(t) PROVE FALSE
  OBVIOUS
<1>1. /\ DOMAIN s = 1 .. Len(s) /\ DOMAIN t = 1 .. Len(t) /\ Len(s) \in Nat /\ Len(t) \in Nat
      /\ DOMAIN (s \o t) = 1 .. Len(s) + Len(t)
      /\ \A i \in 1 .. Len(s) + Len(t) :
           (s \o t)[i] = IF i <= Len(s) THEN s[i] ELSE t[i - Len(s)]
  BY LenProperties, ConcatProperties
<1>2. PICK i \in 1 .. Len(s) : x = s[i]
  BY <1>1 DEF Range
<1>3. PICK j \in 1 .. Len(t) : x = t[j]
  BY <1>1 DEF Range
<1>4. i \in 1 .. Len(s) + Len(t) /\ (s \o t)[i] = x
  BY <1>1, <1>2
<1>5. j + Len(s) \in 1 .. Len(s) + Len(t) /\ (s \o t)[j + Len(s)] = x
  BY <1>1, <1>3
<1>6. <<n, i>> = <<n, j + Len(s)>>
  BY <1>1, <1>4, <1>5
<1>7. i = j + Len(s)
  BY <1>6
<1> QED
  BY <1>1, <1>2, <1>3, <1>7

(* A transaction that goes on begins with what it was. *)
LEMMA ConcatIsPrefix ==
  ASSUME NEW S, NEW s \in Seq(S), NEW t \in Seq(S)
  PROVE  IsPrefix(s, s \o t)
<1>1. /\ SubSeq(s \o t, 1, Len(s)) = s /\ SubSeq(s, 1, Len(s)) = s
      /\ Len(s \o t) = Len(s) + Len(t) /\ Len(s) \in Nat /\ Len(t) \in Nat
  BY CutConcat, SubSeqFull, ConcatProperties, LenProperties
<1> QED
  BY <1>1 DEF IsPrefix

(* No bytes are left of the current transaction in complete pages. *)
LEMMA WithoutNew ==
  ASSUME NEW S, NEW t \in Seq(S), NEW V, NEW W, Range(t) \cap W = {}
  PROVE  Without(t, V \cup W) = Without(t, V)
BY WithoutSame

(* What was left out is not there to be left out again. *)
LEMMA WithoutTwice ==
  ASSUME NEW S, NEW t \in Seq(S), NEW W
  PROVE  Without(Without(t, W), W) = Without(t, W)
<1>1. Without(t, W) \in Seq(S) /\ Range(Without(t, W)) \cap W = {}
  BY WithoutType
<1> QED
  BY <1>1, WithoutNone

-----------------------------------------------------------------------------
(* The invariant that relates the pipe to the channel.                     *)

Ends == {"commit", "rollback"}
Mark(k) == ring[k % Count].mark

(* What a published page holds. *)
Text(k) == SubSeq(ring[k % Count].bytes, 1, ring[k % Count].size)

(* What is left to write of the statement: the rest of the current write   *)
(* and the writes after it.                                                *)
Spreading == wpc \in {"step", "stepNext", "stepPoll", "stepMark", "spread"}
Flat(q) == IF Len(q) = 0 THEN <<>> ELSE IF Len(q) = 1 THEN q[1] ELSE q[1] \o q[2]
Left == rest \o Flat(IF Spreading THEN Tail(todo) ELSE todo)

HistoryTypes ==
  /\ open \in Seq(Bytes) /\ whole \subseteq Bytes
  /\ committed \in Seq(Seq(Bytes)) /\ delivered \in Seq(Seq(Bytes))

(* Bytes of earlier statements of the group. *)
Earlier(t) == \A b \in Range(t) : b[1] <= statements /\ b \notin Range(stmt)

(* The statement's bytes have its number, so they are different from each  *)
(* other and from those of every other statement.                          *)
StatementInv ==
  /\ ~Spreading => rest = <<>>
  /\ wpc \in {"idle", "rollback", "dead"} => stmt = <<>>
  /\ \A i \in DOMAIN stmt : stmt[i] = <<statements, i>>
  /\ whole \cap Range(Left) = {}
  /\ \A b \in whole : b[1] <= statements
  /\ Earlier(open)
  /\ \A k \in DOMAIN committed : Earlier(committed[k])

(* B[k] are the bytes of its transaction in the pages before page k, and   *)
(* X[k] is how many transactions are committed by those pages: each page   *)
(* goes on with its transaction or ends it, and the bytes of one that is   *)
(* committed are its transaction's.                                        *)
Link(B, X, k) ==
  /\ B[k + 1] = IF Mark(k) \in Ends THEN <<>> ELSE B[k] \o Text(k)
  /\ X[k + 1] = IF Mark(k) = "commit" THEN X[k] + 1 ELSE X[k]
  /\ Mark(k) = "commit" =>
       X[k] < Len(committed) /\ B[k] \o Text(k) = Partial(committed[X[k] + 1])

Chain(B, X) == \A k \in ri .. wi - 1 : Link(B, X, k)

(* What the reader has gathered. *)
AtReader(B, X) ==
  /\ X[ri] = IF flag = "commit" THEN Len(delivered) + 1 ELSE Len(delivered)
  /\ flag \in Ends => B[ri] = <<>>
  /\ flag = "commit" =>
       Len(delivered) < Len(committed) /\ txn = Partial(committed[Len(delivered) + 1])
  /\ flag \notin Ends => txn = B[ri] \o SubSeq(ring[ri % Count].bytes, 1, roffset)

(* What the writer has put into its own page; done is the part of the      *)
(* statement that is written.                                              *)
Pending ==
  IF wpc \in {"stepNext", "stepPoll", "stepMark"}
    THEN <<>> ELSE SubSeq(ring[wi % Count].bytes, 1, offset)

AtWriter(B, X, done) ==
  /\ X[wi] = Len(committed)
  /\ stmt = done \o Left
  /\ wpc \in {"commit", "acquire"} => done = <<>>
  /\ page /\ wpc # "acquire" => B[wi] \o Pending = Partial(open \o done)
  /\ wpc = "acquire" \/ ~page => open = <<>> /\ B[wi] = <<>>

(* What was delivered is what was committed first. *)
Deliv ==
  /\ Len(delivered) <= Len(committed)
  /\ \A k \in DOMAIN delivered : delivered[k] = Partial(committed[k])

PagesOf(B, X) ==
  /\ Chain(B, X)
  /\ AtReader(B, X)
  /\ wpc # "dead" => \E done \in Seq(Bytes) : AtWriter(B, X, done)

PipeInv ==
  /\ PlaceInv /\ HistoryTypes /\ StatementInv /\ Deliv
  /\ \E B \in [Nat -> Seq(Bytes)], X \in [Nat -> Nat] : PagesOf(B, X)

(* The invariant holds when the pipes are made: no page, no bytes. *)
LEMMA PipeInit == Init => PipeInv
<1> SUFFICES ASSUME Init PROVE PipeInv
  OBVIOUS
<1>1. /\ \A S : <<>> \in Seq(S) /\ Len(<<>>) = 0 /\ Range(<<>>) = {} /\ DOMAIN <<>> = {}
  BY EmptySeq DEF Range
<1>2. PlaceInv
  BY PlaceInit
<1>3. HistoryTypes
  BY <1>1 DEF Init, HistoryTypes
<1>4. Left = <<>>
  <2>1. <<>> \o <<>> = <<>>
    BY <1>1, ConcatEmptySeq
  <2> QED
    BY <1>1, <2>1 DEF Init, Left, Flat, Spreading
<1>5. StatementInv
  BY <1>1, <1>4 DEF Init, StatementInv, Earlier, Spreading
<1>6. Deliv
  BY <1>1 DEF Init, Deliv
<1>7. PICK B \in [Nat -> Seq(Bytes)] : B = [k \in Nat |-> <<>>]
  BY <1>1
<1>8. PICK X \in [Nat -> Nat] : X = [k \in Nat |-> 0]
  OBVIOUS
<1>9. Chain(B, X)
  BY DEF Init, Chain
<1>10. SubSeq(ring[0 % Count].bytes, 1, 0) = <<>> /\ <<>> \o <<>> = <<>>
  BY <1>1, SubSeqEmpty, ConcatEmptySeq
<1>11. B[ri] = <<>> /\ X[ri] = 0 /\ B[wi] = <<>> /\ X[wi] = 0
  BY <1>7, <1>8 DEF Init
<1>12. AtReader(B, X)
  BY <1>1, <1>10, <1>11 DEF Init, AtReader, Ends
<1>13. AtWriter(B, X, <<>>)
  <2>1. Partial(<<>> \o <<>>) = <<>>
    BY <1>10, WithoutEmpty DEF Partial
  <2>2. Pending = <<>>
    BY <1>10 DEF Init, Pending
  <2> QED
    BY <1>1, <1>4, <1>10, <1>11, <2>1, <2>2 DEF Init, AtWriter
<1>14. PagesOf(B, X)
  BY <1>1, <1>9, <1>12, <1>13 DEF PagesOf
<1> QED
  BY <1>2, <1>3, <1>5, <1>6, <1>14 DEF PipeInv

(* The reader does not notice what the writer does to its own page, nor    *)
(* the decision about a page that it has not reached the end of.           *)
BytesKept == \A k \in ri .. wi - 1 : ring'[k % Count].bytes = ring[k % Count].bytes
CommitsKept ==
  /\ Len(committed) <= Len(committed') /\ Len(committed') \in Nat
  /\ \A k \in 1 .. Len(committed) :
       Without(committed'[k], whole') = Without(committed[k], whole)

(* A page that is left alone goes on with its transaction as it did. *)
LEMMA LinksStay ==
  ASSUME HistoryTypes, CommitsKept,
         NEW B, NEW X, NEW C, NEW Y, NEW k \in ri .. wi - 1, Link(B, X, k),
         C[k] = B[k], C[k + 1] = B[k + 1], Y[k] = X[k], Y[k + 1] = X[k + 1], X[k] \in Nat,
         ring'[k % Count] = ring[k % Count]
  PROVE  Link(C, Y, k)'
<1>1. Len(committed) \in Nat
  BY LenProperties DEF HistoryTypes
<1>2. X[k] < Len(committed) =>
        /\ X[k] < Len(committed')
        /\ Without(committed'[X[k] + 1], whole') = Without(committed[X[k] + 1], whole)
  BY <1>1, SMTT(30) DEF CommitsKept
<1> QED
  BY <1>2 DEF Link, Mark, Text, Partial

(* What rpipe has read of its page is still what the page holds. *)
LEMMA BytesReadStay ==
  ASSUME PlaceInv, BytesKept
  PROVE  SubSeq(ring'[ri % Count].bytes, 1, roffset) = SubSeq(ring[ri % Count].bytes, 1, roffset)
<1>1. CASE ri < wi
  <2>1. ri \in ri .. wi - 1
    BY <1>1, WriterFacts
  <2> QED
    BY <2>1 DEF BytesKept
<1>2. CASE ~(ri < wi)
  <2>1. roffset = 0
    BY <1>2 DEF PlaceInv, ReaderPlace, TypeOK
  <2> QED
    BY <2>1, SubSeqEmpty
<1> QED
  BY <1>1, <1>2

(* The transaction to be delivered next stays the same. *)
LEMMA NextCommitStays ==
  ASSUME HistoryTypes, CommitsKept
  PROVE  Len(delivered) < Len(committed) =>
           /\ Len(delivered) < Len(committed')
           /\ Without(committed'[Len(delivered) + 1], whole')
                = Without(committed[Len(delivered) + 1], whole)
<1>1. Len(committed) \in Nat /\ Len(delivered) \in Nat
  BY LenProperties DEF HistoryTypes
<1> QED
  BY <1>1 DEF CommitsKept

(* What was delivered stays what was committed first. *)
LEMMA DeliveredStays ==
  ASSUME HistoryTypes, Deliv, CommitsKept, UNCHANGED delivered
  PROVE  Deliv'
<1>1. /\ Len(committed) \in Nat /\ Len(delivered) \in Nat
      /\ DOMAIN committed = 1 .. Len(committed) /\ DOMAIN delivered = 1 .. Len(delivered)
  BY LenProperties DEF HistoryTypes
<1>2. \A k \in DOMAIN delivered : k \in 1 .. Len(committed)
  BY <1>1 DEF Deliv
<1>3. Len(delivered) <= Len(committed')
  BY <1>1 DEF Deliv, CommitsKept
<1> QED
  BY <1>2, <1>3 DEF Deliv, Partial, CommitsKept

(* The reader's part of the invariant, up to a page that the writer is     *)
(* still at.                                                               *)
LEMMA ReaderSide ==
  ASSUME PlaceInv, HistoryTypes, Deliv, UNCHANGED <<ri, reader, delivered>>,
         BytesKept, CommitsKept,
         NEW B, NEW X, NEW C, NEW Y, Chain(B, X), AtReader(B, X),
         NEW n \in ri .. wi,
         \A k \in ri .. n - 1 : ring'[k % Count] = ring[k % Count],
         \A k \in ri .. n : C[k] = B[k] /\ Y[k] = X[k] /\ X[k] \in Nat
  PROVE  /\ \A k \in ri .. n - 1 : Link(C, Y, k)'
         /\ AtReader(C, Y)'
         /\ Deliv'
<1>1. wi \in Nat /\ ri \in Nat /\ ri <= wi /\ n \in Nat
  BY WriterFacts
<1>2. ASSUME NEW k \in ri .. n - 1
      PROVE  Link(C, Y, k)'
  <2>1. k \in ri .. wi - 1 /\ k \in ri .. n /\ k + 1 \in ri .. n
    BY <1>1
  <2>2. Link(B, X, k)
    BY <2>1 DEF Chain
  <2>3. C[k] = B[k] /\ C[k + 1] = B[k + 1] /\ Y[k] = X[k] /\ Y[k + 1] = X[k + 1] /\ X[k] \in Nat
    BY <2>1
  <2>4. ring'[k % Count] = ring[k % Count]
    OBVIOUS
  <2> QED
    BY <2>1, <2>2, <2>3, <2>4, LinksStay
<1>3. ri \in ri .. n
  BY <1>1
<1>4. C[ri] = B[ri] /\ Y[ri] = X[ri]
  BY <1>3
<1>5. AtReader(C, Y)'
  BY <1>4, BytesReadStay, NextCommitStays DEF AtReader, reader, Partial
<1>6. Deliv'
  BY DeliveredStays DEF reader
<1> QED
  BY <1>2, <1>5, <1>6

(* The bytes a page gives the reader go on where the last copy stopped. *)
LEMMA ReadOn ==
  ASSUME PlaceInv, NEW b \in Seq(Bytes), ri < wi, NEW c \in Nat,
         roffset + c <= ring[ri % Count].size
  PROVE  LET p == ring[ri % Count].bytes
         IN  (b \o SubSeq(p, 1, roffset)) \o SubSeq(p, roffset + 1, roffset + c)
               = b \o SubSeq(p, 1, roffset + c)
<1> DEFINE p == ring[ri % Count].bytes
<1>1. /\ ri \in ri .. wi - 1 /\ ri \in ri .. wi
      /\ roffset \in Nat
  <2>1. ri \in Nat /\ wi \in Nat
    BY WriterFacts
  <2>2. roffset \in Nat
    BY PipeAssumption DEF PlaceInv, TypeOK
  <2> QED
    BY <2>1, <2>2
<1>2. p \in Seq(Bytes) /\ ring[ri % Count].size <= Len(p) /\ ring[ri % Count].size \in Nat
  <2>1. ring[ri % Count] \in Pages /\ PageSize \in Nat
    BY <1>1, WriterFacts
  <2>2. ring[ri % Count].size <= Len(p)
    BY <1>1 DEF PlaceInv, PagesPlace
  <2> QED
    BY <2>1, <2>2 DEF Pages
<1>3. Len(p) \in Nat /\ \A i \in 1 .. Len(p) : p[i] \in Bytes
  BY <1>2, LenProperties, ElementOfSeq
<1> HIDE DEF p
<1>4. /\ 1 \in 1 .. Len(p) + 1 /\ roffset \in 1 - 1 .. Len(p) /\ roffset + c \in roffset .. Len(p)
      /\ roffset + 1 \in Int /\ roffset + c \in Int
  BY <1>1, <1>2, <1>3
<1>5. SubSeq(p, 1, roffset) \o SubSeq(p, roffset + 1, roffset + c) = SubSeq(p, 1, roffset + c)
  BY <1>2, <1>4, ConcatAdjacentSubSeq
<1>6. SubSeq(p, 1, roffset) \in Seq(Bytes)
  <2>1. roffset \in 0 .. Len(p)
    BY <1>4
  <2> QED
    BY <1>2, <2>1, Cut
<1>7. SubSeq(p, roffset + 1, roffset + c) \in Seq(Bytes)
  <2>1. \A i \in roffset + 1 .. roffset + c : p[i] \in Bytes
    BY <1>1, <1>3, <1>4
  <2> QED
    BY <1>4, <2>1, SubSeqProperties
<1>8. (b \o SubSeq(p, 1, roffset)) \o SubSeq(p, roffset + 1, roffset + c)
        = b \o (SubSeq(p, 1, roffset) \o SubSeq(p, roffset + 1, roffset + c))
  <2> DEFINE s == SubSeq(p, 1, roffset)
             t == SubSeq(p, roffset + 1, roffset + c)
  <2>1. s \in Seq(Bytes) /\ t \in Seq(Bytes)
    BY <1>6, <1>7
  <2> HIDE DEF s, t
  <2>2. (b \o s) \o t = b \o (s \o t)
    BY <2>1, ConcatAssociative, SMTT(30)
  <2> QED
    BY <2>2 DEF s, t
<1> QED
  BY <1>5, <1>8 DEF p

(* What the reader's steps leave as it was. *)
LEMMA WriterSide ==
  ASSUME PipeInv, UNCHANGED <<group, ring, wi, writer, open, committed, whole>>,
         ri' \in ri .. wi, NEW B \in [Nat -> Seq(Bytes)], NEW X \in [Nat -> Nat], PagesOf(B, X)
  PROVE  /\ StatementInv' /\ Chain(B, X)'
         /\ (wpc # "dead" => \E done \in Seq(Bytes) : AtWriter(B, X, done))'
<1>1. Left' = Left /\ Pending' = Pending /\ Spreading' = Spreading
  BY DEF Left, Flat, Pending, writer, Spreading
<1>2. StatementInv'
  BY <1>1 DEF PipeInv, StatementInv, Earlier, writer
<1>3. Chain(B, X)'
  <2>1. ri \in Nat /\ wi \in Nat
    BY WriterFacts DEF PipeInv
  <2>2. ri' .. wi' - 1 \subseteq ri .. wi - 1
    BY <2>1
  <2>3. \A k \in ri .. wi - 1 : Link(B, X, k) => Link(B, X, k)'
    BY DEF Link, Mark, Text, Partial
  <2> QED
    BY <2>2, <2>3 DEF PagesOf, Chain
<1>4. ASSUME wpc' # "dead"
      PROVE  \E done \in Seq(Bytes) : AtWriter(B, X, done)'
  <2>1. PICK done \in Seq(Bytes) : AtWriter(B, X, done)
    BY <1>4 DEF PagesOf, writer
  <2>2. AtWriter(B, X, done)'
    BY <1>1, <2>1 DEF AtWriter, writer, Partial
  <2> QED
    BY <2>2
<1> QED
  BY <1>2, <1>3, <1>4

(* One copy takes what is wanted or what is left. *)
LEMMA Smaller ==
  ASSUME NEW r \in Nat, NEW s \in Nat, r <= s, NEW w \in Nat
  PROVE  LET c == IF w < s - r THEN w ELSE s - r
         IN  c \in Nat /\ r + c <= s
OBVIOUS

(* Every step of rpipe and runReadProcessWithTimeout keeps the invariant. *)
LEMMA ReaderKeepsPipe ==
  ASSUME PipeInv, ReaderStep
  PROVE  PipeInv'
<1>0. PlaceInv' /\ UNCHANGED <<group, ring, wi, writer, open, committed, whole>>
  BY ReaderKeepsPlace DEF PipeInv, ReaderStep, ReadNext, ReadCopy, ReadEnd, ReadPoll, ReadReturn,
     queue, history
<1>1. PICK B \in [Nat -> Seq(Bytes)], X \in [Nat -> Nat] : PagesOf(B, X)
  BY DEF PipeInv
<1>2. /\ ri \in Nat /\ wi \in Nat /\ ri <= wi /\ roffset \in Nat /\ want \in Nat
      /\ B[ri] \in Seq(Bytes) /\ X[ri] \in Nat
      /\ PlaceInv /\ AtReader(B, X) /\ Deliv /\ HistoryTypes
      /\ Len(delivered) \in Nat /\ Len(committed) \in Nat
      /\ Partial(<<>>) = <<>>
  <2>1. ri \in Nat /\ wi \in Nat /\ ri <= wi
    BY WriterFacts DEF PipeInv
  <2>2. roffset \in Nat /\ want \in Nat
    BY PipeAssumption DEF PipeInv, PlaceInv, TypeOK
  <2>3. PlaceInv /\ AtReader(B, X) /\ Deliv /\ HistoryTypes
    BY <1>1 DEF PipeInv, PagesOf
  <2>4. Len(delivered) \in Nat /\ Len(committed) \in Nat
    BY <2>3, LenProperties DEF HistoryTypes
  <2>5. Partial(<<>>) = <<>>
    BY WithoutEmpty DEF Partial
  <2> QED
    BY <2>1, <2>2, <2>3, <2>4, <2>5
<1>3. ASSUME ri' \in ri .. wi, HistoryTypes', Deliv', AtReader(B, X)'
      PROVE  PipeInv'
  <2>1. /\ StatementInv' /\ Chain(B, X)'
        /\ (wpc # "dead" => \E done \in Seq(Bytes) : AtWriter(B, X, done))'
    BY <1>0, <1>1, <1>3, WriterSide
  <2>2. PagesOf(B, X)'
    BY <1>3, <2>1 DEF PagesOf
  <2> QED
    BY <1>0, <1>3, <2>1, <2>2 DEF PipeInv
<1>4. ASSUME UNCHANGED delivered
      PROVE  HistoryTypes' /\ Deliv'
  BY <1>0, <1>2, <1>4 DEF HistoryTypes, Deliv, Partial
<1>5. CASE ReadNext \/ ReadPoll
  <2>1. UNCHANGED <<delivered, ri, flag, txn, roffset>>
    BY <1>5 DEF ReadNext, ReadPoll, queue, history
  <2>2. AtReader(B, X)'
    BY <1>0, <1>2, <2>1 DEF AtReader, Partial
  <2> QED
    BY <1>2, <1>3, <1>4, <2>1, <2>2
<1>6. CASE ReadCopy
  <2> DEFINE avail == current.size - roffset
             csz == IF want < avail THEN want ELSE avail
  <2>1. UNCHANGED <<delivered, ri, flag>>
    BY <1>6 DEF ReadCopy, queue, history
  <2>2. /\ ri < wi /\ flag \in {"tentative", "cont"} /\ csz \in Nat /\ roffset + csz <= current.size
        /\ txn' = txn \o SubSeq(current.bytes, roffset + 1, roffset + csz)
        /\ roffset' = roffset + csz
    <3>1. ri < wi /\ flag \in {"tentative", "cont"} /\ roffset <= current.size
      BY <1>2, <1>6 DEF ReadCopy, PlaceInv, ReaderPlace, current
    <3>2. current.size \in Nat
      <4>1. ri \in ri .. wi
        BY <1>2
      <4>2. current \in Pages /\ PageSize \in Nat
        BY <1>2, <4>1, WriterFacts DEF current
      <4> QED
        BY <4>2 DEF Pages
    <3>3. csz \in Nat /\ roffset + csz <= current.size
      <4>1. roffset \in Nat /\ want \in Nat
        BY <1>2
      <4> QED
        BY <3>1, <3>2, <4>1, Smaller
    <3>4. /\ txn' = txn \o SubSeq(current.bytes, roffset + 1, roffset + csz)
          /\ roffset' = roffset + csz
      BY <1>6 DEF ReadCopy
    <3> QED
      BY <3>1, <3>3, <3>4
  <2> HIDE DEF csz
  <2>3. txn' = B[ri] \o SubSeq(current.bytes, 1, roffset')
    <3>1. txn = B[ri] \o SubSeq(current.bytes, 1, roffset)
      BY <1>2, <2>2 DEF AtReader, Ends, current
    <3> QED
      BY <1>2, <2>2, <3>1, ReadOn DEF current
  <2>4. AtReader(B, X)'
    BY <1>0, <1>2, <2>1, <2>2, <2>3 DEF AtReader, Ends, Partial, current
  <2> QED
    BY <1>2, <1>3, <1>4, <2>1, <2>4
<1>7. CASE ReadEnd
  <2>1. /\ UNCHANGED <<delivered, txn>> /\ ri' = ri + 1 /\ roffset' = 0
        /\ flag' = Mark(ri) /\ Mark(ri) # "tentative"
        /\ ri < wi /\ flag \in {"tentative", "cont"} /\ roffset = ring[ri % Count].size
    BY <1>2, <1>7 DEF ReadEnd, history, current, Mark, PlaceInv, ReaderPlace
  <2>2. ri \in ri .. wi - 1 /\ ri' \in ri .. wi /\ ri' \in Nat
    <3>1. ri \in ri .. wi - 1 /\ ri + 1 \in ri .. wi /\ ri + 1 \in Nat
      <4>1. ri \in Nat /\ wi \in Nat /\ ri < wi
        BY <1>2, <2>1
      <4> QED
        BY <4>1
    <3> QED
      BY <2>1, <3>1
  <2>3. Link(B, X, ri)
    BY <1>1, <2>2 DEF PagesOf, Chain
  <2>4. X[ri] = Len(delivered) /\ txn = B[ri] \o Text(ri)
    BY <1>2, <2>1 DEF AtReader, Ends, Text
  <2>5. /\ B[ri'] = IF Mark(ri) \in Ends THEN <<>> ELSE txn
        /\ X[ri'] = IF Mark(ri) = "commit" THEN Len(delivered) + 1 ELSE Len(delivered)
        /\ Mark(ri) = "commit" =>
             Len(delivered) < Len(committed) /\ txn = Partial(committed[Len(delivered) + 1])
    BY <2>1, <2>3, <2>4 DEF Link
  <2>6. B[ri'] \o SubSeq(ring'[ri' % Count].bytes, 1, 0) = B[ri']
    BY <2>2, SubSeqEmpty, ConcatEmptySeq
  <2>7. AtReader(B, X)'
    <3>1. Partial(committed[Len(delivered) + 1])' = Partial(committed[Len(delivered) + 1])
      BY <1>0, <2>1 DEF Partial
    <3> QED
      BY <1>0, <2>1, <2>5, <2>6, <3>1 DEF AtReader
  <2> QED
    BY <1>3, <1>4, <2>1, <2>2, <2>7
<1>8. CASE ReadReturn
  <2>1. UNCHANGED <<ri, roffset>> /\ flag' = "tentative"
    BY <1>8 DEF ReadReturn, queue
  <2>2. CASE flag \in {"cont", "tentative"}
    <3>1. UNCHANGED <<delivered, txn>>
      BY <1>8, <2>2 DEF ReadReturn
    <3>2. AtReader(B, X)'
      BY <1>0, <1>2, <2>1, <2>2, <3>1 DEF AtReader, Ends
    <3> QED
      BY <1>2, <1>3, <1>4, <2>1, <3>1, <3>2
  <2>3. CASE flag \in Ends
    <3>1. txn' = <<>> /\ B[ri] = <<>> /\ roffset = 0
      BY <1>2, <1>8, <2>3 DEF ReadReturn, AtReader, PlaceInv, ReaderPlace, Ends
    <3>2. txn' = B[ri] \o SubSeq(ring'[ri % Count].bytes, 1, 0)
      BY <1>2, <3>1, SubSeqEmpty, ConcatEmptySeq
    <3>3. CASE flag = "rollback"
      <4>1. UNCHANGED delivered
        BY <1>8, <3>3 DEF ReadReturn
      <4>2. AtReader(B, X)'
        BY <1>0, <1>2, <2>1, <3>1, <3>2, <3>3, <4>1 DEF AtReader, Ends
      <4> QED
        BY <1>2, <1>3, <1>4, <2>1, <4>1, <4>2
    <3>4. CASE flag = "commit"
      <4>1. /\ delivered' = Append(delivered, txn) /\ X[ri] = Len(delivered) + 1
            /\ Len(delivered) < Len(committed) /\ txn = Partial(committed[Len(delivered) + 1])
        BY <1>2, <1>8, <3>4 DEF ReadReturn, AtReader
      <4>2. /\ txn \in Seq(Bytes) /\ delivered \in Seq(Seq(Bytes))
        BY <1>2 DEF HistoryTypes, PlaceInv, ReaderPlace
      <4>3. /\ delivered' \in Seq(Seq(Bytes)) /\ Len(delivered') = Len(delivered) + 1
            /\ DOMAIN delivered' = 1 .. Len(delivered) + 1
            /\ DOMAIN delivered = 1 .. Len(delivered)
            /\ delivered'[Len(delivered) + 1] = txn
            /\ \A k \in 1 .. Len(delivered) : delivered'[k] = delivered[k]
        <5>1. /\ Append(delivered, txn) \in Seq(Seq(Bytes))
              /\ Len(Append(delivered, txn)) = Len(delivered) + 1
              /\ Append(delivered, txn)[Len(delivered) + 1] = txn
              /\ \A k \in 1 .. Len(delivered) : Append(delivered, txn)[k] = delivered[k]
          BY <4>2, AppendProperties
        <5>2. DOMAIN Append(delivered, txn) = 1 .. Len(Append(delivered, txn))
              /\ DOMAIN delivered = 1 .. Len(delivered)
          BY <4>2, <5>1, LenProperties
        <5> QED
          BY <4>1, <5>1, <5>2
      <4>4. HistoryTypes'
        BY <1>0, <1>2, <4>3 DEF HistoryTypes
      <4>5. Deliv'
        <5>1. Len(delivered') <= Len(committed)
          BY <1>2, <4>1, <4>3
        <5>2. ASSUME NEW k \in DOMAIN delivered'
              PROVE  delivered'[k] = Partial(committed[k])
          <6>1. k \in DOMAIN delivered \/ k = Len(delivered) + 1
            BY <1>2, <4>3, SMTT(30)
          <6>2. CASE k \in DOMAIN delivered
            BY <1>2, <4>3, <6>2 DEF Deliv
          <6>3. CASE k = Len(delivered) + 1
            BY <4>1, <4>3, <6>3
          <6> QED
            BY <6>1, <6>2, <6>3
        <5> QED
          BY <1>0, <5>1, <5>2 DEF Deliv, Partial
      <4>6. AtReader(B, X)'
        BY <1>0, <2>1, <3>1, <3>2, <4>1, <4>3 DEF AtReader, Ends
      <4> QED
        BY <1>2, <1>3, <2>1, <4>4, <4>5, <4>6
    <3> QED
      BY <2>3, <3>3, <3>4 DEF Ends
  <2> QED
    BY <1>2, <2>2, <2>3 DEF PlaceInv, TypeOK, Marks, Ends
<1> QED
  BY <1>5, <1>6, <1>7, <1>8 DEF ReaderStep

-----------------------------------------------------------------------------
(* A statement has at most two writes left. *)
LEMMA TwoWrites ==
  ASSUME NEW T, NEW q \in Seq(T)
  PROVE  /\ Len(q) = 1 => q[1] \in T /\ Head(q) = q[1] /\ Len(Tail(q)) = 0
         /\ Len(q) = 2 => /\ q[1] \in T /\ q[2] \in T /\ Head(q) = q[1]
                          /\ Len(Tail(q)) = 1 /\ Tail(q)[1] = q[2]
<1>1. Head(q) = q[1]
  BY DEF Head
<1>2. \A i \in 1 .. Len(q) : q[i] \in T
  BY ElementOfSeq
<1>3. ASSUME Len(q) \in {1, 2}
      PROVE  Len(Tail(q)) = Len(q) - 1 /\ \A i \in 1 .. Len(Tail(q)) : Tail(q)[i] = q[i + 1]
  <2>1. q # <<>>
    <3>1. Len(<<>>) = 0
      OBVIOUS
    <3> QED
      BY <1>3, <3>1
  <2> QED
    BY <2>1, HeadTailProperties
<1>4. ASSUME Len(q) = 2 PROVE Tail(q)[1] = q[2]
  <2>1. Len(Tail(q)) = 1
    BY <1>3, <1>4
  <2>2. 1 \in 1 .. Len(Tail(q)) /\ 1 + 1 = 2
    BY <2>1
  <2>3. \A i \in 1 .. Len(Tail(q)) : Tail(q)[i] = q[i + 1]
    BY <1>3, <1>4
  <2>4. Tail(q)[1] = q[1 + 1]
    BY <2>2, <2>3, Zenon
  <2> QED
    BY <2>2, <2>4, Zenon
<1> QED
  BY <1>1, <1>2, <1>3, <1>4

(* The writes left of a statement, one after the other. *)
LEMMA FlatIs ==
  ASSUME NEW S, NEW q \in Seq(Seq(S)), Len(q) <= 2
  PROVE  /\ Flat(q) \in Seq(S)
         /\ Len(q) = 0 => Flat(q) = <<>>
         /\ Len(q) = 2 => Flat(q) = q[1] \o q[2]
         /\ q # <<>> => Flat(q) = Head(q) \o Flat(Tail(q)) /\ Flat(Tail(q)) \in Seq(S)
<1>1. Len(q) \in Nat /\ <<>> \in Seq(S) /\ Len(<<>>) = 0
  BY LenProperties, EmptySeq
<1>2. CASE Len(q) = 0
  <2>1. q = <<>> /\ Flat(q) = <<>>
    BY <1>2, EmptySeq DEF Flat
  <2>2. 0 # 2
    OBVIOUS
  <2> QED
    BY <1>1, <1>2, <2>1, <2>2, Zenon
<1>3. CASE Len(q) = 1
  <2>1. q[1] \in Seq(S) /\ Head(q) = q[1] /\ Len(Tail(q)) = 0
    BY <1>3, TwoWrites
  <2>2. Flat(q) = q[1] /\ Flat(Tail(q)) = <<>>
    BY <1>3, <2>1 DEF Flat
  <2>3. q[1] \o <<>> = q[1]
    BY <2>1, ConcatEmptySeq
  <2>4. Flat(q) = Head(q) \o Flat(Tail(q))
    BY <2>1, <2>2, <2>3
  <2> QED
    BY <1>1, <1>3, <2>1, <2>2, <2>4
<1>4. CASE Len(q) = 2
  <2>1. /\ q[1] \in Seq(S) /\ q[2] \in Seq(S) /\ Head(q) = q[1]
        /\ Len(Tail(q)) = 1 /\ Tail(q)[1] = q[2]
    BY <1>4, TwoWrites
  <2>2. Flat(q) = q[1] \o q[2]
    BY <1>4 DEF Flat
  <2>3. Flat(Tail(q)) = q[2]
    BY <2>1 DEF Flat
  <2>4. q[1] \o q[2] \in Seq(S)
    BY <2>1, ConcatProperties
  <2>5. Flat(q) = Head(q) \o Flat(Tail(q))
    BY <2>1, <2>2, <2>3
  <2> QED
    BY <1>4, <2>1, <2>2, <2>3, <2>4, <2>5
<1>5. Len(q) = 0 \/ Len(q) = 1 \/ Len(q) = 2
  <2> DEFINE n == Len(q)
  <2>1. n \in Nat /\ n <= 2
    BY <1>1
  <2> HIDE DEF n
  <2>2. n = 0 \/ n = 1 \/ n = 2
    BY <2>1
  <2> QED
    BY <2>2 DEF n
<1> QED
  BY <1>2, <1>3, <1>4, <1>5

(* The types of what the steps of wpipe put together. *)
LEMMA PipeTypesHold ==
  ASSUME PipeInv
  PROVE  /\ Left \in Seq(Bytes)
         /\ page /\ wpc \notin {"acquire", "dead"} => Pending \in Seq(Bytes)
         /\ Flat(todo) \in Seq(Bytes)
         /\ todo # <<>> => Flat(todo) = Head(todo) \o Flat(Tail(todo)) /\ Flat(Tail(todo)) \in Seq(Bytes)
         /\ open \in Seq(Bytes) /\ stmt \in Seq(Bytes) /\ rest \in Seq(Bytes)
         /\ Range(open) \subseteq Bytes /\ Range(stmt) \subseteq Bytes
         /\ committed \in Seq(Seq(Bytes)) /\ DOMAIN committed = 1 .. Len(committed)
         /\ Len(committed) \in Nat
         /\ \A k \in DOMAIN committed : committed[k] \in Seq(Bytes) /\ Range(committed[k]) \subseteq Bytes
         /\ wi \in Nat /\ wi \in ri .. wi /\ statements \in Nat
<1>1. /\ open \in Seq(Bytes) /\ stmt \in Seq(Bytes) /\ rest \in Seq(Bytes) /\ whole \subseteq Bytes
      /\ committed \in Seq(Seq(Bytes)) /\ todo \in Seq(Seq(Bytes)) /\ Len(todo) <= 2
      /\ wpc \in {"step", "stepNext", "stepPoll", "stepMark", "spread"} => todo # <<>>
      /\ statements \in Nat
  <2>1. statements \in 0 .. MaxStatements /\ MaxStatements \in Nat
    BY PipeAssumption DEF PipeInv, PlaceInv, WriterPlace
  <2>2. statements \in Nat
    BY <2>1
  <2>3. WriterPlace /\ HistoryTypes
    BY DEF PipeInv, PlaceInv
  <2> QED
    BY <2>2, <2>3 DEF WriterPlace, HistoryTypes
<1>2. /\ Flat(todo) \in Seq(Bytes)
      /\ todo # <<>> => Flat(todo) = Head(todo) \o Flat(Tail(todo)) /\ Flat(Tail(todo)) \in Seq(Bytes)
  BY <1>1, FlatIs
<1>3. Left \in Seq(Bytes)
  BY <1>1, <1>2, ConcatProperties DEF Left, Spreading
<1>4. /\ wi \in Nat /\ wi \in ri .. wi
      /\ ring[wi % Count].bytes \in Seq(Bytes) /\ offset \in Nat
  <2>1. wi \in Nat /\ ri \in Nat /\ ri <= wi /\ ring[wi % Count].bytes \in Seq(Bytes)
    BY WriterFacts DEF PipeInv
  <2>2. offset \in 0 .. PageSize /\ PageSize \in Nat
    BY WriterFacts DEF PipeInv
  <2> QED
    BY <2>1, <2>2
<1>5. SubSeq(ring[wi % Count].bytes, 1, offset) \in Seq(Bytes) \/ ~Owns
  <2>1. CASE Owns
    <3>1. offset \in 0 .. Len(ring[wi % Count].bytes)
      <4>1. offset <= Len(ring[wi % Count].bytes) /\ Len(ring[wi % Count].bytes) \in Nat
        BY <1>4, <2>1, LenProperties DEF PipeInv, PlaceInv, PagesPlace
      <4> QED
        BY <1>4, <4>1
    <3> QED
      BY <1>4, <3>1, Cut
  <2> QED
    BY <2>1
<1>6. Range(open) \subseteq Bytes /\ Range(stmt) \subseteq Bytes
  BY <1>1, RangeOfSeq
<1>7. DOMAIN committed = 1 .. Len(committed) /\ Len(committed) \in Nat
  BY <1>1, LenProperties
<1>8. \A k \in DOMAIN committed : committed[k] \in Seq(Bytes)
  BY <1>1, <1>7, ElementOfSeq
<1>9. \A k \in DOMAIN committed : Range(committed[k]) \subseteq Bytes
  BY <1>8, RangeOfSeq
<1>10. page /\ wpc \notin {"acquire", "dead"} => Pending \in Seq(Bytes)
  <2>1. <<>> \in Seq(Bytes)
    BY EmptySeq
  <2> QED
    BY <1>5, <2>1 DEF Pending, Owns
<1> QED
  BY <1>1, <1>2, <1>3, <1>4, <1>6, <1>7, <1>8, <1>9, <1>10

(* The statement under way ends: none of its bytes are left.               *)
LEMMA StatementEnds ==
  ASSUME PipeInv, stmt' = <<>>, todo' = <<>>, rest' = <<>>,
         UNCHANGED <<statements, whole, committed>>, ~Spreading',
         \A b \in Range(open') : b[1] <= statements
  PROVE  StatementInv' /\ Left' = <<>>
<1>1. Len(<<>>) = 0 /\ <<>> \o <<>> = <<>> /\ Range(<<>>) = {} /\ DOMAIN <<>> = {}
  BY EmptySeq, ConcatEmptySeq DEF Range
<1>2. Left' = <<>>
  BY <1>1 DEF Left, Flat
<1>3. StatementInv'
  BY <1>1, <1>2 DEF PipeInv, StatementInv, Earlier
<1> QED
  BY <1>2, <1>3

(* The statement goes on, with no more bytes left than before.             *)
LEMMA StatementGoesOn ==
  ASSUME PipeInv, UNCHANGED <<stmt, statements, whole>>, Range(Left') \subseteq Range(Left),
         ~Spreading' => rest' = <<>>,
         wpc' \in {"idle", "rollback", "dead"} => stmt = <<>>,
         Earlier(open'), \A k \in DOMAIN committed' : Earlier(committed'[k])
  PROVE  StatementInv'
BY DEF PipeInv, StatementInv, Earlier

(* A new statement has a number of its own.                                *)
LEMMA StatementStarts ==
  ASSUME PipeInv, NEW n \in Payloads, HStore(n)
  PROVE  StatementInv' /\ Left' = stmt'
<1>1. /\ stmt' \in Seq(Bytes) /\ todo' \in Seq(Seq(Bytes)) /\ Len(todo') = 2
      /\ \A i \in DOMAIN stmt' : stmt'[i] = <<statements + 1, i>>
      /\ stmt' = todo'[1] \o todo'[2] /\ statements' = statements + 1
      /\ UNCHANGED <<open, committed, whole, rest>> /\ ~Spreading /\ ~Spreading'
  <2>1. /\ statements' = statements + 1 /\ UNCHANGED <<open, committed, whole, rest>>
        /\ ~Spreading /\ ~Spreading'
    BY DEF HStore, history, Spreading
  <2> QED
    BY <2>1, HStoreData DEF PipeInv
<1>2. Left' = stmt'
  <2>1. rest' = <<>>
    BY <1>1 DEF PipeInv, StatementInv
  <2>2. Flat(todo') = stmt'
    <3>1. \A q \in Seq(Seq(Bytes)) : Len(q) = 2 => Flat(q) = q[1] \o q[2]
      BY DEF Flat
    <3> QED
      BY <1>1, <3>1
  <2>3. <<>> \o stmt' = stmt'
    BY <1>1, ConcatEmptySeq
  <2>4. Left' = rest' \o Flat(todo')
    BY <1>1 DEF Left, Flat
  <2> QED
    BY <2>1, <2>2, <2>3, <2>4
<1>3. \A b \in Range(stmt') : b[1] = statements + 1
  BY <1>1 DEF Range
<1>4. \A b \in Bytes : b[1] <= statements => b[1] <= statements + 1 /\ b[1] # statements + 1
  <2>1. statements \in Nat
    BY PipeTypesHold
  <2>2. \A b \in Bytes : b[1] \in Int
    BY DEF Bytes
  <2> QED
    BY <2>1, <2>2
<1>5. ASSUME NEW t, Earlier(t), Range(t) \subseteq Bytes
      PROVE  Earlier(t)'
  <2>1. \A b \in Range(t) : b[1] <= statements /\ b \in Bytes
    BY <1>5 DEF Earlier
  <2> QED
    BY <1>1, <1>3, <1>4, <2>1 DEF Earlier
<1>6. /\ Earlier(open) /\ Range(open) \subseteq Bytes
      /\ \A k \in DOMAIN committed : Earlier(committed[k]) /\ Range(committed[k]) \subseteq Bytes
      /\ whole \subseteq Bytes /\ \A b \in whole : b[1] <= statements
  BY PipeTypesHold DEF PipeInv, StatementInv, HistoryTypes
<1>7. \A b \in Range(open) : b[1] <= statements' /\ b \notin Range(stmt')
  BY <1>1, <1>3, <1>4, <1>6 DEF Earlier
<1>8. \A k \in DOMAIN committed : \A b \in Range(committed[k]) :
        b[1] <= statements' /\ b \notin Range(stmt')
  BY <1>1, <1>3, <1>4, <1>6 DEF Earlier
<1>9. whole \cap Range(stmt') = {} /\ \A b \in whole : b[1] <= statements'
  BY <1>1, <1>3, <1>4, <1>6
<1>10. StatementInv'
  <2>1. wpc' \in {"write", "commit"}
    BY DEF HStore
  <2>2. rest' = <<>>
    BY <1>1 DEF PipeInv, StatementInv
  <2> QED
    BY <1>1, <1>2, <1>7, <1>8, <1>9, <2>1, <2>2 DEF StatementInv, Earlier
<1> QED
  BY <1>2, <1>10

(* The parts of the invariant that a step establishes make it up.          *)
LEMMA PipeMadeUp ==
  ASSUME PlaceInv', HistoryTypes', StatementInv', Deliv',
         NEW B \in [Nat -> Seq(Bytes)], NEW X \in [Nat -> Nat],
         Chain(B, X)', AtReader(B, X)',
         wpc' # "dead" => \E done \in Seq(Bytes) : AtWriter(B, X, done)'
  PROVE  PipeInv'
<1>1. PagesOf(B, X)'
  BY DEF PagesOf
<1> QED
  BY <1>1 DEF PipeInv

(* The steps that publish nothing, and copy nothing to a page.             *)
LEMMA NothingPublished ==
  ASSUME PipeInv, PlaceInv', NEW B \in [Nat -> Seq(Bytes)], NEW X \in [Nat -> Nat], PagesOf(B, X),
         UNCHANGED <<wi, ri, reader, delivered, committed>>,
         \A k \in ri .. wi - 1 : ring'[k % Count] = ring[k % Count],
         \A k \in 1 .. Len(committed) :
           Without(committed[k], whole') = Without(committed[k], whole)
  PROVE  Chain(B, X)' /\ AtReader(B, X)' /\ Deliv'
<1>1. /\ PlaceInv /\ HistoryTypes /\ Deliv /\ Chain(B, X) /\ AtReader(B, X)
      /\ wi \in ri .. wi /\ Len(committed) \in Nat /\ ri \in Nat /\ wi \in Nat
  BY PipeTypesHold, WriterFacts DEF PipeInv, PagesOf
<1>2. \A k \in ri .. wi : X[k] \in Nat
  <2>1. \A k \in ri .. wi : k \in Nat
    BY <1>1
  <2> QED
    BY <2>1
<1>3. /\ \A k \in ri .. wi - 1 : Link(B, X, k)'
      /\ AtReader(B, X)' /\ Deliv'
  <2>1. CommitsKept
    BY <1>1 DEF CommitsKept
  <2>2. BytesKept
    BY DEF BytesKept
  <2>3. \A k \in ri .. wi : B[k] = B[k] /\ X[k] = X[k] /\ X[k] \in Nat
    BY <1>2
  <2> QED
    BY <1>1, <2>1, <2>2, <2>3, ReaderSide
<1>4. Chain(B, X)'
  BY <1>3 DEF Chain
<1> QED
  BY <1>3, <1>4

(* The steps that neither publish nor copy: HSTORE begins or fails, a      *)
(* transaction ends without a page, the writer takes a page or dies.       *)
LEMMA QuietKeepsPipe ==
  ASSUME PipeInv, PlaceInv', UNCHANGED group,
         \/ \E n \in Payloads : HStore(n)
         \/ Commit \/ Rollback \/ Crash \/ WriteFails \/ StepNext \/ StepPoll \/ Acquire
         \/ (CommitPush \/ RollbackPush) /\ ~page
  PROVE  PipeInv'
<1>1. UNCHANGED <<ring, wi, ri, reader, delivered, committed, whole>>
  BY DEF HStore, Commit, Rollback, End, Crash, WriteFails, StepNext, StepPoll, Acquire,
         CommitPush, RollbackPush, queue, history
<1>2. PICK B \in [Nat -> Seq(Bytes)], X \in [Nat -> Nat] : PagesOf(B, X)
  BY DEF PipeInv
<1>3. Chain(B, X)' /\ AtReader(B, X)' /\ Deliv'
  BY <1>1, <1>2, NothingPublished
<1>4. /\ <<>> \in Seq(Bytes) /\ <<>> \o <<>> = <<>> /\ Partial(<<>>) = <<>> /\ DOMAIN <<>> = {}
      /\ B[wi] \in Seq(Bytes) /\ B[wi] \o <<>> = B[wi] /\ Left \in Seq(Bytes)
      /\ SubSeq(ring[wi % Count].bytes, 1, 0) = <<>>
      /\ <<>> \o Left = Left
      /\ \A d \in Seq(Bytes) : d \o Left = <<>> => d = <<>> /\ Left = <<>>
  <2>1. wi \in Nat /\ Left \in Seq(Bytes)
    BY PipeTypesHold
  <2>2. B[wi] \in Seq(Bytes)
    BY <2>1
  <2>3. SubSeq(ring[wi % Count].bytes, 1, 0) = <<>>
    BY SubSeqEmpty
  <2>4. Partial(<<>>) = <<>>
    BY WithoutEmpty DEF Partial
  <2>5. \A d \in Seq(Bytes) : d \o Left = <<>> => d = <<>> /\ Left = <<>>
    BY <2>1, ConcatEqualIffEmpty
  <2>6. <<>> \in Seq(Bytes)
    BY EmptySeq
  <2>7. <<>> \o <<>> = <<>> /\ B[wi] \o <<>> = B[wi] /\ <<>> \o Left = Left
    BY <2>1, <2>2, <2>6, ConcatEmptySeq
  <2> QED
    BY <2>1, <2>2, <2>3, <2>4, <2>5, <2>6, <2>7
<1>5. ASSUME HistoryTypes', StatementInv',
             wpc' # "dead" => \E done \in Seq(Bytes) : AtWriter(B, X, done)'
      PROVE  PipeInv'
  BY <1>3, <1>5, PipeMadeUp
<1>6. ASSUME wpc # "dead"
      PROVE  \E done \in Seq(Bytes) : AtWriter(B, X, done)
  BY <1>2, <1>6 DEF PagesOf
<1>7. ASSUME open' = open \/ open' = <<>>
      PROVE  /\ HistoryTypes' /\ \A b \in Range(open') : b[1] <= statements
             /\ UNCHANGED stmt => Earlier(open')
  <2>1. Range(<<>>) = {} /\ Earlier(open)
    BY <1>4 DEF Range, PipeInv, StatementInv
  <2> QED
    BY <1>1, <1>4, <1>7, <2>1 DEF PipeInv, HistoryTypes, Earlier
<1>8. ASSUME NEW n \in Payloads, HStore(n)
      PROVE  PipeInv'
  <2>1. /\ UNCHANGED <<open, page, offset>> /\ wpc = "idle" /\ wpc' \in {"commit", "write"}
    BY <1>8 DEF HStore, history
  <2>2. PICK done \in Seq(Bytes) : AtWriter(B, X, done)
    BY <1>6, <2>1
  <2>3. done = <<>>
    BY <1>4, <2>1, <2>2 DEF AtWriter, PipeInv, StatementInv
  <2>4. StatementInv' /\ Left' = stmt'
    BY <1>8, StatementStarts
  <2>5. stmt' = <<>> \o Left'
    <3>1. stmt' \in Seq(Bytes)
      BY <1>8, HStoreData DEF PipeInv
    <3> QED
      BY <2>4, <3>1, ConcatEmptySeq
  <2>6. Pending' = Pending
    BY <1>1, <2>1 DEF Pending
  <2>7. AtWriter(B, X, <<>>)'
    BY <1>1, <2>1, <2>2, <2>3, <2>5, <2>6 DEF AtWriter, Partial
  <2>8. HistoryTypes'
    BY <1>7, <2>1
  <2> QED
    BY <1>4, <1>5, <2>4, <2>7, <2>8
<1>9. CASE Commit \/ Rollback
  <2>1. /\ UNCHANGED <<open, page, offset, stmt, todo, rest, statements>>
        /\ wpc = "idle" /\ wpc' \in {"commit", "rollback"}
    BY <1>9 DEF Commit, Rollback, End, history
  <2>2. PICK done \in Seq(Bytes) : AtWriter(B, X, done)
    BY <1>6, <2>1
  <2>3. done = <<>>
    BY <1>4, <2>1, <2>2 DEF AtWriter, PipeInv, StatementInv
  <2>4. Left' = Left /\ Pending' = Pending /\ ~Spreading /\ ~Spreading'
    BY <1>1, <2>1 DEF Left, Flat, Pending, Spreading
  <2>5. StatementInv'
    BY <1>1, <2>1, <2>4 DEF PipeInv, StatementInv, Earlier
  <2>6. AtWriter(B, X, done)'
    BY <1>1, <2>1, <2>2, <2>3, <2>4 DEF AtWriter, Partial
  <2>7. HistoryTypes'
    BY <1>7, <2>1
  <2> QED
    BY <1>5, <2>5, <2>6, <2>7
<1>10. CASE Crash
  <2>1. /\ stmt' = <<>> /\ todo' = <<>> /\ rest' = <<>> /\ UNCHANGED statements
        /\ wpc' = "dead" /\ open' = <<>>
    BY <1>10 DEF Crash
  <2>2. StatementInv'
    BY <1>1, <1>7, <2>1, StatementEnds DEF Spreading
  <2>3. HistoryTypes'
    BY <1>7, <2>1
  <2> QED
    BY <1>5, <2>1, <2>2, <2>3
<1>11. CASE WriteFails
  <2>1. /\ stmt' = <<>> /\ todo' = <<>> /\ rest' = <<>>
        /\ UNCHANGED <<statements, open, page>>
        /\ wpc = "write" /\ wpc' = "idle" /\ ~page
    BY <1>11 DEF WriteFails, Return, history
  <2>2. PICK done \in Seq(Bytes) : AtWriter(B, X, done)
    BY <1>6, <2>1
  <2>3. StatementInv' /\ Left' = <<>>
    BY <1>1, <1>7, <2>1, StatementEnds DEF Spreading
  <2>4. AtWriter(B, X, <<>>)'
    BY <1>1, <1>4, <2>1, <2>2, <2>3 DEF AtWriter
  <2>5. HistoryTypes'
    BY <1>7, <2>1
  <2> QED
    BY <1>4, <1>5, <2>3, <2>4, <2>5
<1>12. CASE StepNext \/ StepPoll
  <2>1. /\ UNCHANGED <<open, page, stmt, todo, rest, statements>>
        /\ wpc \in {"stepNext", "stepPoll"} /\ wpc' \in {"spread", "stepMark"}
        /\ wpc' = "spread" => offset' = 0
    BY <1>12 DEF StepNext, StepPoll, history
  <2>2. PICK done \in Seq(Bytes) : AtWriter(B, X, done)
    BY <1>6, <2>1
  <2>3. Left' = Left /\ Spreading /\ Spreading'
    BY <2>1 DEF Left, Flat, Spreading
  <2>4. Pending = <<>> /\ Pending' = <<>>
    BY <1>1, <1>4, <2>1 DEF Pending
  <2>5. StatementInv'
    BY <1>1, <2>1, <2>3 DEF PipeInv, StatementInv, Earlier
  <2>6. AtWriter(B, X, done)'
    BY <1>1, <2>1, <2>2, <2>3, <2>4 DEF AtWriter, Partial
  <2>7. HistoryTypes'
    BY <1>7, <2>1
  <2> QED
    BY <1>5, <2>5, <2>6, <2>7
<1>13. CASE Acquire
  <2>1. /\ UNCHANGED <<open, stmt, todo, rest, statements>>
        /\ wpc = "acquire" /\ wpc' = goal /\ offset' = 0 /\ goal \in {"idle", "write"}
    BY <1>13 DEF Acquire, history, PipeInv, PlaceInv, TypeOK
  <2>2. PICK done \in Seq(Bytes) : AtWriter(B, X, done)
    BY <1>6, <2>1
  <2>3. done = <<>> /\ open = <<>> /\ B[wi] = <<>> /\ X[wi] = Len(committed) /\ stmt = done \o Left
    BY <2>1, <2>2 DEF AtWriter
  <2>4. Left' = Left /\ ~Spreading /\ ~Spreading'
    BY <2>1 DEF Left, Flat, Spreading
  <2>5. Pending' = <<>>
    BY <1>1, <1>4, <2>1 DEF Pending
  <2>6. goal = "idle" => stmt = <<>>
    <3>1. goal = "idle" => todo = <<>> /\ rest = <<>>
      BY <2>1, <2>4 DEF PipeInv, PlaceInv, WriterPlace, StatementInv
    <3>2. goal = "idle" => Left = <<>>
      BY <1>4, <2>4, <3>1 DEF Left, Flat
    <3> QED
      BY <1>4, <2>3, <3>2
  <2>7. StatementInv'
    BY <1>1, <2>1, <2>4, <2>6 DEF PipeInv, StatementInv, Earlier
  <2>8. AtWriter(B, X, done)'
    <3>1. Partial(<<>> \o <<>>)' = <<>>
      BY <1>1, <1>4 DEF Partial
    <3> QED
      BY <1>1, <1>4, <2>1, <2>3, <2>4, <2>5, <3>1 DEF AtWriter
  <2>9. HistoryTypes'
    BY <1>7, <2>1
  <2> QED
    BY <1>5, <2>7, <2>8, <2>9
<1>14. CASE (CommitPush \/ RollbackPush) /\ ~page
  <2>1. /\ UNCHANGED <<page, stmt, todo, rest, statements>> /\ open' = <<>>
        /\ wpc \in {"commit", "rollback"} /\ wpc' = "acquire"
    BY <1>14 DEF CommitPush, RollbackPush
  <2>2. PICK done \in Seq(Bytes) : AtWriter(B, X, done)
    BY <1>6, <2>1
  <2>3. done = <<>>
    BY <1>4, <2>1, <2>2 DEF AtWriter, PipeInv, StatementInv
  <2>4. Left' = Left /\ ~Spreading /\ ~Spreading'
    BY <2>1 DEF Left, Flat, Spreading
  <2>5. HistoryTypes' /\ Earlier(open')
    BY <1>7, <2>1
  <2>6. StatementInv'
    BY <1>1, <2>1, <2>4, <2>5 DEF PipeInv, StatementInv, Earlier
  <2>7. AtWriter(B, X, done)'
    BY <1>1, <1>14, <2>1, <2>2, <2>3, <2>4 DEF AtWriter
  <2> QED
    BY <1>5, <2>5, <2>6, <2>7
<1> QED
  BY <1>8, <1>9, <1>10, <1>11, <1>12, <1>13, <1>14

-----------------------------------------------------------------------------
(* A copy to the writer's page leaves the published ones alone. *)
LEMMA CopyIsOwn ==
  ASSUME PipeInv, Owns, NEW o \in Nat, NEW b \in Seq(Bytes), ring' = Copy(o, b),
         o <= Len(ring[wi % Count].bytes), o + Len(b) <= PageSize
  PROVE  /\ \A k \in ri .. wi - 1 : ring'[k % Count] = ring[k % Count]
         /\ SubSeq(ring'[wi % Count].bytes, 1, o + Len(b))
              = SubSeq(ring[wi % Count].bytes, 1, o) \o b
<1>1. \A k \in ri .. wi - 1 : k % Count \in Slots /\ k % Count # wi % Count
  <2>1. /\ \A k \in ri .. wi : k % Count \in Slots
        /\ \A k \in ri .. wi - 1 : k % Count # wi % Count
        /\ ri \in Nat /\ wi \in Nat
    BY WriterFacts DEF PipeInv
  <2>2. \A k \in ri .. wi - 1 : k \in ri .. wi
    BY <2>1
  <2> QED
    BY <2>1, <2>2
<1> QED
  BY <1>1, CopyEffect DEF PipeInv, PlaceInv

(* How the parts of a transaction are put together makes no difference.     *)
LEMMA Regroup ==
  \A s, t, u \in Seq(Bytes) :
    /\ s \o t \in Seq(Bytes)
    /\ (s \o t) \o u = s \o (t \o u)
<1> SUFFICES ASSUME NEW s \in Seq(Bytes), NEW t \in Seq(Bytes), NEW u \in Seq(Bytes)
             PROVE  s \o t \in Seq(Bytes) /\ (s \o t) \o u = s \o (t \o u)
  OBVIOUS
<1> QED
  BY ConcatAssociative, ConcatProperties

(* What is left of a concatenation, for all sequences of bytes. *)
LEMMA WithoutJoin ==
  \A W : \A s, t \in Seq(Bytes) : Without(s \o t, W) = Without(s, W) \o Without(t, W)
<1> SUFFICES ASSUME NEW W, NEW s \in Seq(Bytes), NEW t \in Seq(Bytes)
             PROVE  Without(s \o t, W) = Without(s, W) \o Without(t, W)
  OBVIOUS
<1> QED
  BY WithoutConcat

(* A transaction that goes on keeps what is left of it. *)
LEMMA PartialConcat ==
  \A s, t \in Seq(Bytes) : Partial(s \o t) = Partial(s) \o Partial(t)
BY WithoutJoin DEF Partial

(* The writer's page goes on with the next bytes b of the statement.        *)
LEMMA PageGoesOn ==
  ASSUME PipeInv, NEW B \in [Nat -> Seq(Bytes)], NEW X \in [Nat -> Nat], NEW done \in Seq(Bytes),
         AtWriter(B, X, done), wpc \in {"write", "spread"}, page,
         UNCHANGED <<wi, ri, whole>>, wpc' \in {"idle", "write", "step"},
         NEW b \in Seq(Bytes), NEW l \in Seq(Bytes), Left = b \o l,
         offset' = offset + Len(b), offset' \in 0 .. PageSize, ring' = Copy(offset, b)
  PROVE  /\ \A k \in ri .. wi - 1 : ring'[k % Count] = ring[k % Count]
         /\ B[wi] \o Pending' = Partial(open \o (done \o b))
         /\ stmt = (done \o b) \o l
<1>1. /\ Owns /\ wi \in Nat /\ B[wi] \in Seq(Bytes) /\ Pending \in Seq(Bytes)
      /\ open \in Seq(Bytes) /\ offset \in Nat /\ Left \in Seq(Bytes)
  <2>1. Owns
    BY DEF Owns
  <2>2. offset \in Nat
    BY PipeAssumption DEF PipeInv, PlaceInv, TypeOK
  <2> QED
    BY <2>1, <2>2, PipeTypesHold
<1>2. Pending = SubSeq(ring[wi % Count].bytes, 1, offset)
  BY DEF Pending
<1>3. Pending' = SubSeq(ring'[wi % Count].bytes, 1, offset + Len(b))
  BY DEF Pending
<1>4. /\ \A k \in ri .. wi - 1 : ring'[k % Count] = ring[k % Count]
      /\ Pending' = Pending \o b
  <2>1. offset <= Len(ring[wi % Count].bytes)
    BY <1>1 DEF PipeInv, PlaceInv, PagesPlace
  <2>2. offset + Len(b) <= PageSize
    BY PipeAssumption
  <2> QED
    BY <1>1, <1>2, <1>3, <2>1, <2>2, CopyIsOwn
<1> HIDE DEF Pending
<1>5. B[wi] \o (Pending \o b) = (B[wi] \o Pending) \o b
  <2>1. PICK u \in Seq(Bytes) : u = B[wi]
    BY <1>1
  <2>2. PICK v \in Seq(Bytes) : v = Pending
    BY <1>1
  <2>3. (u \o v) \o b = u \o (v \o b)
    BY Regroup, ConcatAssociative, ZenonT(60)
  <2> QED
    BY <2>1, <2>2, <2>3
<1>6. B[wi] \o Pending = Partial(open \o done)
  BY DEF AtWriter
<1>7. Partial(b) = b
  <2>1. Range(b) \subseteq Range(Left)
    BY RangeConcatenation
  <2>2. Range(b) \cap whole = {}
    BY <2>1 DEF PipeInv, StatementInv
  <2> QED
    BY <2>2, WithoutNone DEF Partial
<1>8. Partial((open \o done) \o b) = Partial(open \o done) \o b
  <2>1. open \o done \in Seq(Bytes)
    BY <1>1, ConcatProperties
  <2> DEFINE s == open \o done
  <2>2. s \in Seq(Bytes)
    BY <2>1
  <2> HIDE DEF s
  <2>3. Partial(s \o b) = Partial(s) \o b
    BY <1>7, <2>2, PartialConcat
  <2> QED
    BY <2>3 DEF s
<1>9. (open \o done) \o b = open \o (done \o b)
  <2>1. open \in Seq(Bytes)
    BY <1>1
  <2> QED
    BY <2>1, Regroup
<1>10. stmt = done \o (b \o l) /\ done \o (b \o l) = (done \o b) \o l
  <2>1. done \o (b \o l) = (done \o b) \o l
    BY Regroup, ConcatAssociative, ZenonT(60)
  <2> QED
    BY <2>1 DEF AtWriter
<1> QED
  BY <1>4, <1>5, <1>6, <1>8, <1>9, <1>10

(* A write is complete: the statement goes on, or it is recorded. *)
LEMMA WriteDoneKeepsPipe ==
  ASSUME PipeInv, PlaceInv', wpc \in {"write", "spread"}, page, WriteDone,
         UNCHANGED <<wi, ri, page, reader, delivered, committed, whole, statements>>,
         NEW b \in Seq(Bytes), Left = b \o Flat(Tail(todo)),
         offset' = offset + Len(b), offset' \in 0 .. PageSize, ring' = Copy(offset, b)
  PROVE  PipeInv'
<1>1. PICK B \in [Nat -> Seq(Bytes)], X \in [Nat -> Nat] : PagesOf(B, X)
  BY DEF PipeInv
<1>2. PICK done \in Seq(Bytes) : AtWriter(B, X, done)
  BY <1>1 DEF PagesOf
<1> DEFINE l == Flat(Tail(todo))
<1>3. /\ todo # <<>> /\ l \in Seq(Bytes) /\ Len(todo) \in {1, 2} /\ Len(Tail(todo)) = Len(todo) - 1
      /\ stmt \in Seq(Bytes) /\ open \in Seq(Bytes)
  <2>1. todo # <<>>
    BY DEF PipeInv, PlaceInv, WriterPlace
  <2> QED
    BY <2>1, PipeTypesHold, WriterFacts DEF PipeInv
<1> HIDE DEF l
<1>4. wpc' \in {"idle", "write"} /\ ~Spreading'
  BY DEF WriteDone, Spreading
<1>5. /\ \A k \in ri .. wi - 1 : ring'[k % Count] = ring[k % Count]
      /\ B[wi] \o Pending' = Partial(open \o (done \o b))
      /\ stmt = (done \o b) \o l
  BY <1>2, <1>3, <1>4, PageGoesOn, ZenonT(60) DEF l
<1>6. Chain(B, X)' /\ AtReader(B, X)' /\ Deliv'
  BY <1>1, <1>5, NothingPublished
<1>7. /\ done \o b \in Seq(Bytes) /\ <<>> \in Seq(Bytes) /\ <<>> \o <<>> = <<>>
      /\ X[wi] = Len(committed)
  <2>1. <<>> \in Seq(Bytes)
    BY EmptySeq
  <2> QED
    BY <1>2, <2>1, ConcatProperties, ConcatEmptySeq DEF AtWriter
<1>8. CASE Len(todo) > 1
  <2>1. wpc' = "write" /\ UNCHANGED <<stmt, open>> /\ todo' = Tail(todo) /\ rest' = <<>>
    BY <1>8 DEF WriteDone
  <2>2. Left' = l
    <3>1. Left' = <<>> \o l
      BY <1>4, <2>1 DEF Left, Flat, l
    <3> QED
      BY <1>3, <3>1, ConcatEmptySeq
  <2>3. Range(Left') \subseteq Range(Left)
    BY <1>3, <2>2, RangeConcatenation, SMTT(30) DEF l
  <2>4. Earlier(open') /\ \A k \in DOMAIN committed' : Earlier(committed'[k])
    BY <2>1 DEF PipeInv, StatementInv
  <2>5. StatementInv'
    BY <2>1, <2>3, <2>4, StatementGoesOn
  <2>6. AtWriter(B, X, done \o b)'
    BY <1>4, <1>5, <1>7, <2>1, <2>2 DEF AtWriter, Partial
  <2>7. HistoryTypes'
    BY <2>1 DEF PipeInv, HistoryTypes
  <2> QED
    BY <1>6, <1>7, <2>5, <2>6, <2>7, PipeMadeUp
<1>9. CASE ~(Len(todo) > 1)
  <2>1. /\ wpc' = "idle" /\ stmt' = <<>> /\ open' = open \o stmt /\ todo' = Tail(todo)
        /\ rest' = <<>> /\ todo' = <<>>
    <3>1. Len(todo) = 1
      <4>1. Len(todo) \in {1, 2} /\ ~(Len(todo) > 1)
        BY <1>3, <1>9
      <4> DEFINE n == Len(todo)
      <4>2. n = 1 \/ (n = 2 /\ ~(n > 1))
        BY <4>1
      <4> HIDE DEF n
      <4>3. n = 1
        BY <4>2
      <4> QED
        BY <4>3 DEF n
    <3>2. Tail(todo) = <<>>
      BY <1>3, <3>1, WriterFacts DEF PipeInv
    <3> QED
      BY <1>9, <3>2 DEF WriteDone
  <2>2. l = <<>>
    <3>1. Tail(todo) = <<>> /\ Len(<<>>) = 0
      BY <2>1
    <3>2. Flat(<<>>) = <<>>
      BY <3>1 DEF Flat
    <3> QED
      BY <3>1, <3>2 DEF l
  <2>3. stmt = done \o b
    BY <1>5, <1>7, <2>2, ConcatEmptySeq
  <2>4. \A c \in Range(open') : c[1] <= statements
    <3>1. Range(open') = Range(open) \cup Range(stmt)
      BY <1>3, <2>1, RangeConcatenation
    <3>2. \A c \in Range(open) : c[1] <= statements
      BY DEF PipeInv, StatementInv, Earlier
    <3>3. \A c \in Range(stmt) : c[1] = statements
      BY DEF PipeInv, StatementInv, Range
    <3>4. statements <= statements
      <4>1. statements \in Nat
        BY PipeTypesHold
      <4> QED
        BY <4>1
    <3> QED
      BY <3>1, <3>2, <3>3, <3>4
  <2>5. StatementInv' /\ Left' = <<>>
    BY <1>4, <2>1, <2>4, StatementEnds
  <2>6. open' \in Seq(Bytes) /\ open' \o <<>> = open'
    BY <1>3, <2>1, ConcatProperties, ConcatEmptySeq
  <2>7. AtWriter(B, X, <<>>)'
    <3>1. B[wi] \o Pending' = Without(open' \o <<>>, whole')
      BY <1>5, <2>1, <2>3, <2>6 DEF Partial
    <3> QED
      BY <1>7, <2>1, <2>5, <3>1 DEF AtWriter, Partial
  <2>8. HistoryTypes'
    BY <2>6 DEF PipeInv, HistoryTypes
  <2> QED
    BY <1>6, <1>7, <2>5, <2>7, <2>8, PipeMadeUp
<1> QED
  BY <1>8, <1>9

(* A write that fits, the first part of one that does not, and its last    *)
(* part keep the invariant.                                                *)
LEMMA WriteKeepsPipe ==
  ASSUME PipeInv, PlaceInv', UNCHANGED group, WriteFits \/ WriteFills \/ SpreadSuffix
  PROVE  PipeInv'
<1> DEFINE h == Head(todo)
           l == Flat(Tail(todo))
<1>1. /\ todo # <<>> /\ page /\ wpc \in {"write", "spread"}
      /\ h \in Seq(Bytes) /\ Len(h) \in Nat /\ l \in Seq(Bytes) /\ Flat(todo) = h \o l
      /\ rest \in Seq(Bytes) /\ Len(rest) \in Nat /\ Left \in Seq(Bytes)
      /\ offset \in 0 .. PageSize /\ PageSize \in Nat /\ PageSize > 0
      /\ wpc = "spread" => offset = 0
  <2>1. todo # <<>> /\ page /\ wpc \in {"write", "spread"} /\ (wpc = "spread" => offset = 0)
    BY DEF PipeInv, PlaceInv, WriterPlace, WriteFits, WriteFills, SpreadSuffix
  <2> QED
    BY <2>1, PipeTypesHold, WriterFacts DEF PipeInv
<1>2. wpc = "write" => Left = h \o l
  <2>1. wpc = "write" => rest = <<>> /\ ~Spreading
    BY DEF PipeInv, StatementInv, Spreading
  <2>2. h \o l \in Seq(Bytes)
    BY <1>1, ConcatProperties
  <2>3. <<>> \o (h \o l) = h \o l
    BY <2>2, ConcatEmptySeq
  <2> QED
    BY <1>1, <2>1, <2>3 DEF Left
<1>3. wpc = "spread" => Left = rest \o l
  BY DEF Left, Spreading
<1> HIDE DEF h, l
<1>4. CASE WriteFits
  <2>1. /\ Len(h) < PageSize - offset /\ ring' = Copy(offset, h) /\ wpc = "write"
        /\ offset' = offset + Len(h) /\ WriteDone
        /\ UNCHANGED <<wi, ri, page, reader, delivered, committed, whole, statements>>
    BY <1>4 DEF WriteFits, h
  <2>2. offset' \in 0 .. PageSize
    BY <1>1, <2>1
  <2> QED
    BY <1>1, <1>2, <2>1, <2>2, WriteDoneKeepsPipe DEF l
<1>5. CASE SpreadSuffix
  <2>1. /\ Len(rest) < PageSize /\ ring' = Copy(0, rest) /\ wpc = "spread"
        /\ offset' = Len(rest) /\ WriteDone
        /\ UNCHANGED <<wi, ri, page, reader, delivered, committed, whole, statements>>
    BY <1>5 DEF SpreadSuffix
  <2>2. offset = 0 /\ offset' = offset + Len(rest) /\ offset' \in 0 .. PageSize
    BY <1>1, <2>1
  <2> QED
    BY <1>1, <1>3, <2>1, <2>2, WriteDoneKeepsPipe DEF l
<1>6. CASE WriteFills
  <2> DEFINE n == PageSize - offset
             b == SubSeq(h, 1, n)
  <2>1. /\ Len(h) >= n /\ ring' = Copy(offset, b) /\ wpc = "write"
        /\ rest' = SubSeq(h, n + 1, Len(h))
        /\ offset' = PageSize /\ wpc' = "step"
        /\ UNCHANGED <<todo, stmt, wi, ri, page, reader, open, delivered, committed, whole, statements>>
    BY <1>6 DEF WriteFills, h, history
  <2>2. n \in 0 .. Len(h) /\ offset + n = PageSize
    BY <1>1, <2>1
  <2>3. b \in Seq(Bytes) /\ Len(b) = n /\ rest' \in Seq(Bytes) /\ b \o rest' = h
    BY <1>1, <2>1, <2>2, Cut
  <2> HIDE DEF n, b
  <2>4. offset' = offset + Len(b) /\ offset' \in 0 .. PageSize
    BY <1>1, <2>1, <2>2, <2>3
  <2>5. Left' = rest' \o l
    BY <2>1 DEF Left, Spreading, Flat, l
  <2>6. Left' \in Seq(Bytes) /\ Left = b \o Left'
    <3> DEFINE r == rest'
    <3>1. r \in Seq(Bytes) /\ b \o r = h
      BY <2>3
    <3> HIDE DEF r
    <3>2. (b \o r) \o l = b \o (r \o l) /\ r \o l \in Seq(Bytes)
      <4>1. b \in Seq(Bytes) /\ l \in Seq(Bytes)
        BY <1>1, <2>3
      <4> QED
        BY <3>1, <4>1, Regroup, ZenonT(60)
    <3> QED
      BY <1>2, <2>1, <2>5, <3>1, <3>2 DEF r
  <2>7. PICK B \in [Nat -> Seq(Bytes)], X \in [Nat -> Nat] : PagesOf(B, X)
    BY DEF PipeInv
  <2>8. PICK done \in Seq(Bytes) : AtWriter(B, X, done)
    BY <2>1, <2>7 DEF PagesOf
  <2>9. PICK m \in Seq(Bytes) : m = Left'
    BY <2>6
  <2>10. /\ \A k \in ri .. wi - 1 : ring'[k % Count] = ring[k % Count]
         /\ B[wi] \o Pending' = Partial(open \o (done \o b))
         /\ stmt = (done \o b) \o m
    <3>1. Left = b \o m /\ UNCHANGED <<wi, ri, whole>> /\ wpc' \in {"idle", "write", "step"}
      BY <2>1, <2>6, <2>9
    <3>2. wpc \in {"write", "spread"} /\ page /\ ring' = Copy(offset, b)
      BY <1>1, <2>1
    <3> QED
      BY <2>3, <2>4, <2>8, <3>1, <3>2, PageGoesOn, ZenonT(60)
  <2>11. Chain(B, X)' /\ AtReader(B, X)' /\ Deliv'
    BY <2>1, <2>7, <2>10, NothingPublished
  <2>12. StatementInv'
    <3>1. Range(m) \subseteq Range(Left)
      BY <2>3, <2>6, <2>9, RangeConcatenation
    <3>2. Earlier(open') /\ \A k \in DOMAIN committed' : Earlier(committed'[k])
      BY <2>1 DEF PipeInv, StatementInv
    <3> QED
      BY <2>1, <2>9, <3>1, <3>2, StatementGoesOn DEF Spreading
  <2>13. PICK d \in Seq(Bytes) : d = done \o b
    BY <2>3, ConcatProperties
  <2>14. AtWriter(B, X, d)'
    <3>1. page' /\ wpc' = "step" /\ wi' = wi
      BY <1>1, <2>1
    <3>2. stmt' = d \o Left'
      BY <2>1, <2>9, <2>10, <2>13
    <3>3. B[wi] \o Pending' = Without(open' \o d, whole')
      BY <2>1, <2>10, <2>13 DEF Partial
    <3>4. X[wi] = Len(committed')
      BY <2>1, <2>8 DEF AtWriter
    <3> QED
      BY <3>1, <3>2, <3>3, <3>4 DEF AtWriter, Partial
  <2>15. HistoryTypes'
    BY <2>1 DEF PipeInv, HistoryTypes
  <2> QED
    BY <2>11, <2>12, <2>14, <2>15, PipeMadeUp
<1> QED
  BY <1>4, <1>5, <1>6

(* The loop over complete pages: the page is filled, but stepPage() will    *)
(* publish it empty, and its bytes are in no transaction before.            *)
LEMMA SpreadPageKeepsPipe ==
  ASSUME PipeInv, PlaceInv', UNCHANGED group, SpreadPage
  PROVE  /\ PipeInv'
         /\ Without(open, whole') = Partial(open)
         /\ \A k \in DOMAIN committed : Without(committed[k], whole') = Partial(committed[k])
         /\ \A k \in DOMAIN delivered : Without(delivered[k], whole') = Partial(delivered[k])
<1> DEFINE b == SubSeq(rest, 1, PageSize)
           r == SubSeq(rest, PageSize + 1, Len(rest))
           l == Flat(Tail(todo))
           V == Range(b)
<1>1. /\ page /\ wpc = "spread" /\ offset = 0 /\ PageSize \in Nat /\ Len(rest) \in Nat
      /\ rest \in Seq(Bytes) /\ l \in Seq(Bytes) /\ Left \in Seq(Bytes)
      /\ stmt \in Seq(Bytes) /\ open \in Seq(Bytes)
  <2>1. todo # <<>> /\ page /\ wpc = "spread" /\ offset = 0
    BY DEF PipeInv, PlaceInv, WriterPlace, SpreadPage
  <2> QED
    BY <2>1, PipeTypesHold, WriterFacts DEF PipeInv
<1>2. /\ ring' = Copy(0, b) /\ rest' = r /\ whole' = whole \cup V
      /\ wpc' = "step" /\ PageSize <= Len(rest)
      /\ UNCHANGED <<wi, ri, reader, page, offset, stmt, todo, statements, open, committed, delivered>>
  BY DEF SpreadPage
<1>3. b \in Seq(Bytes) /\ Len(b) = PageSize /\ r \in Seq(Bytes) /\ b \o r = rest
  <2>1. PageSize \in 0 .. Len(rest)
    BY <1>1, <1>2
  <2> QED
    BY <1>1, <2>1, Cut
<1>4. Left = rest \o l /\ Left' = r \o l
  BY <1>1, <1>2 DEF Left, Spreading, Flat
<1> HIDE DEF b, r, l
<1>5. PICK c \in Seq(Bytes) : c = b
  BY <1>3
<1>6. PICK m \in Seq(Bytes) : m = Left'
  BY <1>1, <1>3, <1>4, ConcatProperties
<1>7. Left = c \o m
  <2>1. PICK r1 \in Seq(Bytes), l1 \in Seq(Bytes) : r1 = r /\ l1 = l
    BY <1>1, <1>3
  <2>2. (c \o r1) \o l1 = c \o (r1 \o l1)
    BY Regroup, ConcatAssociative, SMTT(30)
  <2> QED
    BY <1>3, <1>4, <1>5, <1>6, <2>1, <2>2
<1>8. PICK B \in [Nat -> Seq(Bytes)], X \in [Nat -> Nat] : PagesOf(B, X)
  BY DEF PipeInv
<1>9. PICK done \in Seq(Bytes) : AtWriter(B, X, done)
  BY <1>1, <1>8 DEF PagesOf
<1>10. PICK d \in Seq(Bytes) : d = done \o c
  BY ConcatProperties
<1>11. stmt = done \o Left /\ stmt = d \o m
  <2>1. stmt = done \o Left
    BY <1>9 DEF AtWriter
  <2>2. (done \o c) \o m = done \o (c \o m)
    BY Regroup, ConcatAssociative
  <2> QED
    BY <1>7, <1>10, <2>1, <2>2
<1>12. /\ V \cap Range(done) = {} /\ V \cap Range(m) = {} /\ V \subseteq Range(stmt)
       /\ Range(m) \subseteq Range(Left)
  <2>1. V = Range(c)
    BY <1>5
  <2>2. Range(Left) = V \cup Range(m)
    BY <1>7, <2>1, RangeConcatenation
  <2>3. \A i \in DOMAIN stmt : stmt[i] = <<statements, i>>
    BY DEF PipeInv, StatementInv
  <2>4. Range(done) \cap Range(Left) = {}
    BY <1>1, <1>11, <2>3, PartsApart
  <2>5. Range(d) \cap Range(m) = {}
    BY <1>11, <2>3, PartsApart
  <2>6. V \subseteq Range(d)
    BY <1>10, <2>1, RangeConcatenation
  <2>7. Range(Left) \subseteq Range(stmt)
    <3>1. PICK e \in Seq(Bytes) : e = Left
      BY <1>1
    <3>2. Range(done \o e) = Range(done) \cup Range(e)
      BY RangeConcatenation
    <3> QED
      BY <1>11, <3>1, <3>2
  <2> QED
    BY <2>2, <2>4, <2>5, <2>6, <2>7
<1> HIDE DEF V
<1>13. ASSUME NEW t \in Seq(Bytes), Earlier(t)
       PROVE  Without(t, whole') = Partial(t) /\ Range(t) \cap V = {}
  <2>1. Range(t) \cap V = {}
    BY <1>12, <1>13 DEF Earlier
  <2> QED
    BY <1>2, <2>1, WithoutNew DEF Partial
<1>14. Without(open, whole') = Partial(open) /\ Range(open) \cap V = {}
  BY <1>1, <1>13 DEF PipeInv, StatementInv
<1>15. \A k \in DOMAIN committed :
         Without(committed[k], whole') = Partial(committed[k]) /\ Range(committed[k]) \cap V = {}
  BY <1>13, PipeTypesHold DEF PipeInv, StatementInv
<1>16. \A k \in DOMAIN delivered : Without(delivered[k], whole') = Partial(delivered[k])
  <2> SUFFICES ASSUME NEW k \in DOMAIN delivered
               PROVE  Without(delivered[k], whole') = Partial(delivered[k])
    OBVIOUS
  <2>1. k \in DOMAIN committed
    <3>1. /\ DOMAIN delivered = 1 .. Len(delivered) /\ Len(delivered) <= Len(committed)
          /\ Len(delivered) \in Nat
      BY LenProperties DEF PipeInv, HistoryTypes, Deliv
    <3>2. DOMAIN committed = 1 .. Len(committed) /\ Len(committed) \in Nat
      BY PipeTypesHold
    <3> QED
      BY <3>1, <3>2
  <2>2. delivered[k] = Without(committed[k], whole)
    BY DEF PipeInv, Deliv, Partial
  <2>3. PICK t \in Seq(Bytes) : t = committed[k]
    BY <2>1, PipeTypesHold
  <2>4. Without(t, whole) \in Seq(Bytes) /\ Range(Without(t, whole)) \subseteq Range(t)
    <3>1. PICK W : W = whole
      OBVIOUS
    <3>2. Without(t, W) \in Seq(Bytes) /\ Range(Without(t, W)) = Range(t) \ W
      BY WithoutType
    <3> QED
      BY <3>1, <3>2
  <2>5. Range(delivered[k]) \cap V = {} /\ delivered[k] \in Seq(Bytes)
    BY <1>15, <2>1, <2>2, <2>3, <2>4
  <2> QED
    BY <1>2, <2>5, WithoutNew DEF Partial
<1>17. \A k \in ri .. wi - 1 : ring'[k % Count] = ring[k % Count]
  <2>1. Owns
    BY <1>1 DEF Owns
  <2>2. 0 <= Len(ring[wi % Count].bytes) /\ 0 + Len(c) <= PageSize /\ 0 \in Nat
    <3>1. Len(ring[wi % Count].bytes) \in 0 .. PageSize
      BY WriterFacts DEF PipeInv
    <3>2. Len(c) = PageSize
      BY <1>3, <1>5
    <3>3. 0 <= Len(ring[wi % Count].bytes)
      <4> DEFINE n == Len(ring[wi % Count].bytes)
      <4>1. n \in 0 .. PageSize
        BY <3>1
      <4> HIDE DEF n
      <4>2. 0 <= n
        BY <4>1
      <4> QED
        BY <4>2 DEF n
    <3> QED
      BY <1>1, <3>2, <3>3
  <2>3. ring' = Copy(0, c)
    BY <1>2, <1>5
  <2> QED
    BY <2>1, <2>2, <2>3, CopyIsOwn
<1>18. Chain(B, X)' /\ AtReader(B, X)' /\ Deliv'
  <2>1. \A k \in 1 .. Len(committed) : Without(committed[k], whole') = Without(committed[k], whole)
    BY <1>15, PipeTypesHold DEF Partial
  <2> QED
    BY <1>2, <1>8, <1>17, <2>1, NothingPublished
<1>19. StatementInv'
  <2>1. /\ StatementInv /\ wpc' = "step" /\ UNCHANGED <<stmt, statements, open, committed>>
    BY <1>2 DEF PipeInv
  <2>2. whole' \cap Range(Left') = {}
    BY <1>2, <1>6, <1>12, <2>1 DEF StatementInv
  <2>3. \A x \in whole' : x[1] <= statements
    <3>1. \A x \in Range(stmt) : x[1] = statements
      BY <2>1 DEF StatementInv, Range
    <3>2. statements <= statements
      <4>1. statements \in Nat
        BY PipeTypesHold
      <4> QED
        BY <4>1
    <3> QED
      BY <1>2, <1>12, <2>1, <3>1, <3>2 DEF StatementInv
  <2> QED
    BY <2>1, <2>2, <2>3 DEF StatementInv, Earlier, Spreading
<1>20. AtWriter(B, X, d)'
  <2>1. Pending = <<>> /\ Pending' = <<>>
    <3>1. \A q : SubSeq(q, 1, 0) = <<>>
      BY SubSeqEmpty
    <3> QED
      BY <1>1, <1>2, <3>1 DEF Pending
  <2>2. B[wi] \o <<>> = Partial(open \o done)
    BY <1>1, <1>9, <2>1 DEF AtWriter
  <2>3. Without(open \o d, whole') = Partial(open \o done)
    <3>1. PICK e \in Seq(Bytes) : e = open \o done
      BY <1>1, ConcatProperties
    <3>2. open \o d = e \o c
      <4>1. PICK o \in Seq(Bytes) : o = open
        BY <1>1
      <4>2. (o \o done) \o c = o \o (done \o c)
        BY Regroup, ConcatAssociative, ZenonT(60)
      <4> QED
        BY <1>10, <3>1, <4>1, <4>2
    <3>3. Range(e) \cap V = {}
      <4>1. Range(e) = Range(open) \cup Range(done)
        BY <1>1, <3>1, RangeConcatenation
      <4> QED
        BY <1>12, <1>14, <4>1
    <3>4. Without(e, whole') = Without(e, whole)
      BY <1>2, <3>3, WithoutNew
    <3>5. Without(c, whole') = <<>>
      <4>1. Range(c) \subseteq whole'
        BY <1>2, <1>5 DEF V
      <4> QED
        BY <4>1, WithoutAll
    <3>6. Without(e \o c, whole') = Without(e, whole') \o Without(c, whole')
      <4>1. PICK W : W = whole'
        OBVIOUS
      <4>2. Without(e \o c, W) = Without(e, W) \o Without(c, W)
        BY WithoutJoin, Zenon
      <4> QED
        BY <4>1, <4>2
    <3>7. Without(e, whole) \in Seq(Bytes)
      BY WithoutType
    <3>8. Without(e, whole) \o <<>> = Without(e, whole)
      BY <3>7, ConcatEmptySeq
    <3> QED
      BY <3>1, <3>2, <3>4, <3>5, <3>6, <3>8 DEF Partial
  <2>4. /\ page' /\ wpc' = "step" /\ wi' = wi /\ open' = open /\ X[wi] = Len(committed')
        /\ stmt' = d \o Left'
    BY <1>1, <1>2, <1>6, <1>9, <1>11 DEF AtWriter
  <2> QED
    BY <2>1, <2>2, <2>3, <2>4 DEF AtWriter, Partial
<1>21. HistoryTypes'
  <2>1. V \subseteq Bytes
    BY <1>12, PipeTypesHold
  <2> QED
    BY <1>2, <2>1 DEF PipeInv, HistoryTypes
<1>22. PipeInv'
  BY <1>18, <1>19, <1>20, <1>21, PipeMadeUp
<1> QED
  BY <1>14, <1>15, <1>16, <1>22

-----------------------------------------------------------------------------
(* A chain with one more link, or another last one. *)
Extends(C, B, n, v) == C[n] = v /\ \A k \in Nat : k # n => C[k] = B[k]

(* Such a chain exists. *)
LEMMA Extended ==
  \A S : \A B \in [Nat -> S], n \in Nat, v \in S : \E C \in [Nat -> S] : Extends(C, B, n, v)
<1> SUFFICES ASSUME NEW S, NEW B \in [Nat -> S], NEW n \in Nat, NEW v \in S
             PROVE  \E C \in [Nat -> S] : Extends(C, B, n, v)
  OBVIOUS
<1> DEFINE C == [B EXCEPT ![n] = v]
<1>1. C \in [Nat -> S] /\ Extends(C, B, n, v)
  BY DEF Extends
<1> QED
  BY <1>1

(* The numbers of the pages, with one more published. *)
LEMMA OneMore ==
  ASSUME NEW r \in Nat, NEW w \in Nat
  PROVE  /\ w + 1 \in Nat /\ w < w + 1 /\ w <= w + 1
         /\ \A k \in r .. w : k \in Nat /\ k # w + 1
         /\ r <= w => r \in r .. w
         /\ r <= w => \A k \in r .. (w + 1) - 1 : k \in r .. w - 1 \/ k = w
         /\ \A k \in 1 .. w + 1 : k \in 1 .. w \/ k = w + 1
         /\ \A k \in r .. w - 1 : k \in r .. w /\ k + 1 \in r .. w
OBVIOUS

(* Publishing a page makes it the last link of the chain. *)
LEMMA PublishLinks ==
  ASSUME PipeInv, NEW mark \in Marks, Publish(mark),
         page, wpc \in {"step", "commit", "rollback"},
         UNCHANGED <<ri, reader, delivered, whole>>,
         NEW B \in [Nat -> Seq(Bytes)], NEW X \in [Nat -> Nat], PagesOf(B, X),
         NEW C \in [Nat -> Seq(Bytes)], NEW Y \in [Nat -> Nat],
         Extends(C, B, wi + 1, IF mark \in Ends THEN <<>> ELSE B[wi] \o Pending),
         Extends(Y, X, wi + 1, IF mark = "commit" THEN X[wi] + 1 ELSE X[wi]),
         Len(committed) <= Len(committed'), Len(committed') \in Nat,
         \A k \in 1 .. Len(committed) : committed'[k] = committed[k],
         mark = "commit" =>
           X[wi] < Len(committed') /\ B[wi] \o Pending = Partial(committed'[X[wi] + 1])
  PROVE  Chain(C, Y)' /\ AtReader(C, Y)' /\ Deliv'
<1>1. /\ wi \in Nat /\ ri \in Nat /\ ri <= wi /\ wi \in ri .. wi /\ wi' = wi + 1
      /\ TypeOK /\ PlaceInv /\ HistoryTypes /\ Deliv /\ Chain(B, X) /\ AtReader(B, X)
  BY PipeTypesHold, WriterFacts DEF PipeInv, PlaceInv, PagesOf, Publish
<1>2. /\ \A k \in ri .. wi - 1 : ring'[k % Count] = ring[k % Count]
      /\ ring'[wi % Count].size = offset /\ ring'[wi % Count].mark = mark
      /\ ring'[wi % Count].bytes = ring[wi % Count].bytes
  <2>1. \A k \in ri .. wi - 1 : k % Count \in Slots /\ k % Count # wi % Count
    <3>1. \A k \in ri .. wi - 1 : k \in ri .. wi
      BY <1>1
    <3> QED
      BY <1>1, <3>1, WriterFacts
  <2> QED
    BY <1>1, <2>1, PublishEffect
<1>3. \A k \in ri .. wi : C[k] = B[k] /\ Y[k] = X[k] /\ X[k] \in Nat
  <2>1. \A k \in ri .. wi : k \in Nat /\ k # wi + 1
    BY <1>1, OneMore
  <2> QED
    BY <2>1 DEF Extends
<1>4. C[wi] = B[wi] /\ Y[wi] = X[wi]
  BY <1>1, <1>3
<1>5. CommitsKept
  BY DEF CommitsKept
<1>6. BytesKept
  BY <1>2 DEF BytesKept
<1>7. \A k \in ri .. wi - 1 : Link(C, Y, k)'
  <2> SUFFICES ASSUME NEW k \in ri .. wi - 1 PROVE Link(C, Y, k)'
    OBVIOUS
  <2>1. k \in ri .. wi /\ k + 1 \in ri .. wi
    BY <1>1, OneMore
  <2>2. C[k] = B[k] /\ C[k + 1] = B[k + 1] /\ Y[k] = X[k] /\ Y[k + 1] = X[k + 1] /\ X[k] \in Nat
    BY <1>3, <2>1
  <2>3. Link(B, X, k) /\ ring'[k % Count] = ring[k % Count]
    BY <1>1, <1>2 DEF Chain
  <2> QED
    BY <1>1, <1>5, <2>2, <2>3, LinksStay
<1>11. Deliv'
  <2>1. UNCHANGED delivered
    OBVIOUS
  <2> QED
    BY <1>1, <1>5, <2>1, DeliveredStays
<1>12. AtReader(C, Y)'
  <2>1. C[ri] = B[ri] /\ Y[ri] = X[ri]
    <3>1. ri \in ri .. wi
      BY <1>1, OneMore
    <3> QED
      BY <1>3, <3>1
  <2>2. UNCHANGED <<ri, reader, delivered>>
    OBVIOUS
  <2>3. SubSeq(ring'[ri % Count].bytes, 1, roffset) = SubSeq(ring[ri % Count].bytes, 1, roffset)
    BY <1>1, <1>6, BytesReadStay
  <2>4. Len(delivered) < Len(committed) =>
          /\ Len(delivered) < Len(committed')
          /\ Without(committed'[Len(delivered) + 1], whole')
               = Without(committed[Len(delivered) + 1], whole)
    BY <1>1, <1>5, NextCommitStays
  <2> QED
    BY <1>1, <2>1, <2>2, <2>3, <2>4 DEF AtReader, reader, Partial
<1>8. Pending = SubSeq(ring'[wi % Count].bytes, 1, ring'[wi % Count].size)
  BY <1>2 DEF Pending
<1> HIDE DEF Pending
<1>9. ASSUME NEW k, k = wi
      PROVE  Link(C, Y, k)'
  <2>1. ring'[k % Count].mark = mark
    BY <1>2, <1>9
  <2>2. SubSeq(ring'[k % Count].bytes, 1, ring'[k % Count].size) = Pending
    BY <1>8, <1>9
  <2>3. C[k + 1] = IF mark \in Ends THEN <<>> ELSE C[k] \o Pending
    BY <1>4, <1>9 DEF Extends
  <2>4. Y[k + 1] = IF mark = "commit" THEN Y[k] + 1 ELSE Y[k]
    BY <1>4, <1>9 DEF Extends
  <2>5. mark = "commit" =>
          Y[k] < Len(committed') /\ C[k] \o Pending = Without(committed'[Y[k] + 1], whole')
    BY <1>4, <1>9 DEF Partial
  <2>6. Mark(k)' = mark /\ Text(k)' = Pending
    BY <2>1, <2>2 DEF Mark, Text
  <2> QED
    BY <2>3, <2>4, <2>5, <2>6 DEF Link, Partial
<1>10. Chain(C, Y)'
  <2> SUFFICES ASSUME NEW k \in ri' .. wi' - 1 PROVE Link(C, Y, k)'
    BY DEF Chain
  <2>1. k \in ri .. wi - 1 \/ k = wi
    BY <1>1, OneMore
  <2> QED
    BY <1>7, <1>9, <2>1
<1> QED
  BY <1>10, <1>11, <1>12

(* stepPage(), commit() and rollback() publish a page and keep the         *)
(* invariant.                                                              *)
LEMMA PublishKeepsPipe ==
  ASSUME PipeInv, PlaceInv', UNCHANGED group,
         StepPush \/ ((CommitPush \/ RollbackPush) /\ page)
  PROVE  PipeInv'
<1>1. PICK B \in [Nat -> Seq(Bytes)], X \in [Nat -> Nat] : PagesOf(B, X)
  BY DEF PipeInv
<1>2. PICK done \in Seq(Bytes) : AtWriter(B, X, done)
  BY <1>1 DEF StepPush, CommitPush, RollbackPush, PagesOf
<1>3. /\ page /\ wpc \in {"step", "commit", "rollback"}
      /\ UNCHANGED <<ri, reader, delivered, whole, stmt, todo, rest, statements, page>>
      /\ wi' = wi + 1
  BY DEF StepPush, CommitPush, RollbackPush, Publish, history, PipeInv, PlaceInv, WriterPlace
<1>4. /\ wi \in Nat /\ wi + 1 \in Nat /\ B[wi] \in Seq(Bytes) /\ Pending \in Seq(Bytes)
      /\ B[wi] \o Pending \in Seq(Bytes) /\ <<>> \in Seq(Bytes) /\ X[wi] \in Nat
      /\ Left \in Seq(Bytes) /\ open \in Seq(Bytes)
  <2>1. wi \in Nat /\ Pending \in Seq(Bytes) /\ Left \in Seq(Bytes) /\ open \in Seq(Bytes)
    BY <1>3, PipeTypesHold
  <2>2. B[wi] \in Seq(Bytes) /\ X[wi] \in Nat
    BY <2>1
  <2>4. wi + 1 \in Nat
    BY <2>1
  <2>3. B[wi] \o Pending \in Seq(Bytes)
    BY <2>1, <2>2, ConcatProperties
  <2> QED
    BY <2>1, <2>2, <2>3, <2>4, EmptySeq
<1>5. /\ X[wi] = Len(committed) /\ stmt = done \o Left
      /\ B[wi] \o Pending = Partial(open \o done)
  BY <1>2, <1>3 DEF AtWriter
<1>6. Left' = Left
  <2>1. (Spreading /\ Spreading') \/ (~Spreading /\ ~Spreading')
    BY DEF StepPush, CommitPush, RollbackPush, Spreading
  <2> QED
    BY <1>3, <2>1 DEF Left, Flat
<1>7. wpc \in {"commit", "rollback"} => done = <<>>
  <2>1. wpc = "rollback" => stmt = <<>>
    BY DEF PipeInv, StatementInv
  <2>2. done \o Left = <<>> => done = <<>>
    BY <1>4, ConcatEqualIffEmpty
  <2> QED
    BY <1>2, <1>5, <2>1, <2>2 DEF AtWriter
<1> HIDE DEF Pending
<1>8. CASE StepPush
  <2>1. PICK mark \in Marks : mark \in {"cont", "tentative"} /\ Publish(mark)
    BY <1>8 DEF StepPush, Marks
  <2>2. PICK C \in [Nat -> Seq(Bytes)] : Extends(C, B, wi + 1, B[wi] \o Pending)
    BY <1>4, Extended
  <2>3. PICK Y \in [Nat -> Nat] : Extends(Y, X, wi + 1, X[wi])
    BY <1>4, Extended
  <2>4. /\ UNCHANGED <<open, committed>> /\ wpc = "step" /\ wpc' \in {"stepNext", "stepPoll"}
    BY <1>8 DEF StepPush, history
  <2>5. mark \notin Ends /\ mark # "commit"
    BY <2>1 DEF Ends
  <2>6. Len(committed) <= Len(committed') /\ Len(committed') \in Nat
    BY <2>4, PipeTypesHold
  <2>7. Chain(C, Y)' /\ AtReader(C, Y)' /\ Deliv'
    <3>1. Extends(C, B, wi + 1, IF mark \in Ends THEN <<>> ELSE B[wi] \o Pending)
      BY <2>2, <2>5
    <3>2. Extends(Y, X, wi + 1, IF mark = "commit" THEN X[wi] + 1 ELSE X[wi])
      BY <2>3, <2>5
    <3>3. \A k \in 1 .. Len(committed) : committed'[k] = committed[k]
      BY <2>4
    <3> QED
      BY <1>1, <1>3, <2>1, <2>4, <2>5, <2>6, <3>1, <3>2, <3>3, PublishLinks
  <2>8. StatementInv'
    BY <1>3, <1>6, <2>4 DEF PipeInv, StatementInv, Earlier, Spreading
  <2>9. AtWriter(C, Y, done)'
    <3>1. C[wi'] = B[wi] \o Pending /\ Y[wi'] = X[wi]
      BY <1>3, <2>2, <2>3 DEF Extends
    <3>2. Pending' = <<>> /\ C[wi'] \o <<>> = C[wi']
      BY <1>4, <2>4, <3>1, ConcatEmptySeq DEF Pending
    <3>3. Partial(open \o done)' = Partial(open \o done)
      BY <1>3, <2>4 DEF Partial
    <3> QED
      BY <1>3, <1>5, <1>6, <2>4, <3>1, <3>2, <3>3 DEF AtWriter
  <2>10. HistoryTypes'
    BY <1>3, <2>4 DEF PipeInv, HistoryTypes
  <2> QED
    BY <2>7, <2>8, <2>9, <2>10, PipeMadeUp
<1>9. CASE (CommitPush \/ RollbackPush) /\ page
  <2>1. /\ wpc \in {"commit", "rollback"} /\ wpc' = "acquire" /\ open' = <<>>
        /\ done = <<>>
    BY <1>7, <1>9 DEF CommitPush, RollbackPush
  <2>2. PICK C \in [Nat -> Seq(Bytes)] : Extends(C, B, wi + 1, <<>>)
    BY <1>4, Extended
  <2>3. PICK mark \in Ends : /\ Publish(mark)
                             /\ committed' = IF mark = "commit" THEN Append(committed, open)
                                                                ELSE committed
    BY <1>9 DEF CommitPush, RollbackPush, Ends
  <2>4. PICK Y \in [Nat -> Nat] :
          Extends(Y, X, wi + 1, IF mark = "commit" THEN X[wi] + 1 ELSE X[wi])
    <3>1. PICK x \in Nat : x = X[wi]
      BY <1>4
    <3>2. x + 1 \in Nat
      BY OneMore
    <3>3. PICK v \in Nat : v = IF mark = "commit" THEN X[wi] + 1 ELSE X[wi]
      BY <3>1, <3>2
    <3> QED
      BY <1>4, <3>3, Extended
  <2>5. mark \in Marks
    BY DEF Ends, Marks
  <2>6. /\ committed' \in Seq(Seq(Bytes)) /\ Len(committed') \in Nat
        /\ Len(committed) <= Len(committed') /\ DOMAIN committed' = 1 .. Len(committed')
        /\ \A k \in 1 .. Len(committed) : committed'[k] = committed[k]
        /\ Len(committed') = IF mark = "commit" THEN Len(committed) + 1 ELSE Len(committed)
        /\ mark = "commit" => committed'[Len(committed) + 1] = open
        /\ Len(committed) \in Nat /\ DOMAIN committed = 1 .. Len(committed)
    <3>1. committed \in Seq(Seq(Bytes)) /\ DOMAIN committed = 1 .. Len(committed)
          /\ Len(committed) \in Nat
      BY PipeTypesHold
    <3>2. CASE mark = "commit"
      <4>1. committed' = Append(committed, open)
        BY <2>3, <3>2
      <4>2. /\ Append(committed, open) \in Seq(Seq(Bytes))
            /\ Len(Append(committed, open)) = Len(committed) + 1
            /\ \A k \in 1 .. Len(committed) : Append(committed, open)[k] = committed[k]
            /\ Append(committed, open)[Len(committed) + 1] = open
        BY <1>4, <3>1, AppendProperties
      <4>3. DOMAIN Append(committed, open) = 1 .. Len(Append(committed, open))
        BY <4>2, LenProperties
      <4>4. Len(committed) <= Len(committed) + 1 /\ Len(committed) + 1 \in Nat
        BY <3>1, OneMore
      <4> QED
        BY <3>1, <3>2, <4>1, <4>2, <4>3, <4>4
    <3>3. CASE mark # "commit"
      BY <2>3, <3>1, <3>3
    <3> QED
      BY <3>2, <3>3
  <2>7. mark = "commit" =>
          X[wi] < Len(committed') /\ B[wi] \o Pending = Partial(committed'[X[wi] + 1])
    <3>1. open \o <<>> = open
      BY <1>4, ConcatEmptySeq
    <3>2. mark = "commit" => Len(committed) < Len(committed')
      BY <2>6
    <3>3. B[wi] \o Pending = Partial(open)
      BY <1>5, <2>1, <3>1
    <3> QED
      BY <1>5, <2>6, <3>2, <3>3
  <2>8. Chain(C, Y)' /\ AtReader(C, Y)' /\ Deliv'
    <3>1. Extends(C, B, wi + 1, IF mark \in Ends THEN <<>> ELSE B[wi] \o Pending)
      BY <2>2
    <3> QED
      BY <1>1, <1>3, <2>1, <2>3, <2>4, <2>5, <2>6, <2>7, <3>1, PublishLinks
  <2>9. ASSUME NEW k \in DOMAIN committed'
        PROVE  Earlier(committed'[k])
    <3>1. k \in DOMAIN committed \/ (mark = "commit" /\ k = Len(committed) + 1)
      <4>1. k \in 1 .. Len(committed')
        BY <2>6
      <4>2. CASE mark = "commit"
        <5>1. k \in 1 .. Len(committed) + 1 /\ Len(committed) \in Nat
          BY <2>6, <4>1, <4>2
        <5>2. k \in 1 .. Len(committed) \/ k = Len(committed) + 1
          BY <5>1, OneMore
        <5> QED
          BY <2>6, <4>2, <5>2
      <4>3. CASE mark # "commit"
        BY <2>6, <4>1, <4>3
      <4> QED
        BY <4>2, <4>3
    <3>2. CASE k \in DOMAIN committed
      BY <2>6, <3>2 DEF PipeInv, StatementInv
    <3>3. CASE mark = "commit" /\ k = Len(committed) + 1
      BY <2>6, <3>3 DEF PipeInv, StatementInv
    <3> QED
      BY <3>1, <3>2, <3>3
  <2>10. Earlier(<<>>)
    BY DEF Earlier, Range
  <2>11. StatementInv'
    BY <1>3, <1>6, <2>1, <2>9, <2>10, StatementGoesOn DEF PipeInv, StatementInv, Spreading
  <2>12. AtWriter(C, Y, done)'
    <3>1. C[wi'] = <<>> /\ Y[wi'] = IF mark = "commit" THEN X[wi] + 1 ELSE X[wi]
      BY <1>3, <2>2, <2>4 DEF Extends
    <3>2. Y[wi'] = Len(committed')
      BY <1>5, <2>6, <3>1
    <3> QED
      BY <1>3, <1>5, <1>6, <2>1, <3>1, <3>2 DEF AtWriter
  <2>13. HistoryTypes'
    BY <1>3, <1>4, <2>1, <2>6 DEF PipeInv, HistoryTypes
  <2> QED
    BY <2>8, <2>11, <2>12, <2>13, PipeMadeUp
<1> QED
  BY <1>8, <1>9

(* stepPage() decides the page it published: the transaction goes on with  *)
(* the next page, or it is dropped.                                        *)
LEMMA MarkKeepsPipe ==
  ASSUME PipeInv, PlaceInv', UNCHANGED group, StepMark
  PROVE  PipeInv'
<1>1. PICK B \in [Nat -> Seq(Bytes)], X \in [Nat -> Nat] : PagesOf(B, X)
  BY DEF PipeInv
<1>2. PICK done \in Seq(Bytes) : AtWriter(B, X, done)
  BY <1>1 DEF StepMark, PagesOf
<1> DEFINE w == (wi - 1) % Count
           m == IF npage THEN "cont" ELSE "rollback"
<1>3. /\ UNCHANGED <<wi, ri, reader, committed, delivered, whole, statements>>
      /\ wpc = "stepMark" /\ page' = npage /\ offset' = 0
      /\ ring' = [ring EXCEPT ![w].mark = m]
  BY DEF StepMark, reader
<1>4. /\ wi \in Nat /\ ri \in Nat /\ ri < wi /\ wi - 1 \in ri .. wi - 1 /\ wi - 1 \in ri .. wi
      /\ wi - 1 \in Nat /\ wi \in ri .. wi
      /\ ring \in [Slots -> Pages] /\ page
      /\ Mark(wi - 1) = "tentative"
      /\ PlaceInv /\ HistoryTypes /\ Deliv /\ Chain(B, X) /\ AtReader(B, X)
  <2>1. wi \in Nat /\ ri \in Nat
    BY WriterFacts DEF PipeInv
  <2>2. ri < wi /\ Mark(wi - 1) = "tentative" /\ page /\ ring \in [Slots -> Pages]
    BY <1>3 DEF PipeInv, PlaceInv, TypeOK, WriterPlace, PagesPlace, Mark
  <2>3. wi - 1 \in ri .. wi - 1 /\ wi - 1 \in ri .. wi /\ wi - 1 \in Nat /\ wi \in ri .. wi
    BY <2>1, <2>2
  <2> QED
    BY <1>1, <2>1, <2>2, <2>3 DEF PipeInv, PagesOf
<1>5. /\ \A k \in ri .. wi - 1 : k % Count \in Slots
      /\ \A k \in ri .. wi - 2 : k % Count # w
  <2>1. /\ \A k \in ri .. wi : k % Count \in Slots
        /\ wi - ri <= Count - 1 /\ Count \in Nat
    BY <1>4, WriterFacts
  <2>2. \A k \in ri .. wi - 1 : k \in ri .. wi
    BY <1>4
  <2>3. \A k \in ri .. wi - 2 : k \in Nat /\ k < wi - 1 /\ (wi - 1) - k < Count
    BY <1>4, <2>1
  <2> QED
    BY <1>4, <2>1, <2>2, <2>3, SlotsDiffer
<1>6. w \in Slots
  BY <1>4, <1>5
<1> HIDE DEF w
<1>7. /\ \A s \in Slots : ring'[s].bytes = ring[s].bytes /\ ring'[s].size = ring[s].size
      /\ \A s \in Slots : s # w => ring'[s] = ring[s]
      /\ ring'[w].mark = m
  BY <1>3, <1>4, <1>6 DEF Pages
<1>8. /\ \A k \in ri .. wi - 2 : ring'[k % Count] = ring[k % Count]
      /\ \A k \in ri .. wi - 1 : ring'[k % Count].bytes = ring[k % Count].bytes
  <2>1. \A k \in ri .. wi - 2 : k \in ri .. wi - 1
    BY <1>4
  <2> QED
    BY <1>5, <1>7, <2>1
<1>9. PICK C \in [Nat -> Seq(Bytes)] : C = [B EXCEPT ![wi] = IF npage THEN B[wi] ELSE <<>>]
  <2>1. B[wi] \in Seq(Bytes) /\ <<>> \in Seq(Bytes)
    BY <1>4, EmptySeq
  <2> QED
    BY <2>1
<1>10. /\ \A k \in ri .. wi - 1 : C[k] = B[k] /\ X[k] = X[k] /\ X[k] \in Nat
       /\ C[wi] = IF npage THEN B[wi] ELSE <<>>
  <2>1. \A k \in ri .. wi - 1 : k \in Nat /\ k # wi
    BY <1>4
  <2> QED
    BY <1>4, <1>9, <2>1
<1>11. (\A k \in ri .. (wi - 1) - 1 : Link(C, X, k)') /\ AtReader(C, X)' /\ Deliv'
  <2>1. CommitsKept
    BY <1>3, PipeTypesHold DEF CommitsKept
  <2>2. BytesKept
    BY <1>8 DEF BytesKept
  <2>3. \A k \in ri .. (wi - 1) - 1 : ring'[k % Count] = ring[k % Count]
    <3>1. (wi - 1) - 1 = wi - 2
      BY <1>4
    <3> QED
      BY <1>8, <3>1
  <2> QED
    BY <1>3, <1>4, <1>8, <1>10, <2>1, <2>2, <2>3, ReaderSide, ZenonT(60)
<1>12. ASSUME NEW k, k = wi - 1
       PROVE  Link(C, X, k)'
  <2>1. Link(B, X, k) /\ Mark(k) = "tentative"
    BY <1>4, <1>12 DEF Chain
  <2>2. B[wi] = B[k] \o Text(k) /\ X[wi] = X[k] /\ k + 1 = wi
    <3>1. k + 1 = wi
      BY <1>4, <1>12
    <3> QED
      BY <2>1, <3>1 DEF Link, Ends
  <2>3. ring'[k % Count].mark = m /\ Text(k)' = Text(k)
    <3>1. k % Count = w
      BY <1>12 DEF w
    <3> QED
      BY <1>6, <1>7, <3>1 DEF Text
  <2>4. C[k] = B[k]
    BY <1>4, <1>10, <1>12
  <2>5. C[k + 1] = IF m \in Ends THEN <<>> ELSE C[k] \o Text(k)
    BY <1>10, <2>2, <2>4 DEF Ends
  <2> QED
    BY <2>2, <2>3, <2>5 DEF Link, Mark, Ends
<1>13. Chain(C, X)'
  <2> SUFFICES ASSUME NEW k \in ri' .. wi' - 1 PROVE Link(C, X, k)'
    BY DEF Chain
  <2>1. k \in ri .. (wi - 1) - 1 \/ k = wi - 1
    BY <1>3, <1>4
  <2> QED
    BY <1>11, <1>12, <2>1
<1>14. CASE npage
  <2>1. wpc' = "spread" /\ UNCHANGED <<stmt, todo, rest, open>>
    BY <1>14 DEF StepMark
  <2>2. Left' = Left /\ Spreading /\ Spreading'
    BY <1>3, <2>1 DEF Left, Flat, Spreading
  <2>3. StatementInv'
    BY <1>3, <2>1, <2>2 DEF PipeInv, StatementInv, Earlier
  <2>4. Pending = <<>> /\ Pending' = <<>>
    <3>1. \A q : SubSeq(q, 1, 0) = <<>>
      BY SubSeqEmpty
    <3> QED
      BY <1>3, <2>1, <3>1 DEF Pending
  <2>5. AtWriter(C, X, done)'
    <3>1. Partial(open \o done)' = Partial(open \o done)
      BY <1>3, <2>1 DEF Partial
    <3> QED
      BY <1>2, <1>3, <1>4, <1>10, <1>14, <2>1, <2>2, <2>4, <3>1 DEF AtWriter
  <2>6. HistoryTypes'
    BY <1>3, <2>1 DEF PipeInv, HistoryTypes
  <2> QED
    BY <1>11, <1>13, <2>3, <2>5, <2>6, PipeMadeUp
<1>15. CASE ~npage
  <2>1. wpc' = "idle" /\ stmt' = <<>> /\ todo' = <<>> /\ rest' = <<>> /\ open' = <<>>
    BY <1>15 DEF StepMark, Return
  <2>2. Range(<<>>) = {} /\ <<>> \in Seq(Bytes) /\ <<>> \o <<>> = <<>>
    BY EmptySeq, ConcatEmptySeq DEF Range
  <2>3. StatementInv' /\ Left' = <<>>
    BY <1>3, <2>1, <2>2, StatementEnds DEF Spreading
  <2>4. AtWriter(C, X, <<>>)'
    BY <1>2, <1>3, <1>10, <1>15, <2>1, <2>2, <2>3 DEF AtWriter
  <2>5. HistoryTypes'
    BY <1>3, <2>1, <2>2 DEF PipeInv, HistoryTypes
  <2> QED
    BY <1>11, <1>13, <2>2, <2>3, <2>4, <2>5, PipeMadeUp
<1> QED
  BY <1>14, <1>15

(* Every step of the two processes keeps the invariant. *)
LEMMA PipeNext == PipeInv /\ [Next]_vars => PipeInv'
<1> SUFFICES ASSUME PipeInv, [Next]_vars PROVE PipeInv'
  OBVIOUS
<1>1. PlaceInv'
  BY PlaceNext DEF PipeInv
<1>2. CASE Application
  BY <1>1, <1>2, QuietKeepsPipe DEF Application
<1>3. CASE WriterStep
  <2>1. UNCHANGED group
    BY <1>3 DEF WriterStep
  <2>2. CASE WriteFails \/ StepNext \/ StepPoll \/ Acquire
    BY <1>1, <2>1, <2>2, QuietKeepsPipe
  <2>3. CASE (CommitPush \/ RollbackPush) /\ ~page
    BY <1>1, <2>1, <2>3, QuietKeepsPipe
  <2>4. CASE StepPush
    <3>1. StepPush \/ ((CommitPush \/ RollbackPush) /\ page)
      BY <2>4
    <3> QED
      BY <1>1, <2>1, <3>1, PublishKeepsPipe
  <2>5. CASE (CommitPush \/ RollbackPush) /\ page
    BY <1>1, <2>1, <2>5, PublishKeepsPipe
  <2>6. CASE WriteFits \/ WriteFills \/ SpreadSuffix
    BY <1>1, <2>1, <2>6, WriteKeepsPipe
  <2>7. CASE SpreadPage
    BY <1>1, <2>1, <2>7, SpreadPageKeepsPipe
  <2>8. CASE StepMark
    BY <1>1, <2>1, <2>8, MarkKeepsPipe
  <2> QED
    BY <1>3, <2>2, <2>3, <2>4, <2>5, <2>6, <2>7, <2>8 DEF WriterStep
<1>4. CASE ReaderStep
  BY <1>4, ReaderKeepsPipe
<1>5. CASE UNCHANGED vars
  <2>1. PICK B \in [Nat -> Seq(Bytes)], X \in [Nat -> Nat] : PagesOf(B, X)
    BY DEF PipeInv
  <2>2. Chain(B, X)' /\ AtReader(B, X)' /\ Deliv'
    BY <1>1, <1>5, <2>1, NothingPublished DEF vars, reader
  <2>3. Left' = Left /\ Pending' = Pending /\ Spreading' = Spreading
    BY <1>5 DEF vars, Left, Flat, Pending, Spreading
  <2>4. StatementInv'
    BY <1>5, <2>3 DEF vars, PipeInv, StatementInv, Earlier
  <2>5. HistoryTypes'
    BY <1>5 DEF vars, PipeInv, HistoryTypes
  <2>6. wpc' # "dead" => \E done \in Seq(Bytes) : AtWriter(B, X, done)'
    BY <1>5, <2>1, <2>3 DEF vars, PagesOf, AtWriter, Partial
  <2> QED
    BY <1>1, <2>2, <2>4, <2>5, <2>6, PipeMadeUp
<1> QED
  BY <1>2, <1>3, <1>4, <1>5 DEF Next

-----------------------------------------------------------------------------
(* Every step of the pipe is one of the channel, or changes nothing of it. *)

(* The sequences that the channel sees, one longer after a commit or a     *)
(* delivery.                                                               *)
LEMMA AllPartial ==
  ASSUME NEW s \in Seq(Seq(Bytes)), NEW W, NEW t \in Seq(Bytes)
  PROVE  LET P(q) == [k \in DOMAIN q |-> Without(q[k], W)]
         IN  /\ P(s) \in Seq(Seq(Bytes)) /\ Len(P(s)) = Len(s)
             /\ P(Append(s, t)) = Append(P(s), Without(t, W))
<1> DEFINE P(q) == [k \in DOMAIN q |-> Without(q[k], W)]
           u == Append(s, t)
<1>1. /\ DOMAIN s = 1 .. Len(s) /\ Len(s) \in Nat
      /\ \A k \in 1 .. Len(s) : s[k] \in Seq(Bytes)
  BY LenProperties, ElementOfSeq
<1>2. /\ u \in Seq(Seq(Bytes)) /\ Len(u) = Len(s) + 1 /\ DOMAIN u = 1 .. Len(s) + 1
      /\ u[Len(s) + 1] = t /\ \A k \in 1 .. Len(s) : u[k] = s[k]
  BY AppendProperties, LenProperties
<1>3. Without(t, W) \in Seq(Bytes) /\ \A k \in 1 .. Len(s) : Without(s[k], W) \in Seq(Bytes)
  BY <1>1, WithoutType
<1>4. P(s) \in Seq(Seq(Bytes)) /\ Len(P(s)) = Len(s) /\ DOMAIN P(s) = 1 .. Len(s)
  <2>1. P(s) \in [1 .. Len(s) -> Seq(Bytes)]
    BY <1>1, <1>3
  <2> QED
    BY <1>1, <2>1, SeqDef, LenProperties
<1>5. P(u) = Append(P(s), Without(t, W))
  <2> DEFINE v == Append(P(s), Without(t, W))
  <2>1. /\ v \in Seq(Seq(Bytes)) /\ DOMAIN v = 1 .. Len(s) + 1
        /\ v[Len(s) + 1] = Without(t, W) /\ \A k \in 1 .. Len(s) : v[k] = P(s)[k]
    BY <1>3, <1>4, AppendProperties, LenProperties
  <2>2. DOMAIN P(u) = DOMAIN v
    BY <1>2, <2>1
  <2>3. \A k \in DOMAIN v : P(u)[k] = v[k]
    <3> SUFFICES ASSUME NEW k \in DOMAIN v PROVE P(u)[k] = v[k]
      OBVIOUS
    <3>1. k \in 1 .. Len(s) \/ k = Len(s) + 1
      BY <1>1, <2>1
    <3> QED
      BY <1>1, <1>2, <2>1, <3>1
  <2>4. P(u) = [k \in DOMAIN P(u) |-> P(u)[k]] /\ v = [k \in DOMAIN v |-> v[k]]
    BY <2>1
  <2> QED
    BY <2>2, <2>3, <2>4
<1> QED
  BY <1>4, <1>5

(* Nothing of the channel changes. *)
LEMMA DoomedStays ==
  ASSUME Doomed' <=> Doomed
  PROVE  Doomed' = Doomed
BY DEF Doomed

(* The channel does not change. *)
LEMMA ChannelStutters ==
  ASSUME UNCHANGED <<reliable, open, committed, delivered, whole>>, Doomed' <=> Doomed
  PROVE  UNCHANGED Channel!tvars
BY DoomedStays DEF Channel!tvars, Partial, Commits, Deliveries

(* The steps that write: HSTORE completes, or it loses its page. *)
LEMMA WriteImplements ==
  ASSUME PipeInv, UNCHANGED group, WriteFits \/ SpreadSuffix
  PROVE  [Channel!Next]_Channel!tvars
<1>1. /\ page /\ page' = page /\ ~Doomed /\ ~Doomed' /\ WriteDone
      /\ UNCHANGED <<reliable, committed, delivered, whole>>
  <2>1. page
    BY DEF PipeInv, PlaceInv, WriterPlace, WriteFits, SpreadSuffix
  <2> QED
    BY <2>1 DEF WriteFits, SpreadSuffix, Doomed, group
<1>2. CASE UNCHANGED open
  BY <1>1, <1>2, ChannelStutters
<1>3. CASE open' = open \o stmt
  <2>1. open \in Seq(Bytes) /\ stmt \in Seq(Bytes)
    BY PipeTypesHold
  <2>2. PICK p \in Seq(Bytes) : p = Partial(open)
    BY <2>1, WithoutType DEF Partial
  <2>3. PICK q \in Seq(Bytes) : q = Partial(stmt)
    BY <2>1, WithoutType DEF Partial
  <2>4. Partial(open)' = p \o q
    <3>1. Partial(open \o stmt) = Partial(open) \o Partial(stmt)
      BY <2>1, PartialConcat
    <3> QED
      BY <1>1, <1>3, <2>2, <2>3, <3>1 DEF Partial
  <2>5. IsPrefix(p, p \o q)
    BY ConcatIsPrefix
  <2>6. IsPrefix(Partial(open), Partial(open)')
    BY <2>2, <2>4, <2>5
  <2>7. Commits' = Commits /\ Deliveries' = Deliveries /\ Doomed' = Doomed
    BY <1>1, DoomedStays DEF Commits, Deliveries, Partial
  <2>8. Channel!Store
    BY <1>1, <2>6, <2>7 DEF Channel!Store, Channel!IsPrefix, IsPrefix
  <2> QED
    BY <2>8 DEF Channel!Next
<1> QED
  BY <1>1, <1>2, <1>3 DEF WriteDone

(* The steps that end a transaction, or drop it. *)
LEMMA EndImplements ==
  ASSUME PipeInv, UNCHANGED group,
         StepMark \/ CommitPush \/ RollbackPush \/ Acquire \/ Crash
  PROVE  [Channel!Next]_Channel!tvars
<1>1. UNCHANGED <<reliable, delivered, whole>>
  BY DEF StepMark, CommitPush, RollbackPush, Acquire, Crash, group, history
<1>2. Deliveries' = Deliveries
  BY <1>1 DEF Deliveries, Partial
<1>3. open' = <<>> => Partial(open)' = <<>>
  BY WithoutEmpty DEF Partial
<1>4. UNCHANGED committed => Commits' = Commits
  BY <1>1 DEF Commits, Partial
<1>5. CASE StepMark
  <2>1. page /\ wpc = "stepMark" /\ ~reliable /\ UNCHANGED committed /\ ~Doomed
    BY <1>5 DEF StepMark, PipeInv, PlaceInv, WriterPlace, PagesPlace, Doomed
  <2>2. CASE npage
    <3>1. UNCHANGED open /\ ~Doomed'
      BY <1>5, <2>2 DEF StepMark, Doomed
    <3> QED
      BY <1>1, <2>1, <3>1, ChannelStutters
  <2>3. CASE ~npage
    <3>1. open' = <<>> /\ wpc' = "idle" /\ page' = npage
      BY <1>5, <2>3 DEF StepMark, Return
    <3>2. Doomed' = TRUE
      BY <2>3, <3>1 DEF Doomed
    <3>3. Channel!Drop
      BY <1>1, <1>2, <1>3, <1>4, <2>1, <3>1, <3>2 DEF Channel!Drop
    <3> QED
      BY <3>3 DEF Channel!Next
  <2> QED
    BY <2>2, <2>3
<1>6. CASE Acquire
  <2>1. /\ wpc = "acquire" /\ ~Doomed /\ UNCHANGED <<open, committed>>
        /\ reliable => ~FullQueue
        /\ (page' <=> ~FullQueue) /\ wpc' \in {"idle", "write"}
    BY <1>6 DEF Acquire, history, Doomed, PipeInv, PlaceInv, TypeOK
  <2>2. open = <<>>
    BY <2>1 DEF PipeInv, PagesOf, AtWriter
  <2>3. CASE page'
    <3>1. ~Doomed'
      BY <2>3 DEF Doomed
    <3> QED
      BY <1>1, <2>1, <3>1, ChannelStutters
  <2>4. CASE ~page'
    <3>1. Doomed' = TRUE /\ open' = <<>> /\ ~reliable
      BY <2>1, <2>2, <2>4 DEF Doomed
    <3>2. Channel!Drop
      BY <1>1, <1>2, <1>3, <1>4, <2>1, <3>1 DEF Channel!Drop
    <3> QED
      BY <3>2 DEF Channel!Next
  <2> QED
    BY <2>3, <2>4
<1>7. CASE RollbackPush \/ Crash
  <2>1. open' = <<>> /\ UNCHANGED committed /\ wpc' \in {"acquire", "dead"}
    BY <1>7 DEF RollbackPush, Crash
  <2>2. Doomed' = FALSE
    BY <2>1 DEF Doomed
  <2>3. Channel!Abandon
    BY <1>1, <1>2, <1>3, <1>4, <2>1, <2>2 DEF Channel!Abandon
  <2> QED
    BY <2>3 DEF Channel!Next
<1>8. CASE CommitPush
  <2>1. open' = <<>> /\ wpc = "commit" /\ wpc' = "acquire"
    BY <1>8 DEF CommitPush
  <2>2. Doomed' = FALSE /\ (Doomed <=> ~page)
    BY <2>1 DEF Doomed
  <2>3. Commits' = IF Doomed THEN Commits ELSE Append(Commits, Partial(open))
    <3>1. CASE page
      <4>1. committed' = Append(committed, open)
        BY <1>8, <3>1 DEF CommitPush
      <4>2. committed \in Seq(Seq(Bytes)) /\ open \in Seq(Bytes)
        BY PipeTypesHold
      <4>3. [k \in DOMAIN Append(committed, open) |-> Without(Append(committed, open)[k], whole)]
              = Append([k \in DOMAIN committed |-> Without(committed[k], whole)],
                       Without(open, whole))
        BY <4>2, AllPartial
      <4> QED
        BY <1>1, <2>2, <3>1, <4>1, <4>3 DEF Commits, Partial
    <3>2. CASE ~page
      BY <1>4, <1>8, <2>2, <3>2 DEF CommitPush
    <3> QED
      BY <3>1, <3>2
  <2>4. Channel!Commit
    BY <1>1, <1>2, <1>3, <2>1, <2>2, <2>3 DEF Channel!Commit
  <2> QED
    BY <2>4 DEF Channel!Next
<1> QED
  BY <1>5, <1>6, <1>7, <1>8

(* runReadProcessWithTimeout hands a transaction to the consumer. *)
LEMMA ReturnImplements ==
  ASSUME PipeInv, UNCHANGED group, ReadReturn
  PROVE  [Channel!Next]_Channel!tvars
<1>1. /\ UNCHANGED <<reliable, open, committed, whole>>
      /\ (Doomed' <=> Doomed)
  BY DEF ReadReturn, writer, group, Doomed
<1>2. CASE flag # "commit"
  <2>1. UNCHANGED delivered
    BY <1>2 DEF ReadReturn
  <2> QED
    BY <1>1, <2>1, ChannelStutters
<1>3. CASE flag = "commit"
  <2>1. delivered' = Append(delivered, txn)
    BY <1>3 DEF ReadReturn
  <2>2. /\ Len(delivered) < Len(committed)
        /\ txn = Partial(committed[Len(delivered) + 1])
    BY <1>3 DEF PipeInv, PagesOf, AtReader
  <2>3. /\ committed \in Seq(Seq(Bytes)) /\ delivered \in Seq(Seq(Bytes)) /\ txn \in Seq(Bytes)
        /\ Len(delivered) \in Nat /\ Len(committed) \in Nat
        /\ DOMAIN committed = 1 .. Len(committed)
    BY LenProperties DEF PipeInv, HistoryTypes, PlaceInv, ReaderPlace
  <2>4. Len(delivered) + 1 \in DOMAIN committed
    BY <2>2, <2>3
  <2>5. Without(txn, whole) = Commits[Len(delivered) + 1]
    <3>1. committed[Len(delivered) + 1] \in Seq(Bytes)
      BY <2>3, <2>4, PipeTypesHold
    <3>2. Without(Without(committed[Len(delivered) + 1], whole), whole)
            = Without(committed[Len(delivered) + 1], whole)
      BY <3>1, WithoutTwice
    <3> QED
      BY <2>2, <2>4, <3>2 DEF Commits, Partial
  <2>6. Len(Deliveries) = Len(delivered) /\ Len(Commits) = Len(committed)
    <3>1. <<>> \in Seq(Bytes)
      BY EmptySeq
    <3> QED
      BY <2>3, <3>1, AllPartial DEF Commits, Deliveries, Partial
  <2>7. Deliveries' = Append(Deliveries, Without(txn, whole))
    <3>1. [k \in DOMAIN Append(delivered, txn) |-> Without(Append(delivered, txn)[k], whole)]
            = Append([k \in DOMAIN delivered |-> Without(delivered[k], whole)],
                     Without(txn, whole))
      BY <2>3, AllPartial
    <3> QED
      BY <1>1, <2>1, <3>1 DEF Deliveries, Partial
  <2>8. Commits' = Commits /\ Partial(open)' = Partial(open) /\ Doomed' = Doomed
    BY <1>1, DoomedStays DEF Commits, Partial
  <2>9. Channel!Deliver
    BY <1>1, <2>2, <2>5, <2>6, <2>7, <2>8 DEF Channel!Deliver
  <2> QED
    BY <2>9 DEF Channel!Next
<1> QED
  BY <1>2, <1>3

(* Every step of the pipes is a step of the channel, or changes nothing of *)
(* it.                                                                     *)
LEMMA PipeStep ==
  ASSUME PipeInv, [Next]_vars
  PROVE  [Channel!Next]_Channel!tvars
<1>1. CASE UNCHANGED vars
  <2>1. UNCHANGED <<reliable, open, committed, delivered, whole>> /\ (Doomed' <=> Doomed)
    BY <1>1 DEF vars, Doomed
  <2> QED
    BY <2>1, ChannelStutters
<1>2. CASE Application
  <2>1. UNCHANGED group
    BY <1>2 DEF Application
  <2>2. CASE Crash
    BY <2>1, <2>2, EndImplements
  <2>3. CASE Commit \/ Rollback \/ \E n \in Payloads : HStore(n)
    <3>1. /\ UNCHANGED <<reliable, open, committed, delivered, whole, page>>
          /\ wpc = "idle" /\ wpc' \in {"commit", "rollback", "write"}
      BY <2>1, <2>3 DEF Commit, Rollback, End, HStore, group, history
    <3> QED
      BY <3>1, ChannelStutters DEF Doomed
  <2> QED
    BY <1>2, <2>2, <2>3 DEF Application
<1>3. CASE WriterStep
  <2>1. UNCHANGED group
    BY <1>3 DEF WriterStep
  <2>2. CASE WriteFits \/ SpreadSuffix
    BY <2>1, <2>2, WriteImplements
  <2>3. CASE StepMark \/ CommitPush \/ RollbackPush \/ Acquire
    BY <2>1, <2>3, EndImplements
  <2>4. CASE WriteFails \/ WriteFills \/ StepPush \/ StepNext \/ StepPoll
    <3>1. /\ UNCHANGED <<reliable, open, committed, delivered, whole, page>>
          /\ wpc \notin {"acquire", "dead"} /\ wpc' \notin {"acquire", "dead"}
      BY <2>1, <2>4
      DEF WriteFails, WriteFills, StepPush, StepNext, StepPoll, Return, group, history
    <3> QED
      BY <3>1, ChannelStutters DEF Doomed
  <2>5. CASE SpreadPage
    <3>1. /\ Without(open, whole') = Partial(open)
          /\ \A k \in DOMAIN committed : Without(committed[k], whole') = Partial(committed[k])
          /\ \A k \in DOMAIN delivered : Without(delivered[k], whole') = Partial(delivered[k])
      <4>1. PlaceInv'
        BY PlaceNext DEF PipeInv
      <4> QED
        BY <2>1, <2>5, <4>1, SpreadPageKeepsPipe
    <3>2. UNCHANGED <<reliable, open, committed, delivered, page>> /\ wpc = "spread" /\ wpc' = "step"
      BY <2>1, <2>5 DEF SpreadPage, group
    <3>3. Doomed' = Doomed
      BY <3>2 DEF Doomed
    <3>4. Partial(open)' = Partial(open) /\ Commits' = Commits /\ Deliveries' = Deliveries
      BY <3>1, <3>2 DEF Partial, Commits, Deliveries
    <3> QED
      BY <3>2, <3>3, <3>4 DEF Channel!tvars
  <2> QED
    BY <1>3, <2>2, <2>3, <2>4, <2>5 DEF WriterStep
<1>4. CASE ReaderStep
  <2>1. UNCHANGED group
    BY <1>4 DEF ReaderStep
  <2>2. CASE ReadReturn
    BY <2>1, <2>2, ReturnImplements
  <2>3. CASE ReadNext \/ ReadCopy \/ ReadEnd \/ ReadPoll
    <3>1. UNCHANGED <<reliable, open, committed, delivered, whole>> /\ (Doomed' <=> Doomed)
      BY <2>1, <2>3 DEF ReadNext, ReadCopy, ReadEnd, ReadPoll, queue, writer, group, history, Doomed
    <3> QED
      BY <3>1, ChannelStutters
  <2> QED
    BY <1>4, <2>2, <2>3 DEF ReaderStep
<1> QED
  BY <1>1, <1>2, <1>3, <1>4 DEF Next

(* The pipes start as an empty channel. *)
LEMMA ChannelInit == Init => Channel!Init
<1> SUFFICES ASSUME Init PROVE Channel!Init
  OBVIOUS
<1>1. Partial(open) = <<>>
  BY WithoutEmpty DEF Init, Partial
<1>2. Commits = <<>> /\ Deliveries = <<>>
  BY DEF Init, Commits, Deliveries
<1>3. Doomed = FALSE /\ reliable \in BOOLEAN
  BY PipeAssumption DEF Init, Doomed
<1> QED
  BY <1>1, <1>2, <1>3 DEF Channel!Init

(* The invariant that relates the pages in the ring to the transactions    *)
(* holds of wpipe and rpipe.                                               *)
LEMMA PipeInvariant == SafeSpec => []PipeInv
<1>1. Init => PipeInv
  BY PipeInit
<1>2. PipeInv /\ [Next]_vars => PipeInv'
  BY PipeNext
<1> QED
  BY <1>1, <1>2, PTL DEF SafeSpec

(* The consumer is handed whole transactions only, those committed, each   *)
(* once and in order, whenever the writer fills, publishes and marks its   *)
(* pages, drops, rolls back or dies, and whatever the reader has read by   *)
(* then: runReadProcessWithTimeout and the pipes keep what TxnChannel says *)
(* of the bytes that wpipe::write() does not lose.                         *)
THEOREM PipeImplementsChannel == SafeSpec => Channel!SafeSpec
<1>1. Init => Channel!Init
  BY ChannelInit
<1>2. PipeInv /\ [Next]_vars => [Channel!Next]_Channel!tvars
  BY PipeStep
<1>3. SafeSpec => []PipeInv
  BY PipeInvariant
<1> QED
  BY <1>1, <1>2, <1>3, PTL DEF SafeSpec, Channel!SafeSpec
=============================================================================
