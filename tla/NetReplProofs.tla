---------------------------- MODULE NetReplProofs ----------------------------
(***************************************************************************)
(* Types and HandlersLive, for any number of descriptors, clients and      *)
(* calls, with the inductive invariant ServerInv: which handlers are       *)
(* allocated, which connection is behind a descriptor, and what the server *)
(* and the clients have still to read.                                     *)
(***************************************************************************)
EXTENDS NetRepl, SequenceTheorems, FiniteSetTheorems, FunctionTheorems,
        NaturalsInduction, WellFoundedInduction, TLAPS

-----------------------------------------------------------------------------
(* Descriptors and sequences.                                              *)

(* The listening socket is none of the descriptors of connections. *)
LEMMA Descriptors == Fds \subseteq Nat /\ Listen \notin Fds /\ Listen \in AllFds /\ Fds \subseteq AllFds
BY FdAssumption DEF Listen, AllFds

(* accept() finds the lowest free descriptor when there is one. *)
LEMMA LowestFree ==
  ASSUME NEW T \in SUBSET Nat, T # {}
  PROVE  \E x \in T : \A y \in T : x <= y
<1>1. PICK x \in T : \A y \in T : ~(<<y, x>> \in OpToRel(<, Nat))
  BY NatLessThanWellFounded, WFMin
<1>2. ASSUME NEW y \in T
      PROVE  x <= y
  <2>1. x \in Nat /\ y \in Nat
    OBVIOUS
  <2>2. ~(y < x)
    <3>1. <<y, x>> \notin OpToRel(<, Nat)
      BY <1>1
    <3> QED
      BY <2>1, <3>1 DEF OpToRel
  <2> QED
    BY <2>1, <2>2
<1> QED
  BY <1>2

LEMMA FreeDescriptor ==
  ASSUME TypeOK, ~Full
  PROVE  \E f \in Fds : connAt[f] = 0 /\ \A g \in Fds : connAt[g] = 0 => f <= g
<1> DEFINE T == {f \in Fds : connAt[f] = 0}
<1>1. T \in SUBSET Nat
  BY Descriptors
<1>2. T # {}
  <2> SUFFICES ASSUME T = {} PROVE FALSE
    OBVIOUS
  <2>1. {fd \in Fds : connAt[fd] # 0} = Fds
    OBVIOUS
  <2>2. limit \in 1 .. Cardinality(Fds) /\ Cardinality(Fds) \in Nat
    BY LimitAssumption, FdAssumption, FS_CardinalityType DEF TypeOK
  <2>3. PICK n \in Nat : n = Cardinality(Fds)
    BY <2>2
  <2>4. n >= limit
    BY <2>2, <2>3
  <2> QED
    BY <2>1, <2>3, <2>4 DEF Full
<1>3. PICK x \in T : \A y \in T : x <= y
  BY <1>1, <1>2, LowestFree
<1> QED
  BY <1>3

(* What is left of a sequence without its first element. *)
LEMMA TailFacts ==
  ASSUME NEW S, NEW s \in Seq(S), s # <<>>
  PROVE  /\ Head(s) = s[1] /\ Head(s) \in S /\ Head(s) \in Range(s)
         /\ Tail(s) \in Seq(S) /\ Len(Tail(s)) = Len(s) - 1 /\ Len(s) \in Nat \ {0}
         /\ \A i \in 1 .. Len(s) - 1 : Tail(s)[i] = s[i + 1]
         /\ DOMAIN Tail(s) = 1 .. Len(s) - 1 /\ DOMAIN s = 1 .. Len(s)
         /\ Range(Tail(s)) \subseteq Range(s)
         /\ IsInjective(s) => IsInjective(Tail(s)) /\ Head(s) \notin Range(Tail(s))
<1>1. Len(s) \in Nat \ {0} /\ DOMAIN s = 1 .. Len(s) /\ \A i \in 1 .. Len(s) : s[i] \in S
  BY EmptySeq, LenProperties, ElementOfSeq
<1>2. /\ Head(s) = s[1] /\ Tail(s) \in Seq(S) /\ Len(Tail(s)) = Len(s) - 1
      /\ \A i \in 1 .. Len(s) - 1 : Tail(s)[i] = s[i + 1]
  BY HeadTailProperties
<1>3. DOMAIN Tail(s) = 1 .. Len(s) - 1
  BY <1>1, <1>2, LenProperties
<1>4. \A i \in 1 .. Len(s) - 1 : i \in 1 .. Len(s) /\ i + 1 \in 1 .. Len(s) /\ i + 1 # 1
  BY <1>1
<1>5. Range(Tail(s)) \subseteq Range(s)
  BY <1>1, <1>2, <1>3, <1>4 DEF Range
<1>6. 1 \in 1 .. Len(s)
  BY <1>1
<1>7. ASSUME IsInjective(s)
      PROVE  IsInjective(Tail(s)) /\ Head(s) \notin Range(Tail(s))
  <2>1. \A a, b \in 1 .. Len(s) : s[a] = s[b] => a = b
    BY <1>1, <1>7 DEF IsInjective
  <2>2. ASSUME NEW a \in 1 .. Len(s) - 1, NEW b \in 1 .. Len(s) - 1, Tail(s)[a] = Tail(s)[b]
        PROVE  a = b
    <3>1. a + 1 = b + 1
      BY <1>2, <1>4, <2>1, <2>2
    <3> QED
      BY <3>1
  <2>3. ASSUME NEW a \in 1 .. Len(s) - 1, Tail(s)[a] = Head(s)
        PROVE  FALSE
    BY <1>2, <1>4, <1>6, <2>1, <2>3
  <2> QED
    BY <1>3, <2>2, <2>3 DEF IsInjective, Range
<1> QED
  BY <1>1, <1>2, <1>3, <1>5, <1>6, <1>7 DEF Range

(* A sequence with one more element. *)
LEMMA AppendFacts ==
  ASSUME NEW S, NEW s \in Seq(S), NEW e \in S
  PROVE  /\ Append(s, e) \in Seq(S) /\ Len(Append(s, e)) = Len(s) + 1 /\ Len(s) \in Nat
         /\ Append(s, e) # <<>> /\ DOMAIN Append(s, e) = 1 .. Len(s) + 1 /\ DOMAIN s = 1 .. Len(s)
         /\ \A i \in 1 .. Len(s) : Append(s, e)[i] = s[i]
         /\ Append(s, e)[Len(s) + 1] = e
         /\ Range(Append(s, e)) = Range(s) \union {e}
         /\ IsInjective(s) /\ e \notin Range(s) => IsInjective(Append(s, e))
<1> DEFINE t == Append(s, e)
<1>1. /\ t \in Seq(S) /\ Len(t) = Len(s) + 1 /\ Len(s) \in Nat /\ t # <<>>
      /\ DOMAIN t = 1 .. Len(s) + 1 /\ DOMAIN s = 1 .. Len(s)
      /\ \A i \in 1 .. Len(s) : t[i] = s[i]
      /\ t[Len(s) + 1] = e
  BY AppendProperties, LenProperties, EmptySeq
<1> HIDE DEF t
<1>2. \A i \in 1 .. Len(s) + 1 : i \in 1 .. Len(s) \/ i = Len(s) + 1
  BY <1>1
<1>3. 1 .. Len(s) \subseteq 1 .. Len(s) + 1 /\ Len(s) + 1 \in 1 .. Len(s) + 1
  BY <1>1
<1>4. Range(t) = Range(s) \union {e}
  BY <1>1, <1>2, <1>3 DEF Range
<1>5. ASSUME IsInjective(s), e \notin Range(s)
      PROVE  IsInjective(t)
  <2>1. \A a \in 1 .. Len(s) : s[a] # e
    BY <1>1, <1>5 DEF Range
  <2>2. \A a, b \in 1 .. Len(s) : s[a] = s[b] => a = b
    BY <1>1, <1>5 DEF IsInjective
  <2> QED
    BY <1>1, <1>2, <2>1, <2>2 DEF IsInjective
<1> QED
  BY <1>1, <1>4, <1>5 DEF t

-----------------------------------------------------------------------------
(* The handlers.                                                           *)

(* The loop calls, and deletes, a handler that is allocated. *)
LEMMA CalledLive ==
  ASSUME TypeOK, HandlersInv, NEW c \in ev.heap
  PROVE  called(ev, c) = ev
<1>1. ~ev.wild /\ ev.wild \in BOOLEAN /\ c \in ev.heap
  BY DEF TypeOK, HandlersInv
<1>2. (ev.wild \/ c \notin ev.heap) = ev.wild
  BY <1>1
<1>3. [ev EXCEPT !.wild = ev.wild] = ev
  BY DEF TypeOK
<1> QED
  BY <1>2, <1>3 DEF called

LEMMA DroppedIs ==
  ASSUME TypeOK, HandlersInv, NEW fd \in Served
  PROVE  LET e == Dropped(ev, fd)
         IN  /\ e \in [closures : [AllFds -> Closures \union {NoClosure}],
                       watch : [AllFds -> Closures \union {NoClosure}],
                       heap : SUBSET Closures, wild : BOOLEAN]
             /\ e.closures = ev.closures
             /\ e.watch = [ev.watch EXCEPT ![fd] = NoClosure]
             /\ e.heap = ev.heap \ {<<fd, connAt[fd]>>}
             /\ ~e.wild
<1>1. /\ ev.closures[fd] = <<fd, connAt[fd]>> /\ <<fd, connAt[fd]>> \in ev.heap /\ ~ev.wild
      /\ fd \in AllFds
  BY Descriptors DEF HandlersInv, Served
<1>2. <<fd, connAt[fd]>> # NoClosure
  BY DEF NoClosure
<1>3. closed(ev, fd).closures = ev.closures /\ closed(ev, fd).heap = ev.heap
      /\ closed(ev, fd).wild = ev.wild
      /\ closed(ev, fd).watch = [ev.watch EXCEPT ![fd] = NoClosure]
      /\ closed(ev, fd) \in [closures : [AllFds -> Closures \union {NoClosure}],
                       watch : [AllFds -> Closures \union {NoClosure}],
                       heap : SUBSET Closures, wild : BOOLEAN]
  BY <1>1 DEF closed, TypeOK
<1>4. PICK e : e = closed(ev, fd)
  OBVIOUS
<1>5. PICK c : c = <<fd, connAt[fd]>>
  OBVIOUS
<1>6. Dropped(ev, fd) = [e EXCEPT !.watch[fd] = NoClosure, !.heap = @ \ {c}, !.wild = @ \/ c \notin e.heap]
  BY <1>1, <1>2, <1>3, <1>4, <1>5 DEF Dropped, unregisterEventHandler
<1>7. (e.wild \/ c \notin e.heap) = FALSE
  BY <1>1, <1>3, <1>4, <1>5
<1>8. [e.watch EXCEPT ![fd] = NoClosure] = e.watch
  BY <1>1, <1>3, <1>4 DEF TypeOK
<1>9. Dropped(ev, fd) = [e EXCEPT !.watch = e.watch, !.heap = e.heap \ {c}, !.wild = FALSE]
  BY <1>6, <1>7, <1>8
<1> QED
  BY <1>1, <1>3, <1>4, <1>5, <1>9, ZenonT(60)

LEMMA HeapTypes ==
  ASSUME TypeOK, HandlersInv
  PROVE  /\ \A fd \in Served : <<fd, connAt[fd]>> \in ev.heap /\ <<fd, connAt[fd]>> # Listener
         /\ \A c \in ev.heap : c = Listener \/ (c[1] \in Served /\ c = <<c[1], connAt[c[1]]>>)
         /\ Listener \in ev.heap
BY Descriptors DEF HandlersInv, Served, Listener

(* Nothing happens to the handlers: no connection comes or goes. *)
LEMMA HandlersStay ==
  ASSUME HandlersInv, UNCHANGED <<ev, batch, connAt>>, backlog # <<>> => backlog' # <<>>
  PROVE  HandlersInv'
BY DEF HandlersInv, Served

(* epoll_wait() returns handlers of descriptors that are watched. *)
LEMMA WaitKeepsHandlers ==
  ASSUME TypeOK, HandlersInv, Wait(Ready), UNCHANGED <<connAt, backlog>>
  PROVE  HandlersInv' /\ batch' \in Seq(Closures)
<1> DEFINE R == {fd \in Ready : ev.watch[fd] # NoClosure}
<1>1. PICK s \in [1 .. Cardinality(R) -> R] :
        IsInjective(s) /\ batch' = [i \in DOMAIN s |-> ev.watch[s[i]]]
  BY DEF Wait
<1>2. Ready \subseteq AllFds /\ (Listen \in Ready => backlog # <<>>)
  BY Descriptors DEF Ready
<1>3. Cardinality(R) \in Nat
  <2>1. IsFiniteSet(AllFds)
    BY FdAssumption, FS_AddElement DEF AllFds
  <2>2. IsFiniteSet(R)
    BY <1>2, <2>1, FS_Subset
  <2> QED
    BY <2>2, FS_CardinalityType
<1>4. \A fd \in R : /\ ev.watch[fd] \in ev.heap /\ ev.watch[fd][1] = fd
                    /\ (ev.watch[fd] = Listener => backlog # <<>>)
  <2> SUFFICES ASSUME NEW fd \in R
               PROVE  /\ ev.watch[fd] \in ev.heap /\ ev.watch[fd][1] = fd
                      /\ (ev.watch[fd] = Listener => backlog # <<>>)
    OBVIOUS
  <2>1. CASE fd = Listen
    BY <1>2, <2>1, HeapTypes DEF HandlersInv, Listener
  <2>2. CASE fd # Listen
    <3>1. fd \in Served /\ ev.watch[fd] = <<fd, connAt[fd]>>
      BY <1>2, <2>2 DEF HandlersInv, Served, AllFds
    <3> QED
      BY <3>1, HeapTypes
  <2> QED
    BY <2>1, <2>2
<1> HIDE DEF R
<1>5. batch' \in Seq(Closures) /\ Range(batch') \subseteq ev.heap
      /\ DOMAIN batch' = 1 .. Cardinality(R)
      /\ \A i \in 1 .. Cardinality(R) : s[i] \in R /\ batch'[i] = ev.watch[s[i]]
  <2>1. DOMAIN batch' = 1 .. Cardinality(R)
        /\ \A i \in 1 .. Cardinality(R) : s[i] \in R /\ batch'[i] = ev.watch[s[i]]
    BY <1>1
  <2>2. ev.heap \subseteq Closures
    BY DEF TypeOK
  <2>3. batch' \in [1 .. Cardinality(R) -> Closures]
    BY <1>1, <1>4, <2>2
  <2> QED
    BY <1>3, <1>4, <2>1, <2>3, SeqDef DEF Range
<1>6. IsInjective(batch')
  BY <1>1, <1>4, <1>5 DEF IsInjective
<1>7. Listener \in Range(batch') => backlog # <<>>
  BY <1>4, <1>5 DEF Range
<1>8. UNCHANGED ev
  BY DEF Wait
<1> QED
  BY <1>5, <1>6, <1>7, <1>8 DEF HandlersInv, Served

(* A handler has run and the loop goes on with the next one. *)
LEMMA NextHandler ==
  ASSUME TypeOK, HandlersInv, batch # <<>>, batch' = Tail(batch),
         UNCHANGED <<ev, connAt>>, Listener \in Range(batch') => backlog' # <<>>
  PROVE  HandlersInv'
<1>1. Range(batch') \subseteq Range(batch) /\ IsInjective(batch')
  BY TailFacts DEF TypeOK, HandlersInv
<1> QED
  BY <1>1 DEF HandlersInv, Served

(* accept(): the descriptor was free, so nothing that the loop has still   *)
(* to call is for it.                                                      *)
LEMMA AcceptKeepsHandlers ==
  ASSUME ServerInv, Accept
  PROVE  /\ HandlersInv'
         /\ ev' \in [closures : [AllFds -> Closures \union {NoClosure}],
                     watch : [AllFds -> Closures \union {NoClosure}],
                     heap : SUBSET Closures, wild : BOOLEAN]
<1> DEFINE k == Head(backlog)
           fd == CHOOSE f \in Fds : connAt[f] = 0 /\ \A g \in Fds : connAt[g] = 0 => f <= g
           taken == conns[k].up # <<>> /\ Head(conns[k].up) = <<"version", Good>>
           EvType == [closures : [AllFds -> Closures \union {NoClosure}],
                      watch : [AllFds -> Closures \union {NoClosure}],
                      heap : SUBSET Closures, wild : BOOLEAN]
<1>1. /\ TypeOK /\ HandlersInv /\ batch # <<>> /\ Head(batch) = Listener
      /\ batch' = Tail(batch) /\ Listener \in ev.heap /\ called(ev, Listener) = ev
      /\ Listener \notin Range(batch') /\ backlog # <<>>
      /\ ev \in EvType
      /\ Range(batch') \subseteq ev.heap /\ IsInjective(batch')
  <2>1. TypeOK /\ HandlersInv /\ batch # <<>> /\ Head(batch) = Listener /\ batch' = Tail(batch)
    BY DEF ServerInv, Accept
  <2>2. /\ Listener \in Range(batch) /\ Listener \notin Range(batch')
        /\ Range(batch') \subseteq Range(batch) /\ IsInjective(batch')
    BY <2>1, TailFacts DEF TypeOK, HandlersInv
  <2>3. Listener \in ev.heap /\ backlog # <<>> /\ Range(batch') \subseteq ev.heap
    BY <2>1, <2>2 DEF HandlersInv
  <2> QED
    BY <2>1, <2>2, <2>3, CalledLive DEF TypeOK
<1>2. k \in 1 .. Len(conns) /\ Len(conns) \in Nat /\ Len(conns) <= MaxConns /\ k \in 0 .. MaxConns
      /\ k # 0
  <2>1. backlog \in Seq(1 .. Len(conns)) /\ Len(conns) \in Nat /\ Len(conns) <= MaxConns
    BY <1>1, LenProperties DEF TypeOK
  <2>2. k \in 1 .. Len(conns)
    BY <1>1, <2>1, TailFacts
  <2> QED
    BY <2>1, <2>2, BoundAssumption
<1>3. CASE Full
  <2>1. UNCHANGED <<ev, connAt>>
    BY <1>1, <1>3 DEF Accept
  <2> QED
    BY <1>1, <2>1, NextHandler
<1>4. CASE ~Full
  <2>1. fd \in Fds /\ connAt[fd] = 0 /\ fd \notin Served /\ fd \in AllFds /\ fd # Listen
    <3>1. fd \in Fds /\ connAt[fd] = 0
      BY <1>1, <1>4, FreeDescriptor
    <3> QED
      BY <3>1, Descriptors DEF Served
  <2>2. /\ ev' = IF conns[k].up = <<>> THEN closed(ev, fd)
                 ELSE registerEventHandler(ev, fd, <<fd, k>>, taken)
        /\ connAt' = IF taken THEN [connAt EXCEPT ![fd] = k] ELSE connAt
    BY <1>1, <1>4 DEF Accept
  <2>3. ev.watch[fd] = NoClosure
    BY <1>1, <2>1 DEF HandlersInv
  <2> HIDE DEF fd, k
  <2>4. <<fd, k>> \in Closures /\ <<fd, k>> # Listener /\ <<fd, k>> # NoClosure
    BY <1>2, <2>1 DEF Closures, Listener, NoClosure
  <2>5. CASE conns[k].up = <<>>
    <3>1. UNCHANGED connAt
      BY <2>2, <2>5
    <3>2. UNCHANGED ev
      <4>1. [ev.watch EXCEPT ![fd] = NoClosure] = ev.watch
        BY <1>1, <2>1, <2>3
      <4>2. ev' = [ev EXCEPT !.watch[fd] = NoClosure]
        BY <2>2, <2>5 DEF closed
      <4> QED
        BY <1>1, <4>1, <4>2
    <3> QED
      BY <1>1, <3>1, <3>2, NextHandler
  <2>6. CASE conns[k].up # <<>> /\ ~taken
    <3>1. UNCHANGED connAt /\ ev' = [ev EXCEPT !.closures[fd] = <<fd, k>>]
      BY <2>2, <2>6 DEF registerEventHandler
    <3>2. /\ ev' \in EvType /\ ev'.heap = ev.heap /\ ev'.wild = ev.wild /\ ev'.watch = ev.watch
          /\ \A f \in Served : ev'.closures[f] = ev.closures[f]
      BY <1>1, <2>1, <2>4, <3>1, Descriptors DEF Served
    <3>3. Served' = Served
      BY <3>1 DEF Served
    <3>4. /\ ev'.watch[Listen] = Listener
          /\ \A f \in Served' : ev'.watch[f] = <<f, connAt'[f]>> /\ ev'.closures[f] = <<f, connAt'[f]>>
          /\ \A f \in Fds \ Served' : ev'.watch[f] = NoClosure
      BY <1>1, <3>1, <3>2, <3>3 DEF HandlersInv
    <3>5. ev'.heap = {Listener} \union {<<f, connAt'[f]>> : f \in Served'}
      BY <1>1, <3>1, <3>2, <3>3 DEF HandlersInv
    <3> QED
      BY <1>1, <3>2, <3>4, <3>5 DEF HandlersInv
  <2>7. CASE taken
    <3>1. /\ connAt' = [connAt EXCEPT ![fd] = k]
          /\ ev' = [ev EXCEPT !.closures[fd] = <<fd, k>>, !.watch[fd] = <<fd, k>>,
                              !.heap = @ \union {<<fd, k>>}]
      BY <2>2, <2>7 DEF registerEventHandler
    <3>2. /\ ev' \in EvType /\ ev'.heap = ev.heap \union {<<fd, k>>} /\ ev'.wild = ev.wild
          /\ ev'.watch = [ev.watch EXCEPT ![fd] = <<fd, k>>]
          /\ ev'.closures = [ev.closures EXCEPT ![fd] = <<fd, k>>]
      BY <1>1, <2>1, <2>4, <3>1
    <3>3. /\ Served' = Served \union {fd}
          /\ connAt'[fd] = k /\ \A f \in Fds : f # fd => connAt'[f] = connAt[f]
      BY <1>1, <1>2, <2>1, <3>1 DEF Served, TypeOK
    <3>4. /\ ev'.watch[Listen] = Listener
          /\ \A f \in Served' : ev'.watch[f] = <<f, connAt'[f]>> /\ ev'.closures[f] = <<f, connAt'[f]>>
          /\ \A f \in Fds \ Served' : ev'.watch[f] = NoClosure
      BY <1>1, <2>1, <3>2, <3>3, Descriptors DEF HandlersInv, Served
    <3>5. ev'.heap = {Listener} \union {<<f, connAt'[f]>> : f \in Served'}
      BY <1>1, <2>1, <3>2, <3>3 DEF HandlersInv, Served
    <3> QED
      BY <1>1, <3>2, <3>4, <3>5 DEF HandlersInv
  <2> QED
    BY <2>5, <2>6, <2>7
<1> QED
  BY <1>3, <1>4

(* The connection behind a handler that the loop has still to run. *)
LEMMA HeadHandler ==
  ASSUME TypeOK, HandlersInv, batch # <<>>, Head(batch) # Listener
  PROVE  /\ Head(batch)[1] \in Served /\ Head(batch) = <<Head(batch)[1], connAt[Head(batch)[1]]>>
         /\ Head(batch) \in ev.heap /\ Head(batch) \notin Range(Tail(batch))
         /\ called(ev, Head(batch)) = ev
<1>1. Head(batch) \in Range(batch) /\ Head(batch) \notin Range(Tail(batch))
  BY TailFacts DEF TypeOK, HandlersInv
<1>2. Head(batch) \in ev.heap
  BY <1>1 DEF HandlersInv
<1> QED
  BY <1>1, <1>2, HeapTypes, CalledLive

(* A connection is dropped: its handler is deleted while it is still       *)
(* allocated, and the loop will not call it again.                         *)
LEMMA DisconnectKeepsHandlers ==
  ASSUME TypeOK, HandlersInv, batch # <<>>, Head(batch) # Listener,
         batch' = Tail(batch), Disconnect(Head(batch)[1]), UNCHANGED backlog
  PROVE  /\ HandlersInv'
         /\ ev' \in [closures : [AllFds -> Closures \union {NoClosure}],
                     watch : [AllFds -> Closures \union {NoClosure}],
                     heap : SUBSET Closures, wild : BOOLEAN]
<1>1. PICK fd \in Served : /\ fd = Head(batch)[1] /\ Head(batch) = <<fd, connAt[fd]>>
                           /\ called(ev, Head(batch)) = ev
                           /\ <<fd, connAt[fd]>> \notin Range(Tail(batch))
  BY HeadHandler
<1>2. ev' = Dropped(ev, fd) /\ connAt' = [connAt EXCEPT ![fd] = 0]
  BY <1>1 DEF Disconnect
<1>3. /\ ev' \in [closures : [AllFds -> Closures \union {NoClosure}],
                  watch : [AllFds -> Closures \union {NoClosure}],
                  heap : SUBSET Closures, wild : BOOLEAN]
      /\ ev'.closures = ev.closures
      /\ ev'.watch = [ev.watch EXCEPT ![fd] = NoClosure]
      /\ ev'.heap = ev.heap \ {<<fd, connAt[fd]>>}
      /\ ~ev'.wild
  BY <1>2, DroppedIs
<1>4. fd \in Fds /\ fd \in AllFds /\ fd # Listen /\ Listen \in AllFds
  BY Descriptors DEF Served
<1>5. /\ Served' = Served \ {fd}
      /\ \A f \in Fds : f # fd => connAt'[f] = connAt[f]
  BY <1>2, <1>4 DEF Served, TypeOK
<1>6. /\ ev'.watch[Listen] = Listener
      /\ \A f \in Served' : ev'.watch[f] = <<f, connAt'[f]>> /\ ev'.closures[f] = <<f, connAt'[f]>>
      /\ \A f \in Fds \ Served' : ev'.watch[f] = NoClosure
  BY <1>3, <1>4, <1>5, Descriptors DEF HandlersInv, Served, TypeOK
<1>7. ev'.heap = {Listener} \union {<<f, connAt'[f]>> : f \in Served'}
  <2>1. <<fd, connAt[fd]>> # Listener
    BY HeapTypes
  <2> QED
    BY <1>3, <1>4, <1>5, <2>1 DEF HandlersInv, Served
<1>8. /\ IsInjective(batch') /\ Range(batch') \subseteq ev'.heap
      /\ Listener \in Range(batch') => backlog' # <<>>
  <2>1. Range(batch') \subseteq Range(batch) /\ IsInjective(batch')
    BY TailFacts DEF TypeOK, HandlersInv
  <2> QED
    BY <1>1, <1>3, <2>1 DEF HandlersInv
<1> QED
  BY <1>3, <1>6, <1>7, <1>8 DEF HandlersInv

-----------------------------------------------------------------------------
(* The requests of a connection.                                           *)

LEMMA RequestIs ==
  ASSUME NEW t \in Requests
  PROVE  /\ t[1] \in {"version", "define", "invoke", "body"}
         /\ Begins(t) => t[2] \in Eids
         /\ t[1] = "body" => t[2] \in 0 .. MaxCalls
BY DEF Requests, Begins

(* A request is added to what the server has to read. *)
LEMMA SentWhole ==
  ASSUME NEW up \in Seq(Requests), NEW queued \in BOOLEAN, Whole(up, queued, TRUE),
         NEW r \in Requests, Begins(r), NEW b \in Requests, b[1] = "body"
  PROVE  up \o <<r, b>> \in Seq(Requests) /\ Whole(up \o <<r, b>>, queued, TRUE)
<1> DEFINE t == up \o <<r, b>>
<1>1. PICK n \in Nat : n = Len(up) /\ DOMAIN up = 1 .. n
  BY LenProperties
<1>2. <<r, b>> \in Seq(Requests) /\ Len(<<r, b>>) = 2
  OBVIOUS
<1>3. /\ t \in Seq(Requests) /\ Len(t) = n + 2
      /\ \A i \in 1 .. n : t[i] = up[i]
      /\ t[n + 1] = r /\ t[n + 2] = b
  BY <1>1, <1>2, ConcatProperties
<1>4. t # <<>> /\ (up # <<>> <=> n > 0)
  BY <1>1, <1>3, EmptySeq
<1> HIDE DEF t
<1>5. /\ r[1] # "body" /\ r[1] # "version" /\ ~Begins(b) /\ b[1] # "version"
      /\ queued => up # <<>>
      /\ up # <<>> => ~Begins(up[n])
  BY <1>1 DEF Begins, Whole
<1>6. ASSUME NEW j \in 1 .. Len(t) - 1
      PROVE  Begins(t[j]) <=> t[j + 1][1] = "body"
  <2>1. CASE j \in 1 .. n - 1
    BY <1>1, <1>3, <2>1 DEF Whole
  <2>2. CASE j = n
    BY <1>3, <1>4, <1>5, <2>2
  <2>3. CASE j = n + 1
    BY <1>3, <2>3
  <2> QED
    BY <1>3, <2>1, <2>2, <2>3
<1>7. ASSUME NEW j \in 2 .. Len(t)
      PROVE  t[j][1] # "version"
  <2>1. CASE j \in 2 .. n
    BY <1>1, <1>3, <2>1 DEF Whole
  <2>2. CASE j = n + 1 \/ j = n + 2
    BY <1>3, <1>5, <2>2
  <2> QED
    BY <1>3, <2>1, <2>2
<1>8. IF queued THEN t[1][1] = "version" ELSE Begins(t[1])
  <2>1. CASE up = <<>>
    BY <1>3, <1>4, <1>5, <2>1
  <2>2. CASE up # <<>>
    BY <1>3, <1>4, <2>2 DEF Whole
  <2> QED
    BY <2>1, <2>2
<1>9. ~Begins(t[Len(t)])
  BY <1>3, <1>5
<1> QED
  BY <1>3, <1>4, <1>6, <1>7, <1>8, <1>9 DEF Whole, t

(* A client dies inside a request. *)
LEMMA CutWhole ==
  ASSUME NEW up \in Seq(Requests), NEW queued \in BOOLEAN, Whole(up, queued, TRUE),
         NEW r \in Requests, Begins(r)
  PROVE  up \o <<r>> \in Seq(Requests) /\ Whole(up \o <<r>>, queued, FALSE)
<1> DEFINE t == up \o <<r>>
<1>1. PICK n \in Nat : n = Len(up) /\ DOMAIN up = 1 .. n
  BY LenProperties
<1>2. <<r>> \in Seq(Requests) /\ Len(<<r>>) = 1
  OBVIOUS
<1>3. /\ t \in Seq(Requests) /\ Len(t) = n + 1
      /\ \A i \in 1 .. n : t[i] = up[i]
      /\ t[n + 1] = r
  BY <1>1, <1>2, ConcatProperties
<1>4. t # <<>> /\ (up # <<>> <=> n > 0)
  BY <1>1, <1>3, EmptySeq
<1> HIDE DEF t
<1>5. /\ r[1] # "body" /\ r[1] # "version"
      /\ queued => up # <<>>
      /\ up # <<>> => ~Begins(up[n])
  BY <1>1 DEF Begins, Whole
<1>6. ASSUME NEW j \in 1 .. Len(t) - 1
      PROVE  Begins(t[j]) <=> t[j + 1][1] = "body"
  <2>1. CASE j \in 1 .. n - 1
    BY <1>1, <1>3, <2>1 DEF Whole
  <2>2. CASE j = n
    BY <1>3, <1>4, <1>5, <2>2
  <2> QED
    BY <1>3, <2>1, <2>2
<1>7. ASSUME NEW j \in 2 .. Len(t)
      PROVE  t[j][1] # "version"
  <2>1. CASE j \in 2 .. n
    BY <1>1, <1>3, <2>1 DEF Whole
  <2>2. CASE j = n + 1
    BY <1>3, <1>5, <2>2
  <2> QED
    BY <1>3, <2>1, <2>2
<1>8. IF queued THEN t[1][1] = "version" ELSE Begins(t[1])
  <2>1. CASE up = <<>>
    BY <1>3, <1>4, <1>5, <2>1
  <2>2. CASE up # <<>>
    BY <1>3, <1>4, <2>2 DEF Whole
  <2> QED
    BY <2>1, <2>2
<1> QED
  BY <1>3, <1>4, <1>6, <1>7, <1>8 DEF Whole, t

(* The version is read, and what follows it are requests. *)
LEMMA AcceptedWhole ==
  ASSUME NEW up \in Seq(Requests), NEW open \in BOOLEAN, Whole(up, TRUE, open), up # <<>>
  PROVE  Tail(up) \in Seq(Requests) /\ Whole(Tail(up), FALSE, open)
<1>1. PICK n \in Nat \ {0} : n = Len(up) /\ DOMAIN up = 1 .. n
  BY LenProperties, EmptySeq
<1>2. PICK t \in Seq(Requests) : t = Tail(up) /\ Len(t) = n - 1 /\ (t # <<>> <=> n > 1)
  <2>1. Tail(up) \in Seq(Requests) /\ Len(Tail(up)) = n - 1
    BY <1>1, HeadTailProperties
  <2>2. PICK t \in Seq(Requests) : t = Tail(up)
    BY <2>1
  <2>3. t = <<>> <=> Len(t) = 0
    BY EmptySeq
  <2> QED
    BY <1>1, <2>1, <2>2, <2>3
<1>3. \A i \in 1 .. n - 1 : t[i] = up[i + 1]
  BY <1>1, <1>2, HeadTailProperties
<1>4. /\ \A j \in 1 .. n - 1 : Begins(up[j]) <=> up[j + 1][1] = "body"
      /\ \A j \in 2 .. n : up[j][1] # "version"
      /\ up[1][1] = "version" /\ ~Begins(up[1])
      /\ open => ~Begins(up[n])
  BY <1>1 DEF Whole, Begins
<1>5. \A j \in 1 .. n - 1 : j + 1 \in 1 .. n /\ j + 1 \in 2 .. n
  BY <1>1
<1>6. ASSUME NEW j \in 1 .. n - 2
      PROVE  Begins(t[j]) <=> t[j + 1][1] = "body"
  <2>1. j \in 1 .. n - 1 /\ j + 1 \in 1 .. n - 1
    BY <1>1
  <2> QED
    BY <1>3, <1>4, <2>1
<1>7. ASSUME NEW j \in 2 .. n - 1
      PROVE  t[j][1] # "version"
  <2>1. j \in 1 .. n - 1
    BY <1>1
  <2> QED
    BY <1>3, <1>4, <1>5, <2>1
<1>8. ASSUME t # <<>>
      PROVE  Begins(t[1])
  <2>1. n > 1 /\ 1 \in 1 .. n - 1 /\ 2 \in 1 .. n /\ 2 \in 2 .. n /\ 1 + 1 = 2
    BY <1>1, <1>2, <1>8
  <2>2. t[1] = up[2] /\ up[2][1] # "body" /\ up[2][1] # "version"
    BY <1>3, <1>4, <2>1
  <2>3. up[2] \in Requests
    BY <1>1, <2>1, ElementOfSeq
  <2> QED
    BY <2>2, <2>3, RequestIs DEF Begins
<1>9. ASSUME t # <<>>, open
      PROVE  ~Begins(t[n - 1])
  <2>1. n - 1 \in 1 .. n - 1 /\ (n - 1) + 1 = n
    BY <1>1, <1>2, <1>9
  <2> QED
    BY <1>3, <1>4, <1>9, <2>1
<1> QED
  BY <1>1, <1>2, <1>6, <1>7, <1>8, <1>9 DEF Whole

(* The server has answered a request: the next one begins what is left. *)
LEMMA AnsweredWhole ==
  ASSUME NEW up \in Seq(Requests), NEW open \in BOOLEAN, Whole(up, FALSE, open), up # <<>>
  PROVE  SubSeq(up, 3, Len(up)) \in Seq(Requests) /\ Whole(SubSeq(up, 3, Len(up)), FALSE, open)
<1>1. PICK n \in Nat \ {0} : n = Len(up) /\ DOMAIN up = 1 .. n
  BY LenProperties, EmptySeq
<1>2. CASE n <= 2
  <2>1. SubSeq(up, 3, Len(up)) = <<>>
    BY <1>1, <1>2, SubSeqProperties, EmptySeq
  <2>2. <<>> \in Seq(Requests) /\ Len(<<>>) = 0
    OBVIOUS
  <2> QED
    BY <2>1, <2>2 DEF Whole
<1>3. CASE n > 2
  <2>1. PICK t \in Seq(Requests) : /\ t = SubSeq(up, 3, Len(up)) /\ Len(t) = n - 2 /\ t # <<>>
                                   /\ \A i \in 1 .. n - 2 : t[i] = up[i + 2]
    <3>1. \A i \in 3 .. n : up[i] \in Requests
      BY <1>1, ElementOfSeq
    <3>2. /\ SubSeq(up, 3, n) \in Seq(Requests) /\ Len(SubSeq(up, 3, n)) = n - 2
          /\ \A i \in 1 .. n - 2 : SubSeq(up, 3, n)[i] = up[i + 2]
      BY <1>1, <1>3, <3>1, SubSeqProperties
    <3>3. PICK t \in Seq(Requests) : t = SubSeq(up, 3, n)
      BY <3>2
    <3>4. Len(t) # 0
      BY <1>3, <3>2, <3>3
    <3>5. t # <<>>
      BY <3>4, EmptySeq
    <3> QED
      BY <1>1, <3>2, <3>3, <3>5
  <2>2. /\ \A j \in 1 .. n - 1 : Begins(up[j]) <=> up[j + 1][1] = "body"
        /\ \A j \in 2 .. n : up[j][1] # "version"
        /\ Begins(up[1])
        /\ open => ~Begins(up[n])
    BY <1>1 DEF Whole
  <2>3. ASSUME NEW j \in 1 .. n - 3
        PROVE  Begins(t[j]) <=> t[j + 1][1] = "body"
    <3>1. /\ j \in 1 .. n - 2 /\ j + 1 \in 1 .. n - 2 /\ j + 2 \in 1 .. n - 1
          /\ (j + 2) + 1 = (j + 1) + 2
      BY <1>1
    <3> QED
      BY <2>1, <2>2, <3>1
  <2>4. ASSUME NEW j \in 2 .. n - 2
        PROVE  t[j][1] # "version"
    <3>1. j \in 1 .. n - 2 /\ j + 2 \in 2 .. n
      BY <1>1
    <3> QED
      BY <2>1, <2>2, <3>1
  <2>5. Begins(t[1])
    <3>1. /\ 1 \in 1 .. n - 1 /\ 2 \in 1 .. n - 1 /\ 3 \in 2 .. n /\ 1 \in 1 .. n - 2
          /\ 1 + 1 = 2 /\ 2 + 1 = 3 /\ 1 + 2 = 3
      BY <1>1, <1>3
    <3>2. up[2][1] = "body" /\ ~Begins(up[2])
      BY <2>2, <3>1 DEF Begins
    <3>3. t[1] = up[3] /\ up[3][1] # "body" /\ up[3][1] # "version"
      BY <2>1, <2>2, <3>1, <3>2
    <3>4. up[3] \in Requests
      BY <1>1, <1>3, ElementOfSeq
    <3> QED
      BY <3>3, <3>4, RequestIs DEF Begins
  <2>6. open => ~Begins(t[n - 2])
    <3>1. n - 2 \in 1 .. n - 2 /\ (n - 2) + 2 = n
      BY <1>1, <1>3
    <3> QED
      BY <2>1, <2>2, <3>1
  <2>7. n - 2 = Len(t) /\ n - 3 = Len(t) - 1
    BY <1>1, <2>1
  <2> QED
    BY <2>1, <2>3, <2>4, <2>5, <2>6, <2>7 DEF Whole
<1>4. n <= 2 \/ n > 2
  BY <1>1
<1> QED
  BY <1>2, <1>3, <1>4

LEMMA GoneWhole ==
  ASSUME NEW up, NEW queued, Whole(up, queued, TRUE)
  PROVE  Whole(up, queued, FALSE)
BY DEF Whole

-----------------------------------------------------------------------------
(* The connections.                                                        *)

(* What one connection's change means for all of them. *)
LEMMA ConnChanged ==
  ASSUME TypeOK, RequestsWhole, NEW k \in 1 .. Len(conns), NEW cn \in Connections,
         conns' = [conns EXCEPT ![k] = cn],
         cn.server # "closed" => Whole(cn.up, cn.server = "queued", cn.open)
  PROVE  /\ conns' \in Seq(Connections) /\ Len(conns') = Len(conns) /\ RequestsWhole'
         /\ conns'[k] = cn /\ \A i \in 1 .. Len(conns) : i # k => conns'[i] = conns[i]
<1>1. conns \in Seq(Connections) /\ DOMAIN conns = 1 .. Len(conns)
  BY LenProperties DEF TypeOK
<1>2. /\ conns' \in Seq(Connections) /\ Len(conns') = Len(conns)
      /\ conns'[k] = cn /\ \A i \in 1 .. Len(conns) : i # k => conns'[i] = conns[i]
      /\ DOMAIN conns' = 1 .. Len(conns)
  BY <1>1, ExceptSeq
<1>3. ASSUME NEW i \in 1 .. Len(conns), conns'[i].server # "closed"
      PROVE  Whole(conns'[i].up, conns'[i].server = "queued", conns'[i].open)
  <2>1. CASE i = k
    BY <1>2, <1>3, <2>1
  <2>2. CASE i # k
    BY <1>1, <1>2, <1>3, <2>2 DEF RequestsWhole
  <2> QED
    BY <2>1, <2>2
<1> QED
  BY <1>2, <1>3 DEF RequestsWhole

LEMMA ConnAdded ==
  ASSUME TypeOK, RequestsWhole, NEW cn \in Connections, Len(conns) < MaxConns,
         conns' = Append(conns, cn), cn.server = "queued", Whole(cn.up, TRUE, cn.open)
  PROVE  /\ conns' \in Seq(Connections) /\ Len(conns') = Len(conns) + 1 /\ RequestsWhole'
         /\ conns'[Len(conns) + 1] = cn /\ \A i \in 1 .. Len(conns) : conns'[i] = conns[i]
         /\ Len(conns) \in Nat /\ Len(conns') <= MaxConns /\ Len(conns) + 1 \in 0 .. MaxConns
<1>1. conns \in Seq(Connections) /\ DOMAIN conns = 1 .. Len(conns) /\ Len(conns) \in Nat
  BY LenProperties DEF TypeOK
<1>2. /\ conns' \in Seq(Connections) /\ Len(conns') = Len(conns) + 1
      /\ conns'[Len(conns) + 1] = cn /\ \A i \in 1 .. Len(conns) : conns'[i] = conns[i]
      /\ DOMAIN conns' = 1 .. Len(conns) + 1
  BY <1>1, AppendFacts
<1>3. ASSUME NEW i \in 1 .. Len(conns) + 1, conns'[i].server # "closed"
      PROVE  Whole(conns'[i].up, conns'[i].server = "queued", conns'[i].open)
  <2>1. CASE i = Len(conns) + 1
    <3>1. conns'[i] = cn
      BY <1>2, <2>1
    <3>2. (cn.server = "queued") = TRUE
      OBVIOUS
    <3> QED
      BY <3>1, <3>2
  <2>2. CASE i \in 1 .. Len(conns)
    BY <1>1, <1>2, <1>3, <2>2 DEF RequestsWhole
  <2> QED
    BY <1>1, <2>1, <2>2
<1>4. Len(conns) + 1 <= MaxConns /\ Len(conns) + 1 \in 0 .. MaxConns
  BY <1>1, BoundAssumption
<1> QED
  BY <1>1, <1>2, <1>3, <1>4 DEF RequestsWhole

(* What TypeOK says of the connections, for one of them. *)
LEMMA ConnIs ==
  ASSUME TypeOK, NEW k \in 1 .. Len(conns)
  PROVE  /\ conns[k] \in Connections /\ k \in DOMAIN conns
         /\ conns[k].up \in Seq(Requests) /\ conns[k].down \in Seq(Replies)
         /\ conns[k].open \in BOOLEAN /\ conns[k].owner \in Clients
         /\ conns[k].server \in {"queued", "served", "closed"}
<1>1. conns \in Seq(Connections) /\ DOMAIN conns = 1 .. Len(conns)
  BY LenProperties DEF TypeOK
<1>2. conns[k] \in Connections
  BY <1>1, ElementOfSeq
<1> QED
  BY <1>1, <1>2 DEF Connections

(* Only the server moves connections.  A client that goes on has its own   *)
(* socket still open.                                                      *)
LEMMA PlacesStay ==
  ASSUME TypeOK, ConnectionPlaces, UNCHANGED <<connAt, backlog>>,
         \A k \in 1 .. Len(conns) : conns'[k].server = conns[k].server /\ conns'[k].owner = conns[k].owner,
         \A c \in Clients : client'[c].phase \notin {"new", "gone"} =>
           /\ client[c].phase \notin {"new", "gone"}
           /\ client'[c].conn = client[c].conn
           /\ conns'[client[c].conn].open = conns[client[c].conn].open
  PROVE  ConnectionPlaces'
<1>1. \A fd \in Served : connAt[fd] \in 1 .. Len(conns)
  <2>1. Len(conns) \in Nat /\ connAt \in [Fds -> 0 .. Len(conns)]
    BY LenProperties DEF TypeOK
  <2> QED
    BY <2>1 DEF Served
<1>2. \A k \in Range(backlog) : k \in 1 .. Len(conns)
  <2>1. backlog \in Seq(1 .. Len(conns))
    BY DEF TypeOK
  <2> QED
    BY <2>1, ElementOfSeq, LenProperties DEF Range
<1>3. \A c \in Clients : client[c].conn # 0 => client[c].conn \in 1 .. Len(conns)
  <2>1. Len(conns) \in Nat
    BY LenProperties DEF TypeOK
  <2>2. \A c \in Clients : client[c].conn \in 0 .. MaxConns /\ client[c].conn <= Len(conns)
    BY DEF TypeOK, ClientStates
  <2> QED
    BY <2>1, <2>2, BoundAssumption
<1>4. Served' = Served
  BY DEF Served
<1>5. (\A fd \in Served : conns[connAt[fd]].server = "served")'
  BY <1>1, <1>4 DEF ConnectionPlaces
<1>6. (\A f, g \in Served : connAt[f] = connAt[g] => f = g)'
  BY <1>4 DEF ConnectionPlaces
<1>7. (\A k \in Range(backlog) : conns[k].server = "queued")' /\ IsInjective(backlog')
  BY <1>2 DEF ConnectionPlaces
<1>8. ASSUME NEW c \in Clients, client'[c].phase \notin {"new", "gone"}
      PROVE  client'[c].conn # 0 /\ conns'[client'[c].conn].owner = c /\ conns'[client'[c].conn].open
  <2>1. PICK k : k = client[c].conn /\ k # 0 /\ conns[k].owner = c /\ conns[k].open
    BY <1>8 DEF ConnectionPlaces
  <2>2. k \in 1 .. Len(conns) /\ client'[c].conn = k /\ conns'[k].open = conns[k].open
    BY <1>3, <1>8, <2>1
  <2> QED
    BY <2>1, <2>2
<1> QED
  BY <1>5, <1>6, <1>7, <1>8 DEF ConnectionPlaces

LEMMA CallbacksStay ==
  ASSUME ServerInv, UNCHANGED client
  PROVE  CallbacksWait'
BY DEF ServerInv, CallbacksWait

-----------------------------------------------------------------------------
(* The server's steps.                                                     *)

LEMMA ServerInit ==
  ASSUME Init
  PROVE  ServerInv
<1>1. /\ <<>> \in Seq(Closures) /\ <<>> \in Seq(Connections) /\ <<>> \in Seq(1 .. 0)
      /\ <<>> \in Seq(Eids) /\ <<>> \in Seq(1 .. MaxCalls) /\ <<>> \in Seq(Replies)
      /\ Len(<<>>) = 0 /\ Range(<<>>) = {} /\ IsInjective(<<>>) /\ DOMAIN <<>> = {}
  <2>1. DOMAIN <<>> = {}
    OBVIOUS
  <2> QED
    BY <2>1 DEF Range, IsInjective
<1>2. Listener \in Closures /\ Listener # NoClosure
  BY Descriptors, BoundAssumption DEF Listener, Closures, NoClosure
<1>3. /\ ev.closures = [NoHandlers.closures EXCEPT ![Listen] = Listener]
      /\ ev.watch = [NoHandlers.watch EXCEPT ![Listen] = Listener]
      /\ ev.heap = {Listener} /\ ev.wild = FALSE
      /\ ev \in [closures : [AllFds -> Closures \union {NoClosure}],
                 watch : [AllFds -> Closures \union {NoClosure}],
                 heap : SUBSET Closures, wild : BOOLEAN]
  <2>1. ev = [NoHandlers EXCEPT !.closures[Listen] = Listener, !.watch[Listen] = Listener,
                                !.heap = @ \union {Listener}]
    BY DEF Init, registerEventHandler
  <2>2. NoHandlers \in [closures : [AllFds -> Closures \union {NoClosure}],
                        watch : [AllFds -> Closures \union {NoClosure}],
                        heap : SUBSET Closures, wild : BOOLEAN]
        /\ NoHandlers.heap = {} /\ NoHandlers.wild = FALSE
    BY DEF NoHandlers
  <2> QED
    BY <1>2, <2>1, <2>2, Descriptors
<1>4. Served = {}
  BY DEF Init, Served
<1>5. HandlersInv
  <2>1. ev.watch[Listen] = Listener /\ \A fd \in Fds : ev.watch[fd] = NoClosure
    BY <1>3, Descriptors DEF NoHandlers
  <2>2. batch = <<>>
    BY DEF Init
  <2> QED
    BY <1>1, <1>3, <1>4, <2>1, <2>2 DEF HandlersInv
<1>6. NewClient \in ClientStates /\ NewClient.conn = 0 /\ NewClient.phase = "new"
  <2>1. 1 \in Eids /\ 0 \in 0 .. MaxConns
    BY EidAssumption, BoundAssumption
  <2> QED
    BY <1>1, <2>1 DEF NewClient, ClientStates
<1>7. TypeOK
  <2>1. conns = <<>> /\ backlog = <<>> /\ batch = <<>> /\ Len(conns) = 0 /\ 0 <= MaxConns
    BY <1>1, BoundAssumption DEF Init
  <2>2. connAt \in [Fds -> 0 .. 0] /\ cnetFns \in [Fds -> [Eids -> 0 .. MaxConns]]
    BY BoundAssumption DEF Init
  <2>3. client \in [Clients -> ClientStates] /\ \A c \in Clients : client[c].conn <= 0
    BY <1>6 DEF Init
  <2>4. /\ timers \in [Timers -> {"off", "waiting", "due"}] /\ limit \in Limits /\ alive \in BOOLEAN
        /\ made \in 0 .. MaxCalls /\ stale \subseteq Clients
    BY BoundAssumption DEF Init
  <2> QED
    BY <1>1, <1>3, <2>1, <2>2, <2>3, <2>4 DEF TypeOK
<1>8. ConnectionPlaces
  <2>1. \A c \in Clients : client[c].phase = "new"
    BY <1>6 DEF Init
  <2>2. backlog = <<>>
    BY DEF Init
  <2> QED
    BY <1>1, <1>4, <2>1, <2>2 DEF ConnectionPlaces
<1>9. RequestsWhole
  BY <1>1 DEF Init, RequestsWhole
<1>10. CallbacksWait
  <2>1. ASSUME NEW e
        PROVE  Readers(<<>>, e) = {}
    BY <1>1 DEF Readers
  <2>2. \A c \in Clients : /\ client[c].asyncReaders = <<>>
                           /\ \A e \in Eids : Len(client[c].ks[e]) = 0
    BY <1>1 DEF Init, NewClient
  <2>3. Cardinality({}) = 0
    BY FS_EmptySet
  <2>4. ASSUME NEW c \in Clients, NEW e \in Eids
        PROVE  Cardinality(Readers(client[c].asyncReaders, e)) <= Len(client[c].ks[e])
    <3>1. Readers(client[c].asyncReaders, e) = {}
      BY <2>1, <2>2
    <3>2. Len(client[c].ks[e]) = 0
      BY <2>2
    <3>3. 0 <= 0
      OBVIOUS
    <3> QED
      BY <2>3, <3>1, <3>2, <3>3
  <2> QED
    BY <2>4 DEF CallbacksWait
<1> QED
  BY <1>5, <1>7, <1>8, <1>9, <1>10 DEF ServerInv

(* epoll_wait(), and timers. *)
LEMMA LoopInv ==
  ASSUME ServerInv, Wait(Ready) \/ RunTimers(Ready) \/ (\E t \in Timers : addTimer(t) \/ Elapse(t)),
         UNCHANGED <<limit, alive, conns, backlog, connAt, cnetFns, client, got, made, stale>>
  PROVE  ServerInv'
<1>1. TypeOK /\ HandlersInv /\ ConnectionPlaces /\ RequestsWhole
  BY DEF ServerInv
<1>2. ConnectionPlaces' /\ RequestsWhole'
  BY <1>1 DEF ConnectionPlaces, RequestsWhole, Served
<1>3. CASE Wait(Ready)
  <2>1. HandlersInv' /\ batch' \in Seq(Closures)
    BY <1>1, <1>3, WaitKeepsHandlers
  <2>2. UNCHANGED <<ev, timers>>
    BY <1>3 DEF Wait
  <2>3. TypeOK'
    BY <1>1, <2>1, <2>2 DEF TypeOK
  <2> QED
    BY <1>2, <2>1, <2>3, CallbacksStay DEF ServerInv
<1>4. CASE RunTimers(Ready) \/ (\E t \in Timers : addTimer(t) \/ Elapse(t))
  <2>1. UNCHANGED <<ev, batch>> /\ timers' \in [Timers -> {"off", "waiting", "due"}]
    <3>1. timers \in [Timers -> {"off", "waiting", "due"}]
      BY <1>1 DEF TypeOK
    <3>2. CASE RunTimers(Ready)
      <4>1. UNCHANGED <<ev, batch>>
        BY <3>2 DEF RunTimers
      <4>2. PICK repeat \in SUBSET {t \in Timers : timers[t] = "due"} :
              timers' = [t \in Timers |-> IF timers[t] # "due" THEN timers[t]
                                          ELSE IF t \in repeat THEN "waiting" ELSE "off"]
        BY <3>2 DEF RunTimers
      <4> QED
        BY <3>1, <4>1, <4>2
    <3>3. CASE \E t \in Timers : addTimer(t) \/ Elapse(t)
      BY <3>1, <3>3 DEF addTimer, Elapse
    <3> QED
      BY <1>4, <3>2, <3>3
  <2>2. HandlersInv'
    BY <1>1, <2>1, HandlersStay
  <2>3. TypeOK'
    BY <1>1, <2>1 DEF TypeOK
  <2> QED
    BY <1>2, <2>2, <2>3, CallbacksStay DEF ServerInv
<1> QED
  BY <1>3, <1>4

(* accept(): the connection leaves the backlog for a free descriptor, or   *)
(* is closed because of its version.                                       *)
LEMMA AcceptInv ==
  ASSUME ServerInv, Accept
  PROVE  ServerInv'
<1> DEFINE k == Head(backlog)
           fd == CHOOSE f \in Fds : connAt[f] = 0 /\ \A g \in Fds : connAt[g] = 0 => f <= g
           taken == conns[k].up # <<>> /\ Head(conns[k].up) = <<"version", Good>>
<1>1. /\ TypeOK /\ HandlersInv /\ ConnectionPlaces /\ RequestsWhole
      /\ UNCHANGED <<timers, limit, alive, cnetFns, client, got, made, stale>>
      /\ batch # <<>> /\ Head(batch) = Listener /\ batch' = Tail(batch)
  BY DEF ServerInv, Accept
<1>2. HandlersInv' /\ ev' \in [closures : [AllFds -> Closures \union {NoClosure}],
                               watch : [AllFds -> Closures \union {NoClosure}],
                               heap : SUBSET Closures, wild : BOOLEAN]
  BY AcceptKeepsHandlers
<1>3. batch' \in Seq(Closures)
  BY <1>1, TailFacts DEF TypeOK
<1>4. CASE Full
  <2>1. UNCHANGED <<conns, backlog, connAt>>
    BY <1>1, <1>4 DEF Accept
  <2>2. ConnectionPlaces' /\ RequestsWhole'
    BY <1>1, <2>1 DEF ConnectionPlaces, RequestsWhole, Served
  <2>3. TypeOK'
    BY <1>1, <1>2, <1>3, <2>1 DEF TypeOK
  <2> QED
    BY <1>1, <1>2, <2>2, <2>3, CallbacksStay DEF ServerInv
<1>5. CASE ~Full
  <2>1. fd \in Fds /\ connAt[fd] = 0
    BY <1>1, <1>5, FreeDescriptor
  <2>2. backlog # <<>>
    <3>1. Listener \in Range(batch)
      BY <1>1, TailFacts DEF TypeOK
    <3> QED
      BY <1>1, <3>1 DEF HandlersInv
  <2>3. /\ k \in 1 .. Len(conns) /\ Tail(backlog) \in Seq(1 .. Len(conns)) /\ k \in Range(backlog)
        /\ Range(Tail(backlog)) \subseteq Range(backlog)
        /\ IsInjective(Tail(backlog)) /\ k \notin Range(Tail(backlog))
    BY <1>1, <2>2, TailFacts DEF TypeOK, ConnectionPlaces
  <2>4. /\ backlog' = Tail(backlog)
        /\ connAt' = IF taken THEN [connAt EXCEPT ![fd] = k] ELSE connAt
        /\ conns' = IF taken THEN [conns EXCEPT ![k].up = Tail(@), ![k].server = "served"]
                    ELSE [conns EXCEPT ![k].server = "closed"]
    BY <1>1, <1>5 DEF Accept
  <2> HIDE DEF fd, k
  <2>5. /\ conns[k].server = "queued" /\ conns[k] \in Connections
        /\ conns[k].up \in Seq(Requests) /\ conns[k].open \in BOOLEAN
        /\ Whole(conns[k].up, TRUE, conns[k].open)
    <3>1. conns[k].server = "queued"
      BY <1>1, <2>3 DEF ConnectionPlaces
    <3>2. (conns[k].server = "queued") = TRUE /\ conns[k].server # "closed"
      BY <3>1
    <3> QED
      BY <1>1, <2>3, <3>1, <3>2, ConnIs DEF RequestsWhole
  <2>6. PICK cn \in Connections :
          /\ cn.owner = conns[k].owner /\ cn.open = conns[k].open
          /\ cn.server = IF taken THEN "served" ELSE "closed"
          /\ conns' = [conns EXCEPT ![k] = cn]
          /\ taken => Whole(cn.up, FALSE, cn.open)
    <3>1. CASE taken
      <4>1. Tail(conns[k].up) \in Seq(Requests) /\ Whole(Tail(conns[k].up), FALSE, conns[k].open)
        BY <2>5, <3>1, AcceptedWhole
      <4>2. PICK cn : cn = [conns[k] EXCEPT !.up = Tail(conns[k].up), !.server = "served"]
        OBVIOUS
      <4>3. /\ cn \in Connections /\ cn.owner = conns[k].owner /\ cn.open = conns[k].open
            /\ cn.server = "served" /\ cn.up = Tail(conns[k].up)
        BY <2>5, <4>1, <4>2 DEF Connections
      <4>4. conns' = [conns EXCEPT ![k] = cn]
        BY <1>1, <2>3, <2>4, <3>1, <4>2, ConnIs
      <4> QED
        BY <3>1, <4>1, <4>3, <4>4
    <3>2. CASE ~taken
      <4>1. PICK cn : cn = [conns[k] EXCEPT !.server = "closed"]
        OBVIOUS
      <4>2. /\ cn \in Connections /\ cn.owner = conns[k].owner /\ cn.open = conns[k].open
            /\ cn.server = "closed"
        BY <2>5, <4>1 DEF Connections
      <4>3. conns' = [conns EXCEPT ![k] = cn]
        BY <1>1, <2>3, <2>4, <3>2, <4>1, ConnIs
      <4> QED
        BY <3>2, <4>2, <4>3
    <3> QED
      BY <3>1, <3>2
  <2> HIDE DEF taken
  <2>7. /\ conns' \in Seq(Connections) /\ Len(conns') = Len(conns) /\ RequestsWhole'
        /\ conns'[k] = cn /\ \A i \in 1 .. Len(conns) : i # k => conns'[i] = conns[i]
    <3>1. cn.server # "closed" => taken /\ (cn.server = "queued") = FALSE
      BY <2>6
    <3>2. cn.server # "closed" => Whole(cn.up, cn.server = "queued", cn.open)
      BY <2>6, <3>1
    <3> QED
      BY <1>1, <2>3, <2>6, <3>2, ConnChanged
  <2>8. connAt' \in [Fds -> 0 .. Len(conns)]
    <3>1. k \in 0 .. Len(conns)
      BY <1>1, <2>3, LenProperties DEF TypeOK
    <3> QED
      BY <1>1, <2>1, <2>4, <3>1 DEF TypeOK
  <2>9. TypeOK'
    BY <1>1, <1>2, <1>3, <2>3, <2>4, <2>7, <2>8 DEF TypeOK
  <2>10. ConnectionPlaces'
    <3>1. \A f \in Served : connAt[f] \in 1 .. Len(conns) /\ connAt[f] # k
      BY <1>1, <2>3, <2>5, LenProperties DEF Served, TypeOK, ConnectionPlaces
    <3>2. /\ Served' = IF taken THEN Served \union {fd} ELSE Served
          /\ \A f \in Served : f # fd /\ connAt'[f] = connAt[f]
          /\ taken => connAt'[fd] = k
      BY <1>1, <2>1, <2>3, <2>4 DEF Served, TypeOK
    <3>3. (\A f \in Served : conns[connAt[f]].server = "served")'
      <4> SUFFICES ASSUME NEW f \in Served' PROVE conns'[connAt'[f]].server = "served"
        OBVIOUS
      <4>1. CASE f \in Served
        BY <1>1, <2>7, <3>1, <3>2, <4>1 DEF ConnectionPlaces
      <4>2. CASE f \notin Served
        BY <2>6, <2>7, <3>2, <4>2
      <4> QED
        BY <4>1, <4>2
    <3>4. (\A f, g \in Served : connAt[f] = connAt[g] => f = g)'
      <4> SUFFICES ASSUME NEW f \in Served', NEW g \in Served', connAt'[f] = connAt'[g]
                   PROVE  f = g
        OBVIOUS
      <4>1. CASE f \in Served /\ g \in Served
        BY <1>1, <3>2, <4>1 DEF ConnectionPlaces
      <4>2. CASE f \notin Served \/ g \notin Served
        BY <3>1, <3>2, <4>2
      <4> QED
        BY <4>1, <4>2
    <3>5. (\A i \in Range(backlog) : conns[i].server = "queued")' /\ IsInjective(backlog')
      <4>1. \A i \in Range(backlog') : i \in Range(backlog) /\ i # k /\ i \in 1 .. Len(conns)
        BY <2>3, <2>4, ElementOfSeq, LenProperties, SMTT(30) DEF Range
      <4> QED
        BY <1>1, <2>3, <2>4, <2>7, <4>1 DEF ConnectionPlaces
    <3>6. ASSUME NEW c \in Clients, client[c].phase \notin {"new", "gone"}
          PROVE  client[c].conn # 0 /\ conns'[client[c].conn].owner = c /\ conns'[client[c].conn].open
      <4>1. PICK i : i = client[c].conn /\ i # 0 /\ conns[i].owner = c /\ conns[i].open
        BY <1>1, <3>6 DEF ConnectionPlaces
      <4>2. i \in 1 .. Len(conns)
        BY <1>1, <4>1, LenProperties, BoundAssumption DEF TypeOK, ClientStates
      <4> QED
        BY <2>6, <2>7, <4>1, <4>2
    <3> QED
      BY <1>1, <3>3, <3>4, <3>5, <3>6 DEF ConnectionPlaces
  <2> QED
    BY <1>1, <1>2, <2>7, <2>9, <2>10, CallbacksStay DEF ServerInv
<1> QED
  BY <1>4, <1>5

(* What the server still reads of a request that begins. *)
LEMMA RequestBegins ==
  ASSUME NEW up \in Seq(Requests), NEW open \in BOOLEAN, Whole(up, FALSE, open), up # <<>>
  PROVE  /\ up[1] \in Requests /\ up[1][2] \in Eids
         /\ (IF Len(up) > 1 THEN up[2][2] ELSE 0) \in 0 .. MaxCalls
<1>1. PICK n \in Nat \ {0} : n = Len(up)
  BY LenProperties, EmptySeq
<1>2. Begins(up[1]) /\ up[1] \in Requests
  BY <1>1, ElementOfSeq DEF Whole
<1>3. ASSUME n > 1
      PROVE  up[2][2] \in 0 .. MaxCalls
  <2>1. 1 \in 1 .. n - 1 /\ 2 \in 1 .. n /\ 1 + 1 = 2
    BY <1>1, <1>3
  <2>2. up[2][1] = "body" /\ up[2] \in Requests
    BY <1>1, <1>2, <2>1, ElementOfSeq DEF Whole
  <2> QED
    BY <2>2, RequestIs
<1> QED
  BY <1>1, <1>2, <1>3, RequestIs, BoundAssumption

(* What evaluate() has to work with: the connection of the descriptor that *)
(* the closure was made for is served.                                     *)
LEMMA EvaluateAt ==
  ASSUME ServerInv, batch # <<>>, Head(batch) # Listener
  PROVE  /\ Head(batch)[1] \in Served /\ Head(batch)[1] \in Fds
         /\ connAt[Head(batch)[1]] \in 1 .. Len(conns)
         /\ conns[connAt[Head(batch)[1]]].server = "served"
         /\ Whole(conns[connAt[Head(batch)[1]]].up, FALSE, conns[connAt[Head(batch)[1]]].open)
         /\ Tail(batch) \in Seq(Closures)
<1>1. TypeOK /\ HandlersInv /\ ConnectionPlaces /\ RequestsWhole
  BY DEF ServerInv
<1>2. PICK fd \in Served : fd = Head(batch)[1]
  BY <1>1, HeadHandler
<1>3. connAt[fd] \in 1 .. Len(conns) /\ fd \in Fds
  <2>1. Len(conns) \in Nat /\ connAt \in [Fds -> 0 .. Len(conns)]
    BY <1>1, LenProperties DEF TypeOK
  <2> QED
    BY <1>2, <2>1 DEF Served
<1>4. PICK k \in 1 .. Len(conns) : k = connAt[fd] /\ conns[k].server = "served"
  BY <1>1, <1>3 DEF ConnectionPlaces
<1>5. Whole(conns[k].up, FALSE, conns[k].open)
  <2>1. (conns[k].server = "queued") = FALSE /\ conns[k].server # "closed"
    BY <1>4
  <2> QED
    BY <1>1, <2>1, ConnIs DEF RequestsWhole
<1>6. Tail(batch) \in Seq(Closures)
  BY <1>1, TailFacts DEF TypeOK
<1> QED
  BY <1>2, <1>3, <1>4, <1>5, <1>6

(* A connection is dropped. *)
LEMMA DisconnectInv ==
  ASSUME ServerInv, batch # <<>>, Head(batch) # Listener, batch' = Tail(batch),
         Disconnect(Head(batch)[1]),
         UNCHANGED <<timers, limit, backlog, client, got, made, stale>>
  PROVE  ServerInv'
<1>1. TypeOK /\ HandlersInv /\ ConnectionPlaces /\ RequestsWhole
  BY DEF ServerInv
<1>2. HandlersInv' /\ ev' \in [closures : [AllFds -> Closures \union {NoClosure}],
                               watch : [AllFds -> Closures \union {NoClosure}],
                               heap : SUBSET Closures, wild : BOOLEAN]
  BY <1>1, DisconnectKeepsHandlers
<1>3. PICK fd \in Fds : /\ fd = Head(batch)[1] /\ fd \in Served /\ connAt[fd] \in 1 .. Len(conns)
                        /\ conns[connAt[fd]].server = "served" /\ Tail(batch) \in Seq(Closures)
  BY EvaluateAt
<1>4. PICK k \in 1 .. Len(conns) : k = connAt[fd] /\ conns[k].server = "served"
  BY <1>3
<1>5. PICK cn \in Connections :
        /\ cn.owner = conns[k].owner /\ cn.open = conns[k].open /\ cn.server = "closed"
        /\ conns' = [conns EXCEPT ![k] = cn]
  <2>1. PICK cn : cn = [conns[k] EXCEPT !.server = "closed"]
    OBVIOUS
  <2>2. /\ cn \in Connections /\ cn.owner = conns[k].owner /\ cn.open = conns[k].open
        /\ cn.server = "closed"
    BY <1>1, <2>1, ConnIs DEF Connections
  <2>3. conns' = [conns EXCEPT ![k] = cn]
    BY <1>1, <1>3, <1>4, <2>1, ConnIs DEF Disconnect
  <2> QED
    BY <2>2, <2>3
<1>6. /\ conns' \in Seq(Connections) /\ Len(conns') = Len(conns) /\ RequestsWhole'
      /\ conns'[k] = cn /\ \A i \in 1 .. Len(conns) : i # k => conns'[i] = conns[i]
  BY <1>1, <1>5, ConnChanged
<1>7. /\ connAt' = [connAt EXCEPT ![fd] = 0] /\ UNCHANGED <<alive, cnetFns>>
      /\ connAt' \in [Fds -> 0 .. Len(conns)]
  <2>1. 0 \in 0 .. Len(conns)
    BY <1>1, LenProperties DEF TypeOK
  <2> QED
    BY <1>1, <1>3, <2>1 DEF Disconnect, TypeOK
<1>8. TypeOK'
  BY <1>1, <1>2, <1>3, <1>6, <1>7 DEF TypeOK
<1>9. ConnectionPlaces'
  <2>1. /\ Served' = Served \ {fd} /\ \A f \in Fds : f # fd => connAt'[f] = connAt[f]
    BY <1>1, <1>3, <1>7 DEF Served, TypeOK
  <2>2. \A f \in Served : connAt[f] \in 1 .. Len(conns) /\ (f # fd => connAt[f] # k)
    BY <1>1, <1>3, <1>4, LenProperties DEF Served, TypeOK, ConnectionPlaces
  <2>3. (\A f \in Served : conns[connAt[f]].server = "served")'
    BY <1>1, <1>6, <2>1, <2>2 DEF Served, ConnectionPlaces
  <2>4. (\A f, g \in Served : connAt[f] = connAt[g] => f = g)'
    BY <1>1, <2>1 DEF Served, ConnectionPlaces
  <2>5. (\A i \in Range(backlog) : conns[i].server = "queued")' /\ IsInjective(backlog')
    <3>1. backlog \in Seq(1 .. Len(conns))
      BY <1>1 DEF TypeOK
    <3>2. \A i \in Range(backlog) : i \in 1 .. Len(conns)
      BY <3>1, ElementOfSeq, LenProperties DEF Range
    <3>3. \A i \in Range(backlog) : conns[i].server = "queued" /\ i # k
      BY <1>1, <1>4 DEF ConnectionPlaces
    <3> QED
      BY <1>1, <1>6, <3>2, <3>3 DEF ConnectionPlaces
  <2>6. ASSUME NEW c \in Clients, client[c].phase \notin {"new", "gone"}
        PROVE  client[c].conn # 0 /\ conns'[client[c].conn].owner = c /\ conns'[client[c].conn].open
    <3>1. PICK i : i = client[c].conn /\ i # 0 /\ conns[i].owner = c /\ conns[i].open
      BY <1>1, <2>6 DEF ConnectionPlaces
    <3>2. i \in 1 .. Len(conns)
      BY <1>1, <3>1, LenProperties, BoundAssumption DEF TypeOK, ClientStates
    <3> QED
      BY <1>5, <1>6, <3>1, <3>2
  <2> QED
    BY <1>1, <2>3, <2>4, <2>5, <2>6 DEF ConnectionPlaces
<1> QED
  BY <1>2, <1>6, <1>8, <1>9, CallbacksStay DEF ServerInv

(* A request is read and answered. *)
LEMMA ReplyInv ==
  ASSUME ServerInv, batch # <<>>, Head(batch) # Listener, batch' = Tail(batch),
         NEW toks \in Seq(Replies), conns[connAt[Head(batch)[1]]].up # <<>>,
         Reply(Head(batch)[1], SubSeq(conns[connAt[Head(batch)[1]]].up, 3,
                                      Len(conns[connAt[Head(batch)[1]]].up)), toks),
         cnetFns' \in [Fds -> [Eids -> 0 .. MaxConns]],
         UNCHANGED <<timers, limit, backlog, client, got, made, stale>>
  PROVE  ServerInv'
<1>1. TypeOK /\ HandlersInv /\ ConnectionPlaces /\ RequestsWhole
  BY DEF ServerInv
<1>2. PICK fd \in Fds : /\ fd = Head(batch)[1] /\ fd \in Served /\ connAt[fd] \in 1 .. Len(conns)
                        /\ Tail(batch) \in Seq(Closures)
  BY EvaluateAt
<1>3. PICK k \in 1 .. Len(conns) : /\ k = connAt[fd] /\ conns[k].server = "served"
                                   /\ Whole(conns[k].up, FALSE, conns[k].open)
  BY <1>2, EvaluateAt
<1>4. PICK left : left = SubSeq(conns[k].up, 3, Len(conns[k].up))
  OBVIOUS
<1>5. left \in Seq(Requests) /\ Whole(left, FALSE, conns[k].open)
  BY <1>1, <1>2, <1>3, <1>4, ConnIs, AnsweredWhole
<1>6. PICK down \in Seq(Replies) : down = IF conns[k].open THEN conns[k].down \o toks ELSE conns[k].down
  BY <1>1, ConnIs, ConcatProperties
<1>7. PICK cn \in Connections :
        /\ cn.owner = conns[k].owner /\ cn.open = conns[k].open /\ cn.server = "served"
        /\ cn.up = left /\ conns' = [conns EXCEPT ![k] = cn]
  <2>1. PICK cn : cn = [conns[k] EXCEPT !.up = left, !.down = down]
    OBVIOUS
  <2>2. /\ cn \in Connections /\ cn.owner = conns[k].owner /\ cn.open = conns[k].open
        /\ cn.server = "served" /\ cn.up = left
    BY <1>1, <1>3, <1>5, <2>1, ConnIs DEF Connections
  <2>3. conns' = [conns EXCEPT ![k].up = left,
                               ![k].down = IF conns[k].open THEN @ \o toks ELSE @]
    BY <1>2, <1>3, <1>4 DEF Reply
  <2>4. conns' = [conns EXCEPT ![k] = cn]
    BY <1>1, <1>6, <2>1, <2>3, ConnIs
  <2> QED
    BY <2>2, <2>4
<1>8. (cn.server = "queued") = FALSE
  BY <1>7
<1>9. /\ conns' \in Seq(Connections) /\ Len(conns') = Len(conns) /\ RequestsWhole'
      /\ conns'[k] = cn /\ \A i \in 1 .. Len(conns) : i # k => conns'[i] = conns[i]
  BY <1>1, <1>5, <1>7, <1>8, ConnChanged
<1>10. /\ UNCHANGED <<ev, connAt>> /\ alive' \in BOOLEAN
  <2>1. called(ev, Head(batch)) = ev
    BY <1>1, HeadHandler
  <2> QED
    BY <2>1 DEF Reply, Survives
<1>11. HandlersInv'
  <2>1. Listener \in Range(batch') => backlog' # <<>>
    BY <1>1, TailFacts DEF HandlersInv, TypeOK
  <2> QED
    BY <1>1, <1>10, <2>1, NextHandler
<1>12. TypeOK'
  BY <1>1, <1>2, <1>9, <1>10 DEF TypeOK
<1>13. ConnectionPlaces'
  <2>1. \A i \in 1 .. Len(conns) : /\ conns'[i].server = conns[i].server /\ conns'[i].owner = conns[i].owner
                                   /\ conns'[i].open = conns[i].open
    BY <1>3, <1>7, <1>9
  <2>2. ASSUME NEW c \in Clients, client[c].phase \notin {"new", "gone"}
        PROVE  client[c].conn \in 1 .. Len(conns)
    <3>1. client[c].conn # 0
      BY <1>1, <2>2 DEF ConnectionPlaces
    <3> QED
      BY <1>1, <3>1, LenProperties, BoundAssumption, SMTT(30) DEF TypeOK, ClientStates
  <2> QED
    BY <1>1, <1>10, <2>1, <2>2, PlacesStay
<1> QED
  BY <1>9, <1>11, <1>12, <1>13, CallbacksStay DEF ServerInv

(* evaluateNetREPLRequest(). *)
LEMMA EvaluateInv ==
  ASSUME ServerInv, Evaluate
  PROVE  ServerInv'
<1> DEFINE fd == Head(batch)[1]
           k == connAt[fd]
           up == conns[k].up
           e == up[1][2]
           left == SubSeq(up, 3, Len(up))
           arg == IF Len(up) > 1 THEN up[2][2] ELSE 0
<1>1. /\ batch # <<>> /\ Head(batch) # Listener /\ batch' = Tail(batch)
      /\ UNCHANGED <<timers, limit, backlog, client, got, made, stale>>
  BY DEF Evaluate
<1>2. /\ fd \in Fds /\ k \in 1 .. Len(conns) /\ Whole(up, FALSE, conns[k].open)
      /\ up \in Seq(Requests) /\ conns[k].open \in BOOLEAN /\ TypeOK
  BY <1>1, EvaluateAt, ConnIs DEF ServerInv
<1>3. k \in 0 .. MaxConns
  <2>1. Len(conns) \in Nat /\ Len(conns) <= MaxConns
    BY <1>2, LenProperties DEF TypeOK
  <2> QED
    BY <1>2, <2>1, BoundAssumption
<1>4. up # <<>> => e \in Eids /\ arg \in 0 .. MaxCalls
  BY <1>2, RequestBegins
<1>5. cnetFns \in [Fds -> [Eids -> 0 .. MaxConns]]
  BY <1>2 DEF TypeOK
<1>6. \/ Disconnect(fd)
      \/ /\ up # <<>>
         /\ \E ok \in BOOLEAN : /\ cnetFns' = IF ok THEN prepare(fd, e) ELSE cnetFns
                                /\ Reply(fd, left, <<<<IF ok THEN "ok" ELSE "fail", e>>>>)
      \/ /\ up # <<>> /\ UNCHANGED cnetFns
         /\ Reply(fd, left, [i \in 1 .. Parts[e] |-> <<"result", cnetFns[fd][e], arg, i>>])
  BY DEF Evaluate
<1> HIDE DEF fd, e, left, arg
<1>7. CASE Disconnect(fd)
  BY <1>1, <1>7, DisconnectInv DEF fd
<1>8. ASSUME up # <<>>, NEW ok \in BOOLEAN, cnetFns' = IF ok THEN prepare(fd, e) ELSE cnetFns,
             Reply(fd, left, <<<<IF ok THEN "ok" ELSE "fail", e>>>>)
      PROVE  ServerInv'
  <2>1. cnetFns' \in [Fds -> [Eids -> 0 .. MaxConns]]
    BY <1>2, <1>3, <1>4, <1>5, <1>8 DEF prepare
  <2>2. PICK toks : toks = <<<<IF ok THEN "ok" ELSE "fail", e>>>>
    OBVIOUS
  <2>3. toks \in Seq(Replies)
    <3>1. <<IF ok THEN "ok" ELSE "fail", e>> \in Replies
      BY <1>4, <1>8 DEF Replies
    <3> QED
      BY <2>2, <3>1
  <2> QED
    BY <1>1, <1>8, <2>1, <2>2, <2>3, ReplyInv DEF fd, left
<1>9. ASSUME up # <<>>, UNCHANGED cnetFns,
             Reply(fd, left, [i \in 1 .. Parts[e] |-> <<"result", cnetFns[fd][e], arg, i>>])
      PROVE  ServerInv'
  <2>1. PICK toks : toks = [i \in 1 .. Parts[e] |-> <<"result", cnetFns[fd][e], arg, i>>]
    OBVIOUS
  <2>2. toks \in Seq(Replies)
    <3>1. Parts[e] \in Nat
      BY <1>4, <1>9, PartAssumption
    <3>2. cnetFns[fd][e] \in 0 .. MaxConns
      BY <1>2, <1>4, <1>5, <1>9
    <3>3. \A i \in 1 .. Parts[e] : <<"result", cnetFns[fd][e], arg, i>> \in Replies
      BY <1>4, <1>9, <3>1, <3>2 DEF Replies
    <3>4. toks \in [1 .. Parts[e] -> Replies]
      BY <2>1, <3>3
    <3> QED
      BY <3>1, <3>4, SeqDef
  <2>3. cnetFns' \in [Fds -> [Eids -> 0 .. MaxConns]]
    BY <1>5, <1>9
  <2> QED
    BY <1>1, <1>9, <2>1, <2>2, <2>3, ReplyInv DEF fd, left
<1> QED
  BY <1>6, <1>7, <1>8, <1>9

-----------------------------------------------------------------------------
(* The clients' steps.                                                     *)

LEMMA ReadersFinite ==
  ASSUME NEW a \in Seq(Eids), NEW f
  PROVE  IsFiniteSet(Readers(a, f)) /\ Cardinality(Readers(a, f)) \in Nat
<1>1. Len(a) \in Nat /\ DOMAIN a = 1 .. Len(a)
  BY LenProperties
<1>2. IsFiniteSet(1 .. Len(a)) /\ Readers(a, f) \subseteq 1 .. Len(a)
  BY <1>1, FS_Interval DEF Readers
<1> QED
  BY <1>2, FS_Subset, FS_CardinalityType

(* A call adds a reader. *)
LEMMA ReadersAppend ==
  ASSUME NEW a \in Seq(Eids), NEW e \in Eids, NEW f \in Eids
  PROVE  Cardinality(Readers(Append(a, e), f)) =
           Cardinality(Readers(a, f)) + (IF f = e THEN 1 ELSE 0)
<1>1. PICK b \in Seq(Eids) : /\ b = Append(a, e) /\ Len(a) \in Nat
                             /\ DOMAIN b = 1 .. Len(a) + 1 /\ DOMAIN a = 1 .. Len(a)
                             /\ \A i \in 1 .. Len(a) : b[i] = a[i]
                             /\ b[Len(a) + 1] = e
  BY AppendFacts, ZenonT(60)
<1>2. /\ Len(a) + 1 \notin 1 .. Len(a)
      /\ \A i \in 1 .. Len(a) + 1 : i \in 1 .. Len(a) \/ i = Len(a) + 1
      /\ \A i \in 1 .. Len(a) : i \in 1 .. Len(a) + 1
      /\ Len(a) + 1 \in 1 .. Len(a) + 1
  BY <1>1
<1>3. CASE f = e
  <2>1. Readers(b, f) = Readers(a, f) \union {Len(a) + 1} /\ Len(a) + 1 \notin Readers(a, f)
    BY <1>1, <1>2, <1>3 DEF Readers
  <2>2. IsFiniteSet(Readers(a, f)) /\ Cardinality(Readers(a, f)) \in Nat
    BY ReadersFinite
  <2>3. Cardinality(Readers(a, f) \union {Len(a) + 1}) = Cardinality(Readers(a, f)) + 1
    BY <2>1, <2>2, FS_AddElement
  <2> QED
    BY <1>1, <1>3, <2>1, <2>3
<1>4. CASE f # e
  <2>1. Readers(b, f) = Readers(a, f)
    BY <1>1, <1>2, <1>4 DEF Readers
  <2>2. Cardinality(Readers(a, f)) \in Nat
    BY ReadersFinite
  <2> QED
    BY <1>1, <1>4, <2>1, <2>2
<1> QED
  BY <1>3, <1>4

(* A result that is complete takes one away. *)
LEMMA ReadersTail ==
  ASSUME NEW a \in Seq(Eids), a # <<>>, NEW f \in Eids
  PROVE  Cardinality(Readers(Tail(a), f)) =
           Cardinality(Readers(a, f)) - (IF f = Head(a) THEN 1 ELSE 0)
<1>1. PICK b \in Seq(Eids) : /\ b = Tail(a) /\ Len(a) \in Nat \ {0}
                             /\ DOMAIN b = 1 .. Len(a) - 1 /\ DOMAIN a = 1 .. Len(a)
                             /\ \A i \in 1 .. Len(a) - 1 : b[i] = a[i + 1]
                             /\ Head(a) = a[1]
  BY TailFacts
<1> DEFINE T == Readers(a, f) \ {1}
           g == [i \in Readers(b, f) |-> i + 1]
<1>2. g \in Bijection(Readers(b, f), T)
  <2>1. \A i \in Readers(b, f) : i + 1 \in T
    BY <1>1 DEF Readers
  <2>2. \A j \in T : j - 1 \in Readers(b, f) /\ (j - 1) + 1 = j
    BY <1>1 DEF Readers
  <2>3. \A i, j \in Readers(b, f) : i + 1 = j + 1 => i = j
    BY <1>1 DEF Readers
  <2>4. g \in [Readers(b, f) -> T]
    BY <2>1
  <2>5. \A i, j \in Readers(b, f) : g[i] = g[j] => i = j
    BY <2>3
  <2>6. \A j \in T : \E i \in Readers(b, f) : g[i] = j
    BY <2>2
  <2> QED
    BY <2>4, <2>5, <2>6, Fun_IsBij
<1>3. IsFiniteSet(Readers(b, f)) /\ IsFiniteSet(Readers(a, f)) /\ Cardinality(Readers(a, f)) \in Nat
  BY ReadersFinite
<1>4. Cardinality(Readers(b, f)) = Cardinality(T)
  <2>1. ExistsBijection(Readers(b, f), T)
    BY <1>2 DEF ExistsBijection
  <2> HIDE DEF T
  <2> QED
    BY <1>3, <2>1, FS_Bijection
<1>5. Cardinality(T) = Cardinality(Readers(a, f)) - (IF f = Head(a) THEN 1 ELSE 0)
  <2>1. 1 \in Readers(a, f) <=> f = Head(a)
    BY <1>1 DEF Readers
  <2>2. Cardinality(T) = IF 1 \in Readers(a, f) THEN Cardinality(Readers(a, f)) - 1
                         ELSE Cardinality(Readers(a, f))
    BY <1>3, FS_RemoveElement
  <2> QED
    BY <1>3, <2>1, <2>2
<1> QED
  BY <1>1, <1>4, <1>5

(* What TypeOK says of the clients, for one of them. *)
LEMMA ClientIs ==
  ASSUME TypeOK, NEW c \in Clients
  PROVE  /\ client \in [Clients -> ClientStates] /\ client[c] \in ClientStates
         /\ client[c].conn \in 0 .. MaxConns /\ client[c].conn <= Len(conns) /\ Len(conns) \in Nat
         /\ client[c].conn # 0 => client[c].conn \in 1 .. Len(conns)
         /\ client[c].phase \in {"new", "define", "waiting", "ready", "failed", "gone"}
         /\ client[c].def \in Eids /\ client[c].asyncReaders \in Seq(Eids)
         /\ client[c].ks \in [Eids -> Seq(1 .. MaxCalls)] /\ client[c].part \in [Eids -> Seq(Replies)]
<1>1. client \in [Clients -> ClientStates] /\ client[c] \in ClientStates
  BY DEF TypeOK
<1>2. /\ client[c].conn \in 0 .. MaxConns
      /\ client[c].phase \in {"new", "define", "waiting", "ready", "failed", "gone"}
      /\ client[c].def \in Eids /\ client[c].asyncReaders \in Seq(Eids)
      /\ client[c].ks \in [Eids -> Seq(1 .. MaxCalls)] /\ client[c].part \in [Eids -> Seq(Replies)]
  BY <1>1 DEF ClientStates
<1>3. client[c].conn <= Len(conns) /\ Len(conns) \in Nat
  BY LenProperties DEF TypeOK
<1>4. client[c].conn # 0 => client[c].conn \in 1 .. Len(conns)
  BY <1>2, <1>3, BoundAssumption
<1> QED
  BY <1>1, <1>2, <1>3, <1>4

(* The connection of a client that has one. *)
LEMMA OwnConnection ==
  ASSUME ServerInv, NEW c \in Clients, client[c].phase \notin {"new", "gone"}
  PROVE  LET k == client[c].conn
         IN  /\ k \in 1 .. Len(conns) /\ conns[k].owner = c /\ conns[k].open
             /\ conns[k].server # "closed" => Whole(conns[k].up, conns[k].server = "queued", TRUE)
<1>1. TypeOK /\ ConnectionPlaces /\ RequestsWhole
  BY DEF ServerInv
<1>2. PICK k \in 1 .. Len(conns) : k = client[c].conn /\ conns[k].owner = c /\ conns[k].open
  BY <1>1, ClientIs DEF ConnectionPlaces
<1>3. conns[k].open = TRUE
  BY <1>1, <1>2, ConnIs
<1>4. conns[k].server # "closed" => Whole(conns[k].up, conns[k].server = "queued", TRUE)
  BY <1>1, <1>2, <1>3, ConnIs DEF RequestsWhole
<1> QED
  BY <1>2, <1>4

(* What a client does to its own connection, or to what it has sent and    *)
(* received, moves no connection.                                          *)
LEMMA ClientInv ==
  ASSUME ServerInv, UNCHANGED <<serverVars, backlog, stale>>,
         NEW c \in Clients, NEW s \in ClientStates, client' = [client EXCEPT ![c] = s],
         s.conn = client[c].conn, made' \in 0 .. MaxCalls,
         conns' \in Seq(Connections), Len(conns') = Len(conns), RequestsWhole',
         \A k \in 1 .. Len(conns) :
           /\ conns'[k].server = conns[k].server /\ conns'[k].owner = conns[k].owner
           /\ conns[k].owner # c \/ s.phase \notin {"new", "gone"} => conns'[k].open = conns[k].open,
         s.phase \notin {"new", "gone"} => client[c].phase \notin {"new", "gone"},
         \A e \in Eids : Cardinality(Readers(s.asyncReaders, e)) <= Len(s.ks[e])
  PROVE  ServerInv'
<1>1. TypeOK /\ HandlersInv /\ ConnectionPlaces /\ RequestsWhole /\ CallbacksWait
  BY DEF ServerInv
<1>2. UNCHANGED <<ev, batch, timers, limit, alive, connAt, cnetFns, backlog, stale>>
  BY DEF serverVars
<1>3. client \in [Clients -> ClientStates] /\ Len(conns) \in Nat
  BY <1>1, LenProperties DEF TypeOK
<1>4. /\ client' \in [Clients -> ClientStates] /\ client'[c] = s
      /\ \A d \in Clients : d # c => client'[d] = client[d]
  BY <1>3
<1>5. TypeOK'
  <2>1. \A d \in Clients : client'[d].conn <= Len(conns')
    <3>1. \A d \in Clients : client[d].conn <= Len(conns) /\ client'[d].conn = client[d].conn
      BY <1>1, <1>4 DEF TypeOK
    <3> QED
      BY <3>1
  <2> QED
    BY <1>1, <1>2, <1>4, <2>1 DEF TypeOK
<1>6. HandlersInv'
  BY <1>1, <1>2, HandlersStay
<1>7. ASSUME NEW d \in Clients, client'[d].phase \notin {"new", "gone"}
      PROVE  /\ client[d].phase \notin {"new", "gone"}
             /\ client'[d].conn = client[d].conn
             /\ conns'[client[d].conn].open = conns[client[d].conn].open
  <2>1. client[d].phase \notin {"new", "gone"} /\ client'[d].conn = client[d].conn
    BY <1>4, <1>7
  <2>2. PICK k : k = client[d].conn /\ k # 0 /\ conns[k].owner = d
    BY <1>1, <2>1 DEF ConnectionPlaces
  <2>3. k \in 1 .. Len(conns)
    BY <1>1, <2>2, ClientIs
  <2>4. d # c \/ s.phase \notin {"new", "gone"}
    BY <1>4, <1>7
  <2> QED
    BY <2>1, <2>2, <2>3, <2>4
<1>8. ConnectionPlaces'
  BY <1>1, <1>2, <1>7, PlacesStay
<1>9. CallbacksWait'
  <2>1. ASSUME NEW d \in Clients, NEW e \in Eids
        PROVE  Cardinality(Readers(client'[d].asyncReaders, e)) <= Len(client'[d].ks[e])
    <3>1. CASE d = c
      BY <1>4, <3>1
    <3>2. CASE d # c
      BY <1>1, <1>4, <3>2 DEF CallbacksWait
    <3> QED
      BY <3>1, <3>2
  <2> QED
    BY <2>1 DEF CallbacksWait
<1> QED
  BY <1>5, <1>6, <1>8, <1>9 DEF ServerInv

(* A client connects, also anew: its connection waits to be accepted. *)
LEMMA NewConnInv ==
  ASSUME ServerInv, UNCHANGED serverVars, made' = made, stale' \subseteq Clients,
         Len(conns) < MaxConns, backlog' = Append(backlog, Len(conns) + 1),
         NEW c \in Clients, NEW s \in ClientStates, client' = [client EXCEPT ![c] = s],
         s.conn <= Len(conns) + 1,
         conns' \in Seq(Connections), Len(conns') = Len(conns) + 1, RequestsWhole',
         conns'[Len(conns) + 1].server = "queued", conns'[Len(conns) + 1].owner = c,
         s.phase \notin {"new", "gone"} => s.conn = Len(conns) + 1 /\ conns'[Len(conns) + 1].open,
         \A k \in 1 .. Len(conns) :
           /\ conns'[k].server = conns[k].server /\ conns'[k].owner = conns[k].owner
           /\ conns[k].owner # c => conns'[k].open = conns[k].open,
         \A e \in Eids : Cardinality(Readers(s.asyncReaders, e)) <= Len(s.ks[e])
  PROVE  ServerInv'
<1>1. TypeOK /\ HandlersInv /\ ConnectionPlaces /\ RequestsWhole /\ CallbacksWait
  BY DEF ServerInv
<1>2. UNCHANGED <<ev, batch, timers, limit, alive, connAt, cnetFns>>
  BY DEF serverVars
<1>3. PICK n \in Nat : /\ n = Len(conns) /\ n < MaxConns /\ backlog \in Seq(1 .. n)
                       /\ connAt \in [Fds -> 0 .. n] /\ client \in [Clients -> ClientStates]
  BY <1>1, LenProperties DEF TypeOK
<1>4. /\ client' \in [Clients -> ClientStates] /\ client'[c] = s
      /\ \A d \in Clients : d # c => client'[d] = client[d]
  BY <1>3
<1>5. /\ backlog \in Seq(1 .. n + 1) /\ n + 1 \in 1 .. n + 1 /\ n + 1 \notin Range(backlog)
      /\ \A k \in Range(backlog) : k \in 1 .. n
  <2>1. \A k \in Range(backlog) : k \in 1 .. n
    BY <1>3, ElementOfSeq, LenProperties DEF Range
  <2>2. n + 1 \notin 1 .. n /\ n + 1 \in 1 .. n + 1 /\ 1 .. n \subseteq 1 .. n + 1
    BY <1>3
  <2>3. backlog \in Seq(1 .. n + 1)
    <3>1. backlog \in [1 .. Len(backlog) -> 1 .. n] /\ Len(backlog) \in Nat
      BY <1>3, LenProperties
    <3>2. backlog \in [1 .. Len(backlog) -> 1 .. n + 1]
      BY <2>2, <3>1
    <3> QED
      BY <3>1, <3>2, SeqDef
  <2> QED
    BY <2>1, <2>2, <2>3
<1>6. /\ backlog' \in Seq(1 .. n + 1) /\ backlog' # <<>>
      /\ Range(backlog') = Range(backlog) \union {n + 1}
      /\ IsInjective(backlog')
  BY <1>1, <1>3, <1>5, AppendFacts DEF ConnectionPlaces
<1>7. TypeOK'
  <2>1. \A d \in Clients : client'[d].conn <= n + 1
    <3>1. \A d \in Clients : client[d].conn \in 0 .. MaxConns /\ client[d].conn <= n
      BY <1>1, <1>3 DEF TypeOK, ClientStates
    <3>2. \A d \in Clients : d # c => client'[d].conn <= n + 1
      BY <1>3, <1>4, <3>1, BoundAssumption
    <3>3. client'[c].conn <= n + 1
      BY <1>3, <1>4
    <3> QED
      BY <3>2, <3>3
  <2>2. connAt' \in [Fds -> 0 .. n + 1]
    BY <1>2, <1>3
  <2>3. n + 1 <= MaxConns /\ Len(conns') = n + 1
    BY <1>3, BoundAssumption
  <2> QED
    BY <1>1, <1>2, <1>4, <1>6, <2>1, <2>2, <2>3 DEF TypeOK
<1>8. HandlersInv'
  BY <1>1, <1>2, <1>6, HandlersStay
<1>9. ConnectionPlaces'
  <2>1. Served' = Served /\ \A fd \in Served : connAt[fd] \in 1 .. n
    BY <1>2, <1>3 DEF Served
  <2>2. (\A fd \in Served : conns[connAt[fd]].server = "served")'
    BY <1>1, <1>2, <1>3, <2>1 DEF ConnectionPlaces
  <2>3. (\A f, g \in Served : connAt[f] = connAt[g] => f = g)'
    BY <1>1, <1>2, <2>1 DEF ConnectionPlaces
  <2>4. (\A k \in Range(backlog) : conns[k].server = "queued")'
    <3>1. \A k \in Range(backlog) : conns'[k].server = "queued"
      BY <1>1, <1>3, <1>5 DEF ConnectionPlaces
    <3> QED
      BY <1>3, <1>6, <3>1
  <2>5. ASSUME NEW d \in Clients, client'[d].phase \notin {"new", "gone"}
        PROVE  client'[d].conn # 0 /\ conns'[client'[d].conn].owner = d /\ conns'[client'[d].conn].open
    <3>1. CASE d = c
      BY <1>3, <1>4, <2>5, <3>1
    <3>2. CASE d # c
      <4>1. client'[d] = client[d]
        BY <1>4, <3>2
      <4>2. PICK k : k = client[d].conn /\ k # 0 /\ conns[k].owner = d /\ conns[k].open
        BY <1>1, <2>5, <4>1 DEF ConnectionPlaces
      <4>3. k \in 1 .. Len(conns)
        BY <1>1, <4>2, ClientIs
      <4> QED
        BY <3>2, <4>1, <4>2, <4>3
    <3> QED
      BY <3>1, <3>2
  <2> QED
    BY <1>6, <2>2, <2>3, <2>4, <2>5 DEF ConnectionPlaces
<1>10. CallbacksWait'
  <2>1. ASSUME NEW d \in Clients, NEW e \in Eids
        PROVE  Cardinality(Readers(client'[d].asyncReaders, e)) <= Len(client'[d].ks[e])
    <3>1. CASE d = c
      BY <1>4, <3>1
    <3>2. CASE d # c
      BY <1>1, <1>4, <3>2 DEF CallbacksWait
    <3> QED
      BY <3>1, <3>2
  <2> QED
    BY <2>1 DEF CallbacksWait
<1> QED
  BY <1>7, <1>8, <1>9, <1>10 DEF ServerInv

(* A connection as it is made. *)
LEMMA VersionWhole ==
  ASSUME NEW v \in Versions
  PROVE  Version(v) \in Seq(Requests) /\ Whole(Version(v), TRUE, TRUE)
<1>1. PICK toks : toks = Version(v)
  OBVIOUS
<1>2. toks = <<<<"version", v>>>> /\ <<"version", v>> \in Requests
  BY <1>1 DEF Version, Requests
<1>3. /\ toks \in Seq(Requests) /\ Len(toks) = 1 /\ toks[1] = <<"version", v>> /\ toks # <<>>
  BY <1>2
<1>4. Whole(toks, TRUE, TRUE)
  BY <1>3 DEF Whole, Begins
<1> QED
  BY <1>1, <1>3, <1>4

LEMMA NewConnIs ==
  ASSUME NEW c \in Clients, NEW toks \in Seq(Requests), NEW open \in BOOLEAN
  PROVE  /\ NewConn(c, toks, open) \in Connections
         /\ NewConn(c, toks, open).owner = c /\ NewConn(c, toks, open).up = toks
         /\ NewConn(c, toks, open).down = <<>> /\ NewConn(c, toks, open).open = open
         /\ NewConn(c, toks, open).server = "queued"
<1>1. PICK none \in Seq(Replies) : none = <<>>
  <2>1. <<>> \in Seq(Replies)
    OBVIOUS
  <2> QED
    BY <2>1
<1>2. NewConn(c, toks, open) = [owner |-> c, up |-> toks, down |-> none, open |-> open, server |-> "queued"]
  BY <1>1 DEF NewConn
<1> QED
  BY <1>1, <1>2 DEF Connections

(* makeConnection(), and initSession() up to the version. *)
LEMMA ConnectInv ==
  ASSUME ServerInv, NEW c \in Clients, Connect(c)
  PROVE  ServerInv'
<1>1. TypeOK /\ RequestsWhole /\ CallbacksWait
  BY DEF ServerInv
<1>2. /\ client[c].phase = "new" /\ Len(conns) < MaxConns /\ backlog' = Append(backlog, Len(conns) + 1)
      /\ UNCHANGED <<serverVars, made, stale>>
  BY DEF Connect
<1>3. PICK open \in BOOLEAN, toks \in Seq(Requests) :
        /\ conns' = Append(conns, NewConn(c, toks, open))
        /\ client' = IF open THEN [client EXCEPT ![c].phase = "define", ![c].conn = Len(conns) + 1]
                     ELSE [client EXCEPT ![c].phase = "gone"]
        /\ Whole(toks, TRUE, open)
  <2>1. CASE /\ \E v \in Versions : conns' = Append(conns, NewConn(c, Version(v), TRUE))
             /\ client' = [client EXCEPT ![c].phase = "define", ![c].conn = Len(conns) + 1]
    <3>1. PICK v \in Versions : conns' = Append(conns, NewConn(c, Version(v), TRUE))
      BY <2>1
    <3>2. Version(v) \in Seq(Requests) /\ Whole(Version(v), TRUE, TRUE)
      BY VersionWhole
    <3> QED
      BY <2>1, <3>1, <3>2
  <2>2. CASE /\ conns' = Append(conns, NewConn(c, <<>>, FALSE))
             /\ client' = [client EXCEPT ![c].phase = "gone"]
    <3>1. <<>> \in Seq(Requests) /\ Len(<<>>) = 0
      OBVIOUS
    <3>2. Whole(<<>>, TRUE, FALSE)
      BY <3>1 DEF Whole
    <3> QED
      BY <2>2, <3>1, <3>2
  <2> QED
    BY <2>1, <2>2 DEF Connect
<1>4. PICK cn \in Connections : /\ cn = NewConn(c, toks, open) /\ cn.server = "queued" /\ cn.up = toks
                                /\ cn.open = open /\ cn.owner = c
  BY NewConnIs
<1>5. conns' = Append(conns, cn)
  BY <1>3, <1>4
<1>6. /\ conns' \in Seq(Connections) /\ Len(conns') = Len(conns) + 1 /\ RequestsWhole'
      /\ conns'[Len(conns) + 1] = cn /\ \A i \in 1 .. Len(conns) : conns'[i] = conns[i]
      /\ Len(conns) \in Nat /\ Len(conns) + 1 \in 0 .. MaxConns
  BY <1>1, <1>2, <1>3, <1>4, <1>5, ConnAdded
<1>7. PICK s \in ClientStates :
         /\ client' = [client EXCEPT ![c] = s] /\ s.conn <= Len(conns) + 1
         /\ s.phase \notin {"new", "gone"} => s.conn = Len(conns) + 1 /\ open
         /\ s.ks = client[c].ks /\ s.asyncReaders = client[c].asyncReaders
  <2>1. CASE open
    <3>1. PICK s : s = [client[c] EXCEPT !.phase = "define", !.conn = Len(conns) + 1]
      OBVIOUS
    <3>2. client' = [client EXCEPT ![c] = s]
      BY <1>1, <1>3, <2>1, <3>1, ClientIs
    <3>3. /\ s \in ClientStates /\ s.conn = Len(conns) + 1
          /\ s.ks = client[c].ks /\ s.asyncReaders = client[c].asyncReaders
      BY <1>1, <1>6, <3>1, ClientIs DEF ClientStates
    <3>4. s.conn <= Len(conns) + 1
      BY <1>6, <3>3
    <3> QED
      BY <2>1, <3>2, <3>3, <3>4
  <2>2. CASE ~open
    <3>1. PICK s : s = [client[c] EXCEPT !.phase = "gone"]
      OBVIOUS
    <3>2. client' = [client EXCEPT ![c] = s]
      BY <1>1, <1>3, <2>2, <3>1, ClientIs
    <3>3. /\ s \in ClientStates /\ s.conn = client[c].conn /\ s.phase = "gone"
          /\ s.ks = client[c].ks /\ s.asyncReaders = client[c].asyncReaders
      BY <1>1, <3>1, ClientIs DEF ClientStates
    <3>4. client[c].conn <= Len(conns) + 1
      <4>1. client[c].conn <= Len(conns) /\ client[c].conn \in 0 .. MaxConns
        BY <1>1, ClientIs
      <4> QED
        BY <1>6, <4>1, BoundAssumption
    <3> QED
      BY <3>2, <3>3, <3>4
  <2> QED
    BY <2>1, <2>2
<1>8. \A e \in Eids : Cardinality(Readers(s.asyncReaders, e)) <= Len(s.ks[e])
  BY <1>1, <1>7 DEF CallbacksWait
<1>9. stale' \subseteq Clients
  BY <1>1, <1>2 DEF TypeOK
<1> QED
  BY <1>2, <1>4, <1>6, <1>7, <1>8, <1>9, NewConnInv

(* reconnect(). *)
LEMMA ReconnectInv ==
  ASSUME ServerInv, NEW c \in Clients, Reconnect(c)
  PROVE  ServerInv'
<1>1. TypeOK /\ RequestsWhole /\ CallbacksWait
  BY DEF ServerInv
<1>2. /\ client[c].phase \in {"ready", "failed"} /\ Len(conns) < MaxConns
      /\ backlog' = Append(backlog, Len(conns) + 1)
      /\ UNCHANGED <<serverVars, made>>
      /\ conns' = Append([conns EXCEPT ![client[c].conn].open = FALSE], NewConn(c, Version(Good), TRUE))
      /\ client' = [client EXCEPT ![c].phase = "define", ![c].conn = Len(conns) + 1,
                              ![c].def = 1, ![c].asyncReaders = <<>>]
  BY DEF Reconnect
<1>3. PICK k \in 1 .. Len(conns) : k = client[c].conn /\ conns[k].owner = c /\ conns[k].open
                                   /\ (conns[k].server # "closed" => Whole(conns[k].up, conns[k].server = "queued", TRUE))
  BY <1>2, OwnConnection
<1>4. PICK old \in Connections :
        /\ old = [conns[k] EXCEPT !.open = FALSE]
        /\ old.owner = c /\ old.server = conns[k].server /\ old.up = conns[k].up
        /\ old.open = FALSE
  <2>1. PICK old : old = [conns[k] EXCEPT !.open = FALSE]
    OBVIOUS
  <2>2. /\ old \in Connections /\ old.owner = conns[k].owner /\ old.server = conns[k].server
        /\ old.up = conns[k].up /\ old.open = FALSE
    BY <1>1, <2>1, ConnIs DEF Connections
  <2> QED
    BY <1>3, <2>1, <2>2
<1>5. PICK cs : cs = [conns EXCEPT ![k] = old]
  OBVIOUS
<1>6. [conns EXCEPT ![client[c].conn].open = FALSE] = cs
  BY <1>1, <1>3, <1>4, <1>5, ConnIs
<1>7. conns \in Seq(Connections) /\ DOMAIN conns = 1 .. Len(conns) /\ Len(conns) \in Nat
  BY <1>1, LenProperties DEF TypeOK
<1>8. /\ cs \in Seq(Connections) /\ Len(cs) = Len(conns)
      /\ cs[k] = old /\ \A i \in 1 .. Len(conns) : i # k => cs[i] = conns[i]
  BY <1>3, <1>5, <1>7, ExceptSeq
<1>9. PICK cn \in Connections : /\ cn = NewConn(c, Version(Good), TRUE) /\ cn.server = "queued"
                                /\ cn.up = Version(Good) /\ cn.open = TRUE /\ cn.owner = c
                                /\ Whole(cn.up, TRUE, TRUE)
  <2>1. Version(Good) \in Seq(Requests) /\ Whole(Version(Good), TRUE, TRUE)
    BY VersionWhole DEF Versions
  <2> QED
    BY <2>1, NewConnIs
<1>10. /\ conns' \in Seq(Connections) /\ Len(conns') = Len(conns) + 1
       /\ conns'[Len(conns) + 1] = cn /\ \A i \in 1 .. Len(conns) : conns'[i] = cs[i]
       /\ DOMAIN conns' = 1 .. Len(conns) + 1
  <2>1. conns' = Append(cs, cn)
    BY <1>2, <1>6, <1>9
  <2> QED
    BY <1>8, <2>1, AppendFacts
<1>11. RequestsWhole'
  <2>1. ASSUME NEW i \in 1 .. Len(conns) + 1, conns'[i].server # "closed"
        PROVE  Whole(conns'[i].up, conns'[i].server = "queued", conns'[i].open)
    <3>1. CASE i = k
      <4>1. conns'[i] = old
        BY <1>3, <1>8, <1>10, <3>1
      <4>2. Whole(conns[k].up, conns[k].server = "queued", FALSE)
        BY <1>3, <1>4, <2>1, <4>1, GoneWhole
      <4> QED
        BY <1>4, <4>1, <4>2
    <3>2. CASE i = Len(conns) + 1
      <4>1. conns'[i] = cn /\ (cn.server = "queued") = TRUE
        BY <1>9, <1>10, <3>2
      <4> QED
        BY <1>9, <4>1
    <3>3. CASE i \in 1 .. Len(conns) /\ i # k
      <4>1. conns'[i] = conns[i]
        BY <1>8, <1>10, <3>3
      <4> QED
        BY <1>1, <1>7, <2>1, <3>3, <4>1 DEF RequestsWhole
    <3> QED
      BY <1>7, <3>1, <3>2, <3>3
  <2> QED
    BY <1>10, <2>1 DEF RequestsWhole
<1>12. Len(conns) + 1 \in 0 .. MaxConns /\ Len(conns) + 1 <= Len(conns) + 1
  BY <1>2, <1>7, BoundAssumption
<1>13. PICK s \in ClientStates :
         /\ client' = [client EXCEPT ![c] = s] /\ s.conn = Len(conns) + 1
         /\ s.ks = client[c].ks /\ s.asyncReaders = <<>>
  <2>1. PICK s : s = [client[c] EXCEPT !.phase = "define", !.conn = Len(conns) + 1,
                                       !.def = 1, !.asyncReaders = <<>>]
    OBVIOUS
  <2>2. client' = [client EXCEPT ![c] = s]
    BY <1>1, <1>2, <2>1, ClientIs
  <2>3. 1 \in Eids /\ <<>> \in Seq(Eids)
    BY EidAssumption
  <2>4. s \in ClientStates /\ s.conn = Len(conns) + 1 /\ s.ks = client[c].ks /\ s.asyncReaders = <<>>
    BY <1>1, <1>12, <2>1, <2>3, ClientIs DEF ClientStates
  <2> QED
    BY <2>2, <2>4
<1>14. ASSUME NEW e \in Eids
       PROVE  Cardinality(Readers(s.asyncReaders, e)) <= Len(s.ks[e])
  <2>1. Readers(<<>>, e) = {}
    BY DEF Readers
  <2>2. Cardinality({}) = 0
    BY FS_EmptySet
  <2>3. Len(client[c].ks[e]) \in Nat
    BY <1>1, ClientIs, LenProperties
  <2>4. \A n \in Nat : 0 <= n
    OBVIOUS
  <2>5. 0 <= Len(client[c].ks[e])
    BY <2>3, <2>4
  <2>6. Cardinality(Readers(s.asyncReaders, e)) = 0 /\ s.ks[e] = client[c].ks[e]
    BY <1>13, <2>1, <2>2
  <2> QED
    BY <2>5, <2>6
<1>15. \A i \in 1 .. Len(conns) :
         /\ conns'[i].server = conns[i].server /\ conns'[i].owner = conns[i].owner
         /\ conns[i].owner # c => conns'[i].open = conns[i].open
  <2>1. ASSUME NEW i \in 1 .. Len(conns)
        PROVE  /\ conns'[i].server = conns[i].server /\ conns'[i].owner = conns[i].owner
               /\ conns[i].owner # c => conns'[i].open = conns[i].open
    <3>1. CASE i = k
      BY <1>3, <1>4, <1>8, <1>10, <3>1
    <3>2. CASE i # k
      BY <1>8, <1>10, <3>2
    <3> QED
      BY <3>1, <3>2
  <2> QED
    BY <2>1
<1>16. stale' \subseteq Clients
  BY <1>1 DEF TypeOK, Reconnect
<1> QED
  <2>1. /\ conns'[Len(conns) + 1].server = "queued" /\ conns'[Len(conns) + 1].owner = c
        /\ s.conn = Len(conns) + 1 /\ s.conn <= Len(conns) + 1 /\ conns'[Len(conns) + 1].open
    BY <1>9, <1>10, <1>12, <1>13
  <2> QED
    BY <1>2, <1>10, <1>11, <1>13, <1>14, <1>15, <1>16, <2>1, NewConnInv

(* A request: initSession() sends a definition, AsyncRPCFunc a call. *)
LEMMA SendInv ==
  ASSUME ServerInv, NEW c \in Clients, Send(c)
  PROVE  ServerInv'
<1> DEFINE define == client[c].phase = "define"
           s0 == client[c]
<1>1. TypeOK /\ RequestsWhole /\ CallbacksWait
  BY DEF ServerInv
<1>2. /\ define \/ (s0.phase = "ready" /\ made < MaxCalls)
      /\ UNCHANGED <<serverVars, backlog, got, stale>>
  BY DEF Send
<1>3. PICK k \in 1 .. Len(conns) : /\ k = s0.conn /\ conns[k].owner = c /\ conns[k].open
                                   /\ (conns[k].server # "closed" => Whole(conns[k].up, conns[k].server = "queued", TRUE))
  BY <1>2, OwnConnection
<1>4. made \in 0 .. MaxCalls
  BY <1>1 DEF TypeOK
<1>5. CASE PeerGone(c)
  <2>1. /\ UNCHANGED <<conns, made>>
        /\ client' = [client EXCEPT ![c].phase = "failed"]
    BY <1>5 DEF Send
  <2>2. PICK s : s = [client[c] EXCEPT !.phase = "failed"]
    OBVIOUS
  <2>3. client' = [client EXCEPT ![c] = s]
    BY <1>1, <2>1, <2>2, ClientIs
  <2>4. /\ s \in ClientStates /\ s.conn = client[c].conn
        /\ s.ks = client[c].ks /\ s.asyncReaders = client[c].asyncReaders
    BY <1>1, <2>2, ClientIs DEF ClientStates
  <2>5. \A e \in Eids : Cardinality(Readers(s.asyncReaders, e)) <= Len(s.ks[e])
    BY <1>1, <2>4 DEF CallbacksWait
  <2>6. /\ conns' \in Seq(Connections) /\ Len(conns') = Len(conns) /\ RequestsWhole'
        /\ made' \in 0 .. MaxCalls
    BY <1>1, <1>4, <2>1 DEF TypeOK, RequestsWhole
  <2> QED
    BY <1>2, <2>1, <2>3, <2>4, <2>5, <2>6, ClientInv
<1>6. CASE ~PeerGone(c)
  <2>1. conns[k].server # "closed"
    BY <1>3, <1>6 DEF PeerGone, Up
  <2>2. PICK e \in Eids, r \in Requests, b \in Requests :
          /\ Begins(r) /\ b[1] = "body"
          /\ conns' = [conns EXCEPT ![k].up = @ \o <<r, b>>]
          /\ made' = IF define THEN made ELSE made + 1
          /\ client' = [client EXCEPT ![c] =
                          IF define THEN [s0 EXCEPT !.phase = "waiting"]
                          ELSE [s0 EXCEPT !.ks[e] = Append(@, made + 1),
                                          !.asyncReaders = Append(@, e)]]
    <3>1. PICK e \in IF define THEN {s0.def} ELSE Eids :
            /\ conns' = [conns EXCEPT ![k].up = @ \o (IF define THEN <<<<"define", e>>, <<"body", 0>>>>
                                                      ELSE <<<<"invoke", e>>, <<"body", made + 1>>>>)]
            /\ made' = IF define THEN made ELSE made + 1
            /\ client' = [client EXCEPT ![c] =
                            IF define THEN [s0 EXCEPT !.phase = "waiting"]
                            ELSE [s0 EXCEPT !.ks[e] = Append(@, made + 1),
                                            !.asyncReaders = Append(@, e)]]
      BY <1>3, <1>6 DEF Send
    <3>2. e \in Eids
      BY <1>1, <3>1, ClientIs
    <3>3. CASE define
      <4>1. <<"define", e>> \in Requests /\ <<"body", 0>> \in Requests /\ Begins(<<"define", e>>)
        BY <3>2, BoundAssumption DEF Requests, Begins
      <4>2. conns' = [conns EXCEPT ![k].up = @ \o <<<<"define", e>>, <<"body", 0>>>>]
        BY <3>1, <3>3
      <4> QED
        BY <3>1, <3>2, <4>1, <4>2
    <3>4. CASE ~define
      <4>0. made + 1 \in 0 .. MaxCalls
        BY <1>2, <1>4, <3>4, BoundAssumption
      <4>1. <<"invoke", e>> \in Requests /\ <<"body", made + 1>> \in Requests /\ Begins(<<"invoke", e>>)
        BY <3>2, <4>0 DEF Requests, Begins
      <4>2. conns' = [conns EXCEPT ![k].up = @ \o <<<<"invoke", e>>, <<"body", made + 1>>>>]
        BY <3>1, <3>4
      <4> QED
        BY <3>1, <3>2, <4>1, <4>2
    <3> QED
      BY <3>3, <3>4
  <2>3. PICK up \in Seq(Requests) : up = conns[k].up \o <<r, b>> /\ Whole(up, conns[k].server = "queued", TRUE)
    <3>1. conns[k].up \in Seq(Requests) /\ (conns[k].server = "queued") \in BOOLEAN
      BY <1>1, ConnIs
    <3> QED
      BY <1>3, <2>1, <2>2, <3>1, SentWhole
  <2>4. PICK cn \in Connections :
          /\ cn.owner = conns[k].owner /\ cn.open = TRUE /\ cn.open = conns[k].open
          /\ cn.server = conns[k].server /\ cn.up = up
          /\ conns' = [conns EXCEPT ![k] = cn]
    <3>1. PICK cn : cn = [conns[k] EXCEPT !.up = up]
      OBVIOUS
    <3>2. /\ cn \in Connections /\ cn.owner = conns[k].owner /\ cn.open = conns[k].open
          /\ cn.server = conns[k].server /\ cn.up = up
      BY <1>1, <2>3, <3>1, ConnIs DEF Connections
    <3>3. conns' = [conns EXCEPT ![k] = cn]
      BY <1>1, <2>2, <2>3, <3>1, ConnIs
    <3>4. conns[k].open = TRUE
      BY <1>1, <1>3, ConnIs
    <3> QED
      BY <3>2, <3>3, <3>4
  <2>5. /\ conns' \in Seq(Connections) /\ Len(conns') = Len(conns) /\ RequestsWhole'
        /\ conns'[k] = cn /\ \A i \in 1 .. Len(conns) : i # k => conns'[i] = conns[i]
    BY <1>1, <2>3, <2>4, ConnChanged
  <2>6. \A i \in 1 .. Len(conns) : /\ conns'[i].server = conns[i].server /\ conns'[i].owner = conns[i].owner
                                   /\ conns'[i].open = conns[i].open
    BY <2>4, <2>5
  <2>7. PICK s \in ClientStates :
          /\ client' = [client EXCEPT ![c] = s] /\ s.conn = client[c].conn
          /\ \A f \in Eids : Cardinality(Readers(s.asyncReaders, f)) <= Len(s.ks[f])
    <3>1. CASE define
      <4>1. PICK s : s = [s0 EXCEPT !.phase = "waiting"]
        OBVIOUS
      <4>2. /\ s \in ClientStates /\ s.conn = client[c].conn
            /\ s.ks = client[c].ks /\ s.asyncReaders = client[c].asyncReaders
        BY <1>1, <4>1, ClientIs DEF ClientStates
      <4>3. client' = [client EXCEPT ![c] = s]
        BY <2>2, <3>1, <4>1
      <4> QED
        BY <1>1, <4>2, <4>3 DEF CallbacksWait
    <3>2. CASE ~define
      <4>1. PICK s : s = [s0 EXCEPT !.ks[e] = Append(s0.ks[e], made + 1),
                                    !.asyncReaders = Append(s0.asyncReaders, e)]
        OBVIOUS
      <4>2. client' = [client EXCEPT ![c] = s]
        BY <1>1, <2>2, <3>2, <4>1, ClientIs
      <4>3. made + 1 \in 1 .. MaxCalls
        BY <1>2, <1>4, <3>2, BoundAssumption
      <4>4. /\ s0.ks[e] \in Seq(1 .. MaxCalls) /\ Append(s0.ks[e], made + 1) \in Seq(1 .. MaxCalls)
            /\ Len(Append(s0.ks[e], made + 1)) = Len(s0.ks[e]) + 1
            /\ Append(s0.asyncReaders, e) \in Seq(Eids) /\ s0.asyncReaders \in Seq(Eids)
        BY <1>1, <4>3, ClientIs, AppendFacts
      <4>5. /\ s \in ClientStates /\ s.conn = client[c].conn
            /\ s.ks = [s0.ks EXCEPT ![e] = Append(s0.ks[e], made + 1)]
            /\ s.asyncReaders = Append(s0.asyncReaders, e)
        BY <1>1, <4>1, <4>4, ClientIs DEF ClientStates
      <4>6. ASSUME NEW f \in Eids
            PROVE  Cardinality(Readers(s.asyncReaders, f)) <= Len(s.ks[f])
        <5>1. Cardinality(Readers(s.asyncReaders, f)) =
                Cardinality(Readers(s0.asyncReaders, f)) + (IF f = e THEN 1 ELSE 0)
          BY <4>4, <4>5, ReadersAppend
        <5>2. Len(s.ks[f]) = Len(s0.ks[f]) + (IF f = e THEN 1 ELSE 0)
          <6>1. s0.ks \in [Eids -> Seq(1 .. MaxCalls)] /\ Len(s0.ks[f]) \in Nat
            BY <1>1, ClientIs, LenProperties
          <6>2. s.ks[f] = IF f = e THEN Append(s0.ks[e], made + 1) ELSE s0.ks[f]
            BY <4>5, <6>1
          <6>3. CASE f = e
            BY <4>4, <6>2, <6>3
          <6>4. CASE f # e
            <7>1. \A n \in Nat : n + 0 = n
              OBVIOUS
            <7> QED
              BY <6>1, <6>2, <6>4, <7>1
          <6> QED
            BY <6>3, <6>4
        <5>3. Cardinality(Readers(s0.asyncReaders, f)) <= Len(s0.ks[f])
          BY <1>1 DEF CallbacksWait
        <5>4. Cardinality(Readers(s0.asyncReaders, f)) \in Nat /\ Len(s0.ks[f]) \in Nat
          BY <1>1, <4>4, ClientIs, LenProperties, ReadersFinite
        <5>5. \A m, n \in Nat : m <= n => m + (IF f = e THEN 1 ELSE 0) <= n + (IF f = e THEN 1 ELSE 0)
          OBVIOUS
        <5> QED
          BY <5>1, <5>2, <5>3, <5>4, <5>5
      <4> QED
        BY <4>2, <4>5, <4>6
    <3> QED
      BY <3>1, <3>2
  <2>8. made' \in 0 .. MaxCalls
    BY <1>2, <1>4, <2>2, BoundAssumption
  <2>9. client[c].phase \notin {"new", "gone"}
    BY <1>2
  <2> QED
    BY <1>2, <2>5, <2>6, <2>7, <2>8, <2>9, ClientInv
<1> QED
  BY <1>5, <1>6

(* A client reads a token from its connection, which the server does not   *)
(* notice.                                                                 *)
LEMMA TokenRead ==
  ASSUME ServerInv, NEW k \in 1 .. Len(conns), NEW down \in Seq(Replies),
         conns' = [conns EXCEPT ![k].down = down]
  PROVE  /\ conns' \in Seq(Connections) /\ Len(conns') = Len(conns) /\ RequestsWhole'
         /\ \A i \in 1 .. Len(conns) : /\ conns'[i].server = conns[i].server
                                       /\ conns'[i].owner = conns[i].owner
                                       /\ conns'[i].open = conns[i].open
<1>1. TypeOK /\ RequestsWhole
  BY DEF ServerInv
<1>2. PICK cn \in Connections :
        /\ cn.owner = conns[k].owner /\ cn.open = conns[k].open
        /\ cn.server = conns[k].server /\ cn.up = conns[k].up
        /\ conns' = [conns EXCEPT ![k] = cn]
  <2>1. PICK cn : cn = [conns[k] EXCEPT !.down = down]
    OBVIOUS
  <2>2. /\ cn \in Connections /\ cn.owner = conns[k].owner /\ cn.open = conns[k].open
        /\ cn.server = conns[k].server /\ cn.up = conns[k].up
    BY <1>1, <2>1, ConnIs DEF Connections
  <2>3. conns' = [conns EXCEPT ![k] = cn]
    BY <1>1, <2>1, ConnIs
  <2> QED
    BY <2>2, <2>3
<1>3. cn.server # "closed" => Whole(cn.up, cn.server = "queued", cn.open)
  BY <1>1, <1>2, ConnIs DEF RequestsWhole
<1>4. /\ conns' \in Seq(Connections) /\ Len(conns') = Len(conns) /\ RequestsWhole'
      /\ conns'[k] = cn /\ \A i \in 1 .. Len(conns) : i # k => conns'[i] = conns[i]
  BY <1>1, <1>2, <1>3, ConnChanged
<1> QED
  BY <1>2, <1>4

(* The reply to a definition. *)
LEMMA RecvReplyInv ==
  ASSUME ServerInv, NEW c \in Clients, RecvReply(c)
  PROVE  ServerInv'
<1> DEFINE s0 == client[c]
           ok == Up(c).down # <<>> /\ Head(Up(c).down)[1] = "ok"
           last == Last(s0.def)
<1>1. TypeOK /\ RequestsWhole /\ CallbacksWait
  BY DEF ServerInv
<1>2. /\ s0.phase = "waiting"
      /\ client' = [client EXCEPT ![c].phase = IF ~ok THEN "failed" ELSE IF last THEN "ready" ELSE "define",
                                  ![c].def = IF ok /\ ~last THEN @ + 1 ELSE @]
      /\ conns' = IF Up(c).down # <<>> THEN [conns EXCEPT ![s0.conn].down = Tail(@)] ELSE conns
      /\ UNCHANGED <<serverVars, backlog, got, made, stale>>
  BY DEF RecvReply
<1>3. PICK k \in 1 .. Len(conns) : k = s0.conn
  BY <1>2, OwnConnection
<1>4. /\ conns' \in Seq(Connections) /\ Len(conns') = Len(conns) /\ RequestsWhole'
      /\ \A i \in 1 .. Len(conns) : /\ conns'[i].server = conns[i].server
                                    /\ conns'[i].owner = conns[i].owner
                                    /\ conns'[i].open = conns[i].open
  <2>1. CASE Up(c).down = <<>>
    BY <1>1, <1>2, <2>1 DEF TypeOK, RequestsWhole
  <2>2. CASE Up(c).down # <<>>
    <3>1. PICK down \in Seq(Replies) : down = Tail(conns[k].down)
      BY <1>1, <1>3, <2>2, ConnIs, TailFacts DEF Up
    <3>2. conns' = [conns EXCEPT ![k].down = down]
      BY <1>1, <1>2, <1>3, <2>2, <3>1, ConnIs
    <3> QED
      BY <3>2, TokenRead
  <2> QED
    BY <2>1, <2>2
<1>5. ok /\ ~last => s0.def + 1 \in Eids
  <2>1. SUFFICES ASSUME ~last PROVE s0.def + 1 \in Eids
    OBVIOUS
  <2>2. PICK f \in Eids : ~(f <= s0.def)
    BY <2>1 DEF Last
  <2>3. PICK n \in Nat : n = Cardinality(Eids) /\ Eids = 1 .. n
    BY EidAssumption
  <2>4. s0.def \in 1 .. n /\ f \in 1 .. n
    BY <1>1, <2>3, ClientIs
  <2>5. \A d, g \in 1 .. n : ~(g <= d) => d + 1 \in 1 .. n
    OBVIOUS
  <2>6. s0.def + 1 \in 1 .. n
    BY <2>2, <2>4, <2>5
  <2> QED
    BY <2>3, <2>6
<1> HIDE DEF ok, last
<1>6. PICK s \in ClientStates :
        /\ client' = [client EXCEPT ![c] = s] /\ s.conn = client[c].conn
        /\ s.ks = client[c].ks /\ s.asyncReaders = client[c].asyncReaders
  <2>1. PICK phase : /\ phase = IF ~ok THEN "failed" ELSE IF last THEN "ready" ELSE "define"
                     /\ phase \in {"new", "define", "waiting", "ready", "failed", "gone"}
    OBVIOUS
  <2>2. PICK def \in Eids : def = IF ok /\ ~last THEN s0.def + 1 ELSE s0.def
    BY <1>1, <1>5, ClientIs
  <2>3. PICK s : s = [client[c] EXCEPT !.phase = phase, !.def = def]
    OBVIOUS
  <2>4. client' = [client EXCEPT ![c] = s]
    BY <1>1, <1>2, <2>1, <2>2, <2>3, ClientIs
  <2>5. /\ s \in ClientStates /\ s.conn = client[c].conn
        /\ s.ks = client[c].ks /\ s.asyncReaders = client[c].asyncReaders
    BY <1>1, <2>1, <2>2, <2>3, ClientIs DEF ClientStates
  <2> QED
    BY <2>4, <2>5
<1>7. \A e \in Eids : Cardinality(Readers(s.asyncReaders, e)) <= Len(s.ks[e])
  BY <1>1, <1>6 DEF CallbacksWait
<1>8. made' \in 0 .. MaxCalls
  BY <1>1, <1>2 DEF TypeOK
<1>9. client[c].phase \notin {"new", "gone"}
  BY <1>2
<1> QED
  BY <1>2, <1>4, <1>6, <1>7, <1>8, <1>9, ClientInv, ZenonT(60)

(* One round of step(). *)
LEMMA StepInv ==
  ASSUME ServerInv, NEW c \in Clients, Step(c)
  PROVE  ServerInv'
<1> DEFINE s0 == client[c]
           e == Head(s0.asyncReaders)
           need == Parts[e] > 0
           part == IF need THEN Append(s0.part[e], Head(Up(c).down)) ELSE <<>>
<1>1. TypeOK /\ RequestsWhole /\ CallbacksWait
  BY DEF ServerInv
<1>2. /\ s0.phase = "ready" /\ s0.asyncReaders # <<>>
      /\ UNCHANGED <<serverVars, backlog, made, stale>>
      /\ \/ /\ need /\ Up(c).down = <<>>
            /\ client' = [client EXCEPT ![c].phase = "failed"] /\ UNCHANGED conns
         \/ /\ ~(need /\ Up(c).down = <<>>)
            /\ conns' = IF need THEN [conns EXCEPT ![s0.conn].down = Tail(@)] ELSE conns
            /\ \/ client' = [client EXCEPT ![c].part[e] = <<>>, ![c].ks[e] = Tail(@),
                                           ![c].asyncReaders = Tail(@)]
               \/ client' = [client EXCEPT ![c].part[e] = part]
  BY DEF Step
<1>3. PICK k \in 1 .. Len(conns) : k = s0.conn
  BY <1>2, OwnConnection
<1>4. e \in Eids /\ Tail(s0.asyncReaders) \in Seq(Eids) /\ s0.asyncReaders \in Seq(Eids)
  BY <1>1, <1>2, ClientIs, TailFacts
<1>5. made' \in 0 .. MaxCalls /\ client[c].phase \notin {"new", "gone"}
  BY <1>1, <1>2 DEF TypeOK
<1> HIDE DEF e
<1>6. CASE /\ need /\ Up(c).down = <<>>
           /\ client' = [client EXCEPT ![c].phase = "failed"] /\ UNCHANGED conns
  <2>1. PICK s : s = [client[c] EXCEPT !.phase = "failed"]
    OBVIOUS
  <2>2. client' = [client EXCEPT ![c] = s]
    BY <1>1, <1>6, <2>1, ClientIs
  <2>3. /\ s \in ClientStates /\ s.conn = client[c].conn
        /\ s.ks = client[c].ks /\ s.asyncReaders = client[c].asyncReaders
    BY <1>1, <2>1, ClientIs DEF ClientStates
  <2>4. \A f \in Eids : Cardinality(Readers(s.asyncReaders, f)) <= Len(s.ks[f])
    BY <1>1, <2>3 DEF CallbacksWait
  <2>5. conns' \in Seq(Connections) /\ Len(conns') = Len(conns) /\ RequestsWhole'
    BY <1>1, <1>6 DEF TypeOK, RequestsWhole
  <2> QED
    BY <1>2, <1>5, <1>6, <2>2, <2>3, <2>4, <2>5, ClientInv
<1>7. ASSUME ~(need /\ Up(c).down = <<>>),
             conns' = IF need THEN [conns EXCEPT ![s0.conn].down = Tail(@)] ELSE conns
      PROVE  /\ conns' \in Seq(Connections) /\ Len(conns') = Len(conns) /\ RequestsWhole'
             /\ \A i \in 1 .. Len(conns) : /\ conns'[i].server = conns[i].server
                                           /\ conns'[i].owner = conns[i].owner
                                           /\ conns'[i].open = conns[i].open
             /\ part \in Seq(Replies)
  <2>1. CASE ~need
    <3>1. <<>> \in Seq(Replies)
      OBVIOUS
    <3> QED
      BY <1>1, <1>7, <2>1, <3>1 DEF TypeOK, RequestsWhole
  <2>2. CASE need
    <3>1. /\ conns[k].down # <<>> /\ conns[k].down \in Seq(Replies)
          /\ Tail(conns[k].down) \in Seq(Replies) /\ Head(conns[k].down) \in Replies
      BY <1>1, <1>3, <1>7, <2>2, ConnIs, TailFacts DEF Up
    <3>2. conns' = [conns EXCEPT ![k].down = Tail(conns[k].down)]
      BY <1>1, <1>3, <1>7, <2>2, ConnIs
    <3>3. s0.part[e] \in Seq(Replies)
      BY <1>1, <1>4, ClientIs
    <3>4. part = Append(s0.part[e], Head(conns[k].down))
      BY <1>3, <2>2 DEF Up
    <3>5. part \in Seq(Replies)
      <4>1. Append(s0.part[e], Head(conns[k].down)) \in Seq(Replies)
        BY <3>1, <3>3, AppendFacts
      <4> HIDE DEF part
      <4> QED
        BY <3>4, <4>1
    <3>6. PICK down \in Seq(Replies) : down = Tail(conns[k].down)
      BY <3>1
    <3>7. conns' = [conns EXCEPT ![k].down = down]
      BY <3>2, <3>6
    <3> QED
      BY <3>5, <3>7, TokenRead
  <2> QED
    BY <2>1, <2>2
<1> HIDE DEF need, part
<1>8. CASE /\ ~(need /\ Up(c).down = <<>>)
           /\ conns' = IF need THEN [conns EXCEPT ![s0.conn].down = Tail(@)] ELSE conns
           /\ client' = [client EXCEPT ![c].part[e] = part]
  <2>1. PICK s : s = [client[c] EXCEPT !.part[e] = part]
    OBVIOUS
  <2>2. client' = [client EXCEPT ![c] = s]
    BY <1>1, <1>8, <2>1, ClientIs
  <2>3. /\ s \in ClientStates /\ s.conn = client[c].conn
        /\ s.ks = client[c].ks /\ s.asyncReaders = client[c].asyncReaders
    BY <1>1, <1>4, <1>7, <1>8, <2>1, ClientIs DEF ClientStates
  <2>4. \A f \in Eids : Cardinality(Readers(s.asyncReaders, f)) <= Len(s.ks[f])
    BY <1>1, <2>3 DEF CallbacksWait
  <2> QED
    BY <1>2, <1>5, <1>7, <1>8, <2>2, <2>3, <2>4, ClientInv
<1>9. CASE /\ ~(need /\ Up(c).down = <<>>)
           /\ conns' = IF need THEN [conns EXCEPT ![s0.conn].down = Tail(@)] ELSE conns
           /\ client' = [client EXCEPT ![c].part[e] = <<>>, ![c].ks[e] = Tail(@),
                                       ![c].asyncReaders = Tail(@)]
  <2>1. \A f \in Eids : /\ Cardinality(Readers(s0.asyncReaders, f)) \in Nat
                        /\ Cardinality(Readers(Tail(s0.asyncReaders), f)) \in Nat
                        /\ Cardinality(Readers(Tail(s0.asyncReaders), f)) =
                             Cardinality(Readers(s0.asyncReaders, f)) - (IF f = e THEN 1 ELSE 0)
                        /\ Cardinality(Readers(s0.asyncReaders, f)) <= Len(s0.ks[f])
                        /\ s0.ks[f] \in Seq(1 .. MaxCalls) /\ Len(s0.ks[f]) \in Nat
    BY <1>1, <1>2, <1>4, ReadersFinite, ReadersTail, ClientIs, LenProperties DEF CallbacksWait, e
  <2>2. s0.ks[e] # <<>>
    <3>1. Len(s0.ks[e]) # 0
      <4>1. \A m, t, l \in Nat : t = m - 1 /\ m <= l => l # 0
        OBVIOUS
      <4>2. (IF e = e THEN 1 ELSE 0) = 1
        OBVIOUS
      <4> QED
        BY <1>4, <2>1, <4>1, <4>2
    <3> QED
      BY <3>1, EmptySeq
  <2>3. Tail(s0.ks[e]) \in Seq(1 .. MaxCalls) /\ Len(Tail(s0.ks[e])) = Len(s0.ks[e]) - 1
    BY <1>4, <2>1, <2>2, TailFacts
  <2>4. PICK none \in Seq(Replies) : none = <<>>
    <3>1. <<>> \in Seq(Replies)
      OBVIOUS
    <3> QED
      BY <3>1
  <2>5. PICK s : s = [client[c] EXCEPT !.part[e] = none, !.ks[e] = Tail(client[c].ks[e]),
                                       !.asyncReaders = Tail(client[c].asyncReaders)]
    OBVIOUS
  <2>6. client' = [client EXCEPT ![c] = s]
    BY <1>1, <1>9, <2>4, <2>5, ClientIs
  <2>7. /\ s \in ClientStates /\ s.conn = client[c].conn
        /\ s.ks = [s0.ks EXCEPT ![e] = Tail(s0.ks[e])] /\ s.asyncReaders = Tail(s0.asyncReaders)
    BY <1>1, <1>4, <2>3, <2>5, ClientIs DEF ClientStates
  <2>8. ASSUME NEW f \in Eids
        PROVE  Cardinality(Readers(s.asyncReaders, f)) <= Len(s.ks[f])
    <3>1. s0.ks \in [Eids -> Seq(1 .. MaxCalls)]
      BY <1>1, ClientIs
    <3>2. CASE f = e
      <4>1. s.ks[f] = Tail(s0.ks[e])
        BY <2>7, <3>1, <3>2
      <4>2. \A m, n \in Nat : m <= n => m - 1 <= n - 1
        OBVIOUS
      <4> QED
        BY <2>1, <2>3, <2>7, <3>2, <4>1, <4>2
    <3>3. CASE f # e
      <4>1. s.ks[f] = s0.ks[f]
        BY <2>7, <3>1, <3>3
      <4>2. \A m \in Nat : m - 0 = m
        OBVIOUS
      <4> QED
        BY <2>1, <2>7, <3>3, <4>1, <4>2
    <3> QED
      BY <3>2, <3>3
  <2> QED
    BY <1>2, <1>5, <1>7, <1>9, <2>6, <2>7, <2>8, ClientInv, ZenonT(60)
<1> QED
  BY <1>2, <1>6, <1>8, <1>9

(* The client's process ends, and its connections with it. *)
LEMMA ExitInv ==
  ASSUME ServerInv, NEW c \in Clients, Exit(c)
  PROVE  ServerInv'
<1> DEFINE s0 == client[c]
           cut == CASE s0.phase = "define" -> {<<>>, <<<<"define", s0.def>>>>}
                    [] s0.phase = "ready" -> {<<>>} \union {<<<<"invoke", e>>>> : e \in Eids}
                    [] OTHER -> {<<>>}
<1>1. TypeOK /\ RequestsWhole /\ CallbacksWait
  BY DEF ServerInv
<1>2. /\ s0.phase \notin {"new", "gone"}
      /\ client' = [client EXCEPT ![c].phase = "gone"]
      /\ UNCHANGED <<serverVars, backlog, got, made, stale>>
  BY DEF Exit
<1>3. PICK k \in 1 .. Len(conns) : /\ k = s0.conn /\ conns[k].owner = c /\ conns[k].open
                                   /\ (conns[k].server # "closed" => Whole(conns[k].up, conns[k].server = "queued", TRUE))
  BY <1>2, OwnConnection
<1>4. PICK toks \in IF PeerGone(c) THEN {<<>>} ELSE cut :
        conns' = [i \in DOMAIN conns |->
                    IF conns[i].owner # c THEN conns[i]
                    ELSE [conns[i] EXCEPT !.open = FALSE, !.up = IF i = s0.conn THEN @ \o toks ELSE @]]
  BY DEF Exit
<1>5. \/ toks = <<>>
      \/ \E r \in Requests : Begins(r) /\ toks = <<r>> /\ conns[k].server # "closed"
  <2>1. CASE toks = <<>>
    BY <2>1
  <2>2. CASE toks # <<>>
    <3>1. ~PeerGone(c) /\ toks \in cut
      BY <2>2
    <3>2. conns[k].server # "closed"
      BY <1>3, <3>1 DEF PeerGone, Up
    <3>3. s0.def \in Eids
      BY <1>1, ClientIs
    <3>4. \A e \in Eids : /\ <<"define", e>> \in Requests /\ Begins(<<"define", e>>)
                          /\ <<"invoke", e>> \in Requests /\ Begins(<<"invoke", e>>)
      BY DEF Requests, Begins
    <3>5. toks = <<<<"define", s0.def>>>> \/ \E e \in Eids : toks = <<<<"invoke", e>>>>
      BY <2>2, <3>1
    <3> QED
      BY <3>2, <3>3, <3>4, <3>5
  <2> QED
    BY <2>1, <2>2
<1> HIDE DEF cut
<1>6. PICK up \in Seq(Requests) : /\ up = conns[k].up \o toks
                                  /\ conns[k].server # "closed" => Whole(up, conns[k].server = "queued", FALSE)
  <2>1. conns[k].up \in Seq(Requests) /\ (conns[k].server = "queued") \in BOOLEAN
    BY <1>1, ConnIs
  <2>2. CASE toks = <<>>
    <3>1. conns[k].up \o toks = conns[k].up
      BY <2>1, <2>2, ConcatEmptySeq
    <3> QED
      BY <1>3, <2>1, <3>1, GoneWhole
  <2>3. ASSUME NEW r \in Requests, Begins(r), toks = <<r>>, conns[k].server # "closed"
        PROVE  /\ conns[k].up \o toks \in Seq(Requests)
               /\ Whole(conns[k].up \o toks, conns[k].server = "queued", FALSE)
    BY <1>3, <2>1, <2>3, CutWhole
  <2> QED
    BY <1>5, <2>2, <2>3
<1>7. /\ conns \in Seq(Connections) /\ DOMAIN conns = 1 .. Len(conns) /\ Len(conns) \in Nat
  BY <1>1, LenProperties DEF TypeOK
<1>8. ASSUME NEW i \in 1 .. Len(conns)
      PROVE  /\ conns'[i] \in Connections
             /\ conns'[i].server = conns[i].server /\ conns'[i].owner = conns[i].owner
             /\ conns[i].owner # c => conns'[i] = conns[i]
             /\ conns[i].owner = c => conns'[i].open = FALSE
             /\ conns[i].owner = c => conns'[i].up = IF i = k THEN up ELSE conns[i].up
  <2>1. conns[i] \in Connections /\ conns[i].up \in Seq(Requests)
    BY <1>1, ConnIs
  <2>2. CASE conns[i].owner # c
    BY <1>4, <1>7, <2>1, <2>2
  <2>3. CASE conns[i].owner = c
    <3>1. PICK u \in Seq(Requests) : u = IF i = k THEN up ELSE conns[i].up
      BY <2>1
    <3>2. PICK cn : cn = [conns[i] EXCEPT !.open = FALSE, !.up = u]
      OBVIOUS
    <3>3. conns'[i] = cn
      BY <1>3, <1>4, <1>6, <1>7, <2>1, <2>3, <3>1, <3>2 DEF Connections
    <3>4. cn \in Connections /\ cn.server = conns[i].server /\ cn.owner = c /\ cn.open = FALSE /\ cn.up = u
      BY <2>1, <2>3, <3>1, <3>2 DEF Connections
    <3> QED
      BY <2>3, <3>1, <3>3, <3>4
  <2> QED
    BY <2>2, <2>3
<1>9. conns' \in Seq(Connections) /\ Len(conns') = Len(conns) /\ DOMAIN conns' = 1 .. Len(conns)
  <2>1. DOMAIN conns' = 1 .. Len(conns) /\ conns' = [i \in 1 .. Len(conns) |-> conns'[i]]
    BY <1>4, <1>7
  <2>2. conns' \in [1 .. Len(conns) -> Connections]
    BY <1>8, <2>1
  <2>3. conns' \in Seq(Connections)
    BY <1>7, <2>2, SeqDef
  <2> QED
    BY <1>7, <2>1, <2>3, LenProperties
<1>10. RequestsWhole'
  <2>1. ASSUME NEW i \in 1 .. Len(conns), conns'[i].server # "closed"
        PROVE  Whole(conns'[i].up, conns'[i].server = "queued", conns'[i].open)
    <3>1. Whole(conns[i].up, conns[i].server = "queued", conns[i].open) /\ conns[i].open \in BOOLEAN
      BY <1>1, <1>7, <1>8, <2>1, ConnIs DEF RequestsWhole
    <3>2. CASE conns[i].owner # c
      BY <1>8, <3>1, <3>2
    <3>3. CASE conns[i].owner = c /\ i = k
      BY <1>6, <1>8, <2>1, <3>3
    <3>4. CASE conns[i].owner = c /\ i # k
      <4>1. Whole(conns[i].up, conns[i].server = "queued", FALSE)
        <5>1. CASE conns[i].open = TRUE
          BY <3>1, <5>1, GoneWhole
        <5>2. CASE conns[i].open = FALSE
          BY <3>1, <5>2
        <5> QED
          BY <3>1, <5>1, <5>2
      <4> QED
        BY <1>8, <3>4, <4>1
    <3> QED
      BY <3>2, <3>3, <3>4
  <2> QED
    BY <1>9, <2>1 DEF RequestsWhole
<1>11. PICK s \in ClientStates :
         /\ client' = [client EXCEPT ![c] = s] /\ s.conn = client[c].conn /\ s.phase = "gone"
         /\ s.ks = client[c].ks /\ s.asyncReaders = client[c].asyncReaders
  <2>1. PICK s : s = [client[c] EXCEPT !.phase = "gone"]
    OBVIOUS
  <2>2. client' = [client EXCEPT ![c] = s]
    BY <1>1, <1>2, <2>1, ClientIs
  <2>3. /\ s \in ClientStates /\ s.conn = client[c].conn /\ s.phase = "gone"
        /\ s.ks = client[c].ks /\ s.asyncReaders = client[c].asyncReaders
    BY <1>1, <2>1, ClientIs DEF ClientStates
  <2> QED
    BY <2>2, <2>3
<1>12. \A e \in Eids : Cardinality(Readers(s.asyncReaders, e)) <= Len(s.ks[e])
  BY <1>1, <1>11 DEF CallbacksWait
<1>13. made' \in 0 .. MaxCalls
  BY <1>1, <1>2 DEF TypeOK
<1>14. \A i \in 1 .. Len(conns) :
         /\ conns'[i].server = conns[i].server /\ conns'[i].owner = conns[i].owner
         /\ conns[i].owner # c \/ s.phase \notin {"new", "gone"} => conns'[i].open = conns[i].open
  BY <1>8, <1>11
<1> QED
  BY <1>2, <1>9, <1>10, <1>11, <1>12, <1>13, <1>14, ClientInv

-----------------------------------------------------------------------------
(* The theorems.                                                           *)

LEMMA ServerNext ==
  ASSUME ServerInv, [Next]_vars
  PROVE  ServerInv'
<1>1. CASE Loop
  BY <1>1, LoopInv, AcceptInv, EvaluateInv DEF Loop
<1>2. CASE Clock
  BY <1>2, LoopInv DEF Clock
<1>3. ASSUME NEW c \in Clients, Connect(c) \/ ClientStep(c) \/ Reconnect(c) \/ Exit(c)
      PROVE  ServerInv'
  BY <1>3, ConnectInv, SendInv, RecvReplyInv, StepInv, ReconnectInv, ExitInv DEF ClientStep
<1>4. CASE UNCHANGED vars
  BY <1>4 DEF vars, ServerInv, TypeOK, HandlersInv, ConnectionPlaces, RequestsWhole, CallbacksWait, Served
<1> QED
  BY <1>1, <1>2, <1>3, <1>4 DEF Next

(* What is read from a connection is a request, what is written a reply,   *)
(* and a callback is there for every result: the server reads no argument  *)
(* for a function's number, and step() takes no callback from an empty     *)
(* queue, however requests are cut short and clients reconnect.            *)
THEOREM ReplTypes == Spec => []TypeOK
<1>1. ServerInv => TypeOK
  BY DEF ServerInv
<1> QED
  BY <1>1, ServerInit, ServerNext, PTL DEF Spec

(* events.C:83, net.C:272: no closure of the event loop is called or       *)
(* deleted after it was deleted, and what the kernel returns for a         *)
(* descriptor was made for the connection that is behind it now, for any   *)
(* number of descriptors, connections, clients and calls.                  *)
THEOREM HandlersAreLive == Spec => []HandlersLive
<1>1. ASSUME ServerInv PROVE HandlersLive
  <2>1. TypeOK /\ HandlersInv
    BY <1>1 DEF ServerInv
  <2>2. ev.watch \in [AllFds -> Closures \union {NoClosure}]
    BY <2>1 DEF TypeOK
  <2>3. ASSUME NEW c \in Range(batch) \union (Range(ev.watch) \ {NoClosure})
        PROVE  c \in ev.heap
    <3>1. CASE c \in Range(batch)
      BY <2>1, <3>1 DEF HandlersInv
    <3>2. CASE c \in Range(ev.watch) \ {NoClosure}
      <4>1. PICK fd \in AllFds : c = ev.watch[fd] /\ c # NoClosure
        BY <2>2, <3>2 DEF Range
      <4>2. CASE fd = Listen
        BY <2>1, <4>1, <4>2 DEF HandlersInv
      <4>3. CASE fd # Listen
        <5>1. fd \in Served
          BY <2>1, <4>1, <4>3 DEF HandlersInv, AllFds
        <5>2. c = <<fd, connAt[fd]>>
          BY <2>1, <4>1, <5>1 DEF HandlersInv
        <5> QED
          BY <2>1, <5>1, <5>2, HeapTypes
      <4> QED
        BY <4>2, <4>3
    <3> QED
      BY <2>3, <3>1, <3>2
  <2>4. \A c \in ev.heap : c # Listener => connAt[c[1]] = c[2]
    BY <2>1, HeapTypes
  <2> QED
    BY <2>1, <2>3, <2>4 DEF HandlersLive, HandlersInv
<1> QED
  BY <1>1, ServerInit, ServerNext, PTL DEF Spec
==============================================================================
