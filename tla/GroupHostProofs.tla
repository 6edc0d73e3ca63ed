--------------------------- MODULE GroupHostProofs ---------------------------
(***************************************************************************)
(* Proofs about GroupHost for every set of threads and thread ids, shared  *)
(* or not, and any number of connections and restarts of hog.              *)
(***************************************************************************)
EXTENDS GroupHost, SequenceTheorems, TLAPS

Connections == [inbox : Seq(Tids), server : {"pending", "watched", "closed"}]

(* What a step does to one connection leaves a sequence of connections. *)
LEMMA ChangeConnection ==
  ASSUME NEW s \in Seq(Connections), NEW c \in DOMAIN s, NEW r \in Connections
  PROVE  [s EXCEPT ![c] = r] \in Seq(Connections) /\ Len([s EXCEPT ![c] = r]) = Len(s)
<1>1. c \in 1 .. Len(s)
  BY LenProperties
<1> QED
  BY <1>1, ExceptSeq

(* The steps of a thread that leave regions, names and readers alone keep  *)
(* the invariant if they move the thread only where its pipe allows.       *)
LEMMA ThreadMoves ==
  ASSUME RegistrationInv, NEW t \in Threads,
         NEW p \in {"new", "idle", "format", "register", "connect", "announce",
                    "exited"},
         tpc' = [tpc EXCEPT ![t] = p],
         p # "format",
         p \in {"register", "connect", "announce"} => t \in pipe,
         tpc[t] # "format",
         UNCHANGED <<tidOf, pipe, region, shm, readers>>
  PROVE  RegionSteps' /\ NamedUnread' /\ OneReader' /\ ReadyWhenRead'
BY DEF RegistrationInv, TypeOK, RegionSteps, NamedUnread, OneReader,
   ReadyWhenRead

(* So do steps of hog that touch none of these. *)
LEMMA Untouched ==
  ASSUME RegistrationInv, UNCHANGED <<tidOf, tpc, pipe, region, shm, readers>>
  PROVE  RegionSteps' /\ NamedUnread' /\ OneReader' /\ ReadyWhenRead'
BY DEF RegistrationInv, RegionSteps, NamedUnread, OneReader, ReadyWhenRead

(* A thread of the producing process takes a step. *)
LEMMA ThreadInv ==
  ASSUME RegistrationInv, NEW t \in Threads,
         Start(t) \/ Exit(t) \/ CreateRegion(t) \/ ThreadStep(t)
  PROVE  RegistrationInv'
<1> USE TidAssumption, BoundAssumption
<1>start. CASE Start(t)
  <2>1. TypeOK'
    BY <1>start DEF RegistrationInv, TypeOK, Start
  <2> QED
    BY <2>1, <1>start, ThreadMoves DEF RegistrationInv, Start
<1>exit. CASE Exit(t)
  <2>1. TypeOK'
    BY <1>exit DEF RegistrationInv, TypeOK, Exit
  <2> QED
    BY <2>1, <1>exit, ThreadMoves DEF RegistrationInv, Exit
<1>create. CASE CreateRegion(t)
  <2> USE <1>create DEF CreateRegion, RegistrationInv, TypeOK, sharedMemName
  <2>1. TypeOK'
    OBVIOUS
  <2>2. region[t] = "none" /\ readers[t] = <<>>
    BY DEF RegionSteps, ReadyWhenRead
  <2>3. RegionSteps'
    BY <2>2 DEF RegionSteps
  <2>4. NamedUnread'
    BY <2>2 DEF NamedUnread
  <2>5. OneReader' /\ ReadyWhenRead'
    BY <2>2 DEF OneReader, ReadyWhenRead
  <2> QED
    BY <2>1, <2>3, <2>4, <2>5
<1>format. CASE FormatRegion(t)
  <2> USE <1>format DEF FormatRegion, RegistrationInv, TypeOK
  <2>1. TypeOK'
    OBVIOUS
  <2>2. RegionSteps'
    BY DEF RegionSteps
  <2>3. NamedUnread'
    BY DEF NamedUnread
  <2>4. OneReader' /\ ReadyWhenRead'
    BY DEF OneReader, ReadyWhenRead
  <2> QED
    BY <2>1, <2>2, <2>3, <2>4
<1>check. CASE CheckSocket(t)
  <2>1. TypeOK'
    BY <1>check DEF RegistrationInv, TypeOK, CheckSocket
  <2>2. t \in pipe
    BY <1>check DEF RegistrationInv, RegionSteps, CheckSocket
  <2> QED
    BY <2>1, <2>2, <1>check, ThreadMoves DEF RegistrationInv, CheckSocket
<1>connect. CASE Connect(t)
  <2>1. TypeOK'
    <3>1. [inbox |-> <<>>, server |-> "pending"] \in Connections
      BY DEF Connections
    <3>2. conns' \in Seq(Connections) /\ Len(conns') = Len(conns) + 1
      BY <3>1, <1>connect DEF RegistrationInv, TypeOK, Connect, Connections
    <3> QED
      BY <3>2, <1>connect DEF RegistrationInv, TypeOK, Connect, Connections
  <2>2. t \in pipe
    BY <1>connect DEF RegistrationInv, RegionSteps, Connect
  <2> QED
    BY <2>1, <2>2, <1>connect, ThreadMoves DEF RegistrationInv, Connect
<1>fails. CASE ConnectFails(t)
  <2>1. TypeOK'
    BY <1>fails DEF RegistrationInv, TypeOK, ConnectFails
  <2> QED
    BY <2>1, <1>fails, ThreadMoves DEF RegistrationInv, ConnectFails
<1>announce. CASE Announce(t)
  <2>0. conns \in Seq(Connections)
    BY DEF RegistrationInv, TypeOK, Connections
  <2>1. conns' \in Seq(Connections) /\ Len(conns') = Len(conns)
    <3>1. CASE mqserver \in DOMAIN conns /\ conns[mqserver].server # "closed"
      <4> DEFINE r == [conns[mqserver] EXCEPT !.inbox = Append(@, tidOf[t])]
      <4>1. conns[mqserver] \in Connections
        BY <2>0, <3>1, ElementOfSeq, LenProperties
      <4>2. r \in Connections
        <5>1. conns[mqserver].inbox \in Seq(Tids) /\ tidOf[t] \in Tids
          BY <4>1 DEF Connections, RegistrationInv, TypeOK
        <5>2. Append(conns[mqserver].inbox, tidOf[t]) \in Seq(Tids)
          BY <5>1
        <5> QED
          BY <4>1, <5>2 DEF Connections
      <4>3. conns' = [conns EXCEPT ![mqserver] = r]
        BY <1>announce, <3>1 DEF Announce
      <4> QED
        BY <2>0, <3>1, <4>2, <4>3, ChangeConnection
    <3>2. CASE ~(mqserver \in DOMAIN conns /\ conns[mqserver].server # "closed")
      <4>1. conns' = conns
        <5>1. conns = [i \in DOMAIN conns |-> conns[i]]
          BY <2>0
        <5> QED
          BY <1>announce, <3>2, <5>1 DEF Announce
      <4> QED
        BY <2>0, <4>1
    <3> QED
      BY <3>1, <3>2
  <2>2. TypeOK'
    BY <2>1, <1>announce, SMTT(30) DEF RegistrationInv, TypeOK, Announce, Connections
  <2> QED
    BY <2>2, <1>announce, ThreadMoves DEF RegistrationInv, Announce
<1> QED
  BY <1>start, <1>exit, <1>create, <1>format, <1>check, <1>connect, <1>fails,
     <1>announce DEF ThreadStep

(* hog takes a step. *)
LEMMA HogInv ==
  ASSUME RegistrationInv, StartHog \/ StopHog \/ HogStep
  PROVE  RegistrationInv'
<1> USE TidAssumption, BoundAssumption
<1>start. CASE StartHog
  <2>1. TypeOK'
    BY <1>start DEF RegistrationInv, TypeOK, StartHog
  <2> QED
    BY <2>1, <1>start, Untouched DEF RegistrationInv, StartHog
<1>stop. CASE StopHog
  <2>1. [inbox |-> <<>>, server |-> "closed"] \in Connections
    BY DEF Connections
  <2>2. conns' \in Seq(Connections) /\ Len(conns') = Len(conns)
    <3>1. conns \in Seq(Connections) /\ Len(conns) \in Nat
          /\ DOMAIN conns = 1 .. Len(conns)
      BY LenProperties DEF RegistrationInv, TypeOK, Connections
    <3>2. conns' = [c \in 1 .. Len(conns) |-> [inbox |-> <<>>, server |-> "closed"]]
      BY <3>1, <1>stop DEF StopHog
    <3> QED
      BY <2>1, <3>1, <3>2
  <2>3. TypeOK'
    BY <2>2, <1>stop DEF RegistrationInv, TypeOK, StopHog, Connections
  <2> QED
    BY <2>3, <1>stop, Untouched DEF RegistrationInv, StopHog
<1>serve. ASSUME NEW c \in DOMAIN conns, Accept(c) \/ Consume(c) \/ ConsumeFails(c)
          PROVE  RegistrationInv'
  <2>1. conns \in Seq(Connections) /\ conns[c] \in Connections
    <3>1. conns \in Seq(Connections)
      BY DEF RegistrationInv, TypeOK, Connections
    <3>2. c \in 1 .. Len(conns)
      BY <1>serve, <3>1, LenProperties
    <3> QED
      BY <3>1, <3>2, ElementOfSeq
  <2>accept. CASE Accept(c)
    <3>1. conns' \in Seq(Connections) /\ Len(conns') = Len(conns)
      <4> DEFINE r == [conns[c] EXCEPT !.server = "watched"]
      <4>1. r \in Connections
        BY <2>1 DEF Connections
      <4>2. conns' = [conns EXCEPT ![c] = r]
        BY <2>accept DEF Accept
      <4> QED
        BY <1>serve, <2>1, <4>1, <4>2, ChangeConnection
    <3>2. TypeOK'
      BY <3>1, <2>accept DEF RegistrationInv, TypeOK, Accept, Connections
    <3> QED
      BY <3>2, <2>accept, Untouched DEF RegistrationInv, Accept
  <2>drop. CASE ConsumeFails(c)
    <3>1. conns' \in Seq(Connections) /\ Len(conns') = Len(conns)
      <4> DEFINE r == [inbox |-> <<>>, server |-> "closed"]
      <4>1. r \in Connections
        BY DEF Connections
      <4>2. conns' = [conns EXCEPT ![c] = r]
        BY <2>drop DEF ConsumeFails
      <4> QED
        BY <1>serve, <2>1, <4>1, <4>2, ChangeConnection
    <3>2. TypeOK'
      BY <3>1, <2>drop DEF RegistrationInv, TypeOK, ConsumeFails, Connections
    <3> QED
      BY <3>2, <2>drop, Untouched DEF RegistrationInv, ConsumeFails
  <2>consume. CASE Consume(c)
    <3> DEFINE tid == Head(conns[c].inbox)
               u   == shm[tid]
    <3>1. tid \in Tids /\ u \in Threads /\ u # NoThread /\ region[u] = "ready"
      <4>1. conns[c].inbox \in Seq(Tids) /\ conns[c].inbox # <<>>
        BY <2>1, <2>consume DEF Connections, Consume
      <4>2. tid \in Tids
        BY <4>1, HeadTailProperties
      <4> QED
        BY <4>2, <2>consume DEF RegistrationInv, TypeOK, Consume, CanConsume
    <3>2. readers[u] = <<>>
      BY <3>1 DEF RegistrationInv, NamedUnread
    <3>3. /\ readers' = [readers EXCEPT ![u] = Append(@, hogs)]
          /\ shm' = [shm EXCEPT ![tid] = NoThread]
          /\ UNCHANGED <<tidOf, tpc, pipe, region>>
      BY <2>consume DEF Consume
    <3>4. readers'[u] = <<hogs>> /\ readers' \in [Threads -> Seq(0 .. MaxHogs)]
      BY <3>1, <3>2, <3>3 DEF RegistrationInv, TypeOK
    <3>5. conns' \in Seq(Connections) /\ Len(conns') = Len(conns)
      <4> DEFINE r == [conns[c] EXCEPT !.inbox = Tail(@)]
      <4>1. conns[c].inbox \in Seq(Tids) /\ conns[c].inbox # <<>>
        BY <2>1, <2>consume DEF Connections, Consume
      <4>2. r \in Connections
        BY <2>1, <4>1, HeadTailProperties DEF Connections
      <4>3. conns' = [conns EXCEPT ![c] = r]
        BY <2>consume DEF Consume
      <4> QED
        BY <1>serve, <2>1, <4>2, <4>3, ChangeConnection
    <3>6. TypeOK'
      BY <3>4, <3>5, <2>consume DEF RegistrationInv, TypeOK, Consume, Connections
    <3>7. RegionSteps'
      BY <3>3 DEF RegistrationInv, RegionSteps
    <3>8. NamedUnread'
      <4> SUFFICES ASSUME NEW i \in Tids, shm'[i] # NoThread
                   PROVE  /\ tidOf'[shm'[i]] = i
                          /\ region'[shm'[i]] # "none"
                          /\ readers'[shm'[i]] = <<>>
        BY DEF NamedUnread
      <4>1. i # tid /\ shm'[i] = shm[i] /\ shm[i] # u
        BY <3>1, <3>3 DEF RegistrationInv, TypeOK, NamedUnread
      <4> QED
        BY <4>1, <3>1, <3>3 DEF RegistrationInv, TypeOK, NamedUnread
    <3>9. OneReader' /\ ReadyWhenRead'
      <4>1. \A v \in Threads : v # u => readers'[v] = readers[v]
        BY <3>1, <3>3 DEF RegistrationInv, TypeOK
      <4>2. Len(readers'[u]) = 1
        BY <3>4
      <4> QED
        BY <4>1, <4>2, <3>1, <3>3 DEF RegistrationInv, OneReader, ReadyWhenRead
    <3> QED
      BY <3>6, <3>7, <3>8, <3>9 DEF RegistrationInv
  <2> QED
    BY <1>serve, <2>accept, <2>drop, <2>consume
<1> QED
  BY <1>start, <1>stop, <1>serve DEF HogStep

(* RegistrationInv holds throughout: a name always leads to a region of    *)
(* its own thread that no hog has taken over.                              *)
THEOREM Registration == Spec => []RegistrationInv
<1>1. Init => RegistrationInv
  <2> SUFFICES ASSUME Init PROVE RegistrationInv
    OBVIOUS
  <2>1. TypeOK
    <3>1. readers \in [Threads -> Seq(0 .. MaxHogs)]
      BY EmptySeq DEF Init
    <3>2. conns \in Seq([inbox : Seq(Tids),
                         server : {"pending", "watched", "closed"}])
          /\ Len(conns) = 0
      BY EmptySeq DEF Init
    <3>0. hog \in BOOLEAN
      BY Zenon DEF Init
    <3>3. /\ hogs \in 0 .. MaxHogs
          /\ pipe \subseteq Threads /\ announced \subseteq Threads \X (0 .. MaxHogs)
          /\ tidOf \in [Threads -> Tids]
      BY BoundAssumption, TidAssumption DEF Init
    <3>4. mqserver \in 0 .. Len(conns)
      BY <3>2 DEF Init
    <3>5. /\ tpc \in [Threads -> {"new", "idle", "format", "register", "connect",
                                   "announce", "exited"}]
          /\ region \in [Threads -> {"none", "created", "ready"}]
          /\ shm \in [Tids -> Threads \cup {NoThread}]
      BY DEF Init
    <3> QED
      BY <3>0, <3>1, <3>2, <3>3, <3>4, <3>5 DEF TypeOK
  <2>2. RegionSteps /\ NamedUnread /\ ReadyWhenRead
    BY DEF Init, RegionSteps, NamedUnread, ReadyWhenRead
  <2>3. OneReader
    BY DEF Init, OneReader
  <2> QED
    BY <2>1, <2>2, <2>3 DEF RegistrationInv
<1>2. RegistrationInv /\ [Next]_vars => RegistrationInv'
  <2> SUFFICES ASSUME RegistrationInv, [Next]_vars PROVE RegistrationInv'
    OBVIOUS
  <2>1. CASE UNCHANGED vars
    BY <2>1 DEF vars, RegistrationInv, TypeOK, RegionSteps, NamedUnread,
       OneReader, ReadyWhenRead
  <2>2. CASE Next
    BY <2>2, ThreadInv, HogInv DEF Next
  <2> QED
    BY <2>1, <2>2
<1> QED
  BY <1>1, <1>2, PTL DEF Spec

(* No queue ever gets two readers, even if hog is restarted and thread ids *)
(* are used again.                                                         *)
THEOREM QueueHasOneReader == Spec => []OneReader
BY Registration, PTL DEF RegistrationInv

(* consumeQueue() never hands over a region before its header is complete. *)
THEOREM HeaderBeforeReader == Spec => []ReadyWhenRead
BY Registration, PTL DEF RegistrationInv
=============================================================================
