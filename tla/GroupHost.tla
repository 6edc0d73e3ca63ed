------------------------------ MODULE GroupHost ------------------------------
(***************************************************************************)
(* How the queue of a recording thread gets its reader: the lazy set-up in *)
(* StorageGroup::out() (include/hobbes/storage.H) on the producer's side,  *)
(* and the group host of hog (bin/hog/main.C) on the consumer's.           *)
(*                                                                         *)
(* Each thread of one producing process makes a shared memory region under *)
(* a name built from its thread id, and announces the name over a local    *)
(* socket the threads of the group share.  hog opens the region by name,   *)
(* takes it over (unlinks the name) and starts a reader on it.             *)
(*                                                                         *)
(* A thread id may be used again once its thread has exited; a region      *)
(* outlives its thread.  hog may be started late, die and be restarted.    *)
(***************************************************************************)
EXTENDS Integers, Sequences, FiniteSets

CONSTANTS
  Threads,          \* the recording threads
  Tids,             \* the thread ids
  TidChoices,       \* how the threads may get their ids
  MaxConnections,   \* bound on the connections made in one behaviour
  MaxHogs           \* bound on the times hog is started

ASSUME TidAssumption == TidChoices \subseteq [Threads -> Tids]
ASSUME BoundAssumption == MaxConnections \in Nat /\ MaxHogs \in Nat

VARIABLES
  tidOf,            \* the id of each thread, fixed in a behaviour
  hog,              \* is hog running, and listening for the group
  hogs,             \* how often it was started
  tpc,              \* where each thread is
  pipe,             \* threads whose thread-local pipe is set
  region,           \* the state of each thread's region
  shm,              \* the shared memory names: the thread a name leads to
  mqserver,         \* the group's socket, 0 when there is none
  conns,            \* each connection: queued announcements, server's end
  announced,        \* history: the announcements written, and to which hog
  readers           \* history: the hog that started a reader on each region

vars == <<tidOf, hog, hogs, tpc, pipe, region, shm, mqserver, conns, announced,
          readers>>

NoThread == "none"

Init ==
  /\ tidOf \in TidChoices
  /\ hog = FALSE
  /\ hogs = 0
  /\ tpc = [t \in Threads |-> "new"]
  /\ pipe = {}
  /\ region = [t \in Threads |-> "none"]
  /\ shm = [i \in Tids |-> NoThread]
  /\ mqserver = 0
  /\ conns = <<>>
  /\ announced = {}
  /\ readers = [t \in Threads |-> <<>>]

-----------------------------------------------------------------------------
(* The recording threads.                                                  *)

(* A thread starts, under an id that no running thread has. *)
Start(t) ==
  /\ tpc[t] = "new"
  /\ \A u \in Threads \ {t} : tidOf[u] = tidOf[t] => tpc[u] \in {"new", "exited"}
  /\ tpc' = [tpc EXCEPT ![t] = "idle"]
  /\ UNCHANGED <<tidOf, hog, hogs, pipe, region, shm, mqserver, conns, announced,
                 readers>>

Exit(t) ==
  /\ tpc[t] = "idle"
  /\ tpc' = [tpc EXCEPT ![t] = "exited"]
  /\ UNCHANGED <<tidOf, hog, hogs, pipe, region, shm, mqserver, conns, announced,
                 readers>>

(* The name of a region is built from the id of its thread.  Group and     *)
(* process are the same for all threads here.                              *)
sharedMemName(t) == tidOf[t]

(* out(), first call: the constructor of writer drops what the name led to *)
(* and makes a new region ...                                              *)
CreateRegion(t) ==
  /\ tpc[t] = "idle"
  /\ t \notin pipe
  /\ shm' = [shm EXCEPT ![sharedMemName(t)] = t]
  /\ region' = [region EXCEPT ![t] = "created"]
  /\ tpc' = [tpc EXCEPT ![t] = "format"]
  /\ UNCHANGED <<tidOf, hog, hogs, pipe, mqserver, conns, announced, readers>>

(* ... then sizes it, writes its header and sets its ready word.  The pipe *)
(* is set before the region is announced.                                  *)
FormatRegion(t) ==
  /\ tpc[t] = "format"
  /\ region' = [region EXCEPT ![t] = "ready"]
  /\ pipe' = pipe \cup {t}
  /\ tpc' = [tpc EXCEPT ![t] = "register"]
  /\ UNCHANGED <<tidOf, hog, hogs, shm, mqserver, conns, announced, readers>>

(* registerSHMAlloc(): the threads share the socket and do not lock it. *)
CheckSocket(t) ==
  /\ tpc[t] = "register"
  /\ tpc' = [tpc EXCEPT ![t] = IF mqserver = 0 THEN "connect" ELSE "announce"]
  /\ UNCHANGED <<tidOf, hog, hogs, pipe, region, shm, mqserver, conns, announced,
                 readers>>

(* mqconnect(): connect, send the version, and set the group's socket. *)
Connect(t) ==
  /\ tpc[t] = "connect"
  /\ hog
  /\ Len(conns) < MaxConnections
  /\ conns' = Append(conns, [inbox |-> <<>>, server |-> "pending"])
  /\ mqserver' = Len(conns) + 1
  /\ tpc' = [tpc EXCEPT ![t] = "announce"]
  /\ UNCHANGED <<tidOf, hog, hogs, pipe, region, shm, announced, readers>>

(* mqconnect() throws when nobody listens; the exception leaves HSTORE.    *)
ConnectFails(t) ==
  /\ tpc[t] = "connect"
  /\ ~hog
  /\ tpc' = [tpc EXCEPT ![t] = "idle"]
  /\ UNCHANGED <<tidOf, hog, hogs, pipe, region, shm, mqserver, conns, announced,
                 readers>>

(* mqwrite() of the announcement: it throws if the server's end is closed. *)
Announce(t) ==
  /\ tpc[t] = "announce"
  /\ IF conns[mqserver].server # "closed"
       THEN /\ conns' = [conns EXCEPT ![mqserver].inbox = Append(@, tidOf[t])]
            /\ announced' = announced \cup {<<t, hogs>>}
       ELSE UNCHANGED <<conns, announced>>
  /\ tpc' = [tpc EXCEPT ![t] = "idle"]
  /\ UNCHANGED <<tidOf, hog, hogs, pipe, region, shm, mqserver, readers>>

-----------------------------------------------------------------------------
(* hog.                                                                    *)

StartHog ==
  /\ ~hog
  /\ hogs < MaxHogs
  /\ hog' = TRUE
  /\ hogs' = hogs + 1
  /\ UNCHANGED <<tidOf, tpc, pipe, region, shm, mqserver, conns, announced,
                 readers>>

(* hog dies: its connections close, and its readers are gone. *)
StopHog ==
  /\ hog
  /\ hogs < MaxHogs
  /\ hog' = FALSE
  /\ conns' = [c \in DOMAIN conns |-> [inbox |-> <<>>, server |-> "closed"]]
  /\ UNCHANGED <<tidOf, hogs, tpc, pipe, region, shm, mqserver, announced,
                 readers>>

(* The listening socket is readable: accept, check the version, watch it.  *)
Accept(c) ==
  /\ hog
  /\ conns[c].server = "pending"
  /\ conns' = [conns EXCEPT ![c].server = "watched"]
  /\ UNCHANGED <<tidOf, hog, hogs, tpc, pipe, region, shm, mqserver, announced, readers>>

(* Mutants: the ready word is not looked at; the name is not unlinked; the *)
(* connection is served once.                                              *)
CanConsumeUnready(tid) == shm[tid] # NoThread

ConsumeKeepsName(c) ==
  /\ hog
  /\ conns[c].server = "watched"
  /\ conns[c].inbox # <<>>
  /\ LET tid == Head(conns[c].inbox)
     IN  /\ shm[tid] # NoThread /\ region[shm[tid]] = "ready"
         /\ readers' = [readers EXCEPT ![shm[tid]] = Append(@, hogs)]
  /\ conns' = [conns EXCEPT ![c].inbox = Tail(@)]
  /\ UNCHANGED <<tidOf, hog, hogs, tpc, pipe, region, shm, mqserver, announced>>

ConsumeOnce(c) ==
  /\ hog
  /\ conns[c].server = "watched"
  /\ conns[c].inbox # <<>>
  /\ LET tid == Head(conns[c].inbox)
     IN  /\ shm[tid] # NoThread /\ region[shm[tid]] = "ready"
         /\ readers' = [readers EXCEPT ![shm[tid]] = Append(@, hogs)]
         /\ shm' = [shm EXCEPT ![tid] = NoThread]
  /\ conns' = [conns EXCEPT ![c] = [inbox |-> <<>>, server |-> "closed"]]
  /\ UNCHANGED <<tidOf, hog, hogs, tpc, pipe, region, mqserver, announced>>

(* consumeQueue(): the name leads to a region, and the region is ready. *)
CanConsume(tid) == shm[tid] # NoThread /\ region[shm[tid]] = "ready"

(* evalGroupHostConnection(): take over the announced region, start its    *)
(* reader.                                                                 *)
Consume(c) ==
  /\ hog
  /\ conns[c].server = "watched"
  /\ conns[c].inbox # <<>>
  /\ LET tid == Head(conns[c].inbox)
     IN  /\ CanConsume(tid)
         /\ readers' = [readers EXCEPT ![shm[tid]] = Append(@, hogs)]
         /\ shm' = [shm EXCEPT ![tid] = NoThread]
  /\ conns' = [conns EXCEPT ![c].inbox = Tail(@)]
  /\ UNCHANGED <<tidOf, hog, hogs, tpc, pipe, region, mqserver, announced>>

(* The region cannot be opened or is not ready: the connection is dropped  *)
(* with whatever else was announced on it.                                 *)
ConsumeFails(c) ==
  /\ hog
  /\ conns[c].server = "watched"
  /\ conns[c].inbox # <<>>
  /\ ~CanConsume(Head(conns[c].inbox))
  /\ conns' = [conns EXCEPT ![c] = [inbox |-> <<>>, server |-> "closed"]]
  /\ UNCHANGED <<tidOf, hog, hogs, tpc, pipe, region, shm, mqserver, announced, readers>>

-----------------------------------------------------------------------------
ThreadStep(t) ==
  FormatRegion(t) \/ CheckSocket(t) \/ Connect(t) \/ ConnectFails(t) \/ Announce(t)

HogStep == \E c \in DOMAIN conns : Accept(c) \/ Consume(c) \/ ConsumeFails(c)

Next ==
  \/ \E t \in Threads : Start(t) \/ Exit(t) \/ CreateRegion(t) \/ ThreadStep(t)
  \/ StartHog \/ StopHog \/ HogStep

(* Threads inside out() go on; hog is started sooner or later, and its     *)
(* event loop serves every connection.                                     *)
Fairness ==
  /\ \A t \in Threads : WF_vars(ThreadStep(t))
  /\ \A c \in 1 .. MaxConnections :
       WF_vars(c \in DOMAIN conns /\ (Accept(c) \/ Consume(c) \/ ConsumeFails(c)))
  /\ WF_vars(StartHog)

Spec == Init /\ [][Next]_vars /\ Fairness

-----------------------------------------------------------------------------
(* Properties.                                                             *)

(* Types; the group's socket is one of the connections made. *)
TypeOK ==
  /\ tidOf \in [Threads -> Tids]
  /\ hog \in BOOLEAN /\ hogs \in 0 .. MaxHogs
  /\ tpc \in [Threads -> {"new", "idle", "format", "register", "connect",
                          "announce", "exited"}]
  /\ pipe \subseteq Threads /\ announced \subseteq Threads \X (0 .. MaxHogs)
  /\ region \in [Threads -> {"none", "created", "ready"}]
  /\ shm \in [Tids -> Threads \cup {NoThread}]
  /\ mqserver \in 0 .. Len(conns)
  /\ conns \in Seq([inbox : Seq(Tids), server : {"pending", "watched", "closed"}])
  /\ readers \in [Threads -> Seq(0 .. MaxHogs)]

(* What the steps of out() and of hog keep true of a thread's region: it   *)
(* exists from CreateRegion on and is ready from FormatRegion on, and a    *)
(* name leads to a region of its thread that nobody reads yet.             *)
RegionSteps ==
  \A t \in Threads :
    /\ tpc[t] \in {"new", "idle", "exited"} /\ t \notin pipe => region[t] = "none"
    /\ tpc[t] = "format" => t \notin pipe /\ region[t] = "created"
    /\ tpc[t] \in {"register", "connect", "announce"} => t \in pipe
    /\ t \in pipe => region[t] = "ready"

NamedUnread ==
  \A i \in Tids :
    shm[i] # NoThread =>
      /\ tidOf[shm[i]] = i
      /\ region[shm[i]] # "none"
      /\ readers[shm[i]] = <<>>

(* A queue has one reader in its life, also when hog is restarted and when *)
(* thread ids are used again.                                              *)
OneReader == \A t \in Threads : Len(readers[t]) <= 1

(* hog reads the header of a region only after it was written: no reader   *)
(* starts on a region under construction.                                  *)
ReadyWhenRead == \A t \in Threads : readers[t] # <<>> => region[t] = "ready"

IdUsedAgain ==
  \E t, u \in Threads :
    t # u /\ tidOf[t] = tidOf[u] /\ tpc[t] # "new" /\ tpc[u] # "new"

(* Every queue announced to a hog gets its reader, if that hog lives on    *)
(* and no thread id is used twice, whichever thread made the connection    *)
(* that the announcement was written to.                                   *)
AnnouncedIsRead ==
  \A t \in Threads, h \in 1 .. MaxHogs :
    <<t, h>> \in announced ~> readers[t] # <<>> \/ ~hog \/ hogs # h \/ IdUsedAgain

(* README.md: producer and consumer can be started in any order.  A thread *)
(* that records, and hog, running from some time on: the queue is read.    *)
AnyStartOrder ==
  \A t \in Threads : (t \in pipe /\ tpc[t] = "idle") ~> readers[t] # <<>>

(* The inductive invariant behind OneReader and ReadyWhenRead. *)
RegistrationInv ==
  /\ TypeOK
  /\ RegionSteps
  /\ NamedUnread
  /\ OneReader
  /\ ReadyWhenRead
==============================================================================
