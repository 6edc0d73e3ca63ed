------------------------------- MODULE NetRepl -------------------------------
(***************************************************************************)
(* Remote evaluation: the net REPL server (lib/hobbes/ipc/net.C) on the    *)
(* event loop, and the asynchronous clients of include/hobbes/net.H.       *)
(*                                                                         *)
(* A connection is two queues of tokens.  A client sends the version, then *)
(* a definition of each of its functions and waits for each reply; then it *)
(* sends calls without waiting, and its step() hands results to callbacks  *)
(* in the order of the calls.  A request is two tokens, and a client may   *)
(* die between them, where the server's handler waits.  A result of        *)
(* function e is Parts[e] tokens, read one by one; a unit result is none.  *)
(***************************************************************************)
EXTENDS EventLoop

CONSTANTS
  Clients,
  Eids,          \* the functions every client defines: 1..n
  Parts,         \* the tokens a result of each has
  Limits,        \* how many descriptors the process may have for connections
  MaxConns,      \* bound on the connections made in one behaviour
  MaxCalls       \* bound on the calls made in one behaviour

ASSUME EidAssumption == Cardinality(Eids) \in Nat \ {0} /\ Eids = 1..Cardinality(Eids)
ASSUME PartAssumption == Parts \in [Eids -> Nat]
ASSUME LimitAssumption == \A l \in Limits : l \in 1..Cardinality(Fds)
ASSUME BoundAssumption == MaxConns \in Nat /\ MaxCalls \in Nat

VARIABLES
  limit,         \* the one of Limits that holds in this behaviour
  alive,         \* the server's process is running
  conns,         \* the connections made, see NewConn
  backlog,       \* those that are not accepted yet
  connAt,        \* the connection behind a descriptor, 0: the number is free
  cnetFns,       \* the connection whose function is stored at [fd][eid], or 0
  client,        \* the state of each client, see NewClient
  got,           \* history: the last callback called, with what result
  made,          \* the calls made so far, which are numbered
  stale          \* history: clients that reconnected with calls pending

vars == <<ev, batch, timers, limit, alive, conns, backlog, connAt, cnetFns, client, got, made, stale>>
serverVars == <<ev, batch, timers, limit, alive, connAt, cnetFns>>

Good == "0x00010000"
Versions == {Good, "other"}
Version(v) == <<<<"version", v>>>>

NewConn(c, toks, open) ==
  [owner |-> c, up |-> toks, down |-> <<>>, open |-> open, server |-> "queued"]

(* phase: where the client's thread is.  conn: its socket.  def: the       *)
(* function to define next.  ks, part: per function, callbacks waiting,    *)
(* and the tokens of a result read so far.                                 *)
NewClient ==
  [phase |-> "new", conn |-> 0, def |-> 1, asyncReaders |-> <<>>,
   ks |-> [e \in Eids |-> <<>>], part |-> [e \in Eids |-> <<>>]]

Listener == <<Listen, 0>>

Init ==
  /\ limit \in Limits
  /\ ev = registerEventHandler(NoHandlers, Listen, Listener, TRUE)
  /\ batch = <<>>
  /\ timers = [t \in Timers |-> "off"]
  /\ alive = TRUE
  /\ conns = <<>>
  /\ backlog = <<>>
  /\ connAt = [fd \in Fds |-> 0]
  /\ cnetFns = [fd \in Fds |-> [e \in Eids |-> 0]]
  /\ client = [c \in Clients |-> NewClient]
  /\ got = {}
  /\ made = 0
  /\ stale = {}

-----------------------------------------------------------------------------
(* The server.                                                             *)

(* The descriptors that are readable.  Mutant: of connections only those   *)
(* with one request pending, as if the events were edge-triggered.         *)
ReadyOnce == {fd \in Fds : connAt[fd] # 0 /\ (\/ Len(conns[connAt[fd]].up) \in 1..2
                                              \/ ~conns[connAt[fd]].open)}
             \union (IF backlog # <<>> THEN {Listen} ELSE {})

Ready == {fd \in Fds : connAt[fd] # 0 /\ (\/ conns[connAt[fd]].up # <<>>
                                          \/ ~conns[connAt[fd]].open)}
         \union (IF backlog # <<>> THEN {Listen} ELSE {})

Full == Cardinality({fd \in Fds : connAt[fd] # 0}) >= limit

(* The outcomes of writing to connection k: no process of the repository   *)
(* changes what SIGPIPE does, so writing after the peer has closed may     *)
(* kill the server, or be lost unnoticed.                                  *)
Survives(k) == IF conns[k].open THEN {TRUE} ELSE BOOLEAN

(* Mutant: evaluate() throws once it has dropped the connection, so that   *)
(* the handler's catch block drops it again.                               *)
DroppedTwice(e, fd) == unregisterEventHandler(unregisterEventHandler(closed(e, fd), fd), fd)

(* close(c), unregisterEventHandler(c), disconnect(c); the last does       *)
(* nothing in CCServer.                                                    *)
Dropped(e, fd) == unregisterEventHandler(closed(e, fd), fd)

Disconnect(fd) ==
  /\ ev' = Dropped(called(ev, Head(batch)), fd)
  /\ connAt' = [connAt EXCEPT ![fd] = 0]
  /\ conns' = [conns EXCEPT ![connAt[fd]].server = "closed"]
  /\ UNCHANGED <<alive, cnetFns>>

(* CCServer::prepare(): the compiled function is stored under the number.  *)
(* Mutant: with insert(), which keeps one that is there.                   *)
prepareInserts(fd, e) == IF cnetFns[fd][e] # 0 THEN cnetFns ELSE [cnetFns EXCEPT ![fd][e] = connAt[fd]]
prepare(fd, e) == [cnetFns EXCEPT ![fd][e] = connAt[fd]]

(* The server answers a request: the tokens read are left out of up.       *)
Reply(fd, left, toks) ==
  LET k == connAt[fd]
  IN  /\ alive' \in Survives(k)
      /\ conns' = [conns EXCEPT ![k].up = left,
                                ![k].down = IF conns[k].open THEN @ \o toks ELSE @]
      /\ ev' = called(ev, Head(batch))
      /\ UNCHANGED connAt

(* The handler of the listening socket: accept() takes the lowest free     *)
(* number, or fails when there is none.  A wrong version closes the        *)
(* descriptor and goes on to register it, which fails and closes it again. *)
Accept ==
  LET k  == Head(backlog)
      fd == CHOOSE f \in Fds : connAt[f] = 0 /\ \A g \in Fds : connAt[g] = 0 => f <= g
      e  == called(ev, Listener)
  IN  /\ batch # <<>> /\ Head(batch) = Listener
      /\ batch' = Tail(batch)
      /\ IF Full
         THEN ev' = e /\ UNCHANGED <<backlog, conns, connAt>>
         ELSE /\ conns[k].up # <<>> \/ ~conns[k].open
              /\ backlog' = Tail(backlog)
              /\ LET taken == conns[k].up # <<>> /\ Head(conns[k].up) = <<"version", Good>>
                 IN  /\ ev' = IF conns[k].up = <<>> THEN closed(e, fd)
                              ELSE registerEventHandler(e, fd, <<fd, k>>, taken)
                     /\ connAt' = IF taken THEN [connAt EXCEPT ![fd] = k] ELSE connAt
                     /\ conns' = IF taken THEN [conns EXCEPT ![k].up = Tail(@), ![k].server = "served"]
                                 ELSE [conns EXCEPT ![k].server = "closed"]
      /\ UNCHANGED <<timers, limit, alive, cnetFns, client, got, made, stale>>

(* evaluateNetREPLRequest() with CCServer::prepare() and evaluate(), for   *)
(* the descriptor the closure was made for.  The second token of a request *)
(* is waited for.  The stream ending before a request drops the            *)
(* connection; ending inside a definition, it is answered as one that does *)
(* not compile; inside a call, the argument is zero and the result is      *)
(* written all the same.                                                   *)
Evaluate ==
  LET fd   == Head(batch)[1]
      k    == connAt[fd]
      up   == conns[k].up
      e    == up[1][2]
      left == SubSeq(up, 3, Len(up))
      arg  == IF Len(up) > 1 THEN up[2][2] ELSE 0
      read == Len(up) > 1 \/ ~conns[k].open
  IN  /\ batch # <<>> /\ Head(batch) # Listener
      /\ batch' = Tail(batch)
      /\ \/ up = <<>> /\ ~conns[k].open /\ Disconnect(fd)
         \/ /\ up # <<>> /\ up[1][1] = "define" /\ read
            /\ \E ok \in {b \in BOOLEAN : b => Len(up) > 1} :
                 /\ cnetFns' = IF ok THEN prepare(fd, e) ELSE cnetFns
                 /\ Reply(fd, left, <<<<IF ok THEN "ok" ELSE "fail", e>>>>)
         \/ /\ up # <<>> /\ up[1][1] = "invoke"
            /\ IF cnetFns[fd][e] = 0 THEN Disconnect(fd)
               ELSE /\ read
                    /\ Reply(fd, left, [i \in 1..Parts[e] |-> <<"result", cnetFns[fd][e], arg, i>>])
                    /\ UNCHANGED cnetFns
      /\ UNCHANGED <<timers, limit, backlog, client, got, made, stale>>

Loop ==
  /\ alive
  /\ \/ /\ Wait(Ready) \/ RunTimers(Ready)
        /\ UNCHANGED <<limit, alive, conns, backlog, connAt, cnetFns, client, got, made, stale>>
     \/ Accept
     \/ Evaluate

Clock ==
  /\ alive
  /\ \E t \in Timers : addTimer(t) \/ Elapse(t)
  /\ UNCHANGED <<limit, alive, conns, backlog, connAt, cnetFns, client, got, made, stale>>

-----------------------------------------------------------------------------
(* The clients.                                                            *)

Up(c) == conns[client[c].conn]
PeerGone(c) == ~alive \/ Up(c).server = "closed"

(* makeConnection() and the version initSession() sends first; the process *)
(* may end between the two.                                                *)
Connect(c) ==
  /\ client[c].phase = "new"
  /\ Len(conns) < MaxConns /\ alive
  /\ backlog' = Append(backlog, Len(conns) + 1)
  /\ \/ /\ \E v \in Versions : conns' = Append(conns, NewConn(c, Version(v), TRUE))
        /\ client' = [client EXCEPT ![c].phase = "define", ![c].conn = Len(conns) + 1]
     \/ /\ conns' = Append(conns, NewConn(c, <<>>, FALSE))
        /\ client' = [client EXCEPT ![c].phase = "gone"]
  /\ UNCHANGED <<serverVars, got, made, stale>>

(* A request: a definition in initSession(), which then waits for the      *)
(* reply, or a call: AsyncRPCFunc::operator() then queues the callback and *)
(* itself.  Writing to a connection the server has closed throws.          *)
Send(c) ==
  LET s == client[c]
      define == s.phase = "define"
      toks(e) == IF define THEN <<<<"define", e>>, <<"body", 0>>>>
                 ELSE <<<<"invoke", e>>, <<"body", made + 1>>>>
  IN  /\ define \/ (s.phase = "ready" /\ made < MaxCalls)
      /\ IF PeerGone(c)
         THEN client' = [client EXCEPT ![c].phase = "failed"] /\ UNCHANGED <<conns, made>>
         ELSE \E e \in IF define THEN {s.def} ELSE Eids :
                /\ conns' = [conns EXCEPT ![s.conn].up = @ \o toks(e)]
                /\ made' = IF define THEN made ELSE made + 1
                /\ client' = [client EXCEPT ![c] =
                     IF define THEN [s EXCEPT !.phase = "waiting"]
                     ELSE [s EXCEPT !.ks[e] = Append(@, made + 1),
                                    !.asyncReaders = Append(@, e)]]
      /\ UNCHANGED <<serverVars, backlog, got, stale>>

(* The definitions end with the last function.                             *)
Last(e) == \A f \in Eids : f <= e

(* initSession() reads the reply; a failure or the end of the stream       *)
(* throws, and the socket stays open.                                      *)
RecvReply(c) ==
  LET s == client[c]
      ok == Up(c).down # <<>> /\ Head(Up(c).down)[1] = "ok"
      last == Last(s.def)
  IN  /\ s.phase = "waiting"
      /\ Up(c).down # <<>> \/ PeerGone(c)
      /\ client' = [client EXCEPT ![c].phase = IF ~ok THEN "failed" ELSE IF last THEN "ready" ELSE "define",
                                  ![c].def = IF ok /\ ~last THEN @ + 1 ELSE @]
      /\ conns' = IF Up(c).down # <<>> THEN [conns EXCEPT ![s.conn].down = Tail(@)] ELSE conns
      /\ UNCHANGED <<serverVars, backlog, got, made, stale>>

(* io<R>::accum(): is the result complete.                                 *)
accum(e, part) == Len(part) = Parts[e]

(* One round of step(), which the client's own event loop calls when its   *)
(* socket is readable: readAndFinish() of the first reader reads a token,  *)
(* or none for unit; a complete result goes to the oldest callback of that *)
(* function.                                                               *)
Step(c) ==
  LET s == client[c]
      e == Head(s.asyncReaders)
      need == Parts[e] > 0
      part == IF need THEN Append(s.part[e], Head(Up(c).down)) ELSE <<>>
  IN  /\ s.phase = "ready" /\ s.asyncReaders # <<>>
      /\ Up(c).down # <<>> \/ PeerGone(c)
      /\ IF need /\ Up(c).down = <<>>
         THEN client' = [client EXCEPT ![c].phase = "failed"] /\ UNCHANGED <<conns, got>>
         ELSE /\ conns' = IF need THEN [conns EXCEPT ![s.conn].down = Tail(@)] ELSE conns
              /\ IF accum(e, part)
                 THEN /\ got' = {[client |-> c, call |-> Head(s.ks[e]), eid |-> e, result |-> part]}
                      /\ client' = [client EXCEPT ![c].part[e] = <<>>, ![c].ks[e] = Tail(@),
                                                  ![c].asyncReaders = Tail(@)]
                 ELSE client' = [client EXCEPT ![c].part[e] = part] /\ UNCHANGED got
      /\ UNCHANGED <<serverVars, backlog, made, stale>>

(* reconnect(): a new connection, then closeC(): the old socket is closed  *)
(* and the queue of readers emptied; the callbacks and partial results of  *)
(* each function stay.  Then initSession() again.                          *)
Reconnect(c) ==
  /\ client[c].phase \in {"ready", "failed"}
  /\ Len(conns) < MaxConns /\ alive
  /\ conns' = Append([conns EXCEPT ![client[c].conn].open = FALSE], NewConn(c, Version(Good), TRUE))
  /\ backlog' = Append(backlog, Len(conns) + 1)
  /\ client' = [client EXCEPT ![c].phase = "define", ![c].conn = Len(conns) + 1,
                              ![c].def = 1, ![c].asyncReaders = <<>>]
  /\ stale' = IF \E e \in Eids : client[c].ks[e] # <<>> THEN stale \union {c} ELSE stale
  /\ UNCHANGED <<serverVars, got, made>>

(* The client's process ends, perhaps inside a request, and its sockets    *)
(* are closed.                                                             *)
Exit(c) ==
  LET s == client[c]
      cut == CASE s.phase = "define" -> {<<>>, <<<<"define", s.def>>>>}
               [] s.phase = "ready" -> {<<>>} \union {<<<<"invoke", e>>>> : e \in Eids}
               [] OTHER -> {<<>>}
  IN  /\ s.phase \notin {"new", "gone"}
      /\ client' = [client EXCEPT ![c].phase = "gone"]
      /\ \E toks \in IF PeerGone(c) THEN {<<>>} ELSE cut :
           conns' = [k \in DOMAIN conns |->
                       IF conns[k].owner # c THEN conns[k]
                       ELSE [conns[k] EXCEPT !.open = FALSE, !.up = IF k = s.conn THEN @ \o toks ELSE @]]
      /\ UNCHANGED <<serverVars, backlog, got, made, stale>>

ClientStep(c) == Send(c) \/ RecvReply(c) \/ Step(c)

Next ==
  \/ Loop
  \/ Clock
  \/ \E c \in Clients :
       \/ Connect(c)
       \/ ClientStep(c)
       \/ Reconnect(c)
       \/ Exit(c)

(* The server's thread runs while it can; a client reads what has arrived. *)
(* (That a client finishes the request it is writing, or dies, is part of  *)
(* Send and Exit.)                                                         *)
Fairness ==
  /\ WF_vars(Loop)
  /\ \A c \in Clients : WF_vars(RecvReply(c) \/ Step(c))

Spec == Init /\ [][Next]_vars /\ Fairness

-----------------------------------------------------------------------------
Result(k, n, i) == <<"result", k, n, i>>

(* The handlers of the server, the tokens of the two directions, and what  *)
(* either side keeps.                                                      *)
Closures == AllFds \X (0..MaxConns)
Requests ==
  ({"version"} \X Versions) \union ({"define", "invoke"} \X Eids) \union ({"body"} \X (0..MaxCalls))
Replies ==
  ({"ok", "fail"} \X Eids) \union ({"result"} \X (0..MaxConns) \X (0..MaxCalls) \X Nat)
Connections ==
  [owner : Clients, up : Seq(Requests), down : Seq(Replies), open : BOOLEAN,
   server : {"queued", "served", "closed"}]
ClientStates ==
  [phase : {"new", "define", "waiting", "ready", "failed", "gone"}, conn : 0..MaxConns, def : Eids,
   asyncReaders : Seq(Eids), ks : [Eids -> Seq(1..MaxCalls)], part : [Eids -> Seq(Replies)]]

TypeOK ==
  /\ ev \in [closures : [AllFds -> Closures \union {NoClosure}],
              watch : [AllFds -> Closures \union {NoClosure}],
              heap : SUBSET Closures, wild : BOOLEAN]
  /\ batch \in Seq(Closures)
  /\ timers \in [Timers -> {"off", "waiting", "due"}]
  /\ limit \in Limits /\ alive \in BOOLEAN
  /\ conns \in Seq(Connections) /\ Len(conns) <= MaxConns
  /\ backlog \in Seq(1..Len(conns))
  /\ connAt \in [Fds -> 0..Len(conns)]
  /\ cnetFns \in [Fds -> [Eids -> 0..MaxConns]]
  /\ client \in [Clients -> ClientStates]
  /\ \A c \in Clients : client[c].conn <= Len(conns)
  /\ made \in 0..MaxCalls /\ stale \subseteq Clients

(* A handler is allocated for the listening socket and for every           *)
(* connection that is served, and the kernel watches these and no other:   *)
(* what it has returned to the loop is among them, each once, and the      *)
(* listening socket only while a connection waits to be accepted.          *)
Served == {fd \in Fds : connAt[fd] # 0}
HandlersInv ==
  /\ ~ev.wild
  /\ ev.heap = {Listener} \union {<<fd, connAt[fd]>> : fd \in Served}
  /\ ev.watch[Listen] = Listener
  /\ \A fd \in Served : ev.watch[fd] = <<fd, connAt[fd]>> /\ ev.closures[fd] = <<fd, connAt[fd]>>
  /\ \A fd \in Fds \ Served : ev.watch[fd] = NoClosure
  /\ IsInjective(batch) /\ Range(batch) \subseteq ev.heap
  /\ Listener \in Range(batch) => backlog # <<>>

(* A connection waits to be accepted or is served under one descriptor,    *)
(* and a client's own is open.                                             *)
ConnectionPlaces ==
  /\ \A fd \in Served : conns[connAt[fd]].server = "served"
  /\ \A f, g \in Served : connAt[f] = connAt[g] => f = g
  /\ \A k \in Range(backlog) : conns[k].server = "queued"
  /\ IsInjective(backlog)
  /\ \A c \in Clients : client[c].phase \notin {"new", "gone"} =>
       client[c].conn # 0 /\ conns[client[c].conn].owner = c /\ conns[client[c].conn].open

(* What the server has still to read are whole requests, after the version *)
(* if it has not accepted the connection; only a client that has gone may  *)
(* have left the last one unfinished, or sent nothing at all.              *)
Begins(t) == t[1] \in {"define", "invoke"}
Whole(up, queued, open) ==
  /\ \A j \in 1 .. Len(up) - 1 : Begins(up[j]) <=> up[j + 1][1] = "body"
  /\ \A j \in 2 .. Len(up) : up[j][1] # "version"
  /\ up # <<>> => IF queued THEN up[1][1] = "version" ELSE Begins(up[1])
  /\ open /\ queued => up # <<>>
  /\ open /\ up # <<>> => ~Begins(up[Len(up)])
RequestsWhole ==
  \A k \in DOMAIN conns : conns[k].server # "closed" =>
    Whole(conns[k].up, conns[k].server = "queued", conns[k].open)

(* A callback waits for every reader; after reconnect(), perhaps more.     *)
Readers(a, e) == {j \in DOMAIN a : a[j] = e}
CallbacksWait ==
  \A c \in Clients : \A e \in Eids :
    Cardinality(Readers(client[c].asyncReaders, e)) <= Len(client[c].ks[e])

(* The inductive invariant behind HandlersLive. *)
ServerInv == TypeOK /\ HandlersInv /\ ConnectionPlaces /\ RequestsWhole /\ CallbacksWait

(* events.C:83, net.C:272: no closure is deleted twice or called after it  *)
(* was deleted, though the map keeps deleted ones; and the closure the     *)
(* kernel returns for a descriptor was made for the connection that is now *)
(* behind that number, also for events already returned when an earlier    *)
(* handler of the same pass closed or accepted a connection.               *)
HandlersLive ==
  /\ ~ev.wild
  /\ \A c \in Range(batch) \union (Range(ev.watch) \ {NoClosure}) :
       /\ c \in ev.heap
       /\ c # Listener => connAt[c[1]] = c[2]

(* What callback number n of client c ought to be called with.             *)
Expected(g, k) == [i \in 1..Parts[g.eid] |-> Result(k, g.call, i)]

(* net.H:1241: asyncReaders, the callbacks of each function and the        *)
(* results on the socket stay in step: a callback is called with all of    *)
(* the result of its own call, by the client's own definition, though      *)
(* functions stay stored under a descriptor after its client has gone      *)
(* (net.C:352).  A client that reconnected while calls were                *)
(* pending is excepted: reconnect() empties asyncReaders and keeps the     *)
(* callbacks, so that the next results go to those of the old connection.  *)
OwnReply ==
  \A g \in got : g.client \notin stale =>
    \E k \in DOMAIN conns : conns[k].owner = g.client /\ g.result = Expected(g, k)

(* The callbacks that wait are those of the calls numbered N[1], N[2], ..., *)
(* one for each reader.                                                    *)
Increasing(f) == \A i, j \in DOMAIN f : i < j => f[i] < f[j]
Waiting(a, ks, N) ==
  /\ Increasing(N)
  /\ \A e \in Eids : Increasing(ks[e]) /\ Range(ks[e]) = {N[j] : j \in Readers(a, e)}

(* What a client has yet to read of the results, from the first token of   *)
(* the one that its oldest reader is at; the result of reader j ends with  *)
(* token end[j].                                                           *)
Stream(s, down) ==
  IF s.asyncReaders = <<>> THEN down ELSE s.part[Head(s.asyncReaders)] \o down
Ends(a, end) ==
  /\ end[0] = 0 /\ \A j \in 1..Len(a) : end[j] = end[j - 1] + Parts[a[j]]
  /\ \A i, j \in 0..Len(a) : i <= j => end[i] <= end[j]
Arrived(a, k, toks, N, end, m) ==
  /\ Len(toks) = end[m]
  /\ \A j \in 1..m : \A i \in 1..Parts[a[j]] : toks[end[j - 1] + i] = Result(k, N[j], i)
PartRead(s) ==
  \A e \in Eids : s.part[e] # <<>> =>
    s.asyncReaders # <<>> /\ e = Head(s.asyncReaders) /\ Len(s.part[e]) < Parts[e]

(* The server has answered the first m of the calls, and while it lives it *)
(* has the others to read.                                                 *)
Asked(a, up, N, m) ==
  /\ Len(up) = 2 * (Len(a) - m)
  /\ \A j \in 1 .. Len(a) - m : up[2 * j - 1] = <<"invoke", a[m + j]>> /\ up[2 * j] = <<"body", N[m + j]>>
Matched(s, k, cn, live, N, end, m) ==
  /\ Waiting(s.asyncReaders, s.ks, N) /\ PartRead(s)
  /\ Ends(s.asyncReaders, end)
  /\ Arrived(s.asyncReaders, k, Stream(s, cn.down), N, end, m)
  /\ live => Asked(s.asyncReaders, cn.up, N, m)
Answers(s, k, cn, live, calls) ==
  LET n == Len(s.asyncReaders)
  IN  \E N \in [1..n -> 1..calls], end \in [0..n -> Nat], m \in 0..n :
        Matched(s, k, cn, live, N, end, m)

(* Of the definitions at most one is under way, and until the first is     *)
(* answered the connection may wait to be accepted.  D: the functions that *)
(* the server has stored for the connection.                               *)
Idle(s) == s.asyncReaders = <<>> /\ \A e \in Eids : s.ks[e] = <<>> /\ s.part[e] = <<>>
Rest(cn) == IF cn.server = "queued" THEN Tail(cn.up) ELSE cn.up
Defines(s, cn, live, D) ==
  /\ Idle(s)
  /\ cn.server = "queued" => s.def = 1 /\ cn.down = <<>>
  /\ \A e \in Eids : e < s.def => e \in D
  /\ cn.down = <<>> /\ live =>
       Rest(cn) = IF s.phase = "define" THEN <<>> ELSE <<<<"define", s.def>>, <<"body", 0>>>>
  /\ cn.down # <<>> =>
       /\ s.phase = "waiting" /\ (live => Rest(cn) = <<>>)
       /\ \/ cn.down = <<<<"ok", s.def>>>> /\ s.def \in D
          \/ cn.down = <<<<"fail", s.def>>>>

InStep(s, k, cn, live, D, calls) ==
  /\ s.phase \in {"define", "waiting"} => Defines(s, cn, live, D)
  /\ s.phase = "ready" => cn.server # "queued" /\ D = Eids /\ Answers(s, k, cn, live, calls)
  /\ s.phase = "failed" => \A e \in Eids : s.part[e] # <<>> => s.ks[e] # <<>>

(* The inductive invariant behind OwnReply. *)
Defined(k) == {e \in Eids : \A fd \in Fds : connAt[fd] = k => cnetFns[fd][e] = k}
Live(k) == alive /\ conns[k].server # "closed"
ClientInStep(c) ==
  /\ client[c].phase = "new" => client[c] = NewClient
  /\ client[c].phase \notin {"new", "gone"} =>
       LET k == client[c].conn
       IN  InStep(client[c], k, conns[k], Live(k), Defined(k), made)
ClientsInStep == \A c \in Clients \ stale : ClientInStep(c)

(* net.H:1226, net.C:197: a call on a connection that stays up is called   *)
(* back, whatever other clients do, unless the server is killed.           *)
Pending(n) ==
  \E c \in Clients \ stale : \E e \in Eids :
    /\ Parts[e] > 0 /\ n \in Range(client[c].ks[e])
    /\ client[c].phase \notin {"failed", "gone"}
CalledBack == \A n \in 1..MaxCalls : Pending(n) ~> (~Pending(n) \/ ~alive)

(* events.C:126: timers run only when no descriptor is ready.  Once the    *)
(* requests pause, a due timer runs, unless connections wait that accept() *)
(* has no descriptor for: then the loop is never idle.                     *)
Exhausted == backlog # <<>> /\ Full
TimersRun ==
  \A t \in Timers : timers[t] = "due" ~> (timers[t] # "due" \/ ~alive \/ Exhausted)
=============================================================================
