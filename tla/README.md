# Specifications of hobbes

This directory holds TLA+ specifications of hobbes, translated from its source,
with TLC configurations that check them on small instances and TLAPS proofs of
what matters most for instances of every size.  Paths are relative to the
repository's root, which is `src/` in PROJECT.json.

Three parts of hobbes are specified.  *Recording*: how a value given to `HSTORE`
in a program travels through shared memory to `hog`, and from there over the
network to another `hog` or into a structured file that others read while it
grows.  *Serving*: the event loop and the network REPL on top of it.  *Compiling*:
the algorithms behind match expressions, regular expressions, types and
grammars.  The first two have processes, threads and failures, and data is lost
for good when they are wrong; in the third, a mistake is a program that quietly
means something else.

## The system

hobbes is a language, a JIT compiler and a set of runtime services embedded in
C++ programs.

| component | state | operations | works with |
|---|---|---|---|
| shared memory queue (`include/hobbes/storage.H`: `writer`, `reader`) | a ring of pages, a read and a write index, one wait state word, all shared by two processes without a lock | `next`, `pollNext`, `push`, `pop` on either side; futex or polling waits | the pipes |
| transaction pipe (`wpipe`, `rpipe`, `write(StorageGroup*, ..)`, `runReadProcessWithTimeout`) | page and offset of each side, the state marked on each page | store a statement, commit, roll back, drop; read blocks, assemble transactions | queue below, application and `hog` at its ends |
| group registration (`StorageGroup::out`, `registerSHMAlloc`, `consumeQueue`; `bin/hog/main.C`) | thread-local pipes, the group's socket, shared memory names, connections of `hog` | create and announce a region, accept, take over, start a reader | recording threads, `hog`'s event loop |
| batch transfer (`bin/hog/batchsend.C`, `batchrecv.C`, `netio.H`) | segment files in a directory, the connection, a thread for each received connection | write, publish, poll, send, acknowledge, unlink; receive, apply | consumer of a queue on one host, storage session on the other |
| storage sessions (`bin/hog/session.C`, `local.C`) | statements bound to series of a file, sessions shared by threads | transactions to records, consolidation | series |
| stored series and structured file (`lib/hobbes/db`) | a memory mapped file: table of contents, pages, free space, list of batches | allocate, map, unmap, append, bind, signal | sessions, readers of a growing file |
| event loop (`lib/hobbes/events`) | handlers by descriptor, a list of timers | register, unregister, run a batch of events, run timers | network REPL, group host, http server |
| network REPL (`lib/hobbes/ipc/net.C`, `include/hobbes/net.H`) | prepared functions by client, the client's cache and pending results | prepare, invoke, results in order | event loop, compiler |
| process management (`lib/hobbes/ipc`) | spawned evaluators and their pipes | spawn, query, kill | network REPL |
| memory regions (`lib/hobbes/util/region.C`) | pools of each thread | allocate, reset | everything at run time |
| types, classes, patterns, grammars (`lib/hobbes/lang`, `parse`) | tables and caches of one compilation | unification, constraint resolution, match and regex automata, LALR tables | compiler |
| compiler and JIT, shells, generated parser | LLVM modules, terminals | code generation, I/O | all |

Where it is hard.  Queue: two processes race for three shared words, and both
may wait at once.  Pipe: a transaction spans pages that are published one by one
and whose fate is decided after the reader may have seen them.  Registration:
threads share a socket without a lock, names are used again, `hog` comes and
goes.  Batch transfer: connections break between any two steps and either side
may die.  File and series: a reader maps a file while it is being written, and
the writer may die.  Event loop: handlers change the loop they run in, and
descriptor numbers are used again.  Compiler: automata are built from tables
that are cut, merged, cached and numbered again, in an order that may depend on
addresses, and no test looks at more than a few of the results.

What makes a part right.  Queue: pages arrive in order, unharmed, once, and
nobody sleeps beside work to do.  Pipe: transactions arrive whole and in order
or not at all.  Registration: each queue gets exactly one reader, when it is
ready.  Batch transfer: nothing is deleted before it was applied, order is kept,
everything published arrives.  File: space is never given out twice, and a
reader sees a state the writer completed.  Event loop: only live handlers run,
and timers run in the end.  Network: a result goes to the call it belongs to.
Algorithms: they compute what their definition says.

PROJECT.json lists every component with what is modelled of it, the source lines
of every definition, and the hazards with the properties that watch them.

## Modules

| module | what it models |
|---|---|
| `PageQueue` | abstract: a bounded FIFO of pages |
| `ShQueue` | the lock-free queue in shared memory; implements `PageQueue` |
| `ShQueueProofs` | its proofs |
| `TxnChannel` | abstract: what a storage group promises |
| `TxnPipe` | `wpipe` and `rpipe` over the queue; implements `TxnChannel` |
| `TxnPipeProofs` | its proofs: where the two are and which pages they have; that it implements `TxnChannel` |
| `GroupHost`, `GroupHostMC` | announcing queues to `hog`; its instances |
| `GroupHostProofs` | its proofs |
| `BatchTransfer` | batches of transactions from one `hog` to another |
| `BatchTransferProofs` | its proofs: what is under way; in which order and how often transactions are applied |
| `EventLoop` | handlers and timers (operators and steps of the loop) |
| `NetRepl`, `NetReplMC` | the network REPL's server and clients over the loop; its instance |
| `NetReplProofs`, `OwnReplyProofs` | its proofs: types, and the handlers of the loop; that a result goes to its own call |
| `PageFile` | the structured file: operators on the file and on the writer's memory of it |
| `PageFileProofs` | its proofs: what every operation keeps of that memory |
| `StoredSeries` | a series in the file |
| `StorageSession` | `hog` or a program writing series, killed anywhere, with readers |
| `StorageSessionProofs` | its proofs: space is given out once, what is held stays mapped |
| `RangeMap` | maps of ranges of characters |
| `Regex`, `RegexTree` | from the text of regular expressions to the NFA; the trees they stand for |
| `RegexCompiler` | from there to the function of a match: every step an action |
| `TypeUnifier` | unification by union-find, substitution with its cache |
| `TypeInference` | inference of the types of expressions over it |
| `Lalr` | item sets, relations between transitions, lookaheads, tables |
| `ParserGenerator` | from a grammar to the functions of its parser |
| `MatchTable` | from the rows of a match to its DFA |
| `PatternMatch` | a match compiled and evaluated |
| `ClassInstances` | type classes: definitions and questions in every order |
| `TypeLayout` | records, tuples and variants in memory, and their tails |
| `TypePredicates` | predicates on types, refined in turn |
| `Compiler`, `CompilerMC` | the parts of the compiler side by side; its subjects |

`TxnPipe` takes the queue as the FIFO that `ShQueue` is shown to implement:
`push` and `pop` are single steps there and `next()` is enabled when a page is
free.  What `PageQueue` does not say is that a published page stays in shared
memory, where `stepPage()` marks it afterwards, so `TxnPipe` keeps the ring of
pages itself.  `GroupHost` is about the hand-over of a queue and leaves its
contents out.  `BatchTransfer` starts where the consumer's loop hands on a
transaction, and `StorageSession` where a transaction is applied.

Definitions whose comment calls them a faulty variant or a mutant are not part
of a specification.  Each is a plausible slip in the code, put in the place of
the definition it varies to see that a property notices it.

### ShQueue

`wpc` and `rpc` are the program counters of the two sides; each access to a
shared word is a step: the read of the other side's index (`WCheck`), the
exchange of the wait state (`WXchg`, `WExchange`), the second look at the index
(`WRecheck`), the kernel's compare-and-sleep (`WWait`), the wake (`WNotify`).
`xchg` is a full barrier on x86 and orders the contents of a page before its
publication, so interleaving the accesses covers what the processor can do.
Pages hold their publication number, so that an overwritten page shows.
`Builds` says which waits are modelled: futexes, which can be interrupted by a
signal and time out (the reader's), or the polling of systems without them.

### TxnPipe

A byte is a pair of statement number and position, and a statement is its id
followed by one payload.  `HStore`, `Commit` and `Rollback` are what the
application calls; the rest of the writer's actions are the pieces of
`wpipe::write`, `stepPage`, `commit` and `rollback` between accesses to shared
memory.  `ReadNext` to `ReadReturn` are `rpipe::read` and the loop of
`runReadProcessWithTimeout` around it.  `Crash` ends the recording process and
leaves what is in shared memory.  The reader's spin on a tentative page is the
guard of `ReadEnd`.

### GroupHost

`out()` is `CreateRegion`, `FormatRegion`, `CheckSocket`, `Connect` or
`ConnectFails`, and `Announce`: between any two of them other threads run.  `shm`
maps a name to the thread whose region it leads to; names are built from thread
ids, which `TidChoices` gives to threads, perhaps one id to two threads that do
not run at the same time.  `StopHog` closes the connections.  A write to a closed
connection throws; that it may raise SIGPIPE first is left out.

### BatchTransfer

Transactions are numbered as they are taken.  The session's actions publish
files; the sending thread's go through connect, init message, poll, send and
acknowledgement; each connection has its receiving thread.  Accepting is part of
`Connect`.  A break loses what is under way or not; the receiver still processes
what it has.  TCP and zlib are trusted otherwise.  `stepFile()` is two steps:
`LinkFile` gives the temporary file its permanent name and `UnlinkFile` takes the
old name away, and in between the file that can already be found and sent
(`aliases`) is still the temporary one, whose change time each of the two calls
sets.  Time is a clock of seconds (`Tick`) that goes on between any two steps.
`++c`, which only the session's thread sees, is taken together with the first.

After a restart the sender has a new directory or its old one, since the name is
built from process and thread ids (`pushLocalData`).  In the old one the new session
opens the temporary file for writing; if hog died between the two steps above, this
truncates the published file (`torn`).  Until the session closes it with the init
message in it, a segment sent from it is empty, and then acknowledged as one without
transactions, or part of that message; afterwards it is that message, which is no
list of transactions, and the receiver closes the connection each time it is sent
(`Unreadable`).  What may be applied of such bytes before that is left out.

### EventLoop and NetRepl

`ev` is the loop: the closures by descriptor, what the kernel watches, and the
closures that are still allocated.  A pass of `stepEventLoop` takes a batch of
ready descriptors from the kernel and calls their handlers one after the other;
a handler is run as a whole, since the loop has one thread.  A handler accepts,
checks the version, prepares, invokes, or unregisters itself when its peer has
gone.  The descriptor numbers are a pool: a closed one is given to the next
connection.  A client is a process with an asynchronous connection of `net.H`:
it defines functions, calls them, keeps a queue of readers and, for each
function, a queue of callbacks, reconnects and dies, also in the middle of a
request.  A request that is not complete blocks the server until the client
goes on or dies; a client that neither goes on nor dies stops every other one,
which is how the code is, and is not modelled (a client's write is one step).

### PageFile, StoredSeries, StorageSession

The file is a function from addresses to cells.  A cell stands for what is
written together and read together: a page table entry, the link of the table, a
part of a binding, a value, the count of a batch.  `PageFile`'s operators are the
functions of `file.C` and answer with the writer's new memory and the list of
changes to the file that the call makes, in their order; `StorageSession` applies
that list one at a time (`Flush`), and `Kill` may end the process between any two.
A reader may open the file in every state (`readFile`, `SeriesValues`).  The clients
are `hog` with automatic commit, `hog` with manual commit, and a program that
records, clears, binds values of its own and opens its file again.

A program opens its file in whatever state it was left, as `openFile()` does, which
asks for no more than a header and bindings that can be read.  Two histories say what
it found: `unsound`, that the page table does not describe the file (its pages are
not counted or a link of its chain is missing), and `overfull`, that the newest batch
is full.  The properties about the contents of the file are stated for the others;
what becomes of these is said under *Failures outside of the properties*.  In both
cases the code goes on to write one value over another and to use what it then finds
as positions and sizes; the model follows it to that point (`Intact`) and no
further.  A cell that holds something else than what the code expects is read as
zeros, or the read fails.  A store behind the end of the file ends the process
(`InFile`).

A transaction is a list of turns of a session's loop.  A turn reads the id of a
statement, perhaps one that does not exist, and its value, for which the bytes may
be missing (`Turns`): then nothing is stored, and the log entry is written all the
same, as in `session.C`.

### The compiler

`Compiler` puts parts of the compiler side by side that work on subjects of
their own, one in each behaviour, since nothing in the compiler is locked: one
thread uses it, for one thing at a time.  An action is a step of the algorithm
that leaves a table or an automaton behind (`Parse`, `Determinize`, `Merge`, ...), and
what is in between is operators.  `map` and its calls work on range maps, `u` is
the unifier.  `MatchTable` and `Lalr` follow the code in the order in which states
get their numbers, addresses being a parameter where the code sorts pointers.
Each part is compared with a definition that does not look at the code: the
strings a regular expression matches by its tree, the equations between types
solved by closure, derivations by a grammar, the first row that fits.

`ClassInstances` follows a program in which definitions and questions alternate:
`DefineInstance` adds an instance or an instance generator, `Ask` is what
`unqualifyTypes` does for one constraint.  What the code marks as satisfied while it
looks, what it makes for good and what it remembers as unsatisfiable is `held`.  The
reference is the largest set of constraints that the definitions support.

`TypeLayout` takes a type apart and puts it together in every order, with a
variable of it becoming known anywhere in between; `view` holds the members with
their offsets or tags as the code computes them, and the compiled structure is
rebuilt from them.  `TypePredicates` refines a list of constraints as
`refine(TEnv, Constraints, ..)` does: `RefineConstraint` is one of them, `EndPass`
decides whether there is another pass.  The reference is what each predicate
means of types without variables, over all types of a small universe.

## Runs

| run | checks | bounds |
|---|---|---|
| `queue` | `PagesIntact`, `SleepersWillWake`, `WriterProceeds`, `ImplementsPageQueue` | 4 pages, 7 publications, both builds |
| `pipe` | `MarkedPageUnread`, `OperationsEnd`, `ImplementsTxnChannel` | 3 pages of 3 bytes, 3 statements of 1 or 4 bytes, 2 commits or rollbacks, all four kinds of group |
| `pipe_large_bytes` | `DeliveredAsCommitted`, violated | one statement of 8 bytes |
| `group` | `OneReader`, `ReadyWhenRead`, `AnnouncedIsRead` | 3 threads, distinct ids or one used twice, 3 connections, 2 lives of `hog` |
| `group_order` | `AnyStartOrder`, violated | 3 threads, one `hog` |
| `batch` | `DiscardedIsApplied`, `AppliedInOrder`, `RepeatsNeedBreaks` | 2 transactions, 2 segments a session, 1 break, 1 restart, 2 different times |
| `batch_progress` | `WaitingIsApplied` | 1 transaction, 2 segments, 1 break, 1 restart |
| `batch_kept` | `PublishedIsKept`, violated | 2 transactions, 2 segments, 1 restart |
| `netrepl` | `HandlersLive`, `OwnReply`, `CalledBack`, `TimersRun` | 2 clients, 2 descriptors of which 1 or 2 are allowed, 2 functions, 2 connections and 2 calls in all, requests of two tokens, results of two and of none, one timer |
| `session` | `TypeOK`, `RegionsDisjoint`, `ImageOnDisk`, `ReaderSeesBindings`, `SeriesWhole`, `LogRefersToValues`, `HeldIsMapped` | pages of 8 cells, batches of 2 records, 2 statements and one that is unknown, transactions of up to 2 turns, 3 turns in all; 4 calls of the program, killed up to twice |
| `compiler` | `TypeOK`, `MapMeansItsCalls`, `CompiledAsWritten`, `ShrinkingKeepsAnswers`, `UnifierSolves`, `InferredIsPrincipal`, `AnswersAsDefined`, `AnswersAgree`, `LaidOutAlike`, `PredicatesMeanWhatTheySay`, `LookaheadsLeast`, `ParsesTheGrammar`, `AmbiguityRejected`, `MatchesFirstRow`, `RefusedIsSo` | the families of `CompilerMC`, below |
| `match_first_row` | `EveryMatchFirstRow`, violated | matches of four rows over three columns of integers |

Why the bounds are enough.  Queue: 7 publications take both indices around a
ring of 4 and the queue from empty to full and back, in every interleaving; the
proofs cover all sizes.  Pipe: a queue of 3 pages holds 2 published ones, so that
three statements span more pages than the queue has and unreliable groups drop;
statements of 1 and 4 bytes end in the middle of a page, on its last byte and on
the byte after it; the reader's block of 2 bytes ends everywhere.  Group: three
threads are enough for one to connect while another announces on the first one's
connection and a third takes over an id.  Batch: one break and one restart give
three connections, whose threads overlap; two segments are needed for order, and
two times for equal and different ones; a restart may fall between the two steps
that publish a file.  One transaction is enough for `WaitingIsApplied`, which is
about each by itself, beside segments that are empty.  Network REPL: with two descriptors the
listening one leaves fewer than the clients want, so that `accept()` fails and
numbers are used again; a second connection of a client meets what its first one
left on either side.  Session: a page of 8 cells holds a page table with two
entries or two small values, so that four values, or three log entries with
theirs, and their bindings need new pages, new pages of the table, reuse of space
and padding; two statements are needed for one series' batch to start while another's is open, and two kills for
a killed writer that was itself a continuation.

Subjects of `compiler`:

* range maps after up to three calls on keys 0 to 4, and every set of ranges to
  cut them by;
* lists of one and two regular expressions over three characters, with every
  operator next to every other, and all strings of up to three characters;
* up to three calls of `unify` and `substitute` in every order over seven types,
  with recursive ones among them; expressions of up to three nested constructs;
* 512 programs of three classes, one of them with a dependency, each with a ground
  instance and two generators in both orders, and two questions of five;
* records, tuples and variants of up to three fields, of seven to ten types:
  empty and unit fields, closures, fixed arrays, nested records and variants, and
  a type variable;
* one constraint of each predicate, alone or next to another one before or after
  it, with up to three type variables;
* grammars of two symbols over two terminals, with their productions in two orders
  of addresses, and a grammar of two binary operators with every precedence and
  associativity; inputs of up to three terminals;
* matches of three rows (four for integers) with guards, arrays, variants, records,
  strings and regular expressions, against every input that the rows tell apart.

Fairness.  `queue`: each side goes on with the operation it is in (the operating
system schedules it) and the consumer's loop asks for the next page for ever
(`runReadProcessWithTimeout` has no exit); nothing obliges the application to
take, fill or publish.  `pipe`: the same; a process that dies ends its part.
`group`: threads inside `out()` go on, the event loop serves each connection,
and `hog` is started in the end.  `batch`: the session starts, the sending
thread and each receiving thread go on; breaks and restarts are bounded, that
is, the network does not fail for ever.  `netrepl`: the server's loop goes on, for
it is a loop without an exit, and a client goes on with a request it has begun
and takes a reply that has arrived; nothing obliges it to connect or call.
Deadlock is not checked: bounded behaviours end by design.

### What the runs show

* `queue`.  The hand-shake over one wait word loses no wakeup, including the case
  its comment calls one that "should practically never happen", in which both
  sides announce that they wait.  Pages arrive in order and are never
  overwritten under the reader.  `ImplementsPageQueue` includes that every
  published page is read.
* `pipe`.  Whatever kind of group: what the consumer gets is what was committed,
  in order, once; rolled back and dropped transactions leave no trace, although
  their pages were published; a transaction larger than the queue goes through;
  what was committed arrives even if the recording process then dies.  All this
  is `ImplementsTxnChannel`, which leaves the bytes of complete intermediate
  pages out of account; these are the subject of the next run.
* `pipe_large_bytes` (finding).  `wpipe::write` does not set the offset when it
  fills a complete intermediate page, so the page is published with size 0 and
  its bytes never arrive.
* `group`.  Reuse of thread ids and restarts of `hog` never give a queue two
  readers or a reader too early.  The unlocked race for the group's socket
  leaves connections behind, but every announcement is served.
* `group_order` (finding).  Started after the first `HSTORE` of a thread, `hog`
  never learns of that thread's queue: README.md says that producer and consumer
  may be started in any order.
* `batch`, `batch_progress`.  Breaks and the death of the receiver cost
  repetitions only: at most one more for each failure, never a loss and never a
  change of order.  A restart of the sender loses what was in the temporary file,
  which is why `AppliedInOrder` is about behaviours without one, and it may lose
  published files: those of a directory that the new process does not have, and those
  of the next run, and those that it truncates (below).  `WaitingIsApplied` says that
  every other one arrives, unless a truncated one is before it.
* `batch_kept` (finding).  A sender restarted into the directory it had numbers
  its segments from 1 again; `link()` fails silently for the numbers still
  waiting, and those segments are lost.
* `netrepl`.  A handler that runs is one that is registered and allocated, for
  every batch of events and whatever handlers close in it; a client gets the
  reply to its own call, from the function it defined, in order, although the
  server keeps functions of clients that left under a number that is used again
  (each client defines before it calls); every call of a client that stays is
  answered, and the timer runs whenever the loop gets a pass without an event.
  `OwnReply` leaves out clients that reconnect with calls pending: `net.H` keeps
  their callbacks and forgets their readers, so that later results would go to
  the wrong callback.
* `session`.  Space is given out once through padding, reuse, new pages of the
  table, and restarts on a file that its page table describes.  Between calls the
  file says what the writer's memory says.  A reader at any moment, also after a kill inside a call, finds the
  bindings from before the call, perhaps with those of the call, or fails while
  the writer is between the page table entry of a binding and its last part, a
  window the property names exactly; after the size of a type is written and before
  its bytes are, the binding is found with the type of zeros.  Series lose no stored
  value, repeat none and show none that is not there, unless one is carried on in a
  full batch; an entry of the log refers to the value that was read with it, if that
  could be read, also beside entries for values that could not; a value in use stays
  mapped.
* `compiler`.  Range maps, automata, unification, inference, the resolution of
  classes and predicates, layouts, lookaheads, parsers and matches agree with
  their definitions on every subject, under the conditions below.
* `match_first_row` (finding).  `makeDFAState` looks a table up by its patterns,
  guards and results; `operator==` leaves out which values the columns are of.
  Two tables that are left of different columns share a state, and a match
  evaluates the result of a row that does not fit.

### Failures outside of the properties

Four things go wrong in the code, and happen in the behaviours of the models, that
the properties of the passing runs are not about.  Each is told apart by a variable
or a definition, so that the property holds of everything else; without that
condition TLC finds it.

* A sender that dies between `link()` and `unlink()` (`batchsend.C:194`) and is
  restarted into the directory it had truncates the segment that waits there, since
  that and the temporary file are one (`aliases`, `torn`, `overwritten`).  With
  `init.gz` this is repaired by the new session; a truncated segment is deleted, if it
  is sent while it is empty, or sent again and again, and what is behind it waits for
  ever.  That an empty one is acknowledged is also because no error of `inflate()` is
  noticed: its result is compared with 0 before it is checked (`batchrecv.C:62`).
* A writer killed between the growth of its file and the entry in the page table
  (`file.C:489`) leaves a page that is not listed.  Opened again, the file has its
  end counted from its size and its pages from the table, and two values get the
  same space (`unsound` in `RegionsDisjoint`).
* A writer killed after it counted a batch full and before it linked the next one
  (`series.C:147`) takes up the full batch: its count passes `batchSize`, is never
  equal to it again, and values go on behind the end of the array (`overfull` in
  `SeriesWhole`).
* A transaction that ends before the value of a statement gets a log entry without a
  value (`session.C:131`, 181, 201; the last case of `LogRefersToValues`).  The
  bytes that `pipe_large_bytes` loses make such transactions.

### Conditions of the compiler's properties

Where the code does something else than its input says, the property says for
which inputs it is stated; each condition is a definition of its own next to it.

* `QuantifiesAlternatives`: the quantifier of a group with alternatives is parsed
  as one of its last alternative.
* `NoEpsCycle`: the closure under empty transitions is taken from states whose own
  closure is unfinished where there is a cycle, as in `(a*)*`.
* `NoOverlap`: transitions on two ranges that overlap in part are not cut at both
  ends.
* `~Cyclic`: with an infinite type, unification ends by an error or not depending
  on the order of calls; that one is found by `substitute` is checked.
* `FailingCircle`: a requirement that leads back to the constraint counts as met
  while it is looked for, and what was made on the strength of it stays when the
  constraint fails for another reason.
* `NoneLost`, `DepthsAgree`, `AcceptKept`: `parser.C` cuts cycles of relations so
  that lookaheads are lost, counts the depth of a state once, and lets a reduction
  take the place of the accepting action, according to addresses.
* `mixed`: the finding above, which `MatchesFirstRow` leaves to `EveryMatchFirstRow`.  `StringsArePlain`: a string in the column of a regular
  expression is read as one.  `NeedlessDefault`: a closed type whose cases are all
  listed gets a default case next to a row that matches anything.
* Predicates (in the choice of constraints): a function of one parameter that is a
  tuple is taken for one of several; where the whole record is not known, a tail
  with hidden fields is a solution among others, and the code chooses; a variant
  made from its parts does not count as progress, so that the pass may be the last.

## Proofs

All proofs are for every value of the constants that satisfies the assumptions
stated beside them.

**Queue** (`CountAssumption`: at least two pages; `BuildsAssumption`,
`MaxPushAssumption`).  `Inductive` proves `QueueInv`, of which `TypeCorrect`,
`PagesAreIntact`, `PagesInOrder` and `NoLostWakeup` are parts.  `PagesIntact` and
the wake properties are not inductive by themselves.  A writer that fills a page
must be known to have found one (`WriterHolds`), a reader that reads to have one
before it (`ReaderHolds`), and a side about to sleep to have reason to
(`ReaderMayWait`, `WriterMayWait`).  The argument about pages runs over the
distance of two slots around the ring, with lemmas on how `nextIndex` changes it
(`DistAdvance`, `DistApproach`, `DistAround`); the argument about wakeups is a
case analysis on who wrote the wait word last.  `QueueRefines` proves that every
step of `ShQueue` is a step of `PageQueue` or changes nothing of it: under
`QueueInv` the unread part of the ring is the run of numbers after `popped`
(`UnreadIsRun`), so that `WPush` appends to it and `RPop` takes its head.

**Transactions** (`PipeAssumption`: at least two pages, of at least one byte; any
statement sizes and kinds of group).  `PipeTypes` and `MarkedInTime` follow from
`PlaceInv`: where the writer is says which page is its own (`Owns`) and that this
page is not among the published ones (`WriterPlace`); an undecided page is the last
one published (`PagesPlace`), so that the reader, which waits for the decision,
cannot have freed the page that `stepPage()` marks; and the reader holds a page
while it copies (`ReaderPlace`).

`PipeImplementsChannel` proves that every step of `TxnPipe` is a step of
`TxnChannel` or changes nothing of it.  The invariant, `PipeInv`, has to connect
what is committed with what the reader will find, page by page.  It says that there
are `B` and `X`, what the transaction holds before each page and how many are
committed before it, such that every published page goes on with its transaction or
ends it (`Link`), the reader has gathered `B` of its page and what it read of it
(`AtReader`), and the writer's own page goes on with what is recorded of the current
transaction and of the statement under way (`AtWriter`).  Publishing a page adds a
link, marking it changes the last one, and no step of the writer touches what the
reader is at.  The bytes of complete pages are lost (see the findings), and the
theorem is about all others: `whole` collects the lost ones, and for the rest to
stay as it was when `SpreadPage` adds to it, the bytes of a statement must be
different from each other and from those of every other statement (`StatementInv`).
`Without`, which leaves them out, is a recursive function; what it does with a
concatenation is proved by `SequenceInduction`, which is stated with the set of the
sequences that have the property and so needs no operator as a parameter.

**Registration** (`TidAssumption`, `BoundAssumption`; any threads and ids).
`Registration` proves `RegistrationInv`; `QueueHasOneReader` and
`HeaderBeforeReader` follow.  `OneReader` needs that a name leads only to regions
nobody reads (`NamedUnread`), which needs that a thread's region is named by its
own id alone, so that taking the name away leaves no other way to it; and that a
thread makes its region once (`RegionSteps`: no region before the pipe is set).

**Batch transfer** (`BatchAssumption`; any number of transactions, files, breaks
and restarts).  `Transfer` proves `TransferInv`, and `DiscardOnlyApplied` that a
file is unlinked only after all of its transactions were applied.  The
strengthening, `HandOver`, says how the sender's place in the protocol and the
state of its current connection stand to each other: no message and no
acknowledgement is left over from an earlier exchange, and what the receiver has
not applied of the file under way it still has before it.  That the
acknowledgement of the init message cannot be taken for that of a segment is part
of it.  Connections the sender has given up do not matter to it, whatever their
threads still apply.

The history of what was applied takes more.  `OldestFirst` proves `AppliedInOrder`
from `OrderInv`.  Its parts are `RecordedOnce` (a transaction is in the temporary
file or in one published file, in increasing order, and what travels is older than
the temporary file), and, until the sender restarts, `FilesInOrder`: the numbers of
the files, their change times and their contents are ordered alike, the files the
sender has found are the oldest of the directory, and for everything that is on its
way or before any thread, also of a broken connection, what is older is applied or
before it in the same file (`Ready`).  The last is what makes the threads that go
on harmless; it is kept when a file is sent because the sender picks the oldest
(`PicksOldest`) and nothing recorded is lost (the next to last conjunct of
`FilesInOrder`).  A step's effect on one connection is one of five
(`LinkEffects`), and its effect on the directory one of two (`FileEffects`): the
lemmas about order and about repetition share these.

`RepeatsAreCaused` proves `RepeatsNeedBreaks` from `RepeatsInv`, which says that
every application can be ascribed to a connection (`by`, of which only the
existence matters) such that no connection applies a transaction twice
(`AppliedOnceBy`); for that, what was applied over a connection is neither on it,
nor before its thread, nor in a file that is still to be sent over it.  There are
at most `1 + breaks + restarts` connections (`LinksNeedBreaks`: only the last one
can be up, and the sender makes another only when it is down; a file that cannot be
read, which takes a connection down, is counted as a break when it is sent), and an injection of
the applications of one transaction into the connections does the rest.

**Network REPL** (`FdAssumption`, `EidAssumption`, `PartAssumption`,
`LimitAssumption`; any number of clients, descriptors, connections and calls).
`ReplTypes` and `HandlersAreLive` follow from `ServerInv`.  `HandlersLive` is not
inductive: that the closure of a batch is allocated when its turn comes, although
earlier handlers of the same pass closed or accepted connections, needs that
exactly the listening socket and the served descriptors have a handler, that the
kernel watches these and the map has the same closure for each, and that a batch
has each of its closures once (`HandlersInv`).  A number that `accept()` gets is of
no served connection, so no closure in the batch is for it (`AcceptKeepsHandlers`,
with `FreeDescriptor`: there is a lowest free number); a connection that is
dropped has its only closure at the head of the batch (`DisconnectKeepsHandlers`).
A connection is behind one descriptor and not in the backlog at the same time
(`ConnectionPlaces`).  Types need an argument of their own: what the server reads
as the number of a function is one, because the bytes of a connection are whole
requests after the version, except that a client that has gone may have left the
last one unfinished (`RequestsWhole`, with a lemma for each way a request is
added, cut, read and answered); and a callback is there when `step()` takes one,
because there are as many as readers, or more after `reconnect()`
(`CallbacksWait`).

`OwnReplies` proves `OwnReply` from `ClientsInStep`, a statement about each client
by itself.  For a client that has a connection, and has not reconnected with calls
pending, it says that its readers, the callbacks it stored, the results it has read
in part, the tokens on its connection in both directions and the functions the
server stored for the connection all tell of the same calls in the same order.
Once its functions are defined that is `Answers`: there are increasing numbers `N`
of the calls its readers wait for, the ends of their results in the stream of
tokens, and a number `m` of calls that are answered, such that the callbacks of a
function are those of its readers in order (`Waiting`), what is on the way to the
client is the results of the first `m` (`Arrived`), and what is on the way to the
server is the requests of the others (`Asked`).  Before that it is `Defines`: at
most one definition is under way, and what it waits for is its own answer.  A
client's own step changes its readers and its ends of the connection
(`OwnStepInStep`); a step of the server, or of another client, moves at most one
call of this client from asked to arrived (`StaysInStep`).

**File and sessions** (`PageFileConstants`, `BatchSizePositive`,
`SessionConstants`; any sizes of page, header, link, map and batch, any number of
statements, turns, values and kills).  `SpaceGivenOnce`, `HeldStaysMapped` and
`SessionTypes` prove `RegionsDisjoint`, `HeldIsMapped` and `TypeOK` of every file
that has had one writer (`NotContinued`): every log file of `hog`, which it never
opens again, and the file of the other program until its process has ended.
They follow from `SessionInv`: the memory that a writer has of its file is `Kept`,
and each of its series has the space and the pointer of the batch it writes
(`SeriesOK`).

`Kept` has four parts beside the changes that are planned (`PlanKept`), and
`PageFileProofs` shows them of every operation of the file, for any memory that has
them.  `TableKept`: the memory lists as many pages as
the file has, the TOC pages among them, and before the end of the TOC page in use
there is room for the link.  `IndexKept`: the index by free space names listed
pages under their own types, no more than its bound.  `SpaceKept`: what is given
out is apart from what else is, from the TOC pages, and from the free end of every
page; that a region crosses the end of a page only if it begins with one keeps a
region of several pages apart from a page that is filled later.  `MapsKept`: a map
counts at least what is in use of it, so that it is removed only with its last
pointer, and a region of several pages that begins where a map does is all in it.
This last is what `mappedFileRegion()` (file.C:583) rests on: it makes a map at the
page of a request without asking whether there is one, and there is none, because
a map that begins there would have been large enough.

The loops are followed turn by turn.  `appendTOCData()` calls itself for the TOC
pages that it has added, whose entries may need further ones; `Rank` falls with
every turn (`WriteSlotsKeep`), so that the turns which the model allows are enough,
and the pages that the memory has yet to enter are counted in `TableKept` until they
are.  A transaction's turns keep `InTxn` (`TurnsKeep`): all series, and not only the
one that is written, still have their batches (`SeriesStays`), since no call takes
space back.

A file that is continued is left to TLC.  What a program finds when it opens its
file again is what `readFile()` makes of the cells on disk, and that this is what the
writer remembered is `ImageOnDisk`, which is about the contents of the file and the
changes that are still to be made; the theorems above need only the memory.

Only model-checked: everything about liveness and the fairness part of the
refinements, which the prover does not handle; of the file, `ImageOnDisk`,
`ReaderSeesBindings`, `SeriesWhole` and `LogRefersToValues`, which relate what
readers make of the disk to the calls so far, and files that are continued after a
kill; and all of the compiler, whose algorithms are recursive operators that the
prover's solver does not take.

## Not modelled

The description of values and statements (compile-time templates, checked by the
compiler and by tests), `hog`'s options and logging, compression.  A crash of the
writer between the two stores of `push()` is not modelled (`TxnPipe`'s `Crash`
takes a push as one step), nor are errors of the disk, what a reader makes of a file after
one value was written over another in it (`Intact`), another start of the program
after more than `MaxKills` ends, nor consolidation of sessions by several threads.  Of the match compiler: literals
that are converted before they are compared, capture variables, switches on all
256 characters or bytes, the limit of 500 rows beyond which tables of primitives
are lowered, strings that contain NUL.  Of types: the inference of records,
variants, projections and existential types, type functions, subtyping, and the
expressions that take the place of a constraint once it is resolved; variants as
sums, and layouts of file references and type applications.  Of class resolution:
members and default bodies, and private classes.  Of grammars: symbols that are
removed, and the values of rules.  The JIT, the shells, `boot/gen/bootdata.H` and
the generated lexer and parser are generated code, machine code or I/O, and their
lines are most of the repository's; the other parts are in the plan.

## Plan

1. Recording: a crash inside `push()`, consolidated sessions shared by threads, and
   file signals (`db/signals.C`, `db/bindings.C`).
2. Process management (`lib/hobbes/ipc`) over the event loop; the memory regions.
3. Types: qualified types through inference and generalization, with the predicates
   and classes that are specified now; the removal of symbols from grammars.
4. Proofs: `ImageOnDisk`, that the file says what its writer remembers, and with it
   the theorems about space and maps for a file that is continued after a kill.
