--------------------------- MODULE StorageSession ---------------------------
(***************************************************************************)
(* Programs that write series into a structured file: a storage session of *)
(* hog (src/bin/hog/session.C), which prepares a new file, gives it its    *)
(* permanent name and then stores transactions, with or without a commit;  *)
(* and a program that keeps one series in a file and opens the file again  *)
(* after it was killed.                                                    *)
(*                                                                         *)
(* A call is planned in one step, as the sequence todo of changes that it  *)
(* makes to the file; Flush makes them one at a time.  The process may be  *)
(* killed between any two, and whatever the file holds then is what others *)
(* read; the properties about readers say so by applying readFile() to the *)
(* disk in every state.                                                    *)
(***************************************************************************)
EXTENDS StoredSeries

CONSTANTS
  Clients,     \* which of the three programs to run
  Stmts,       \* the number of log statements of a session
  MaxTxn,      \* turns of a session's loop for a transaction
  MaxTurns,    \* turns for all of them
  MaxValues,   \* calls of the series program that write
  MaxKills,    \* ends of the process that it is started again after
  OtherSize    \* cells of the other value that the series program defines

ASSUME SessionConstants ==
  /\ Clients \subseteq {"auto", "manual", "series"}
  /\ {Stmts, MaxTxn, MaxTurns, MaxValues, MaxKills, OtherSize} \subseteq Nat
  /\ Stmts >= 1 /\ OtherSize >= 1 /\ MaxTurns <= MaxValues

VARIABLES
  client,     \* the program
  disk,       \* the file, a function from positions to cells
  image,      \* the writer's memory of it
  streams,    \* its series: one for each statement, then the log
  todo,       \* the changes that the call in progress has yet to make
  up,         \* is the process running?
  published,  \* does the file have its permanent name?
  bound,      \* the bindings before the call in progress
  before,     \* what the series held before the call in progress,
  after,      \* and what they will hold after it
  values,     \* the number of values written, or of turns of a session's loops
  kills,      \* the number of times the process ended
  unsound,    \* was a file opened again that its page table does not describe?
  overfull    \* was a series opened again whose newest batch is full?

opened == <<unsound, overfull>>
vars == <<client, disk, image, streams, todo, up, published, bound, before, after,
          values, kills, unsound, overfull>>

log == Len(streams)

\* The names in the file.
SeriesName(k)  == <<"series", k>>
StatementsName == <<"statements", 0>>
OtherName      == <<"other", 0>>

\* A plan w becomes the memory and the changes to make.
Take(w) == /\ image' = [w EXCEPT !.out = <<>>]
           /\ todo' = w.out
           /\ bound' = image.bindings

\* No two regions share a cell, and none lies outside of the file or in a page
\* of the page table.
Cells(r) == r.at .. r.at + r.len - 1
RegionsApart ==
  LET TocCells == UNION {p * PageSize .. (p + 1) * PageSize - 1 : p \in Range(image.tocpages)}
  IN  \A r \in image.regions :
        /\ r.at + r.len <= image.size
        /\ Cells(r) \cap TocCells = {}
        /\ \A q \in image.regions : q # r => Cells(q) \cap Cells(r) = {}

\* No series has written past the end of its batch.
InBatches == \A k \in DOMAIN streams : streams[k].head <= streams[k].data + ArrayHead + batchSize

\* No region is in the page where the page table goes on, which the chain of TOC
\* pages may miss when the table does not list every page.
TableApart ==
  \A r \in image.regions : \A c \in Cells(r) : c \div PageSize # image.head \div PageSize

\* The code goes on when one value is written over another, with whatever the
\* cells then hold as its positions and sizes; the model stops there.
Intact == (unsound => RegionsApart /\ TableApart) /\ (overfull => InBatches)

Idle == up /\ todo = <<>> /\ Intact

\* The writer's image of a file, which it maps from end to end.
openFile(d) ==
  LET w == IF DOMAIN d = {} THEN createFile ELSE readFile(d).w IN
  mapFileData(w, 0, w.size).w

Init ==
  /\ client \in Clients
  /\ disk = <<>>
  /\ image = NoImage
  /\ streams = <<>>
  /\ todo = <<>>
  /\ up = TRUE
  /\ published = FALSE
  /\ bound = <<>>
  /\ before = <<>> /\ after = <<>>
  /\ values = 0 /\ kills = 0
  /\ unsound = FALSE /\ overfull = FALSE

(***************************************************************************)
(* hog's storage session                                                   *)
(***************************************************************************)

\* One series after the other, each started in the file.
AddSeries(v, o) == [w |-> o.w, ss |-> Append(v.ss, o.s)]
StartSeries(w, n) ==
  ForEach(LAMBDA v, k : AddSeries(v, OpenSeries(v.w, SeriesName(k), disk)),
          [w |-> w, ss |-> <<>>], n)

\* The "statements" array, and name, format and file of every statement.
StoreTexts(a) ==
  [a EXCEPT !.w = Iterate(LAMBDA v : StoreWhole(v, <<<<"text">>>>).w, @, 3 * Stmts)]
StoreStatements(w) ==
  DoneArray(FillArray(StoreTexts(unsafeDefineArray(w, StatementsName, Stmts)),
                      [i \in 1 .. Stmts |-> <<"stmt", i>>]), Stmts).w

\* initStorageSession: a temporary file is made ready and then moved to its
\* permanent name.
initStorageSession ==
  /\ client \in {"auto", "manual"} /\ Idle /\ streams = <<>>
  /\ \E s \in {StartSeries(openFile(<<>>), Stmts + 1)} :
       /\ Take(Emit(StoreStatements(s.w), [op |-> "publish"]))
       /\ streams' = s.ss
  /\ before' = [k \in 1 .. Stmts + 1 |-> <<>>]
  /\ after' = [k \in 1 .. Stmts + 1 |-> <<>>]
  /\ UNCHANGED <<client, disk, up, published, values, kills, opened>>

\* A value of a statement: the number of the value is unique.
ValueCell(id, n) == <<"value", id, n>>
LogCell(id, pos) == <<"log", id, pos>>

\* v carries the memory, the series, what they hold and the transaction so far;
\* r is what record() leaves, of the entry `cell' in the series `id'.
Recorded(v, id, cell, r) ==
  [v EXCEPT !.w = r.w, !.ss[id] = r.s, !.held[id] = Append(@, cell)]
RecordIn(v, id, cell) == Recorded(v, id, cell, record(v.w, v.ss[id], cell))

\* A turn of a session's loops reads a statement's id and its value.  There is no
\* statement with the id Stmts + 1, and of a value that is not whole the
\* transaction has too few bytes left.
Turns == {t \in [id : 1 .. Stmts + 1, whole : BOOLEAN] : t.id > Stmts => ~t.whole}

\* Mutant: the position is noted after the write.
PositionAfter(v, t) ==
  LET r == IF t.whole THEN RecordIn(v, t.id, ValueCell(t.id, v.n + 1)) ELSE v
  IN  [r EXCEPT !.n = @ + 1, !.txn = Append(@, LogCell(t.id, writePosition(r.ss[t.id])))]

\* The position is noted before the write, and kept when nothing is written.
Noted(v, id) == [v EXCEPT !.n = @ + 1, !.txn = Append(@, LogCell(id, writePosition(v.ss[id])))]
PutValue(v, t) ==
  IF t.whole THEN RecordIn(Noted(v, t.id), t.id, ValueCell(t.id, v.n + 1)) ELSE Noted(v, t.id)

\* The entry of the log, or of the transactions, for what was just read.
PutLog(v, cell) == RecordIn(v, log, cell)

\* AutoCommit: every value is followed by its log entry.
PutLogged(v) == PutLog(v, Last(v.txn))
Turn(v, t) ==
  CASE t.id > Stmts -> v
    [] t.id <= Stmts /\ client = "auto" -> PutLogged(PutValue(v, t))
    [] OTHER -> PutValue(v, t)

\* ManualCommit: the values, then one entry that lists them all.
PutStored(v, a) == PutLog([v EXCEPT !.w = a.w], <<"txn", a.at, v.n>>)
PutAll(v) == PutStored(v, StoreWhole(v.w, v.txn))

AfterTurns(v) == IF client = "auto" THEN v ELSE PutAll(v)
Txn(v, turns) == AfterTurns(ForEach(LAMBDA u, i : Turn(u, turns[i]), v, Len(turns)))

\* How many values, whole or not, are logged when h is what the series hold.
Logged(h) ==
  CASE h[log] = <<>> -> 0
    [] h[log] # <<>> /\ client = "auto" -> Len(h[log])
    [] OTHER -> Last(h[log])[3]

\* A transaction of a producer; in a consolidated group those of several
\* producers follow each other, since CSession::sm is held for each.
ProcessTxn(turns) ==
  /\ client \in {"auto", "manual"} /\ Idle /\ streams # <<>>
  /\ values + Len(turns) <= MaxTurns
  /\ \E v \in {Txn([w |-> image, ss |-> streams, n |-> Logged(after), held |-> after, txn |-> <<>>], turns)} :
       /\ Take(signalUpdate(v.w))
       /\ streams' = v.ss
       /\ before' = after /\ after' = v.held
  /\ values' = values + Len(turns)
  /\ UNCHANGED <<client, disk, up, published, kills, opened>>

(***************************************************************************)
(* A program with one series                                               *)
(***************************************************************************)

\* The page table describes the file: it lists the pages that the file has, and
\* the chain of TOC pages is complete.
Sound(d) ==
  LET r == readFile(d) IN
  \/ DOMAIN d = {}
  \/ /\ r.ok
     /\ Len(r.w.pages) * PageSize = r.w.size
     /\ r.w.head > HeadSize

\* The newest batch of the series is full: a new one was about to follow it.
Full(d, w) ==
  /\ SeriesName(1) \in DOMAIN w.bindings
  /\ LET p == NodeAt(d, RefAt(d, w.bindings[SeriesName(1)].offset)) IN
     p # <<>> /\ CountAt(d, p[1]) = batchSize

\* readFile() throws, or the constructor does: it finds no series of its type,
\* and the name is taken.
CanOpen(d) ==
  DOMAIN d # {} =>
    LET r == readFile(d) IN
    r.ok /\ (SeriesName(1) \in DOMAIN r.w.bindings => r.w.bindings[SeriesName(1)].type = SeriesName(1))

\* What a plan would have given out when its mark is reached stays free.
GivenBefore == {r \in image.regions : \A i \in DOMAIN todo : todo[i] # GivenMark(r.at, r.len)}

\* Start the program, for the first time or after it was killed.
OpenProgram ==
  /\ client = "series" /\ (~up \/ streams = <<>>) /\ kills <= MaxKills /\ Intact
  /\ CanOpen(disk)
  /\ LET w0 == [openFile(disk) EXCEPT !.regions = GivenBefore]
     IN  \E o \in {OpenSeries(w0, SeriesName(1), disk)} :
           /\ image' = [o.w EXCEPT !.out = <<>>]
           /\ todo' = o.w.out
           /\ streams' = <<o.s>>
           /\ bound' = w0.bindings
  /\ before' = <<IF SeriesName(1) \in DOMAIN bound' THEN SeriesValues(disk, bound'[SeriesName(1)].offset) ELSE <<>>>>
  /\ after' = before'
  /\ up' = TRUE
  /\ unsound' = (unsound \/ ~Sound(disk))
  /\ overfull' = (overfull \/ Full(disk, openFile(disk)))
  /\ UNCHANGED <<client, disk, published, values, kills>>

Record ==
  /\ client = "series" /\ Idle /\ streams # <<>>
  /\ values < MaxValues
  /\ \E r \in {record(image, streams[1], ValueCell(1, values + 1))} :
       /\ Take(signalUpdate(r.w))
       /\ streams' = <<r.s>>
  /\ before' = after /\ after' = <<Append(after[1], ValueCell(1, values + 1))>>
  /\ values' = values + 1
  /\ UNCHANGED <<client, disk, up, published, kills, opened>>

Clear ==
  /\ client = "series" /\ Idle /\ streams # <<>>
  /\ values < MaxValues /\ after[1] # <<>>
  /\ \E c \in {clear(image, streams[1])} :
       /\ Take(signalUpdate(c.w))
       /\ streams' = <<c.s>>
  /\ before' = after /\ after' = <<<<>>>>
  /\ values' = values + 1
  /\ UNCHANGED <<client, disk, up, published, kills, opened>>

\* Define another value; redefining one is refused.
Define ==
  /\ client = "series" /\ Idle /\ streams # <<>>
  /\ OtherName \notin DOMAIN image.bindings
  /\ Take(allocNamed(image, OtherName, OtherSize, WordAlign).w)
  /\ before' = after
  /\ UNCHANGED <<client, disk, streams, up, published, after, values, kills, opened>>

(***************************************************************************)
(* The disk, and the end of the process                                    *)
(***************************************************************************)

\* A mark goes with the change before it.
AfterFirst == IF Len(todo) >= 2 /\ todo[2].op = "given" THEN SubSeq(todo, 3, Len(todo)) ELSE Tail(todo)

\* A store to memory beyond the end of the file is the end of the process.
InFile(c) == c.op \in {"grow", "publish", "given"} \/ c.at + Len(c.cells) <= Cardinality(DOMAIN disk)

Flush ==
  /\ up /\ todo # <<>>
  /\ disk' = IF Head(todo).op \in {"publish", "given"} THEN disk ELSE Apply(disk, Head(todo))
  /\ published' = (published \/ Head(todo).op = "publish")
  /\ up' = InFile(Head(todo))
  /\ kills' = IF InFile(Head(todo)) THEN kills ELSE kills + 1
  /\ todo' = AfterFirst
  /\ UNCHANGED <<client, image, streams, bound, before, after, values, opened>>

Kill ==
  /\ up /\ kills < MaxKills
  /\ up' = FALSE /\ kills' = kills + 1
  /\ UNCHANGED <<client, disk, image, streams, todo, published, bound, before, after, values, opened>>

Txns == UNION {[1 .. n -> Turns] : n \in 1 .. MaxTxn}

Next ==
  \/ initStorageSession
  \/ \E turns \in Txns : ProcessTxn(turns)
  \/ OpenProgram \/ Record \/ Clear \/ Define
  \/ Flush \/ Kill

Spec == Init /\ [][Next]_vars

(***************************************************************************)
(* Properties                                                              *)
(***************************************************************************)

\* Type correctness: the writer's memory of the file has the shape that its
\* operations rely on, and the index of pages by free space (file.C:327) names
\* pages of its type and remembers no more of them than it may.
TypeOK ==
  /\ client \in Clients
  /\ DOMAIN disk = 0 .. Cardinality(DOMAIN disk) - 1
  /\ image.out = <<>>
  /\ \A i \in DOMAIN image.pages :
       /\ image.pages[i] \in [type : {"null", "toc", "environment", "data"}, free : Nat]
       /\ ~unsound => image.pages[i].free <= PageSize
  /\ \A t \in DOMAIN image.freespace :
       /\ Len(image.freespace[t]) <= MaxRemembered
       /\ \A i \in DOMAIN image.freespace[t] : PageOf(image, image.freespace[t][i]).type = t
  /\ \A i \in DOMAIN todo : todo[i].op \in {"grow", "head", "toc", "link", "update", "given",
       "offset", "size", "name", "type", "value", "count", "publish"}
  /\ up \in BOOLEAN /\ published \in BOOLEAN /\ unsound \in BOOLEAN /\ overfull \in BOOLEAN
  /\ values \in 0 .. MaxValues /\ kills \in 0 .. MaxKills + 1

\* Space is given out once (findSpace, file.C:454): two values, or bindings,
\* never share a cell, none lies outside of the file and none in a page of the
\* page table, whatever mixture of padding, page reuse, new TOC pages and
\* restarts led to them, as long as no file was opened again that its page table
\* does not describe.
RegionsDisjoint == ~unsound => RegionsApart

\* Between two calls the file says what the writer's memory says (readFile,
\* file.C:786, is the inverse of appendTOCData, updateTOCData and addBinding):
\* the same pages, chain of TOC pages, end of the table and bindings, until a file
\* or a series is carried on that RegionsDisjoint and SeriesWhole leave out.
ImageOnDisk ==
  ~unsound /\ ~overfull /\ Idle /\ streams # <<>> =>
    LET r == readFile(disk) IN
    /\ r.ok
    /\ Sound(disk)
    /\ \A x \in {"size", "head", "pages", "tocpages", "bindings"} : r.w[x] = image[x]

\* A reader that opens the file at any moment, also while a call is under way or
\* after the writer was killed in it, either finds every binding that was made
\* before the call, and at most those of the call besides, each with the value's
\* position and type; or it fails, and then the writer was between the page table
\* entry of a binding and the last part of the binding (addBinding, file.C:498),
\* or had not written the header of a new file.  Only when the size of the type is
\* there and the type is not, is the binding found with the type of zeros.  A log
\* file that has its permanent name (moveToUniqueFilename, session.C:167) has all
\* its bindings, always.  Restarts are those of ImageOnDisk.
ReaderSeesBindings ==
  ~unsound /\ ~overfull /\ streams # <<>> =>
    LET r == readFile(disk)
        Within(f, g) == \A n \in DOMAIN f : n \in DOMAIN g /\ g[n] = f[n]
        Log  == {SeriesName(k) : k \in 1 .. Stmts + 1} \cup {StatementsName}
        Half == IF todo # <<>> /\ Head(todo).op = "type"
                THEN [image.bindings EXCEPT ![Head(todo).cells[1][2]].type = NullType]
                ELSE image.bindings
    IN  /\ published => r.ok /\ DOMAIN r.w.bindings = Log
        /\ IF r.ok
           THEN Within(bound, r.w.bindings) /\ Within(r.w.bindings, Half)
           ELSE \/ DOMAIN disk = {}
                \/ LET k == SelectInSeq(todo, LAMBDA c : c.op \notin {"grow", "link", "toc", "given"}) IN
                   k > 0 /\ todo[k].op \in {"head", "offset", "size", "name"}

\* What a reader finds in every series that it can read.
ReadsWhole ==
  LET r == readFile(disk) IN
  r.ok => \A k \in DOMAIN streams : SeriesName(k) \in DOMAIN r.w.bindings =>
    LET vs == SeriesValues(disk, r.w.bindings[SeriesName(k)].offset) IN
    \/ IsPrefix(before[k], vs) /\ IsPrefix(vs, after[k])
    \/ vs \in {before[k], after[k]}

\* What a reader finds in a series (StoredSeries::record, series.C:139) at any
\* moment: all the values stored before the call under way, in order, and of
\* those of the call an initial part; never a value that is not stored yet, and
\* never a list that is cut off.  clear() is seen as a whole or not at all.  This
\* holds until a series is carried on in a batch that was full.
SeriesWhole == ~unsound /\ ~overfull => ReadsWhole

\* The entries of the log, or of all the transactions, that a reader finds.
Entries ==
  LET cells == SeriesValues(disk, image.bindings[SeriesName(Stmts + 1)].offset) IN
  IF client = "auto" THEN cells
  ELSE FoldLeft(LAMBDA es, c : es \o Batch(disk, c[2]), <<>>, cells)

\* The value that was read with the j-th entry of the log, if it was whole.
LoggedValue(j) == ValueCell(Entries[j][2], j)

\* The j-th entry of the log refers to the j-th value that was logged
\* (session.C:179, 201): the position that was noted before the value was
\* written is where it went, also when it was the last of a batch, and no entry
\* can be read before its value can.  An entry for a value that was not whole
\* refers to space that is empty, or that has a later value.  A manual commit is
\* all or nothing (session.C:211): the entries found are those before the
\* transaction under way or those after it, even if hog is killed in the middle.
LogRefersToValues ==
  published =>
    /\ \A j \in DOMAIN Entries :
         LET id == Entries[j][2]
             there == disk[Entries[j][3]]
         IN  IF LoggedValue(j) \in Range(after[id]) THEN there = LoggedValue(j)
             ELSE there \in {Zero} \cup {ValueCell(id, k) : k \in j + 1 .. Logged(after)}
    /\ client = "manual" => Len(Entries) \in {Logged(before), Logged(after)}

\* Memory that was mapped and not yet unmapped stays mapped (unmapFileData,
\* file.C:626): the map that a pointer was made from is there and has all of
\* the value, although maps overlap, grow in steps and are shared.
HeldIsMapped ==
  \A p \in DOMAIN image.allocs :
    LET a == image.allocs[p] IN
    /\ a.page \in DOMAIN image.mappings
    /\ image.mappings[a.page].id = p[1]
    /\ p[2] + a.size <= (a.page + image.mappings[a.page].pages) * PageSize
=============================================================================
