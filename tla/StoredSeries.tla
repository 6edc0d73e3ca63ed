---------------------------- MODULE StoredSeries ----------------------------
(***************************************************************************)
(* A series of values in a structured file, src/lib/hobbes/db/series.C: a  *)
(* named reference to the newest node of a list of batches, each node      *)
(* naming an array of up to batchSize values and the node before it.       *)
(*                                                                         *)
(* A series s is the record of the class's members: root is the position   *)
(* of headNodeRef, data, p and count are the batch that is written, its    *)
(* pointer and its length, head the position of batchHead, and node is     *)
(* batchNode.                                                              *)
(***************************************************************************)
EXTENDS PageFile

CONSTANT batchSize   \* values in a batch

ASSUME BatchSizePositive == batchSize \in Nat \ {0}

\* A reference takes a cell; a node its tag and two references.
RefSize  == 1
NodeSize == 3

\* Both forms of allocBatchNode: store a node, note its position, unmap it.
StoreNode(b, cells) ==
  [w |-> unmapFileData(Emit(b.w, Write("value", b.at, cells)), b.p, NodeSize), at |-> b.at]
allocBatchNode(w, cells) == StoreNode(allocAnon(w, NodeSize, WordAlign), cells)

EmptyNode == <<<<"nil">>, Zero, Zero>>
ConsNode(data, next) == <<<<"cons">>, <<"ref", data>>, <<"ref", next>>>>

\* A new batch in front of the node next; the root is the last thing written.
LinkNode(n, s) ==
  [w |-> Emit(n.w, Write("value", s.root, <<<<"ref", n.at>>>>)), s |-> [s EXCEPT !.node = n.at]]
LinkBatch(l, at, s, next) ==
  LinkNode(allocBatchNode(l.w, ConsNode(at, next)),
           [s EXCEPT !.data = at, !.p = l.p, !.count = 0, !.head = at + ArrayHead])
LoadBatch(a, s, next) ==
  LinkBatch(unsafeLoadArray(unsafeUnloadArray(a.w, a.p, batchSize), a.at, batchSize), a.at, s, next)
consBatchNode(w, s, next) == LoadBatch(unsafeStoreArray(w, batchSize), s, next)

ConsNodeBefore(n, s) == consBatchNode(n.w, s, n.at)
ConsFresh(w, s) == ConsNodeBefore(allocBatchNode(w, EmptyNode), s)

\* A position that holds no node reads as an empty list: the root of a series
\* whose first batch was never made is 0, where the header is.
IsRef(d, at)   == at \in DOMAIN d /\ d[at] # Zero /\ d[at][1] = "ref"
IsCons(d, at)  == at \in DOMAIN d /\ d[at] = <<"cons">> /\ IsRef(d, at + 1) /\ IsRef(d, at + 2)
NodeAt(d, at)  == IF IsCons(d, at) THEN <<d[at + 1][2], d[at + 2][2]>> ELSE <<>>
RefAt(d, at)   == IF IsRef(d, at) THEN d[at][2] ELSE 0
CountAt(d, at) == IF at + 1 \in DOMAIN d /\ d[at + 1] # Zero THEN d[at + 1][2] ELSE 0

NoSeries == [root |-> 0, data |-> 0, p |-> <<0, 0>>, count |-> 0, head |-> 0, node |-> 0]

\* Carry on with the newest batch of the file d.
LoadNewest(l, s, at, data, n) ==
  [w |-> l.w, s |-> [s EXCEPT !.data = data, !.p = l.p, !.count = n, !.head = data + ArrayHead + n, !.node = at]]
restartFrom(w, s, d, at, p) ==
  IF p = <<>> THEN ConsFresh(w, s)
  ELSE LoadNewest(unsafeLoadArray(w, p[1], batchSize), s, at, p[1], CountAt(d, p[1]))
restartFromBatchNode(w, s, d, at) == restartFrom(mapFileData(w, at, NodeSize).w, s, d, at, NodeAt(d, at))

\* The constructor: load the series of this name, or start one.
AtRoot(root) == [NoSeries EXCEPT !.root = root]
StartAt(r) == ConsFresh(r.w, AtRoot(r.at))
LoadAt(w, root, d) == restartFromBatchNode(mapFileData(w, root, RefSize).w, AtRoot(root), d, RefAt(d, root))
OpenSeries(w, name, d) ==
  IF name \in DOMAIN w.bindings THEN LoadAt(w, w.bindings[name].offset, d)
  ELSE StartAt(allocNamed(w, name, RefSize, WordAlign))

\* Where the next value will be.
writePosition(s) == s.data + (s.head - (s.data + 1)) + 1

clear(w, s) == ConsFresh(w, s)

\* Mutant: the batch counts the value before it is stored.
CountFirst(w, s, cell) ==
  Emit(Emit(w, Write("count", s.data + 1, <<<<"size", s.count + 1>>>>)), Write("value", s.head, <<cell>>))

\* A value that takes one cell is stored, and the batch counts it.
PutCell(w, s, cell) ==
  Emit(Emit(w, Write("value", s.head, <<cell>>)), Write("count", s.data + 1, <<<<"size", s.count + 1>>>>))

\* A batch that is full is followed by a new one.
UnloadOld(c, p) == [c EXCEPT !.w = unsafeUnloadArray(@, p, batchSize)]
AfterCell(w, s) ==
  IF s.count = batchSize THEN UnloadOld(consBatchNode(w, s, s.node), s.p) ELSE [w |-> w, s |-> s]
record(w, s, cell) == AfterCell(PutCell(w, s, cell), [s EXCEPT !.head = @ + 1, !.count = @ + 1])

\* The values that a reader finds in the file d from the reference at root,
\* oldest first.
Batch(d, at) == [i \in 1 .. CountAt(d, at) |-> d[at + ArrayHead + i - 1]]

SeriesValues(d, root) ==
  Iterate(LAMBDA s : LET p == NodeAt(d, s.at) IN
                     IF p = <<>> THEN s ELSE [at |-> p[2], vs |-> Batch(d, p[1]) \o s.vs],
          [at |-> RefAt(d, root), vs |-> <<>>],
          Cardinality(DOMAIN d) \div NodeSize + 1).vs
=============================================================================
