------------------------- MODULE StorageSessionProofs -------------------------
(***************************************************************************)
(* RegionsDisjoint, HeldIsMapped and TypeOK for every storage session of   *)
(* hog, and for the series program until it is killed, for every size of   *)
(* page, header, link, map and batch and every number of statements,       *)
(* values and kills.  The inductive invariant is SessionInv: the memory    *)
(* that a writer has of the file is Kept (PageFileProofs), and every series *)
(* has the space and the pointer of the batch that it writes.              *)
(***************************************************************************)
EXTENDS StorageSession, PageFileProofs


(***************************************************************************)
(* Arrays                                                                  *)
(***************************************************************************)

\* A pointer to space that was given out.
Held(w, p, sz) == p[2] \in Nat /\ [at |-> p[2], len |-> sz] \in w.regions

\* No space begins where the file does: the page there is of the table, which
\* createFile (file.C:667) enters first.
LEMMA NotAtStart ==
  ASSUME NEW w, FileKept(w), NEW r \in w.regions
  PROVE  r.at # 0
<1> SUFFICES ASSUME r.at = 0 PROVE FALSE
  OBVIOUS
<1>1. r.len \in Nat \ {0}
  BY DEF FileKept, SpaceKept
<1>2. Listed(w, 0) /\ PageOf(w, 0).type = "toc"
  <2>1. w.tocpages \in Seq(Nat) /\ w.tocpages # <<>> /\ w.tocpages[1] = 0
    BY DEF FileKept, TableKept
  <2>2. 1 \in DOMAIN w.tocpages
    BY <2>1
  <2> QED BY <2>1, <2>2 DEF FileKept, TableKept
<1>3. ApartFrom(w, r, 0)
  BY <1>2 DEF FileKept, SpaceKept, Listed
<1>4. Apart(r, 0 * PageSize, (0 + 1) * PageSize)
  BY <1>2, <1>3 DEF ApartFrom
<1>5. 0 * PageSize = 0 /\ (0 + 1) * PageSize = PageSize /\ PageSize > 0
  BY Sizes
<1>6. PICK x, y : x = 0 * PageSize /\ y = (0 + 1) * PageSize
  OBVIOUS
<1>7. r.at + r.len <= x \/ y <= r.at
  BY <1>4, <1>6 DEF Apart
<1>8. x = 0 /\ y = PageSize
  BY <1>5, <1>6
<1> QED BY <1>1, <1>7, <1>8, Sizes

\* A value is unmapped by the pointer it was mapped by, and with its own size
\* (unmapFileData, file.C:626).
LEMMA UnmapStays ==
  ASSUME NEW w, Kept(w), NEW p, NEW sz \in Nat \ {0}, Held(w, p, sz)
  PROVE  Stays(unmapFileData(w, p, sz), w)
<1> DEFINE v == unmapFileData(w, p, sz)
           R == [at |-> p[2], len |-> sz]
<1>1. FileKept(w) /\ MapsKept(w) /\ DOMAIN w = Fields
  BY KeptIs DEF FileKept
<1>2. ASSUME p \in DOMAIN w.allocs
      PROVE  w.allocs[p].size = sz
  <2> DEFINE n == w.allocs[p].size
             Q == [at |-> p[2], len |-> n]
  <2>1. n \in Nat \ {0} /\ (p[2] = 0 \/ Q \in w.regions)
    BY <1>1, <1>2 DEF MapsKept, PointerKept
  <2>2. R \in w.regions /\ p[2] \in Nat /\ R.at = p[2] /\ R.len = sz
    BY DEF Held
  <2>3. p[2] # 0
    BY <1>1, <2>2, NotAtStart
  <2>4. Q \in w.regions /\ Q.at = p[2] /\ Q.len = n
    BY <2>1, <2>3
  <2> HIDE DEF Q, R
  <2>5. Q = R
    <3> SUFFICES ASSUME Q # R PROVE FALSE
      OBVIOUS
    <3>1. Apart(R, Q.at, Q.at + Q.len)
      BY <1>1, <2>2, <2>4 DEF FileKept, SpaceKept
    <3> HIDE DEF n
    <3> QED BY <2>1, <2>2, <2>4, <3>1 DEF Apart
  <2> QED BY <2>2, <2>4, <2>5
<1>3. Same(v, w, {"mappings", "allocs"}) /\ MapsKept(v)
  BY <1>1, <1>2, UnmapKeeps
<1> HIDE DEF v
<1>4. v.out = w.out /\ v.regions = w.regions /\ v.bindings = w.bindings
  BY <1>3 DEF Same, Fields
<1>5. Same(v, w, {"mappings", "allocs", "maps", "bindings", "out"})
  BY <1>3 DEF Same
<1>6. Kept(v)
  BY <1>1, <1>3, <1>4, <1>5, FileMoves, KeptIs DEF FileKept
<1> QED BY <1>4, <1>6 DEF v, Stays, Goes

\* The capacity of an array is written into its space (file.C:1178).
LEMMA CapacityKeeps ==
  ASSUME NEW s, NEW len, NEW n, Placed(s, n)
  PROVE  LET a == Capacity(s, len) IN Placed(a, n) /\ Stays(a.w, s.w) /\ a.at = s.at
<1> DEFINE a == Capacity(s, len)
           v == Emit(s.w, Write("value", s.at, <<<<"size", ArrayHead + len>>>>))
<1>1. Stays(v, s.w) /\ v.regions = s.w.regions
  <2>1. IsChange(Write("value", s.at, <<<<"size", ArrayHead + len>>>>))
    BY DEF IsChange, Write
  <2> QED BY <2>1, EmitKeeps DEF Placed
<1>2. a = [s EXCEPT !.w = v]
  BY DEF Capacity
<1> HIDE DEF a, v
<1>3. DOMAIN a = DOMAIN s /\ a.w = v /\ a.p = s.p /\ a.at = s.at
  BY <1>2 DEF Placed
<1> QED BY <1>1, <1>3 DEF Placed, Stays, Goes, a

\* An array takes space even when it has no elements (file.C:1174).
LEMMA ArraySizes ==
  ASSUME NEW n \in Nat
  PROVE  ArrayHead + n \in Nat \ {0} /\ WordAlign \in Nat \ {0}
BY DEF ArrayHead, WordAlign

\* writer::unsafeStoreArray (file.C:1173) returns mapped space of its own.
LEMMA StoreArrayKeeps ==
  ASSUME NEW w, Kept(w), NEW len \in Nat
  PROVE  LET a == unsafeStoreArray(w, len) IN Placed(a, ArrayHead + len) /\ Stays(a.w, w)
<1> DEFINE s == allocAnon(w, ArrayHead + len, WordAlign)
           a == unsafeStoreArray(w, len)
<1>1. Placed(s, ArrayHead + len) /\ Stays(s.w, w)
  BY ArraySizes, AnonKeeps
<1>2. a = Capacity(s, len)
  BY DEF unsafeStoreArray
<1> HIDE DEF s, a
<1>3. Placed(a, ArrayHead + len) /\ Stays(a.w, s.w)
  BY <1>1, <1>2, CapacityKeeps
<1> QED BY <1>1, <1>3, StaysOn DEF a

\* writer::unsafeDefineArray (file.C:1132) too, and binds the name to it.
LEMMA DefineArrayKeeps ==
  ASSUME NEW w, Kept(w), NEW name, NEW len \in Nat
  PROVE  LET a == unsafeDefineArray(w, name, len)
         IN  Placed(a, ArrayHead + len) /\ Goes(a.w, w) /\ a.w.bindings = Put(w.bindings, name, binding(name, a.at))
<1> DEFINE s == allocNamed(w, name, ArrayHead + len, WordAlign)
           a == unsafeDefineArray(w, name, len)
<1>1. Placed(s, ArrayHead + len) /\ Goes(s.w, w) /\ s.w.bindings = Put(w.bindings, name, binding(name, s.at))
  BY ArraySizes, NamedKeeps
<1>2. a = Capacity(s, len)
  BY DEF unsafeDefineArray
<1> HIDE DEF s, a
<1>3. Placed(a, ArrayHead + len) /\ Stays(a.w, s.w) /\ a.at = s.at
  BY <1>1, <1>2, CapacityKeeps
<1> QED BY <1>1, <1>3, StaysOn DEF a, Stays

\* The contents of an array, written before its length (writer::store, file.H:257).
LEMMA FillKeeps ==
  ASSUME NEW s, NEW n, Placed(s, n), NEW cells
  PROVE  LET a == FillArray(s, cells) IN Placed(a, n) /\ Stays(a.w, s.w) /\ a.at = s.at
<1> DEFINE a == FillArray(s, cells)
           u == Emit(s.w, Write("value", s.at + ArrayHead, cells))
           v == Emit(u, Write("value", s.at + 1, <<<<"size", Len(cells)>>>>))
<1>1. Stays(u, s.w)
  BY WriteKeeps DEF Placed
<1>2. a = [s EXCEPT !.w = v]
  BY DEF FillArray
<1> HIDE DEF u
<1>3. Stays(v, u)
  BY <1>1, WriteKeeps DEF Stays, Goes
<1> HIDE DEF a, v
<1>4. Stays(v, s.w)
  BY <1>1, <1>3, StaysOn
<1>5. DOMAIN a = DOMAIN s /\ a.w = v /\ a.p = s.p /\ a.at = s.at
  BY <1>2 DEF Placed
<1> QED BY <1>4, <1>5 DEF Placed, Stays, Goes, a

\* The array is unmapped when it has been written (writer::store, file.H:269).
LEMMA DoneKeeps ==
  ASSUME NEW s, NEW n \in Nat, Placed(s, ArrayHead + n)
  PROVE  LET a == DoneArray(s, n) IN DOMAIN a = {"w", "p", "at"} /\ Stays(a.w, s.w) /\ a.at = s.at
<1> DEFINE a == DoneArray(s, n)
           v == unmapFileData(s.w, s.p, ArrayHead + n)
<1>1. Stays(v, s.w)
  BY ArraySizes, UnmapStays DEF Placed, Held
<1>2. a = [s EXCEPT !.w = v]
  BY DEF DoneArray, unsafeUnloadArray
<1> HIDE DEF a, v
<1> QED BY <1>1, <1>2 DEF Placed, a

\* writer::store (file.H:257) keeps the memory and what was given out.
LEMMA StoreWholeKeeps ==
  ASSUME NEW w, Kept(w), NEW cells, Len(cells) \in Nat
  PROVE  LET a == StoreWhole(w, cells) IN DOMAIN a = {"w", "p", "at"} /\ Stays(a.w, w)
<1> DEFINE s == unsafeStoreArray(w, Len(cells))
           f == FillArray(s, cells)
           a == StoreWhole(w, cells)
<1>1. Placed(s, ArrayHead + Len(cells)) /\ Stays(s.w, w)
  BY StoreArrayKeeps
<1>2. a = DoneArray(f, Len(cells))
  BY DEF StoreWhole
<1> HIDE DEF s
<1>3. Placed(f, ArrayHead + Len(cells)) /\ Stays(f.w, s.w)
  BY <1>1, FillKeeps
<1> HIDE DEF f, a
<1>4. DOMAIN a = {"w", "p", "at"} /\ Stays(a.w, f.w)
  BY <1>2, <1>3, DoneKeeps
<1>5. Stays(f.w, w)
  BY <1>1, <1>3, StaysOn
<1>6. Stays(a.w, w)
  BY <1>4, <1>5, StaysOn
<1> QED BY <1>4, <1>6 DEF a

(***************************************************************************)
(* Series                                                                  *)
(***************************************************************************)

\* What a series keeps of its newest batch.
SeriesFields == {"root", "data", "p", "count", "head", "node"}

\* The batch that a series writes has its space and its pointer.
SeriesOK(w, s) ==
  /\ DOMAIN s = SeriesFields
  /\ s.data \in Nat /\ s.p[2] = s.data
  /\ [at |-> s.data, len |-> ArrayHead + batchSize] \in w.regions

\* It keeps them while no space is taken back.
LEMMA SeriesStays ==
  ASSUME NEW v, NEW w, w.regions \subseteq v.regions, NEW s, SeriesOK(w, s)
  PROVE  SeriesOK(v, s)
BY DEF SeriesOK

\* A new node of the list of batches (allocBatchNode, series.C:251).
LEMMA NodeKeeps ==
  ASSUME NEW w, Kept(w), NEW cells
  PROVE  LET n == allocBatchNode(w, cells) IN Stays(n.w, w)
<1> DEFINE b == allocAnon(w, NodeSize, WordAlign)
           u == Emit(b.w, Write("value", b.at, cells))
           v == unmapFileData(u, b.p, NodeSize)
<1>1. NodeSize \in Nat \ {0} /\ WordAlign \in Nat \ {0}
  BY DEF NodeSize, WordAlign
<1>2. Placed(b, NodeSize) /\ Stays(b.w, w)
  BY <1>1, AnonKeeps
<1>3. allocBatchNode(w, cells).w = v
  BY DEF allocBatchNode, StoreNode
<1> HIDE DEF b
<1>4. Stays(u, b.w)
  BY <1>2, WriteKeeps DEF Placed
<1> HIDE DEF u
<1>5. Stays(v, u)
  <2>1. Held(u, b.p, NodeSize)
    BY <1>2, <1>4 DEF Held, Placed, Stays, Goes
  <2> QED BY <1>1, <1>4, <2>1, UnmapStays DEF Stays, Goes
<1> HIDE DEF v
<1> QED BY <1>2, <1>3, <1>4, <1>5, StaysOn

\* A series that goes on in a new batch (consBatchNode, series.C:221).
LEMMA ConsKeeps ==
  ASSUME NEW w, Kept(w), NEW s, DOMAIN s = SeriesFields, NEW next
  PROVE  LET c == consBatchNode(w, s, next)
         IN  DOMAIN c = {"w", "s"} /\ Stays(c.w, w) /\ SeriesOK(c.w, c.s)
<1> DEFINE c == consBatchNode(w, s, next)
           a == unsafeStoreArray(w, batchSize)
           u == unsafeUnloadArray(a.w, a.p, batchSize)
           l == unsafeLoadArray(u, a.at, batchSize)
           t == [s EXCEPT !.data = a.at, !.p = l.p, !.count = 0, !.head = a.at + ArrayHead]
           n == allocBatchNode(l.w, ConsNode(a.at, next))
           v == Emit(n.w, Write("value", t.root, <<<<"ref", n.at>>>>))
<1>1. batchSize \in Nat /\ ArrayHead + batchSize \in Nat \ {0}
  BY BatchSizePositive, ArraySizes
<1>2. Placed(a, ArrayHead + batchSize) /\ Stays(a.w, w)
  BY <1>1, StoreArrayKeeps
<1>3. c = [w |-> v, s |-> [t EXCEPT !.node = n.at]]
  BY DEF consBatchNode, LoadBatch, LinkBatch, LinkNode
<1> HIDE DEF a, c
<1>4. Stays(u, a.w)
  <2>1. u = unmapFileData(a.w, a.p, ArrayHead + batchSize)
    BY DEF unsafeUnloadArray
  <2> QED BY <1>1, <1>2, <2>1, UnmapStays DEF Placed, Held
<1> HIDE DEF u
<1>5. l.p[2] = a.at /\ Stays(l.w, u)
  <2>1. l = mapFileData(u, a.at, ArrayHead + batchSize)
    BY DEF unsafeLoadArray
  <2>2. Kept(u) /\ a.at \in Nat /\ [at |-> a.at, len |-> ArrayHead + batchSize] \in u.regions
    BY <1>2, <1>4 DEF Placed, Stays, Goes
  <2> HIDE DEF l
  <2> QED BY <1>1, <2>1, <2>2, PointedKeeps
<1> HIDE DEF l
<1>6. Stays(n.w, l.w)
  BY <1>5, NodeKeeps DEF Stays, Goes
<1> HIDE DEF n
<1>7. Stays(v, n.w)
  BY <1>6, WriteKeeps DEF Stays, Goes
<1> HIDE DEF v
<1>8. Stays(v, a.w)
  BY <1>4, <1>5, <1>6, <1>7, StaysOn
<1>9. DOMAIN t = SeriesFields /\ t.data = a.at /\ t.p = l.p
  BY DEF SeriesFields
<1> HIDE DEF t
<1>10. DOMAIN c.s = SeriesFields /\ c.s.data = a.at /\ c.s.p = l.p /\ c.w = v /\ DOMAIN c = {"w", "s"}
  BY <1>3, <1>9 DEF SeriesFields
<1>11. SeriesOK(c.w, c.s)
  BY <1>2, <1>5, <1>8, <1>10 DEF SeriesOK, Placed, Stays, Goes
<1> QED BY <1>2, <1>8, <1>10, <1>11, StaysOn DEF c

\* A series that begins anew (clear, series.C:131).
LEMMA FreshKeeps ==
  ASSUME NEW w, Kept(w), NEW s, DOMAIN s = SeriesFields
  PROVE  LET c == ConsFresh(w, s)
         IN  DOMAIN c = {"w", "s"} /\ Stays(c.w, w) /\ SeriesOK(c.w, c.s)
<1> DEFINE n == allocBatchNode(w, EmptyNode)
           c == ConsFresh(w, s)
<1>1. Stays(n.w, w)
  BY NodeKeeps
<1>2. c = consBatchNode(n.w, s, n.at)
  BY DEF ConsFresh, ConsNodeBefore
<1> HIDE DEF n, c
<1>3. DOMAIN c = {"w", "s"} /\ Stays(c.w, n.w) /\ SeriesOK(c.w, c.s)
  BY <1>1, <1>2, ConsKeeps DEF Stays, Goes
<1> QED BY <1>1, <1>3, StaysOn DEF c

\* A series of a name that the file does not have (series.C:102) is started and
\* bound to it.
LEMMA OpenKeeps ==
  ASSUME NEW w, Kept(w), NEW name, name \notin DOMAIN w.bindings, NEW d
  PROVE  LET o == OpenSeries(w, name, d)
         IN  /\ DOMAIN o = {"w", "s"} /\ Goes(o.w, w) /\ SeriesOK(o.w, o.s)
             /\ DOMAIN o.w.bindings = {name} \cup DOMAIN w.bindings
<1> DEFINE o == OpenSeries(w, name, d)
           r == allocNamed(w, name, RefSize, WordAlign)
           s == AtRoot(r.at)
<1>1. Goes(r.w, w) /\ r.w.bindings = Put(w.bindings, name, binding(name, r.at))
  <2>1. RefSize \in Nat \ {0} /\ WordAlign \in Nat \ {0}
    BY DEF RefSize, WordAlign
  <2> QED BY <2>1, NamedKeeps
<1>2. o = ConsFresh(r.w, s)
  BY DEF OpenSeries, StartAt
<1> HIDE DEF r, o
<1>3. DOMAIN s = SeriesFields
  BY DEF AtRoot, NoSeries, SeriesFields
<1> HIDE DEF s
<1>4. DOMAIN o = {"w", "s"} /\ Stays(o.w, r.w) /\ SeriesOK(o.w, o.s)
  BY <1>1, <1>2, <1>3, FreshKeeps DEF Goes
<1>5. DOMAIN o.w.bindings = {name} \cup DOMAIN w.bindings
  BY <1>1, <1>4 DEF Stays, Put
<1>6. Goes(o.w, w)
  BY <1>1, <1>4, StaysOn
<1> QED BY <1>4, <1>5, <1>6 DEF o

\* A value is stored, and a batch that is full is followed by a new one before it
\* is unmapped (record, series.C:139): the pointer is to the batch it was loaded by.
LEMMA RecordKeeps ==
  ASSUME NEW w, Kept(w), NEW s, SeriesOK(w, s), NEW cell
  PROVE  LET r == record(w, s, cell)
         IN  DOMAIN r = {"w", "s"} /\ Stays(r.w, w) /\ SeriesOK(r.w, r.s)
<1> DEFINE r == record(w, s, cell)
           u == Emit(w, Write("value", s.head, <<cell>>))
           v == Emit(u, Write("count", s.data + 1, <<<<"size", s.count + 1>>>>))
           t == [s EXCEPT !.head = @ + 1, !.count = @ + 1]
           c == consBatchNode(v, t, t.node)
           x == unsafeUnloadArray(c.w, t.p, batchSize)
<1>1. Stays(u, w)
  BY WriteKeeps
<1>2. r = AfterCell(v, t)
  BY DEF record, PutCell
<1> HIDE DEF u, r
<1>3. Stays(v, u)
  BY <1>1, WriteKeeps DEF Stays, Goes
<1> HIDE DEF v
<1>4. Stays(v, w)
  BY <1>1, <1>3, StaysOn
<1>5. DOMAIN t = SeriesFields /\ t.data = s.data /\ t.p = s.p
  BY DEF SeriesOK, SeriesFields
<1> HIDE DEF t
<1>6. SeriesOK(v, t)
  BY <1>4, <1>5 DEF SeriesOK, Stays, Goes
<1>7. CASE t.count = batchSize
  <2>1. r = [c EXCEPT !.w = x]
    BY <1>2, <1>7 DEF AfterCell, UnloadOld
  <2>2. DOMAIN c = {"w", "s"} /\ Stays(c.w, v) /\ SeriesOK(c.w, c.s)
    BY <1>4, <1>5, ConsKeeps DEF Stays, Goes
  <2> HIDE DEF c
  <2>3. Stays(x, c.w)
    <3>1. x = unmapFileData(c.w, t.p, ArrayHead + batchSize)
      BY DEF unsafeUnloadArray
    <3>2. Held(c.w, t.p, ArrayHead + batchSize)
      BY <1>6, <2>2 DEF Held, SeriesOK, Stays, Goes
    <3>3. ArrayHead + batchSize \in Nat \ {0}
      BY BatchSizePositive, ArraySizes
    <3> QED BY <2>2, <3>1, <3>2, <3>3, UnmapStays DEF Stays, Goes
  <2> HIDE DEF x
  <2>4. DOMAIN r = {"w", "s"} /\ r.w = x /\ r.s = c.s
    BY <2>1, <2>2
  <2>5. Stays(r.w, w) /\ SeriesOK(r.w, r.s)
    BY <1>4, <2>2, <2>3, <2>4, StaysOn, SeriesStays DEF Stays, Goes
  <2> QED BY <2>4, <2>5 DEF r
<1>8. CASE t.count # batchSize
  <2>1. r = [w |-> v, s |-> t]
    BY <1>2, <1>8 DEF AfterCell
  <2> QED BY <1>4, <1>6, <2>1 DEF r
<1> QED BY <1>7, <1>8

(***************************************************************************)
(* The loops of a session                                                  *)
(***************************************************************************)

\* The first m turns of the loop that starts the series of a session.
StartRun(f, w, m) ==
  /\ f = [k \in 0 .. m |-> f[k]]
  /\ f[0] = [w |-> w, ss |-> <<>>]
  /\ \A k \in 1 .. m : f[k] = AddSeries(f[k - 1], OpenSeries(f[k - 1].w, SeriesName(k), disk))

\* The loop (session.C:118) has its states for any number of statements.
LEMMA StartRuns ==
  ASSUME NEW w
  PROVE  \A m \in Nat : \E f : StartRun(f, w, m)
<1> DEFINE T == {m \in Nat : \E f : StartRun(f, w, m)}
<1>1. 0 \in T
  <2> DEFINE f == [k \in 0 .. 0 |-> [w |-> w, ss |-> <<>>]]
  <2>1. StartRun(f, w, 0)
    BY DEF StartRun
  <2> QED
    BY <2>1
<1>2. ASSUME NEW m \in T
      PROVE  m + 1 \in T
  <2>1. PICK f : StartRun(f, w, m)
    OBVIOUS
  <2> DEFINE g == [k \in 0 .. m + 1 |-> IF k <= m THEN f[k] ELSE AddSeries(f[k - 1], OpenSeries(f[k - 1].w, SeriesName(k), disk))]
  <2>2. ASSUME NEW k \in 1 .. m + 1
        PROVE  g[k] = AddSeries(g[k - 1], OpenSeries(g[k - 1].w, SeriesName(k), disk))
    <3>1. g[k - 1] = f[k - 1] /\ k \in 0 .. m + 1 /\ (k <= m => k \in 1 .. m)
      OBVIOUS
    <3>2. CASE k <= m
      BY <2>1, <3>1, <3>2 DEF StartRun
    <3>3. CASE ~(k <= m)
      BY <3>1, <3>3
    <3> QED
      BY <3>2, <3>3
  <2>3. g[0] = [w |-> w, ss |-> <<>>]
    BY <2>1 DEF StartRun
  <2>4. g = [k \in 0 .. m + 1 |-> g[k]]
    OBVIOUS
  <2>5. StartRun(g, w, m + 1)
    BY <2>2, <2>3, <2>4 DEF StartRun
  <2> QED
    BY <2>5
<1> HIDE DEF T
<1>3. Nat \subseteq T
  BY <1>1, <1>2, SetInduction
<1> QED
  BY <1>3 DEF T

\* StartSeries, the loop of session.C:118, is the last of these states.
LEMMA StartIs ==
  ASSUME NEW w, NEW n \in Nat
  PROVE  \E f : StartRun(f, w, n) /\ StartSeries(w, n) = f[n]
<1> DEFINE F(f) == [k \in 0 .. n |-> IF k = 0 THEN [w |-> w, ss |-> <<>>] ELSE AddSeries(f[k - 1], OpenSeries(f[k - 1].w, SeriesName(k), disk))]
           it == CHOOSE f : f = F(f)
<1>1. PICK f : StartRun(f, w, n)
  BY StartRuns
<1>2. f = F(f)
  <2>1. \A k \in 0 .. n : k # 0 => k \in 1 .. n
    OBVIOUS
  <2> QED
    BY <1>1, <2>1 DEF StartRun
<1>3. it = F(it)
  BY <1>2
<1>4. StartSeries(w, n) = it[n]
  BY DEF StartSeries, ForEach
<1> HIDE DEF it
<1>5. StartRun(it, w, n)
  <2>1. \A k \in 0 .. n : it[k] = IF k = 0 THEN [w |-> w, ss |-> <<>>] ELSE AddSeries(it[k - 1], OpenSeries(it[k - 1].w, SeriesName(k), disk))
    BY <1>3
  <2>2. it = [k \in 0 .. n |-> it[k]]
    BY <1>3
  <2>3. it[0] = [w |-> w, ss |-> <<>>]
    BY <2>1
  <2>4. \A k \in 1 .. n : k \in 0 .. n /\ k # 0
    OBVIOUS
  <2>5. \A k \in 1 .. n : it[k] = AddSeries(it[k - 1], OpenSeries(it[k - 1].w, SeriesName(k), disk))
    BY <2>1, <2>4
  <2> QED
    BY <2>2, <2>3, <2>5 DEF StartRun
<1> QED
  BY <1>4, <1>5

\* The first m turns of the loop that stores the texts of the statements.
TextsRun(f, w, m) ==
  /\ f = [k \in 0 .. m |-> f[k]]
  /\ f[0] = w
  /\ \A k \in 1 .. m : f[k] = StoreWhole(f[k - 1], <<<<"text">>>>).w

\* The loop (session.C:155) has its states for any number of texts.
LEMMA TextsRuns ==
  ASSUME NEW w
  PROVE  \A m \in Nat : \E f : TextsRun(f, w, m)
<1> DEFINE T == {m \in Nat : \E f : TextsRun(f, w, m)}
<1>1. 0 \in T
  <2> DEFINE f == [k \in 0 .. 0 |-> w]
  <2>1. TextsRun(f, w, 0)
    BY DEF TextsRun
  <2> QED
    BY <2>1
<1>2. ASSUME NEW m \in T
      PROVE  m + 1 \in T
  <2>1. PICK f : TextsRun(f, w, m)
    OBVIOUS
  <2> DEFINE g == [k \in 0 .. m + 1 |-> IF k <= m THEN f[k] ELSE StoreWhole(f[k - 1], <<<<"text">>>>).w]
  <2>2. ASSUME NEW k \in 1 .. m + 1
        PROVE  g[k] = StoreWhole(g[k - 1], <<<<"text">>>>).w
    <3>1. g[k - 1] = f[k - 1] /\ k \in 0 .. m + 1 /\ (k <= m => k \in 1 .. m)
      OBVIOUS
    <3>2. CASE k <= m
      BY <2>1, <3>1, <3>2 DEF TextsRun
    <3>3. CASE ~(k <= m)
      BY <3>1, <3>3
    <3> QED
      BY <3>2, <3>3
  <2>3. g[0] = w
    BY <2>1 DEF TextsRun
  <2>4. g = [k \in 0 .. m + 1 |-> g[k]]
    OBVIOUS
  <2>5. TextsRun(g, w, m + 1)
    BY <2>2, <2>3, <2>4 DEF TextsRun
  <2> QED
    BY <2>5
<1> HIDE DEF T
<1>3. Nat \subseteq T
  BY <1>1, <1>2, SetInduction
<1> QED
  BY <1>3 DEF T

\* Iterating over the texts, the loop of session.C:155, is the last of these states.
LEMMA TextsIs ==
  ASSUME NEW w, NEW n \in Nat
  PROVE  \E f : TextsRun(f, w, n) /\ Iterate(LAMBDA v : StoreWhole(v, <<<<"text">>>>).w, w, n) = f[n]
<1> DEFINE F(f) == [k \in 0 .. n |-> IF k = 0 THEN w ELSE StoreWhole(f[k - 1], <<<<"text">>>>).w]
           it == CHOOSE f : f = F(f)
<1>1. PICK f : TextsRun(f, w, n)
  BY TextsRuns
<1>2. f = F(f)
  <2>1. \A k \in 0 .. n : k # 0 => k \in 1 .. n
    OBVIOUS
  <2> QED
    BY <1>1, <2>1 DEF TextsRun
<1>3. it = F(it)
  BY <1>2
<1>4. Iterate(LAMBDA v : StoreWhole(v, <<<<"text">>>>).w, w, n) = it[n]
  BY DEF Iterate
<1> HIDE DEF it
<1>5. TextsRun(it, w, n)
  <2>1. \A k \in 0 .. n : it[k] = IF k = 0 THEN w ELSE StoreWhole(it[k - 1], <<<<"text">>>>).w
    BY <1>3
  <2>2. it = [k \in 0 .. n |-> it[k]]
    BY <1>3
  <2>3. it[0] = w
    BY <2>1
  <2>4. \A k \in 1 .. n : k \in 0 .. n /\ k # 0
    OBVIOUS
  <2>5. \A k \in 1 .. n : it[k] = StoreWhole(it[k - 1], <<<<"text">>>>).w
    BY <2>1, <2>4
  <2> QED
    BY <2>2, <2>3, <2>5 DEF TextsRun
<1> QED
  BY <1>4, <1>5

\* The first m turns of the loop over a transaction.
TurnRun(f, v, turns, m) ==
  /\ f = [k \in 0 .. m |-> f[k]]
  /\ f[0] = v
  /\ \A k \in 1 .. m : f[k] = Turn(f[k - 1], turns[k])

\* The loop (session.C:176, session.C:197) has its states for any number of turns.
LEMMA TurnRuns ==
  ASSUME NEW v, NEW turns
  PROVE  \A m \in Nat : \E f : TurnRun(f, v, turns, m)
<1> DEFINE T == {m \in Nat : \E f : TurnRun(f, v, turns, m)}
<1>1. 0 \in T
  <2> DEFINE f == [k \in 0 .. 0 |-> v]
  <2>1. TurnRun(f, v, turns, 0)
    BY DEF TurnRun
  <2> QED
    BY <2>1
<1>2. ASSUME NEW m \in T
      PROVE  m + 1 \in T
  <2>1. PICK f : TurnRun(f, v, turns, m)
    OBVIOUS
  <2> DEFINE g == [k \in 0 .. m + 1 |-> IF k <= m THEN f[k] ELSE Turn(f[k - 1], turns[k])]
  <2>2. ASSUME NEW k \in 1 .. m + 1
        PROVE  g[k] = Turn(g[k - 1], turns[k])
    <3>1. g[k - 1] = f[k - 1] /\ k \in 0 .. m + 1 /\ (k <= m => k \in 1 .. m)
      OBVIOUS
    <3>2. CASE k <= m
      BY <2>1, <3>1, <3>2 DEF TurnRun
    <3>3. CASE ~(k <= m)
      BY <3>1, <3>3
    <3> QED
      BY <3>2, <3>3
  <2>3. g[0] = v
    BY <2>1 DEF TurnRun
  <2>4. g = [k \in 0 .. m + 1 |-> g[k]]
    OBVIOUS
  <2>5. TurnRun(g, v, turns, m + 1)
    BY <2>2, <2>3, <2>4 DEF TurnRun
  <2> QED
    BY <2>5
<1> HIDE DEF T
<1>3. Nat \subseteq T
  BY <1>1, <1>2, SetInduction
<1> QED
  BY <1>3 DEF T

\* The loop of session.C:176 or 197 over a transaction is the last of these states.
LEMMA TurnsAre ==
  ASSUME NEW v, NEW turns, Len(turns) \in Nat
  PROVE  \E f : TurnRun(f, v, turns, Len(turns)) /\ ForEach(LAMBDA u, i : Turn(u, turns[i]), v, Len(turns)) = f[Len(turns)]
<1> DEFINE F(f) == [k \in 0 .. Len(turns) |-> IF k = 0 THEN v ELSE Turn(f[k - 1], turns[k])]
           it == CHOOSE f : f = F(f)
<1>1. PICK f : TurnRun(f, v, turns, Len(turns))
  BY TurnRuns
<1>2. f = F(f)
  <2>1. \A k \in 0 .. Len(turns) : k # 0 => k \in 1 .. Len(turns)
    OBVIOUS
  <2> QED
    BY <1>1, <2>1 DEF TurnRun
<1>3. it = F(it)
  BY <1>2
<1>4. ForEach(LAMBDA u, i : Turn(u, turns[i]), v, Len(turns)) = it[Len(turns)]
  BY DEF ForEach
<1> HIDE DEF it
<1>5. TurnRun(it, v, turns, Len(turns))
  <2>1. \A k \in 0 .. Len(turns) : it[k] = IF k = 0 THEN v ELSE Turn(it[k - 1], turns[k])
    BY <1>3
  <2>2. it = [k \in 0 .. Len(turns) |-> it[k]]
    BY <1>3
  <2>3. it[0] = v
    BY <2>1
  <2>4. \A k \in 1 .. Len(turns) : k \in 0 .. Len(turns) /\ k # 0
    OBVIOUS
  <2>5. \A k \in 1 .. Len(turns) : it[k] = Turn(it[k - 1], turns[k])
    BY <2>1, <2>4
  <2> QED
    BY <2>2, <2>3, <2>5 DEF TurnRun
<1> QED
  BY <1>4, <1>5

(***************************************************************************)
(* The series of a session                                                 *)
(***************************************************************************)

\* All series of a session have the batches that they write.
StreamsOK(w, ss, n) ==
  /\ \E S : ss \in Seq(S)
  /\ Len(ss) = n
  /\ \A i \in 1 .. n : SeriesOK(w, ss[i])

\* They keep them while no space is taken back.
LEMMA StreamsStay ==
  ASSUME NEW v, NEW w, w.regions \subseteq v.regions, NEW ss, NEW n, StreamsOK(w, ss, n)
  PROVE  StreamsOK(v, ss, n)
BY SeriesStays DEF StreamsOK

\* The first k series of a session, started in the file of w.
Started(v, w, k) ==
  /\ DOMAIN v = {"w", "ss"}
  /\ Goes(v.w, w) /\ StreamsOK(v.w, v.ss, k)
  /\ DOMAIN v.w.bindings \subseteq {SeriesName(i) : i \in 1 .. k}

\* The series of a session are all started, each under its own name
\* (initStorageSession, session.C:118).
LEMMA StartKeeps ==
  ASSUME NEW w, Kept(w), DOMAIN w.bindings = {}, NEW n \in Nat
  PROVE  Started(StartSeries(w, n), w, n)
<1>1. PICK f : StartRun(f, w, n) /\ StartSeries(w, n) = f[n]
  BY StartIs
<1> DEFINE T == {k \in Nat : k <= n => Started(f[k], w, k)}
<1>2. 0 \in T
  <2>1. f[0] = [w |-> w, ss |-> <<>>]
    BY <1>1 DEF StartRun
  <2>2. Goes(w, w)
    BY DEF Goes
  <2>3. StreamsOK(w, <<>>, 0)
    <3>1. <<>> \in Seq({}) /\ Len(<<>>) = 0
      OBVIOUS
    <3> QED BY <3>1 DEF StreamsOK
  <2> QED BY <2>1, <2>2, <2>3 DEF Started
<1>3. ASSUME NEW k \in T
      PROVE  k + 1 \in T
  <2> SUFFICES ASSUME k + 1 <= n
               PROVE  Started(f[k + 1], w, k + 1)
    OBVIOUS
  <2>1. k \in Nat /\ Started(f[k], w, k)
    OBVIOUS
  <2> DEFINE u == f[k]
             o == OpenSeries(u.w, SeriesName(k + 1), disk)
             v == f[k + 1]
  <2>2. v = AddSeries(u, o)
    <3>1. k + 1 \in 1 .. n /\ (k + 1) - 1 = k
      BY <2>1
    <3> QED BY <1>1, <3>1 DEF StartRun
  <2> HIDE DEF T, u, v
  <2>3. /\ Kept(u.w) /\ Goes(u.w, w) /\ StreamsOK(u.w, u.ss, k)
        /\ DOMAIN u.w.bindings \subseteq {SeriesName(i) : i \in 1 .. k}
    BY <2>1 DEF Started, Goes, u
  <2>4. SeriesName(k + 1) \notin DOMAIN u.w.bindings
    <3>1. \A i \in 1 .. k : SeriesName(i) # SeriesName(k + 1)
      BY <2>1 DEF SeriesName
    <3> QED BY <2>3, <3>1
  <2>5. /\ DOMAIN o = {"w", "s"} /\ Goes(o.w, u.w) /\ SeriesOK(o.w, o.s)
        /\ DOMAIN o.w.bindings = {SeriesName(k + 1)} \cup DOMAIN u.w.bindings
    BY <2>3, <2>4, OpenKeeps
  <2> HIDE DEF o
  <2>6. v = [w |-> o.w, ss |-> Append(u.ss, o.s)]
    BY <2>2 DEF AddSeries
  <2>7. Goes(o.w, w)
    BY <2>3, <2>5 DEF Goes
  <2>8. StreamsOK(o.w, Append(u.ss, o.s), k + 1)
    <3>1. PICK S : u.ss \in Seq(S)
      BY <2>3 DEF StreamsOK
    <3>2. u.ss \in Seq(S \cup {o.s}) /\ Len(u.ss) = k
      BY <2>3, <3>1 DEF StreamsOK
    <3>3. PICK z \in Seq(S \cup {o.s}) : z = u.ss /\ Len(z) = k
      BY <3>2
    <3>4. /\ Append(z, o.s) \in Seq(S \cup {o.s}) /\ Len(Append(z, o.s)) = k + 1
          /\ \A i \in 1 .. k + 1 : Append(z, o.s)[i] = IF i <= k THEN z[i] ELSE o.s
      <4>1. o.s \in S \cup {o.s}
        OBVIOUS
      <4> QED BY <3>3, <4>1, AppendIs
    <3>5. \A i \in 1 .. k : SeriesOK(o.w, z[i])
      BY <2>3, <2>5, <3>3, SeriesStays DEF StreamsOK, Goes
    <3>6. \A i \in 1 .. k + 1 : SeriesOK(o.w, Append(z, o.s)[i])
      BY <2>1, <2>5, <3>4, <3>5
    <3> QED BY <3>3, <3>4, <3>6 DEF StreamsOK
  <2>9. DOMAIN o.w.bindings \subseteq {SeriesName(i) : i \in 1 .. k + 1}
    <3>1. 1 .. k \subseteq 1 .. k + 1 /\ k + 1 \in 1 .. k + 1
      BY <2>1
    <3> QED BY <2>3, <2>5, <3>1
  <2>10. Started(v, w, k + 1)
    BY <2>6, <2>7, <2>8, <2>9 DEF Started
  <2> QED BY <2>10 DEF v
<1> HIDE DEF T
<1>4. Nat \subseteq T
  BY <1>2, <1>3, SetInduction
<1> QED BY <1>1, <1>4 DEF T

\* The texts of the statements are stored (session.C:155).
LEMMA TextsKeep ==
  ASSUME NEW w, Kept(w), NEW n \in Nat
  PROVE  Stays(Iterate(LAMBDA v : StoreWhole(v, <<<<"text">>>>).w, w, n), w)
<1>1. PICK f : TextsRun(f, w, n) /\ Iterate(LAMBDA v : StoreWhole(v, <<<<"text">>>>).w, w, n) = f[n]
  BY TextsIs
<1> DEFINE T == {k \in Nat : k <= n => Stays(f[k], w)}
<1>2. 0 \in T
  BY <1>1 DEF TextsRun, Stays, Goes
<1>3. ASSUME NEW k \in T
      PROVE  k + 1 \in T
  <2> SUFFICES ASSUME k + 1 <= n
               PROVE  Stays(f[k + 1], w)
    OBVIOUS
  <2>1. k \in Nat /\ Stays(f[k], w)
    OBVIOUS
  <2>2. f[k + 1] = StoreWhole(f[k], <<<<"text">>>>).w
    <3>1. k + 1 \in 1 .. n /\ (k + 1) - 1 = k
      BY <2>1
    <3> QED BY <1>1, <3>1 DEF TextsRun
  <2> HIDE DEF T
  <2>3. Len(<<<<"text">>>>) \in Nat
    OBVIOUS
  <2>4. Stays(f[k + 1], f[k])
    <3>1. Kept(f[k])
      BY <2>1 DEF Stays, Goes
    <3>2. Stays(StoreWhole(f[k], <<<<"text">>>>).w, f[k])
      BY <2>3, <3>1, StoreWholeKeeps
    <3> QED BY <2>2, <3>2
  <2> QED BY <2>1, <2>4, StaysOn
<1> HIDE DEF T
<1>4. Nat \subseteq T
  BY <1>2, <1>3, SetInduction
<1> QED BY <1>1, <1>4 DEF T

\* The table of the statements is stored with them (session.C:153).
LEMMA StatementsKeep ==
  ASSUME NEW w, Kept(w)
  PROVE  Goes(StoreStatements(w), w)
<1> DEFINE a == unsafeDefineArray(w, StatementsName, Stmts)
           b == StoreTexts(a)
           texts == Iterate(LAMBDA v : StoreWhole(v, <<<<"text">>>>).w, a.w, 3 * Stmts)
           c == FillArray(b, [i \in 1 .. Stmts |-> <<"stmt", i>>])
           d == DoneArray(c, Stmts)
<1>1. Stmts \in Nat /\ 3 * Stmts \in Nat
  BY SessionConstants
<1>2. Placed(a, ArrayHead + Stmts) /\ Goes(a.w, w)
  BY <1>1, DefineArrayKeeps
<1>3. b = [a EXCEPT !.w = texts]
  BY DEF StoreTexts
<1>4. StoreStatements(w) = d.w
  BY DEF StoreStatements
<1> HIDE DEF a
<1>5. Stays(texts, a.w)
  BY <1>1, <1>2, TextsKeep DEF Placed
<1> HIDE DEF b, texts
<1>6. Placed(b, ArrayHead + Stmts) /\ b.w = texts
  BY <1>2, <1>3, <1>5 DEF Placed, Stays, Goes
<1>7. Placed(c, ArrayHead + Stmts) /\ Stays(c.w, b.w)
  BY <1>6, FillKeeps
<1> HIDE DEF c
<1>8. Stays(d.w, c.w)
  BY <1>1, <1>7, DoneKeeps
<1> HIDE DEF d
<1> QED BY <1>2, <1>4, <1>5, <1>6, <1>7, <1>8 DEF Stays, Goes

(***************************************************************************)
(* Transactions                                                            *)
(***************************************************************************)

\* The state of a transaction after some of its turns.
InTxn(v, w, n) ==
  /\ DOMAIN v = {"w", "ss", "n", "held", "txn"}
  /\ Goes(v.w, w) /\ StreamsOK(v.w, v.ss, n)
  /\ \E S : v.txn \in Seq(S)

\* Recording in one series keeps the batches of all others (session.C:181).
LEMMA RecordInKeeps ==
  ASSUME NEW w, NEW n \in Nat, NEW v, InTxn(v, w, n), NEW id \in 1 .. n, NEW cell
  PROVE  InTxn(RecordIn(v, id, cell), w, n)
<1> DEFINE r == record(v.w, v.ss[id], cell)
           u == RecordIn(v, id, cell)
           z == [v.ss EXCEPT ![id] = r.s]
<1>1. DOMAIN r = {"w", "s"} /\ Stays(r.w, v.w) /\ SeriesOK(r.w, r.s)
  BY RecordKeeps DEF InTxn, StreamsOK, Goes
<1>2. u = [v EXCEPT !.w = r.w, !.ss[id] = r.s, !.held[id] = Append(@, cell)]
  BY DEF RecordIn, Recorded
<1> HIDE DEF r, u
<1>3. /\ DOMAIN u = DOMAIN v /\ u.w = r.w /\ u.ss = z /\ u.n = v.n /\ u.txn = v.txn
  BY <1>2 DEF InTxn
<1>4. StreamsOK(r.w, z, n)
  <2>1. PICK S : v.ss \in Seq(S) /\ Len(v.ss) = n
    BY DEF InTxn, StreamsOK
  <2>2. PICK y \in Seq(S \cup {r.s}) : y = v.ss /\ Len(y) = n
    BY <2>1
  <2>3. z \in Seq(S \cup {r.s}) /\ Len(z) = n /\ \A i \in 1 .. n : z[i] = IF i = id THEN r.s ELSE y[i]
    BY <2>2
  <2>4. \A i \in 1 .. n : SeriesOK(r.w, y[i])
    BY <1>1, <2>2, SeriesStays DEF InTxn, StreamsOK, Stays, Goes
  <2>5. \A i \in 1 .. n : SeriesOK(r.w, z[i])
    BY <1>1, <2>3, <2>4
  <2> HIDE DEF z
  <2> QED BY <2>3, <2>5 DEF StreamsOK
<1> HIDE DEF z
<1>5. Goes(r.w, w)
  BY <1>1, StaysOn DEF InTxn
<1> QED BY <1>3, <1>4, <1>5 DEF InTxn, u

\* The position of a value is noted before the value is read (session.C:179,
\* session.C:201).
LEMMA NotedKeeps ==
  ASSUME NEW w, NEW n, NEW v, InTxn(v, w, n), NEW id
  PROVE  InTxn(Noted(v, id), w, n)
<1> DEFINE cell == LogCell(id, writePosition(v.ss[id]))
           u == Noted(v, id)
<1>1. u = [v EXCEPT !.n = @ + 1, !.txn = Append(@, cell)]
  BY DEF Noted
<1> HIDE DEF cell, u
<1>2. DOMAIN u = DOMAIN v /\ u.w = v.w /\ u.ss = v.ss /\ u.txn = Append(v.txn, cell)
  BY <1>1 DEF InTxn
<1>3. \E S : u.txn \in Seq(S)
  <2>1. PICK S : v.txn \in Seq(S)
    BY DEF InTxn
  <2>2. PICK z \in Seq(S \cup {cell}) : z = v.txn
    BY <2>1
  <2>3. Append(z, cell) \in Seq(S \cup {cell})
    OBVIOUS
  <2> QED BY <1>2, <2>2, <2>3
<1>4. InTxn(u, w, n)
  BY <1>2, <1>3 DEF InTxn
<1> QED BY <1>4 DEF u

\* A value of a transaction is recorded (session.C:180, session.C:203), or nothing
\* is when there are too few bytes left of it (session.C:131).
LEMMA PutValueKeeps ==
  ASSUME NEW w, NEW n \in Nat, NEW v, InTxn(v, w, n), NEW t, t.id \in 1 .. n
  PROVE  InTxn(PutValue(v, t), w, n)
<1>1. InTxn(Noted(v, t.id), w, n)
  BY NotedKeeps
<1>2. CASE t.whole
  <2>1. PutValue(v, t) = RecordIn(Noted(v, t.id), t.id, ValueCell(t.id, v.n + 1))
    BY <1>2 DEF PutValue
  <2> QED BY <1>1, <2>1, RecordInKeeps
<1>3. CASE ~t.whole
  <2>1. PutValue(v, t) = Noted(v, t.id)
    BY <1>3 DEF PutValue
  <2> QED BY <1>1, <2>1
<1> QED BY <1>2, <1>3

\* A turn of the loop: with automatic commit every value has its entry in the log
\* (session.C:181), and an unknown statement has neither (session.C:183, session.C:205).
LEMMA TurnKeeps ==
  ASSUME NEW w, NEW n \in Nat, log = n, n = Stmts + 1, Stmts \in Nat,
         NEW v, InTxn(v, w, n), NEW t \in Turns
  PROVE  InTxn(Turn(v, t), w, n)
<1>1. t.id \in 1 .. n
  BY DEF Turns
<1>2. CASE t.id > Stmts
  <2>1. ~(t.id <= Stmts)
    BY <1>1, <1>2
  <2>2. Turn(v, t) = v
    BY <1>2, <2>1 DEF Turn
  <2> QED BY <2>2
<1>3. CASE t.id <= Stmts /\ client = "auto"
  <2> DEFINE u == PutValue(v, t)
  <2>1. InTxn(u, w, n)
    BY <1>1, PutValueKeeps
  <2>2. Turn(v, t) = PutLogged(u)
    <3>1. ~(t.id > Stmts)
      BY <1>1, <1>3
    <3> QED BY <1>3, <3>1 DEF Turn
  <2> HIDE DEF u
  <2>3. PutLogged(u) = RecordIn(u, n, Last(u.txn))
    BY DEF PutLogged, PutLog
  <2>4. n \in 1 .. n
    OBVIOUS
  <2> QED BY <2>1, <2>2, <2>3, <2>4, RecordInKeeps
<1>4. CASE t.id <= Stmts /\ client # "auto"
  <2>1. Turn(v, t) = PutValue(v, t)
    <3>1. ~(t.id > Stmts)
      BY <1>1, <1>4
    <3> QED BY <1>4, <3>1 DEF Turn
  <2> QED BY <1>1, <2>1, PutValueKeeps
<1> QED BY <1>1, <1>2, <1>3, <1>4

\* All turns of the loop (session.C:176, session.C:197).
LEMMA TurnsKeep ==
  ASSUME NEW w, NEW n \in Nat, log = n, n = Stmts + 1, Stmts \in Nat, NEW v, InTxn(v, w, n),
         NEW turns, NEW m \in Nat, Len(turns) = m, \A i \in 1 .. m : turns[i] \in Turns
  PROVE  InTxn(ForEach(LAMBDA u, i : Turn(u, turns[i]), v, Len(turns)), w, n)
<1> DEFINE r == ForEach(LAMBDA u, i : Turn(u, turns[i]), v, Len(turns))
<1>1. PICK f : TurnRun(f, v, turns, m) /\ r = f[m]
  BY TurnsAre
<1> HIDE DEF r
<1> DEFINE T == {k \in Nat : k <= m => InTxn(f[k], w, n)}
<1>2. 0 \in T
  BY <1>1 DEF TurnRun
<1>3. ASSUME NEW k \in T
      PROVE  k + 1 \in T
  <2> SUFFICES ASSUME k + 1 <= m
               PROVE  InTxn(f[k + 1], w, n)
    OBVIOUS
  <2>1. k \in Nat /\ InTxn(f[k], w, n)
    OBVIOUS
  <2>2. f[k + 1] = Turn(f[k], turns[k + 1]) /\ turns[k + 1] \in Turns
    <3>1. k + 1 \in 1 .. m /\ (k + 1) - 1 = k
      BY <2>1
    <3> QED BY <1>1, <3>1 DEF TurnRun
  <2> HIDE DEF T
  <2> QED BY <2>1, <2>2, TurnKeeps
<1> HIDE DEF T
<1>4. Nat \subseteq T
  BY <1>2, <1>3, SetInduction
<1>5. InTxn(r, w, n)
  BY <1>1, <1>4 DEF T
<1> QED BY <1>5 DEF r

\* With manual commit the entries are stored after the values, and one entry lists
\* them (session.C:209-211).
LEMMA AfterTurnsKeeps ==
  ASSUME NEW w, NEW n \in Nat, log = n, n >= 1, NEW v, InTxn(v, w, n)
  PROVE  InTxn(AfterTurns(v), w, n)
<1>1. CASE client = "auto"
  BY <1>1 DEF AfterTurns
<1>2. CASE client # "auto"
  <2> DEFINE a == StoreWhole(v.w, v.txn)
             t == [v EXCEPT !.w = a.w]
  <2>1. AfterTurns(v) = RecordIn(t, n, <<"txn", a.at, v.n>>)
    BY <1>2 DEF AfterTurns, PutAll, PutStored, PutLog
  <2>2. Stays(a.w, v.w)
    <3>1. Len(v.txn) \in Nat
      <4>1. PICK S : v.txn \in Seq(S)
        BY DEF InTxn
      <4> QED BY <4>1
    <3> QED BY <3>1, StoreWholeKeeps DEF InTxn, Goes
  <2> HIDE DEF a
  <2>3. DOMAIN t = DOMAIN v /\ t.w = a.w /\ t.ss = v.ss /\ t.n = v.n /\ t.txn = v.txn
    BY DEF InTxn
  <2> HIDE DEF t
  <2>4. InTxn(t, w, n)
    BY <2>2, <2>3, StaysOn, StreamsStay DEF InTxn, Stays, Goes
  <2>5. n \in 1 .. n
    OBVIOUS
  <2> QED BY <2>1, <2>4, <2>5, RecordInKeeps
<1> QED BY <1>1, <1>2

\* A transaction, with or without a commit, is all recorded in space of its own
\* (session.C:173).
LEMMA TxnKeeps ==
  ASSUME NEW w, NEW n \in Nat, log = n, n = Stmts + 1, Stmts \in Nat, NEW v, InTxn(v, w, n),
         NEW turns, NEW m \in Nat, Len(turns) = m, \A i \in 1 .. m : turns[i] \in Turns
  PROVE  InTxn(Txn(v, turns), w, n)
<1> DEFINE r == ForEach(LAMBDA u, i : Turn(u, turns[i]), v, Len(turns))
<1>1. InTxn(r, w, n)
  BY TurnsKeep
<1>2. Txn(v, turns) = AfterTurns(r)
  BY DEF Txn
<1> HIDE DEF r
<1> QED BY <1>1, <1>2, AfterTurnsKeeps

(***************************************************************************)
(* A new file                                                              *)
(***************************************************************************)

\* createFile (file.C:667) begins with a sound memory: one page, of the table.
LEMMA NewFileKept ==
  FileKept(createFile) /\ MapsKept(createFile) /\ createFile.size = PageSize
  /\ createFile.regions = {} /\ createFile.bindings = <<>> /\ DOMAIN createFile.mappings = {}
  /\ Listed(createFile, 0)
<1> DEFINE g == allocPages(NoImage, 1)
           b == Write("head", 0, [i \in 1 .. HeadSize |-> HeadCell(i)])
           c == Write("head", HeadSize, <<PageCell(pagedata("toc", 0))>>)
           a == Emit(g, b)
           e == Emit(a, c)
           w == createFile
<1>1. w = [e EXCEPT !.pages = <<pagedata("toc", 0)>>, !.tocpages = <<0>>, !.head = HeadSize + 1]
  BY DEF createFile
<1> HIDE DEF w
<1>2. /\ DOMAIN NoImage = Fields /\ NoImage.size = 0 /\ NoImage.out = <<>>
      /\ NoImage.freespace = [t \in PageTypes |-> <<>>] /\ NoImage.bindings = <<>>
      /\ NoImage.mappings = <<>> /\ NoImage.allocs = <<>> /\ NoImage.maps = 0 /\ NoImage.regions = {}
  BY DEF NoImage, Fields, PageTypes
<1>3. PlanKept(NoImage.out)
  <2>1. <<>> \in Seq({})
    OBVIOUS
  <2> QED BY <1>2, <2>1 DEF PlanKept
<1>4. Same(g, NoImage, {"out", "size"}) /\ g.size = 0 + 1 * PageSize /\ PlanKept(g.out)
  BY <1>2, <1>3, GrowIs
<1> HIDE DEF g
<1>5. IsChange(b) /\ IsChange(c)
  BY DEF IsChange, Write
<1> HIDE DEF b, c
<1>6. Same(a, g, {"out"}) /\ PlanKept(a.out)
  <2>1. DOMAIN g = Fields
    BY <1>4 DEF Same
  <2>2. Same(a, g, {"out"}) /\ a.out = Append(g.out, b)
    BY <2>1, EmitIs
  <2> HIDE DEF a
  <2>3. PlanKept(a.out)
    BY <1>4, <1>5, <2>2, PlanGoesOn
  <2> QED BY <2>2, <2>3
<1> HIDE DEF a
<1>7. Same(e, a, {"out"}) /\ PlanKept(e.out)
  <2>1. DOMAIN a = Fields
    BY <1>6 DEF Same
  <2>2. Same(e, a, {"out"}) /\ e.out = Append(a.out, c)
    BY <2>1, EmitIs
  <2> HIDE DEF e
  <2>3. PlanKept(e.out)
    BY <1>5, <1>6, <2>2, PlanGoesOn
  <2> QED BY <2>2, <2>3
<1> HIDE DEF e
<1>8. Same(e, NoImage, {"out", "size"}) /\ e.size = PageSize
  <2>1. 0 + 1 * PageSize = PageSize
    BY Sizes
  <2> QED BY <1>4, <1>6, <1>7, <2>1 DEF Same, Fields
<1>9. /\ Same(w, NoImage, {"out", "size", "pages", "tocpages", "head"}) /\ w.out = e.out /\ w.size = PageSize
      /\ w.pages = <<pagedata("toc", 0)>> /\ w.tocpages = <<0>> /\ w.head = HeadSize + 1
  BY <1>1, <1>8 DEF Same, Fields
<1>10. /\ DOMAIN w = Fields /\ w.freespace = [t \in PageTypes |-> <<>>] /\ w.bindings = <<>>
       /\ w.mappings = <<>> /\ w.allocs = <<>> /\ w.maps = 0 /\ w.regions = {}
  BY <1>2, <1>9 DEF Same, Fields
<1>11. PlanKept(w.out)
  BY <1>7, <1>9
<1>12. pagedata("toc", 0) \in PageData /\ pagedata("toc", 0).type = "toc"
  BY Sizes DEF pagedata, PageData, PageTypes
<1>13. w.pages \in Seq(PageData) /\ Len(w.pages) = 1 /\ w.pages[1] = pagedata("toc", 0)
  BY <1>9, <1>12
<1>14. Listed(w, 0) /\ PageOf(w, 0).type = "toc"
  BY <1>12, <1>13 DEF Listed, PageOf
<1>15. TableKept(w, 0)
  <2>1. w.size = (Len(w.pages) + 0) * PageSize
    <3>1. (1 + 0) * PageSize = PageSize
      BY Sizes
    <3> QED BY <1>9, <1>13, <3>1
  <2>2. /\ w.tocpages \in Seq(Nat) /\ w.tocpages # <<>> /\ w.tocpages[1] = 0
        /\ \A i \in DOMAIN w.tocpages : w.tocpages[i] = 0
    BY <1>9
  <2>3. w.head \in Nat /\ restInPage(w.head) >= LinkSize
    <3>1. HeadSize + 1 \in Nat /\ HeadSize + 1 < PageSize
      BY Sizes
    <3>2. PICK h \in Nat : h = HeadSize + 1
      BY <3>1
    <3>3. (0 * PageSize + h) % PageSize = h /\ 0 * PageSize + h = h
      BY <3>1, <3>2, PagePlus, Sizes
    <3>4. restInPage(h) = PageSize - h
      BY <3>3 DEF restInPage
    <3> QED BY <1>9, <3>2, <3>4, Sizes
  <2> QED BY <1>13, <1>14, <2>1, <2>2, <2>3 DEF TableKept
<1>16. IndexKept(w)
  <2>1. <<>> \in Seq(Nat) /\ Len(<<>>) = 0 /\ DOMAIN <<>> = {}
    OBVIOUS
  <2>2. \A t \in PageTypes : w.freespace[t] = <<>>
    BY <1>10
  <2>3. w.freespace \in [PageTypes -> Seq(Nat)]
    BY <1>10, <2>1
  <2> QED BY <2>1, <2>2, <2>3, Sizes DEF IndexKept
<1>17. SpaceKept(w)
  BY <1>10 DEF SpaceKept
<1>18. DOMAIN w.mappings = {} /\ DOMAIN w.allocs = {}
  BY <1>10
<1>19. MapsKept(w)
  BY <1>10, <1>18 DEF MapsKept
<1>20. FileKept(w)
  BY <1>10, <1>11, <1>15, <1>16, <1>17 DEF FileKept
<1> QED BY <1>9, <1>10, <1>14, <1>18, <1>19, <1>20 DEF w

\* A page is one page (pageCount, file.C:141).
LEMMA PageCountOfPage == pageCount(PageSize) = 1
<1>1. (1 * PageSize + 0) \div PageSize = 1 /\ (1 * PageSize + 0) % PageSize = 0 /\ 1 * PageSize + 0 = PageSize
  BY PagePlus, Sizes
<1> QED BY <1>1 DEF pageCount

\* A new file is mapped from end to end (openFile, file.C:824).
LEMMA OpenNewKept ==
  LET w == openFile(<<>>)
  IN  Kept(w) /\ w.regions = {} /\ w.bindings = <<>>
<1> DEFINE u == createFile
           m == mappedFileRegion(u, 0, 1)
           r == mapFileData(u, 0, PageSize)
           n == RoundUp(1 + (0 - 0), MapPages)
           w == openFile(<<>>)
<1>1. /\ FileKept(u) /\ MapsKept(u) /\ u.size = PageSize /\ u.regions = {} /\ u.bindings = <<>>
      /\ DOMAIN u.mappings = {} /\ Listed(u, 0) /\ DOMAIN u = Fields
  BY NewFileKept DEF FileKept
<1>2. w = r.w
  <2>1. DOMAIN <<>> = {}
    OBVIOUS
  <2> QED BY <1>1, <2>1 DEF openFile
<1> HIDE DEF u, w
<1>3. r = MapPosition(m, 0, PageSize)
  <2>1. (0 * PageSize + 0) \div PageSize = 0 /\ 0 * PageSize + 0 = 0
    BY PagePlus, Sizes
  <2> QED BY <2>1, PageCountOfPage DEF mapFileData
<1>4. m = NewMap(u, 0, n)
  <2>1. LastEnd(u, 0) = 0
    BY <1>1 DEF LastEnd
  <2>2. Min({0, 0}) = 0
    <3>1. {0, 0} \in SUBSET Nat /\ {0, 0} # {}
      OBVIOUS
    <3> QED BY <3>1, MinIs
  <2>3. ~\E k \in {j \in DOMAIN u.mappings : j <= 0} :
          k = Max({j \in DOMAIN u.mappings : j <= 0}) /\ 0 + 1 <= k + u.mappings[k].pages
    BY <1>1
  <2> QED BY <2>1, <2>2, <2>3 DEF mappedFileRegion, createFileRegionMap, MapFrom
<1>5. n \in Nat \ {0}
  <2>1. 1 + (0 - 0) = 1 /\ 1 \in Nat
    OBVIOUS
  <2>2. RoundUp(1, MapPages) \in Nat /\ 1 <= RoundUp(1, MapPages)
    BY <2>1, RoundUpIs
  <2> QED BY <2>1, <2>2
<1> HIDE DEF n, m, r
<1>6. Fits(u, 0, n)
  BY <1>1 DEF Fits
<1>7. /\ DOMAIN m = {"w", "base"} /\ m.base = 0
      /\ Same(m.w, u, {"mappings", "maps"}) /\ MapsKept(m.w)
      /\ 0 \in DOMAIN m.w.mappings /\ m.w.mappings[0].pages = n
  BY <1>1, <1>4, <1>5, <1>6, NewMapKeeps
<1>8. MapPosition(m, 0, PageSize) = MapPosition([w |-> m.w, base |-> 0], 0, PageSize)
  BY <1>7 DEF MapPosition, MapInRegion
<1>9. 0 + PageSize <= (0 + n) * PageSize
  <2>1. 1 * PageSize <= n * PageSize
    BY <1>5, TimesOrder
  <2>2. 1 * PageSize = PageSize /\ 0 + n = n /\ 0 + PageSize = PageSize
    BY <1>5, Sizes
  <2> QED BY <2>1, <2>2
<1>10. Same(r.w, m.w, {"mappings", "allocs"}) /\ MapsKept(r.w)
  <2> DEFINE x == m.w
  <2>1. /\ DOMAIN x = Fields /\ MapsKept(x) /\ 0 \in DOMAIN x.mappings
        /\ 0 + PageSize <= (0 + x.mappings[0].pages) * PageSize
    BY <1>7, <1>9 DEF Same
  <2> HIDE DEF x
  <2>2. LET y == MapPosition([w |-> x, base |-> 0], 0, PageSize)
        IN  Same(y.w, x, {"mappings", "allocs"}) /\ MapsKept(y.w)
    BY <2>1, Sizes, MapInKeeps
  <2> QED BY <1>3, <1>8, <2>2 DEF x
<1>11. /\ Same(r.w, u, {"mappings", "allocs", "maps"}) /\ r.w.regions = {} /\ r.w.bindings = <<>>
       /\ r.w.out = u.out
  BY <1>1, <1>7, <1>10 DEF Same, Fields
<1>12. Same(r.w, u, {"mappings", "allocs", "maps", "bindings", "out"})
  BY <1>11 DEF Same
<1>13. Kept(r.w)
  BY <1>1, <1>10, <1>11, <1>12, FileMoves, KeptIs DEF FileKept
<1> QED BY <1>2, <1>11, <1>13 DEF w

(***************************************************************************)
(* The invariant, and the steps that keep it                               *)
(***************************************************************************)

\* The file has had only one writer: hog's file is never continued, a program's is
\* when it opens it again after its process ended.
NotContinued == ~(client = "series" /\ kills > 0)

\* The series that the program keeps.
SeriesCount == IF client = "series" THEN 1 ELSE Stmts + 1

\* There is no file yet.
Untouched == image = NoImage /\ disk = <<>> /\ todo = <<>>

\* The file has a writer, whose memory and series are sound.
WrittenOn == Kept(image) /\ image.out = <<>> /\ StreamsOK(image, streams, SeriesCount)

\* What holds of the file and of its writer's memory in every state,
FileInv ==
  /\ \E n \in Nat : DOMAIN disk = 0 .. n - 1
  /\ PlanKept(todo)
  /\ streams = <<>> => Untouched
  /\ streams # <<>> => WrittenOn

\* of the process,
ProcessInv ==
  /\ client \in Clients
  /\ up \in BOOLEAN /\ published \in BOOLEAN /\ unsound \in BOOLEAN /\ overfull \in BOOLEAN
  /\ values \in 0 .. MaxValues /\ kills \in 0 .. MaxKills + 1
  /\ kills = 0 => up
  /\ up => kills <= MaxKills

\* and of both: the inductive invariant.
SessionInv == ProcessInv /\ (NotContinued => FileInv)

\* No change is a plan.
LEMMA EmptyPlan == PlanKept(<<>>)
<1>1. <<>> \in Seq({})
  OBVIOUS
<1>2. \A c \in {} : IsChange(c)
  OBVIOUS
<1>3. PICK T, out : T = {} /\ out = <<>>
  OBVIOUS
<1>4. out \in Seq(T) /\ \A c \in T : IsChange(c)
  BY <1>1, <1>2, <1>3
<1>5. PlanKept(out)
  BY <1>4 DEF PlanKept
<1> QED BY <1>3, <1>5

\* A call's changes are taken out of the memory, to be made one at a time.
LEMMA TakeKeeps ==
  ASSUME NEW w, Kept(w)
  PROVE  LET v == [w EXCEPT !.out = <<>>]
         IN  Kept(v) /\ v.out = <<>> /\ v.regions = w.regions /\ v.bindings = w.bindings /\ PlanKept(w.out)
<1> DEFINE v == [w EXCEPT !.out = <<>>]
<1>1. FileKept(w) /\ MapsKept(w) /\ DOMAIN w = Fields /\ PlanKept(w.out)
  BY KeptIs DEF FileKept
<1>2. Same(v, w, {"out"}) /\ v.out = <<>>
  BY <1>1 DEF Same, Fields
<1> HIDE DEF v
<1>3. PlanKept(v.out)
  BY <1>2, EmptyPlan
<1>4. /\ Same(v, w, {"mappings", "allocs", "maps", "bindings", "out"}) /\ Same(v, w, {"bindings", "out"})
      /\ v.regions = w.regions /\ v.bindings = w.bindings
  BY <1>2 DEF Same, Fields
<1>5. Kept(v)
  BY <1>1, <1>3, <1>4, FileMoves, MapsMove, KeptIs
<1> QED BY <1>1, <1>2, <1>4, <1>5 DEF v

\* The numbers that the assumption on the constants gives.
LEMMA Counts ==
  ASSUME client \in Clients
  PROVE  /\ SeriesCount \in Nat /\ SeriesCount >= 1 /\ Stmts \in Nat
         /\ client # "series" => SeriesCount = Stmts + 1
         /\ MaxValues \in Nat /\ MaxKills \in Nat /\ MaxTurns \in Nat /\ MaxTurns <= MaxValues
BY SessionConstants DEF SeriesCount

\* A program has at least one series.
LEMMA NotEmpty ==
  ASSUME NEW w, NEW ss, NEW n \in Nat, n >= 1, StreamsOK(w, ss, n)
  PROVE  ss # <<>>
BY DEF StreamsOK

\* The invariant holds at first.
LEMMA InitInv == Init => SessionInv
<1> SUFFICES ASSUME Init PROVE SessionInv
  OBVIOUS
<1>1. ProcessInv
  <2>1. /\ client \in Clients /\ up = TRUE /\ published = FALSE /\ values = 0 /\ kills = 0
        /\ unsound = FALSE /\ overfull = FALSE
    BY DEF Init
  <2>2. 0 \in 0 .. MaxValues /\ 0 \in 0 .. MaxKills + 1 /\ 0 <= MaxKills
    BY <2>1, Counts
  <2> QED BY <2>1, <2>2 DEF ProcessInv
<1>2. FileInv
  <2>1. DOMAIN <<>> = 0 .. 0 - 1
    OBVIOUS
  <2> QED BY <2>1, EmptyPlan DEF Init, FileInv, Untouched
<1> QED BY <1>1, <1>2 DEF SessionInv

\* A call that is planned from what the memory was keeps the invariant.
LEMMA CallKeeps ==
  ASSUME NEW w, Kept(w), NEW ss, StreamsOK(w, ss, SeriesCount), ProcessInv, FileInv,
         image' = [w EXCEPT !.out = <<>>], todo' = w.out, streams' = ss, disk' = disk, client' = client
  PROVE  FileInv'
<1> DEFINE v == [w EXCEPT !.out = <<>>]
<1>1. Kept(v) /\ v.out = <<>> /\ v.regions = w.regions /\ PlanKept(w.out)
  BY TakeKeeps
<1>2. image' = v
  OBVIOUS
<1> HIDE DEF v
<1>3. StreamsOK(v, ss, SeriesCount)
  BY <1>1, StreamsStay
<1>4. SeriesCount' = SeriesCount
  BY DEF SeriesCount
<1>5. WrittenOn'
  BY <1>1, <1>2, <1>3, <1>4 DEF WrittenOn
<1>6. streams' # <<>>
  BY Counts, NotEmpty DEF ProcessInv
<1>7. (\E n \in Nat : DOMAIN disk = 0 .. n - 1)'
  BY DEF FileInv
<1>8. PlanKept(todo')
  BY <1>1
<1> QED BY <1>5, <1>6, <1>7, <1>8 DEF FileInv

\* Preparing a log file (initStorageSession, session.C:104) keeps the invariant.
LEMMA InitSessionKeeps ==
  ASSUME SessionInv, initStorageSession
  PROVE  SessionInv'
<1>1. ProcessInv'
  BY DEF SessionInv, ProcessInv, initStorageSession, opened
<1>2. SUFFICES ASSUME NotContinued' PROVE FileInv'
  BY <1>1 DEF SessionInv
<1>3. NotContinued /\ FileInv /\ ProcessInv
  BY <1>2 DEF SessionInv, NotContinued, initStorageSession
<1>4. streams = <<>> /\ disk = <<>> /\ client # "series" /\ client' = client /\ disk' = disk
  BY <1>3 DEF FileInv, Untouched, initStorageSession
<1>5. SeriesCount \in Nat /\ SeriesCount = Stmts + 1
  BY <1>3, <1>4, Counts DEF ProcessInv
<1> DEFINE new == openFile(<<>>)
           x == StartSeries(new, Stmts + 1)
           b == StoreStatements(x.w)
           w == Emit(b, [op |-> "publish"])
<1>6. Kept(new) /\ new.bindings = <<>>
  BY OpenNewKept
<1>7. image' = [w EXCEPT !.out = <<>>] /\ todo' = w.out /\ streams' = x.ss
  BY DEF initStorageSession, Take
<1> HIDE DEF new
<1>8. Started(x, new, SeriesCount)
  BY <1>5, <1>6, StartKeeps
<1> HIDE DEF x
<1>9. Goes(b, x.w)
  BY <1>8, StatementsKeep DEF Started, Goes
<1> HIDE DEF b
<1>10. Stays(w, b)
  <2>1. IsChange([op |-> "publish"])
    BY DEF IsChange
  <2> QED BY <1>9, <2>1, EmitKeeps DEF Goes
<1> HIDE DEF w
<1>11. Kept(w) /\ StreamsOK(w, x.ss, SeriesCount)
  BY <1>8, <1>9, <1>10, StreamsStay DEF Started, Stays, Goes
<1> QED BY <1>3, <1>4, <1>7, <1>11, CallKeeps

\* A transaction of a producer (session.C:173) keeps the invariant.
LEMMA TxnStepKeeps ==
  ASSUME SessionInv, NEW turns \in Txns, ProcessTxn(turns)
  PROVE  SessionInv'
<1>1. /\ streams # <<>> /\ client # "series" /\ client' = client /\ disk' = disk /\ kills' = kills
      /\ up' = up /\ published' = published /\ values + Len(turns) <= MaxTurns
      /\ values' = values + Len(turns) /\ unsound' = unsound /\ overfull' = overfull
  BY DEF ProcessTxn, opened
<1>2. PICK m \in Nat : Len(turns) = m /\ \A i \in 1 .. m : turns[i] \in Turns
  <2>1. PICK n \in 1 .. MaxTxn : turns \in [1 .. n -> Turns]
    BY DEF Txns
  <2>2. Len(turns) = n
    BY <2>1
  <2> QED BY <2>1, <2>2
<1>3. ProcessInv /\ NotContinued /\ FileInv /\ WrittenOn /\ NotContinued'
  BY <1>1 DEF SessionInv, NotContinued, FileInv
<1>4. SeriesCount \in Nat /\ SeriesCount = Stmts + 1 /\ values \in Nat /\ Stmts \in Nat
  BY <1>1, <1>3, Counts DEF ProcessInv
<1> DEFINE v0 == [w |-> image, ss |-> streams, n |-> Logged(after), held |-> after, txn |-> <<>>]
           v == Txn(v0, turns)
           w == signalUpdate(v.w)
<1>5. image' = [w EXCEPT !.out = <<>>] /\ todo' = w.out /\ streams' = v.ss
  BY DEF ProcessTxn, Take
<1>6. InTxn(v0, image, SeriesCount)
  <2>1. Goes(image, image)
    BY <1>3 DEF Goes, WrittenOn
  <2>2. <<>> \in Seq({})
    OBVIOUS
  <2> QED BY <1>3, <2>1, <2>2 DEF InTxn, WrittenOn
<1> HIDE DEF v0
<1>7. InTxn(v, image, SeriesCount)
  <2>1. log = SeriesCount
    BY <1>3 DEF log, WrittenOn, StreamsOK
  <2>2. PICK n \in Nat : n = SeriesCount /\ n = Stmts + 1
    BY <1>4
  <2>3. InTxn(v, image, n)
    BY <1>2, <1>4, <1>6, <2>1, <2>2, TxnKeeps
  <2> QED BY <2>2, <2>3
<1> HIDE DEF v
<1>8. Stays(w, v.w)
  BY <1>7, WriteKeeps DEF signalUpdate, InTxn, Goes
<1> HIDE DEF w
<1>9. Kept(w) /\ StreamsOK(w, v.ss, SeriesCount)
  BY <1>7, <1>8, StreamsStay DEF InTxn, Stays, Goes
<1>10. FileInv'
  BY <1>1, <1>3, <1>5, <1>9, CallKeeps
<1>11. values' \in 0 .. MaxValues
  BY <1>1, <1>2, <1>3, <1>4, Counts DEF ProcessInv
<1>12. ProcessInv'
  BY <1>1, <1>3, <1>11 DEF ProcessInv
<1> QED BY <1>10, <1>12 DEF SessionInv

\* The one series of a program.
LEMMA OneStream ==
  ASSUME NEW w, NEW s, SeriesOK(w, s)
  PROVE  StreamsOK(w, <<s>>, 1)
<1>1. <<s>> \in Seq({s}) /\ Len(<<s>>) = 1 /\ <<s>>[1] = s
  OBVIOUS
<1>2. \E S : <<s>> \in Seq(S)
  BY <1>1
<1>3. \A i \in 1 .. 1 : SeriesOK(w, <<s>>[i])
  BY <1>1
<1> QED BY <1>1, <1>2, <1>3 DEF StreamsOK

\* The program's first start (series.C:102) keeps the invariant; a later one
\* continues the file.
LEMMA OpenProgramKeeps ==
  ASSUME SessionInv, OpenProgram
  PROVE  SessionInv'
<1>1. ProcessInv'
  <2>1. /\ client' = client /\ published' = published /\ values' = values /\ kills' = kills
        /\ up' = TRUE /\ kills <= MaxKills
        /\ unsound' = (unsound \/ ~Sound(disk)) /\ overfull' = (overfull \/ Full(disk, openFile(disk)))
    BY DEF OpenProgram
  <2>2. unsound' \in BOOLEAN /\ overfull' \in BOOLEAN
    BY <2>1
  <2> QED BY <2>1, <2>2 DEF SessionInv, ProcessInv
<1>2. SUFFICES ASSUME NotContinued' PROVE FileInv'
  BY <1>1 DEF SessionInv
<1>3. /\ client = "series" /\ client' = client /\ disk' = disk /\ kills' = kills
      /\ (~up \/ streams = <<>>)
  BY DEF OpenProgram
<1>4. NotContinued /\ ProcessInv /\ FileInv /\ up
  BY <1>2, <1>3 DEF SessionInv, NotContinued, ProcessInv
<1>5. Untouched
  BY <1>3, <1>4 DEF FileInv
<1>6. SeriesCount = 1
  BY <1>3 DEF SeriesCount
<1> DEFINE new == openFile(<<>>)
           w0 == [openFile(disk) EXCEPT !.regions = GivenBefore]
           o == OpenSeries(w0, SeriesName(1), disk)
<1>7. image' = [o.w EXCEPT !.out = <<>>] /\ todo' = o.w.out /\ streams' = <<o.s>>
  BY DEF OpenProgram
<1>8. Kept(new) /\ new.regions = {} /\ new.bindings = <<>>
  BY OpenNewKept
<1>9. w0 = [new EXCEPT !.regions = {}]
  <2>1. GivenBefore = {}
    BY <1>5 DEF Untouched, NoImage, GivenBefore
  <2> QED BY <1>5, <2>1 DEF Untouched
<1> HIDE DEF new, w0
<1>10. Kept(w0) /\ w0.bindings = <<>>
  <2>1. DOMAIN new = Fields
    BY <1>8 DEF Kept
  <2>2. /\ \A F : Same(w0, new, F) /\ w0.out = new.out /\ w0.bindings = new.bindings
    BY <1>8, <1>9, <2>1 DEF Same, Fields
  <2>3. FileKept(new) /\ MapsKept(new) /\ PlanKept(new.out)
    BY <1>8, KeptIs DEF FileKept
  <2>4. FileKept(w0)
    BY <2>2, <2>3, FileMoves
  <2>5. MapsKept(w0)
    BY <2>2, <2>3, MapsMove
  <2> QED BY <1>8, <2>2, <2>4, <2>5, KeptIs
<1>11. /\ DOMAIN o = {"w", "s"} /\ Goes(o.w, w0) /\ SeriesOK(o.w, o.s)
  <2>1. SeriesName(1) \notin DOMAIN w0.bindings
    BY <1>8, <1>10
  <2> QED BY <1>8, <1>10, <2>1, OpenKeeps
<1> HIDE DEF o
<1>12. StreamsOK(o.w, <<o.s>>, SeriesCount)
  BY <1>6, <1>11, OneStream
<1> QED BY <1>3, <1>4, <1>7, <1>11, <1>12, CallKeeps DEF Goes

\* Recording a value (series.C:139) keeps the invariant.
LEMMA RecordStepKeeps ==
  ASSUME SessionInv, Record
  PROVE  SessionInv'
<1>1. /\ streams # <<>> /\ client = "series" /\ client' = client /\ disk' = disk /\ kills' = kills
      /\ up' = up /\ published' = published /\ values < MaxValues /\ values' = values + 1
      /\ unsound' = unsound /\ overfull' = overfull
  BY DEF Record, opened
<1>2. ProcessInv'
  BY <1>1, Counts DEF SessionInv, ProcessInv
<1>3. SUFFICES ASSUME NotContinued' PROVE FileInv'
  BY <1>2 DEF SessionInv
<1>4. NotContinued /\ ProcessInv /\ FileInv /\ WrittenOn
  BY <1>1, <1>3 DEF SessionInv, NotContinued, FileInv
<1>5. SeriesCount = 1
  BY <1>1 DEF SeriesCount
<1> DEFINE r == record(image, streams[1], ValueCell(1, values + 1))
           w == signalUpdate(r.w)
<1>6. image' = [w EXCEPT !.out = <<>>] /\ todo' = w.out /\ streams' = <<r.s>>
  BY DEF Record, Take
<1>7. SeriesOK(image, streams[1]) /\ Kept(image)
  BY <1>4, <1>5 DEF WrittenOn, StreamsOK
<1>8. Stays(r.w, image) /\ SeriesOK(r.w, r.s)
  BY <1>7, RecordKeeps
<1> HIDE DEF r
<1>9. Stays(w, r.w)
  BY <1>8, WriteKeeps DEF signalUpdate, Stays, Goes
<1> HIDE DEF w
<1>10. Kept(w) /\ StreamsOK(w, <<r.s>>, SeriesCount)
  BY <1>5, <1>8, <1>9, OneStream, SeriesStays DEF Stays, Goes
<1> QED BY <1>1, <1>4, <1>6, <1>10, CallKeeps

\* Clearing the series (series.C:131) keeps the invariant.
LEMMA ClearStepKeeps ==
  ASSUME SessionInv, Clear
  PROVE  SessionInv'
<1>1. /\ streams # <<>> /\ client = "series" /\ client' = client /\ disk' = disk /\ kills' = kills
      /\ up' = up /\ published' = published /\ values < MaxValues /\ values' = values + 1
      /\ unsound' = unsound /\ overfull' = overfull
  BY DEF Clear, opened
<1>2. ProcessInv'
  BY <1>1, Counts DEF SessionInv, ProcessInv
<1>3. SUFFICES ASSUME NotContinued' PROVE FileInv'
  BY <1>2 DEF SessionInv
<1>4. NotContinued /\ ProcessInv /\ FileInv /\ WrittenOn
  BY <1>1, <1>3 DEF SessionInv, NotContinued, FileInv
<1>5. SeriesCount = 1
  BY <1>1 DEF SeriesCount
<1> DEFINE r == clear(image, streams[1])
           w == signalUpdate(r.w)
<1>6. image' = [w EXCEPT !.out = <<>>] /\ todo' = w.out /\ streams' = <<r.s>>
  BY DEF Clear, Take
<1>7. SeriesOK(image, streams[1]) /\ Kept(image)
  BY <1>4, <1>5 DEF WrittenOn, StreamsOK
<1>8. Stays(r.w, image) /\ SeriesOK(r.w, r.s)
  <2>1. r = ConsFresh(image, streams[1])
    BY DEF clear
  <2> HIDE DEF r
  <2> QED BY <1>7, <2>1, FreshKeeps DEF SeriesOK
<1> HIDE DEF r
<1>9. Stays(w, r.w)
  BY <1>8, WriteKeeps DEF signalUpdate, Stays, Goes
<1> HIDE DEF w
<1>10. Kept(w) /\ StreamsOK(w, <<r.s>>, SeriesCount)
  BY <1>5, <1>8, <1>9, OneStream, SeriesStays DEF Stays, Goes
<1> QED BY <1>1, <1>4, <1>6, <1>10, CallKeeps

\* Defining another value (writer::allocNamed, file.C:1141) keeps the invariant.
LEMMA DefineStepKeeps ==
  ASSUME SessionInv, Define
  PROVE  SessionInv'
<1>1. /\ streams # <<>> /\ client = "series" /\ client' = client /\ disk' = disk /\ kills' = kills
      /\ up' = up /\ published' = published /\ values' = values /\ streams' = streams
      /\ unsound' = unsound /\ overfull' = overfull
  BY DEF Define, opened
<1>2. ProcessInv'
  BY <1>1 DEF SessionInv, ProcessInv
<1>3. SUFFICES ASSUME NotContinued' PROVE FileInv'
  BY <1>2 DEF SessionInv
<1>4. NotContinued /\ ProcessInv /\ FileInv /\ WrittenOn
  BY <1>1, <1>3 DEF SessionInv, NotContinued, FileInv
<1> DEFINE w == allocNamed(image, OtherName, OtherSize, WordAlign).w
<1>5. image' = [w EXCEPT !.out = <<>>] /\ todo' = w.out
  BY DEF Define, Take
<1>6. OtherSize \in Nat \ {0} /\ WordAlign \in Nat \ {0}
  BY SessionConstants DEF WordAlign
<1>7. Goes(w, image)
  BY <1>4, <1>6, NamedKeeps DEF WrittenOn
<1> HIDE DEF w
<1>8. Kept(w) /\ StreamsOK(w, streams, SeriesCount)
  BY <1>4, <1>7, StreamsStay DEF WrittenOn, Goes
<1> QED BY <1>1, <1>4, <1>5, <1>8, CallKeeps

\* A change to the file, the next one of the plan, keeps the invariant.
LEMMA FlushKeeps ==
  ASSUME SessionInv, Flush
  PROVE  SessionInv'
<1>1. /\ up /\ todo # <<>> /\ client' = client /\ image' = image /\ streams' = streams
      /\ todo' = AfterFirst /\ values' = values /\ unsound' = unsound /\ overfull' = overfull
  BY DEF Flush, opened
<1>2. published' \in BOOLEAN
  BY DEF Flush, SessionInv, ProcessInv
<1>3. /\ kills' \in 0 .. MaxKills + 1 /\ up' \in BOOLEAN /\ kills <= kills'
      /\ kills' = 0 => up'
      /\ up' => kills' <= MaxKills
  <2>1. kills \in 0 .. MaxKills + 1 /\ kills <= MaxKills /\ MaxKills \in Nat
    BY <1>1, Counts DEF SessionInv, ProcessInv
  <2>2. CASE InFile(Head(todo))
    <3>1. up' = TRUE /\ kills' = kills
      BY <2>2 DEF Flush
    <3> QED BY <2>1, <3>1
  <2>3. CASE ~InFile(Head(todo))
    <3>1. up' = FALSE /\ kills' = kills + 1
      BY <2>3 DEF Flush
    <3>2. kills + 1 \in 0 .. MaxKills + 1 /\ kills + 1 # 0 /\ kills <= kills + 1
      BY <2>1
    <3> QED BY <3>1, <3>2
  <2> QED BY <2>2, <2>3
<1>4. ProcessInv'
  BY <1>1, <1>2, <1>3 DEF SessionInv, ProcessInv
<1>5. SUFFICES ASSUME NotContinued' PROVE FileInv'
  BY <1>4 DEF SessionInv
<1>6. NotContinued /\ ProcessInv /\ FileInv
  <2>1. ProcessInv /\ kills \in Int /\ kills' \in Int /\ kills <= kills'
    BY <1>3, Counts DEF SessionInv, ProcessInv
  <2>2. NotContinued
    BY <1>1, <1>5, <2>1 DEF NotContinued
  <2> QED BY <2>1, <2>2 DEF SessionInv
<1>7. streams # <<>> /\ WrittenOn
  BY <1>1, <1>6 DEF FileInv, Untouched
<1>8. PICK S : todo \in Seq(S) /\ \A c \in S : IsChange(c)
  BY <1>6 DEF FileInv, PlanKept
<1>9. Head(todo) \in S /\ PlanKept(todo')
  <2>1. PICK t \in Seq(S) : t = todo /\ t # <<>>
    BY <1>1, <1>8
  <2>2. Tail(t) \in Seq(S) /\ Head(t) \in S
    BY <2>1
  <2>3. Len(t) >= 2 => SubSeq(t, 3, Len(t)) \in Seq(S)
    BY <2>1
  <2>4. todo' \in Seq(S)
    BY <1>1, <2>1, <2>2, <2>3 DEF AfterFirst
  <2> QED BY <1>8, <2>1, <2>2, <2>4 DEF PlanKept
<1>10. \E n \in Nat : DOMAIN disk' = 0 .. n - 1
  <2>1. PICK n \in Nat : DOMAIN disk = 0 .. n - 1
    BY <1>6 DEF FileInv
  <2>2. CASE Head(todo).op \in {"publish", "given"}
    BY <2>1, <2>2 DEF Flush
  <2>3. CASE Head(todo).op \notin {"publish", "given"}
    <3> DEFINE c == Head(todo)
    <3>1. disk' = Apply(disk, c)
      BY <2>3 DEF Flush
    <3>2. IsChange(c)
      BY <1>8, <1>9
    <3> HIDE DEF c
    <3>3. CASE c.op = "grow"
      <4>1. c.pages \in Nat
        BY <3>2, <3>3 DEF IsChange
      <4>2. Cardinality(DOMAIN disk) = n
        BY <2>1, FS_Interval
      <4>3. PICK more \in Nat : more = c.pages * PageSize
        <5>1. \A a, b \in Nat : a * b \in Nat
          OBVIOUS
        <5> QED BY <4>1, <5>1, Sizes
      <4>4. DOMAIN Apply(disk, c) = 0 .. (n + more) - 1
        <5>1. Apply(disk, c) =
                [i \in 0 .. Cardinality(DOMAIN disk) + c.pages * PageSize - 1 |->
                   IF i \in DOMAIN disk THEN disk[i] ELSE Zero]
          BY <3>3 DEF Apply
        <5>2. PICK m : m = Cardinality(DOMAIN disk) + c.pages * PageSize - 1
          OBVIOUS
        <5>3. m = n + more - 1
          <6>1. m = n + more - 1
            BY <4>2, <4>3, <5>2, Zenon
          <6> QED BY <6>1
        <5>4. Apply(disk, c) = [i \in 0 .. m |-> IF i \in DOMAIN disk THEN disk[i] ELSE Zero]
          BY <5>1, <5>2, Zenon
        <5>5. DOMAIN Apply(disk, c) = 0 .. m
          BY <5>4, Zenon
        <5> QED BY <5>3, <5>5
      <4>5. n + more \in Nat
        OBVIOUS
      <4> QED BY <3>1, <4>4, <4>5
    <3>4. CASE c.op # "grow"
      <4>1. DOMAIN Apply(disk, c) = DOMAIN disk
        BY <3>4 DEF Apply
      <4> QED BY <2>1, <3>1, <4>1
    <3> QED BY <3>3, <3>4
  <2> QED BY <2>2, <2>3
<1>11. WrittenOn'
  BY <1>1, <1>7 DEF WrittenOn, SeriesCount
<1> QED BY <1>1, <1>7, <1>9, <1>10, <1>11 DEF FileInv

\* The end of the process keeps the invariant: a program's file is continued after
\* it, and hog's is not.
LEMMA KillKeeps ==
  ASSUME SessionInv, Kill
  PROVE  SessionInv'
<1>1. /\ kills < MaxKills /\ up' = FALSE /\ kills' = kills + 1 /\ client' = client /\ disk' = disk
      /\ image' = image /\ streams' = streams /\ todo' = todo /\ published' = published /\ values' = values
      /\ unsound' = unsound /\ overfull' = overfull
  BY DEF Kill, opened
<1>2. ProcessInv'
  <2>1. ProcessInv /\ MaxKills \in Nat
    BY Counts DEF SessionInv, ProcessInv
  <2>2. kills' \in 0 .. MaxKills + 1 /\ kills' # 0
    BY <1>1, <2>1 DEF ProcessInv
  <2> QED BY <1>1, <2>1, <2>2 DEF ProcessInv
<1>3. SUFFICES ASSUME NotContinued' PROVE FileInv'
  BY <1>2 DEF SessionInv
<1>4. kills \in Nat /\ FileInv
  BY <1>1, <1>3, Counts DEF SessionInv, ProcessInv, NotContinued
<1> QED BY <1>1, <1>4 DEF FileInv, Untouched, WrittenOn, SeriesCount

\* Every step keeps the invariant.
LEMMA NextKeeps ==
  ASSUME SessionInv, [Next]_vars
  PROVE  SessionInv'
<1>1. CASE UNCHANGED vars
  BY <1>1 DEF vars, SessionInv, ProcessInv, NotContinued, FileInv, Untouched, WrittenOn, SeriesCount
<1>2. CASE Next
  BY <1>2, InitSessionKeeps, TxnStepKeeps, OpenProgramKeeps, RecordStepKeeps, ClearStepKeeps,
     DefineStepKeeps, FlushKeeps, KillKeeps DEF Next
<1> QED BY <1>1, <1>2

\* The inductive invariant, for every size of page, header, link and batch, and
\* every number of statements and values: the page table, the index of free space,
\* the regions and the maps that file.C keeps agree with each other after every
\* call of a writer.
THEOREM SessionInvariant == Spec => []SessionInv
<1>1. Init => SessionInv
  BY InitInv
<1>2. SessionInv /\ [Next]_vars => SessionInv'
  BY NextKeeps
<1> QED BY <1>1, <1>2, PTL DEF Spec

\* findSpace (file.C:454) never gives the same bytes out twice, whichever page its
\* index offers, and however the table grew meanwhile: for every file that has had
\* one writer.
THEOREM SpaceGivenOnce == Spec => [](NotContinued => RegionsDisjoint)
<1>1. SessionInv => (NotContinued => RegionsDisjoint)
  <2> SUFFICES ASSUME SessionInv, NotContinued PROVE RegionsDisjoint
    OBVIOUS
  <2>1. FileInv
    BY DEF SessionInv
  <2>2. CASE streams = <<>>
    <3>1. image.regions = {}
      BY <2>1, <2>2 DEF FileInv, Untouched, NoImage
    <3> QED BY <3>1 DEF RegionsDisjoint, RegionsApart
  <2>3. CASE streams # <<>>
    <3>1. FileKept(image)
      BY <2>1, <2>3, KeptIs DEF FileInv, WrittenOn
    <3> DEFINE TocCells == UNION {p * PageSize .. (p + 1) * PageSize - 1 : p \in Range(image.tocpages)}
    <3>2. \A r \in image.regions : r.at \in Nat /\ r.len \in Nat
      BY <3>1 DEF FileKept, SpaceKept
    <3>3. ASSUME NEW r \in image.regions
          PROVE  r.at + r.len <= image.size
      BY <3>1 DEF FileKept, SpaceKept
    <3>4. ASSUME NEW r \in image.regions
          PROVE  Cells(r) \cap TocCells = {}
      <4> SUFFICES ASSUME NEW c \in Cells(r), c \in TocCells PROVE FALSE
        OBVIOUS
      <4>1. PICK p \in Range(image.tocpages) : c \in p * PageSize .. (p + 1) * PageSize - 1
        OBVIOUS
      <4>2. PICK i \in DOMAIN image.tocpages : p = image.tocpages[i]
        BY DEF Range
      <4>3. Listed(image, p) /\ PageOf(image, p).type = "toc"
        BY <3>1, <4>2 DEF FileKept, TableKept
      <4>4. p \in Nat /\ ApartFrom(image, r, p)
        BY <3>1, <4>3 DEF FileKept, SpaceKept, Listed
      <4>5. PICK x \in Nat, y \in Nat : x = p * PageSize /\ y = (p + 1) * PageSize
        BY <4>4, Sizes
      <4>6. r.at + r.len <= x \/ y <= r.at
        BY <4>3, <4>4, <4>5 DEF ApartFrom, Apart
      <4>7. c \in Int /\ x <= c /\ c <= y - 1
        BY <4>1, <4>5
      <4>8. r.at <= c /\ c <= r.at + r.len - 1
        BY <3>2 DEF Cells
      <4> QED BY <3>2, <4>6, <4>7, <4>8
    <3>5. ASSUME NEW r \in image.regions, NEW q \in image.regions, q # r
          PROVE  Cells(q) \cap Cells(r) = {}
      <4>1. q.at + q.len <= r.at \/ r.at + r.len <= q.at
        BY <3>1, <3>5 DEF FileKept, SpaceKept, Apart
      <4> QED BY <3>2, <4>1 DEF Cells
    <3> QED BY <3>3, <3>4, <3>5 DEF RegionsDisjoint, RegionsApart
  <2> QED BY <2>2, <2>3
<1> QED BY <1>1, SessionInvariant, PTL

\* While a series holds the pointer to its batch, unmapFileData (file.C:626) does
\* not unmap the memory that the pointer is into: for every file that has had one
\* writer.
THEOREM HeldStaysMapped == Spec => [](NotContinued => HeldIsMapped)
<1>1. SessionInv => (NotContinued => HeldIsMapped)
  <2> SUFFICES ASSUME SessionInv, NotContinued PROVE HeldIsMapped
    OBVIOUS
  <2>1. FileInv
    BY DEF SessionInv
  <2>2. CASE streams = <<>>
    <3>1. DOMAIN image.allocs = {}
      BY <2>1, <2>2 DEF FileInv, Untouched, NoImage
    <3> QED BY <3>1 DEF HeldIsMapped
  <2>3. CASE streams # <<>>
    <3>1. MapsKept(image)
      BY <2>1, <2>3, KeptIs DEF FileInv, WrittenOn
    <3> QED BY <3>1 DEF HeldIsMapped, MapsKept, PointerKept
  <2> QED BY <2>2, <2>3
<1> QED BY <1>1, SessionInvariant, PTL

\* The index of pages by free space keeps to its bound (file.C:327), and the state
\* of a session its types: for every file that has had one writer.
THEOREM SessionTypes == Spec => [](NotContinued => TypeOK)
<1>1. SessionInv => (NotContinued => TypeOK)
  <2> SUFFICES ASSUME SessionInv, NotContinued PROVE TypeOK
    OBVIOUS
  <2>1. FileInv /\ ProcessInv
    BY DEF SessionInv
  <2>2. DOMAIN disk = 0 .. Cardinality(DOMAIN disk) - 1
    <3>1. PICK n \in Nat : DOMAIN disk = 0 .. n - 1
      BY <2>1 DEF FileInv
    <3>2. Cardinality(0 .. n - 1) = n
      BY FS_Interval
    <3> QED BY <3>1, <3>2
  <2>3. \A i \in DOMAIN todo : todo[i].op \in {"grow", "head", "toc", "link", "update", "given",
          "offset", "size", "name", "type", "value", "count", "publish"}
    <3>1. PICK S : todo \in Seq(S) /\ \A c \in S : IsChange(c)
      BY <2>1 DEF FileInv, PlanKept
    <3>2. \A i \in DOMAIN todo : IsChange(todo[i])
      BY <3>1
    <3> QED BY <3>2 DEF IsChange
  <2>4. /\ image.out = <<>>
        /\ \A i \in DOMAIN image.pages :
             /\ image.pages[i] \in [type : {"null", "toc", "environment", "data"}, free : Nat]
             /\ ~unsound => image.pages[i].free <= PageSize
        /\ \A t \in DOMAIN image.freespace :
             /\ Len(image.freespace[t]) <= MaxRemembered
             /\ \A i \in DOMAIN image.freespace[t] : PageOf(image, image.freespace[t][i]).type = t
    <3>1. CASE streams = <<>>
      <4>1. image = NoImage
        BY <2>1, <3>1 DEF FileInv, Untouched
      <4>2. image.out = <<>> /\ image.pages = <<>> /\ \A t \in DOMAIN image.freespace : image.freespace[t] = <<>>
        BY <4>1 DEF NoImage
      <4>3. Len(<<>>) = 0 /\ DOMAIN <<>> = {}
        OBVIOUS
      <4> QED BY <4>2, <4>3, Sizes
    <3>2. CASE streams # <<>>
      <4>1. image.out = <<>> /\ FileKept(image)
        BY <2>1, <3>2, KeptIs DEF FileInv, WrittenOn
      <4>2. \A i \in DOMAIN image.pages : image.pages[i] \in PageData
        BY <4>1 DEF FileKept, TableKept
      <4>3. \A i \in DOMAIN image.pages :
              /\ image.pages[i] \in [type : {"null", "toc", "environment", "data"}, free : Nat]
              /\ image.pages[i].free <= PageSize
        BY <4>2, Sizes DEF PageData, PageTypes
      <4>4. DOMAIN image.freespace = PageTypes
        BY <4>1 DEF FileKept, IndexKept
      <4>5. \A t \in DOMAIN image.freespace :
              /\ Len(image.freespace[t]) <= MaxRemembered
              /\ \A i \in DOMAIN image.freespace[t] : PageOf(image, image.freespace[t][i]).type = t
        BY <4>1, <4>4 DEF FileKept, IndexKept, Indexed
      <4> QED BY <4>1, <4>3, <4>5
    <3> QED BY <3>1, <3>2
  <2> QED BY <2>1, <2>2, <2>3, <2>4 DEF TypeOK, ProcessInv
<1> QED BY <1>1, SessionInvariant, PTL
===============================================================================
