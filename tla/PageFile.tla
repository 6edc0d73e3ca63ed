------------------------------- MODULE PageFile -------------------------------
(***************************************************************************)
(* The structured file of src/lib/hobbes/db/file.C: a file of pages of     *)
(* equal size, a page table (the TOC) kept in a chain of its own pages,    *)
(* environment pages that hold the named bindings, and data pages.         *)
(*                                                                         *)
(* Positions and sizes count cells; a page table entry fills one cell.  A  *)
(* writer's memory (struct imagefile) is a record w; every operation maps  *)
(* w to a new w and appends to w.out the changes it makes to the file, in  *)
(* the order in which the code makes them.  The modules above this one     *)
(* apply them to the disk one at a time, so that a crash, or a reader that *)
(* opens the file, can fall between any two.                               *)
(***************************************************************************)
EXTENDS Integers, Sequences, FiniteSets, SequencesExt

CONSTANTS
  HeadSize,       \* cells of the file header (struct filehead)
  LinkSize,       \* cells of the link at the end of a TOC page
  PageSize,       \* cells of a page
  MinFree,        \* minPageSize of insertPageSizeIndex
  MaxRemembered,  \* maxPageMemory of insertPageSizeIndex
  MapPages        \* mmapPageMultiple, in pages

\* A page holds the header, a link and at least one entry, and the first two
\* cells of the header are read as entries when a link is missing.
ASSUME PageFileConstants ==
  /\ {HeadSize, LinkSize, PageSize, MinFree, MaxRemembered, MapPages} \subseteq Nat
  /\ HeadSize >= 2 /\ LinkSize >= 1 /\ MapPages >= 1
  /\ PageSize > HeadSize + LinkSize

\* A file that was never written reads as zeros.
Zero == <<>>

\* The header's magic number, as its first two cells; the rest is not looked at.
HeadCell(i) == <<"head", i>>

pagedata(type, free) == [type |-> type, free |-> free]
PageCell(pd) == <<"page", pd.type, pd.free>>

\* A cell read as a page table entry: 0x10a1db0d, cut into 16 bit entries from
\* its low end, is a data page with 6925 bytes free and then a null entry.
AsPageData(c) ==
  CASE c # Zero /\ c[1] = "page" -> pagedata(c[2], c[3])
    [] c = HeadCell(1) -> pagedata("data", 6925)
    [] OTHER -> pagedata("null", 0)

restInPage(idx) == PageSize - (idx % PageSize)
pageCount(sz) == (sz \div PageSize) + (IF sz % PageSize > 0 THEN 1 ELSE 0)

\* An imagefile before it is created or read.
NoImage ==
  [size |-> 0, head |-> 0, tocpages |-> <<>>, pages |-> <<>>,
   freespace |-> [t \in {"toc", "environment", "data"} |-> <<>>],
   bindings |-> <<>>, mappings |-> <<>>, allocs |-> <<>>, maps |-> 0,
   regions |-> {}, out |-> <<>>]

\* pages[] is indexed from 0 in the code.
PageOf(w, page) == w.pages[page + 1]

\* The map f with x at the key k.
Put(f, k, x) == [j \in {k} \cup DOMAIN f |-> IF j = k THEN x ELSE f[j]]

(***************************************************************************)
(* Changes to the file                                                     *)
(***************************************************************************)

Write(why, at, cells) == [op |-> why, at |-> at, cells |-> cells]
Emit(w, change) == [w EXCEPT !.out = Append(@, change)]

allocPages(w, n) ==
  Emit([w EXCEPT !.size = @ + n * PageSize], [op |-> "grow", pages |-> n])

\* What a change makes of the file d, a function from positions to cells.
Apply(d, c) ==
  IF c.op = "grow"
  THEN [i \in 0 .. Cardinality(DOMAIN d) + c.pages * PageSize - 1 |->
          IF i \in DOMAIN d THEN d[i] ELSE Zero]
  ELSE [i \in DOMAIN d |->
          IF i \in c.at .. c.at + Len(c.cells) - 1 THEN c.cells[i - c.at + 1] ELSE d[i]]

(***************************************************************************)
(* The page table and the index of pages by free space                     *)
(***************************************************************************)

FirstSlots == PageSize - HeadSize - LinkSize
RestSlots  == PageSize - LinkSize

\* Where the entry of a page is in the file.
pageTOCPosition(w, page) ==
  IF page < FirstSlots
  THEN HeadSize + page
  ELSE LET after == page - FirstSlots IN
       w.tocpages[(after \div RestSlots) + 2] * PageSize + (after % RestSlots)

\* A page that lost space moves back past the pages that have more.
updatePageSizeIndex(w, page) ==
  LET type == PageOf(w, page).type
      pord == w.freespace[type]
      k    == SelectInSeq(pord, LAMBDA p : p = page)
      rest == SubSeq(pord, k + 1, Len(pord))
      less == SelectInSeq(rest, LAMBDA p : PageOf(w, p).free <= PageOf(w, page).free)
      n    == IF less = 0 THEN Len(rest) ELSE less - 1
  IN  IF k = 0 THEN w
      ELSE [w EXCEPT !.freespace[type] = InsertAt(RemoveAt(pord, k), k + n, page)]

\* Mutant: the index keeps every page.
IndexUnbounded(w, page) ==
  LET pd == PageOf(w, page) IN
  IF pd.free < MinFree THEN w
  ELSE [w EXCEPT !.freespace[pd.type] = <<page>> \o @]

\* A new page goes before the first index i such that page i of the file (not
\* the i-th page of the index) has less space.
insertPageSizeIndex(w, page) ==
  LET pd   == PageOf(w, page)
      pord == w.freespace[pd.type]
      less == {i \in 0 .. Len(pord) - 1 : pd.free > PageOf(w, i).free}
      k    == IF less = {} THEN Len(pord) ELSE Min(less)
      new  == InsertAt(pord, k + 1, page)
  IN  IF pd.free < MinFree THEN w
      ELSE [w EXCEPT !.freespace[pd.type] =
              SubSeq(new, 1, Min({Len(new), MaxRemembered}))]

\* Only the first page of the index is tried.
findPageWithSpace(w, type, len, align) ==
  LET pord == w.freespace[type] IN
  /\ pord # <<>>
  /\ LET free == PageOf(w, pord[1]).free IN
     len + ((PageSize - free) % align) <= free

\* Mutant: only the table in memory is changed.
UpdateInMemory(w, page, pd) ==
  updatePageSizeIndex([w EXCEPT !.pages[page + 1] = pd], page)

updateTOCData(w, page, pd) ==
  updatePageSizeIndex(
    Emit([w EXCEPT !.pages[page + 1] = pd],
         Write("update", pageTOCPosition(w, page), <<PageCell(pd)>>)), page)

\* The n-th iterate of a step, and what is left of s by a loop over 1..n.
Iterate(Step(_), s, n) ==
  LET it[k \in 0 .. n] == IF k = 0 THEN s ELSE Step(it[k - 1]) IN it[n]
ForEach(Step(_, _), s, n) ==
  LET it[k \in 0 .. n] == IF k = 0 THEN s ELSE Step(it[k - 1], k) IN it[n]

\* The in-memory half of appendTOCData.
AddPage(w, pd) ==
  insertPageSizeIndex([w EXCEPT !.pages = Append(@, pd),
                                !.tocpages = IF pd.type = "toc" THEN Append(@, Len(w.pages)) ELSE @],
                      Len(w.pages))
AddPages(w, new) == ForEach(LAMBDA v, i : AddPage(v, new[i]), w, Len(new))

\* One turn of appendTOCData: the entries that fit in this TOC page are
\* written, and when they fill it a new TOC page is made and linked.  The
\* entries of the new TOC pages follow when the given ones are written.
PutSlots(w, left, n) ==
  Emit([w EXCEPT !.head = @ + n], Write("toc", w.head, [i \in 1 .. n |-> PageCell(left[i])]))
Slots(s, n) == [s EXCEPT !.w = PutSlots(@, s.left, n), !.left = SubSeq(@, n + 1, Len(@))]
LinkTo(w, next) ==
  Emit(allocPages([w EXCEPT !.head = w.size], 1),
       Write("link", w.head, [i \in 1 .. LinkSize |-> <<"link", next>>]))
IfFull(s) ==
  IF restInPage(s.w.head) # LinkSize THEN s
  ELSE [s EXCEPT !.w = LinkTo(@, Len(@.pages) + Len(s.tocs)),
                 !.tocs = Append(@, pagedata("toc", 0))]
WriteSlots(s) ==
  CASE s.left = <<>> /\ s.tocs = <<>> -> s
    [] s.left = <<>> /\ s.tocs # <<>> ->
         [w |-> AddPages(s.w, s.tocs), left |-> s.tocs, tocs |-> <<>>]
    [] OTHER -> IfFull(Slots(s, Min({restInPage(s.w.head) - LinkSize, Len(s.left)})))

appendTOCData(w, new) ==
  Iterate(WriteSlots, [w |-> AddPages(w, new), left |-> new, tocs |-> <<>>],
          4 + 4 * Len(new)).w

\* regions, the set of all the space that was given out, is kept for the
\* properties.  The mark in the plan says where the page table in the file
\* knows of it: space that it does not know of is free again after a restart.
GivenMark(at, len) == [op |-> "given", region |-> [at |-> at, len |-> len]]
GivenOut(w, at, len) ==
  [w |-> Emit([w EXCEPT !.regions = @ \cup {[at |-> at, len |-> len]}], GivenMark(at, len)), at |-> at]

\* Mutant: the padding is counted in the position and not in the page.
PadForgotten(w, type, page, used, len, pad) ==
  GivenOut(updateTOCData(w, page, pagedata(type, PageSize - (used + len))),
           page * PageSize + used + pad, len)

\* Space at the end of a page that is in use, after so much padding.
SpaceInPage(w, type, page, used, len, pad) ==
  GivenOut(updateTOCData(w, page, pagedata(type, PageSize - (used + pad + len))),
           page * PageSize + used + pad, len)

\* Space in new pages: all of them full but the last.
SpaceInNewPages(w, type, len) ==
  LET n    == pageCount(len)
      last == IF len % PageSize = 0 THEN 0 ELSE PageSize - (len % PageSize)
  IN  GivenOut(appendTOCData(allocPages(w, n), [p \in 1 .. n |-> pagedata(type, IF p < n THEN 0 ELSE last)]),
               w.size, len)

SpaceAfter(w, type, page, used, len, align) == SpaceInPage(w, type, page, used, len, used % align)
findSpace(w, type, len, align) ==
  IF findPageWithSpace(w, type, len, align)
  THEN SpaceAfter(w, type, w.freespace[type][1], PageSize - PageOf(w, w.freespace[type][1]).free, len, align)
  ELSE SpaceInNewPages(w, type, len)

(***************************************************************************)
(* Memory maps.  A pointer is the map it was made from and a position.     *)
(***************************************************************************)

RoundUp(x, m) == ((x + m - 1) \div m) * m

\* The new map starts where the last one ends, if that leaves a gap.
NewMap(w, base, n) ==
  [w |-> [w EXCEPT !.mappings = Put(@, base, [id |-> w.maps + 1, pages |-> n, used |-> 0]), !.maps = @ + 1],
   base |-> base]
LastEnd(w, page) ==
  IF DOMAIN w.mappings = {} THEN page
  ELSE LET last == Max(DOMAIN w.mappings) IN last + w.mappings[last].pages
MapFrom(w, base, page, pages) == NewMap(w, base, RoundUp(pages + (page - base), MapPages))
createFileRegionMap(w, page, pages) == MapFrom(w, Min({LastEnd(w, page), page}), page, pages)

\* gleb() steps back from the first map when the page lies before it; that is
\* undefined, and leaves the first map or the end, neither of which has the
\* page: a map is made in both cases.
mappedFileRegion(w, page, pages) ==
  LET below == {k \in DOMAIN w.mappings : k <= page}
  IN  IF \E k \in below : k = Max(below) /\ page + pages <= k + w.mappings[k].pages
      THEN [w |-> w, base |-> Max(below)]
      ELSE createFileRegionMap(w, page, pages)

MapInRegion(r, p, sz) ==
  [w |-> [r.w EXCEPT !.mappings[r.base].used = @ + sz,
                     !.allocs = Put(@, p, [page |-> r.base, size |-> sz])],
   p |-> p]
MapPosition(r, pos, sz) == MapInRegion(r, <<r.w.mappings[r.base].id, pos>>, sz)
mapFileData(w, pos, sz) == MapPosition(mappedFileRegion(w, pos \div PageSize, pageCount(sz)), pos, sz)

\* Mutant: the map is released without looking at what else is in use.
UnmapsAll(w, p, sz) ==
  IF p \notin DOMAIN w.allocs THEN w
  ELSE LET base == w.allocs[p].page IN
       [w EXCEPT !.allocs = [q \in DOMAIN @ \ {p} |-> @[q]],
                 !.mappings = [k \in DOMAIN @ \ {base} |-> @[k]]]

\* The map goes when nothing in it is used any more.
unmapFileData(w, p, sz) ==
  LET base == w.allocs[p].page
      w1   == [w EXCEPT !.allocs = [q \in DOMAIN @ \ {p} |-> @[q]]]
  IN  CASE p \notin DOMAIN w.allocs -> w
        [] p \in DOMAIN w.allocs /\ w.mappings[base].used > sz ->
             [w1 EXCEPT !.mappings[base].used = @ - sz]
        [] OTHER -> [w1 EXCEPT !.mappings = [k \in DOMAIN @ \ {base} |-> @[k]]]

(***************************************************************************)
(* Storing values                                                          *)
(***************************************************************************)

\* offset, name and type of a binding, a cell each; types are named like the
\* values that have them
RecordSize == 3

binding(type, offset) == [type |-> type, offset |-> offset]

\* A string or a list of bytes is written in two parts: a cell that has its
\* size has zeros for the rest until the rest is written.
Sized == <<"sized">>
WriteSized(w, why, at, x) == Emit(Emit(w, Write("size", at, <<Sized>>)), Write(why, at, <<<<why, x>>>>))

\* A type of zeros is decoded as the primitive type that has no name.
NullType == <<>>

\* Mutant: the record holds its own position instead of the value's.
BindsItself(s, name, offset) ==
  [WriteSized(WriteSized(Emit(s.w, Write("offset", s.at, <<<<"offset", s.at>>>>)), "name", s.at + 1, name),
              "type", s.at + 2, name) EXCEPT !.bindings = Put(@, name, binding(name, offset))]

\* The record goes to the space s.
WriteBinding(s, name, offset) ==
  [WriteSized(WriteSized(Emit(s.w, Write("offset", s.at, <<<<"offset", offset>>>>)), "name", s.at + 1, name),
              "type", s.at + 2, name) EXCEPT !.bindings = Put(@, name, binding(name, offset))]

addBinding(w, name, offset) == WriteBinding(findSpace(w, "environment", RecordSize, 1), name, offset)

\* Space that is bound to a name, and mapped.
BindSpace(s, name) == [s EXCEPT !.w = addBinding(@, name, s.at)]
Located(m, at)     == [w |-> m.w, p |-> m.p, at |-> at]
MapSpace(s, len)   == Located(mapFileData(s.w, s.at, len), s.at)

\* The caller has checked that the name is not bound.
allocNamed(w, name, len, align) ==
  MapSpace(BindSpace(findSpace(w, "data", len, align), name), len)

allocAnon(w, len, align) == MapSpace(findSpace(w, "data", len, align), len)

\* capacity and length, a cell each, come before the elements
ArrayHead == 2
WordAlign == 2

Capacity(s, len) ==
  [s EXCEPT !.w = Emit(@, Write("value", s.at, <<<<"size", ArrayHead + len>>>>))]

unsafeDefineArray(w, name, len) == Capacity(allocNamed(w, name, ArrayHead + len, WordAlign), len)
unsafeStoreArray(w, len) == Capacity(allocAnon(w, ArrayHead + len, WordAlign), len)
unsafeLoadArray(w, at, len) == mapFileData(w, at, ArrayHead + len)
unsafeUnloadArray(w, p, len) == unmapFileData(w, p, ArrayHead + len)

\* A write of the byte that the header already begins with.
signalUpdate(w) == Emit(w, Write("value", 0, <<HeadCell(1)>>))

\* writer::store: an array with its contents, unmapped again
FillArray(a, cells) ==
  [a EXCEPT !.w = Emit(Emit(@, Write("value", a.at + ArrayHead, cells)),
                       Write("value", a.at + 1, <<<<"size", Len(cells)>>>>))]
DoneArray(a, len) == [a EXCEPT !.w = unsafeUnloadArray(@, a.p, len)]
StoreWhole(w, cells) == DoneArray(FillArray(unsafeStoreArray(w, Len(cells)), cells), Len(cells))

(***************************************************************************)
(* Creating and reading a file                                             *)
(***************************************************************************)

createFile ==
  [Emit(Emit(allocPages(NoImage, 1), Write("head", 0, [i \in 1 .. HeadSize |-> HeadCell(i)])),
        Write("head", HeadSize, <<PageCell(pagedata("toc", 0))>>))
     EXCEPT !.pages = <<pagedata("toc", 0)>>, !.tocpages = <<0>>, !.head = HeadSize + 1]

\* One turn of readPageData on the file d, after the entry at the head.
NextTocPage(w, next) == [w EXCEPT !.head = next * PageSize, !.tocpages = Append(@, next)]
FollowLink(d, w) ==
  IF restInPage(w.head) # LinkSize THEN w
  ELSE NextTocPage(w, IF d[w.head] = Zero THEN 0 ELSE d[w.head][2])
TakeSlot(d, s, pd) ==
  IF pd.type = "null" THEN [s EXCEPT !.done = TRUE]
  ELSE [s EXCEPT !.w = FollowLink(d, [@ EXCEPT !.pages = Append(@, pd), !.head = @ + 1])]
ReadSlot(d, s) ==
  CASE s.done -> s
    [] ~s.done /\ s.w.head \notin DOMAIN d -> [s EXCEPT !.done = TRUE, !.ok = FALSE]
    [] OTHER -> TakeSlot(d, s, AsPageData(d[s.w.head]))

\* A page is in the file before its entry is in the table, so that the entry
\* after the last is read within as many turns as there are pages.
readPageData(d) ==
  Iterate(LAMBDA s : ReadSlot(d, s),
          [w |-> [NoImage EXCEPT !.size = Cardinality(DOMAIN d),
                                 !.pages = <<AsPageData(d[HeadSize])>>,
                                 !.tocpages = <<0>>, !.head = HeadSize + 1],
           done |-> FALSE, ok |-> TRUE],
          (Cardinality(DOMAIN d) \div PageSize) + 1)

\* A record can be read when the size of its type is there: decoding the type
\* reads past the end of an empty list otherwise.  Nothing else is checked.
RecordAt(d, pos) ==
  /\ pos + 2 \in DOMAIN d
  /\ \A i \in 0 .. 2 : d[pos + i] # Zero
  /\ d[pos][1] = "offset" /\ d[pos + 1][1] = "name" /\ d[pos + 2][1] \in {"sized", "type"}
TypeIn(c) == IF c = Sized THEN NullType ELSE c[2]

\* One turn of the loops of readFile and readEnvironmentPage: s.page is the
\* page they are at, s.pos the position after the records read from it.  A page
\* that the table does not list is looked up beyond its end, which is undefined.
PageRead(s, page, pos) == [s EXCEPT !.page = page + pageCount(pos - page * PageSize),
                                    !.pos = (page + pageCount(pos - page * PageSize)) * PageSize]
AfterRecord(s, pos) ==
  CASE (pos - 1) \div PageSize >= Len(s.w.pages) -> [s EXCEPT !.ok = FALSE]
    [] (pos - 1) \div PageSize < Len(s.w.pages) ->
         IF ((pos - 1) % PageSize) + 1 = PageSize - PageOf(s.w, (pos - 1) \div PageSize).free
         THEN PageRead(s, s.page, pos) ELSE [s EXCEPT !.pos = pos]
ReadBinding(d, s) ==
  [s EXCEPT !.w.bindings = Put(@, d[s.pos + 1][2], binding(TypeIn(d[s.pos + 2]), d[s.pos][2]))]
ReadRecord(d, s) ==
  CASE s.page >= Len(s.w.pages) \/ ~s.ok -> s
    [] s.page < Len(s.w.pages) /\ s.ok /\ s.w.pages[s.page + 1].type # "environment" ->
         [s EXCEPT !.page = @ + 1, !.pos = (s.page + 1) * PageSize]
    [] OTHER -> IF RecordAt(d, s.pos) THEN AfterRecord(ReadBinding(d, s), s.pos + RecordSize)
                ELSE [s EXCEPT !.ok = FALSE]

\* What readFile() makes of the file d; ok is FALSE where it throws.  It leaves
\* the index of pages by free space empty.  Every turn reads a record or goes on
\* to a later page.
readEnvironment(d, t) ==
  IF ~(t.ok /\ t.done) THEN [w |-> t.w, ok |-> FALSE]
  ELSE Iterate(LAMBDA s : ReadRecord(d, s), [w |-> t.w, page |-> 0, pos |-> 0, ok |-> TRUE],
               (Cardinality(DOMAIN d) \div RecordSize) + Len(t.w.pages))
readFile(d) ==
  IF DOMAIN d = {} \/ \E i \in 1 .. 2 : d[i - 1] # HeadCell(i)
  THEN [w |-> NoImage, ok |-> FALSE] ELSE readEnvironment(d, readPageData(d))
===============================================================================
