---------------------------- MODULE PageFileProofs ----------------------------
(***************************************************************************)
(* What every operation of PageFile keeps of a writer's memory, for every  *)
(* size of page, header, link and map: the table of pages, the index of    *)
(* pages by free space, the space given out and the maps agree with each   *)
(* other.  Kept says so, and the lemmas show it operation by operation:    *)
(* appending to the table, finding space, mapping, unmapping, binding a    *)
(* name and storing.                                                       *)
(***************************************************************************)
EXTENDS PageFile, NaturalsInduction, FiniteSetTheorems, WellFoundedInduction, TLAPS

(***************************************************************************)
(* What every operation of a writer keeps of its memory of the file        *)
(***************************************************************************)

Fields == {"size", "head", "tocpages", "pages", "freespace", "bindings", "mappings",
           "allocs", "maps", "regions", "out"}
PageTypes == {"toc", "environment", "data"}
PageData == [type : PageTypes, free : 0 .. PageSize]

Listed(w, page) == page \in 0 .. Len(w.pages) - 1

\* The table has all pages of the file but the given number of new ones, the
\* TOC pages among them, and the entry at the head fits in its page.
TableKept(w, new) ==
  /\ w.pages \in Seq(PageData)
  /\ w.size = (Len(w.pages) + new) * PageSize
  /\ w.tocpages \in Seq(Nat) /\ w.tocpages # <<>> /\ w.tocpages[1] = 0
  /\ \A i \in DOMAIN w.tocpages :
       Listed(w, w.tocpages[i]) /\ PageOf(w, w.tocpages[i]).type = "toc"
  /\ w.head \in Nat /\ restInPage(w.head) >= LinkSize

\* The index names pages of the table, each under its type.
Indexed(w, t, page) == Listed(w, page) /\ PageOf(w, page).type = t
IndexKept(w) ==
  /\ w.freespace \in [PageTypes -> Seq(Nat)]
  /\ \A t \in PageTypes :
       /\ Len(w.freespace[t]) <= MaxRemembered
       /\ \A i \in DOMAIN w.freespace[t] : Indexed(w, t, w.freespace[t][i])

\* The space given out is apart from the free end of every page, from the TOC
\* pages and from other space, and goes over the end of a page only if it
\* begins with a page.
Apart(r, from, to) == r.at + r.len <= from \/ to <= r.at
InPages(r) == r.at % PageSize = 0 \/ (r.at % PageSize) + r.len <= PageSize
ApartFrom(w, r, page) ==
  LET pd == PageOf(w, page)
      to == (page + 1) * PageSize
  IN  /\ pd.free > 0 => Apart(r, to - pd.free, to)
      /\ pd.type = "toc" => Apart(r, page * PageSize, to)
SpaceKept(w) ==
  /\ w.regions \subseteq [at : Nat, len : Nat \ {0}]
  /\ \A r \in w.regions :
       /\ r.at + r.len <= w.size /\ InPages(r)
       /\ \A page \in 0 .. Len(w.pages) - 1 : ApartFrom(w, r, page)
  /\ \A q, r \in w.regions : q # r => Apart(r, q.at, q.at + q.len)

\* The maps: what is in use of a map is no more than it counts, a pointer has
\* its map, and space of several pages that begins where a map does is in it.
InUse(w, k) ==
  UNION {{p} \X (1 .. w.allocs[p].size) : p \in {q \in DOMAIN w.allocs : w.allocs[q].page = k}}
MapKept(w, k) ==
  /\ Listed(w, k)
  /\ w.mappings[k] \in [id : Nat, pages : Nat \ {0}, used : Nat]
  /\ IsFiniteSet(InUse(w, k)) /\ Cardinality(InUse(w, k)) <= w.mappings[k].used
PointerKept(w, p) ==
  LET a == w.allocs[p] IN
  /\ p[2] \in Nat /\ a \in [page : Nat, size : Nat \ {0}]
  /\ a.page \in DOMAIN w.mappings
  /\ w.mappings[a.page].id = p[1]
  /\ p[2] + a.size <= (a.page + w.mappings[a.page].pages) * PageSize
  /\ p[2] = 0 \/ [at |-> p[2], len |-> a.size] \in w.regions
MapsKept(w) ==
  /\ w.maps \in Nat
  /\ \A k \in DOMAIN w.mappings : MapKept(w, k)
  /\ \A p \in DOMAIN w.allocs : PointerKept(w, p)
  /\ \A r \in w.regions : r.len > PageSize /\ r.at \div PageSize \in DOMAIN w.mappings =>
       pageCount(r.len) <= w.mappings[r.at \div PageSize].pages

\* The changes that a call makes to the file.
IsChange(c) ==
  /\ c.op \in {"grow", "head", "toc", "link", "update", "given", "offset", "size", "name", "type",
               "value", "count", "publish"}
  /\ c.op = "grow" => c.pages \in Nat
PlanKept(out) == \E S : out \in Seq(S) /\ \A c \in S : IsChange(c)

Kept(w) ==
  /\ DOMAIN w = Fields
  /\ TableKept(w, 0) /\ IndexKept(w) /\ SpaceKept(w) /\ MapsKept(w) /\ PlanKept(w.out)

(***************************************************************************)
(* Sets, sequences and the index                                           *)
(***************************************************************************)

\* Two memories that differ in the given fields only.
Same(v, w, F) == DOMAIN v = Fields /\ \A x \in Fields \ F : v[x] = w[x]

\* Induction, by the set of the numbers for which a property holds: the loops of
\* file.C run any number of times.
LEMMA SetInduction ==
  ASSUME NEW T, 0 \in T, \A n \in T : n \in Nat => n + 1 \in T
  PROVE  Nat \subseteq T
<1> DEFINE B == Nat \ T
<1> SUFFICES ASSUME B # {} PROVE FALSE
  OBVIOUS
<1>1. PICK x \in B : \A y \in B : ~(<<y, x>> \in OpToRel(<, Nat))
  BY NatLessThanWellFounded, WFMin
<1>2. x \in Nat /\ x # 0 /\ x - 1 \in Nat /\ x - 1 < x
  OBVIOUS
<1>3. x - 1 \notin B
  BY <1>1, <1>2 DEF OpToRel
<1> QED
  BY <1>2, <1>3

\* A set of numbers has a least one: the first page of the index that has the
\* space (findPageWithSpace, file.C:350).
LEMMA MinIs ==
  ASSUME NEW S \in SUBSET Nat, S # {}
  PROVE  Min(S) \in S /\ \A x \in S : Min(S) <= x
<1>1. PICK x \in S : \A y \in S : ~(<<y, x>> \in OpToRel(<, Nat))
  BY NatLessThanWellFounded, WFMin
<1>2. \A y \in S : x <= y
  <2> SUFFICES ASSUME NEW y \in S, y < x PROVE FALSE
    OBVIOUS
  <2>1. <<y, x>> \in OpToRel(<, Nat)
    BY DEF OpToRel
  <2> QED BY <2>1, <1>1
<1> QED
  BY <1>2 DEF Min

\* A bounded set of numbers has a greatest one: the map below a page
\* (mappedFileRegion, file.C:567).
LEMMA MaxIs ==
  ASSUME NEW S \in SUBSET Nat, S # {}, NEW n \in Nat, \A x \in S : x <= n
  PROVE  Max(S) \in S /\ \A x \in S : x <= Max(S)
<1> DEFINE U == {m \in Nat : \A x \in S : x <= m}
<1>1. PICK m \in U : \A y \in U : m <= y
  <2>1. U \in SUBSET Nat /\ U # {} OBVIOUS
  <2> HIDE DEF U
  <2> QED BY <2>1, MinIs
<1>2. m \in S
  <2> SUFFICES ASSUME m \notin S PROVE FALSE OBVIOUS
  <2>1. \A x \in S : x < m BY <1>1
  <2>2. m - 1 \in U
    <3>0. PICK x \in S : TRUE OBVIOUS
    <3>1. m # 0 BY <2>1, <3>0
    <3> QED BY <2>1, <3>1, <1>1
  <2> QED BY <2>2, <1>1
<1>3. \E x \in S : \A y \in S : x >= y BY <1>1, <1>2
<1> QED BY <1>3 DEF Max

\* What a part of a sequence holds: the entries of a batch that go into one TOC
\* page (file.C:403).
LEMMA SubSeqIs ==
  ASSUME NEW S, NEW s \in Seq(S), NEW m \in Int, NEW n \in Int, m >= 1, m <= n + 1, n <= Len(s)
  PROVE  /\ SubSeq(s, m, n) \in Seq(S)
         /\ Len(SubSeq(s, m, n)) = n - m + 1
         /\ \A i \in 1 .. n - m + 1 : SubSeq(s, m, n)[i] = s[m + i - 1]
OBVIOUS

\* What the concatenation of two sequences holds.
LEMMA ConcatIs ==
  ASSUME NEW S, NEW a \in Seq(S), NEW b \in Seq(S)
  PROVE  /\ a \o b \in Seq(S) /\ Len(a \o b) = Len(a) + Len(b)
         /\ \A i \in 1 .. Len(a) + Len(b) : (a \o b)[i] = IF i <= Len(a) THEN a[i] ELSE b[i - Len(a)]
OBVIOUS

\* A sequence with one element more has no other that is new: a page is inserted
\* into the index (file.C:345).
LEMMA InsertAtIs ==
  ASSUME NEW S, NEW s \in Seq(S), NEW n \in 1 .. Len(s) + 1, NEW x \in S
  PROVE  /\ InsertAt(s, n, x) \in Seq(S) /\ Len(InsertAt(s, n, x)) = Len(s) + 1
         /\ \A i \in 1 .. Len(s) + 1 :
              InsertAt(s, n, x)[i] = x \/ \E j \in 1 .. Len(s) : InsertAt(s, n, x)[i] = s[j]
<1> PICK k \in 0 .. Len(s) : k = n - 1 /\ n = k + 1
  OBVIOUS
<1> DEFINE a == SubSeq(s, 1, k)
           c == SubSeq(s, k + 1, Len(s))
           b == <<x>>
<1>1. a \in Seq(S) /\ Len(a) = k /\ \A i \in 1 .. k : a[i] = s[i]
  OBVIOUS
<1>2. c \in Seq(S) /\ Len(c) = Len(s) - k /\ \A i \in 1 .. Len(s) - k : c[i] = s[k + i]
  OBVIOUS
<1>3. b \in Seq(S) /\ Len(b) = 1 /\ b[1] = x
  OBVIOUS
<1> HIDE DEF a, b, c
<1>4. a \o b \in Seq(S) /\ Len(a \o b) = k + 1 /\ \A i \in 1 .. k + 1 : (a \o b)[i] = IF i <= k THEN a[i] ELSE x
  <2>1. PICK e \in Seq(S), f \in Seq(S) : e = a /\ f = b BY <1>1, <1>3
  <2>2. \A i \in 1 .. k + 1 : ~(i <= k) => i - k = 1 OBVIOUS
  <2>3. Len(e) = k /\ Len(f) = 1 /\ f[1] = x BY <2>1, <1>1, <1>3
  <2>4. e \o f \in Seq(S) /\ Len(e \o f) = k + 1
        /\ \A i \in 1 .. k + 1 : (e \o f)[i] = IF i <= k THEN e[i] ELSE f[i - k]
    <3>1. /\ e \o f \in Seq(S) /\ Len(e \o f) = Len(e) + Len(f)
          /\ \A i \in 1 .. Len(e) + Len(f) : (e \o f)[i] = IF i <= Len(e) THEN e[i] ELSE f[i - Len(e)]
      BY ConcatIs
    <3> QED BY <2>3, <3>1
  <2> QED BY <2>1, <2>2, <2>3, <2>4
<1>5. PICK d \in Seq(S) : d = a \o b
  BY <1>4
<1>6. d \o c \in Seq(S) /\ Len(d \o c) = Len(s) + 1
      /\ \A i \in 1 .. Len(s) + 1 : (d \o c)[i] = IF i <= k + 1 THEN d[i] ELSE c[i - k - 1]
  BY <1>2, <1>4, <1>5
<1>7. ASSUME NEW i \in 1 .. Len(s) + 1
      PROVE  (d \o c)[i] = x \/ \E j \in 1 .. Len(s) : (d \o c)[i] = s[j]
  <2>1. CASE i <= k
    BY <1>1, <1>4, <1>5, <1>6, <2>1
  <2>2. CASE i = k + 1
    BY <1>4, <1>5, <1>6, <2>2
  <2>3. CASE i > k + 1
    <3>1. c[i - k - 1] = s[i - 1] /\ i - 1 \in 1 .. Len(s)
      BY <1>2, <2>3
    <3> QED BY <1>6, <2>3, <3>1
  <2>4. i <= k \/ i = k + 1 \/ i > k + 1 OBVIOUS
  <2> QED BY ONLY <2>1, <2>2, <2>3, <2>4
<1>8. InsertAt(s, n, x) = d \o c
  BY <1>5 DEF InsertAt, a, b, c
<1> QED BY <1>6, <1>7, <1>8

\* A sequence with one element less has none that is new: a page changes its
\* place in the index (file.C:315).
LEMMA RemoveAtIs ==
  ASSUME NEW S, NEW s \in Seq(S), NEW n \in 1 .. Len(s)
  PROVE  /\ RemoveAt(s, n) \in Seq(S) /\ Len(RemoveAt(s, n)) = Len(s) - 1
         /\ \A i \in 1 .. Len(s) - 1 : \E j \in 1 .. Len(s) : RemoveAt(s, n)[i] = s[j]
<1> DEFINE a == SubSeq(s, 1, n - 1)
           c == SubSeq(s, n + 1, Len(s))
<1>1. a \in Seq(S) /\ Len(a) = n - 1 /\ \A i \in 1 .. n - 1 : a[i] = s[i]
  OBVIOUS
<1>2. c \in Seq(S) /\ Len(c) = Len(s) - n /\ \A i \in 1 .. Len(s) - n : c[i] = s[n + i]
  OBVIOUS
<1> HIDE DEF a, c
<1>3. /\ a \o c \in Seq(S) /\ Len(a \o c) = Len(a) + Len(c)
      /\ \A i \in 1 .. Len(a) + Len(c) : (a \o c)[i] = IF i <= Len(a) THEN a[i] ELSE c[i - Len(a)]
  BY <1>1, <1>2, ConcatIs
<1>4. PICK m \in Nat : m = Len(s)
  OBVIOUS
<1>5. RemoveAt(s, n) \in Seq(S) /\ Len(RemoveAt(s, n)) = m - 1
      /\ \A i \in 1 .. m - 1 : RemoveAt(s, n)[i] = IF i <= n - 1 THEN s[i] ELSE s[i + 1]
  <2>1. RemoveAt(s, n) = a \o c
    BY DEF RemoveAt, a, c
  <2>2. Len(a) + Len(c) = m - 1 /\ n \in 1 .. m
    BY <1>1, <1>2, <1>4
  <2>3. ASSUME NEW i \in 1 .. m - 1
        PROVE  (a \o c)[i] = IF i <= n - 1 THEN s[i] ELSE s[i + 1]
    <3>1. CASE i <= n - 1
      BY <1>1, <1>3, <2>2, <3>1
    <3>2. CASE ~(i <= n - 1)
      <4>1. i - (n - 1) \in 1 .. m - n /\ n + (i - (n - 1)) = i + 1
        BY <2>2, <3>2
      <4>2. c[i - (n - 1)] = s[i + 1]
        BY <1>2, <1>4, <4>1
      <4> QED BY <1>1, <1>3, <2>2, <3>2, <4>2
    <3> QED BY <3>1, <3>2
  <2> QED BY <1>3, <2>1, <2>2, <2>3
<1>6. \A i \in 1 .. m - 1 : i \in 1 .. m /\ i + 1 \in 1 .. m
  OBVIOUS
<1> QED BY <1>4, <1>5, <1>6

\* insertPageSizeIndex (file.C:327) enters a page of the table in the index under
\* its own type, and the index stays within maxPageMemory.
LEMMA InsertKeepsIndex ==
  ASSUME NEW w, DOMAIN w = Fields, w.pages \in Seq(PageData), IndexKept(w),
         NEW page \in Nat, Listed(w, page), MaxRemembered \in Nat
  PROVE  LET v == insertPageSizeIndex(w, page)
         IN  Same(v, w, {"freespace"}) /\ IndexKept(v)
<1> DEFINE v == insertPageSizeIndex(w, page)
           pd == PageOf(w, page)
           pord == w.freespace[pd.type]
           less == {i \in 0 .. Len(pord) - 1 : pd.free > PageOf(w, i).free}
           k == IF less = {} THEN Len(pord) ELSE Min(less)
           new == InsertAt(pord, k + 1, page)
           m == Min({Len(new), MaxRemembered})
           t == pd.type
<1>1. pd \in PageData
  BY DEF Listed, PageOf
<1>2. t \in PageTypes /\ pord \in Seq(Nat)
  BY <1>1 DEF IndexKept, PageData
<1>3. k \in 0 .. Len(pord)
  <2>1. ASSUME less # {} PROVE Min(less) \in less
    <3>1. less \in SUBSET Nat OBVIOUS
    <3> HIDE DEF less
    <3> QED BY <2>1, <3>1, MinIs
  <2> QED BY <2>1, <1>2
<1> HIDE DEF less, k
<1>4. new \in Seq(Nat) /\ Len(new) = Len(pord) + 1
      /\ \A i \in 1 .. Len(new) : new[i] = page \/ \E j \in 1 .. Len(pord) : new[i] = pord[j]
  <2>1. k + 1 \in 1 .. Len(pord) + 1 BY <1>2, <1>3
  <2>2. PICK u \in Seq(Nat) : u = pord BY <1>2
  <2>3. PICK j \in 1 .. Len(u) + 1 : j = k + 1 BY <2>1, <2>2
  <2>4. /\ InsertAt(u, j, page) \in Seq(Nat) /\ Len(InsertAt(u, j, page)) = Len(u) + 1
        /\ \A i \in 1 .. Len(u) + 1 :
             InsertAt(u, j, page)[i] = page \/ \E h \in 1 .. Len(u) : InsertAt(u, j, page)[i] = u[h]
    BY InsertAtIs
  <2> QED BY <2>2, <2>3, <2>4
<1>5. Len(new) \in Nat
  BY <1>4
<1>6. m \in 0 .. Len(new) /\ m <= MaxRemembered
  <2> HIDE DEF new
  <2>1. PICK n \in Nat : n = Len(new) BY <1>5
  <2>2. Min({n, MaxRemembered}) \in {n, MaxRemembered} /\ \A x \in {n, MaxRemembered} : Min({n, MaxRemembered}) <= x
    <3>1. {n, MaxRemembered} \in SUBSET Nat /\ {n, MaxRemembered} # {} OBVIOUS
    <3> QED BY ONLY <3>1, MinIs
  <2> QED BY <2>1, <2>2
<1>7. CASE pd.free < MinFree
  BY <1>7 DEF insertPageSizeIndex, Same
<1>8. CASE ~(pd.free < MinFree)
  <2>1. v = [w EXCEPT !.freespace[t] = SubSeq(new, 1, m)]
    BY <1>8 DEF insertPageSizeIndex, k, less
  <2> HIDE DEF v, new, m, t, pord
  <2>0. pord = w.freespace[t] BY DEF pord, t
  <2>2. Same(v, w, {"freespace"}) /\ v.freespace = [w.freespace EXCEPT ![t] = SubSeq(new, 1, m)]
    BY <2>1 DEF Same, Fields
  <2>3. SubSeq(new, 1, m) \in Seq(Nat) /\ Len(SubSeq(new, 1, m)) = m
        /\ \A i \in 1 .. m : SubSeq(new, 1, m)[i] = new[i]
    BY <1>4, <1>6
  <2>4. v.pages = w.pages
    BY <2>2 DEF Same, Fields
  <2>5. \A p \in Nat, u \in PageTypes : Indexed(v, u, p) = Indexed(w, u, p)
    BY <2>4 DEF Indexed, Listed, PageOf
  <2>6. \A i \in 1 .. m : Indexed(v, t, SubSeq(new, 1, m)[i])
    <3>1. Indexed(w, t, page) BY DEF Indexed, t
    <3>2. \A j \in 1 .. Len(pord) : Indexed(w, t, pord[j])
      BY <2>0, <1>2 DEF IndexKept
    <3>3. ASSUME NEW i \in 1 .. m PROVE Indexed(v, t, new[i])
      <4>1. i \in 1 .. Len(new) BY <1>5, <1>6
      <4>2. CASE new[i] = page BY <4>2, <3>1, <2>5, <1>2
      <4>3. CASE \E j \in 1 .. Len(pord) : new[i] = pord[j]
        <5>1. PICK j \in 1 .. Len(pord) : new[i] = pord[j] BY <4>3
        <5>2. pord[j] \in Nat BY <1>2
        <5> QED BY <5>1, <5>2, <3>2, <2>5, <1>2
      <4> QED BY <4>1, <4>2, <4>3, <1>4
    <3> QED BY <2>3, <3>3
  <2>7. ASSUME NEW u \in PageTypes
        PROVE  /\ Len(v.freespace[u]) <= MaxRemembered /\ v.freespace[u] \in Seq(Nat)
               /\ \A i \in DOMAIN v.freespace[u] : Indexed(v, u, v.freespace[u][i])
    <3>1. CASE u = t
      <4>1. v.freespace[u] = SubSeq(new, 1, m) BY <2>2, <3>1 DEF IndexKept
      <4>2. DOMAIN SubSeq(new, 1, m) = 1 .. m BY <2>3
      <4> QED BY <4>1, <4>2, <3>1, <2>3, <2>6, <1>6
    <3>2. CASE u # t
      <4>1. v.freespace[u] = w.freespace[u] BY <2>2, <3>2 DEF IndexKept
      <4>2. w.freespace[u] \in Seq(Nat) BY DEF IndexKept
      <4> QED BY <4>1, <4>2, <2>5 DEF IndexKept
    <3> QED BY <3>1, <3>2
  <2>8. v.freespace \in [PageTypes -> Seq(Nat)]
    BY <2>2, <2>3, <1>2 DEF IndexKept
  <2>9. IndexKept(v) BY ONLY <2>7, <2>8 DEF IndexKept
  <2> QED BY <2>2, <2>9 DEF v
<1> QED BY <1>7, <1>8

(***************************************************************************)
(* New pages in the memory: the table and the index                        *)
(***************************************************************************)

\* What a sequence holds after an element was appended, as imagefile's vectors do.
LEMMA AppendIs ==
  ASSUME NEW S, NEW s \in Seq(S), NEW x \in S
  PROVE  /\ Append(s, x) \in Seq(S) /\ Len(Append(s, x)) = Len(s) + 1
         /\ \A i \in 1 .. Len(s) + 1 : Append(s, x)[i] = IF i <= Len(s) THEN s[i] ELSE x
OBVIOUS

\* The index goes on naming pages of the table while the table only grows.
LEMMA PagesAndIndex ==
  ASSUME NEW v, NEW w, v.pages \in Seq(PageData), w.pages \in Seq(PageData),
         Len(w.pages) <= Len(v.pages),
         \A i \in 1 .. Len(w.pages) : v.pages[i] = w.pages[i],
         v.freespace = w.freespace, IndexKept(w)
  PROVE  IndexKept(v)
<1>1. ASSUME NEW t, NEW p \in Nat, Indexed(w, t, p)
      PROVE  Indexed(v, t, p)
  BY <1>1 DEF Indexed, Listed, PageOf
<1> QED
  BY <1>1 DEF IndexKept

\* One turn of the loop that enters new pages in the memory (appendTOCData,
\* file.C:384) leaves one page fewer to enter, and the table and the index as they
\* should be.
LEMMA AddPageKeeps ==
  ASSUME NEW w, DOMAIN w = Fields, NEW n \in Nat, TableKept(w, n + 1), IndexKept(w), NEW pd \in PageData
  PROVE  LET v == AddPage(w, pd)
         IN  /\ Same(v, w, {"pages", "tocpages", "freespace"})
             /\ v.pages = Append(w.pages, pd)
             /\ TableKept(v, n) /\ IndexKept(v)
<1> DEFINE v == AddPage(w, pd)
           u == [w EXCEPT !.pages = Append(@, pd),
                          !.tocpages = IF pd.type = "toc" THEN Append(@, Len(w.pages)) ELSE @]
<1>1. /\ Same(u, w, {"pages", "tocpages"}) /\ u.pages = Append(w.pages, pd)
      /\ u.tocpages = IF pd.type = "toc" THEN Append(w.tocpages, Len(w.pages)) ELSE w.tocpages
  BY DEF Same, Fields
<1>2. v = insertPageSizeIndex(u, Len(w.pages))
  BY DEF AddPage
<1> HIDE DEF u, v
<1>3. PICK m \in Nat : m = Len(w.pages)
  BY DEF TableKept
<1>4. /\ w.pages \in Seq(PageData) /\ u.pages \in Seq(PageData) /\ Len(u.pages) = m + 1
      /\ \A i \in 1 .. m + 1 : u.pages[i] = IF i <= m THEN w.pages[i] ELSE pd
  BY <1>1, <1>3, AppendIs DEF TableKept
<1>5. IndexKept(u)
  <2>1. u.freespace = w.freespace BY <1>1 DEF Same, Fields
  <2> QED BY <1>3, <1>4, <2>1, PagesAndIndex
<1>6. Same(v, u, {"freespace"}) /\ IndexKept(v)
  <2>1. m \in Nat /\ Listed(u, m) BY <1>4 DEF Listed
  <2>2. MaxRemembered \in Nat BY PageFileConstants
  <2>3. DOMAIN u = Fields BY <1>1 DEF Same
  <2> QED BY <1>2, <1>3, <1>4, <1>5, <2>1, <2>2, <2>3, InsertKeepsIndex
<1>7. Same(v, w, {"pages", "tocpages", "freespace"}) /\ v.pages = u.pages /\ v.tocpages = u.tocpages
      /\ v.size = w.size /\ v.head = w.head
  BY <1>1, <1>6 DEF Same, Fields
<1>8. v.size = (Len(v.pages) + n) * PageSize
  <2>1. Len(v.pages) + n = Len(w.pages) + (n + 1)
    <3>1. Len(v.pages) = m + 1
      BY <1>4, <1>7
    <3>2. (m + 1) + n = m + (n + 1)
      OBVIOUS
    <3> QED BY <3>1, <3>2, <1>3
  <2>2. w.size = (Len(w.pages) + (n + 1)) * PageSize
    BY DEF TableKept
  <2> QED BY <1>7, <2>1, <2>2
<1>9. ASSUME NEW p \in Nat, Listed(w, p)
      PROVE  Listed(v, p) /\ PageOf(v, p) = PageOf(w, p)
  <2>1. p + 1 \in 1 .. m + 1 /\ p + 1 <= m /\ p \in 0 .. m
    BY <1>9, <1>3 DEF Listed
  <2>2. v.pages[p + 1] = w.pages[p + 1] BY <2>1, <1>4, <1>7
  <2>3. Len(v.pages) - 1 = m BY <1>4, <1>7
  <2> QED BY <2>1, <2>2, <2>3 DEF Listed, PageOf
<1>10. Listed(v, m) /\ PageOf(v, m) = pd
  BY <1>3, <1>4, <1>7 DEF Listed, PageOf
<1>11. v.tocpages \in Seq(Nat) /\ v.tocpages # <<>> /\ v.tocpages[1] = 0
       /\ \A i \in DOMAIN v.tocpages : Listed(v, v.tocpages[i]) /\ PageOf(v, v.tocpages[i]).type = "toc"
  <2>1. PICK z \in Seq(Nat) : z = w.tocpages /\ z # <<>> /\ z[1] = 0
        /\ \A i \in 1 .. Len(z) : Listed(v, z[i]) /\ PageOf(v, z[i]).type = "toc"
    BY <1>9 DEF TableKept
  <2>2. CASE pd.type = "toc"
    <3>1. v.tocpages = Append(z, m) BY <1>1, <1>3, <1>7, <2>1, <2>2
    <3>2. /\ Append(z, m) \in Seq(Nat) /\ Len(Append(z, m)) = Len(z) + 1
          /\ \A i \in 1 .. Len(z) + 1 : Append(z, m)[i] = IF i <= Len(z) THEN z[i] ELSE m
      BY AppendIs
    <3>3. Len(z) >= 1 BY <2>1
    <3> QED BY <1>10, <2>1, <2>2, <3>1, <3>2, <3>3
  <2>3. CASE pd.type # "toc"
    <3>1. v.tocpages = z
      BY <1>1, <1>7, <2>1, <2>3
    <3>2. DOMAIN z = 1 .. Len(z)
      BY <2>1
    <3> QED BY <2>1, <3>1, <3>2
  <2> QED BY <2>2, <2>3
<1>12. TableKept(v, n)
  BY <1>4, <1>7, <1>8, <1>11 DEF TableKept
<1> QED BY <1>1, <1>6, <1>7, <1>12 DEF v

\* The m turns of that loop on w, one state for each.
AddPagesRun(f, w, new, m) ==
  /\ f = [k \in 0 .. m |-> f[k]]
  /\ f[0] = w
  /\ \A k \in 1 .. m : f[k] = AddPage(f[k - 1], new[k])

\* The loop over the new pages (file.C:384) has its states, however many there are.
LEMMA AddPagesRuns ==
  ASSUME NEW w, NEW new
  PROVE  \A m \in Nat : \E f : AddPagesRun(f, w, new, m)
<1> DEFINE T == {m \in Nat : \E f : AddPagesRun(f, w, new, m)}
<1>1. 0 \in T
  <2> DEFINE f == [k \in 0 .. 0 |-> w]
  <2>1. AddPagesRun(f, w, new, 0)
    BY DEF AddPagesRun
  <2> QED
    BY <2>1
<1>2. ASSUME NEW m \in T
      PROVE  m + 1 \in T
  <2>1. PICK f : AddPagesRun(f, w, new, m)
    OBVIOUS
  <2> DEFINE g == [k \in 0 .. m + 1 |-> IF k <= m THEN f[k] ELSE AddPage(f[k - 1], new[k])]
  <2>2. ASSUME NEW k \in 1 .. m + 1
        PROVE  g[k] = AddPage(g[k - 1], new[k])
    <3>1. g[k - 1] = f[k - 1] /\ k \in 0 .. m + 1 /\ (k <= m => k \in 1 .. m)
      OBVIOUS
    <3>2. CASE k <= m
      BY <2>1, <3>1, <3>2 DEF AddPagesRun
    <3>3. CASE ~(k <= m)
      BY <3>1, <3>3
    <3> QED
      BY <3>2, <3>3
  <2>3. g[0] = w
    BY <2>1 DEF AddPagesRun
  <2>4. g = [k \in 0 .. m + 1 |-> g[k]]
    OBVIOUS
  <2>5. AddPagesRun(g, w, new, m + 1)
    BY <2>2, <2>3, <2>4 DEF AddPagesRun
  <2> QED
    BY <2>5
<1> HIDE DEF T
<1>3. Nat \subseteq T
  BY <1>1, <1>2, SetInduction
<1> QED
  BY <1>3 DEF T

\* AddPages, the loop of file.C:384, is the last of these states.
LEMMA AddPagesIs ==
  ASSUME NEW w, NEW new, Len(new) \in Nat
  PROVE  \E f : AddPagesRun(f, w, new, Len(new)) /\ AddPages(w, new) = f[Len(new)]
<1> DEFINE F(f) == [k \in 0 .. Len(new) |-> IF k = 0 THEN w ELSE AddPage(f[k - 1], new[k])]
           it == CHOOSE f : f = F(f)
<1>1. PICK f : AddPagesRun(f, w, new, Len(new))
  BY AddPagesRuns
<1>2. f = F(f)
  <2>1. \A k \in 0 .. Len(new) : k # 0 => k \in 1 .. Len(new)
    OBVIOUS
  <2> QED
    BY <1>1, <2>1 DEF AddPagesRun
<1>3. it = F(it)
  BY <1>2
<1>4. AddPages(w, new) = it[Len(new)]
  BY DEF AddPages, ForEach
<1> HIDE DEF it
<1>5. AddPagesRun(it, w, new, Len(new))
  <2>1. \A k \in 0 .. Len(new) : it[k] = IF k = 0 THEN w ELSE AddPage(it[k - 1], new[k])
    BY <1>3
  <2>2. it = [k \in 0 .. Len(new) |-> it[k]]
    BY <1>3
  <2>3. it[0] = w
    BY <2>1
  <2>4. \A k \in 1 .. Len(new) : k \in 0 .. Len(new) /\ k # 0
    OBVIOUS
  <2>5. \A k \in 1 .. Len(new) : it[k] = AddPage(it[k - 1], new[k])
    BY <2>1, <2>4
  <2> QED
    BY <2>2, <2>3, <2>5 DEF AddPagesRun
<1> QED
  BY <1>4, <1>5

\* The m turns of the loop that writes the entries of new pages, from s.
TableRun(f, s, m) ==
  /\ f = [k \in 0 .. m |-> f[k]]
  /\ f[0] = s
  /\ \A k \in 1 .. m : f[k] = WriteSlots(f[k - 1])

\* The loop that writes the entries (file.C:402) has its states for any number of
\* turns.
LEMMA TableRuns ==
  ASSUME NEW s
  PROVE  \A m \in Nat : \E f : TableRun(f, s, m)
<1> DEFINE T == {m \in Nat : \E f : TableRun(f, s, m)}
<1>1. 0 \in T
  <2> DEFINE f == [k \in 0 .. 0 |-> s]
  <2>1. TableRun(f, s, 0)
    BY DEF TableRun
  <2> QED
    BY <2>1
<1>2. ASSUME NEW m \in T
      PROVE  m + 1 \in T
  <2>1. PICK f : TableRun(f, s, m)
    OBVIOUS
  <2> DEFINE g == [k \in 0 .. m + 1 |-> IF k <= m THEN f[k] ELSE WriteSlots(f[k - 1])]
  <2>2. ASSUME NEW k \in 1 .. m + 1
        PROVE  g[k] = WriteSlots(g[k - 1])
    <3>1. g[k - 1] = f[k - 1] /\ k \in 0 .. m + 1 /\ (k <= m => k \in 1 .. m)
      OBVIOUS
    <3>2. CASE k <= m
      BY <2>1, <3>1, <3>2 DEF TableRun
    <3>3. CASE ~(k <= m)
      BY <3>1, <3>3
    <3> QED
      BY <3>2, <3>3
  <2>3. g[0] = s
    BY <2>1 DEF TableRun
  <2>4. g = [k \in 0 .. m + 1 |-> g[k]]
    OBVIOUS
  <2>5. TableRun(g, s, m + 1)
    BY <2>2, <2>3, <2>4 DEF TableRun
  <2> QED
    BY <2>5
<1> HIDE DEF T
<1>3. Nat \subseteq T
  BY <1>1, <1>2, SetInduction
<1> QED
  BY <1>3 DEF T

\* Iterating WriteSlots, the loop of file.C:402, is the last of these states.
LEMMA TableIs ==
  ASSUME NEW s, NEW n \in Nat
  PROVE  \E f : TableRun(f, s, n) /\ Iterate(WriteSlots, s, n) = f[n]
<1> DEFINE F(f) == [k \in 0 .. n |-> IF k = 0 THEN s ELSE WriteSlots(f[k - 1])]
           it == CHOOSE f : f = F(f)
<1>1. PICK f : TableRun(f, s, n)
  BY TableRuns
<1>2. f = F(f)
  <2>1. \A k \in 0 .. n : k # 0 => k \in 1 .. n
    OBVIOUS
  <2> QED
    BY <1>1, <2>1 DEF TableRun
<1>3. it = F(it)
  BY <1>2
<1>4. Iterate(WriteSlots, s, n) = it[n]
  BY DEF Iterate
<1> HIDE DEF it
<1>5. TableRun(it, s, n)
  <2>1. \A k \in 0 .. n : it[k] = IF k = 0 THEN s ELSE WriteSlots(it[k - 1])
    BY <1>3
  <2>2. it = [k \in 0 .. n |-> it[k]]
    BY <1>3
  <2>3. it[0] = s
    BY <2>1
  <2>4. \A k \in 1 .. n : k \in 0 .. n /\ k # 0
    OBVIOUS
  <2>5. \A k \in 1 .. n : it[k] = WriteSlots(it[k - 1])
    BY <2>1, <2>4
  <2> QED
    BY <2>2, <2>3, <2>5 DEF TableRun
<1> QED
  BY <1>4, <1>5

\* v after k of the m pages of new were entered in w, which had l.
Added(v, w, new, n, l, m, k) ==
  /\ Same(v, w, {"pages", "tocpages", "freespace"})
  /\ TableKept(v, n + (m - k)) /\ IndexKept(v)
  /\ Len(v.pages) = l + k
  /\ \A i \in 1 .. l : v.pages[i] = w.pages[i]
  /\ \A i \in 1 .. k : v.pages[l + i] = new[i]

\* The loop that enters new pages (file.C:384) lists them all, each once and in
\* order, behind the pages that were there.
LEMMA AddPagesKeep ==
  ASSUME NEW w, DOMAIN w = Fields, NEW n \in Nat, NEW new \in Seq(PageData),
         TableKept(w, n + Len(new)), IndexKept(w)
  PROVE  LET v == AddPages(w, new)
         IN  /\ Same(v, w, {"pages", "tocpages", "freespace"})
             /\ TableKept(v, n) /\ IndexKept(v)
             /\ Len(v.pages) = Len(w.pages) + Len(new)
             /\ \A i \in 1 .. Len(w.pages) : v.pages[i] = w.pages[i]
             /\ \A i \in 1 .. Len(new) : v.pages[Len(w.pages) + i] = new[i]
<1>1. PICK m \in Nat : m = Len(new)
  OBVIOUS
<1>2. PICK f : AddPagesRun(f, w, new, m) /\ AddPages(w, new) = f[m]
  BY <1>1, AddPagesIs
<1>3. PICK l \in Nat : l = Len(w.pages)
  BY DEF TableKept
<1> DEFINE After(v, k) == Added(v, w, new, n, l, m, k)
           T == {k \in Nat : k <= m => After(f[k], k)}
<1>4. 0 \in T
  <2>1. f[0] = w /\ n + (m - 0) = n + Len(new)
    BY <1>1, <1>2 DEF AddPagesRun
  <2>2. Same(w, w, {"pages", "tocpages", "freespace"})
    BY DEF Same
  <2> QED
    BY <1>3, <2>1, <2>2 DEF Added
<1>5. ASSUME NEW k \in T
      PROVE  k + 1 \in T
  <2> SUFFICES ASSUME k + 1 <= m
               PROVE  After(f[k + 1], k + 1)
    OBVIOUS
  <2>1. k \in Nat /\ After(f[k], k)
    OBVIOUS
  <2> DEFINE u == f[k]
             v == f[k + 1]
             pd == new[k + 1]
  <2>2. v = AddPage(u, pd) /\ pd \in PageData
    <3>1. k + 1 \in 1 .. m /\ (k + 1) - 1 = k
      BY <2>1
    <3>2. f[k + 1] = AddPage(f[(k + 1) - 1], new[k + 1])
      BY <1>2, <3>1 DEF AddPagesRun
    <3>3. new[k + 1] \in PageData
      BY <1>1, <3>1
    <3> QED
      BY <3>1, <3>2, <3>3
  <2> HIDE DEF v, u, pd, T
  <2>3. n + (m - k) = (n + (m - (k + 1))) + 1 /\ n + (m - (k + 1)) \in Nat
    BY <2>1
  <2>4. DOMAIN u = Fields /\ TableKept(u, (n + (m - (k + 1))) + 1) /\ IndexKept(u)
    BY <2>1, <2>3 DEF Same, u, Added
  <2>5. /\ Same(v, u, {"pages", "tocpages", "freespace"})
        /\ v.pages = Append(u.pages, pd)
        /\ TableKept(v, n + (m - (k + 1))) /\ IndexKept(v)
    <3>1. PICK d \in Nat : d = n + (m - (k + 1)) BY <2>3
    <3> QED BY <2>2, <2>4, <3>1, AddPageKeeps
  <2>6. Same(v, w, {"pages", "tocpages", "freespace"})
    BY <2>1, <2>5 DEF Same, u, Added
  <2>7. /\ Len(v.pages) = l + (k + 1)
        /\ \A i \in 1 .. l + (k + 1) : v.pages[i] = IF i <= l + k THEN u.pages[i] ELSE pd
    <3>1. u.pages \in Seq(PageData) /\ Len(u.pages) = l + k
      BY <2>1, <2>4 DEF TableKept, u, Added
    <3>2. PICK z \in Seq(PageData) : z = u.pages BY <3>1
    <3>3. /\ Append(z, pd) \in Seq(PageData) /\ Len(Append(z, pd)) = Len(z) + 1
          /\ \A i \in 1 .. Len(z) + 1 : Append(z, pd)[i] = IF i <= Len(z) THEN z[i] ELSE pd
      BY <2>2, AppendIs
    <3>4. (l + k) + 1 = l + (k + 1) BY <2>1
    <3> QED BY <2>5, <3>1, <3>2, <3>3, <3>4
  <2>8. \A i \in 1 .. l : v.pages[i] = w.pages[i]
    BY <2>1, <2>7 DEF u, Added
  <2>9. ASSUME NEW i \in 1 .. k + 1
        PROVE  v.pages[l + i] = new[i]
    <3>1. l + i \in 1 .. l + (k + 1) /\ (l + i <= l + k <=> i <= k) /\ (~(i <= k) => i = k + 1)
      BY <2>1
    <3> QED
      BY <2>1, <2>7, <3>1 DEF u, pd, Added
  <2> QED
    BY <2>5, <2>6, <2>7, <2>8, <2>9 DEF v, Added
<1> HIDE DEF T
<1>6. Nat \subseteq T
  BY <1>4, <1>5, SetInduction
<1>7. After(f[m], m)
  BY <1>6 DEF T
<1>8. n + (m - m) = n
  OBVIOUS
<1> QED
  BY <1>1, <1>2, <1>3, <1>7, <1>8 DEF Added

(***************************************************************************)
(* Positions, pages, and the changes that a call plans                     *)
(***************************************************************************)

\* Division with a remainder.
LEMMA DivMod ==
  \A a \in Nat, n \in Nat \ {0} : a \div n \in Nat /\ a % n \in 0 .. n - 1 /\ a = (a \div n) * n + (a % n)
OBVIOUS

\* A quotient and a remainder are the only ones.
LEMMA DivModUnique ==
  \A q, r \in Nat, n \in Nat \ {0} : r < n => (q * n + r) \div n = q /\ (q * n + r) % n = r
OBVIOUS

\* The sizes that the assumption on the constants gives: a header, a link and at
\* least one entry fit in a page.
LEMMA Sizes ==
  /\ HeadSize \in Nat /\ LinkSize \in Nat \ {0} /\ PageSize \in Nat \ {0} /\ MinFree \in Nat
  /\ MaxRemembered \in Nat /\ MapPages \in Nat \ {0}
  /\ HeadSize >= 2 /\ PageSize > HeadSize + LinkSize
BY PageFileConstants

\* A position is in a page, at a place within it (restInPage, file.C:136).
LEMMA PageParts ==
  \A a \in Nat : /\ a \div PageSize \in Nat /\ a % PageSize \in 0 .. PageSize - 1
                 /\ a = (a \div PageSize) * PageSize + (a % PageSize)
<1> PICK n \in Nat \ {0} : n = PageSize
  BY Sizes
<1> \A a \in Nat : a \div n \in Nat /\ a % n \in 0 .. n - 1 /\ a = (a \div n) * n + (a % n)
  BY DivMod
<1> QED
  OBVIOUS

\* The page of a position that is given by its page and its place there.
LEMMA PagePlus ==
  \A q, r \in Nat : r < PageSize =>
    (q * PageSize + r) \div PageSize = q /\ (q * PageSize + r) % PageSize = r
<1> PICK n \in Nat \ {0} : n = PageSize
  BY Sizes
<1> \A q, r \in Nat : r < n => (q * n + r) \div n = q /\ (q * n + r) % n = r
  BY DivModUnique
<1> QED
  OBVIOUS

\* At every position there is some rest of the page (restInPage, file.C:136).
LEMMA RestIs ==
  \A a \in Nat : restInPage(a) \in Nat /\ restInPage(a) \in 1 .. PageSize
BY PageParts, Sizes DEF restInPage

\* A plan with a change more is a plan.
LEMMA PlanGoesOn ==
  ASSUME NEW out, PlanKept(out), NEW c, IsChange(c)
  PROVE  PlanKept(Append(out, c))
<1>1. PICK S : out \in Seq(S) /\ \A x \in S : IsChange(x)
  BY DEF PlanKept
<1>2. out \in Seq(S \cup {c})
  BY <1>1
<1>3. Append(out, c) \in Seq(S \cup {c})
  BY <1>2
<1>4. \A x \in S \cup {c} : IsChange(x)
  BY <1>1
<1> QED
  BY <1>3, <1>4 DEF PlanKept

\* A change that is planned touches nothing else of the memory (write, file.C:187).
LEMMA EmitIs ==
  ASSUME NEW w, DOMAIN w = Fields, NEW c
  PROVE  Same(Emit(w, c), w, {"out"}) /\ Emit(w, c).out = Append(w.out, c)
BY DEF Emit, Same, Fields

\* allocPages (file.C:175) makes the file longer by whole pages.
LEMMA GrowIs ==
  ASSUME NEW w, DOMAIN w = Fields, NEW n \in Nat, PlanKept(w.out)
  PROVE  /\ Same(allocPages(w, n), w, {"out", "size"})
         /\ allocPages(w, n).size = w.size + n * PageSize
         /\ PlanKept(allocPages(w, n).out)
<1>1. /\ Same(allocPages(w, n), w, {"out", "size"}) /\ allocPages(w, n).size = w.size + n * PageSize
      /\ allocPages(w, n).out = Append(w.out, [op |-> "grow", pages |-> n])
  BY DEF Emit, Same, Fields, allocPages
<1>2. IsChange([op |-> "grow", pages |-> n])
  BY DEF IsChange
<1> QED
  BY <1>1, <1>2, PlanGoesOn

\* What is left at the head of the table before the link to its next page.
Room(w) == restInPage(w.head) - LinkSize

\* The head moves within its page, as appendTOCData (file.C:403) moves it.
LEMMA HeadMoves ==
  ASSUME NEW head \in Nat, NEW n \in Nat, n <= restInPage(head) - LinkSize
  PROVE  restInPage(head + n) = restInPage(head) - n
<1>1. PICK q \in Nat, r \in Nat : q = head \div PageSize /\ r = head % PageSize /\ head = q * PageSize + r
  BY PageParts
<1>2. r + n < PageSize /\ r + n \in Nat
  BY <1>1, Sizes DEF restInPage
<1>3. head + n = q * PageSize + (r + n)
  <2>1. q * PageSize \in Nat BY Sizes
  <2> QED BY <1>1, <2>1
<1>4. (head + n) % PageSize = r + n
  BY <1>2, <1>3, PagePlus
<1> QED
  BY <1>1, <1>4, Sizes DEF restInPage

\* At its first position the whole page is left.
LEMMA PageStart ==
  ASSUME NEW p \in Nat
  PROVE  p * PageSize \in Nat /\ restInPage(p * PageSize) = PageSize
<1>1. p * PageSize \in Nat /\ p * PageSize = p * PageSize + 0
  BY Sizes
<1>2. (p * PageSize) % PageSize = 0
  BY <1>1, PagePlus, Sizes
<1> QED
  BY <1>1, <1>2, Sizes DEF restInPage

\* The entry of a new page of the table.
NewToc == pagedata("toc", 0)

\* The state of the loop that writes entries: what is left to write, the pages of
\* the table that it made and has yet to enter, and a memory that is sound otherwise.
Writing(s) ==
  /\ DOMAIN s = {"w", "left", "tocs"}
  /\ DOMAIN s.w = Fields
  /\ s.left \in Seq(PageData) /\ s.tocs \in Seq({NewToc})
  /\ TableKept(s.w, Len(s.tocs)) /\ IndexKept(s.w) /\ PlanKept(s.w.out)

\* What TableKept says of a memory that has the same pages, another size and
\* another head.
LEMMA TableMoves ==
  ASSUME NEW w, NEW n, TableKept(w, n), NEW v, v.pages = w.pages, v.tocpages = w.tocpages,
         NEW m, v.size = (Len(w.pages) + m) * PageSize, v.head \in Nat, restInPage(v.head) >= LinkSize
  PROVE  TableKept(v, m)
BY DEF TableKept, Listed, PageOf

\* Writing entries up to the link (file.C:403) moves the head by as many, and no
\* further than to the link.
LEMMA SlotsKeep ==
  ASSUME NEW s, Writing(s), NEW n \in 0 .. Len(s.left), n <= Room(s.w)
  PROVE  LET t == Slots(s, n)
         IN  /\ Writing(t) /\ Same(t.w, s.w, {"head", "out"}) /\ t.tocs = s.tocs
             /\ Len(t.left) = Len(s.left) - n /\ Room(t.w) = Room(s.w) - n
<1> DEFINE t == Slots(s, n)
           c == Write("toc", s.w.head, [i \in 1 .. n |-> PageCell(s.left[i])])
           e == PutSlots(s.w, s.left, n)
<1>1. /\ DOMAIN t = {"w", "left", "tocs"} /\ t.tocs = s.tocs
      /\ t.left = SubSeq(s.left, n + 1, Len(s.left))
      /\ t.w = e
  <2> HIDE DEF e
  <2>1. t = [s EXCEPT !.w = e, !.left = SubSeq(s.left, n + 1, Len(s.left))]
    BY DEF Slots, e
  <2>2. DOMAIN s = {"w", "left", "tocs"}
    BY DEF Writing
  <2> QED BY <2>1, <2>2
<1> HIDE DEF t
<1>2. Same(t.w, s.w, {"head", "out"}) /\ t.w.head = s.w.head + n /\ t.w.out = Append(s.w.out, c)
  BY <1>1 DEF PutSlots, Emit, Same, Fields, Writing
<1>3. PlanKept(t.w.out)
  <2>1. IsChange(c) BY DEF IsChange, Write
  <2> QED BY <1>2, <2>1, PlanGoesOn DEF Writing
<1>4. t.left \in Seq(PageData) /\ Len(t.left) = Len(s.left) - n
  BY <1>1 DEF Writing
<1>5. s.w.head \in Nat /\ t.w.head \in Nat /\ restInPage(t.w.head) = restInPage(s.w.head) - n
  BY <1>2, HeadMoves DEF Writing, TableKept, Room
<1>6. restInPage(s.w.head) \in Int
  <2>1. PICK h \in Nat : h = s.w.head
    BY <1>5
  <2>2. restInPage(h) \in Nat
    BY RestIs
  <2> QED BY <2>1, <2>2
<1>7. TableKept(t.w, Len(t.tocs))
  <2>1. /\ t.w.pages = s.w.pages /\ t.w.tocpages = s.w.tocpages /\ t.w.size = s.w.size
    BY <1>2 DEF Same, Fields
  <2>2. restInPage(t.w.head) >= LinkSize
    BY <1>5, <1>6, Sizes DEF Room
  <2>3. t.w.size = (Len(s.w.pages) + Len(t.tocs)) * PageSize
    BY <2>1, <1>1 DEF Writing, TableKept
  <2>4. TableKept(s.w, Len(s.tocs))
    BY DEF Writing
  <2> QED BY <2>1, <2>2, <2>3, <2>4, <1>5, TableMoves
<1>8. IndexKept(t.w)
  <2>1. t.w.pages = s.w.pages /\ t.w.freespace = s.w.freespace
    BY <1>2 DEF Same, Fields
  <2>2. s.w.pages \in Seq(PageData) /\ IndexKept(s.w)
    BY DEF Writing, TableKept
  <2> QED BY <2>1, <2>2, PagesAndIndex
<1>9. Room(t.w) = Room(s.w) - n
  BY <1>5, <1>6, Sizes DEF Room
<1>10. Writing(t)
  BY <1>1, <1>2, <1>3, <1>4, <1>7, <1>8 DEF Writing, Same
<1> QED
  BY <1>1, <1>2, <1>4, <1>9, <1>10 DEF t

(***************************************************************************)
(* The loop that writes the entries of new pages                           *)
(***************************************************************************)

\* What appending to the table changes of the memory.
TableFields == {"size", "head", "tocpages", "pages", "freespace", "out"}

\* Nothing is left to write or to enter.
Done(s) == s.left = <<>> /\ s.tocs = <<>>

\* A page of the table needs room for its own entry: what is missing of it, and a
\* number for the loop's rank.
Want(room) == IF room = 0 THEN 4 ELSE IF room < 3 THEN 3 - room ELSE 0

\* The rank of a state of the loop, which every turn lowers.
Rank(s) == 2 * Len(s.left) + 3 * Len(s.tocs) + Want(Room(s.w))

\* The head leaves room for the link.
LEMMA RoomIs ==
  ASSUME NEW w, NEW n, TableKept(w, n)
  PROVE  Room(w) \in Nat /\ Want(Room(w)) \in 0 .. 4
<1>1. PICK h \in Nat : h = w.head /\ restInPage(h) >= LinkSize
  BY DEF TableKept
<1>2. Room(w) \in Nat
  BY <1>1, RestIs, Sizes DEF Room
<1> QED
  BY <1>2 DEF Want

\* A full page of the table is followed by a new one (file.C:430), linked to it,
\* whose own entry is then due.
LEMMA IfFullKeeps ==
  ASSUME NEW s, Writing(s)
  PROVE  LET t == IfFull(s)
         IN  /\ Writing(t) /\ Same(t.w, s.w, {"size", "head", "out"})
             /\ t.left = s.left
             /\ Room(s.w) > 0 => t = s
             /\ Room(s.w) = 0 => Len(t.tocs) = Len(s.tocs) + 1 /\ Room(t.w) >= 3
<1> DEFINE t == IfFull(s)
<1>1. PICK h \in Nat : h = s.w.head
  BY DEF Writing, TableKept
<1>2. restInPage(h) \in Nat /\ restInPage(h) >= LinkSize /\ Room(s.w) = restInPage(h) - LinkSize
  BY <1>1, RestIs DEF Writing, TableKept, Room
<1>3. CASE Room(s.w) > 0
  <2>1. restInPage(s.w.head) # LinkSize
    BY <1>1, <1>2, <1>3, Sizes
  <2>2. t = s
    BY <2>1 DEF IfFull
  <2> HIDE DEF t
  <2> QED BY <1>3, <2>2 DEF Writing, Same, t
<1>4. CASE Room(s.w) = 0
  <2>1. restInPage(s.w.head) = LinkSize
    BY <1>1, <1>2, <1>4, Sizes
  <2> DEFINE next == Len(s.w.pages) + Len(s.tocs)
             e == LinkTo(s.w, next)
             g == [s.w EXCEPT !.head = s.w.size]
             b == allocPages(g, 1)
             c == Write("link", s.w.head, [i \in 1 .. LinkSize |-> <<"link", next>>])
  <2>2. t = [s EXCEPT !.w = e, !.tocs = Append(s.tocs, NewToc)]
    BY <2>1 DEF IfFull, NewToc
  <2>3. e = Emit(b, c)
    BY DEF LinkTo
  <2> HIDE DEF e
  <2>4. DOMAIN t = {"w", "left", "tocs"} /\ t.w = e /\ t.left = s.left /\ t.tocs = Append(s.tocs, NewToc)
    BY <2>2 DEF Writing
  <2> HIDE DEF t
  <2>5. Same(g, s.w, {"head"}) /\ g.head = s.w.size
    BY DEF Same, Fields, Writing
  <2> HIDE DEF g
  <2>6. Same(b, g, {"out", "size"}) /\ b.size = g.size + 1 * PageSize /\ PlanKept(b.out)
    <3>1. DOMAIN g = Fields /\ PlanKept(g.out)
      BY <2>5 DEF Same, Fields, Writing
    <3> QED BY <3>1, GrowIs
  <2> HIDE DEF b
  <2>7. Same(e, b, {"out"}) /\ PlanKept(e.out)
    <3>1. IsChange(c) BY DEF IsChange, Write
    <3>2. DOMAIN b = Fields BY <2>6 DEF Same
    <3> HIDE DEF c
    <3>3. Same(e, b, {"out"}) /\ e.out = Append(b.out, c)
      BY <2>3, <3>2, EmitIs
    <3>4. PlanKept(Append(b.out, c))
      BY <2>6, <3>1, PlanGoesOn
    <3> QED BY <3>3, <3>4
  <2>8. Same(e, s.w, {"size", "head", "out"}) /\ e.size = s.w.size + PageSize /\ e.head = s.w.size
    BY <2>5, <2>6, <2>7, Sizes DEF Same, Fields
  <2>9. Len(t.tocs) = Len(s.tocs) + 1 /\ t.tocs \in Seq({NewToc})
    BY <2>4 DEF Writing
  <2>10. e.size = (Len(s.w.pages) + Len(t.tocs)) * PageSize
    <3>1. PICK m \in Nat, n \in Nat : m = Len(s.w.pages) /\ n = Len(s.tocs)
      BY DEF Writing, TableKept
    <3>2. s.w.size = (m + n) * PageSize
      BY <3>1 DEF Writing, TableKept
    <3>3. (m + n) * PageSize + PageSize = (m + (n + 1)) * PageSize
      BY Sizes
    <3> QED BY <2>8, <2>9, <3>1, <3>2, <3>3
  <2>11. e.head \in Nat /\ restInPage(e.head) = PageSize
    <3>1. PICK m \in Nat : m = Len(s.w.pages) + Len(s.tocs)
      BY DEF Writing, TableKept
    <3>2. e.head = m * PageSize
      BY <2>8, <3>1 DEF Writing, TableKept
    <3> QED BY <3>2, PageStart
  <2>12. TableKept(e, Len(t.tocs))
    <3>1. e.pages = s.w.pages /\ e.tocpages = s.w.tocpages
      BY <2>8 DEF Same, Fields
    <3>2. TableKept(s.w, Len(s.tocs))
      BY DEF Writing
    <3>3. restInPage(e.head) >= LinkSize
      BY <2>11, Sizes
    <3> QED BY <2>10, <2>11, <3>1, <3>2, <3>3, TableMoves
  <2>13. IndexKept(e)
    <3>1. e.pages = s.w.pages /\ e.freespace = s.w.freespace
      BY <2>8 DEF Same, Fields
    <3>2. s.w.pages \in Seq(PageData) /\ IndexKept(s.w)
      BY DEF Writing, TableKept
    <3> QED BY <3>1, <3>2, PagesAndIndex
  <2>14. Room(e) >= 3
    BY <2>11, Sizes DEF Room
  <2>15. Writing(t)
    BY <2>4, <2>7, <2>8, <2>9, <2>12, <2>13 DEF Writing, Same
  <2>16. ~(Room(s.w) > 0)
    BY <1>4
  <2> QED BY <2>4, <2>8, <2>9, <2>14, <2>15, <2>16 DEF t
<1>5. Room(s.w) > 0 \/ Room(s.w) = 0
  BY <1>2, Sizes
<1> QED BY <1>3, <1>4, <1>5

\* The pages that v has more than w are pages of the table.
Longer(v, w) ==
  /\ v.pages \in Seq(PageData) /\ Len(w.pages) <= Len(v.pages)
  /\ \A i \in 1 .. Len(w.pages) : v.pages[i] = w.pages[i]
  /\ \A i \in Len(w.pages) + 1 .. Len(v.pages) : v.pages[i] = NewToc

\* The pages of the table that the loop made are entered in the memory, and their
\* entries are the next to write (file.C:445).
LEMMA NewPagesKeep ==
  ASSUME NEW s, Writing(s), NEW t, t = [w |-> AddPages(s.w, s.tocs), left |-> s.tocs, tocs |-> <<>>]
  PROVE  Writing(t) /\ Same(t.w, s.w, TableFields) /\ Longer(t.w, s.w) /\ t.w.head = s.w.head
<1>1. PICK new \in Seq(PageData), l \in Nat, m \in Nat :
        new = s.tocs /\ l = Len(s.w.pages) /\ m = Len(new) /\ \A i \in 1 .. m : new[i] = NewToc
  <2>1. NewToc \in PageData BY Sizes DEF NewToc, PageData, pagedata, PageTypes
  <2>2. s.tocs \in Seq({NewToc}) BY DEF Writing
  <2>3. s.tocs \in Seq(PageData) BY <2>1, <2>2
  <2>4. s.w.pages \in Seq(PageData) BY DEF Writing, TableKept
  <2>5. \A i \in 1 .. Len(s.tocs) : s.tocs[i] = NewToc BY <2>2
  <2> QED BY <2>3, <2>4, <2>5
<1>2. DOMAIN s.w = Fields /\ TableKept(s.w, 0 + Len(new)) /\ IndexKept(s.w)
  <2>1. 0 + Len(new) = Len(s.tocs) BY <1>1
  <2> QED BY <2>1 DEF Writing
<1> DEFINE v == AddPages(s.w, new)
<1>3. /\ Same(v, s.w, {"pages", "tocpages", "freespace"})
      /\ TableKept(v, 0) /\ IndexKept(v)
      /\ Len(v.pages) = Len(s.w.pages) + Len(new)
      /\ \A i \in 1 .. Len(s.w.pages) : v.pages[i] = s.w.pages[i]
      /\ \A i \in 1 .. Len(new) : v.pages[Len(s.w.pages) + i] = new[i]
  BY <1>2, AddPagesKeep
<1> HIDE DEF v
<1>4. t.w = v /\ t.left = new /\ t.tocs = <<>> /\ DOMAIN t = {"w", "left", "tocs"}
  BY <1>1 DEF v
<1>5. Writing(t)
  <2>1. <<>> \in Seq({NewToc}) /\ Len(<<>>) = 0
    OBVIOUS
  <2>2. v.out = s.w.out /\ DOMAIN v = Fields
    BY <1>3 DEF Same, Fields
  <2>3. PlanKept(v.out) BY <2>2 DEF Writing
  <2> QED BY <1>3, <1>4, <2>1, <2>2, <2>3 DEF Writing
<1>6. Len(v.pages) = l + m
  BY <1>1, <1>3
<1>7. Longer(v, s.w)
  <2>1. ASSUME NEW i \in l + 1 .. l + m
        PROVE  v.pages[i] = NewToc
    <3>1. i - l \in 1 .. m /\ l + (i - l) = i
      OBVIOUS
    <3> QED BY <1>1, <1>3, <3>1
  <2>2. v.pages \in Seq(PageData) BY <1>3 DEF TableKept
  <2>3. l <= l + m OBVIOUS
  <2> QED BY <1>1, <1>3, <1>6, <2>1, <2>2, <2>3 DEF Longer
<1>8. Same(v, s.w, TableFields) /\ v.head = s.w.head
  BY <1>3 DEF Same, TableFields, Fields
<1> QED BY <1>4, <1>5, <1>7, <1>8

\* Two appends to the table, one after the other.
LEMMA LongerIs ==
  ASSUME NEW u, NEW v, NEW w, Longer(v, u), Longer(u, w), w.pages \in Seq(PageData)
  PROVE  Longer(v, w)
<1>1. PICK l \in Nat, m \in Nat, n \in Nat :
        l = Len(w.pages) /\ m = Len(u.pages) /\ n = Len(v.pages) /\ l <= m /\ m <= n
  BY DEF Longer
<1>2. /\ \A i \in 1 .. m : v.pages[i] = u.pages[i]
      /\ \A i \in m + 1 .. n : v.pages[i] = NewToc
      /\ \A i \in 1 .. l : u.pages[i] = w.pages[i]
      /\ \A i \in l + 1 .. m : u.pages[i] = NewToc
  BY <1>1 DEF Longer
<1>3. \A i \in 1 .. l : v.pages[i] = w.pages[i]
  BY <1>1, <1>2
<1>4. ASSUME NEW i \in l + 1 .. n
      PROVE  v.pages[i] = NewToc
  <2>1. i \in l + 1 .. m \/ i \in m + 1 .. n
    BY <1>1
  <2>2. i \in l + 1 .. m => i \in 1 .. m
    BY <1>1
  <2> QED BY <1>2, <2>1, <2>2
<1> QED
  BY <1>1, <1>3, <1>4 DEF Longer

\* Two steps change what either of them may.
LEMMA SameIs ==
  ASSUME NEW u, NEW v, NEW w, NEW F, NEW G, Same(v, u, F), Same(u, w, G), F \subseteq G
  PROVE  Same(v, w, G)
BY DEF Same

\* What a turn of the loop leaves.
Written(t, s) == Writing(t) /\ Same(t.w, s.w, TableFields) /\ Longer(t.w, s.w)

\* And its progress: the rank falls unless nothing is left.
Turned(t, s) ==
  /\ Written(t, s)
  /\ Done(s) => t = s
  /\ ~Done(s) => Rank(t) < Rank(s)
  /\ Rank(s) \in Nat

\* Each turn of appendTOCData's loop (file.C:402) keeps the memory sound and comes
\* nearer to the end of it, also where a new page of the table needs an entry.
LEMMA WriteSlotsKeep ==
  ASSUME NEW s, Writing(s)
  PROVE  Turned(WriteSlots(s), s)
<1> DEFINE t == WriteSlots(s)
<1>1. PICK a \in Nat, b \in Nat, r \in Nat :
        a = Len(s.left) /\ b = Len(s.tocs) /\ r = Room(s.w) /\ Want(r) \in 0 .. 4
  BY RoomIs DEF Writing
<1>2. Rank(s) = 2 * a + 3 * b + Want(r)
  BY <1>1 DEF Rank
<1>3. (s.left = <<>> <=> a = 0) /\ (s.tocs = <<>> <=> b = 0)
  BY <1>1 DEF Writing
<1>4. s.w.pages \in Seq(PageData)
  BY DEF Writing, TableKept
<1>5. CASE Done(s)
  <2>1. t = s
    BY <1>5 DEF WriteSlots, Done
  <2>2. Longer(s.w, s.w) /\ Same(s.w, s.w, TableFields)
    BY <1>4 DEF Longer, Same, Writing
  <2> HIDE DEF t
  <2>3. Rank(s) \in Nat
    <3>1. \A c \in Nat : 2 * a + 3 * b + c \in Nat OBVIOUS
    <3>2. Want(r) \in Nat BY <1>1
    <3> QED BY <1>2, <3>1, <3>2
  <2>4. Turned(t, s) BY <1>5, <2>1, <2>2, <2>3 DEF Turned, Written
  <2> QED BY <2>4 DEF t
<1>6. CASE s.left = <<>> /\ s.tocs # <<>>
  <2>1. t = [w |-> AddPages(s.w, s.tocs), left |-> s.tocs, tocs |-> <<>>]
    BY <1>6 DEF WriteSlots
  <2> HIDE DEF t
  <2>2. Writing(t) /\ Same(t.w, s.w, TableFields) /\ Longer(t.w, s.w) /\ t.w.head = s.w.head
    BY <2>1, NewPagesKeep
  <2>3. Rank(t) = 2 * b + 3 * 0 + Want(r)
    <3>1. Len(t.left) = b /\ Len(t.tocs) = 0
      BY <1>1, <2>1
    <3>2. Room(t.w) = r
      BY <1>1, <2>2 DEF Room
    <3> QED BY <3>1, <3>2 DEF Rank
  <2>4. a = 0 /\ b > 0
    BY <1>3, <1>6
  <2>5. Rank(t) < Rank(s) /\ Rank(s) \in Nat
    <3>1. PICK c \in Nat : c = Want(r)
      BY <1>1
    <3>2. 2 * b + 3 * 0 + c < 2 * a + 3 * b + c /\ 2 * a + 3 * b + c \in Nat
      BY <2>4
    <3> QED BY <1>2, <2>3, <3>1, <3>2
  <2>6. Turned(t, s) BY <1>6, <2>2, <2>5 DEF Done, Turned, Written
  <2> QED BY <2>6 DEF t
<1>7. CASE s.left # <<>>
  <2> DEFINE n == Min({Room(s.w), Len(s.left)})
             u == Slots(s, n)
  <2>1. t = IfFull(u)
    <3>1. Room(s.w) = restInPage(s.w.head) - LinkSize
      BY DEF Room
    <3> QED BY <1>7, <3>1 DEF WriteSlots
  <2>2. n \in 0 .. Len(s.left) /\ n <= Room(s.w) /\ (n = r \/ n = a)
    <3>1. {r, a} \in SUBSET Nat /\ {r, a} # {}
      OBVIOUS
    <3>2. Min({r, a}) \in {r, a} /\ \A x \in {r, a} : Min({r, a}) <= x
      BY ONLY <3>1, MinIs
    <3> QED BY <1>1, <3>2
  <2> HIDE DEF n
  <2>3. PICK k \in 0 .. Len(s.left) : k = n
    BY <2>2
  <2>4. /\ Writing(u) /\ Same(u.w, s.w, {"head", "out"}) /\ u.tocs = s.tocs
        /\ Len(u.left) = Len(s.left) - n /\ Room(u.w) = Room(s.w) - n
    BY <2>2, <2>3, SlotsKeep
  <2> HIDE DEF u
  <2>5. /\ Writing(t) /\ Same(t.w, u.w, {"size", "head", "out"}) /\ t.left = u.left
        /\ Room(u.w) > 0 => t = u
        /\ Room(u.w) = 0 => Len(t.tocs) = Len(u.tocs) + 1 /\ Room(t.w) >= 3
    BY <2>1, <2>4, IfFullKeeps
  <2> HIDE DEF t
  <2>6. Same(t.w, s.w, TableFields) /\ t.w.pages = s.w.pages
    BY <2>4, <2>5 DEF Same, Fields, TableFields
  <2>7. Longer(t.w, s.w)
    BY <1>4, <2>6 DEF Longer
  <2>8. n \in Nat /\ n <= a /\ n <= r /\ a > 0 /\ (n = r \/ n = a)
    BY <1>1, <1>3, <1>7, <2>2, <2>3
  <2>9. PICK m \in Nat : m = n
    BY <2>8
  <2>10. CASE r - m > 0
    <3>1. t = u
      BY <1>1, <2>4, <2>5, <2>9, <2>10
    <3>2. Rank(t) = 2 * (a - m) + 3 * b + Want(r - m)
      BY <1>1, <2>4, <2>9, <3>1 DEF Rank
    <3>3. m = a /\ m > 0
      BY <2>8, <2>9, <2>10
    <3>4. Want(r - m) <= Want(r) + m /\ Want(r - m) \in Nat
      BY <2>9, <2>10 DEF Want
    <3>5. Rank(t) < Rank(s) /\ Rank(s) \in Nat
      <4>1. PICK c \in Nat, d \in Nat : c = Want(r) /\ d = Want(r - m)
        BY <1>1, <3>4
      <4>2. 2 * (a - m) + 3 * b + d < 2 * a + 3 * b + c /\ 2 * a + 3 * b + c \in Nat
        BY <3>3, <3>4, <4>1
      <4> QED BY <1>2, <3>2, <4>1, <4>2
    <3>6. Turned(t, s) BY <1>7, <2>5, <2>6, <2>7, <3>5 DEF Done, Turned, Written
    <3> QED BY <3>6 DEF t
  <2>11. CASE r - m = 0
    <3>1. Len(t.tocs) = b + 1 /\ Room(t.w) >= 3 /\ Len(t.left) = a - m
      BY <1>1, <2>4, <2>5, <2>9, <2>11
    <3>2. Want(Room(t.w)) = 0
      <4>1. Room(t.w) \in Nat
        BY <2>5, RoomIs DEF Writing
      <4> QED BY <3>1, <4>1 DEF Want
    <3>3. Rank(t) = 2 * (a - m) + 3 * (b + 1) + 0
      BY <3>1, <3>2 DEF Rank
    <3>4. 3 < 2 * m + Want(r)
      BY <2>9, <2>11 DEF Want
    <3>5. Rank(t) < Rank(s) /\ Rank(s) \in Nat
      <4>1. PICK c \in Nat : c = Want(r)
        BY <1>1
      <4>2. 2 * (a - m) + 3 * (b + 1) + 0 < 2 * a + 3 * b + c /\ 2 * a + 3 * b + c \in Nat
        BY <3>4, <4>1
      <4> QED BY <1>2, <3>3, <4>1, <4>2
    <3>6. Turned(t, s) BY <1>7, <2>5, <2>6, <2>7, <3>5 DEF Done, Turned, Written
    <3> QED BY <3>6 DEF t
  <2> QED BY <2>8, <2>9, <2>10, <2>11
<1> QED BY <1>5, <1>6, <1>7 DEF Done

\* The loop of file.C:402 ends, with every entry written and every page entered.
LEMMA WritingEnds ==
  ASSUME NEW s, Writing(s), NEW n \in Nat, n >= Rank(s)
  PROVE  LET t == Iterate(WriteSlots, s, n) IN Written(t, s) /\ Done(t)
<1>1. PICK f : TableRun(f, s, n) /\ Iterate(WriteSlots, s, n) = f[n]
  BY TableIs
<1> DEFINE T == {k \in Nat : k <= n => Written(f[k], s) /\ (Done(f[k]) \/ Rank(f[k]) + k <= Rank(s))}
<1>2. 0 \in T
  <2>1. f[0] = s
    BY <1>1 DEF TableRun
  <2>2. Writing(s) /\ Same(s.w, s.w, TableFields) /\ Longer(s.w, s.w)
    BY DEF Longer, Same, Writing, TableKept
  <2>3. Rank(s) + 0 <= Rank(s)
    BY WriteSlotsKeep DEF Turned
  <2> QED BY <2>1, <2>2, <2>3 DEF Written
<1>3. ASSUME NEW k \in T
      PROVE  k + 1 \in T
  <2> SUFFICES ASSUME k + 1 <= n
               PROVE  /\ Written(f[k + 1], s)
                      /\ Done(f[k + 1]) \/ Rank(f[k + 1]) + (k + 1) <= Rank(s)
    OBVIOUS
  <2>1. k \in Nat /\ Written(f[k], s) /\ (Done(f[k]) \/ Rank(f[k]) + k <= Rank(s))
    OBVIOUS
  <2>2. f[k + 1] = WriteSlots(f[k])
    <3>1. k + 1 \in 1 .. n /\ (k + 1) - 1 = k
      BY <2>1
    <3>2. f[k + 1] = WriteSlots(f[(k + 1) - 1])
      BY <1>1, <3>1 DEF TableRun
    <3> QED BY <3>1, <3>2
  <2>3. PICK t, v : t = f[k] /\ v = f[k + 1] /\ v = WriteSlots(t) /\ Written(t, s)
    BY <2>1, <2>2
  <2>4. /\ Writing(v) /\ Same(v.w, t.w, TableFields) /\ Longer(v.w, t.w)
        /\ Done(t) => v = t
        /\ ~Done(t) => Rank(v) < Rank(t)
        /\ Rank(t) \in Nat
    BY <2>3, WriteSlotsKeep DEF Written, Turned
  <2>5. Written(v, s)
    <3>1. Same(v.w, s.w, TableFields)
      BY <2>3, <2>4, SameIs DEF Written
    <3>2. Longer(v.w, s.w)
      BY <2>3, <2>4, LongerIs DEF Written, Writing, TableKept
    <3> QED BY <2>4, <3>1, <3>2 DEF Written
  <2>6. Done(v) \/ Rank(v) + (k + 1) <= Rank(s)
    <3>1. Rank(v) \in Nat /\ Rank(s) \in Nat
      BY <2>4, WriteSlotsKeep DEF Turned
    <3> QED BY <2>1, <2>3, <2>4, <3>1
  <2> QED BY <2>3, <2>5, <2>6
<1> HIDE DEF T
<1>4. Nat \subseteq T
  BY <1>2, <1>3, SetInduction
<1>5. Written(f[n], s) /\ (Done(f[n]) \/ Rank(f[n]) + n <= Rank(s))
  BY <1>4 DEF T
<1>6. Rank(f[n]) \in Nat /\ Rank(s) \in Nat
  BY <1>5, WriteSlotsKeep DEF Written, Turned
<1>7. Done(f[n]) \/ Rank(WriteSlots(f[n])) < 0
  BY <1>5, <1>6, WriteSlotsKeep DEF Written, Turned
<1>8. Rank(WriteSlots(f[n])) \in Nat
  BY <1>5, WriteSlotsKeep DEF Written, Turned
<1> QED BY <1>1, <1>5, <1>7, <1>8

(***************************************************************************)
(* Appending to the table                                                  *)
(***************************************************************************)

\* What holds of the file's memory without its maps.
FileKept(w) == DOMAIN w = Fields /\ TableKept(w, 0) /\ IndexKept(w) /\ SpaceKept(w) /\ PlanKept(w.out)

\* v lists the pages of w, then new.
Entered(v, w, new) ==
  /\ Len(w.pages) + Len(new) <= Len(v.pages)
  /\ \A i \in 1 .. Len(w.pages) : v.pages[i] = w.pages[i]
  /\ \A i \in 1 .. Len(new) : v.pages[Len(w.pages) + i] = new[i]

\* appendTOCData (file.C:383): the pages that a call adds are in the table when it
\* returns, those of the table itself among them.
LEMMA AppendKeeps ==
  ASSUME NEW w, DOMAIN w = Fields, NEW new \in Seq(PageData),
         TableKept(w, Len(new)), IndexKept(w), PlanKept(w.out)
  PROVE  LET v == appendTOCData(w, new)
         IN  /\ Same(v, w, TableFields) /\ Entered(v, w, new)
             /\ TableKept(v, 0) /\ IndexKept(v) /\ PlanKept(v.out)
<1> DEFINE u == AddPages(w, new)
           s == [w |-> u, left |-> new, tocs |-> <<>>]
           n == 4 + 4 * Len(new)
           t == Iterate(WriteSlots, s, n)
           v == appendTOCData(w, new)
<1>1. PICK l \in Nat, m \in Nat : l = Len(w.pages) /\ m = Len(new)
  BY DEF TableKept
<1>2. /\ Same(u, w, {"pages", "tocpages", "freespace"})
      /\ TableKept(u, 0) /\ IndexKept(u)
      /\ Len(u.pages) = Len(w.pages) + Len(new)
      /\ \A i \in 1 .. Len(w.pages) : u.pages[i] = w.pages[i]
      /\ \A i \in 1 .. Len(new) : u.pages[Len(w.pages) + i] = new[i]
  <2>1. TableKept(w, 0 + Len(new))
    <3>1. 0 + Len(new) = Len(new) BY <1>1
    <3> QED BY <3>1
  <2> QED BY <2>1, AddPagesKeep
<1> HIDE DEF u
<1>3. Writing(s)
  <2>1. <<>> \in Seq({NewToc}) /\ Len(<<>>) = 0
    OBVIOUS
  <2>2. u.out = w.out /\ DOMAIN u = Fields
    BY <1>2 DEF Same, Fields
  <2>3. PlanKept(u.out) BY <2>2
  <2> QED BY <1>2, <2>1, <2>2, <2>3 DEF Writing
<1>4. n \in Nat /\ n >= Rank(s)
  <2>1. PICK c \in Nat : c = Want(Room(u)) /\ c <= 4
    BY <1>2, RoomIs
  <2>2. Len(<<>>) = 0
    OBVIOUS
  <2>3. Rank(s) = 2 * m + 3 * 0 + c
    BY <1>1, <2>1, <2>2 DEF Rank
  <2>4. 4 + 4 * m \in Nat /\ 4 + 4 * m >= 2 * m + 3 * 0 + c
    BY <2>1
  <2> QED BY <1>1, <2>3, <2>4
<1> HIDE DEF s, n
<1>5. Written(t, s) /\ Done(t)
  BY <1>3, <1>4, WritingEnds
<1>6. v = t.w
  BY DEF appendTOCData, u, s, n
<1> HIDE DEF t, v
<1>7. s.w = u
  BY DEF s
<1>8. Same(v, w, TableFields)
  <2>1. Same(u, w, TableFields)
    BY <1>2 DEF Same, TableFields, Fields
  <2> QED BY <1>5, <1>6, <1>7, <2>1, SameIs DEF Written
<1>9. TableKept(v, 0) /\ IndexKept(v) /\ PlanKept(v.out)
  <2>1. Len(t.tocs) = 0
    BY <1>5 DEF Done
  <2> QED BY <1>5, <1>6, <2>1 DEF Written, Writing
<1>10. Entered(v, w, new)
  <2>1. Len(u.pages) = l + m
    BY <1>1, <1>2
  <2>2. l + m <= Len(v.pages) /\ \A i \in 1 .. l + m : v.pages[i] = u.pages[i]
    BY <1>5, <1>6, <1>7, <2>1 DEF Written, Longer
  <2>3. \A i \in 1 .. l : i \in 1 .. l + m
    OBVIOUS
  <2>4. \A i \in 1 .. m : l + i \in 1 .. l + m
    OBVIOUS
  <2> QED BY <1>1, <1>2, <2>2, <2>3, <2>4 DEF Entered
<1> QED BY <1>8, <1>9, <1>10 DEF v

\* What a request for space returns: a region that is new, in a memory that is
\* sound; space of several pages begins in a new page.
Given(g, w, len) ==
  /\ DOMAIN g = {"w", "at"}
  /\ g.at \in Nat /\ g.w.regions = w.regions \cup {[at |-> g.at, len |-> len]}
  /\ Same(g.w, w, TableFields \cup {"regions"})
  /\ FileKept(g.w) /\ Len(w.pages) <= Len(g.w.pages)
  /\ len <= PageSize \/ Len(w.pages) <= g.at \div PageSize

\* pageCount (file.C:141) is the least number of pages that has the space, and the
\* last of them has the rest free.
LEMMA PageCountIs ==
  ASSUME NEW len \in Nat \ {0}
  PROVE  LET n    == pageCount(len)
             last == IF len % PageSize = 0 THEN 0 ELSE PageSize - (len % PageSize)
         IN  /\ n \in Nat \ {0} /\ last \in 0 .. PageSize
             /\ len + last = n * PageSize
             /\ len <= n * PageSize
             /\ (n - 1) * PageSize < len
<1>1. PICK p \in Nat \ {0} : p = PageSize
  BY Sizes
<1>2. PICK q \in Nat, r \in Nat :
        q = len \div PageSize /\ r = len % PageSize /\ r < PageSize /\ len = q * PageSize + r
  BY PageParts, Sizes
<1>3. len = q * p + r /\ q * p \in Nat
  BY <1>1, <1>2
<1>4. CASE r = 0
  <2>1. pageCount(len) = q
    BY <1>2, <1>4 DEF pageCount
  <2>2. q # 0
    BY <1>3, <1>4
  <2>3. (q - 1) * p = q * p - p
    OBVIOUS
  <2>4. PICK k \in Nat : k = q * p
    BY <1>3
  <2>5. len = k /\ k - p < k /\ k + 0 = k /\ k <= k
    BY <1>3, <1>4, <2>4
  <2>6. q * PageSize = k /\ (q - 1) * PageSize = k - p
    BY <1>1, <2>3, <2>4
  <2>7. len % PageSize = 0 /\ q \in Nat \ {0} /\ 0 \in 0 .. PageSize
    BY <1>2, <1>4, <2>2, Sizes
  <2> QED BY <2>1, <2>5, <2>6, <2>7
<1>5. CASE r > 0
  <2>1. pageCount(len) = q + 1
    BY <1>2, <1>5 DEF pageCount
  <2>2. (q + 1) * p = q * p + p /\ (q + 1) - 1 = q
    OBVIOUS
  <2> QED BY <1>1, <1>2, <1>3, <1>5, <2>1, <2>2
<1> QED BY <1>4, <1>5

(***************************************************************************)
(* Space in new pages                                                      *)
(***************************************************************************)

\* Pages lie apart in the order of their numbers.
LEMMA PageOrder ==
  ASSUME NEW p \in Nat, NEW q \in Nat, p < q
  PROVE  /\ (p + 1) * PageSize <= q * PageSize
         /\ p * PageSize \in Nat /\ q * PageSize \in Nat
         /\ (p + 1) * PageSize = p * PageSize + PageSize
<1>1. PICK n \in Nat : n = PageSize
  BY Sizes
<1>2. (p + 1) * n <= q * n /\ p * n \in Nat /\ q * n \in Nat /\ (p + 1) * n = p * n + n
  OBVIOUS
<1> QED BY <1>1, <1>2

\* Pages that are added (file.C:469) disturb no space that was given out before.
LEMMA OldSpaceKept ==
  ASSUME NEW w, TableKept(w, 0), SpaceKept(w),
         NEW v, v.pages \in Seq(PageData), Len(w.pages) <= Len(v.pages),
         \A i \in 1 .. Len(w.pages) : v.pages[i] = w.pages[i], v.regions = w.regions,
         NEW r \in w.regions, NEW page \in 0 .. Len(v.pages) - 1
  PROVE  ApartFrom(v, r, page)
<1>1. PICK l \in Nat, m \in Nat : l = Len(w.pages) /\ m = Len(v.pages) /\ l <= m
  BY DEF TableKept
<1>2. CASE page < l
  <2>1. page \in 0 .. l - 1 /\ page + 1 \in 1 .. l
    BY <1>1, <1>2
  <2>2. PageOf(v, page) = PageOf(w, page)
    BY <1>1, <2>1 DEF PageOf
  <2>3. ApartFrom(w, r, page)
    BY <1>1, <2>1 DEF SpaceKept
  <2> QED BY <2>2, <2>3 DEF ApartFrom
<1>3. CASE ~(page < l)
  <2>1. PICK a \in Nat, n \in Nat \ {0} : a = r.at /\ n = r.len /\ a + n <= l * PageSize
    <3>1. r \in [at : Nat, len : Nat \ {0}] /\ r.at + r.len <= w.size
      BY DEF SpaceKept
    <3>2. w.size = l * PageSize
      <4>1. w.size = (Len(w.pages) + 0) * PageSize BY DEF TableKept
      <4>2. l + 0 = l OBVIOUS
      <4> QED BY <1>1, <4>1, <4>2
    <3> QED BY <3>1, <3>2
  <2>2. page \in Nat /\ l <= page /\ page + 1 \in 1 .. m
    BY <1>1, <1>3
  <2>3. PICK x \in Nat, y \in Nat, z \in Nat :
          x = l * PageSize /\ y = page * PageSize /\ z = (page + 1) * PageSize /\ x <= y /\ z = y + PageSize
    <3>1. l * PageSize <= page * PageSize /\ l * PageSize \in Nat /\ page * PageSize \in Nat
          /\ (page + 1) * PageSize = page * PageSize + PageSize
      <4>1. PICK k \in Nat : k = PageSize BY Sizes
      <4>2. l * k <= page * k /\ l * k \in Nat /\ page * k \in Nat /\ (page + 1) * k = page * k + k BY <2>2
      <4> QED BY <4>1, <4>2
    <3> QED BY <3>1, Sizes
  <2>4. PICK pd \in PageData : pd = PageOf(v, page)
    BY <1>1, <2>2 DEF PageOf
  <2>5. pd.free \in 0 .. PageSize
    BY <2>4 DEF PageData
  <2>6. a + n <= z - pd.free /\ a + n <= y
    <3>1. PICK f \in Nat, k \in Nat : f = pd.free /\ k = PageSize /\ f <= k
      BY <2>5, Sizes
    <3>2. a + n <= x /\ x <= y /\ z = y + k
      BY <2>1, <2>3, <3>1
    <3>3. a + n <= z - f /\ a + n <= y
      BY <3>1, <3>2
    <3> QED BY <3>1, <3>3
  <2> QED BY <2>1, <2>3, <2>4, <2>6 DEF ApartFrom, Apart
<1> QED BY <1>2, <1>3

\* The entries of the pages that findSpace adds for a request.
NewPages(type, len) ==
  LET n    == pageCount(len)
      last == IF len % PageSize = 0 THEN 0 ELSE PageSize - (len % PageSize)
  IN  [p \in 1 .. n |-> pagedata(type, IF p < n THEN 0 ELSE last)]

\* Space at the start of new pages (file.C:469) is apart from what those pages
\* keep free, and from every other page.
LEMMA NewSpaceApart ==
  ASSUME NEW w, TableKept(w, 0), NEW type \in {"environment", "data"}, NEW len \in Nat \ {0},
         NEW v, v.pages \in Seq(PageData), Entered(v, w, NewPages(type, len)),
         NEW page \in 0 .. Len(v.pages) - 1
  PROVE  ApartFrom(v, [at |-> w.size, len |-> len], page)
<1>1. PICK l \in Nat, m \in Nat : l = Len(w.pages) /\ m = Len(v.pages)
  BY DEF TableKept
<1>2. PICK n \in Nat \ {0}, last \in 0 .. PageSize :
        /\ n = pageCount(len) /\ last = (IF len % PageSize = 0 THEN 0 ELSE PageSize - (len % PageSize))
        /\ len + last = n * PageSize
  BY PageCountIs
<1>3. PICK k \in Nat : k = PageSize
  BY Sizes
<1>4. w.size = l * k
  <2>1. w.size = (Len(w.pages) + 0) * PageSize BY DEF TableKept
  <2>2. l + 0 = l OBVIOUS
  <2> QED BY <1>1, <1>3, <2>1, <2>2
<1>5. page \in Nat /\ page + 1 \in 1 .. m
  BY <1>1
<1>6. PICK pd \in PageData : pd = PageOf(v, page)
  BY <1>1, <1>5 DEF PageOf
<1>7. pd.free \in 0 .. k
  BY <1>3, <1>6 DEF PageData
<1>8. PICK at \in Nat, y \in Nat, z \in Nat, e \in Nat :
        at = l * k /\ y = page * k /\ z = (page + 1) * k /\ z = y + k /\ e = n * k /\ (l + n) * k = at + e
  <2>1. l * k \in Nat /\ page * k \in Nat /\ (page + 1) * k \in Nat /\ (page + 1) * k = page * k + k
        /\ n * k \in Nat /\ (l + n) * k = l * k + n * k
    OBVIOUS
  <2> QED BY <2>1
<1>9. len + last = e
  BY <1>2, <1>3, <1>8
<1>10. SUFFICES /\ pd.free > 0 => at + len <= z - pd.free \/ z <= at
                /\ pd.type = "toc" => at + len <= y \/ z <= at
  BY <1>3, <1>4, <1>6, <1>8 DEF ApartFrom, Apart
<1>11. CASE page < l
  <2>1. (page + 1) * k <= l * k
    BY <1>5, <1>11
  <2>2. z <= at
    BY <1>8, <2>1
  <2> QED BY <2>2
<1>12. CASE l + n <= page
  <2>1. (l + n) * k <= page * k
    BY <1>5, <1>12
  <2>2. at + e <= y
    BY <1>8, <2>1
  <2>3. PICK f \in Nat, d \in Nat : f = pd.free /\ f <= k /\ d = last
    BY <1>3, <1>7
  <2>4. z = y + k /\ len + d = e /\ f <= k
    BY <1>8, <1>9, <2>3
  <2>5. at + len <= z - f /\ at + len <= y
    BY <2>2, <2>4
  <2> QED BY <2>3, <2>5
<1>13. CASE l <= page /\ page < l + n
  <2>1. page - l + 1 \in 1 .. n /\ l + (page - l + 1) = page + 1
    BY <1>5, <1>13
  <2>2. Len(NewPages(type, len)) = n
        /\ NewPages(type, len)[page - l + 1] = pagedata(type, IF page - l + 1 < n THEN 0 ELSE last)
    BY <1>2, <2>1 DEF NewPages
  <2>3. pd = pagedata(type, IF page - l + 1 < n THEN 0 ELSE last)
    BY <1>1, <1>6, <2>1, <2>2 DEF Entered, PageOf
  <2>4. pd.type # "toc" /\ pd.free = IF page - l + 1 < n THEN 0 ELSE last
    BY <2>3 DEF pagedata
  <2>5. CASE page - l + 1 < n
    BY <2>4, <2>5
  <2>6. CASE page - l + 1 = n
    <3>1. page + 1 = l + n
      BY <2>1, <2>6
    <3>2. z = at + e
      BY <1>8, <3>1
    <3> QED BY <1>8, <1>9, <2>4, <2>6, <3>2
  <2> QED BY <2>1, <2>5, <2>6
<1> QED BY <1>5, <1>11, <1>12, <1>13

\* A region that is apart from all others, and from what pages keep free, joins
\* them.
LEMMA SpaceJoins ==
  ASSUME NEW w, SpaceKept(w), NEW v, NEW R, R \in [at : Nat, len : Nat \ {0}],
         v.regions = w.regions \cup {R}, w.size <= v.size, w.size \in Nat, v.size \in Nat,
         R.at + R.len <= v.size, InPages(R),
         \A r \in v.regions : \A page \in 0 .. Len(v.pages) - 1 : ApartFrom(v, r, page),
         \A r \in w.regions : Apart(r, R.at, R.at + R.len)
  PROVE  SpaceKept(v)
<1>1. v.regions \subseteq [at : Nat, len : Nat \ {0}]
  BY DEF SpaceKept
<1>2. ASSUME NEW r \in v.regions
      PROVE  r.at + r.len <= v.size /\ InPages(r)
  <2>1. CASE r = R
    BY <2>1
  <2>2. CASE r # R
    <3>1. r.at + r.len <= w.size /\ InPages(r) /\ r.at \in Nat /\ r.len \in Nat
      BY <2>2 DEF SpaceKept
    <3>2. PICK e \in Nat : e = r.at + r.len
      BY <3>1
    <3> QED BY <3>1, <3>2
  <2> QED BY <2>1, <2>2
<1>3. ASSUME NEW q \in v.regions, NEW r \in v.regions, q # r
      PROVE  Apart(r, q.at, q.at + q.len)
  <2>1. CASE q # R /\ r # R
    BY <1>3, <2>1 DEF SpaceKept
  <2>2. CASE q = R /\ r # R
    BY <2>2
  <2>3. CASE q # R /\ r = R
    <3>1. Apart(q, r.at, r.at + r.len)
      BY <2>3
    <3>2. PICK a \in Nat, b \in Nat, c \in Nat, d \in Nat : a = q.at /\ b = q.len /\ c = r.at /\ d = r.len
      BY <1>1
    <3>3. a + b <= c \/ c + d <= a
      BY <3>1, <3>2 DEF Apart
    <3> QED BY <3>2, <3>3 DEF Apart
  <2> QED BY <1>3, <2>1, <2>2, <2>3
<1> QED BY <1>1, <1>2, <1>3 DEF SpaceKept

\* Giving space out changes what is given out, and nothing else (file.C:466).
LEMMA GivenOutIs ==
  ASSUME NEW v, DOMAIN v = Fields, PlanKept(v.out), NEW at, NEW len
  PROVE  LET g == GivenOut(v, at, len)
         IN  /\ DOMAIN g = {"w", "at"} /\ g.at = at
             /\ Same(g.w, v, {"regions", "out"}) /\ g.w.regions = v.regions \cup {[at |-> at, len |-> len]}
             /\ PlanKept(g.w.out)
<1> DEFINE R == [at |-> at, len |-> len]
           c == GivenMark(at, len)
           e == [v EXCEPT !.regions = @ \cup {R}]
           u == Emit(e, c)
<1>1. GivenOut(v, at, len) = [w |-> u, at |-> at]
  BY DEF GivenOut
<1>2. IsChange(c)
  BY DEF IsChange, GivenMark
<1> HIDE DEF R, c
<1>3. Same(e, v, {"regions"}) /\ e.regions = v.regions \cup {R}
  BY DEF Same, Fields
<1> HIDE DEF e
<1>4. Same(u, e, {"out"}) /\ u.out = Append(e.out, c)
  BY <1>3, EmitIs DEF Same
<1> HIDE DEF u
<1>5. PlanKept(u.out)
  <2>1. e.out = v.out
    BY <1>3 DEF Same, Fields
  <2> QED BY <1>2, <1>4, <2>1, PlanGoesOn
<1>6. Same(u, v, {"regions", "out"}) /\ u.regions = v.regions \cup {R}
  BY <1>3, <1>4 DEF Same, Fields
<1> QED BY <1>1, <1>5, <1>6 DEF R

\* The table and the index say nothing of the regions and of the changes planned.
LEMMA RegionsOnly ==
  ASSUME NEW v, NEW w, Same(v, w, {"regions", "out"}), TableKept(w, 0), IndexKept(w)
  PROVE  TableKept(v, 0) /\ IndexKept(v)
<1>1. /\ v.pages = w.pages /\ v.size = w.size /\ v.tocpages = w.tocpages /\ v.head = w.head
      /\ v.freespace = w.freespace
  BY DEF Same, Fields
<1>2. w.pages \in Seq(PageData)
  BY DEF TableKept
<1>3. IndexKept(v)
  BY <1>1, <1>2, PagesAndIndex
<1>4. TableKept(v, 0)
  BY <1>1 DEF TableKept, Listed, PageOf
<1> QED BY <1>3, <1>4

\* findSpace in new pages (file.C:469-494) gives out space that nothing else has.
LEMMA SpaceInNewPagesGiven ==
  ASSUME NEW w, FileKept(w), NEW type \in {"environment", "data"}, NEW len \in Nat \ {0}
  PROVE  Given(SpaceInNewPages(w, type, len), w, len)
<1> DEFINE new == NewPages(type, len)
           n == pageCount(len)
           u == allocPages(w, n)
           v == appendTOCData(u, new)
           g == SpaceInNewPages(w, type, len)
           R == [at |-> w.size, len |-> len]
<1>1. g = GivenOut(v, w.size, len)
  BY DEF SpaceInNewPages, NewPages
<1>2. PICK l \in Nat, k \in Nat : l = Len(w.pages) /\ k = PageSize /\ w.size = l * k /\ l * k \in Nat
  <2>1. PICK l \in Nat : l = Len(w.pages)
    BY DEF FileKept, TableKept
  <2>2. w.size = (l + 0) * PageSize
    BY <2>1 DEF FileKept, TableKept
  <2>3. PICK k \in Nat : k = PageSize
    BY Sizes
  <2>4. (l + 0) * k = l * k /\ l * k \in Nat
    OBVIOUS
  <2> QED BY <2>1, <2>2, <2>3, <2>4
<1>3. /\ n \in Nat \ {0} /\ len <= n * k
      /\ (IF len % PageSize = 0 THEN 0 ELSE PageSize - (len % PageSize)) \in 0 .. PageSize
  BY <1>2, PageCountIs
<1>4. new \in Seq(PageData) /\ Len(new) = n
  <2>1. \A i \in 1 .. n : new[i] \in PageData
    BY <1>3, Sizes DEF NewPages, PageData, pagedata, PageTypes
  <2>2. new = [i \in 1 .. n |-> new[i]]
    BY DEF NewPages
  <2> HIDE DEF new, n
  <2> QED BY <1>3, <2>1, <2>2
<1> HIDE DEF new, n, g
<1>5. Same(u, w, {"out", "size"}) /\ u.size = w.size + n * PageSize /\ PlanKept(u.out)
  BY <1>3, GrowIs DEF FileKept
<1> HIDE DEF u
<1>6. DOMAIN u = Fields /\ TableKept(u, Len(new)) /\ IndexKept(u)
  <2>1. /\ DOMAIN u = Fields /\ u.pages = w.pages /\ u.tocpages = w.tocpages /\ u.head = w.head
        /\ u.freespace = w.freespace
    BY <1>5 DEF Same, Fields
  <2>2. u.size = (Len(w.pages) + Len(new)) * PageSize
    <3>1. l * k + n * k = (l + n) * k
      BY <1>3
    <3> QED BY <1>2, <1>4, <1>5, <3>1
  <2>3. TableKept(w, 0) /\ w.head \in Nat /\ restInPage(w.head) >= LinkSize /\ w.pages \in Seq(PageData)
        /\ IndexKept(w)
    BY DEF FileKept, TableKept
  <2>4. TableKept(u, Len(new))
    BY <2>1, <2>2, <2>3, TableMoves
  <2>5. IndexKept(u)
    BY <2>1, <2>3, PagesAndIndex
  <2> QED BY <2>1, <2>4, <2>5
<1>7. /\ Same(v, u, TableFields) /\ Entered(v, u, new)
      /\ TableKept(v, 0) /\ IndexKept(v) /\ PlanKept(v.out)
  BY <1>4, <1>5, <1>6, AppendKeeps
<1> HIDE DEF v
<1>8. /\ DOMAIN g = {"w", "at"} /\ g.at = w.size
      /\ Same(g.w, v, {"regions", "out"}) /\ g.w.regions = v.regions \cup {R}
      /\ PlanKept(g.w.out)
  BY <1>1, <1>7, GivenOutIs DEF Same
<1>9. Same(v, w, TableFields) /\ Entered(v, w, new)
  BY <1>5, <1>7 DEF Same, Fields, TableFields, Entered
<1>10. Same(g.w, w, TableFields \cup {"regions"}) /\ g.w.regions = w.regions \cup {R}
  BY <1>8, <1>9 DEF Same, Fields, TableFields
<1>11. TableKept(g.w, 0) /\ IndexKept(g.w) /\ PlanKept(g.w.out) /\ g.w.pages = v.pages /\ g.w.size = v.size
  BY <1>7, <1>8, RegionsOnly DEF Same, Fields
<1>12. PICK m \in Nat : m = Len(v.pages) /\ l + n <= m
  BY <1>2, <1>4, <1>7, <1>9 DEF Entered, TableKept
<1>13. v.size = m * k /\ (l + n) * k <= m * k /\ (l + n) * k = l * k + n * k
  <2>1. v.size = (m + 0) * PageSize
    BY <1>7, <1>12 DEF TableKept
  <2>2. m + 0 = m OBVIOUS
  <2>3. (l + n) * k <= m * k /\ (l + n) * k = l * k + n * k
    BY <1>3, <1>12
  <2> QED BY <1>2, <2>1, <2>2, <2>3
<1>14. SpaceKept(g.w)
  <2>1. R \in [at : Nat, len : Nat \ {0}] /\ R.at = l * k /\ R.len = len
    BY <1>2
  <2> HIDE DEF R
  <2>2. R.at + R.len <= g.w.size /\ w.size <= g.w.size /\ w.size \in Nat /\ g.w.size \in Nat
    <3>1. PICK x \in Nat, y \in Nat, z \in Nat : x = l * k /\ y = n * k /\ z = m * k /\ x + y <= z /\ len <= y
      BY <1>3, <1>13
    <3>2. x + len <= z /\ x <= z
      BY <3>1
    <3> QED BY <1>2, <1>11, <1>13, <2>1, <3>1, <3>2
  <2>3. InPages(R)
    <3>1. (l * PageSize) % PageSize = 0
      <4>1. l * PageSize + 0 = l * PageSize
        BY <1>2
      <4> QED BY <4>1, PagePlus, Sizes
    <3> QED BY <1>2, <2>1, <3>1 DEF InPages
  <2>4. ASSUME NEW r \in g.w.regions, NEW page \in 0 .. Len(g.w.pages) - 1
        PROVE  ApartFrom(g.w, r, page)
    <3>1. v.pages \in Seq(PageData) /\ page \in 0 .. Len(v.pages) - 1 /\ TableKept(w, 0) /\ SpaceKept(w)
      BY <1>7, <1>11 DEF TableKept, FileKept
    <3>2. CASE r = R
      BY <1>9, <1>11, <3>1, <3>2, NewSpaceApart DEF ApartFrom, PageOf, R, new
    <3>3. CASE r # R
      <4>1. r \in w.regions BY <1>10, <3>3
      <4>2. v.regions = w.regions BY <1>9 DEF Same, Fields, TableFields
      <4>3. Len(w.pages) <= Len(v.pages) /\ \A i \in 1 .. Len(w.pages) : v.pages[i] = w.pages[i]
        BY <1>2, <1>3, <1>9, <1>12 DEF Entered
      <4>4. ApartFrom(v, r, page)
        BY <3>1, <4>1, <4>2, <4>3, OldSpaceKept
      <4> QED BY <1>11, <4>4 DEF ApartFrom, PageOf
    <3> QED BY <3>2, <3>3
  <2>5. \A r \in w.regions : Apart(r, R.at, R.at + R.len)
    <3>1. \A r \in w.regions : r.at + r.len <= w.size
      BY DEF FileKept, SpaceKept
    <3> QED BY <1>2, <2>1, <3>1 DEF Apart
  <2> QED BY <1>10, <2>1, <2>2, <2>3, <2>4, <2>5, SpaceJoins DEF FileKept
<1>15. Len(w.pages) <= g.at \div PageSize
  <2>1. (l * PageSize) \div PageSize = l
    <3>1. l * PageSize + 0 = l * PageSize
      BY <1>2
    <3>2. 0 < PageSize /\ 0 \in Nat
      BY Sizes
    <3>3. (l * PageSize + 0) \div PageSize = l
      BY <1>2, <3>2, PagePlus
    <3> QED BY <3>1, <3>3
  <2>2. l <= l OBVIOUS
  <2> QED BY <1>2, <1>8, <2>1, <2>2
<1>16. Given(g, w, len)
  <2>1. Len(w.pages) <= Len(g.w.pages)
    BY <1>2, <1>3, <1>11, <1>12
  <2>2. FileKept(g.w)
    BY <1>10, <1>11, <1>14 DEF FileKept, Same
  <2> QED BY <1>2, <1>8, <1>10, <1>15, <2>1, <2>2 DEF Given, R
<1> QED BY <1>16 DEF g

(***************************************************************************)
(* Space in a page in use                                                  *)
(***************************************************************************)

\* A page that lost space moves back in the index (updatePageSizeIndex,
\* file.C:307).
LEMMA UpdateKeepsIndex ==
  ASSUME NEW w, DOMAIN w = Fields, w.pages \in Seq(PageData), IndexKept(w),
         NEW page \in Nat, Listed(w, page)
  PROVE  LET v == updatePageSizeIndex(w, page)
         IN  Same(v, w, {"freespace"}) /\ IndexKept(v)
<1> DEFINE v == updatePageSizeIndex(w, page)
           type == PageOf(w, page).type
           pord == w.freespace[type]
           I == {i \in 1 .. Len(pord) : pord[i] = page}
           k == IF I # {} THEN Min(I) ELSE 0
           rest == SubSeq(pord, k + 1, Len(pord))
           J == {i \in 1 .. Len(rest) : PageOf(w, rest[i]).free <= PageOf(w, page).free}
           less == IF J # {} THEN Min(J) ELSE 0
           n == IF less = 0 THEN Len(rest) ELSE less - 1
           new == InsertAt(RemoveAt(pord, k), k + n, page)
<1>1. type \in PageTypes /\ pord \in Seq(Nat)
  <2>1. PageOf(w, page) \in PageData
    BY DEF PageOf, Listed
  <2> QED BY <2>1 DEF PageData, IndexKept
<1>2. PICK m \in Nat : m = Len(pord)
  BY <1>1
<1>3. v = IF k = 0 THEN w ELSE [w EXCEPT !.freespace[type] = new]
  BY DEF updatePageSizeIndex, SelectInSeq
<1>4. k \in 0 .. m
  <2>1. I \in SUBSET Nat /\ \A i \in I : i \in 1 .. m
    BY <1>2
  <2> HIDE DEF I
  <2>2. I # {} => Min(I) \in I
    BY <2>1, MinIs
  <2>3. CASE I = {}
    BY <2>3
  <2>4. CASE I # {}
    <3>1. Min(I) \in 1 .. m
      BY <2>1, <2>2, <2>4
    <3> QED BY <2>4, <3>1
  <2> QED BY <2>3, <2>4
<1> HIDE DEF k, I
<1>5. CASE k = 0
  BY <1>3, <1>5 DEF Same, v
<1>6. CASE k # 0
  <2>1. rest \in Seq(Nat) /\ Len(rest) = m - k
    <3>1. PICK z \in Seq(Nat) : z = pord BY <1>1
    <3>2. SubSeq(z, k + 1, m) \in Seq(Nat) /\ Len(SubSeq(z, k + 1, m)) = m - (k + 1) + 1
      <4>1. PICK a \in Int : a = k + 1 /\ a >= 1 /\ a <= m + 1
        BY <1>4, <1>6
      <4>2. m \in Int /\ m <= Len(z)
        BY <1>2, <3>1
      <4> HIDE DEF pord
      <4>3. SubSeq(z, a, m) \in Seq(Nat) /\ Len(SubSeq(z, a, m)) = m - a + 1
        BY <3>1, <4>1, <4>2, SubSeqIs
      <4> QED BY <4>1, <4>3
    <3>3. m - (k + 1) + 1 = m - k BY <1>4
    <3> QED BY <1>2, <3>1, <3>2, <3>3
  <2>2. less \in 0 .. m - k
    <3>1. J \in SUBSET Nat /\ \A i \in J : i \in 1 .. m - k
      BY <2>1
    <3> HIDE DEF J
    <3>2. J # {} => Min(J) \in J
      BY <3>1, MinIs
    <3>3. m - k \in Nat
      BY <1>4
    <3>4. CASE J = {}
      BY <3>3, <3>4
    <3>5. CASE J # {}
      <4>1. Min(J) \in 1 .. m - k
        BY <3>1, <3>2, <3>5
      <4> QED BY <3>5, <4>1
    <3> QED BY <3>4, <3>5
  <2> HIDE DEF less, J
  <2>3. n \in 0 .. m - k
    BY <1>4, <2>1, <2>2
  <2> HIDE DEF n, rest
  <2>4. PICK z \in Seq(Nat) : z = pord /\ Len(z) = m
    BY <1>1, <1>2
  <2>5. PICK y \in Seq(Nat) : y = RemoveAt(z, k) /\ Len(y) = m - 1
          /\ \A i \in 1 .. m - 1 : \E j \in 1 .. m : y[i] = z[j]
    <3>1. k \in 1 .. Len(z) BY <1>4, <1>6, <2>4
    <3>2. PICK h \in 1 .. Len(z) : h = k BY <3>1
    <3>3. /\ RemoveAt(z, h) \in Seq(Nat) /\ Len(RemoveAt(z, h)) = Len(z) - 1
          /\ \A i \in 1 .. Len(z) - 1 : \E j \in 1 .. Len(z) : RemoveAt(z, h)[i] = z[j]
      BY RemoveAtIs
    <3> HIDE DEF pord
    <3> QED BY <2>4, <3>2, <3>3
  <2>6. PICK x \in Seq(Nat) : x = InsertAt(y, k + n, page) /\ Len(x) = m
          /\ \A i \in 1 .. m : x[i] = page \/ \E j \in 1 .. m - 1 : x[i] = y[j]
    <3>1. k + n \in 1 .. Len(y) + 1 /\ Len(y) + 1 = m
      BY <1>4, <1>6, <2>3, <2>5
    <3>2. PICK h \in 1 .. Len(y) + 1 : h = k + n BY <3>1
    <3>3. /\ InsertAt(y, h, page) \in Seq(Nat) /\ Len(InsertAt(y, h, page)) = Len(y) + 1
          /\ \A i \in 1 .. Len(y) + 1 :
               InsertAt(y, h, page)[i] = page \/ \E j \in 1 .. Len(y) : InsertAt(y, h, page)[i] = y[j]
      BY InsertAtIs
    <3> QED BY <2>5, <3>1, <3>2, <3>3
  <2>7. new = x
    BY <2>4, <2>5, <2>6
  <2> HIDE DEF new
  <2>8. v = [w EXCEPT !.freespace[type] = x]
    BY <1>3, <1>6, <2>7
  <2> HIDE DEF v
  <2>9. Same(v, w, {"freespace"}) /\ v.freespace = [w.freespace EXCEPT ![type] = x]
    BY <2>8 DEF Same, Fields
  <2>10. v.pages = w.pages
    BY <2>9 DEF Same, Fields
  <2>11. \A q : Indexed(v, type, q) <=> Indexed(w, type, q)
    BY <2>10 DEF Indexed, Listed, PageOf
  <2>12. m <= MaxRemembered /\ \A i \in 1 .. m : Indexed(w, type, z[i])
    BY <1>1, <2>4 DEF IndexKept
  <2>13. \A i \in 1 .. m : Indexed(w, type, x[i])
    <3>1. Indexed(w, type, page)
      BY DEF Indexed
    <3>2. ASSUME NEW i \in 1 .. m
          PROVE  x[i] = page \/ \E j \in 1 .. m : x[i] = z[j]
      BY <2>5, <2>6
    <3> QED BY <2>12, <3>1, <3>2
  <2>14. ASSUME NEW u \in PageTypes
        PROVE  /\ Len(v.freespace[u]) <= MaxRemembered /\ v.freespace[u] \in Seq(Nat)
               /\ \A i \in DOMAIN v.freespace[u] : Indexed(v, u, v.freespace[u][i])
    <3> HIDE DEF type
    <3>1. CASE u = type
      <4>1. v.freespace[u] = x
        BY <1>1, <2>9, <3>1 DEF IndexKept
      <4>2. Len(x) <= MaxRemembered /\ DOMAIN x = 1 .. m
        BY <2>6, <2>12
      <4>3. \A i \in 1 .. m : Indexed(v, type, x[i])
        BY <2>11, <2>13
      <4> QED BY <2>6, <3>1, <4>1, <4>2, <4>3
    <3>2. CASE u # type
      <4>1. v.freespace[u] = w.freespace[u]
        BY <2>9, <3>2 DEF IndexKept
      <4>2. \A q : Indexed(w, u, q) => Indexed(v, u, q)
        BY <2>10 DEF Indexed, Listed, PageOf
      <4> QED BY <4>1, <4>2 DEF IndexKept
    <3> QED BY <3>1, <3>2
  <2>15. v.freespace \in [PageTypes -> Seq(Nat)]
    BY <1>1, <2>6, <2>9 DEF IndexKept
  <2>16. IndexKept(v)
    BY <2>14, <2>15 DEF IndexKept
  <2> QED BY <2>9, <2>16 DEF v
<1> QED BY <1>5, <1>6

\* The entry of a page in use changes its free space and not its type
\* (updateTOCData, file.C:368).
LEMMA UpdateKeeps ==
  ASSUME NEW w, DOMAIN w = Fields, TableKept(w, 0), IndexKept(w), PlanKept(w.out),
         NEW page \in Nat, Listed(w, page), NEW pd \in PageData, pd.type = PageOf(w, page).type
  PROVE  LET v == updateTOCData(w, page, pd)
         IN  /\ Same(v, w, {"pages", "freespace", "out"})
             /\ TableKept(v, 0) /\ IndexKept(v) /\ PlanKept(v.out)
             /\ Len(v.pages) = Len(w.pages)
             /\ \A q \in 0 .. Len(w.pages) - 1 : PageOf(v, q) = IF q = page THEN pd ELSE PageOf(w, q)
<1> DEFINE v == updateTOCData(w, page, pd)
           c == Write("update", pageTOCPosition(w, page), <<PageCell(pd)>>)
           e == [w EXCEPT !.pages[page + 1] = pd]
           u == Emit(e, c)
<1>1. v = updatePageSizeIndex(u, page)
  BY DEF updateTOCData
<1>2. Same(e, w, {"pages"}) /\ e.pages = [w.pages EXCEPT ![page + 1] = pd]
  BY DEF Same, Fields
<1>3. DOMAIN e = Fields /\ IsChange(c)
  BY <1>2 DEF Same, IsChange, Write
<1> HIDE DEF e, c
<1>4. Same(u, e, {"out"}) /\ u.out = Append(e.out, c)
  BY <1>3, EmitIs
<1> HIDE DEF u
<1>5. Same(u, w, {"pages", "out"}) /\ u.pages = e.pages /\ PlanKept(u.out)
  <2>1. Same(u, w, {"pages", "out"}) /\ u.pages = e.pages /\ e.out = w.out
    BY <1>2, <1>4 DEF Same, Fields
  <2> QED BY <1>3, <1>4, <2>1, PlanGoesOn
<1>6. PICK l \in Nat : l = Len(w.pages) /\ page + 1 \in 1 .. l
  <2>1. PICK l \in Nat : l = Len(w.pages)
    BY DEF TableKept
  <2>2. page + 1 \in 1 .. l
    BY <2>1 DEF Listed
  <2> QED BY <2>1, <2>2
<1>7. /\ u.pages \in Seq(PageData) /\ Len(u.pages) = l
      /\ \A i \in 1 .. l : u.pages[i] = IF i = page + 1 THEN pd ELSE w.pages[i]
  BY <1>2, <1>5, <1>6 DEF TableKept
<1>8. ASSUME NEW q \in 0 .. l - 1
      PROVE  PageOf(u, q) = IF q = page THEN pd ELSE PageOf(w, q)
  <2>1. q + 1 \in 1 .. l /\ (q + 1 = page + 1 <=> q = page)
    BY <1>6
  <2> QED BY <1>7, <2>1 DEF PageOf
<1>9. ASSUME NEW q \in Nat, Listed(w, q)
      PROVE  Listed(u, q) /\ PageOf(u, q).type = PageOf(w, q).type
  <2>1. q \in 0 .. l - 1
    BY <1>6, <1>9 DEF Listed
  <2> QED BY <1>7, <1>8, <2>1 DEF Listed
<1>10. IndexKept(u)
  <2>1. u.freespace = w.freespace
    BY <1>5 DEF Same, Fields
  <2>2. ASSUME NEW t, NEW q \in Nat, Indexed(w, t, q)
        PROVE  Indexed(u, t, q)
    BY <1>9, <2>2 DEF Indexed
  <2> QED BY <2>1, <2>2 DEF IndexKept
<1>11. DOMAIN u = Fields /\ Listed(u, page)
  BY <1>5, <1>9 DEF Same
<1>12. Same(v, u, {"freespace"}) /\ IndexKept(v)
  BY <1>1, <1>7, <1>10, <1>11, UpdateKeepsIndex
<1> HIDE DEF v
<1>13. /\ Same(v, w, {"pages", "freespace", "out"}) /\ v.pages = u.pages /\ v.out = u.out
       /\ v.size = w.size /\ v.tocpages = w.tocpages /\ v.head = w.head
  BY <1>5, <1>12 DEF Same, Fields
<1>14. \A q : Listed(v, q) = Listed(u, q) /\ PageOf(v, q) = PageOf(u, q)
  BY <1>13 DEF Listed, PageOf
<1>15. TableKept(v, 0)
  <2>1. \A i \in DOMAIN v.tocpages : Listed(v, v.tocpages[i]) /\ PageOf(v, v.tocpages[i]).type = "toc"
    BY <1>9, <1>13, <1>14 DEF TableKept
  <2>2. v.size = (Len(v.pages) + 0) * PageSize
    BY <1>6, <1>7, <1>13 DEF TableKept
  <2> QED BY <1>7, <1>13, <2>1, <2>2 DEF TableKept
<1>16. Len(v.pages) = l /\ \A q \in 0 .. l - 1 : PageOf(v, q) = IF q = page THEN pd ELSE PageOf(w, q)
  BY <1>7, <1>8, <1>13, <1>14
<1> QED BY <1>5, <1>6, <1>12, <1>13, <1>15, <1>16 DEF v

\* Space at the end of a page in use, after its padding, is apart from all other
\* space (findSpace, file.C:458).
LEMMA SpaceInPageGiven ==
  ASSUME NEW w, FileKept(w), NEW type \in {"environment", "data"}, NEW len \in Nat \ {0},
         NEW page \in Nat, Listed(w, page), PageOf(w, page).type = type,
         NEW used \in Nat, NEW free \in Nat, free = PageOf(w, page).free, used + free = PageSize,
         NEW pad \in Nat, pad + len <= free
  PROVE  Given(SpaceInPage(w, type, page, used, len, pad), w, len)
<1> DEFINE g == SpaceInPage(w, type, page, used, len, pad)
           pd == pagedata(type, PageSize - (used + pad + len))
           v == updateTOCData(w, page, pd)
           at == page * PageSize + used + pad
           R == [at |-> at, len |-> len]
<1>1. g = GivenOut(v, at, len)
  BY DEF SpaceInPage
<1>2. PICK k \in Nat : k = PageSize /\ used + free = k
  BY Sizes
<1>3. PICK rest \in Nat : rest = k - (used + pad + len) /\ used + pad + len + rest = k /\ pad + len + rest = free
  BY <1>2
<1>4. pd = pagedata(type, rest) /\ pd.type = type /\ pd.free = rest /\ pd \in PageData
  <2>1. rest \in 0 .. PageSize
    BY <1>2, <1>3
  <2> QED BY <1>2, <1>3, <2>1 DEF pagedata, PageData, PageTypes
<1> HIDE DEF g, pd
<1>5. PICK x \in Nat, z \in Nat : x = page * k /\ z = (page + 1) * k /\ z = x + k
  <2>1. page * k \in Nat /\ (page + 1) * k \in Nat /\ (page + 1) * k = page * k + k
    OBVIOUS
  <2> QED BY <2>1
<1>6. at = x + (used + pad) /\ at \in Nat /\ R.at = at /\ R.len = len /\ R \in [at : Nat, len : Nat \ {0}]
  BY <1>2, <1>5
<1>7. PICK l \in Nat : l = Len(w.pages) /\ page < l /\ w.size = l * k /\ l * k \in Nat /\ z <= l * k
  <2>1. PICK l \in Nat : l = Len(w.pages) /\ page < l
    BY DEF FileKept, TableKept, Listed
  <2>2. w.size = (l + 0) * PageSize
    BY <2>1 DEF FileKept, TableKept
  <2>3. (l + 0) * k = l * k /\ l * k \in Nat
    OBVIOUS
  <2>4. (page + 1) * k <= l * k
    BY <1>2, <2>1, PageOrder
  <2> QED BY <1>2, <1>5, <2>1, <2>2, <2>3, <2>4
<1>8. /\ Same(v, w, {"pages", "freespace", "out"})
      /\ TableKept(v, 0) /\ IndexKept(v) /\ PlanKept(v.out)
      /\ Len(v.pages) = l
      /\ \A q \in 0 .. l - 1 : PageOf(v, q) = IF q = page THEN pd ELSE PageOf(w, q)
  <2>1. DOMAIN w = Fields /\ TableKept(w, 0) /\ IndexKept(w) /\ PlanKept(w.out)
    BY DEF FileKept
  <2>2. pd \in PageData /\ pd.type = PageOf(w, page).type
    BY <1>4
  <2>3. /\ Same(v, w, {"pages", "freespace", "out"})
        /\ TableKept(v, 0) /\ IndexKept(v) /\ PlanKept(v.out)
        /\ Len(v.pages) = Len(w.pages)
        /\ \A q \in 0 .. Len(w.pages) - 1 : PageOf(v, q) = IF q = page THEN pd ELSE PageOf(w, q)
    BY <2>1, <2>2, UpdateKeeps
  <2>4. l = Len(w.pages)
    BY <1>7
  <2> QED BY <2>3, <2>4
<1> HIDE DEF v, R, at
<1>9. /\ DOMAIN g = {"w", "at"} /\ g.at = at
      /\ Same(g.w, v, {"regions", "out"}) /\ g.w.regions = v.regions \cup {R}
      /\ PlanKept(g.w.out)
  BY <1>1, <1>8, GivenOutIs DEF Same, R
<1>10. /\ Same(g.w, w, TableFields \cup {"regions"}) /\ g.w.regions = w.regions \cup {R}
       /\ g.w.size = w.size /\ g.w.pages = v.pages
  BY <1>8, <1>9 DEF Same, Fields, TableFields
<1>11. TableKept(g.w, 0) /\ IndexKept(g.w) /\ PlanKept(g.w.out)
  BY <1>8, <1>9, RegionsOnly
<1>12. used + pad < k /\ used + pad \in Nat /\ at + len <= z /\ at + len + rest = z /\ x <= at
  BY <1>2, <1>3, <1>5, <1>6
<1>13. R.at % PageSize = used + pad /\ R.at \div PageSize = page
  <2>1. PICK r \in Nat : r = used + pad /\ r < PageSize
    BY <1>2, <1>12
  <2>2. (page * PageSize + r) % PageSize = r /\ (page * PageSize + r) \div PageSize = page
    BY <2>1, PagePlus
  <2>3. R.at = page * PageSize + r
    BY <1>2, <1>5, <1>6, <2>1
  <2> QED BY <2>1, <2>2, <2>3
<1>14. SpaceKept(g.w)
  <2>1. R.at + R.len <= g.w.size /\ w.size <= g.w.size /\ w.size \in Nat /\ g.w.size \in Nat
    BY <1>6, <1>7, <1>10, <1>12
  <2>2. InPages(R)
    BY <1>2, <1>3, <1>6, <1>13 DEF InPages
  <2>3. \A r \in w.regions : Apart(r, R.at, R.at + R.len)
    <3> TAKE r \in w.regions
    <3>1. ApartFrom(w, r, page) /\ r.at \in Nat /\ r.len \in Nat
      BY DEF FileKept, SpaceKept, Listed
    <3>2. PICK e \in Nat : e = r.at + r.len
      BY <3>1
    <3>3. free > 0
      BY <1>3
    <3>4. e <= z - free \/ z <= r.at
      BY <1>2, <1>5, <3>1, <3>2, <3>3 DEF ApartFrom, Apart
    <3>5. z - free <= at
      BY <1>2, <1>5, <1>6
    <3>6. e <= at \/ at + len <= r.at
      BY <1>6, <1>12, <3>1, <3>4, <3>5
    <3> QED BY <1>6, <3>2, <3>6 DEF Apart
  <2>4. ASSUME NEW r \in g.w.regions, NEW q \in 0 .. Len(g.w.pages) - 1
        PROVE  ApartFrom(g.w, r, q)
    <3>1. q \in 0 .. l - 1 /\ PageOf(g.w, q) = IF q = page THEN pd ELSE PageOf(w, q)
      BY <1>8, <1>10 DEF PageOf
    <3>2. CASE r = R
      <4>1. CASE q = page
        <5>1. PageOf(g.w, q) = pd /\ pd.free = rest /\ pd.type # "toc"
          BY <1>4, <3>1, <4>1
        <5>2. at + len <= z - rest
          BY <1>5, <1>6, <1>12
        <5>3. (q + 1) * PageSize = z
          BY <1>2, <1>5, <4>1
        <5> QED BY <1>6, <3>2, <5>1, <5>2, <5>3 DEF ApartFrom, Apart
      <4>2. CASE q # page
        <5>1. PageOf(w, q) \in PageData
          BY <1>7, <3>1 DEF PageOf, FileKept, TableKept
        <5>2. PICK f \in 0 .. k, y \in Nat, y1 \in Nat :
                f = PageOf(g.w, q).free /\ y = q * k /\ y1 = (q + 1) * k /\ y1 = y + k
          <6>1. q * k \in Nat /\ (q + 1) * k \in Nat /\ (q + 1) * k = q * k + k
            <7>1. \A a, b \in Nat : a * b \in Nat /\ (a + 1) * b \in Nat /\ (a + 1) * b = a * b + b
              OBVIOUS
            <7>2. q \in Nat
              BY <3>1
            <7> QED BY <7>1, <7>2
          <6> QED BY <1>2, <3>1, <4>2, <5>1, <6>1 DEF PageData
        <5>3. y1 <= x \/ z <= y
          <6>1. CASE q < page
            <7>1. (q + 1) * k <= page * k
              <8>1. (q + 1) * PageSize <= page * PageSize
                <9>1. q \in Nat
                  BY <3>1
                <9> QED BY <9>1, <6>1, PageOrder
              <8> QED BY <1>2, <8>1
            <7> QED BY <1>5, <5>2, <7>1
          <6>2. CASE page < q
            <7>1. (page + 1) * k <= q * k
              <8>1. (page + 1) * PageSize <= q * PageSize
                <9>1. q \in Nat
                  BY <3>1
                <9> QED BY <9>1, <6>2, PageOrder
              <8> QED BY <1>2, <8>1
            <7> QED BY <1>5, <5>2, <7>1
          <6> QED BY <3>1, <4>2, <6>1, <6>2
        <5>4. (at + len <= y1 - f \/ y1 <= at) /\ (at + len <= y \/ y1 <= at)
          BY <1>6, <1>12, <5>2, <5>3
        <5> QED BY <1>2, <1>6, <3>2, <5>2, <5>4 DEF ApartFrom, Apart
      <4> QED BY <4>1, <4>2
    <3>3. CASE r # R
      <4>1. r \in w.regions /\ ApartFrom(w, r, q) /\ r.at \in Nat /\ r.len \in Nat
        BY <1>7, <1>10, <3>1, <3>3 DEF FileKept, SpaceKept
      <4>2. CASE q # page
        <5>1. PageOf(g.w, q) = PageOf(w, q)
          BY <3>1, <4>2
        <5> QED BY <4>1, <5>1 DEF ApartFrom
      <4>3. CASE q = page
        <5>1. PageOf(g.w, q) = pd /\ pd.free = rest /\ pd.type # "toc"
          BY <1>4, <3>1, <4>3
        <5>2. PICK e \in Nat : e = r.at + r.len
          BY <4>1
        <5>3. e <= z - free \/ z <= r.at
          <6>1. free > 0
            <7>1. len > 0
              OBVIOUS
            <7> QED BY <1>3, <7>1
          <6> QED BY <1>2, <1>5, <4>1, <4>3, <5>2, <6>1 DEF ApartFrom, Apart
        <5>4. e <= z - rest \/ z <= r.at
          <6>1. z - free <= z - rest
            BY <1>3
          <6> HIDE DEF g
          <6>2. z - free \in Int /\ z - rest \in Int
            OBVIOUS
          <6> QED BY <5>3, <6>1, <6>2
        <5> QED BY <1>2, <1>5, <4>3, <5>1, <5>2, <5>4 DEF ApartFrom, Apart
      <4> QED BY <4>2, <4>3
    <3> QED BY <3>2, <3>3
  <2> QED BY <1>6, <1>10, <2>1, <2>2, <2>3, <2>4, SpaceJoins DEF FileKept
<1>15. Given(g, w, len)
  <2>1. FileKept(g.w)
    BY <1>10, <1>11, <1>14 DEF FileKept, Same
  <2>2. len <= PageSize
    BY <1>2, <1>3
  <2>3. Len(w.pages) <= Len(g.w.pages)
    BY <1>7, <1>8, <1>10
  <2> QED BY <1>6, <1>9, <1>10, <2>1, <2>2, <2>3 DEF Given, R
<1> QED BY <1>15 DEF g

\* Whatever findSpace (file.C:454) chooses, it gives out space that nothing else
\* has: the page of the index still has as much free as its entry says.
LEMMA FindSpaceGiven ==
  ASSUME NEW w, FileKept(w), NEW type \in {"environment", "data"}, NEW len \in Nat \ {0},
         NEW align \in Nat \ {0}
  PROVE  Given(findSpace(w, type, len, align), w, len)
<1>1. CASE findPageWithSpace(w, type, len, align)
  <2> DEFINE page == w.freespace[type][1]
             pd == PageOf(w, page)
  <2>1. Indexed(w, type, page) /\ page \in Nat
    <3>1. type \in PageTypes
      BY DEF PageTypes
    <3>2. PICK s \in Seq(Nat) : s = w.freespace[type] /\ s # <<>>
      BY <1>1, <3>1 DEF findPageWithSpace, FileKept, IndexKept
    <3>3. 1 \in DOMAIN s /\ s[1] \in Nat
      BY <3>2
    <3> QED BY <3>1, <3>2, <3>3 DEF FileKept, IndexKept
  <2>2. pd \in PageData /\ Listed(w, page) /\ pd.type = type
    BY <2>1 DEF Indexed, Listed, PageOf, FileKept, TableKept
  <2>3. PICK free \in Nat, used \in Nat : free = pd.free /\ used = PageSize - free /\ used + free = PageSize
    <3>1. PICK k \in Nat, f \in Nat : k = PageSize /\ f = pd.free /\ f <= k
      BY <2>2, Sizes DEF PageData
    <3>2. k - f \in Nat /\ (k - f) + f = k
      BY <3>1
    <3> QED BY <3>1, <3>2
  <2>4. PICK pad \in Nat : pad = used % align
    BY DivMod
  <2>5. len + pad <= free
    BY <1>1, <2>3, <2>4 DEF findPageWithSpace
  <2>6. pad + len <= free
    BY <2>5
  <2> HIDE DEF page
  <2>7. Given(SpaceInPage(w, type, page, used, len, pad), w, len)
    BY <2>1, <2>2, <2>3, <2>6, SpaceInPageGiven
  <2>8. findSpace(w, type, len, align) = SpaceInPage(w, type, page, used, len, pad)
    BY <1>1, <2>3, <2>4 DEF findSpace, SpaceAfter, page
  <2> QED BY <2>7, <2>8
<1>2. CASE ~findPageWithSpace(w, type, len, align)
  <2>1. findSpace(w, type, len, align) = SpaceInNewPages(w, type, len)
    BY <1>2 DEF findSpace
  <2> QED BY <2>1, SpaceInNewPagesGiven
<1> QED BY <1>1, <1>2

(***************************************************************************)
(* Memory maps                                                             *)
(***************************************************************************)

\* What a map holds after an assignment to one of its keys.
LEMMA PutIs ==
  ASSUME NEW f, NEW k, NEW x
  PROVE  LET g == Put(f, k, x)
         IN  DOMAIN g = {k} \cup DOMAIN f /\ g[k] = x /\ \A j \in DOMAIN f : j # k => g[j] = f[j]
BY DEF Put

\* As many cells of a pointer as are in use.
PartOf(p, n) == {p} \X (1 .. n)

\* They are finitely many: as many as the pointer's size.
LEMMA PartIs ==
  ASSUME NEW p, NEW n \in Nat
  PROVE  IsFiniteSet(PartOf(p, n)) /\ Cardinality(PartOf(p, n)) = n
<1>1. IsFiniteSet({p}) /\ Cardinality({p}) = 1
  BY FS_Singleton
<1>2. IsFiniteSet(1 .. n) /\ Cardinality(1 .. n) = n
  BY FS_Interval
<1>3. IsFiniteSet({p} \X (1 .. n)) /\ Cardinality({p} \X (1 .. n)) = Cardinality({p}) * Cardinality(1 .. n)
  BY <1>1, <1>2, FS_Product
<1> QED BY <1>1, <1>2, <1>3 DEF PartOf

\* A cell is in use of a map by the pointer that has it there.
LEMMA InUseIs ==
  ASSUME NEW w, NEW k, NEW e
  PROVE  e \in InUse(w, k) <=> \E q \in DOMAIN w.allocs : w.allocs[q].page = k /\ e \in PartOf(q, w.allocs[q].size)
BY DEF InUse, PartOf

\* Less in use of a map is still within what the map counts.
LEMMA LessInUse ==
  ASSUME NEW S, NEW T, NEW n, S \subseteq T, IsFiniteSet(T), Cardinality(T) <= n, n \in Nat
  PROVE  IsFiniteSet(S) /\ Cardinality(S) <= n /\ Cardinality(S) \in Nat
<1>1. IsFiniteSet(S) /\ Cardinality(S) <= Cardinality(T)
  BY FS_Subset
<1>2. Cardinality(S) \in Nat /\ Cardinality(T) \in Nat
  BY <1>1, FS_CardinalityType
<1> QED BY <1>1, <1>2

\* n pages from base have all the space of several pages that begins there.
Fits(w, base, n) ==
  \A r \in w.regions : r.len > PageSize /\ r.at \div PageSize = base => pageCount(r.len) <= n

\* A new map (createFileRegionMap, file.C:552) has a number of its own and nothing
\* in use.
LEMMA NewMapKeeps ==
  ASSUME NEW w, DOMAIN w = Fields, MapsKept(w), NEW base \in Nat, Listed(w, base),
         base \notin DOMAIN w.mappings, NEW n \in Nat \ {0}, Fits(w, base, n)
  PROVE  LET m == NewMap(w, base, n)
         IN  /\ DOMAIN m = {"w", "base"} /\ m.base = base
             /\ Same(m.w, w, {"mappings", "maps"}) /\ MapsKept(m.w)
             /\ base \in DOMAIN m.w.mappings /\ m.w.mappings[base].pages = n
<1> DEFINE new == [id |-> w.maps + 1, pages |-> n, used |-> 0]
           f == Put(w.mappings, base, new)
           v == [w EXCEPT !.mappings = f, !.maps = @ + 1]
<1>1. NewMap(w, base, n) = [w |-> v, base |-> base]
  BY DEF NewMap
<1>2. DOMAIN f = {base} \cup DOMAIN w.mappings /\ f[base] = new
      /\ \A j \in DOMAIN w.mappings : j # base => f[j] = w.mappings[j]
  BY DEF Put
<1> HIDE DEF f
<1>3. Same(v, w, {"mappings", "maps"}) /\ v.mappings = f /\ v.maps = w.maps + 1
  BY DEF Same, Fields
<1> HIDE DEF v
<1>4. v.allocs = w.allocs /\ v.regions = w.regions /\ v.pages = w.pages
  BY <1>3 DEF Same, Fields
<1>5. \A j \in DOMAIN w.mappings : f[j] = w.mappings[j] /\ j \in DOMAIN f
  BY <1>2
<1>6. \A j : InUse(v, j) = InUse(w, j)
  BY <1>4 DEF InUse
<1>7. InUse(w, base) = {}
  <2>1. \A q \in DOMAIN w.allocs : w.allocs[q].page # base
    BY DEF MapsKept, PointerKept
  <2> QED BY <2>1 DEF InUse
<1>8. ASSUME NEW k \in DOMAIN v.mappings
      PROVE  MapKept(v, k)
  <2>1. CASE k = base
    <3>1. IsFiniteSet({}) /\ Cardinality({}) = 0
      BY FS_EmptySet
    <3>2. v.mappings[k] = new /\ new \in [id : Nat, pages : Nat \ {0}, used : Nat] /\ new.used = 0
      BY <1>2, <1>3, <2>1 DEF MapsKept
    <3>3. Listed(v, k)
      BY <1>4, <2>1 DEF Listed
    <3>4. InUse(v, k) = {}
      BY <1>6, <1>7, <2>1
    <3> QED BY <3>1, <3>2, <3>3, <3>4 DEF MapKept
  <2>2. CASE k # base
    <3>1. k \in DOMAIN w.mappings /\ v.mappings[k] = w.mappings[k]
      BY <1>2, <1>3, <2>2
    <3>2. MapKept(w, k)
      BY <3>1 DEF MapsKept
    <3> QED BY <1>4, <1>6, <3>1, <3>2 DEF MapKept, Listed
  <2> QED BY <2>1, <2>2
<1>9. ASSUME NEW p \in DOMAIN v.allocs
      PROVE  PointerKept(v, p)
  <2>1. PointerKept(w, p)
    BY <1>4 DEF MapsKept
  <2>2. w.allocs[p].page \in DOMAIN w.mappings
    BY <2>1 DEF PointerKept
  <2> QED BY <1>3, <1>4, <1>5, <2>1, <2>2 DEF PointerKept
<1>10. ASSUME NEW r \in v.regions, r.len > PageSize, r.at \div PageSize \in DOMAIN v.mappings
       PROVE  pageCount(r.len) <= v.mappings[r.at \div PageSize].pages
  <2>1. CASE r.at \div PageSize = base
    BY <1>2, <1>3, <1>4, <1>10, <2>1 DEF Fits
  <2>2. CASE r.at \div PageSize # base
    BY <1>2, <1>3, <1>4, <1>10, <2>2 DEF MapsKept
  <2> QED BY <2>1, <2>2
<1>11. MapsKept(v)
  <2>1. v.maps \in Nat
    BY <1>3 DEF MapsKept
  <2> QED BY <1>8, <1>9, <1>10, <2>1 DEF MapsKept
<1> QED BY <1>1, <1>2, <1>3, <1>11

\* A pointer into a map adds its size to what the map counts (file.C:607-621).
LEMMA MapInKeeps ==
  ASSUME NEW w, DOMAIN w = Fields, MapsKept(w), NEW base \in DOMAIN w.mappings,
         NEW pos \in Nat, NEW sz \in Nat \ {0},
         pos + sz <= (base + w.mappings[base].pages) * PageSize,
         pos = 0 \/ [at |-> pos, len |-> sz] \in w.regions
  PROVE  LET r == MapPosition([w |-> w, base |-> base], pos, sz)
         IN  /\ DOMAIN r = {"w", "p"}
             /\ Same(r.w, w, {"mappings", "allocs"}) /\ MapsKept(r.w)
             /\ r.p[2] = pos /\ r.p \in DOMAIN r.w.allocs /\ r.w.allocs[r.p].size = sz
<1> DEFINE id == w.mappings[base].id
           p == <<id, pos>>
           a == [page |-> base, size |-> sz]
           f == Put(w.allocs, p, a)
           v == [w EXCEPT !.mappings[base].used = @ + sz, !.allocs = f]
<1>1. MapPosition([w |-> w, base |-> base], pos, sz) = [w |-> v, p |-> p]
  BY DEF MapPosition, MapInRegion
<1>2. p[1] = id /\ p[2] = pos
  OBVIOUS
<1> HIDE DEF p
<1>3. DOMAIN f = {p} \cup DOMAIN w.allocs /\ f[p] = a
      /\ \A j \in DOMAIN w.allocs : j # p => f[j] = w.allocs[j]
  BY DEF Put
<1> HIDE DEF f
<1>4. /\ Same(v, w, {"mappings", "allocs"}) /\ v.allocs = f
      /\ v.mappings = [w.mappings EXCEPT ![base].used = @ + sz]
  BY DEF Same, Fields
<1> HIDE DEF v
<1>5. v.regions = w.regions /\ v.pages = w.pages /\ v.maps = w.maps
  BY <1>4 DEF Same, Fields
<1>6. w.mappings[base] \in [id : Nat, pages : Nat \ {0}, used : Nat]
  BY DEF MapsKept, MapKept
<1>7. /\ DOMAIN v.mappings = DOMAIN w.mappings
      /\ v.mappings[base] = [w.mappings[base] EXCEPT !.used = @ + sz]
      /\ \A k \in DOMAIN w.mappings : k # base => v.mappings[k] = w.mappings[k]
  BY <1>4
<1>8. /\ v.mappings[base] \in [id : Nat, pages : Nat \ {0}, used : Nat]
      /\ v.mappings[base].id = id /\ v.mappings[base].pages = w.mappings[base].pages
      /\ v.mappings[base].used = w.mappings[base].used + sz
  BY <1>6, <1>7
<1>9. \A k \in DOMAIN w.mappings :
        v.mappings[k].id = w.mappings[k].id /\ v.mappings[k].pages = w.mappings[k].pages
  BY <1>7, <1>8
<1>10. ASSUME NEW k \in DOMAIN v.mappings
       PROVE  MapKept(v, k)
  <2>1. Listed(v, k) /\ MapKept(w, k)
    BY <1>5, <1>7 DEF MapsKept, MapKept, Listed
  <2>2. CASE k = base
    <3>1. InUse(v, k) \subseteq InUse(w, k) \cup PartOf(p, sz)
      <4> SUFFICES ASSUME NEW e \in InUse(v, k) PROVE e \in InUse(w, k) \cup PartOf(p, sz)
        OBVIOUS
      <4>1. PICK q \in DOMAIN f : f[q].page = k /\ e \in PartOf(q, f[q].size)
        BY <1>4, InUseIs
      <4>2. CASE q = p
        BY <1>3, <4>1, <4>2
      <4>3. CASE q # p
        <5>1. q \in DOMAIN w.allocs /\ w.allocs[q].page = k /\ e \in PartOf(q, w.allocs[q].size)
          BY <1>3, <4>1, <4>3
        <5> QED BY <5>1, InUseIs
      <4> QED BY <4>2, <4>3
    <3>2. IsFiniteSet(PartOf(p, sz)) /\ Cardinality(PartOf(p, sz)) = sz
      BY PartIs
    <3> DEFINE U == InUse(w, k)
               P == PartOf(p, sz)
    <3>3. IsFiniteSet(U) /\ Cardinality(U) <= w.mappings[k].used
      BY <2>1 DEF MapKept
    <3> HIDE DEF U, P
    <3>4. IsFiniteSet(U \cup P) /\ Cardinality(U \cup P) = Cardinality(U) + Cardinality(P) - Cardinality(U \cap P)
      BY <3>2, <3>3, FS_Union DEF P
    <3>5. Cardinality(U) \in Nat /\ Cardinality(U \cap P) \in Nat
      <4>1. IsFiniteSet(U \cap P)
        BY <3>3, FS_Subset
      <4> QED BY <3>3, <4>1, FS_CardinalityType
    <3>6. Cardinality(U \cup P) <= w.mappings[k].used + sz /\ w.mappings[k].used + sz \in Nat
      BY <1>6, <2>2, <3>2, <3>3, <3>4, <3>5 DEF P
    <3>7. IsFiniteSet(InUse(v, k)) /\ Cardinality(InUse(v, k)) <= w.mappings[k].used + sz
      BY <3>1, <3>4, <3>6, LessInUse DEF U, P
    <3> QED BY <1>8, <2>1, <2>2, <3>7 DEF MapKept
  <2>3. CASE k # base
    <3>1. InUse(v, k) \subseteq InUse(w, k)
      <4> SUFFICES ASSUME NEW e \in InUse(v, k) PROVE e \in InUse(w, k)
        OBVIOUS
      <4>1. PICK q \in DOMAIN f : f[q].page = k /\ e \in PartOf(q, f[q].size)
        BY <1>4, InUseIs
      <4>2. q # p
        BY <1>3, <2>3, <4>1
      <4>3. q \in DOMAIN w.allocs /\ w.allocs[q].page = k /\ e \in PartOf(q, w.allocs[q].size)
        BY <1>3, <4>1, <4>2
      <4> QED BY <4>3, InUseIs
    <3>2. v.mappings[k] = w.mappings[k]
      BY <1>7, <2>3
    <3>3. w.mappings[k].used \in Nat /\ IsFiniteSet(InUse(w, k)) /\ Cardinality(InUse(w, k)) <= w.mappings[k].used
      BY <2>1 DEF MapKept
    <3>4. IsFiniteSet(InUse(v, k)) /\ Cardinality(InUse(v, k)) <= w.mappings[k].used
      BY <3>1, <3>3, LessInUse
    <3> QED BY <2>1, <3>2, <3>4 DEF MapKept
  <2> QED BY <2>2, <2>3
<1>11. ASSUME NEW q \in DOMAIN v.allocs
       PROVE  PointerKept(v, q)
  <2>1. CASE q = p
    <3>1. v.allocs[q] = a /\ a.page = base /\ a.size = sz /\ a \in [page : Nat, size : Nat \ {0}]
      <4>1. base \in Nat
        BY DEF MapsKept, MapKept, Listed
      <4> QED BY <1>3, <1>4, <2>1, <4>1
    <3> HIDE DEF a
    <3> QED BY <1>2, <1>5, <1>7, <1>8, <2>1, <3>1 DEF PointerKept
  <2>2. CASE q # p
    <3>1. q \in DOMAIN w.allocs /\ v.allocs[q] = w.allocs[q]
      BY <1>3, <1>4, <2>2
    <3>2. PointerKept(w, q)
      BY <3>1 DEF MapsKept
    <3> QED BY <1>5, <1>7, <1>9, <3>1, <3>2 DEF PointerKept
  <2> QED BY <2>1, <2>2
<1>12. MapsKept(v)
  <2>1. v.maps \in Nat
    BY <1>5 DEF MapsKept
  <2>2. \A r \in v.regions : r.len > PageSize /\ r.at \div PageSize \in DOMAIN v.mappings =>
          pageCount(r.len) <= v.mappings[r.at \div PageSize].pages
    BY <1>5, <1>7, <1>9 DEF MapsKept
  <2> QED BY <1>10, <1>11, <2>1, <2>2 DEF MapsKept
<1>13. p \in DOMAIN v.allocs /\ v.allocs[p].size = sz
  BY <1>3, <1>4
<1> QED BY <1>1, <1>2, <1>4, <1>12, <1>13

\* A map goes only when the pointer that is released was the last in it
\* (unmapFileData, file.C:626): what the map counts is never less than what is in
\* use of it.
LEMMA UnmapKeeps ==
  ASSUME NEW w, DOMAIN w = Fields, MapsKept(w), NEW p, NEW sz \in Nat \ {0},
         p \in DOMAIN w.allocs => w.allocs[p].size = sz
  PROVE  LET v == unmapFileData(w, p, sz)
         IN  Same(v, w, {"mappings", "allocs"}) /\ MapsKept(v)
<1> DEFINE v == unmapFileData(w, p, sz)
           base == w.allocs[p].page
           rest == [q \in DOMAIN w.allocs \ {p} |-> w.allocs[q]]
           w1 == [w EXCEPT !.allocs = rest]
<1>1. CASE p \notin DOMAIN w.allocs
  BY <1>1 DEF unmapFileData, Same
<1>2. CASE p \in DOMAIN w.allocs
  <2>1. PointerKept(w, p) /\ base \in DOMAIN w.mappings /\ MapKept(w, base)
    BY <1>2 DEF MapsKept, PointerKept
  <2>2. w.mappings[base] \in [id : Nat, pages : Nat \ {0}, used : Nat]
    BY <2>1 DEF MapKept
  <2>3. Same(w1, w, {"allocs"}) /\ w1.allocs = rest
    BY DEF Same, Fields
  <2> DEFINE U == InUse(w, base)
             P == PartOf(p, sz)
             used == w.mappings[base].used
  <2>4. IsFiniteSet(U) /\ Cardinality(U) <= used /\ IsFiniteSet(P) /\ Cardinality(P) = sz /\ P \subseteq U
    <3>1. P \subseteq U
      BY <1>2, InUseIs
    <3> QED BY <2>1, <3>1, PartIs DEF MapKept
  <2>5. \A k : \A e : e \in InUse(w1, k) => e \in InUse(w, k) /\ e \notin P
    <3>1. ASSUME NEW k, NEW e \in InUse(w1, k)
          PROVE  e \in InUse(w, k) /\ e \notin P
      <4>1. PICK q \in DOMAIN rest : rest[q].page = k /\ e \in PartOf(q, rest[q].size)
        <5> HIDE DEF w1, rest, P, U
        <5>1. e \in InUse(w1, k)
          BY <3>1
        <5>2. \E q \in DOMAIN w1.allocs : w1.allocs[q].page = k /\ e \in PartOf(q, w1.allocs[q].size)
          BY <5>1, InUseIs
        <5> QED BY <2>3, <5>2
      <4>2. q \in DOMAIN w.allocs /\ q # p /\ w.allocs[q].page = k /\ e \in PartOf(q, w.allocs[q].size)
        BY <4>1
      <4>3. e \notin P
        BY <4>2 DEF PartOf
      <4> QED BY <4>2, <4>3, InUseIs
    <3> QED BY <3>1
  <2>6. IsFiniteSet(U \ P) /\ Cardinality(U \ P) = Cardinality(U) - sz /\ Cardinality(U) \in Nat
        /\ Cardinality(U \ P) \in Nat
    <3> HIDE DEF U, P
    <3>1. U \cap P = P
      BY <2>4
    <3>2. IsFiniteSet(U \ P) /\ Cardinality(U \ P) = Cardinality(U) - Cardinality(U \cap P)
      BY <2>4, FS_Difference
    <3> QED BY <2>4, <3>1, <3>2, FS_CardinalityType
  <2>7. ASSUME NEW q \in DOMAIN rest
        PROVE  /\ q \in DOMAIN w.allocs /\ q # p /\ rest[q] = w.allocs[q] /\ PointerKept(w, q)
               /\ w.allocs[q].page \in DOMAIN w.mappings
    BY DEF MapsKept, PointerKept
  <2> HIDE DEF rest
  <2>8. CASE used > sz
    <3>1. v = [w1 EXCEPT !.mappings[base].used = @ - sz]
      BY <1>2, <2>8 DEF unmapFileData, rest
    <3>2. /\ Same(v, w, {"mappings", "allocs"}) /\ v.allocs = rest
          /\ v.mappings = [w.mappings EXCEPT ![base].used = @ - sz]
      BY <2>3, <3>1 DEF Same, Fields
    <3> HIDE DEF v, w1
    <3>3. v.regions = w.regions /\ v.pages = w.pages /\ v.maps = w.maps
      BY <3>2 DEF Same, Fields
    <3>4. /\ DOMAIN v.mappings = DOMAIN w.mappings
          /\ v.mappings[base] = [w.mappings[base] EXCEPT !.used = @ - sz]
          /\ \A k \in DOMAIN w.mappings : k # base => v.mappings[k] = w.mappings[k]
      BY <2>1, <2>2, <3>2
    <3>5. /\ v.mappings[base] \in [id : Nat, pages : Nat \ {0}, used : Nat]
          /\ v.mappings[base].id = w.mappings[base].id /\ v.mappings[base].pages = w.mappings[base].pages
          /\ v.mappings[base].used = used - sz
      <4>1. used - sz \in Nat
        BY <2>2, <2>8
      <4> QED BY <2>2, <3>4, <4>1
    <3>6. \A k \in DOMAIN w.mappings :
            v.mappings[k].id = w.mappings[k].id /\ v.mappings[k].pages = w.mappings[k].pages
      BY <3>4, <3>5
    <3>7. \A k : InUse(v, k) = InUse(w1, k)
      BY <2>3, <3>2 DEF InUse
    <3>8. ASSUME NEW k \in DOMAIN v.mappings
          PROVE  MapKept(v, k)
      <4>1. MapKept(w, k) /\ Listed(v, k)
        BY <3>3, <3>4 DEF MapsKept, MapKept, Listed
      <4>2. CASE k = base
        <5>1. InUse(v, k) \subseteq U \ P
          BY <2>5, <3>7, <4>2
        <5>2. Cardinality(U \ P) <= used - sz /\ used - sz \in Nat
          BY <2>2, <2>4, <2>6, <2>8
        <5>3. IsFiniteSet(InUse(v, k)) /\ Cardinality(InUse(v, k)) <= used - sz
          BY <2>6, <5>1, <5>2, LessInUse
        <5> QED BY <3>5, <4>1, <4>2, <5>3 DEF MapKept
      <4>3. CASE k # base
        <5>1. InUse(v, k) \subseteq InUse(w, k)
          BY <2>5, <3>7
        <5>2. v.mappings[k] = w.mappings[k]
          BY <3>4, <4>3
        <5>3. w.mappings[k].used \in Nat /\ IsFiniteSet(InUse(w, k)) /\ Cardinality(InUse(w, k)) <= w.mappings[k].used
          BY <4>1 DEF MapKept
        <5>4. IsFiniteSet(InUse(v, k)) /\ Cardinality(InUse(v, k)) <= w.mappings[k].used
          BY <5>1, <5>3, LessInUse
        <5> QED BY <4>1, <5>2, <5>4 DEF MapKept
      <4> QED BY <4>2, <4>3
    <3>9. ASSUME NEW q \in DOMAIN v.allocs
          PROVE  PointerKept(v, q)
      <4>1. /\ q \in DOMAIN w.allocs /\ v.allocs[q] = w.allocs[q] /\ PointerKept(w, q)
            /\ w.allocs[q].page \in DOMAIN w.mappings
        BY <2>7, <3>2
      <4>2. v.allocs[q].page \in DOMAIN v.mappings
        BY <3>4, <4>1
      <4>3. /\ v.mappings[v.allocs[q].page].id = w.mappings[w.allocs[q].page].id
            /\ v.mappings[v.allocs[q].page].pages = w.mappings[w.allocs[q].page].pages
        BY <3>6, <4>1
      <4> HIDE DEF base, used
      <4> QED BY <3>3, <4>1, <4>2, <4>3 DEF PointerKept
    <3>10. \A r \in v.regions : r.len > PageSize /\ r.at \div PageSize \in DOMAIN v.mappings =>
             pageCount(r.len) <= v.mappings[r.at \div PageSize].pages
      BY <3>3, <3>4, <3>6 DEF MapsKept
    <3>11. MapsKept(v)
      BY <3>3, <3>8, <3>9, <3>10 DEF MapsKept
    <3> QED BY <3>2, <3>11 DEF v
  <2>9. CASE ~(used > sz)
    <3> DEFINE f == [k \in DOMAIN w.mappings \ {base} |-> w.mappings[k]]
    <3>1. v = [w1 EXCEPT !.mappings = f]
      <4>1. w1.mappings = w.mappings
        BY <2>3 DEF Same, Fields
      <4> HIDE DEF w1
      <4>2. v = [w1 EXCEPT !.mappings = [k \in DOMAIN @ \ {base} |-> @[k]]]
        BY <1>2, <2>9 DEF unmapFileData, w1, rest
      <4> QED BY <2>3, <4>1, <4>2 DEF Same
    <3>2. Same(v, w, {"mappings", "allocs"}) /\ v.allocs = rest /\ v.mappings = f
      <4> HIDE DEF f
      <4> QED BY <2>3, <3>1 DEF Same, Fields
    <3> HIDE DEF v, w1
    <3>3. v.regions = w.regions /\ v.pages = w.pages /\ v.maps = w.maps
      BY <3>2 DEF Same, Fields
    <3>4. \A k \in DOMAIN f : k \in DOMAIN w.mappings /\ k # base /\ f[k] = w.mappings[k]
      OBVIOUS
    <3>5. \A k \in DOMAIN w.mappings : k # base => k \in DOMAIN f
      OBVIOUS
    <3> HIDE DEF f
    <3>6. \A k : InUse(v, k) = InUse(w1, k)
      BY <2>3, <3>2 DEF InUse
    <3>7. ASSUME NEW k \in DOMAIN v.mappings
          PROVE  MapKept(v, k)
      <4>1. k \in DOMAIN w.mappings /\ v.mappings[k] = w.mappings[k]
        BY <3>2, <3>4
      <4>2. MapKept(w, k) /\ Listed(v, k)
        BY <3>3, <4>1 DEF MapsKept, MapKept, Listed
      <4>3. InUse(v, k) \subseteq InUse(w, k)
        BY <2>5, <3>6
      <4>4. w.mappings[k].used \in Nat /\ IsFiniteSet(InUse(w, k)) /\ Cardinality(InUse(w, k)) <= w.mappings[k].used
        BY <4>2 DEF MapKept
      <4>5. IsFiniteSet(InUse(v, k)) /\ Cardinality(InUse(v, k)) <= w.mappings[k].used
        BY <4>3, <4>4, LessInUse
      <4> QED BY <4>1, <4>2, <4>5 DEF MapKept
    <3>8. U \ P = {}
      <4> HIDE DEF U, P, used
      <4>1. used <= sz /\ used \in Nat
        BY <2>2, <2>9 DEF used
      <4>2. Cardinality(U \ P) = 0
        BY <2>4, <2>6, <4>1
      <4> QED BY <2>6, <4>2, FS_EmptySet
    <3>9. ASSUME NEW q \in DOMAIN v.allocs
          PROVE  PointerKept(v, q)
      <4>1. /\ q \in DOMAIN w.allocs /\ q # p /\ v.allocs[q] = w.allocs[q] /\ PointerKept(w, q)
            /\ w.allocs[q].page \in DOMAIN w.mappings
        BY <2>7, <3>2
      <4>2. w.allocs[q].page # base
        <5> SUFFICES ASSUME w.allocs[q].page = base PROVE FALSE
          OBVIOUS
        <5>1. w.allocs[q].size \in Nat \ {0}
          BY <4>1 DEF PointerKept
        <5>2. <<q, 1>> \in PartOf(q, w.allocs[q].size)
          BY <5>1 DEF PartOf
        <5>3. <<q, 1>> \in U
          BY <4>1, <5>2, InUseIs
        <5>4. <<q, 1>> \notin P
          BY <4>1 DEF PartOf
        <5> QED BY <3>8, <5>3, <5>4
      <4>3. v.allocs[q].page \in DOMAIN v.mappings /\ v.mappings[v.allocs[q].page] = w.mappings[v.allocs[q].page]
        BY <3>2, <3>4, <3>5, <4>1, <4>2
      <4> QED BY <3>3, <4>1, <4>3 DEF PointerKept
    <3>10. \A r \in v.regions : r.len > PageSize /\ r.at \div PageSize \in DOMAIN v.mappings =>
             pageCount(r.len) <= v.mappings[r.at \div PageSize].pages
      BY <3>2, <3>3, <3>4 DEF MapsKept
    <3>11. MapsKept(v)
      BY <3>3, <3>7, <3>9, <3>10 DEF MapsKept
    <3> QED BY <3>2, <3>11 DEF v
  <2> QED BY <2>8, <2>9
<1> QED BY <1>1, <1>2

\* Space that is given out takes nothing from the maps.
LEMMA GivenKeepsMaps ==
  ASSUME NEW w, FileKept(w), MapsKept(w), NEW g, NEW len, Given(g, w, len)
  PROVE  MapsKept(g.w)
<1> DEFINE v == g.w
           R == [at |-> g.at, len |-> len]
<1>1. /\ v.mappings = w.mappings /\ v.allocs = w.allocs /\ v.maps = w.maps
      /\ v.regions = w.regions \cup {R}
  BY DEF Given, Same, Fields, TableFields
<1>2. PICK l \in Nat, m \in Nat : l = Len(w.pages) /\ m = Len(v.pages) /\ l <= m
  BY DEF FileKept, TableKept, Given
<1>3. len <= PageSize \/ l <= g.at \div PageSize
  BY <1>2 DEF Given
<1>4. R.at = g.at /\ R.len = len
  OBVIOUS
<1> HIDE DEF v, R
<1>5. \A k : InUse(v, k) = InUse(w, k)
  BY <1>1 DEF InUse
<1>6. \A k \in DOMAIN w.mappings : MapKept(w, k) /\ k \in Nat /\ k < l
  BY <1>2 DEF MapsKept, MapKept, Listed
<1>7. \A k \in DOMAIN v.mappings : MapKept(v, k)
  BY <1>1, <1>2, <1>5, <1>6 DEF MapKept, Listed
<1>8. \A p \in DOMAIN v.allocs : PointerKept(v, p)
  BY <1>1 DEF MapsKept, PointerKept
<1>9. ASSUME NEW r \in v.regions, r.len > PageSize, r.at \div PageSize \in DOMAIN v.mappings
      PROVE  pageCount(r.len) <= v.mappings[r.at \div PageSize].pages
  <2>1. CASE r = R
    <3>1. ~(len <= PageSize)
      <4>1. len \in Nat
        BY <1>1, <1>4, <2>1 DEF Given, FileKept, SpaceKept, v
      <4> QED BY <1>4, <1>9, <2>1, <4>1, Sizes
    <3>2. g.at \div PageSize \in Nat /\ g.at \div PageSize < l
      BY <1>1, <1>4, <1>6, <1>9, <2>1
    <3> QED BY <1>3, <3>1, <3>2
  <2>2. CASE r # R
    BY <1>1, <1>9, <2>2 DEF MapsKept
  <2> QED BY <2>1, <2>2
<1>10. MapsKept(v)
  <2>1. v.maps \in Nat
    BY <1>1 DEF MapsKept
  <2> QED BY <1>7, <1>8, <1>9, <2>1 DEF MapsKept
<1> QED BY <1>10 DEF v

\* Products with the size of a page are in the order of their factors.
LEMMA TimesOrder ==
  ASSUME NEW a \in Nat, NEW b \in Nat, a <= b
  PROVE  a * PageSize <= b * PageSize /\ a * PageSize \in Nat /\ b * PageSize \in Nat
<1>1. a * PageSize \in Nat /\ b * PageSize \in Nat
  BY Sizes
<1>2. CASE a = b
  BY <1>1, <1>2
<1>3. CASE a < b
  <2>1. (a + 1) * PageSize <= b * PageSize /\ (a + 1) * PageSize = a * PageSize + PageSize
    BY <1>3, PageOrder
  <2>2. PICK x \in Nat, y \in Nat, n \in Nat : x = a * PageSize /\ y = b * PageSize /\ n = PageSize
    BY <1>1, Sizes
  <2>3. x + n <= y
    BY <2>1, <2>2
  <2> QED BY <2>2, <2>3
<1> QED BY <1>2, <1>3

\* Rounding up (align, ptr.H:96) makes no number less.
LEMMA RoundUpIs ==
  ASSUME NEW x \in Nat
  PROVE  RoundUp(x, MapPages) \in Nat /\ x <= RoundUp(x, MapPages)
<1>1. PICK m \in Nat \ {0} : m = MapPages
  BY Sizes
<1>2. PICK a \in Nat : a = x + m - 1
  OBVIOUS
<1>3. PICK q \in Nat, r \in Nat : q = a \div m /\ r < m /\ a = q * m + r
  BY DivMod
<1>4. q * m \in Nat
  OBVIOUS
<1>5. PICK y \in Nat : y = q * m
  BY <1>4
<1>6. RoundUp(x, MapPages) = y
  BY <1>1, <1>2, <1>3, <1>5 DEF RoundUp
<1>7. x + m - 1 = y + r
  BY <1>2, <1>3, <1>5
<1> QED BY <1>3, <1>6, <1>7

\* The pages in which space lies: from the page of its position, as many as
\* pageCount says.
LEMMA PagesOf ==
  ASSUME NEW at \in Nat, NEW len \in Nat \ {0}, InPages([at |-> at, len |-> len])
  PROVE  LET page == at \div PageSize
             n    == pageCount(len)
         IN  /\ page \in Nat /\ n \in Nat \ {0}
             /\ page * PageSize <= at /\ at < (page + 1) * PageSize
             /\ at + len <= (page + n) * PageSize
             /\ len > PageSize => at = page * PageSize
<1>1. PICK k \in Nat \ {0} : k = PageSize
  BY Sizes
<1>2. PICK page \in Nat, r \in Nat :
        page = at \div PageSize /\ r = at % PageSize /\ r < k /\ at = page * k + r
  <2>1. /\ at \div PageSize \in Nat /\ at % PageSize \in 0 .. PageSize - 1
        /\ at = (at \div PageSize) * PageSize + (at % PageSize)
    BY PageParts
  <2>2. PICK page \in Nat, r \in Nat : page = at \div PageSize /\ r = at % PageSize
    BY <1>1, <2>1
  <2>3. at = page * k + r /\ r < k
    BY <1>1, <2>1, <2>2
  <2> QED BY <2>2, <2>3
<1>3. PICK n \in Nat \ {0} : n = pageCount(len) /\ len <= n * k
  BY <1>1, PageCountIs
<1>4. PICK x \in Nat, y \in Nat : x = page * k /\ y = n * k /\ (page + n) * k = x + y /\ (page + 1) * k = x + k /\ k <= y
  <2>1. page * k \in Nat /\ n * k \in Nat /\ (page + n) * k = page * k + n * k /\ (page + 1) * k = page * k + k
    BY <1>3
  <2>2. k <= n * k
    BY <1>3
  <2> QED BY <2>1, <2>2
<1>5. r = 0 \/ r + len <= k
  BY <1>1, <1>2 DEF InPages
<1>6. at = x + r /\ at + len <= x + y
  BY <1>2, <1>3, <1>4, <1>5
<1>7. len > k => r = 0
  BY <1>5
<1>8. x <= at /\ at < x + k
  BY <1>2, <1>6
<1> QED BY <1>1, <1>2, <1>3, <1>4, <1>6, <1>7, <1>8

\* A map that has the pages asked for.
Mapped(m, w, page, pages) ==
  /\ DOMAIN m = {"w", "base"}
  /\ Same(m.w, w, {"mappings", "maps"}) /\ MapsKept(m.w)
  /\ m.base \in DOMAIN m.w.mappings
  /\ (page + pages) * PageSize <= (m.base + m.w.mappings[m.base].pages) * PageSize

\* The pages of given out space get a map that has them all, and no map is
\* replaced by a smaller one (mappedFileRegion, file.C:583).
LEMMA RegionMapped ==
  ASSUME NEW w, FileKept(w), MapsKept(w), NEW R \in w.regions
  PROVE  LET page  == R.at \div PageSize
             pages == pageCount(R.len)
         IN  Mapped(mappedFileRegion(w, page, pages), w, page, pages)
<1> DEFINE D == DOMAIN w.mappings
<1>1. R \in [at : Nat, len : Nat \ {0}] /\ InPages(R) /\ R.at + R.len <= w.size
  BY DEF FileKept, SpaceKept
<1>2. PICK at \in Nat, len \in Nat \ {0} : at = R.at /\ len = R.len /\ R = [at |-> at, len |-> len]
  BY <1>1
<1>3. PICK page \in Nat, pages \in Nat \ {0} :
        /\ page = at \div PageSize /\ pages = pageCount(len)
        /\ page * PageSize <= at /\ at < (page + 1) * PageSize
        /\ at + len <= (page + pages) * PageSize
        /\ len > PageSize => at = page * PageSize
  BY <1>1, <1>2, PagesOf
<1>4. PICK l \in Nat : l = Len(w.pages) /\ w.size = (l + 0) * PageSize
  BY DEF FileKept, TableKept
<1>5. page < l
  <2> SUFFICES ASSUME l <= page PROVE FALSE
    BY <1>3, <1>4
  <2>1. l * PageSize <= page * PageSize
    BY TimesOrder
  <2>2. l + 0 = l
    OBVIOUS
  <2>3. PICK x \in Nat, y \in Nat : x = l * PageSize /\ y = page * PageSize
    BY TimesOrder
  <2>4. at + len <= x
    BY <1>1, <1>2, <1>4, <2>2, <2>3
  <2>5. y <= at /\ x <= y
    BY <1>3, <2>1, <2>3
  <2> QED BY <2>4, <2>5
<1>6. ASSUME NEW k \in D
      PROVE  k \in Nat /\ k < l /\ w.mappings[k].pages \in Nat \ {0}
  <2>1. MapKept(w, k)
    BY DEF MapsKept
  <2> QED BY <1>4, <2>1 DEF MapKept, Listed
<1> DEFINE below == {k \in D : k <= page}
           covers == \E k \in below : k = Max(below) /\ page + pages <= k + w.mappings[k].pages
           m == mappedFileRegion(w, page, pages)
<1>7. below # {} => Max(below) \in below /\ \A k \in below : k <= Max(below)
  <2>1. below \in SUBSET Nat /\ \A k \in below : k <= page
    BY <1>6
  <2> HIDE DEF below
  <2> QED BY <2>1, MaxIs
<1> HIDE DEF D
<1>8. CASE covers
  <2>1. m = [w |-> w, base |-> Max(below)]
    BY <1>8 DEF mappedFileRegion, D
  <2>2. PICK k \in below : k = Max(below) /\ page + pages <= k + w.mappings[k].pages
    BY <1>8
  <2>3. k \in D /\ k \in Nat /\ w.mappings[k].pages \in Nat
    BY <1>6, <2>2
  <2> HIDE DEF below, m
  <2>4. (page + pages) * PageSize <= (k + w.mappings[k].pages) * PageSize
    <3>1. PICK a \in Nat, b \in Nat : a = page + pages /\ b = k + w.mappings[k].pages /\ a <= b
      BY <2>2, <2>3
    <3>2. a * PageSize <= b * PageSize
      BY <3>1, TimesOrder
    <3> QED BY <3>1, <3>2
  <2>5. Same(w, w, {"mappings", "maps"})
    BY DEF Same, FileKept
  <2>6. Mapped(m, w, page, pages)
    BY <2>1, <2>2, <2>3, <2>4, <2>5 DEF Mapped, D
  <2> QED BY <1>2, <1>3, <2>6 DEF m
<1>9. CASE ~covers
  <2> DEFINE base == Min({LastEnd(w, page), page})
             n == RoundUp(pages + (page - base), MapPages)
  <2>1. m = NewMap(w, base, n)
    BY <1>9 DEF mappedFileRegion, createFileRegionMap, MapFrom, D
  <2>2. page \notin D
    <3> SUFFICES ASSUME page \in D PROVE FALSE
      OBVIOUS
    <3>1. page \in below /\ Max(below) = page
      <4>1. page \in below
        OBVIOUS
      <4>2. Max(below) \in below /\ page <= Max(below)
        BY <1>7, <4>1
      <4>3. Max(below) \in Nat /\ Max(below) <= page
        BY <1>6, <4>2
      <4> QED BY <4>1, <4>2, <4>3
    <3>2. ~(page + pages <= page + w.mappings[page].pages)
      BY <1>9, <3>1
    <3>3. w.mappings[page].pages \in Nat \ {0} /\ w.mappings[page].pages < pages
      BY <1>6, <3>2
    <3>4. len > PageSize
      <4> SUFFICES ASSUME len <= PageSize PROVE FALSE
        BY Sizes
      <4>1. (pages - 1) * PageSize < len
        BY <1>3, PageCountIs
      <4>2. 1 <= pages - 1 /\ pages - 1 \in Nat
        BY <3>3
      <4>3. 1 * PageSize <= (pages - 1) * PageSize /\ (pages - 1) * PageSize \in Nat
        BY <4>2, TimesOrder
      <4>4. 1 * PageSize = PageSize
        BY Sizes
      <4> QED BY Sizes, <4>1, <4>3, <4>4
    <3>5. pageCount(len) <= w.mappings[page].pages
      BY <1>2, <1>3, <3>4 DEF MapsKept, D
    <3> QED BY <1>3, <3>3, <3>5
  <2>3. base \in Nat /\ base <= page /\ base \notin D
    <3>1. CASE D = {}
      <4>1. LastEnd(w, page) = page
        BY <3>1 DEF LastEnd, D
      <4>2. {LastEnd(w, page), page} \in SUBSET Nat /\ {LastEnd(w, page), page} = {page}
        BY <4>1
      <4>3. base = page
        BY <4>2, MinIs
      <4> QED BY <2>2, <4>3
    <3>2. CASE D # {}
      <4> DEFINE last == Max(D)
                 end == last + w.mappings[last].pages
      <4>1. last \in D /\ \A k \in D : k <= last
        <5>1. D \in SUBSET Nat /\ \A k \in D : k <= l
          BY <1>6
        <5> QED BY <3>2, <5>1, MaxIs
      <4>2. LastEnd(w, page) = end
        BY <3>2 DEF LastEnd, D
      <4>3. last \in Nat /\ end \in Nat /\ last < end
        BY <1>6, <4>1
      <4> HIDE DEF end, last
      <4>4. base \in {end, page} /\ base <= page
        <5>1. {end, page} \in SUBSET Nat /\ {end, page} # {}
          BY <4>3
        <5>2. Min({end, page}) \in {end, page} /\ \A x \in {end, page} : Min({end, page}) <= x
          BY <5>1, MinIs
        <5> QED BY <4>2, <5>2
      <4>5. end \notin D
        BY <1>6, <4>1, <4>3
      <4> HIDE DEF base
      <4> QED BY <2>2, <4>3, <4>4, <4>5
    <3> QED BY <3>1, <3>2
  <2> HIDE DEF base, covers, below
  <2>4. n \in Nat \ {0} /\ pages + (page - base) <= n
    <3>1. PICK x \in Nat : x = pages + (page - base) /\ x > 0
      BY <1>3, <2>3
    <3>2. RoundUp(x, MapPages) \in Nat /\ x <= RoundUp(x, MapPages)
      BY <3>1, RoundUpIs
    <3> QED BY <3>1, <3>2
  <2> HIDE DEF n
  <2>5. Listed(w, base)
    BY <1>4, <1>5, <2>3 DEF Listed
  <2>6. Fits(w, base, n)
    <3> SUFFICES ASSUME NEW r \in w.regions, r.len > PageSize, r.at \div PageSize = base
                 PROVE  pageCount(r.len) <= n
      BY DEF Fits
    <3>1. PICK a \in Nat, h \in Nat \ {0} : a = r.at /\ h = r.len /\ r = [at |-> a, len |-> h] /\ InPages(r)
      BY DEF FileKept, SpaceKept
    <3>2. PICK c \in Nat \ {0} : c = pageCount(h) /\ (c - 1) * PageSize < h /\ a = base * PageSize
      <4>1. pageCount(h) \in Nat \ {0} /\ (pageCount(h) - 1) * PageSize < h
        BY PageCountIs
      <4>2. a = base * PageSize
        BY <3>1, PagesOf
      <4> QED BY <4>1, <4>2
    <3>3. CASE r = R
      BY <1>2, <1>3, <2>3, <2>4, <3>1, <3>3
    <3>4. CASE r # R
      <4>1. a + h <= at \/ at + len <= a
        BY <1>2, <3>1, <3>4 DEF FileKept, SpaceKept, Apart
      <4>2. PICK k \in Nat : k = PageSize
        BY Sizes
      <4>3. PICK x \in Nat, y \in Nat, y1 \in Nat, z \in Nat :
              /\ x = base * k /\ y = page * k /\ y1 = (page + 1) * k /\ z = (c - 1) * k /\ x <= y
        <5>1. c - 1 \in Nat /\ page + 1 \in Nat
          OBVIOUS
        <5>2. base * k <= page * k /\ base * k \in Nat /\ page * k \in Nat
          BY <2>3, <4>2, TimesOrder
        <5>3. (page + 1) * k \in Nat /\ (c - 1) * k \in Nat
          BY <5>1
        <5> QED BY <5>2, <5>3
      <4>4. z < h /\ a = x /\ y <= at /\ at < y1
        BY <1>3, <3>2, <4>2, <4>3
      <4>5. x + z < y1
        BY <4>1, <4>3, <4>4
      <4>6. (base + (c - 1)) * k < (page + 1) * k
        <5>1. (base + (c - 1)) * k = base * k + (c - 1) * k
          <6>1. PICK d \in Nat : d = c - 1 OBVIOUS
          <6>2. (base + d) * k = base * k + d * k
            BY <2>3
          <6> QED BY <6>1, <6>2
        <5> QED BY <4>3, <4>5, <5>1
      <4>7. base + (c - 1) < page + 1
        <5> SUFFICES ASSUME page + 1 <= base + (c - 1) PROVE FALSE
          BY <2>3
        <5>1. PICK e \in Nat, f \in Nat : e = page + 1 /\ f = base + (c - 1)
          BY <2>3
        <5>2. e * k <= f * k /\ e * k \in Nat /\ f * k \in Nat
          BY <4>2, <5>1, TimesOrder
        <5> QED BY <4>6, <5>1, <5>2
      <4> QED BY <1>3, <2>3, <2>4, <3>1, <3>2, <4>7
    <3> QED BY <3>3, <3>4
  <2>7. /\ DOMAIN m = {"w", "base"} /\ m.base = base
        /\ Same(m.w, w, {"mappings", "maps"}) /\ MapsKept(m.w)
        /\ base \in DOMAIN m.w.mappings /\ m.w.mappings[base].pages = n
    <3>1. base \notin DOMAIN w.mappings
      BY <2>3 DEF D
    <3> QED BY <2>1, <2>3, <2>4, <2>5, <2>6, <3>1, NewMapKeeps DEF FileKept
  <2> HIDE DEF m
  <2>8. (page + pages) * PageSize <= (base + n) * PageSize
    <3>1. PICK a \in Nat, b \in Nat : a = page + pages /\ b = base + n /\ a <= b
      BY <2>3, <2>4
    <3>2. a * PageSize <= b * PageSize
      BY <3>1, TimesOrder
    <3> QED BY <3>1, <3>2
  <2>9. Mapped(m, w, page, pages)
    BY <2>7, <2>8 DEF Mapped
  <2> QED BY <1>2, <1>3, <2>9 DEF m
<1> QED BY <1>8, <1>9

\* A pointer to given out space, with its map.
Pointed(m, w, pos, sz) ==
  /\ DOMAIN m = {"w", "p"}
  /\ Same(m.w, w, {"mappings", "allocs", "maps"}) /\ MapsKept(m.w)
  /\ m.p[2] = pos /\ m.p \in DOMAIN m.w.allocs /\ m.w.allocs[m.p].size = sz

\* mapFileData (file.C:603) returns such a pointer, and keeps all others.
LEMMA MapDataKeeps ==
  ASSUME NEW w, FileKept(w), MapsKept(w), NEW pos \in Nat, NEW sz \in Nat \ {0},
         [at |-> pos, len |-> sz] \in w.regions
  PROVE  Pointed(mapFileData(w, pos, sz), w, pos, sz)
<1> DEFINE R == [at |-> pos, len |-> sz]
           page == pos \div PageSize
           pages == pageCount(sz)
           m == mappedFileRegion(w, page, pages)
           v == m.w
           base == m.base
           r == mapFileData(w, pos, sz)
<1>1. Mapped(m, w, page, pages)
  <2>1. R.at = pos /\ R.len = sz
    OBVIOUS
  <2> QED BY <2>1, RegionMapped
<1>2. InPages(R)
  BY DEF FileKept, SpaceKept
<1>3. page \in Nat /\ pages \in Nat \ {0} /\ pos + sz <= (page + pages) * PageSize
  BY <1>2, PagesOf
<1>4. r = MapPosition(m, pos, sz)
  BY DEF mapFileData
<1> HIDE DEF r, m, page, pages
<1>5. /\ DOMAIN m = {"w", "base"} /\ Same(v, w, {"mappings", "maps"}) /\ MapsKept(v)
      /\ base \in DOMAIN v.mappings /\ (page + pages) * PageSize <= (base + v.mappings[base].pages) * PageSize
  BY <1>1 DEF Mapped
<1>6. MapPosition(m, pos, sz) = MapPosition([w |-> v, base |-> base], pos, sz)
  BY DEF MapPosition, MapInRegion
<1>7. R \in v.regions /\ DOMAIN v = Fields
  BY <1>5 DEF Same, Fields
<1>8. pos + sz <= (base + v.mappings[base].pages) * PageSize
  <2>1. base \in Nat /\ v.mappings[base].pages \in Nat
    BY <1>5 DEF MapsKept, MapKept, Listed
  <2>2. PICK a \in Nat, b \in Nat : a = page + pages /\ b = base + v.mappings[base].pages
    <3>1. page + pages \in Nat
      BY <1>3
    <3>2. base + v.mappings[base].pages \in Nat
      <4> HIDE DEF base, v
      <4> QED BY <2>1
    <3> QED BY <3>1, <3>2
  <2>3. PICK x \in Nat, y \in Nat : x = a * PageSize /\ y = b * PageSize
    BY Sizes
  <2>4. pos + sz <= x /\ x <= y
    BY <1>3, <1>5, <2>2, <2>3
  <2>5. pos + sz <= y
    BY <2>3, <2>4
  <2> QED BY <2>2, <2>3, <2>5
<1> HIDE DEF v, base
<1>9. /\ DOMAIN r = {"w", "p"}
      /\ Same(r.w, v, {"mappings", "allocs"}) /\ MapsKept(r.w)
      /\ r.p[2] = pos /\ r.p \in DOMAIN r.w.allocs /\ r.w.allocs[r.p].size = sz
  BY <1>4, <1>5, <1>6, <1>7, <1>8, MapInKeeps
<1>10. Same(r.w, w, {"mappings", "allocs", "maps"})
  BY <1>5, <1>9 DEF Same
<1> QED BY <1>9, <1>10 DEF Pointed, r

(***************************************************************************)
(* Calls of the file's operations                                          *)
(***************************************************************************)

\* What a call leaves of a writer's memory: all that holds of it still does,
\* and space that was given out stays so.
Goes(v, w) == Kept(v) /\ w.regions \subseteq v.regions
Stays(v, w) == Goes(v, w) /\ v.bindings = w.bindings

\* The invariant of a memory in its two halves: the file, and the maps.
LEMMA KeptIs ==
  ASSUME NEW w
  PROVE  Kept(w) <=> FileKept(w) /\ MapsKept(w)
BY DEF Kept, FileKept

\* The half about the file does not depend on maps, bindings and changes planned.
LEMMA FileMoves ==
  ASSUME NEW v, NEW w, Same(v, w, {"mappings", "allocs", "maps", "bindings", "out"}),
         FileKept(w), PlanKept(v.out)
  PROVE  FileKept(v)
<1>1. /\ DOMAIN v = Fields /\ v.size = w.size /\ v.head = w.head /\ v.tocpages = w.tocpages
      /\ v.pages = w.pages /\ v.freespace = w.freespace /\ v.regions = w.regions
  BY DEF Same, Fields
<1>2. TableKept(v, 0)
  BY <1>1 DEF FileKept, TableKept, Listed, PageOf
<1>3. IndexKept(v)
  BY <1>1 DEF FileKept, IndexKept, Indexed, Listed, PageOf
<1>4. SpaceKept(v)
  <2>1. \A r, page : ApartFrom(w, r, page) => ApartFrom(v, r, page)
    BY <1>1 DEF ApartFrom, PageOf
  <2> QED BY <1>1, <2>1 DEF FileKept, SpaceKept
<1> QED BY <1>1, <1>2, <1>3, <1>4 DEF FileKept

\* The half about the maps does not depend on bindings and changes planned.
LEMMA MapsMove ==
  ASSUME NEW v, NEW w, Same(v, w, {"bindings", "out"}), MapsKept(w)
  PROVE  MapsKept(v)
<1>1. /\ v.mappings = w.mappings /\ v.allocs = w.allocs /\ v.maps = w.maps
      /\ v.pages = w.pages /\ v.regions = w.regions
  BY DEF Same, Fields
<1>2. \A k : InUse(v, k) = InUse(w, k)
  BY <1>1 DEF InUse
<1>3. \A k \in DOMAIN v.mappings : MapKept(v, k)
  BY <1>1, <1>2 DEF MapsKept, MapKept, Listed
<1>4. \A p \in DOMAIN v.allocs : PointerKept(v, p)
  BY <1>1 DEF MapsKept, PointerKept
<1> QED BY <1>1, <1>3, <1>4 DEF MapsKept

\* Two calls, one after the other.
LEMMA StaysOn ==
  ASSUME NEW u, NEW v, NEW w, Stays(u, v)
  PROVE  /\ Stays(v, w) => Stays(u, w)
         /\ Goes(v, w) => Goes(u, w)
BY DEF Stays, Goes

\* A change to the file that the memory does not know of (write, file.C:187).
LEMMA EmitKeeps ==
  ASSUME NEW w, Kept(w), NEW c, IsChange(c)
  PROVE  Stays(Emit(w, c), w) /\ Emit(w, c).regions = w.regions
<1>1. FileKept(w) /\ MapsKept(w) /\ DOMAIN w = Fields /\ PlanKept(w.out)
  BY DEF Kept, FileKept
<1> DEFINE v == Emit(w, c)
<1>2. Same(v, w, {"out"}) /\ v.out = Append(w.out, c)
  BY <1>1, EmitIs
<1> HIDE DEF v
<1>3. PlanKept(v.out)
  BY <1>1, <1>2, PlanGoesOn
<1>4. /\ Same(v, w, {"mappings", "allocs", "maps", "bindings", "out"}) /\ Same(v, w, {"bindings", "out"})
      /\ v.regions = w.regions /\ v.bindings = w.bindings
  BY <1>2 DEF Same, Fields
<1>5. Kept(v)
  BY <1>1, <1>3, <1>4, FileMoves, MapsMove, KeptIs
<1> QED BY <1>4, <1>5 DEF v, Stays, Goes

\* A value written into given out space is such a change.
LEMMA WriteKeeps ==
  ASSUME NEW w, Kept(w), NEW why \in {"value", "count", "offset", "size", "name", "type"}, NEW at, NEW cells
  PROVE  Stays(Emit(w, Write(why, at, cells)), w)
<1>1. IsChange(Write(why, at, cells))
  BY DEF IsChange, Write
<1> QED BY <1>1, EmitKeeps

\* A request for space (findSpace, file.C:454) keeps the whole memory.
LEMMA SpaceGoes ==
  ASSUME NEW w, Kept(w), NEW type \in {"environment", "data"}, NEW len \in Nat \ {0}, NEW align \in Nat \ {0}
  PROVE  LET g == findSpace(w, type, len, align)
         IN  /\ DOMAIN g = {"w", "at"} /\ g.at \in Nat /\ Stays(g.w, w)
             /\ [at |-> g.at, len |-> len] \in g.w.regions
<1> DEFINE g == findSpace(w, type, len, align)
<1>1. FileKept(w) /\ MapsKept(w)
  BY KeptIs
<1>2. Given(g, w, len)
  BY <1>1, FindSpaceGiven
<1> HIDE DEF g
<1>3. MapsKept(g.w)
  BY <1>1, <1>2, GivenKeepsMaps
<1>4. Kept(g.w)
  BY <1>2, <1>3, KeptIs DEF Given
<1>5. g.w.bindings = w.bindings
  BY <1>2 DEF Given, Same, Fields, TableFields
<1> QED BY <1>2, <1>4, <1>5 DEF Given, Stays, Goes, g

\* A string of a record is two such changes.
LEMMA SizedKeeps ==
  ASSUME NEW w, Kept(w), NEW why \in {"name", "type"}, NEW at, NEW x
  PROVE  Stays(WriteSized(w, why, at, x), w)
<1> DEFINE a == Emit(w, Write("size", at, <<Sized>>))
           b == Emit(a, Write(why, at, <<<<why, x>>>>))
<1>1. WriteSized(w, why, at, x) = b
  BY DEF WriteSized
<1>2. Stays(a, w)
  BY WriteKeeps
<1> HIDE DEF a
<1>3. Stays(b, a)
  BY <1>2, WriteKeeps DEF Stays, Goes
<1> HIDE DEF b
<1> QED BY <1>1, <1>2, <1>3, StaysOn

\* A binding's record gets space of its own (addBinding, file.C:498), and the name
\* is bound to the offset.
LEMMA BindingKeeps ==
  ASSUME NEW w, Kept(w), NEW name, NEW offset
  PROVE  LET v == addBinding(w, name, offset)
         IN  Goes(v, w) /\ v.bindings = Put(w.bindings, name, binding(name, offset))
<1> DEFINE v == addBinding(w, name, offset)
           s == findSpace(w, "environment", RecordSize, 1)
           a == Emit(s.w, Write("offset", s.at, <<<<"offset", offset>>>>))
           b == WriteSized(a, "name", s.at + 1, name)
           c == WriteSized(b, "type", s.at + 2, name)
           x == binding(name, offset)
<1>1. Stays(s.w, w)
  <2>1. RecordSize \in Nat \ {0} /\ 1 \in Nat \ {0}
    BY DEF RecordSize
  <2> QED BY <2>1, SpaceGoes
<1>2. v = [c EXCEPT !.bindings = Put(@, name, x)]
  BY DEF addBinding, WriteBinding
<1> HIDE DEF s, x
<1>3. Stays(a, s.w)
  BY <1>1, WriteKeeps DEF Stays, Goes
<1> HIDE DEF a
<1>4. Stays(b, a)
  BY <1>3, SizedKeeps DEF Stays, Goes
<1> HIDE DEF b
<1>5. Stays(c, b)
  BY <1>4, SizedKeeps DEF Stays, Goes
<1> HIDE DEF c, v
<1>6. Stays(c, w)
  BY <1>1, <1>3, <1>4, <1>5, StaysOn
<1>7. FileKept(c) /\ MapsKept(c) /\ DOMAIN c = Fields /\ PlanKept(c.out)
  BY <1>6, KeptIs DEF Stays, Goes, FileKept
<1>8. /\ Same(v, c, {"bindings"}) /\ v.bindings = Put(c.bindings, name, x)
      /\ v.out = c.out /\ v.regions = c.regions
  BY <1>2, <1>7 DEF Same, Fields
<1>9. Same(v, c, {"mappings", "allocs", "maps", "bindings", "out"}) /\ Same(v, c, {"bindings", "out"})
  BY <1>8 DEF Same
<1>10. Kept(v)
  BY <1>7, <1>8, <1>9, FileMoves, MapsMove, KeptIs
<1> QED BY <1>6, <1>8, <1>10 DEF Stays, Goes, v, x

\* Mapped space, with a pointer to it.
Placed(a, len) ==
  /\ DOMAIN a = {"w", "p", "at"} /\ a.at \in Nat /\ a.p[2] = a.at
  /\ Kept(a.w) /\ [at |-> a.at, len |-> len] \in a.w.regions

\* Mapping given out space (mapFileData, file.C:603) keeps the whole memory.
LEMMA PointedKeeps ==
  ASSUME NEW w, Kept(w), NEW at \in Nat, NEW len \in Nat \ {0}, [at |-> at, len |-> len] \in w.regions
  PROVE  LET m == mapFileData(w, at, len) IN DOMAIN m = {"w", "p"} /\ m.p[2] = at /\ Stays(m.w, w)
<1> DEFINE m == mapFileData(w, at, len)
<1>1. FileKept(w) /\ MapsKept(w)
  BY KeptIs
<1>2. Pointed(m, w, at, len)
  BY <1>1, MapDataKeeps
<1> HIDE DEF m
<1>3. m.w.out = w.out /\ m.w.regions = w.regions /\ m.w.bindings = w.bindings
  BY <1>2 DEF Pointed, Same, Fields
<1>4. Same(m.w, w, {"mappings", "allocs", "maps", "bindings", "out"})
  BY <1>2 DEF Pointed, Same
<1>5. Kept(m.w)
  BY <1>1, <1>2, <1>3, <1>4, FileMoves, KeptIs DEF Pointed, FileKept
<1> QED BY <1>2, <1>3, <1>5 DEF Pointed, Stays, Goes, m

\* Space that was just given out is mapped next (file.C:1141-1202).
LEMMA PlaceSpace ==
  ASSUME NEW s, DOMAIN s = {"w", "at"}, Kept(s.w), s.at \in Nat, NEW len \in Nat \ {0},
         [at |-> s.at, len |-> len] \in s.w.regions
  PROVE  LET a == MapSpace(s, len) IN Placed(a, len) /\ Stays(a.w, s.w) /\ a.at = s.at
<1> DEFINE m == mapFileData(s.w, s.at, len)
           a == MapSpace(s, len)
<1>1. DOMAIN m = {"w", "p"} /\ m.p[2] = s.at /\ Stays(m.w, s.w)
  BY PointedKeeps
<1>2. a = [w |-> m.w, p |-> m.p, at |-> s.at]
  BY DEF MapSpace, Located
<1> HIDE DEF a, m
<1> QED BY <1>1, <1>2 DEF Placed, Stays, Goes, a

\* writer::allocAnon (file.C:1196) returns mapped space of its own.
LEMMA AnonKeeps ==
  ASSUME NEW w, Kept(w), NEW len \in Nat \ {0}, NEW align \in Nat \ {0}
  PROVE  LET a == allocAnon(w, len, align) IN Placed(a, len) /\ Stays(a.w, w)
<1> DEFINE s == findSpace(w, "data", len, align)
           a == allocAnon(w, len, align)
<1>1. /\ DOMAIN s = {"w", "at"} /\ s.at \in Nat /\ Stays(s.w, w)
      /\ [at |-> s.at, len |-> len] \in s.w.regions
  BY SpaceGoes
<1>2. a = MapSpace(s, len)
  BY DEF allocAnon
<1> HIDE DEF s, a
<1>3. Placed(a, len) /\ Stays(a.w, s.w)
  BY <1>1, <1>2, PlaceSpace DEF Stays, Goes
<1> QED BY <1>1, <1>3, StaysOn DEF a

\* writer::allocNamed (file.C:1141) too, and binds the name to it.
LEMMA NamedKeeps ==
  ASSUME NEW w, Kept(w), NEW name, NEW len \in Nat \ {0}, NEW align \in Nat \ {0}
  PROVE  LET a == allocNamed(w, name, len, align)
         IN  Placed(a, len) /\ Goes(a.w, w) /\ a.w.bindings = Put(w.bindings, name, binding(name, a.at))
<1> DEFINE s == findSpace(w, "data", len, align)
           b == BindSpace(s, name)
           v == addBinding(s.w, name, s.at)
           a == allocNamed(w, name, len, align)
<1>1. /\ DOMAIN s = {"w", "at"} /\ s.at \in Nat /\ Stays(s.w, w)
      /\ [at |-> s.at, len |-> len] \in s.w.regions
  BY SpaceGoes
<1>2. a = MapSpace(b, len)
  BY DEF allocNamed
<1>3. b = [s EXCEPT !.w = v]
  BY DEF BindSpace
<1> HIDE DEF s, a, b
<1>4. Goes(v, s.w) /\ v.bindings = Put(s.w.bindings, name, binding(name, s.at))
  BY <1>1, BindingKeeps DEF Stays, Goes
<1> HIDE DEF v
<1>5. DOMAIN b = {"w", "at"} /\ b.w = v /\ b.at = s.at
  BY <1>1, <1>3
<1>6. Placed(a, len) /\ Stays(a.w, b.w) /\ a.at = b.at
  BY <1>1, <1>2, <1>4, <1>5, PlaceSpace DEF Stays, Goes
<1>7. Goes(a.w, w) /\ a.w.bindings = Put(w.bindings, name, binding(name, a.at))
  BY <1>1, <1>4, <1>5, <1>6 DEF Stays, Goes
<1> QED BY <1>6, <1>7 DEF a
===============================================================================
