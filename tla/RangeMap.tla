------------------------------ MODULE RangeMap ------------------------------
(***************************************************************************)
(* range_map (src/include/hobbes/util/rmap.H): a map from ranges of keys   *)
(* to values, kept as a vector of ranges in order and a vector of values.  *)
(* The regular expression compiler keeps the transitions of its automata   *)
(* in such maps and splits characters into ranges with disjointRanges().   *)
(*                                                                         *)
(* A map is a sequence of records [lo, hi, v].  The two vectors change     *)
(* together (insAt, erase), so one sequence stands for both.  Every walk   *)
(* of the code classifies the range it meets (one of 11 cases), puts some  *)
(* ranges in its place and goes on, with what is left of its own range, or *)
(* stops: a case here is a record [put, rest, phase].                      *)
(***************************************************************************)
EXTENDS Naturals, Sequences, SequencesExt

Piece(lo, hi, v) == [lo |-> lo, hi |-> hi, v |-> v]

\* How two ranges lie to each other: L and R are the ends of the left and of
\* the right range in their order, E an end that they share.
classifyIntersection(l, r) ==
    CASE l.hi < r.lo                  -> "LLRR"
      [] r.hi < l.lo                  -> "RRLL"
      [] l.lo = r.lo /\ l.hi = r.hi   -> "EE"
      [] l.lo = r.lo /\ l.hi < r.hi   -> "ELR"
      [] l.lo = r.lo /\ l.hi > r.hi   -> "ERL"
      [] l.lo < r.lo /\ l.hi = r.hi   -> "LRE"
      [] l.lo > r.lo /\ l.hi = r.hi   -> "RLE"
      [] l.lo < r.lo /\ r.hi < l.hi   -> "LRRL"
      [] r.lo < l.lo /\ l.hi < r.hi   -> "RLLR"
      [] r.lo < l.lo /\ l.lo <= r.hi /\ r.hi < l.hi -> "RLRL"
      [] l.lo < r.lo /\ r.lo <= l.hi /\ l.hi < r.hi -> "LRLR"

Put(pieces, rest, phase) == [put |-> pieces, rest |-> rest, phase |-> phase]

\* Walk the map with the range r, a case at a time, until the phase is "done".
Walk(Case(_, _, _), map, r) ==
    LET step(acc, l) ==
            LET c == IF acc.phase = "done" THEN Put(<<l>>, acc.rest, "done")
                                           ELSE Case(acc.phase, l, acc.rest)
            IN  Put(acc.put \o c.put, c.rest, c.phase)
    IN  FoldLeft(step, Put(<<>>, r, "find"), map)

\* The index of the first range that holds the key, 0 if none does.
find(map, k) == SelectInSeq(map, LAMBDA p : p.lo <= k /\ k <= p.hi)

\* lookup(): the value of the key's range, or none.
lookup(map, k, none) ==
    IF find(map, k) = 0 THEN none ELSE map[find(map, k)].v

\* lookupRangeSubset(): the value of the range that holds both ends of r, or none.
lookupRangeSubset(map, r, none) ==
    LET i == find(map, r.lo)
    IN  IF i # 0 /\ i = find(map, r.hi) THEN map[i].v ELSE none

Before(l, r) == Piece(l.lo, r.lo - 1, l.v)
After(l, r)  == Piece(r.hi + 1, l.hi, l.v)

(***************************************************************************)
(* insert(): the new range replaces what it meets.  Phase "find" looks for *)
(* its place, phase "delete" is deleteFrom() on the ranges behind it.      *)
(***************************************************************************)
\* Mutant: ranges behind the one that was widened are not cleared away.
KeepsBehind(l, r) == Put(<<l>>, r, "done")

deleteFrom(l, r) ==
    LET k == classifyIntersection(l, r)
    IN  CASE k = "LLRR"              -> Put(<<l>>, r, "delete")
          [] k = "RRLL"              -> Put(<<l>>, r, "done")
          [] k \in {"EE", "RLE"}     -> Put(<<>>, r, "done")
          [] k \in {"ELR", "RLLR"}   -> Put(<<>>, r, "delete")
          [] k \in {"ERL", "RLRL"}   -> Put(<<After(l, r)>>, r, "done")
          [] k = "LRE"               -> Put(<<Before(l, r)>>, r, "done")
          [] k = "LRRL"              -> Put(<<Before(l, r), After(l, r)>>, r, "done")
          [] k = "LRLR"              -> Put(<<Before(l, r)>>, r, "delete")

InsertCase(l, r) ==
    LET k == classifyIntersection(l, r)
    IN  CASE k = "LLRR"              -> Put(<<l>>, r, "find")
          [] k = "RRLL"              -> Put(<<r, l>>, r, "done")
          [] k \in {"EE", "RLE"}     -> Put(<<r>>, r, "done")
          [] k \in {"ELR", "RLLR"}   -> Put(<<r>>, r, "delete")
          [] k \in {"ERL", "RLRL"}   -> Put(<<r, After(l, r)>>, r, "done")
          [] k = "LRE"               -> Put(<<Before(l, r), r>>, r, "done")
          [] k = "LRRL"              -> Put(<<Before(l, r), r, After(l, r)>>, r, "done")
          [] k = "LRLR"              -> Put(<<Before(l, r), r>>, r, "delete")

insert(map, lo, hi, v) ==
    LET w == Walk(LAMBDA phase, l, r : IF phase = "delete" THEN deleteFrom(l, r) ELSE InsertCase(l, r),
                  map, Piece(lo, hi, v))
    IN  IF w.phase = "find" THEN Append(w.put, w.rest) ELSE w.put

(***************************************************************************)
(* mergeRange() with the function its one caller passes: v joins the set   *)
(* of values of every key of the range (V() is the empty set).             *)
(***************************************************************************)
MergeCase(l, r) ==
    LET k     == classifyIntersection(l, r)
        both  == l.v \union r.v
        head  == Piece(r.lo, l.lo - 1, r.v)
        rest  == Piece(l.hi + 1, r.hi, r.v)
    IN  CASE k = "LLRR" -> Put(<<l>>, r, "find")
          [] k = "RRLL" -> Put(<<r, l>>, r, "done")
          [] k = "EE"   -> Put(<<Piece(l.lo, l.hi, both)>>, r, "done")
          [] k = "ELR"  -> Put(<<Piece(l.lo, l.hi, both)>>, rest, "find")
          [] k = "ERL"  -> Put(<<Piece(l.lo, r.hi, both), After(l, r)>>, r, "done")
          [] k = "LRE"  -> Put(<<Before(l, r), Piece(r.lo, r.hi, both)>>, r, "done")
          [] k = "RLE"  -> Put(<<head, Piece(l.lo, l.hi, both)>>, r, "done")
          [] k = "LRRL" -> Put(<<Before(l, r), Piece(r.lo, r.hi, both), After(l, r)>>, r, "done")
          [] k = "RLLR" -> Put(<<head, Piece(l.lo, l.hi, both)>>, rest, "find")
          [] k = "LRLR" -> Put(<<Before(l, r), Piece(r.lo, l.hi, both)>>, rest, "find")
          [] k = "RLRL" -> Put(<<head, Piece(l.lo, r.hi, both), After(l, r)>>, r, "done")

mergeRange(map, lo, hi, v) ==
    LET w == Walk(LAMBDA phase, l, r : MergeCase(l, r), map, Piece(lo, hi, {v}))
    IN  IF w.phase = "find" THEN Append(w.put, w.rest) ELSE w.put

(***************************************************************************)
(* disjointRanges(): the ranges of a map and of a list, cut so that they   *)
(* do not overlap.  A case puts ranges out and says what is left of each.  *)
(* The partial overlaps (LRLR, RLRL) leave the last key that the two share *)
(* to the range that goes on.                                              *)
(***************************************************************************)
Span(lo, hi) == IF lo <= hi THEN <<[lo |-> lo, hi |-> hi]>> ELSE <<>>

Cut(l, r) ==
    LET k     == classifyIntersection(l, r)
        lHead == Span(l.lo, r.lo - 1)
        rHead == Span(r.lo, l.lo - 1)
        lAll  == Span(l.lo, l.hi)
        rAll  == Span(r.lo, r.hi)
        lRest == Span(r.hi + 1, l.hi)
        rRest == Span(l.hi + 1, r.hi)
        To(put, ls, rs) == [put |-> put, l |-> ls, r |-> rs]
    IN  CASE k = "LLRR" -> To(lAll, <<>>, rAll)
          [] k = "RRLL" -> To(rAll, lAll, <<>>)
          [] k = "EE"   -> To(lAll, <<>>, <<>>)
          [] k = "ELR"  -> To(lAll, <<>>, rRest)
          [] k = "ERL"  -> To(rAll, lRest, <<>>)
          [] k = "LRE"  -> To(lHead \o rAll, <<>>, <<>>)
          [] k = "RLE"  -> To(rHead \o lAll, <<>>, <<>>)
          [] k = "LRRL" -> To(lHead \o rAll, lRest, <<>>)
          [] k = "RLLR" -> To(rHead \o lAll, <<>>, rRest)
          [] k = "LRLR" -> To(lHead \o Span(r.lo, l.hi - 1), <<>>, Span(l.hi, r.hi))
          [] k = "RLRL" -> To(rHead \o Span(l.lo, r.hi - 1), Span(r.hi, l.hi), <<>>)

RECURSIVE disjointRanges(_, _)
disjointRanges(ls, rs) ==
    IF ls = <<>> \/ rs = <<>>
    THEN [i \in 1 .. Len(ls) |-> [lo |-> ls[i].lo, hi |-> ls[i].hi]] \o rs
    ELSE LET c == Cut(Head(ls), Head(rs))
         IN  c.put \o disjointRanges(c.l \o Tail(ls), c.r \o Tail(rs))

\* compact(): neighbours that touch and have the same value become one range.
compact(map) ==
    FoldLeft(LAMBDA acc, l : IF acc # <<>> /\ Last(acc).hi = l.lo - 1 /\ Last(acc).v = l.v
                             THEN Front(acc) \o <<Piece(Last(acc).lo, l.hi, l.v)>> ELSE Append(acc, l),
             <<>>, map)
=============================================================================
