-------------------------------- MODULE Lalr --------------------------------
(***************************************************************************)
(* The LALR(1) parser generator (src/lib/hobbes/parse/lalr.C and lalr.H).  *)
(*                                                                         *)
(* A symbol is a number.  A grammar maps a symbol with rules to the        *)
(* sequence of its rules, each a sequence of symbols.  The code keeps sets *)
(* of symbols ordered by address; ord is that order, a sequence of all     *)
(* symbols.  States are numbered from 1.                                   *)
(***************************************************************************)
EXTENDS Naturals, Sequences, FiniteSets, SequencesExt, TLC

EOF  == 0
Boot == 90       \* .S
None == 99       \* no symbol

hasRule(g, t) == t \in DOMAIN g
InOrder(ord, ts) == SelectSeq(ord, LAMBDA t : t \in ts)

(***************************************************************************)
(* Symbols that derive the empty string                                    *)
(***************************************************************************)
derivesNull(nulls, r) == \A i \in DOMAIN r : r[i] \in nulls

\* The loop erases from the set that it goes through; where that does not crash
\* (see ParserGenerator) the next round looks at what it missed.
RECURSIVE NullsWith(_, _)
NullsWith(g, nulls) ==
    LET more == {s \in DOMAIN g : \E i \in DOMAIN g[s] : derivesNull(nulls, g[s][i])}
    IN  IF more \subseteq nulls THEN nulls ELSE NullsWith(g, nulls \union more)
symbolsDerivingNull(g) == NullsWith(g, {})

(***************************************************************************)
(* The LR(0) parser                                                        *)
(***************************************************************************)
Item(agg, p, r) == [agg |-> agg, p |-> p, r |-> r]

succ(i) == [i EXCEPT !.p = @ + 1]

next(g, i) == LET r == g[i.agg][i.r] IN IF i.p < Len(r) THEN r[i.p + 1] ELSE None

nexts(g, is)    == {next(g, i) : i \in is} \ {None}
nextPrim(g, is) == {t \in nexts(g, is) : ~hasRule(g, t)}

ruleItems(g, t) == {Item(t, 0, r) : r \in DOMAIN g[t]}

RECURSIVE closure(_, _)
closure(g, is) ==
    LET more == is \union UNION {ruleItems(g, t) : t \in {x \in nexts(g, is) : hasRule(g, x)}}
    IN  IF more = is THEN is ELSE closure(g, more)

followItems(g, is, v) == {succ(i) : i \in {j \in is : next(g, j) = v}}

\* A closed set of items becomes a state when it is met first.
parserState(p, is) ==
    IF is \in ToSet(p.states) THEN p ELSE [p EXCEPT !.states = Append(@, is)]
StateOf(p, is) == SelectInSeq(p.states, LAMBDA x : x = is)

RECURSIVE Enumerate(_, _, _)
Enumerate(p, ord, n) ==
    LET nis == p.states[n]
        step(q, v) ==
            LET to == closure(q.g, followItems(q.g, nis, v))
                w  == parserState(q, to)
            IN  [w EXCEPT !.trans[n] = (v :> StateOf(w, to)) @@ @]
    IN  IF n > Len(p.states) THEN p
        ELSE Enumerate(FoldLeft(step, [p EXCEPT !.trans = Append(@, <<>>)],
                                InOrder(ord, nexts(p.g, nis) \ {EOF})), ord, n + 1)

\* The grammar gets the rule .S -> s $ first.
lr0parser(g0, s, ord) ==
    LET g == (Boot :> <<<<s, EOF>>>>) @@ g0
        p == [g |-> g, states |-> <<closure(g, ruleItems(g, Boot))>>, trans |-> <<>>]
    IN  Enumerate(p, ord, 1) @@ [nullable |-> symbolsDerivingNull(g)]

(***************************************************************************)
(* The relations of LALR(1) on the transitions <<state, symbol>>           *)
(***************************************************************************)
transitions(p, ord) ==
    FlattenSeq([n \in DOMAIN p.trans |->
        LET ts == InOrder(ord, {t \in DOMAIN p.trans[n] : hasRule(p.g, t)})
        IN  [i \in DOMAIN ts |-> <<n, ts[i]>>]])

follows(p, q, t) == t \in DOMAIN p.trans[q]
follow(p, q, t)  == p.trans[q][t]

\* The state in which a rule that starts in s has been read, or 0.
Read(p, s, w) == FoldLeft(LAMBDA q, t : IF q # 0 /\ follows(p, q, t) THEN follow(p, q, t) ELSE 0, s, w)

lookback(p, q, i, t) == t[2] = i.agg /\ Read(p, t[1], p.g[i.agg][i.r]) = q

\* The prefixes of w before a symbol a that only what derives nothing comes after.
endingAt(p, w, a) ==
    {SubSeq(w, 1, i - 1) : i \in {j \in DOMAIN w : /\ w[j] = a
                                                   /\ \A k \in j + 1 .. Len(w) : w[k] \in p.nullable}}

includes(p, x, y) ==
    \E r \in DOMAIN p.g[y[2]] : \E pfx \in endingAt(p, p.g[y[2]][r], x[2]) : Read(p, y[1], pfx) = x[1]

reads(p, x, y) == follow(p, x[1], x[2]) = y[1] /\ y[2] \in p.nullable

directReads(p, x) == nextPrim(p.g, p.states[follow(p, x[1], x[2])])

(***************************************************************************)
(* digraphF: f(x) = f'(x) + sum(f(y) | R(x, y)), with fp for f' and rel[x] *)
(* the sequence of the y with R(x, y).  A node is popped with what is      *)
(* above it if its depth is still what it was when it was pushed.          *)
(***************************************************************************)
Inf == 1000

RECURSIVE traverse(_, _, _, _)
traverse(st, fp, rel, x) ==
    LET d      == Len(st.s) + 1
        pushed == [s |-> Append(st.s, x), n |-> [st.n EXCEPT ![x] = d], f |-> [st.f EXCEPT ![x] = fp[x]]]
        visit(a, y) == LET b == IF a.n[y] = 0 THEN traverse(a, fp, rel, y) ELSE a
                       IN  [b EXCEPT !.f[x] = @ \union b.f[y]]
        all    == FoldLeft(visit, pushed, rel[x])
        scc    == ToSet(SubSeq(all.s, d, Len(all.s)))
    IN  IF all.n[x] # d THEN all
        ELSE [s |-> SubSeq(all.s, 1, d - 1),
              n |-> [y \in DOMAIN all.n |-> IF y \in scc THEN Inf ELSE all.n[y]],
              f |-> [y \in DOMAIN all.f |-> IF y \in scc THEN all.f[x] ELSE all.f[y]]]

digraph(xs, fp, rel) ==
    LET xset  == ToSet(xs)
        fresh == [s |-> <<>>, n |-> [x \in xset |-> 0], f |-> [x \in xset |-> {}]]
    IN  FoldLeft(LAMBDA st, x : IF st.n[x] = 0 THEN traverse(st, fp, rel, x) ELSE st, fresh, xs).f

ReadsRel(p, ts)    == [x \in ToSet(ts) |-> SelectSeq(ts, LAMBDA y : reads(p, x, y))]
IncludesRel(p, ts) == [x \in ToSet(ts) |-> SelectSeq(ts, LAMBDA y : includes(p, x, y))]

Reads(p, ts)  == digraph(ts, [x \in ToSet(ts) |-> directReads(p, x)], ReadsRel(p, ts))

\* Mutant: what follows a symbol that derives nothing is not read.
FollowsDirectly(p, ts) == digraph(ts, [x \in ToSet(ts) |-> directReads(p, x)], IncludesRel(p, ts))

Follow(p, ts) == digraph(ts, Reads(p, ts), IncludesRel(p, ts))

\* apply(): the lookahead of every completed item of every state.
LookaheadsOf(p, tl) ==
    [n \in DOMAIN p.states |->
        [i \in {j \in p.states[n] : next(p.g, j) = None} |->
            UNION {tl[t] : t \in {x \in DOMAIN tl : lookback(p, n, i, x)}}]]

(***************************************************************************)
(* The table: a state maps symbols to actions.                             *)
(***************************************************************************)
GoTo(n)         == <<"goto", n>>
Shift(n)        == <<"shift", n>>
Reduce(x, r, n) == <<"reduce", x, r, n>>
Accept          == <<"accept">>
Conflict        == <<"conflict">>

reduceOpTerminal(p, a) ==
    LET ts == SelectSeq(p.g[a[2]][a[3]], LAMBDA t : ~hasRule(p.g, t))
    IN  IF ts = <<>> THEN None ELSE ts[Len(ts)]

\* Mutant: among operators of one level the associativity is taken the wrong way.
OtherAssoc(p, px, t, s, a) ==
    LET u == reduceOpTerminal(p, a)
    IN  CASE {t, u} \cap DOMAIN px # {t, u} -> Conflict
          [] {t, u} \subseteq DOMAIN px /\ px[t].level < px[u].level -> a
          [] {t, u} \subseteq DOMAIN px /\ px[t].level > px[u].level -> s
          [] OTHER -> IF px[t].asc # px[u].asc \/ px[t].asc = "non" THEN Conflict
                      ELSE IF px[t].asc = "left" THEN s ELSE a

\* shiftInstead() and its two uses: what is left of a shift s and a reduction a on t.
Preferred(p, px, t, s, a) ==
    LET u == reduceOpTerminal(p, a)
    IN  CASE {t, u} \cap DOMAIN px # {t, u} -> Conflict
          [] {t, u} \subseteq DOMAIN px /\ px[t].level < px[u].level -> a
          [] {t, u} \subseteq DOMAIN px /\ px[t].level > px[u].level -> s
          [] OTHER -> IF px[t].asc # px[u].asc \/ px[t].asc = "non" THEN Conflict
                      ELSE IF px[t].asc = "left" THEN a ELSE s

\* Two actions on t.
ShiftOrReduce(p, px, t, a, b) ==
    IF a[1] = "reduce" /\ b[1] = "reduce" THEN Conflict
    ELSE Preferred(p, px, t, IF a[1] = "shift" THEN a ELSE b, IF a[1] = "shift" THEN b ELSE a)

\* Mutant: the action that came first stays.
FirstStays(p, px, row, t, a) == IF t \in DOMAIN row THEN row ELSE (t :> a) @@ row

\* addAction(): a conflict stays one, for the compilation has failed.
addAction(p, px, row, t, a) ==
    CASE t \notin DOMAIN row -> (t :> a) @@ row
      [] t \in DOMAIN row /\ row[t] \in {a, Conflict} -> row
      [] t \in DOMAIN row /\ row[t] \notin {a, Conflict} -> [row EXCEPT ![t] = ShiftOrReduce(p, px, t, a, @)]

\* addGoto() and addAccept() leave alone what is there.
addNew(row, t, a) == IF t \in DOMAIN row THEN row ELSE (t :> a) @@ row

\* The items of a state in the order of item::operator<.
ItemsInOrder(p, ord, n) ==
    LET of(agg)  == {i \in p.states[n] : i.agg = agg}
        key(i)   == i.p * 100 + i.r
    IN  FoldLeft(LAMBDA acc, agg : acc \o SortSeq(SetToSeq(of(agg)), LAMBDA i, j : key(i) < key(j)),
                 <<>>, InOrder(ord, DOMAIN p.g))

\* An item's part of a row: actions ts when it is complete, or one on its next symbol t.
ItemActions(p, px, ord, n, row, ts, a) == FoldLeft(LAMBDA r, x : addAction(p, px, r, x, a), row, InOrder(ord, ts))
AddItem(p, px, ord, n, row, ts, i, t) ==
    CASE t # None /\ hasRule(p.g, t) -> addNew(row, t, GoTo(follow(p, n, t)))
      [] t = EOF                     -> addNew(row, t, Accept)
      [] OTHER -> ItemActions(p, px, ord, n, row, IF t = None THEN ts ELSE {t},
                              IF t = None THEN Reduce(i.agg, i.r, i.p) ELSE Shift(follow(p, n, t)))
rowOf(p, px, ord, la, n) ==
    FoldLeft(LAMBDA row, i : AddItem(p, px, ord, n, row, la[n][i], i, next(p.g, i)), <<>>, ItemsInOrder(p, ord, n))

lalrTable(p, px, ord, la) == [n \in DOMAIN p.states |-> rowOf(p, px, ord, la, n)]
HasConflict(table) == \E n \in DOMAIN table : \E t \in DOMAIN table[n] : table[n][t] = Conflict
=============================================================================
