--------------------------- MODULE ParserGenerator ---------------------------
(***************************************************************************)
(* A parse expression on its way through the compiler: the LR(0) parser,   *)
(* the lookaheads, the table (Lalr) and the functions that are made from   *)
(* the table (src/lib/hobbes/parse/parser.C), which take turns on the      *)
(* input: sNi reads in the state n, sNo goes on from n with a symbol that  *)
(* was recognised.                                                         *)
(*                                                                         *)
(* The value of a symbol is the tree of the rules it was reduced by, so    *)
(* that the arguments of a reduction can be told apart.                    *)
(***************************************************************************)
EXTENDS Lalr

CONSTANT
    Grammars        \* the grammars to compile: [g, s, px, ord], and the inputs to
                    \* try, up to len symbols of syms: [syms, len]

VARIABLES
    gen,       \* the step that comes next; "made", "failed", "crashed" at the end
    grammar,
    pdef,      \* the LR(0) parser
    tl,        \* the lookaheads of its transitions
    table

parserVars == <<gen, grammar, pdef, tl, table>>

(***************************************************************************)
(* The functions of a table                                                *)
(***************************************************************************)
parseDepth(n) == CHOOSE d \in {i.p : i \in pdef.states[n]} : \A i \in pdef.states[n] : i.p <= d

needsOutputFunction(n) == \E t \in DOMAIN table[n] : table[n][t][1] = "goto"

\* shiftVarNames(): the last of the values in hand go on to the next state.
Handed(vs, n) == SubSeq(vs, Len(vs) - parseDepth(n) + 1, Len(vs))

Failure    == [k |-> "failure"]
Success(v) == [k |-> "success", v |-> v]
Recognised(sym, i, sd, v) == [k |-> "symbol", sym |-> sym, i |-> i, sd |-> sd, v |-> v]
Leaf(t)       == [s |-> t, r |-> 0, kids |-> <<>>]
Node(x, r, k) == [s |-> x, r |-> r, kids |-> k]

\* The symbol goes back as many states as the values that the state holds, and the
\* values of the rule's symbols are the first of them.
makeReduction(act, n, i, sd, vs) ==
    Recognised(act[2], i, sd - parseDepth(n),
               Node(act[2], act[3], SubSeq(vs, 1, Len(pdef.g[act[2]][act[3]]))))

\* How deep the functions may call each other, where a parser has no end.
Deep == 40

\* sNi, and sNo of the result x; i is the place in the input, sd the depth of the stack.
RECURSIVE InputState(_, _, _, _, _, _)
RECURSIVE OutputState(_, _, _, _, _, _)
InputState(n, cs, i, sd, vs, fuel) ==
    LET t   == IF i > Len(cs) THEN EOF ELSE cs[i]
        act == table[n][t]
        shifted == LET j == act[2]
                   IN  InputState(j, cs, i + 1, sd + 1, Handed(Append(vs, Leaf(t)), j), fuel - 1)
    IN  CASE fuel = 0 \/ t \notin DOMAIN table[n] -> Failure
          [] fuel > 0 /\ act[1] = "shift"  -> IF needsOutputFunction(n)
                                              THEN OutputState(n, cs, sd, vs, shifted, fuel - 1) ELSE shifted
          [] fuel > 0 /\ act[1] = "reduce" -> makeReduction(act, n, i, sd, vs)
          [] fuel > 0 /\ act[1] = "accept" -> Success(vs[1])
OutputState(n, cs, sd, vs, x, fuel) ==
    IF fuel > 0 /\ x.k = "symbol" /\ x.sym \in DOMAIN table[n] /\ x.sd = sd
    THEN LET j == table[n][x.sym][2]
         IN  OutputState(n, cs, sd, vs,
                         InputState(j, cs, x.i, sd + 1, Handed(Append(vs, x.v), j), fuel - 1), fuel - 1)
    ELSE x

\* makeParser(): what is not a success is a failure.
parse(cs) ==
    LET r == OutputState(1, cs, 0, <<>>, InputState(1, cs, 1, 0, <<>>, Deep), Deep)
    IN  IF r.k = "success" THEN r ELSE Failure

(***************************************************************************)
(* Actions                                                                 *)
(***************************************************************************)
NoParser == [g |-> <<>>, states |-> <<>>, trans |-> <<>>, nullable |-> {}]

ParserInit ==
    /\ gen = "lr0" /\ grammar \in Grammars
    /\ pdef = NoParser /\ tl = <<>> /\ table = <<>>

Lr0 ==
    /\ gen = "lr0"
    /\ pdef' = lr0parser(grammar.g, grammar.s, grammar.ord)
    /\ gen' = "follow"
    /\ UNCHANGED <<grammar, tl, table>>

\* symbolsDerivingNull() goes on from an element that it has erased, once there is
\* one that derives nothing: that may as well be the end of the process.
Lr0Crashes ==
    /\ gen = "lr0"
    /\ symbolsDerivingNull(grammar.g) # {}
    /\ gen' = "crashed"
    /\ UNCHANGED <<grammar, pdef, tl, table>>

Lookaheads ==
    /\ gen = "follow"
    /\ tl' = Follow(pdef, transitions(pdef, grammar.ord))
    /\ gen' = "table"
    /\ UNCHANGED <<grammar, pdef, table>>

MakeTable ==
    /\ gen = "table"
    /\ \E t \in {lalrTable(pdef, grammar.px, grammar.ord, LookaheadsOf(pdef, tl))} :
          \/ HasConflict(t) /\ gen' = "failed" /\ table' = <<>>
          \/ ~HasConflict(t) /\ gen' = "made" /\ table' = t
    /\ UNCHANGED <<grammar, pdef, tl>>

ParserNext == Lr0 \/ Lr0Crashes \/ Lookaheads \/ MakeTable

(***************************************************************************)
(* What a grammar means, apart from the code: the parts <<x, i, j>> of an  *)
(* input, from i to before j, that a symbol x derives, and the ways (rule  *)
(* and ends of its parts) in which it does.                                *)
(***************************************************************************)
DerivesPart(D, cs, x, i, j) == IF hasRule(grammar.g, x) THEN <<x, i, j>> \in D ELSE j = i + 1 /\ cs[i] = x

RECURSIVE Cuts(_, _, _, _, _)
Cuts(D, cs, w, i, j) ==
    IF w = <<>> THEN IF i = j THEN {<<>>} ELSE {}
    ELSE UNION {{<<k>> \o c : c \in Cuts(D, cs, Tail(w), k, j)} :
                    k \in {l \in i .. j : DerivesPart(D, cs, w[1], i, l)}}

Ways(D, cs, x, i, j) ==
    UNION {{<<r, c>> : c \in Cuts(D, cs, grammar.g[x][r], i, j)} : r \in DOMAIN grammar.g[x]}

RECURSIVE DerivedFrom(_, _)
DerivedFrom(D, cs) ==
    LET ends == 1 .. Len(cs) + 1
        more == {d \in (DOMAIN grammar.g) \X ends \X ends : d[2] <= d[3] /\ Ways(D, cs, d[1], d[2], d[3]) # {}}
    IN  IF more = D THEN D ELSE DerivedFrom(more, cs)

Inputs == UNION {[1 .. n -> grammar.syms] : n \in 0 .. grammar.len}

Derives(cs) == <<grammar.s, 1, Len(cs) + 1>> \in DerivedFrom({}, cs)

\* The parts that the parts in ps are made of, and theirs.
RECURSIVE PartsOf(_, _, _)
PartsOf(D, cs, ps) ==
    LET kids(d) == UNION {{<<grammar.g[d[1]][w[1]][k], IF k = 1 THEN d[2] ELSE w[2][k - 1], w[2][k]>> :
                              k \in DOMAIN w[2]} : w \in Ways(D, cs, d[1], d[2], d[3])}
        more == ps \union {d \in UNION {kids(p) : p \in ps} : d \in D}
    IN  IF more = ps THEN ps ELSE PartsOf(D, cs, more)

Ambiguous(cs) ==
    LET D == DerivedFrom({}, cs)
    IN  Derives(cs) /\ \E d \in PartsOf(D, cs, {<<grammar.s, 1, Len(cs) + 1>>}) :
                          Cardinality(Ways(D, cs, d[1], d[2], d[3])) > 1

\* A tree of the grammar, and the input that it is a tree of.
RECURSIVE IsTree(_)
IsTree(t) == \/ t.r = 0 /\ ~hasRule(grammar.g, t.s)
             \/ /\ t.r > 0 /\ grammar.g[t.s][t.r] = [i \in DOMAIN t.kids |-> t.kids[i].s]
                /\ \A i \in DOMAIN t.kids : IsTree(t.kids[i])
RECURSIVE Yield(_)
Yield(t) == IF t.r = 0 THEN <<t.s>> ELSE FoldLeft(LAMBDA acc, k : acc \o Yield(k), <<>>, t.kids)

\* The tree obeys the operators: what stands to the left and to the right of one binds tighter,
\* or as tight and associates to that side.
OpOf(t) == LET ops == SelectSeq(t.kids, LAMBDA k : k.s \in DOMAIN grammar.px)
           IN  IF ops = <<>> THEN None ELSE ops[1].s
Binds(u, t, side) == \/ None \in {u, t}
                     \/ grammar.px[u].level > grammar.px[t].level
                     \/ grammar.px[u].level = grammar.px[t].level /\ grammar.px[u].asc = side
RECURSIVE Obeys(_)
Obeys(t) ==
    \A i \in DOMAIN t.kids :
        /\ Obeys(t.kids[i])
        /\ i = 1 => Binds(OpOf(t.kids[i]), OpOf(t), "left")
        /\ i = Len(t.kids) => Binds(OpOf(t.kids[i]), OpOf(t), "right")

(***************************************************************************)
(* Properties                                                              *)
(***************************************************************************)
RECURSIVE LeastFrom(_, _)
LeastFrom(f, rel) ==
    LET more == [x \in DOMAIN f |-> f[x] \union UNION {f[y] : y \in ToSet(rel[x])}]
    IN  IF more = f THEN f ELSE LeastFrom(more, rel)

RECURSIVE RelReach(_, _)
RelReach(rel, xs) == LET more == xs \union UNION {ToSet(rel[x]) : x \in xs}
                     IN  IF more = xs THEN xs ELSE RelReach(rel, more)
Acyclic(rel) == \A x \in DOMAIN rel : \A y \in RelReach(rel, {x}) \ {x} : x \notin RelReach(rel, {y})

RelsAcyclic == LET ts == transitions(pdef, grammar.ord)
               IN  Acyclic(ReadsRel(pdef, ts)) /\ Acyclic(IncludesRel(pdef, ts))

\* The least solution of the equations of Reads() and Follow().
LeastLookaheads ==
    LET ts   == transitions(pdef, grammar.ord)
        read == LeastFrom([x \in ToSet(ts) |-> directReads(pdef, x)], ReadsRel(pdef, ts))
    IN  LeastFrom(read, IncludesRel(pdef, ts))
NoneLost == tl = LeastLookaheads

\* Every lookahead can really follow its transition (by the equations of Reads() and
\* Follow()), and none is missing where no transitions include or read each other.
LookaheadsLeast ==
    gen \in {"table", "made", "failed"} =>
        /\ \A x \in DOMAIN tl : tl[x] \subseteq LeastLookaheads[x]
        /\ RelsAcyclic => NoneLost

\* A reduction is made in a state that holds the values of its rule and no more.
DepthsAgree ==
    \A n \in DOMAIN table : \A t \in DOMAIN table[n] :
        table[n][t][1] = "reduce" => table[n][t][4] = parseDepth(n) /\ (table[n][t][4] = 0 => n = 1)

\* addAccept() gives way to a reduction that came first, in the order of addresses.
AcceptKept == \E n \in DOMAIN table : \E t \in DOMAIN table[n] : table[n][t] = Accept

\* The parser made from a grammar fails on what the grammar does not derive, and
\* gives the tree of what it does; where precedence decides, the tree obeys it.
\* It is stated for the grammars that parser.C can handle: every reduction finds
\* exactly the values of its rule in its state, and no lookahead is lost in a cycle.
ParsesTheGrammar ==
    (gen = "made" /\ AcceptKept /\ DepthsAgree /\ NoneLost) =>
        \A cs \in Inputs :
            LET res == parse(cs)
            IN  /\ res.k = "success" <=> Derives(cs)
                /\ Derives(cs) => res.v.s = grammar.s /\ IsTree(res.v) /\ Yield(res.v) = cs /\ Obeys(res.v)

\* "Because this choice is ambiguous, hobbes will reject the parser" (README.md): a
\* grammar without precedences that is accepted has at most one tree for an input.
AmbiguityRejected ==
    (gen = "made" /\ grammar.px = <<>> /\ AcceptKept /\ NoneLost) => \A cs \in Inputs : ~Ambiguous(cs)
=============================================================================
