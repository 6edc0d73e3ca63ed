----------------------------- MODULE MatchTable -----------------------------
(***************************************************************************)
(* The states that a table of patterns is taken apart into                 *)
(* (src/lib/hobbes/lang/pat/dfa.C).                                        *)
(*                                                                         *)
(* A pattern is [k, v, ps, nm]: its kind ("lit", "any", "arr", "rgx",      *)
(* "rec", "var"), a literal <<type, value>>, expression, user name or      *)
(* label, its parts and its name, the variable that holds what it is       *)
(* matched with.  A name is the path to the value: <<2, 1>> is the first   *)
(* part of the second value matched; patterns made up on the way have no   *)
(* name, which is <<>>.                                                    *)
(* A row is [ps, guard, res]: guard 0 is none, res is the row's number.    *)
(*                                                                         *)
(* A DFA under construction is [states, refs, memo, prim, inPrim, lower,   *)
(* err, mixed].  States refer to each other by number, with 0 for none;    *)
(* memo maps tables that were met to their states; prim has the arguments  *)
(* of states that begin a primitive match; fns has the functions made for  *)
(* regular expressions; err is the error thrown.                           *)
(* mixed is no part of the code: it records that a table was taken for     *)
(* another one, of different variables.                                    *)
(***************************************************************************)
EXTENDS RegexTree, TLC

CONSTANTS
    WordSize,    \* characters compared at once (8 in the code)
    Labels       \* the constructors of the variants that are matched

Pat(k, v, ps) == [k |-> k, v |-> v, ps |-> ps, nm |-> <<>>]
MatchLiteral(ty, n) == Pat("lit", <<ty, n>>, <<>>)
MatchAny(vn)        == Pat("any", <<"name", vn>>, <<>>)       \* 0 is _
MatchRegex(t)       == Pat("rgx", <<"regex", t>>, <<>>)       \* t is a tree
MatchArray(ps)      == Pat("arr", <<"none", 0>>, ps)
MatchRecord(ps)     == Pat("rec", <<"none", 0>>, ps)
MatchVariant(l, p)  == Pat("var", <<"label", l>>, <<p>>)
Row(ps, guard, res) == [ps |-> ps, guard |-> guard, res |-> res]

\* name(): a pattern and its parts get the names of what they are matched with.
RECURSIVE Named(_, _)
Named(p, nm) == [p EXCEPT !.nm = nm, !.ps = [i \in DOMAIN p.ps |-> Named(p.ps[i], Append(nm, i))]]

\* assignNames()
assignNames(rows) ==
    [r \in DOMAIN rows |-> [rows[r] EXCEPT !.ps = [c \in DOMAIN rows[r].ps |-> Named(rows[r].ps[c], <<c>>)]]]

(***************************************************************************)
(* Variables of the match: a value, the length of an array, a word of a    *)
(* string, what a regular expression finds, the outcome of a guard.        *)
(***************************************************************************)
Var(nm)     == <<"value", nm, 0>>
SizeOf(nm)  == <<"size", nm, 0>>
Word(nm, i) == <<"word", nm, i>>
Regex(nm, f) == <<"regex", nm, f>>
Check(g)    == <<"check", <<>>, g>>

(***************************************************************************)
(* States                                                                  *)
(***************************************************************************)
LoadVars(defs, next)      == [k |-> "load", defs |-> defs, next |-> next]
SwitchVal(var, jmps, def) == [k |-> "switch", var |-> var, jmps |-> jmps, def |-> def]
SwitchVariant(var, jmps, def) == [k |-> "case", var |-> var, jmps |-> jmps, def |-> def]
FinishExpr(res)           == [k |-> "finish", res |-> res]

NewDFA(lower) == [states |-> <<>>, refs |-> <<>>, memo |-> <<>>, prim |-> <<>>, fns |-> <<>>,
                  inPrim |-> FALSE, lower |-> lower, err |-> "none", mixed |-> FALSE]

\* addState(): <<the DFA, the number of the state>>.
addState(d, st, ref) ==
    LET s == SelectInSeq(d.states, LAMBDA x : x = st)
    IN  IF s # 0 THEN <<[d EXCEPT !.refs[s] = @ + ref], s>>
        ELSE <<[d EXCEPT !.states = Append(@, st), !.refs = Append(@, ref)], Len(d.states) + 1>>

Throw(d, e) == [d EXCEPT !.err = e]

\* Mutant: without a default a switch is never exhaustive.
NeedsDefault(d, var, jmps, def) ==
    CASE def # 0 /\ jmps = <<>>                          -> <<d, d.states[def]>>
      [] jmps # <<>> /\ jmps[1][1][1] = "unit"           -> <<d, d.states[jmps[1][2]]>>
      [] def # 0 /\ jmps # <<>> /\ jmps[1][1][1] # "unit" -> <<d, SwitchVal(var, jmps, def)>>
      [] OTHER -> <<Throw(d, "inexhaustive"), FinishExpr(0)>>

\* makeSwitch(): <<the DFA, a state>>, which must know what to do with every value.
makeSwitch(d, var, jmps, def) ==
    LET ty == jmps[1][1][1]
    IN  CASE def # 0 /\ jmps = <<>>                 -> <<d, d.states[def]>>
          [] jmps # <<>> /\ ty = "unit"             -> <<d, d.states[jmps[1][2]]>>
          [] def # 0 /\ jmps # <<>> /\ ty # "unit"  -> <<d, SwitchVal(var, jmps, def)>>
          [] def = 0 /\ jmps # <<>> /\ ty = "bool" /\ Len(jmps) = 2 ->
                <<d, SwitchVal(var, <<jmps[1]>>, jmps[2][2])>>
          [] OTHER -> <<Throw(d, "inexhaustive"), FinishExpr(0)>>

(***************************************************************************)
(* Tables                                                                  *)
(***************************************************************************)
IsAny(p) == p.k = "any"
Dummies(n) == [i \in 1 .. n |-> MatchAny(0)]
Each(s, Op(_)) == FoldLeft(LAMBDA acc, x : Append(acc, Op(x)), <<>>, s)

\* Mutant: a column is unused if the first row leaves it open.
UnusedByFirst(rows) ==
    LET used == SelectSeq([c \in DOMAIN rows[1].ps |-> c], LAMBDA c : ~IsAny(rows[1].ps[c]))
    IN  Each(rows, LAMBDA row : [row EXCEPT !.ps = Each(used, LAMBDA c : row.ps[c])])

dropUnusedColumns(rows) ==
    LET used == SelectSeq([c \in DOMAIN rows[1].ps |-> c],
                          LAMBDA c : \E r \in DOMAIN rows : ~IsAny(rows[r].ps[c]))
    IN  Each(rows, LAMBDA row : [row EXCEPT !.ps = Each(used, LAMBDA c : row.ps[c])])

\* copyRowWithoutColumn() and prependPatterns()
Without(row, c, ps) == [row EXCEPT !.ps = ps \o RemoveAt(@, c)]

\* What a column is switched on: the length of an array, or the value.
KeyOf(p) == IF p.k = "arr" THEN <<"long", Len(p.ps)>> ELSE p.v

\* The patterns that come in for a pattern of a column of kind k, once its value is
\* known to have n parts.
Incoming(k, n, q) ==
    CASE k = "lit" -> <<>>
      [] k = "var" /\ IsAny(q) -> <<q>>
      [] k \in {"arr", "rec"} /\ IsAny(q) -> Dummies(n)
      [] OTHER -> q.ps

\* The rows that are left of a table when its column c has the value v, of n parts.
Branch(rows, c, v, n) ==
    LET left == SelectSeq(rows, LAMBDA row : IsAny(row.ps[c]) \/ KeyOf(row.ps[c]) = v)
        k    == rows[1].ps[c].k
    IN  Each(left, LAMBDA row : Without(row, c, Incoming(k, n, row.ps[c])))

Keys(rows, c) ==
    LET ps == {rows[r].ps[c] : r \in DOMAIN rows}
    IN  SetToSortSeq({KeyOf(p) : p \in {q \in ps : ~IsAny(q)}}, LAMBDA x, y : x[2] < y[2])

\* columnScore(): the literals of a column, each once, and its arrays and variants.
RECURSIVE Subpatterns(_)
Subpatterns(p) == FoldLeft(LAMBDA acc, q : acc \o Subpatterns(q), <<p>>, p.ps)
columnScore(rows, c) ==
    LET all == FlattenSeq([r \in DOMAIN rows |-> Subpatterns(rows[r].ps[c])])
    IN  Cardinality({all[i].v : i \in {j \in DOMAIN all : all[j].k = "lit"}})
            + Len(SelectSeq(all, LAMBDA p : p.k \in {"arr", "var", "rgx"}))

\* A column that the first row does not leave open, an array before others, then the
\* one with the lowest score; 0 where there is none.
Lowest(score, cs) ==
    CHOOSE c \in cs : \A e \in cs : score[c] < score[e] \/ (score[c] = score[e] /\ c <= e)
PivotAmong(rows, open, arrays) ==
    IF open = {} THEN 0
    ELSE Lowest([c \in open |-> columnScore(rows, c)], IF arrays # {} THEN arrays ELSE open)
OpenTo(row, kinds) == {c \in DOMAIN row.ps : row.ps[c].k \in kinds}
choosePivotColumn(rows) ==
    PivotAmong(rows, OpenTo(rows[1], {"lit", "arr", "rgx", "rec", "var"}), OpenTo(rows[1], {"arr"}))

\* Only with the option to lower such tables: those of 500 rows are not modelled.
isPrimSelection(d, rows) ==
    /\ d.lower
    /\ \A r \in DOMAIN rows : rows[r].guard = 0
    /\ \A r \in DOMAIN rows : \A c \in DOMAIN rows[r].ps : rows[r].ps[c].k \in {"lit", "any"}

\* The variable of a literal: a value, or a word of a string.
LitVar(p) == IF p.v[1] = "word" THEN Word(p.nm[1], p.nm[2]) ELSE Var(p.nm)

makePrimFArgs(rows) ==
    {LitVar(rows[SelectInSeq(rows, LAMBDA row : row.ps[c].k = "lit")].ps[c]) : c \in DOMAIN rows[1].ps}

\* Strings: the characters of WordSize at a time, zero past the end.
canMakeCharArrayState(rows, c) ==
    /\ \A r \in DOMAIN rows : \/ IsAny(rows[r].ps[c])
                              \/ /\ rows[r].ps[c].k = "arr"
                                 /\ \A i \in DOMAIN rows[r].ps[c].ps : rows[r].ps[c].ps[i].k = "lit"
    /\ \E r \in DOMAIN rows : \E i \in DOMAIN rows[r].ps[c].ps : rows[r].ps[c].ps[i].v[1] = "char"

WordsFor(len) == (len \div WordSize) + 1
Packed(cs, w) == FoldLeft(LAMBDA acc, i : acc * 16 + (IF i <= Len(cs) THEN cs[i] ELSE 0), 0,
                          [j \in 1 .. WordSize |-> (w - 1) * WordSize + j])

sarrayPatterns(p, words) ==
    LET cs == [i \in DOMAIN p.ps |-> p.ps[i].v[2]]
    IN  IF IsAny(p) THEN Dummies(words)
        ELSE Each([w \in 1 .. words |-> w], LAMBDA w : [MatchLiteral("word", Packed(cs, w)) EXCEPT !.nm = <<p.nm, w>>])

(***************************************************************************)
(* PatternRow's operator==: the names of the variables are not compared.   *)
(***************************************************************************)
RECURSIVE Nameless(_)
Nameless(p) == [p EXCEPT !.nm = <<>>, !.ps = [i \in DOMAIN p.ps |-> Nameless(p.ps[i])]]
TableKey(rows) ==
    [r \in DOMAIN rows |-> [rows[r] EXCEPT !.ps = [c \in DOMAIN rows[r].ps |-> Nameless(rows[r].ps[c])]]]

\* The variable that a column is about, by the rows that have a pattern for it.
ColumnNames(rows) == [c \in DOMAIN rows[1].ps |-> {rows[r].ps[c].nm : r \in {q \in DOMAIN rows : ~IsAny(rows[q].ps[c])}}]

(***************************************************************************)
(* makeDFAState(): <<the DFA, the number of the state for a table>>.  The  *)
(* other functions that make a state for a table return it without adding  *)
(* it to the DFA: <<the DFA, a state>>.                                    *)
(***************************************************************************)
RECURSIVE makeDFAState(_, _)

Failed(d) == <<d, FinishExpr(0)>>

\* addState() of what was made, unless that failed.
Kept(b) == IF b[1].err # "none" THEN <<b[1], 0>> ELSE addState(b[1], b[2], 1)

\* LoadVars() in front of the state with a number.
Loading(vars, b) == <<b[1], LoadVars(vars, b[2])>>

\* The switch s that loads what it is about first.
LoadedSwitch(vars, s) == IF s[1].err # "none" THEN s ELSE Loading(vars, addState(s[1], s[2], 1))

\* The table of the rows in rs and those that match anything, without column c.
MatchedRows(rows, c, rs) ==
    Each(SelectSeq([r \in DOMAIN rows |-> r], LAMBDA r : r \in rs \/ IsAny(rows[r].ps[c])),
         LAMBDA r : Without(rows[r], c, <<>>))

\* A jump more, to state l[2].
AddJump(acc, key, l) == <<l[1], Append(acc[2], <<key, l[2]>>)>>

\* The rows that match anything are the default: <<the DFA, the jumps, the default>>.
JumpsElse(jumps, def) == <<def[1], jumps, def[2]>>
WithDefault(js, rest) == JumpsElse(js[2], IF rest = <<>> THEN <<js[1], 0>> ELSE makeDFAState(js[1], rest))

SwitchOn(var, s) == IF s[1].err # "none" THEN Failed(s[1]) ELSE makeSwitch(s[1], var, s[2], s[3])

\* The text that a column is matched with, in makeRegexState(): strings become the
\* expressions that their characters spell (regexNormalize(), toRegex()).
TextOf(p) == CASE p.k = "rgx" -> Writing(p.v[2])
               [] p.k = "arr" -> Each(p.ps, LAMBDA q : q.v[2])
               [] OTHER -> <<>>
IsText(p) == p.k # "arr" \/ \A i \in DOMAIN p.ps : p.ps[i].v[1] = "char"

\* A jump for each result of the function f.
RegexJumps(d, rows, c, rstates) ==
    FoldLeft(LAMBDA acc, res : AddJump(acc, <<"int", res>>,
                 Kept(Loading({}, makeDFAState(acc[1], MatchedRows(rows, c, rstates[res]))))),
             <<d, <<>>>>, [i \in DOMAIN rstates |-> i])
RegexSwitch(d, rows, c, var, f) ==
    LoadedSwitch({var}, SwitchOn(var, WithDefault(RegexJumps([d EXCEPT !.fns = Append(@, f)], rows, c, f.rstates),
                                                  MatchedRows(rows, c, {}))))
makeRegexState(d, rows, c) ==
    IF \E row \in ToSet(rows) : ~IsText(row.ps[c]) THEN Failed(Throw(d, "text"))
    ELSE RegexSwitch(d, rows, c, Regex(rows[1].ps[c].nm, Len(d.fns) + 1),
                     makeRegexFn(Each(rows, LAMBDA row : TextOf(row.ps[c]))))

Loads(nm, s) == {Var(Append(nm, i)) : i \in 1 .. s}

\* makeSplitState(): a state for each value of column c, which for an array loads its
\* elements first.
BranchState(p, key, b) == IF p.k = "arr" THEN Kept(Loading(Loads(p.nm, key[2]), b)) ELSE b
SplitJumps(d, rows, c) ==
    FoldLeft(LAMBDA acc, key : AddJump(acc, key,
                 BranchState(rows[1].ps[c], key, makeDFAState(acc[1], Branch(rows, c, key, key[2])))),
             <<d, <<>>>>, Keys(rows, c))
makeSplitState(d, rows, c) == WithDefault(SplitJumps(d, rows, c), MatchedRows(rows, c, {}))

makeLiteralState(p, s) == SwitchOn(LitVar(p), s)

\* A switch on the length.
makeArrayState(p, s) == LoadedSwitch({SizeOf(p.nm)}, SwitchOn(SizeOf(p.nm), s))

\* Without a default every constructor has to have its case: the type checker sees to it.
makeVariantState(p, s) ==
    CASE s[1].err # "none" -> Failed(s[1])
      [] s[1].err = "none" /\ s[3] = 0 /\ Len(s[2]) # Cardinality(Labels) -> Failed(Throw(s[1], "type"))
      [] OTHER -> <<s[1], SwitchVariant(Var(p.nm), s[2], s[3])>>

makeRecordState(d, rows, c, p) ==
    Loading(Loads(p.nm, Len(p.ps)), makeDFAState(d, Branch(rows, c, p.v, Len(p.ps))))

\* makeSuccStateF: the state that a table with pivot column c becomes.
SplitState(p, s) ==
    CASE p.k = "lit" -> makeLiteralState(p, s)
      [] p.k = "arr" -> makeArrayState(p, s)
      [] p.k = "var" -> makeVariantState(p, s)
makeSuccState(d, rows, c) ==
    LET p == rows[1].ps[c]
    IN  CASE p.k = "rgx" \/ (p.k = "arr" /\ \E row \in ToSet(rows) : row.ps[c].k = "rgx") ->
                makeRegexState(d, rows, c)
          [] p.k = "rec" -> makeRecordState(d, rows, c, p)
          [] OTHER       -> SplitState(p, makeSplitState(d, rows, c))

\* The array is the variable of the first row's pattern, whatever that is.
WordsState(d, rows, c, words) ==
    Loading({Word(rows[1].ps[c].nm, w) : w \in 1 .. words},
            makeDFAState(d, Each(rows, LAMBDA row : Without(row, c, sarrayPatterns(row.ps[c], words)))))
maxStringLen(rows, c) == FoldLeft(LAMBDA n, row : IF Len(row.ps[c].ps) > n THEN Len(row.ps[c].ps) ELSE n, 0, rows)
makeCharArrayState(d, rows, c) == WordsState(d, rows, c, WordsFor(maxStringLen(rows, c)))

\* A row without conditions left: its result, once its guard holds.
GuardSwitch(g, fin, rest) ==
    IF rest[1].err # "none" THEN Failed(rest[1])
    ELSE <<rest[1], SwitchVal(Check(g), <<<<<<"bool", 1>>, fin>>>>, rest[2])>>
GuardedState(rows, g, fin) ==
    LoadedSwitch({Check(g)}, GuardSwitch(g, fin[2], makeDFAState(fin[1], Tail(rows))))
makeLastState(d, rows) ==
    IF rows[1].guard = 0 THEN <<d, FinishExpr(rows[1].res)>>
    ELSE IF Len(rows) = 1 THEN Failed(Throw(d, "inexhaustive"))
    ELSE GuardedState(rows, rows[1].guard, addState(d, FinishExpr(rows[1].res), 1))

\* The table was met before: mixed says that it had other variables.
Recalled(d, met, names) ==
    <<[d EXCEPT !.refs[met.state] = @ + 1, !.mixed = @ \/ met.names # names], met.state>>
Remembered(rows, b) ==
    <<[b[1] EXCEPT !.memo = (TableKey(rows) :> [state |-> b[2], names |-> ColumnNames(rows)]) @@ @], b[2]>>

\* The state of a table of primitives, which begins a match of its own unless it is in one.
PrimRoot(rows, b) ==
    <<[b[1] EXCEPT !.inPrim = FALSE,
                   !.prim = IF b[2] = 0 THEN @ ELSE (b[2] :> makePrimFArgs(rows)) @@ @], b[2]>>
PrimState(prim, rows, b) == IF prim THEN PrimRoot(rows, b) ELSE b
PivotState(d, rows, c, prim) ==
    IF c = 0 THEN Kept(makeLastState(d, rows))
    ELSE PrimState(prim, rows, Kept(makeSuccState([d EXCEPT !.inPrim = @ \/ prim], rows, c)))

TableState(d, rows, strings) ==
    CASE strings # {} ->
            Kept(makeCharArrayState(d, rows, CHOOSE c \in strings : \A e \in strings : c <= e))
      [] strings = {} /\ TableKey(rows) \in DOMAIN d.memo -> Recalled(d, d.memo[TableKey(rows)], ColumnNames(rows))
      [] OTHER ->
            Remembered(rows, PivotState(d, rows, choosePivotColumn(rows), ~d.inPrim /\ isPrimSelection(d, rows)))
UsedTableState(d, rows) ==
    TableState(d, rows, {c \in DOMAIN rows[1].ps : canMakeCharArrayState(rows, c)})
makeDFAState(d, rows) == IF d.err # "none" THEN <<d, 0>> ELSE UsedTableState(d, dropUnusedColumns(rows))

\* makeDFA(): the results come first; a row whose result no state leads to is refused.
EachReached(rows, made) ==
    IF made[1].err = "none" /\ \E r \in DOMAIN rows : made[1].refs[r] = 0
    THEN <<Throw(made[1], "unreachable"), 0>> ELSE made
makeDFA(rows, lower) ==
    EachReached(rows, makeDFAState(FoldLeft(LAMBDA d, row : addState(d, FinishExpr(row.res), 0)[1], NewDFA(lower), rows),
                                   rows))
=============================================================================
