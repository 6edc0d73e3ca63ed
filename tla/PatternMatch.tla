---------------------------- MODULE PatternMatch ----------------------------
(***************************************************************************)
(* A match expression: its rows become the states of a DFA (MatchTable),   *)
(* and the DFA an expression (liftDFAExpr() in dfa.C), here in the form of *)
(* what evaluating it comes to.                                            *)
(*                                                                         *)
(* A value is [v, ps]: a literal or the constructor of a variant, and the  *)
(* parts of an array, record or variant.  Guards are conditions of their   *)
(* own: the set `on' has the ones that hold.                               *)
(***************************************************************************)
EXTENDS MatchTable

CONSTANT
    Tables       \* the matches to compile: [rows, inputs], the inputs sequences of values

VARIABLES
    lift,        \* "dfa", then "lifted" or "refused"
    match,       \* the match
    lower,       \* whether every table of primitives is made a function (a setting of cc)
    mdfa,        \* the DFA
    root         \* its first state

matchVars == <<lift, match, lower, mdfa, root>>

MatchInit ==
    /\ lift = "dfa" /\ match \in Tables /\ lower \in BOOLEAN
    /\ mdfa = NewDFA(FALSE) /\ root = 0

\* liftDFAExpr() of a match: an error that makeDFA() throws goes to the caller.
MakeDFA ==
    /\ lift = "dfa"
    /\ match' = [match EXCEPT !.rows = assignNames(@)]
    /\ \E made \in {makeDFA(assignNames(match.rows), lower)} :
          /\ mdfa' = made[1]
          /\ root' = made[2]
          /\ lift' = IF made[1].err = "none" THEN "lifted" ELSE "refused"
    /\ UNCHANGED lower

(***************************************************************************)
(* The value of the expression for an input.                               *)
(***************************************************************************)
Unbound == 98      \* a variable is used outside of where it is bound: no such expression compiles
NoValue == 99      \* the variable holds something that has no such part

\* varMapping(): the variables of patterns that a row's guard and result use.
RECURSIVE varMapping(_)
varMapping(p) == IF IsAny(p) THEN IF p.v[2] = 0 THEN {} ELSE {Var(p.nm)}
                 ELSE UNION {varMapping(p.ps[i]) : i \in DOMAIN p.ps}
RowVars(r) == UNION {varMapping(q) : q \in ToSet(match.rows[r].ps)}

RECURSIVE PartAt(_, _)
PartAt(x, nm) == IF nm = <<>> THEN {x} ELSE IF Head(nm) \notin DOMAIN x.ps THEN {}
                 ELSE PartAt(x.ps[Head(nm)], Tail(nm))

\* What a variable holds: {} where the input has no such part.
Held(var, xs, on) ==
    LET nm == var[2]
        at == PartAt(xs[nm[1]], Tail(nm))
    IN  CASE var[1] = "value" -> {x.v : x \in at}
          [] var[1] = "size"  -> {<<"long", Len(x.ps)>> : x \in at}
          [] var[1] = "word"  -> {<<"word", Packed([i \in DOMAIN x.ps |-> x.ps[i].v[2]], var[3])>> : x \in at}
          [] var[1] = "regex" -> {<<"int", RunDFA(mdfa.fns[var[3]].dfa, Each(x.ps, LAMBDA q : q.v[2]))>> : x \in at}
          [] var[1] = "check" -> {<<"bool", IF var[3] \in on THEN 1 ELSE 0>>}

\* The variable that the definition of another one reads.
Source(var) == CASE var[1] = "value" -> {Var(Front(var[2]))}
                 [] var[1] \in {"size", "word", "regex"} -> {Var(var[2])}
                 [] OTHER -> LET r == CHOOSE q \in DOMAIN match.rows : match.rows[q].guard = var[3]
                             IN  RowVars(r)

\* compressToIfCheck(): switches of one case with the same default become one `if'.
RECURSIVE Compressed(_, _)
Compressed(d, ifc) ==
    LET st == d.states[ifc.trueb]
    IN  IF st.k = "switch" /\ Len(st.jmps) = 1 /\ st.def = ifc.falseb
        THEN Compressed(d, [ifc EXCEPT !.checks = Append(@, <<st.var, st.jmps[1][1]>>), !.trueb = st.jmps[1][2]])
        ELSE ifc
compressToIfCheck(d, st) ==
    Compressed(d, [checks |-> <<<<st.var, st.jmps[1][1]>>>>, trueb |-> st.jmps[1][2], falseb |-> st.def])

\* env has the variables in scope; a primitive match sees its arguments only, and
\* the result that it selects has the scope of the call.
RECURSIVE Eval(_, _, _, _, _)
Eval(s, xs, on, env, scope) ==
    LET st   == mdfa.states[s]
        prim == s \in DOMAIN mdfa.prim
        ifc  == compressToIfCheck(mdfa, st)
        hit  == {j \in ToSet(st.jmps) : j[1] \in Held(st.var, xs, on)}
        goto(t, e) == Eval(t, xs, on, e, scope \union e)
    IN  IF prim /\ ~(mdfa.prim[s] \subseteq env) THEN Unbound
        ELSE LET in == IF prim THEN mdfa.prim[s] ELSE env
             IN CASE st.k = "finish" -> IF RowVars(st.res) \subseteq scope THEN st.res ELSE Unbound
                  [] st.k = "load" ->
                        IF ~(UNION {Source(x) : x \in st.defs} \subseteq in) THEN Unbound
                        ELSE IF \E x \in st.defs : Held(x, xs, on) = {} THEN NoValue
                        ELSE goto(st.next, in \union st.defs)
                  [] st.k = "switch" /\ ~prim /\ Len(st.jmps) = 1 ->
                        IF \E i \in DOMAIN ifc.checks : ifc.checks[i][1] \notin in THEN Unbound
                        ELSE goto(IF \A i \in DOMAIN ifc.checks : ifc.checks[i][2] \in Held(ifc.checks[i][1], xs, on)
                                  THEN ifc.trueb ELSE ifc.falseb, in)
                  [] OTHER ->
                        LET part == IF st.k = "case" THEN {Var(Append(st.var[2], 1))} ELSE {}
                        IN  IF st.var \notin in THEN Unbound
                            ELSE IF hit # {} THEN goto((CHOOSE j \in hit : TRUE)[2], in \union part)
                            ELSE IF st.def = 0 THEN NoValue ELSE goto(st.def, in)

Answer(xs, on) == LET vars == {Var(<<c>>) : c \in DOMAIN xs} IN Eval(root, xs, on, vars, vars)

(***************************************************************************)
(* What a match means, apart from the code.                                *)
(***************************************************************************)
RECURSIVE Fits(_, _)
Fits(p, x) == \/ IsAny(p)
              \/ p.k = "rgx" /\ MatchesTree(p.v[2], Each(x.ps, LAMBDA q : q.v[2]))
              \/ /\ p.k # "rgx"
                 /\ p.k \in {"lit", "var"} => p.v = x.v
                 /\ Len(p.ps) = Len(x.ps)
                 /\ \A i \in DOMAIN p.ps : Fits(p.ps[i], x.ps[i])

FirstRow(xs, on) ==
    LET fit == {r \in DOMAIN match.rows : /\ \A c \in DOMAIN xs : Fits(match.rows[r].ps[c], xs[c])
                                          /\ match.rows[r].guard \in on \union {0}}
    IN  IF fit = {} THEN 0 ELSE CHOOSE r \in fit : \A q \in fit : r <= q

Guards == {match.rows[r].guard : r \in DOMAIN match.rows} \ {0}

(***************************************************************************)
(* Properties                                                              *)
(***************************************************************************)
Subpats == UNION {ToSet(Subpatterns(q)) : q \in UNION {ToSet(match.rows[r].ps) : r \in DOMAIN match.rows}}

\* A string next to an expression is read as one, with all the signs in it.
StringsArePlain ==
    \A p, q \in Subpats : (p.k = "rgx" /\ q.k = "arr" /\ p.nm = q.nm) =>
        \A i \in DOMAIN q.ps : q.ps[i].v[2] \in CARE + 1 .. BAR - 1

\* A closed type (unit, bool, variant) all of whose cases are listed next to a pattern that
\* matches anything: the default case is compiled too, though it cannot happen.
NeedlessDefault ==
    LET at(nm) == {q.v : q \in {p \in Subpats : p.nm = nm /\ ~IsAny(p)}}
    IN  \E p, q \in Subpats :
            /\ at(p.nm) \in {{<<"unit", 0>>}, {<<"bool", 0>>, <<"bool", 1>>}, {<<"label", l>> : l \in Labels}}
            /\ IsAny(q) /\ IsPrefix(q.nm, p.nm)

\* A match that compiles evaluates the result of the first row that matches, for
\* every input and outcome of the guards, with every variable in scope where it is
\* used.  It is stated for matches where no table is taken for another one, and no
\* string is read as an expression.
MatchesFirstRow ==
    (lift = "lifted" /\ ~mdfa.mixed /\ StringsArePlain) =>
        \A xs \in match.inputs, on \in SUBSET Guards : Answer(xs, on) = FirstRow(xs, on)

\* A row is called unreachable only if an earlier row matches whatever it matches,
\* and a match is called inexhaustive only if no row matches some input.
RefusedIsSo ==
    (lift = "refused" /\ ~mdfa.mixed /\ StringsArePlain) =>
        /\ mdfa.err = "unreachable" =>
              \A r \in DOMAIN match.rows : mdfa.refs[r] = 0 =>
                  \A xs \in match.inputs, on \in SUBSET Guards : FirstRow(xs, on) # r
        /\ (mdfa.err \in {"inexhaustive", "type"} /\ ~NeedlessDefault) =>
              \E xs \in match.inputs, on \in SUBSET Guards : FirstRow(xs, on) = 0

\* "evaluate the expression for the first pattern row matching the input"
\* (include/hobbes/lang/pat/pattern.H): the same with no condition on the tables met.
EveryMatchFirstRow ==
    lift = "lifted" =>
        \A xs \in match.inputs, on \in SUBSET Guards : Answer(xs, on) = FirstRow(xs, on)
=============================================================================
