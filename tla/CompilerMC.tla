----------------------------- MODULE CompilerMC -----------------------------
(***************************************************************************)
(* Instances of Compiler.                                                  *)
(***************************************************************************)
EXTENDS Compiler

\* Regular expressions over the characters a to c
a == 12
b == 13
c == 14

Quantified(ts) == ts \union {Rep(t, q) : t \in ts, q \in {STAR, PLUS, QUES}}
Joined(ts, us) == {Cat(t, v) : t \in ts, v \in us} \union {Alt(t, v) : t \in ts, v \in us}

Single == {Lit(a), Lit(b), Dot, Among(a, b), Among(b, c), Except(a, b)}
Simple == {Lit(a), Lit(b), Among(a, b), Rep(Lit(a), STAR), Rep(Lit(b), QUES)}
Groups == {Grp(t) : t \in Joined(Simple, Simple)}

MCRegexLists ==
    {<<t>> : t \in Joined(Quantified(Single), Single) \union Quantified(Groups) \union Joined({Lit(a)}, Groups)}
        \union {<<t, v>> : t \in Quantified({Lit(a), Dot, Among(a, b)}), v \in Joined(Simple, Simple)}

MCAlphabet == {a, b, c}

\* Types and expressions: x is 1, f is 2
MCTypes == {TVar(1), TVar(2), Prim(INT), Array(TVar(1)), Array(TVar(2)),
            Recursive(9, Func(TVar(1), TVar(9))), Recursive(9, Func(TVar(2), TVar(9)))}

Names    == {<<"var", 1>>, <<"var", 2>>}
Atoms    == Names \union {<<"int">>}
Applied  == Atoms \union {<<"app", f, g>> : f \in Names, g \in Atoms} \union {<<"array", f, g>> : f \in Names, g \in Atoms}
Lambda(e) == <<"fn", 1, <<"fn", 2, e>>>>
Switched == {<<"var", 1>>, <<"int">>, <<"bool">>}

MCExprs ==
    {Lambda(<<"app", f, g>>) : f \in Applied, g \in Applied}
        \union {Lambda(<<"assign", f, g>>) : f \in Applied, g \in Atoms}
        \union {<<"fn", 1, <<"let", 2, f, g>>>> : f \in {<<"var", 1>>, <<"fn", 3, <<"var", 3>>>>}, g \in Applied}
        \union {<<"letrec", 2, <<"fn", 1, g>>, h>> : g \in Applied, h \in {<<"var", 2>>, <<"app", <<"var", 2>>, <<"bool">>>>}}
        \union {<<"fn", 1, <<"switch", e, f, g>>>> : e \in Switched, f \in Switched, g \in Switched}

\* Programs of three classes, the third with an argument that depends on the other: a
\* ground instance and two generators, in both orders, all known or the last one to come
tInt  == Prim(INT)
tBool == Prim(BOOL)
tyA   == TVar(1)
tyB   == TVar(2)
Needs(k, ts) == [cls |-> k, args |-> ts]
Instance(k, ts, reqs) == [cls |-> k, head |-> ts, reqs |-> reqs]

Grounds == {Instance(1, <<tInt>>, <<>>), Instance(2, <<tInt>>, <<>>), Instance(2, <<tBool>>, <<>>), Instance(3, <<tInt, tBool>>, <<>>)}
Generators ==
    {Instance(1, <<tyA>>, <<>>), Instance(1, <<tyA>>, <<Needs(2, <<tyA>>)>>), Instance(2, <<tyA>>, <<Needs(1, <<tyA>>)>>),
     Instance(1, <<Array(tyA)>>, <<Needs(1, <<tyA>>)>>), Instance(1, <<Array(tyA)>>, <<Needs(2, <<tyA>>), Needs(1, <<tyA>>)>>),
     Instance(2, <<Array(tyA)>>, <<>>), Instance(2, <<tyA>>, <<Needs(3, <<tyA, tyB>>), Needs(2, <<tyB>>)>>),
     Instance(3, <<Array(tyA), Array(tyB)>>, <<Needs(3, <<tyA, tyB>>)>>)}
Questions == {Needs(1, <<tInt>>), Needs(1, <<Array(tInt)>>), Needs(2, <<tInt>>), Needs(2, <<Array(tInt)>>), Needs(3, <<Array(tInt), TVar(1000)>>)}

ThreeClasses ==
    <<[arity |-> 1, deps |-> <<>>, reqs |-> <<>>], [arity |-> 1, deps |-> <<>>, reqs |-> <<>>], [arity |-> 2, deps |-> <<<<1, 2>>>>, reqs |-> <<>>]>>
Program(ds, n) == [classes |-> ThreeClasses, defs |-> ds, known |-> n, asks |-> Questions, types |-> {tInt, tBool, Array(tInt), Array(tBool)}]
MCPrograms == UNION {{Program(<<g, f, h>>, 3), Program(<<f, h, g>>, 2)} : g \in Grounds, f \in Generators, h \in Generators}

\* Records, tuples and variants of up to three fields
FieldTypes == {Prim(CHAR), Prim(INT), Prim(LONG), Prim(UNIT), TVar(1),
               RecordOf(<<MemberOf(1, Prim(LONG)), MemberOf(2, Prim(CHAR))>>), VariantOf(<<MemberOf(1, Prim(CHAR)), MemberOf(2, Fixed(Prim(LONG), 0))>>)}
MoreTypes == FieldTypes \union {Exists, Fixed(Prim(SHORT), 3), RecordOf(<<MemberOf(1, Prim(UNIT))>>)}
FieldName(k, n, i) == CASE k = "record" -> n + 1 - i [] k = "tuple" -> Nth(i - 1) [] OTHER -> i
FieldsOf(k, n, ts) == {[i \in 1 .. n |-> <<FieldName(k, n, i), f[i]>>] : f \in [1 .. n -> ts]}
ShapesOf(n, ts) == UNION {{[kind |-> k, fields |-> fs] : fs \in FieldsOf(k, n, ts)} : k \in {"record", "tuple", "variant"}}

MCShapes == ShapesOf(1, MoreTypes) \union ShapesOf(2, MoreTypes) \union ShapesOf(3, FieldTypes)

\* Constraints: the variables are 1 to 4, the labels A and B
tUnit == Prim(UNIT)
X == TVar(1)
Y == TVar(2)
Z == TVar(3)
W == TVar(4)
A == 11
B == 12
Rec1(l, t)       == RecordOf(<<MemberOf(l, t)>>)
Rec2(l, t, k, s) == RecordOf(<<MemberOf(l, t), MemberOf(k, s)>>)
Var1(l, t)       == VariantOf(<<MemberOf(l, t)>>)
Var2(l, t, k, s) == VariantOf(<<MemberOf(l, t), MemberOf(k, s)>>)
AB(t) == Rec2(A, t, B, tBool)
VarAB(t) == Var2(A, t, B, tBool)

\* Each of cs alone, and with each of ds before it and after it; up to three variables
WithOthers(cs, ds) ==
    {ps \in {<<p>> : p \in cs} \union UNION {{<<p, q>>, <<q, p>>} : p \in cs, q \in ds} : Cardinality(VarsIn(ps)) < 4}
Asked(pss, ts) == {[cs |-> ps, types |-> ts] : ps \in pss}

Appends(l, m, n) ==
    {Pred("AppendsTo", <<p, q, r>>) : p \in {X, tUnit, Rec1(l, tInt), Rec1(l, X)}, q \in {Y, tUnit, Rec1(m, tBool), Rec1(m, X)},
                                      r \in {Z, Rec2(l, tInt, n, tBool), Rec2(l, Y, n, tBool), Rec1(l, tInt)}}
Appending ==
    Asked(WithOthers(Appends(A, B, B), {Pred("equals", <<X, tUnit>>), Pred("!equals", <<Y, tUnit>>), Pred("SizeOf", <<Z, TLong(8)>>)}),
          {tInt, tBool, tUnit, Rec1(A, tInt), Rec1(B, tBool), AB(tInt), Rec2(B, tBool, A, tInt)})
    \union Asked(WithOthers(Appends(Nth(0), Nth(0), Nth(1)), {}),
                {tInt, tBool, tUnit, Tuple(<<tInt>>), Tuple(<<tBool>>), Tuple(<<tInt, tBool>>), Tuple(<<tBool, tInt>>)})

\* A tail with a hidden field is a solution among others where the whole type is not known
Flags == {TLong(0), TLong(1)}
HiddenRec == Rec2(Hidden + A, tInt, B, tBool)
HiddenTup == Rec2(Hidden + Nth(0), tInt, Nth(0), tBool)
HiddenVar == Var2(Hidden + A, tInt, B, tBool)
TakenApart(ps, ds, whole, rest, ts, hs) ==
    UNION {Asked(WithOthers({p}, ds), IF p.args[1] = TLong(1) /\ (IsVar(p.args[whole]) => p.args[rest] \in hs) THEN ts \union hs ELSE ts) :
               p \in {p \in ps : p.args[rest] \in hs => p.args[1] = TLong(1)}}

RecordsApart ==
    TakenApart({Pred("ConsRecord", <<f, p, r, n, h, t>>) :
                    f \in Flags, p \in Flags, r \in {X, AB(tInt), AB(Y), Tuple(<<tInt, tBool>>), Rec1(A, X)},
                    n \in {W, TString(A)}, h \in {Y, tInt}, t \in {Z, tUnit, Rec1(B, tBool), Tuple(<<tBool>>), HiddenRec}},
               {}, 3, 6,
               {tInt, tBool, tUnit, AB(tInt), Rec1(A, tInt), Rec1(B, tBool), Tuple(<<tInt, tBool>>), Tuple(<<tBool>>), TString(A), TString(Nth(0))},
               {HiddenRec, HiddenTup})
VariantsApart ==
    TakenApart({Pred("ConsVariant", <<f, v, n, h, t>>) :
                    f \in Flags, v \in {X, VarAB(tInt), VarAB(Y), Var1(A, Y)}, n \in {W, TString(A)}, h \in {Y, tInt},
                    t \in {Z, Prim(VOID), Var1(B, tBool), HiddenVar}},
               {Pred("HasCtor", <<X, TString(A), tInt>>), Pred("HasCtor", <<X, TString(B), Y>>), Pred("!equals", <<Y, tInt>>)}, 2, 5,
               {tInt, tBool, Prim(VOID), VarAB(tInt), Var1(A, tInt), Var1(B, tBool), TString(A), TString(B)},
               {HiddenVar})

Having ==
    Asked(WithOthers({Pred("HasField", <<r, n, h>>) : r \in {X, AB(tInt), AB(Y), Tuple(<<tInt, Y>>), tInt}, n \in {W, TString(A), TLong(1)}, h \in {Z, tInt, tBool, Y}}
                         \union {Pred("HasCtor", <<v, n, h>>) : v \in {X, VarAB(tInt), VarAB(Y)}, n \in {W, TString(A)}, h \in {Z, tInt, tBool, Y}}
                         \union {Pred("SizeOf", <<t, n>>) : t \in {X, AB(tInt), AB(Y), tInt}, n \in {Z, TLong(4), TLong(8)}},
                     {Pred("equals", <<X, AB(tInt)>>), Pred("equals", <<Y, tBool>>), Pred("!equals", <<Z, tInt>>), Pred("equals", <<W, TString(A)>>)}),
          {tInt, tBool, AB(tInt), AB(tBool), Tuple(<<tInt, tBool>>), VarAB(tInt), TString(A), TLong(1), TLong(8)})

\* A function of one parameter that is a tuple is taken for one of several: the types of
\* parameters are known here
ListOf(t) == Recursive(9, Var2(A, t, B, TVar(9)))
Taking(t) == Func(Tuple(<<tInt>>), t)
KnownParts == {Tuple(<<TString(ARRAY), tInt>>), Tuple(<<TString(FUNC), tInt, tBool>>), Tuple(<<TString(RECUR), ListOf(tInt)>>)}
Deconstructing ==
    Asked(WithOthers({Pred("Deconstruct", <<t, p>>) :
                          t \in {X, Array(Y), Array(tInt), Taking(Y), Func(Tuple(<<tInt, tBool>>), Z), ListOf(tInt), tInt},
                          p \in {Z, Tuple(<<TString(ARRAY), tInt>>), Tuple(<<TString(ARRAY), Y>>), Tuple(<<TString(FUNC), tInt, Y>>), Tuple(<<TString(RECUR), Y>>), Tuple(<<W, tInt>>)}}
                         \union {Pred("IsoRecur", <<r, v>>) : r \in {X, ListOf(tInt), ListOf(Y)}, v \in {Z, unroll(ListOf(tInt)), unroll(ListOf(Y)), tInt}},
                     {Pred("equals", <<X, Y>>), Pred("!equals", <<Y, tInt>>), Pred("IsoRecur", <<Y, Z>>)}),
          {tInt, tBool, Array(tInt), Taking(tBool), Func(Tuple(<<tInt, tBool>>), tBool), ListOf(tInt), unroll(ListOf(tInt)), Tuple(<<tInt, tBool>>), TString(FUNC)} \union KnownParts)

MCConstraints == Appending \union RecordsApart \union VariantsApart \union Having \union Deconstructing

\* Grammars of two symbols over a and b, in two orders of addresses; expressions
\* with the operators a and b, of every precedence.
Orders(ts) == {<<EOF>> \o ts \o <<Boot>>, Reverse(<<EOF>> \o ts \o <<Boot>>)}
RulesOf(rhs) == {<<x>> : x \in rhs} \union {p \in rhs \X rhs : p[1] # p[2]}

StartRules == RulesOf({<<a>>, <<a, 1>>, <<1, a>>, <<a, 2>>, <<2, b>>, <<2, 2>>, <<2>>, <<>>})
OtherRules == RulesOf({<<a>>, <<b>>, <<a, 1>>, <<b, 2>>, <<2, b>>, <<>>})

Small == {[g |-> (1 :> x) @@ (2 :> y), s |-> 1, px |-> <<>>, ord |-> o, syms |-> {a, b}, len |-> 3] :
             x \in StartRules \union {<<<<2, 2, a>>>>}, y \in OtherRules, o \in Orders(<<1, 2, a, b>>)}

Precedences == [{a, b} -> [level : {1, 2}, asc : {"left", "right", "non"}]]
Operators == {[g |-> (1 :> <<<<1, a, 1>>, <<1, b, 1>>, <<c>>>>), s |-> 1, px |-> p, ord |-> o, syms |-> {a, b, c}, len |-> 5] :
                 p \in Precedences, o \in Orders(<<1, a, b, c>>)}

MCGrammars == Small \union Operators

\* Matches: three rows over two or three columns
wild == MatchAny(0)
x1   == MatchAny(1)
x2   == MatchAny(2)
one  == MatchLiteral("int", 1)
two  == MatchLiteral("int", 2)
Bool(i) == MatchLiteral("bool", i)
String(cs) == MatchArray(Each(cs, LAMBDA ch : MatchLiteral("char", ch)))

Val(ty, n) == [v |-> <<ty, n>>, ps |-> <<>>]
Vals(xs)   == [v |-> <<"none", 0>>, ps |-> xs]
Made(l, x) == [v |-> <<"label", l>>, ps |-> <<x>>]
Text(cs)   == Vals(Each(cs, LAMBDA ch : Val("char", ch)))
IntVals    == {Val("int", i) : i \in 0 .. 2}
BoolVals   == {Val("bool", i) : i \in 0 .. 1}

Rows(pss, gs) == [r \in DOMAIN pss |-> Row(pss[r], gs[r], r)]
ThreeRows(ps, gss, xss) == {[rows |-> Rows(pss, gs), inputs |-> xss] : pss \in [1 .. 3 -> ps], gs \in gss}
NoGuards == {<<0, 0, 0>>}

Open == {p \in [1 .. 3 -> {wild, one, two}] : Cardinality({i \in 1 .. 3 : p[i] # wild}) \in {1, 2}}
Columns == {[rows |-> Rows(<<p, q, r, <<wild, wild, wild>>>>, <<0, 0, 0, 0>>), inputs |-> [1 .. 3 -> IntVals]] :
               p \in {<<one, wild, wild>>, <<one, two, wild>>, <<wild, one, two>>}, q \in Open, r \in Open}
Guarded == ThreeRows({x1, Bool(0), Bool(1)} \X {wild, one}, {<<g, 2, 0>> : g \in {0, 1}}, BoolVals \X IntVals)
Arrays == ThreeRows({wild, MatchArray(<<x1>>), MatchArray(<<one>>), MatchArray(<<one, x2>>)} \X {wild, one},
                    {<<0, 0, 0>>, <<1, 2, 0>>},
                    (UNION {{Vals(xs) : xs \in [1 .. n -> IntVals]} : n \in 0 .. 2}) \X {Val("int", 0), Val("int", 1)})
Variants == ThreeRows({wild, MatchVariant(1, x1), MatchVariant(1, one), MatchVariant(2, wild)} \X {wild, one},
                      NoGuards, {Made(l, x) : l \in {1, 2}, x \in IntVals} \X {Val("int", 0), Val("int", 1)})
Records == ThreeRows(({x1} \union {MatchRecord(<<p, q>>) : p \in {x1, one}, q \in {wild, Bool(1)}}) \X {wild, MatchLiteral("unit", 0)},
                     NoGuards, {Vals(xs) : xs \in IntVals \X BoolVals} \X {Val("unit", 0)})
Strings2 == ThreeRows({x1, String(<<>>), String(<<a>>), String(<<a, b>>), String(<<a, b, a>>)} \X {wild, one},
                      NoGuards, {Text(cs) : cs \in {<<>>, <<a>>, <<a, b>>, <<a, a>>, <<a, b, a>>}} \X {Val("int", 0), Val("int", 1)})
Expressions == ThreeRows({x1, String(<<a>>), String(<<a, DOT>>), MatchRegex(Rep(Lit(a), STAR)), MatchRegex(Cat(Dot, Lit(b)))} \X {wild, one},
                         NoGuards, {Text(cs) : cs \in UNION {[1 .. n -> {a, b, DOT}] : n \in 0 .. 2}} \X {Val("int", 0), Val("int", 1)})

MCTables == Columns \union Guarded \union Arrays \union Variants \union Records \union Strings2 \union Expressions
=============================================================================
