--------------------------- MODULE TypeInference ---------------------------
(***************************************************************************)
(* Type inference (expTypeInfF and validateType() in typeinf.C) on the     *)
(* expressions that need no type class, and the unifier in the hands of a  *)
(* caller that unifies and substitutes in any order.                       *)
(*                                                                         *)
(* An expression is a tuple with its kind first, and its nodes are counted *)
(* from the root, each before its parts.  Functions have one argument (the *)
(* tuple of arguments is left out); what needs constraints (variants,      *)
(* projections, packing, the conversion of an index) is not modelled.      *)
(* The unifier's caller works on the types in Types.                       *)
(***************************************************************************)
EXTENDS TypeUnifier

CONSTANTS
    Exprs,      \* the expressions to infer the types of
    Types,      \* the types that the unifier's caller works on
    MaxCalls    \* bound on its calls

ASSUME InferenceAssumption == MaxCalls \in Nat

VARIABLES
    stage,      \* "infer", "apply", "typed", or "calls" for the unifier's caller
    expr,       \* the expression
    inf,        \* the inference: [u, next, tys]: unifier, next fresh variable, a type for each node
    u,          \* the caller's unifier
    unified,    \* the pairs it unified
    made        \* how many calls it made

infers == <<expr, inf>>
calls  == <<u, unified, made>>

(***************************************************************************)
(* Inference: every part of an expression is visited with the unifier.     *)
(***************************************************************************)
RECURSIVE Size(_)
Size(e) ==
    CASE e[1] \in {"int", "bool", "var"} -> 1
      [] e[1] = "fn"                     -> 1 + Size(e[3])
      [] e[1] \in {"app", "assign", "array"} -> 1 + Size(e[2]) + Size(e[3])
      [] e[1] \in {"let", "letrec"}      -> 1 + Size(e[3]) + Size(e[4])
      [] e[1] = "switch"                 -> 1 + Size(e[2]) + Size(e[3]) + Size(e[4])

\* The node of the second and of the third part of the node k.
Second(e, k) == k + 1 + (IF e[1] \in {"let", "letrec"} THEN Size(e[3]) ELSE Size(e[2]))
Third(e, k)  == Second(e, k) + Size(e[3])

freshTypeVar(s) == TVar(s.next)
Fresh(s)        == [s EXCEPT !.next = @ + 1]
mgu(s, t0, t1)  == [s EXCEPT !.u = unify(@, t0, t1)]
SetType(s, k, t) == [s EXCEPT !.tys = (k :> t) @@ @]

RECURSIVE infer(_, _, _, _)
infer(s, tenv, e, k) ==
    LET first(v, env)  == infer(v, env, IF e[1] \in {"let", "letrec", "fn"} THEN e[3] ELSE e[2], k + 1)
        second(v, env) == infer(v, env, IF e[1] \in {"let", "letrec"} THEN e[4] ELSE e[3], Second(e, k))
        third(v, env)  == infer(v, env, e[4], Third(e, k))
        ty(v, i)       == v.tys[i]
        k1 == k + 1
        k2 == Second(e, k)
        k3 == Third(e, k)
    IN  CASE s.u.st # "ok"   -> s
          [] e[1] = "int"    -> SetType(s, k, Prim(INT))
          [] e[1] = "bool"   -> SetType(s, k, Prim(BOOL))
          [] e[1] = "var"    -> SetType(s, k, tenv[e[2]])
          [] e[1] = "let"    ->
                LET v == first(s, tenv)
                    w == second(v, (e[2] :> ty(v, k1)) @@ tenv)
                IN  IF w.u.st = "ok" THEN SetType(w, k, ty(w, k2)) ELSE w
          [] e[1] = "letrec" ->
                LET f   == Func(TVar(s.next), TVar(s.next + 1))
                    env == (e[2] :> f) @@ tenv
                    v   == first(Fresh(Fresh(s)), env)
                    w   == second(IF v.u.st = "ok" THEN mgu(v, ty(v, k1), f) ELSE v, env)
                IN  IF w.u.st = "ok" THEN SetType(w, k, ty(w, k2)) ELSE w
          [] e[1] = "fn"     ->
                LET v == first(Fresh(s), (e[2] :> freshTypeVar(s)) @@ tenv)
                IN  IF v.u.st = "ok" THEN SetType(v, k, Func(freshTypeVar(s), ty(v, k1))) ELSE v
          [] e[1] = "app"    ->
                LET w == second(first(s, tenv), tenv)
                    r == freshTypeVar(w)
                IN  IF w.u.st = "ok"
                    THEN SetType(mgu(Fresh(w), ty(w, k1), Func(ty(w, k2), r)), k, r) ELSE w
          [] e[1] = "assign" ->
                LET w == second(first(s, tenv), tenv)
                IN  IF w.u.st = "ok" THEN SetType(mgu(w, ty(w, k1), ty(w, k2)), k, Prim(UNIT)) ELSE w
          [] e[1] = "array"  ->
                LET t == freshTypeVar(s)
                    v == first(Fresh(s), tenv)
                    w == second(IF v.u.st = "ok" THEN mgu(v, ty(v, k1), t) ELSE v, tenv)
                IN  IF w.u.st = "ok" THEN SetType(mgu(w, ty(w, k2), t), k, Array(t)) ELSE w
          [] e[1] = "switch" ->
                LET v == first(s, tenv)
                    w == second(IF v.u.st = "ok" THEN mgu(v, ty(v, k1), Prim(INT)) ELSE v, tenv)
                    x == third(w, tenv)
                IN  IF x.u.st = "ok" THEN SetType(mgu(x, ty(x, k3), ty(x, k2)), k, ty(x, k2)) ELSE x

\* applySubstitutionF: the type of every node is substituted.
applySubstitution(s) ==
    FoldLeft(LAMBDA v, k : LET r == substitute(v.u, v.tys[k]) IN SetType([v EXCEPT !.u = r[1]], k, r[2]),
             s, [k \in DOMAIN s.tys |-> k])

(***************************************************************************)
(* Actions                                                                 *)
(***************************************************************************)
NoInference == [u |-> NewUnifier, next |-> 1, tys |-> <<>>]

InferenceInit ==
    /\ \/ stage = "infer" /\ expr \in Exprs
       \/ stage = "calls" /\ expr = <<"int">>
    /\ inf = NoInference
    /\ u = NewUnifier
    /\ unified = {}
    /\ made = 0

\* The first half of validateType(): a type for every node, or an error.
Infer ==
    /\ stage = "infer"
    /\ inf' = infer(inf, <<>>, expr, 1)
    /\ stage' = IF inf'.u.st = "ok" THEN "apply" ELSE "typed"
    /\ UNCHANGED <<expr, calls>>

\* The second half: what the variables stand for.
ApplySubstitution ==
    /\ stage = "apply"
    /\ inf' = applySubstitution(inf)
    /\ stage' = "typed"
    /\ UNCHANGED <<expr, calls>>

\* A call of unify(); the unifier is not used after an error.
Unify(l, r) ==
    /\ stage = "calls" /\ u.st = "ok" /\ made < MaxCalls
    /\ u' = unify(u, l, r)
    /\ unified' = unified \union {<<l, r>>}
    /\ made' = made + 1
    /\ UNCHANGED <<stage, infers>>

Substitute(t) ==
    /\ stage = "calls" /\ u.st = "ok" /\ made < MaxCalls
    /\ u' = substitute(u, t)[1]
    /\ made' = made + 1
    /\ UNCHANGED <<stage, infers, unified>>

InferenceNext ==
    \/ Infer \/ ApplySubstitution
    \/ \E l \in Types : \E r \in Types \ {l} : Unify(l, r)
    \/ \E t \in Types : Substitute(t)

(***************************************************************************)
(* What the equations between types say, apart from the code: the types    *)
(* that are equal when those of the pairs are (classes), closed under the  *)
(* constructors in both directions.                                        *)
(***************************************************************************)
RECURSIVE Parts(_)
Parts(t) == {t} \union UNION {Parts(t.as[i]) : i \in DOMAIN t.as}

RECURSIVE CloseClasses(_, _)
CloseClasses(cls, pairs) ==
    LET ts   == DOMAIN cls
        same == {p \in ts \X ts : ~IsVar(p[1]) /\ ~IsVar(p[2]) /\ SameCtor(p[1], p[2])}
        down == UNION {{<<p[1].as[i], p[2].as[i]>> : i \in DOMAIN p[1].as} : p \in {q \in same : cls[q[1]] = cls[q[2]]}}
        up   == {p \in same : \A i \in DOMAIN p[1].as : cls[p[1].as[i]] = cls[p[2].as[i]]}
        more == {p \in pairs \union down \union up : cls[p[1]] # cls[p[2]]}
    IN  IF more = {} THEN cls
        ELSE LET p == CHOOSE q \in more : TRUE
             IN  CloseClasses([t \in ts |-> IF cls[t] = cls[p[1]] THEN cls[p[2]] ELSE cls[t]], pairs)

\* The classes of the parts of ts, once the pairs are equal.
Classes(pairs, ts) ==
    CloseClasses([t \in UNION {Parts(t) : t \in ts \union UNION {{p[1], p[2]} : p \in pairs}} |-> t], pairs)

Clash(cls) == \E s, t \in DOMAIN cls : /\ cls[s] = cls[t] /\ ~IsVar(s) /\ ~IsVar(t)
                                       /\ ~SameCtor(s, t)

\* The classes below a class, and whether a class is below itself.
RECURSIVE Below(_, _)
Below(cls, cs) ==
    LET more == cs \union {cls[a] : a \in UNION {ToSet(t.as) : t \in {s \in DOMAIN cls : cls[s] \in cs}}}
    IN  IF more = cs THEN cs ELSE Below(cls, more)
Cyclic(cls) ==
    \E t \in DOMAIN cls : t.as # <<>> /\ cls[t] \in Below(cls, {cls[a] : a \in ToSet(t.as)})

\* The type that a type stands for, where no class is below itself.
RECURSIVE Solved(_, _)
Solved(cls, t) ==
    LET ctors == {s \in DOMAIN cls : cls[s] = cls[t] /\ ~IsVar(s)}
    IN  IF ctors = {} THEN TVar(CHOOSE n \in {s.n : s \in {x \in DOMAIN cls : cls[x] = cls[t]}} : TRUE)
        ELSE LET s == CHOOSE x \in ctors : TRUE
             IN  [s EXCEPT !.as = [i \in DOMAIN s.as |-> Solved(cls, s.as[i])]]

\* A type with its variables named in the order in which they are met.
RECURSIVE VarsInOrder(_)
VarsInOrder(t) ==
    IF IsVar(t) THEN <<t.n>> ELSE FoldLeft(LAMBDA acc, x : acc \o VarsInOrder(x), <<>>, t.as)
RECURSIVE Renamed(_, _)
Renamed(t, ns) ==
    IF IsVar(t) THEN TVar(SelectInSeq(ns, LAMBDA n : n = t.n))
    ELSE [t EXCEPT !.as = [i \in DOMAIN t.as |-> Renamed(t.as[i], ns)]]
Canonical(t) == Renamed(t, VarsInOrder(t))

\* The equations of an expression: TVar(k) is the type of its node k, and
\* Own(k, i) are types that the rule of the node k brings in.
Own(k, i) == TVar(100 * i + k)
RECURSIVE Equations(_, _, _)
Equations(e, env, k) ==
    LET at(i) == TVar(i)
        k1 == k + 1
        k2 == Second(e, k)
        k3 == Third(e, k)
    IN  CASE e[1] = "int"    -> {<<at(k), Prim(INT)>>}
          [] e[1] = "bool"   -> {<<at(k), Prim(BOOL)>>}
          [] e[1] = "var"    -> {<<at(k), env[e[2]]>>}
          [] e[1] = "let"    -> {<<at(k), at(k2)>>} \union Equations(e[3], env, k1)
                                    \union Equations(e[4], (e[2] :> at(k1)) @@ env, k2)
          [] e[1] = "letrec" -> LET f == Func(Own(k, 1), Own(k, 2))
                                    in == (e[2] :> f) @@ env
                                IN  {<<at(k1), f>>, <<at(k), at(k2)>>}
                                        \union Equations(e[3], in, k1) \union Equations(e[4], in, k2)
          [] e[1] = "fn"     -> {<<at(k), Func(Own(k, 1), at(k1))>>}
                                    \union Equations(e[3], (e[2] :> Own(k, 1)) @@ env, k1)
          [] e[1] = "app"    -> {<<at(k1), Func(at(k2), at(k))>>}
                                    \union Equations(e[2], env, k1) \union Equations(e[3], env, k2)
          [] e[1] = "assign" -> {<<at(k1), at(k2)>>, <<at(k), Prim(UNIT)>>}
                                    \union Equations(e[2], env, k1) \union Equations(e[3], env, k2)
          [] e[1] = "array"  -> {<<at(k1), Own(k, 1)>>, <<at(k2), Own(k, 1)>>, <<at(k), Array(Own(k, 1))>>}
                                    \union Equations(e[2], env, k1) \union Equations(e[3], env, k2)
          [] e[1] = "switch" -> {<<at(k1), Prim(INT)>>, <<at(k), at(k2)>>, <<at(k), at(k3)>>}
                                    \union Equations(e[2], env, k1) \union Equations(e[3], env, k2)
                                    \union Equations(e[4], env, k3)

(***************************************************************************)
(* Properties                                                              *)
(***************************************************************************)
CallClasses == Classes(unified, Types)

\* An infinite type below a type, by the equations.
SelfBelow(cls, t) ==
    \E s \in DOMAIN cls : /\ cls[s] \in Below(cls, {cls[t]}) /\ s.as # <<>>
                          /\ cls[s] \in Below(cls, {cls[a] : a \in ToSet(s.as)})

\* However calls of unify() and substitute() follow each other: while no type is
\* infinite, an error means that no types satisfy the equations, and otherwise two
\* types get the same substitution exactly if the equations make them equal - nothing
\* stale is answered from what an earlier call substituted, nothing is forgotten when
\* sets are joined, and no variable is bound without need.  An infinite type is
\* reported for a type exactly if it has one below itself.
UnifierSolves ==
    stage = "calls" =>
        LET cls == CallClasses
        IN  /\ ~Cyclic(cls) =>
                 /\ u.st = "clash" <=> Clash(cls)
                 /\ u.st \in {"ok", "clash"}
                 /\ u.st = "ok" => \A s, t \in Types :
                       substitute(u, s)[2] = substitute(u, t)[2] <=> cls[s] = cls[t]
            /\ u.st = "ok" =>
                 \A t \in Types : substitute(u, t)[1].st = "infinite" <=> SelfBelow(cls, t)

\* Inference ends with an error exactly if the typing rules cannot be met with
\* finite types, and otherwise every node has the most general type that they allow.
InferredIsPrincipal ==
    stage = "typed" =>
        LET nodes == {TVar(k) : k \in 1 .. Size(expr)}
            cls   == Classes(Equations(expr, <<>>, 1), nodes)
            all(tys) == Type("all", 0, [k \in 1 .. Size(expr) |-> tys[k]])
        IN  IF Clash(cls) \/ Cyclic(cls) THEN inf.u.st # "ok"
            ELSE /\ inf.u.st = "ok"
                 /\ Canonical(all(inf.tys)) = Canonical(all([k \in 1 .. Size(expr) |-> Solved(cls, TVar(k))]))
=============================================================================
