---------------------------- MODULE TypeUnifier ----------------------------
(***************************************************************************)
(* MonoTypeUnifier (src/lib/hobbes/lang/typeinf.C) over the equivalence    *)
(* mapping of src/include/hobbes/util/unionfind.H: sets of types that are  *)
(* equal, each with its most defined member, which substitute() replaces   *)
(* by what it stands for and remembers while the number of bindings stays. *)
(*                                                                         *)
(* A type is [c, n, as]: its constructor, a name (of a variable, of a      *)
(* primitive, of the bound variable of a recursive type) and its arguments *)
(* (the generic form that typeCtorForm() computes).  Types are hash-consed *)
(* in the code, so equality of pointers is equality of types.  The path    *)
(* compression of findRepresentative() changes no answer and is left out.  *)
(* A unifier is [nodes, bcount, suppressed, st]; st is "ok" or the error   *)
(* that was thrown, and "endless" where the recursion went deeper than     *)
(* Fuel, which no two of the finite types here need.                       *)
(***************************************************************************)
EXTENDS Naturals, Sequences, FiniteSets, SequencesExt, TLC

Type(c, n, as) == [c |-> c, n |-> n, as |-> as]
TVar(n)        == Type("var", n, <<>>)
Prim(n)        == Type("prim", n, <<>>)
Array(t)       == Type("array", 0, <<t>>)
Func(t, u)     == Type("->", 0, <<t, u>>)
Recursive(n, t) == Type("recur", n, <<t>>)

\* Names of primitives
INT  == 1
BOOL == 2
UNIT == 3

IsVar(t) == t.c = "var"

\* typeCtorForm() of both: the name that a recursive type binds is no part of it, and the
\* labels of a record or a variant are (its members are types with the label for a name).
SameCtor(l, r) ==
    /\ l.c = r.c /\ Len(l.as) = Len(r.as)
    /\ l.c # "recur" => l.n = r.n
    /\ l.c \in {"record", "variant"} => \A i \in DOMAIN l.as : l.as[i].n = r.as[i].n

RECURSIVE freeTVars(_)
freeTVars(t) ==
    IF IsVar(t) THEN {t.n}
    ELSE UNION {freeTVars(t.as[i]) : i \in DOMAIN t.as} \ (IF t.c = "recur" THEN {t.n} ELSE {})

isMonoSingular(t) == freeTVars(t) = {}

\* Mutant: of two types the one on the left counts, even if it is a variable.
LeftIsMoreDefined(l, r) == l

\* Which of two descriptions of a set says more.
MoreDefinedType(l, r) ==
    CASE IsVar(l.ty) /\ IsVar(r.ty)   -> IF l.ty.n < r.ty.n THEN l ELSE r
      [] IsVar(l.ty) /\ ~IsVar(r.ty)  -> r
      [] ~IsVar(l.ty) /\ IsVar(r.ty)  -> l
      [] OTHER -> IF Cardinality(freeTVars(l.ty)) < Cardinality(freeTVars(r.ty)) THEN l ELSE r

(***************************************************************************)
(* equivalence_mapping: a node has its representative, a rank and a value. *)
(***************************************************************************)
NewUnifier == [nodes |-> <<>>, bcount |-> 0, suppressed |-> <<>>, st |-> "ok"]

LiftUType(t) == [ty |-> t, visited |-> FALSE, donebc |-> 0]

\* findNode(): a type that is not known yet becomes a set of its own.
WithNode(u, k) ==
    IF k \in DOMAIN u.nodes THEN u
    ELSE [u EXCEPT !.nodes = (k :> [rep |-> k, rank |-> 0, value |-> LiftUType(k)]) @@ @]

RECURSIVE findRepresentative(_, _)
findRepresentative(u, k) == IF u.nodes[k].rep = k THEN k ELSE findRepresentative(u, u.nodes[k].rep)

\* find(k).ty, for a type that has a node
Found(u, k) == u.nodes[findRepresentative(u, k)].value

\* The set of a goes under that of b.
Under(u, a, b) == [u EXCEPT !.nodes[a].rep = b,
                            !.nodes[b].value = MoreDefinedType(@, u.nodes[a].value)]
joinSets(u, l, r) ==
    CASE u.nodes[l].rank < u.nodes[r].rank -> Under(u, l, r)
      [] u.nodes[l].rank > u.nodes[r].rank -> Under(u, r, l)
      [] l = r -> u
      [] OTHER -> [Under(u, r, l) EXCEPT !.nodes[l].rank = @ + 1]
joinFound(u, k0, k1) == joinSets(u, findRepresentative(u, k0), findRepresentative(u, k1))
join(u, k0, k1) == joinFound(WithNode(WithNode(u, k0), k1), k0, k1)

(***************************************************************************)
(* unify()                                                                 *)
(***************************************************************************)
Fuel == 6

suppressed(u, t) == IsVar(t) /\ t.n \in ToSet(u.suppressed)

\* The names bound by the types whose arguments are compared, for as long as they are.
suppress(u, l, r)   == [u EXCEPT !.suppressed = (IF l.c = "recur" THEN <<l.n, r.n>> ELSE <<>>) \o @]
unsuppress(u, l, r) == [u EXCEPT !.suppressed = IF l.c = "recur" THEN SubSeq(@, 3, Len(@)) ELSE @]

\* lhsv and rhsv are references into two nodes: they are read again for join().
RECURSIVE unifyWithin(_, _, _, _)
unifyArgs(u, lv, rv, fuel) ==
    unsuppress(FoldLeft(LAMBDA v, i : unifyWithin(v, lv.as[i], rv.as[i], fuel), suppress(u, lv, rv),
                        [i \in DOMAIN lv.as |-> i]), lv, rv)
unifySets(u, L, R, lv, rv, fuel) ==
    CASE lv = rv -> u
      [] lv # rv /\ (IsVar(lv) \/ IsVar(rv)) -> join([u EXCEPT !.bcount = @ + 1], lv, rv)
      [] OTHER ->
         IF ~SameCtor(lv, rv) THEN [u EXCEPT !.st = "clash"]
         ELSE IF fuel = 0 THEN [u EXCEPT !.st = "endless"]
         ELSE LET done == unifyArgs(u, lv, rv, fuel - 1)
              IN  IF done.st = "ok" THEN join(done, done.nodes[L].value.ty, done.nodes[R].value.ty) ELSE done
unifyFound(u, L, R, fuel) == unifySets(u, L, R, u.nodes[L].value.ty, u.nodes[R].value.ty, fuel)
unifyNodes(u, lhs, rhs, fuel) == unifyFound(u, findRepresentative(u, lhs), findRepresentative(u, rhs), fuel)
unifyWithin(u, lhs, rhs, fuel) ==
    IF u.st # "ok" \/ suppressed(u, lhs) \/ suppressed(u, rhs) THEN u
    ELSE unifyNodes(WithNode(WithNode(u, lhs), rhs), lhs, rhs, fuel)

unify(u, lhs, rhs) == unifyWithin(u, lhs, rhs, Fuel)

(***************************************************************************)
(* substitute(): <<the unifier, the type>>.  What a set stands for is kept *)
(* in its value; a set met again below itself is an infinite type.         *)
(***************************************************************************)
\* Mutant: what was substituted once is never looked at again.
CachedForGood(u, val) == val.donebc > 0

\* What was substituted is right for as long as nothing was bound.
Cached(u, val) == val.donebc > 0 /\ val.donebc = u.bcount

RECURSIVE substitute(_, _)
SetValue(u, N, ty) == <<[u EXCEPT !.nodes[N].value = [ty |-> ty, visited |-> FALSE, donebc |-> u.bcount]], ty>>
SubstArg(acc, s) == <<s[1], Append(acc[2], s[2])>>
SetParts(into, N, ty) == IF into[1].st = "ok" THEN SetValue(into[1], N, [ty EXCEPT !.as = into[2]]) ELSE <<into[1], ty>>
substituteNode(u, N, t, val) ==
    CASE Cached(u, val) -> <<u, val.ty>>
      [] ~Cached(u, val) /\ val.visited -> <<[u EXCEPT !.st = "infinite"], t>>
      [] ~Cached(u, val) /\ ~val.visited /\ IsVar(val.ty) ->
            SetValue(WithNode(u, val.ty), N, Found(WithNode(u, val.ty), val.ty).ty)
      [] OTHER -> SetParts(FoldLeft(LAMBDA acc, a : SubstArg(acc, substitute(acc[1], a)),
                                    <<[u EXCEPT !.nodes[N].value.visited = TRUE], <<>>>>, val.ty.as), N, val.ty)
substituteFound(u, N, t) == substituteNode(u, N, t, u.nodes[N].value)
substituteIn(u, t) == substituteFound(u, findRepresentative(u, t), t)
substitute(u, t) == IF u.st # "ok" \/ isMonoSingular(t) THEN <<u, t>> ELSE substituteIn(WithNode(u, t), t)
=============================================================================
