--------------------------- MODULE ClassInstances ---------------------------
(***************************************************************************)
(* Type classes (src/lib/hobbes/lang/preds/class.C): how an expression     *)
(* with a constraint finds the instance that it uses.  A definition is a   *)
(* ground instance, or a generator of instances with requirements, which   *)
(* makes a ground instance when it is first needed and keeps it.  While a  *)
(* constraint is being looked for it counts as satisfied, so that          *)
(* instances may need each other.                                          *)
(*                                                                         *)
(* A constraint is [cls, args].  What the classes hold is s:               *)
(*   db      for each class, the definition behind each ground instance    *)
(*   fns     for each class, its generators in the order of definition     *)
(*   tested  for each class, the constraints that are (TRUE) or were       *)
(*           (FALSE) being looked for: testedInstances                     *)
(*   satf    for each class, what is known of satisfiability               *)
(*   next    the next fresh type variable                                  *)
(*   thrown  an exception is on its way                                    *)
(* Members are left out; a class has one, so that bind() resolves the      *)
(* requirements of every instance that is made.  The expression found for  *)
(* a constraint is the number of the definition it comes from.             *)
(***************************************************************************)
EXTENDS TypeUnifier

CONSTANTS
    Programs,       \* [classes, defs, known, asks, types]: classes, definitions in order, how
                    \* many of them are there at first, the constraints asked about and the
                    \* types that these lead to
    MaxQuestions    \* bound on the number of questions

ASSUME QuestionAssumption == MaxQuestions \in Nat

VARIABLES
    program,        \* the program
    given,          \* how many definitions were made
    held,           \* what the classes hold
    answers         \* the questions and their answers: [cls, args, found, given]

classVars == <<program, given, held, answers>>

-----------------------------------------------------------------------------
FirstFresh  == 4                           \* definitions name their variables below
Def(i)      == program.defs[i]
Deps(k)     == program.classes[k].deps      \* <<<<from, to>>, ...>>
Requires(k) == program.classes[k].reqs      \* <<<<class, positions>>, ...>>
Numbers(n)    == [i \in 1 .. n |-> i]

varsOf(ts) == UNION {freeTVars(t) : t \in ToSet(ts)}
hasFreeVariables(ts) == varsOf(ts) # {}
varsOfDef(i) == varsOf(Def(i).head) \union UNION {varsOf(c.args) : c \in ToSet(Def(i).reqs)}

\* Types with the type f[v] for every variable v.
RECURSIVE Replaced(_, _)
Replaced(ts, f) == FoldLeft(LAMBDA acc, t : Append(acc, IF IsVar(t) THEN f[t.n] ELSE [t EXCEPT !.as = Replaced(@, f)]), <<>>, ts)

simplifyVarNames(ts) ==
    LET vs == SetToSortSeq(varsOf(ts), <)
    IN  Replaced(ts, [v \in varsOf(ts) |-> TVar(CHOOSE i \in DOMAIN vs : vs[i] = v)])

mguAll(u, ts, us) == FoldLeft(LAMBDA v, i : IF v.st = "ok" THEN unify(v, ts[i], us[i]) ELSE v, u, Numbers(Len(ts)))
unifiable(ts, us) == mguAll(NewUnifier, ts, us).st = "ok"

substituteAll(u, ts) ==
    FoldLeft(LAMBDA acc, t : LET r == substitute(acc[1], t) IN <<r[1], Append(acc[2], r[2])>>, <<u, <<>>>>, ts)

\* freshDef(): a generator with variables of its own.
OwnVars(s, i) == [v \in varsOfDef(i) |-> TVar(s.next + v)]
WithArgs(c, ts) == [cls |-> c.cls, args |-> ts]
Generator(i, f) ==
    [head |-> Replaced(Def(i).head, f),
     reqs |-> FoldLeft(LAMBDA acc, c : Append(acc, WithArgs(c, Replaced(c.args, f))), <<>>, Def(i).reqs)]
freshDef(s, i) == Generator(i, OwnVars(s, i))
Fresher(s) == [s EXCEPT !.next = @ + 3]

-----------------------------------------------------------------------------
\* Mutant: the last definition that fits comes first.
LastDefinedFirst(s, k, args) == SelectSeq(Reverse(s.fns[k]), LAMBDA i : unifiable(Def(i).head, args))

candidateTCInstFns(s, k, args) == SelectSeq(s.fns[k], LAMBDA i : unifiable(Def(i).head, args))

\* type_map::matches(): the ground instances that unify with the arguments.
GroundMatches(s, k, args) == {ts \in DOMAIN s.db[k] : unifiable(ts, args)}

Mark(s, k, args, b) == [s EXCEPT !.tested[k] = (args :> b) @@ @]

RECURSIVE matches(_, _, _, _), satisfied(_, _, _), refineAll(_, _, _)

\* A caller that gives no unifier to bind variables in has one that nothing comes of.
matchesOnly(s, k, args) == matches(s, k, args, NewUnifier)

\* TCInstance::bind() on a new instance: its requirements have to have one instance each.
OneMatch(m) == IF Cardinality(m.insts) = 1 THEN m.s ELSE [m.s EXCEPT !.thrown = TRUE]
bind(s, reqs) == FoldLeft(LAMBDA t, c : IF t.thrown THEN t ELSE OneMatch(matchesOnly(t, c.cls, c.args)), s, reqs)

\* TClass::insert(): the instance is there before it is bound, and stays if that fails.
insertInstance(s, k, args, i, reqs) == bind([s EXCEPT !.db[k] = (args :> i) @@ @], reqs)

\* TCInstanceFn::apply(): what the i-th definition makes for the arguments, if its
\* requirements are satisfied: a new instance, or one that was made while they were
\* looked for.  Then every variable that was bound on the way, of the arguments or of
\* the definition, is bound in the caller's unifier.  What is thrown before that is a no.
Outcome(s, out, args, reqs, u) == [s |-> s, out |-> out, args |-> args, reqs |-> reqs, u |-> u]
Refused(s, caller) == Outcome([s EXCEPT !.thrown = FALSE], "no", <<>>, <<>>, caller)
ThrownAfter(s, caller)  == Outcome([s EXCEPT !.thrown = TRUE], "no", <<>>, <<>>, caller)
AllSatisfied(s, reqs) ==
    FoldLeft(LAMBDA acc, c : IF acc.ok THEN satisfied(acc.s, c.cls, c.args) ELSE acc, [s |-> s, ok |-> ~s.thrown], reqs)
BindOne(caller, t, q) ==
    CASE q[1].st # "ok" -> [caller EXCEPT !.st = q[1].st]
      [] q[1].st = "ok" /\ q[2] = t -> caller
      [] OTHER -> unify(caller, t, q[2])
BindAll(caller, u) ==
    FoldLeft(LAMBDA acc, t : IF acc.st = "ok" THEN BindOne(acc, t, substitute(u, t)) ELSE acc, caller,
             SetToSortSeq({t \in DOMAIN u.nodes : IsVar(t)}, LAMBDA t, v : t.n < v.n))
MadeWith(s, k, ts, reqs, caller, u) ==
    IF u.st # "ok" THEN ThrownAfter(s, caller)
    ELSE Outcome(s, IF Cardinality(GroundMatches(s, k, ts)) = 1 THEN "made" ELSE "new", ts, reqs, u)
MadeFor(s, k, made, reqs, caller) ==
    CASE made[1].st # "ok" -> ThrownAfter(s, caller)
      [] made[1].st = "ok" /\ hasFreeVariables(made[2]) -> Refused(s, caller)
      [] OTHER -> MadeWith(s, k, made[2], reqs, caller, BindAll(caller, made[1]))
ApplySatisfied(q, k, head, r, caller) ==
    IF ~q.ok \/ q.s.thrown THEN Refused(q.s, caller) ELSE MadeFor(q.s, k, substituteAll(r.u, head), r.reqs, caller)
ApplyRefined(k, head, r, caller) == ApplySatisfied(AllSatisfied(r.s, r.reqs), k, head, r, caller)
ApplyUnified(s, k, d, u, caller) ==
    IF u.st # "ok" THEN Refused(s, caller) ELSE ApplyRefined(k, d.head, refineAll(s, u, d.reqs), caller)
ApplyFresh(s, k, args, d, caller) == ApplyUnified(Fresher(s), k, d, mguAll(NewUnifier, d.head, args), caller)
apply(s, i, k, args, caller) == ApplyFresh(s, k, args, freshDef(s, i), caller)

\* TClass::matches(): [s, insts, u], the arguments of the instances for a constraint and
\* the caller's unifier.
InstancesAnd(s, insts, u) == [s |-> s, insts |-> insts, u |-> u]
Taken(a, k, i) ==
    CASE a.out = "no"   -> InstancesAnd(a.s, {}, a.u)
      [] a.out = "made" -> InstancesAnd(a.s, {a.args}, a.u)
      [] a.out = "new"  -> InstancesAnd(insertInstance(a.s, k, a.args, i, a.reqs), {a.args}, a.u)
Tried(m, k, args) == IF m.s.thrown THEN [m EXCEPT !.insts = {}] ELSE [m EXCEPT !.s = Mark(@, k, args, FALSE)]
TryAll(s, k, args, u) ==
    FoldLeft(LAMBDA acc, i : IF acc.insts # {} \/ acc.s.thrown THEN acc ELSE Taken(apply(acc.s, i, k, args, acc.u), k, i),
             InstancesAnd(s, {}, u), candidateTCInstFns(s, k, args))
MatchesOr(s, k, args, u, ground) ==
    IF ground # {} THEN InstancesAnd(s, ground, u) ELSE Tried(TryAll(Mark(s, k, args, TRUE), k, args, u), k, args)
matches(s, k, args, u) == MatchesOr(s, k, args, u, GroundMatches(s, k, args))

\* TClass::satisfied(): [s, ok]
HasOne(m) == [s |-> m.s, ok |-> Cardinality(m.insts) = 1]
satisfied(s, k, args) ==
    CASE hasFreeVariables(args) -> [s |-> s, ok |-> FALSE]
      [] ~hasFreeVariables(args) /\ args \in DOMAIN s.tested[k] /\ s.tested[k][args] -> [s |-> s, ok |-> TRUE]
      [] OTHER -> HasOne(matchesOnly(s, k, args))

\* TClass::refine(): [s, u], where what the class requires and the dependencies of its
\* arguments have been applied to a constraint.  An argument that depends on others is
\* taken from the instance that they lead to, if there is just one.
Selected(ts, ps) == FoldLeft(LAMBDA acc, j : Append(acc, ts[j]), <<>>, ps)
TheOne(m) == CHOOSE ts \in m.insts : TRUE
Follows(m, to, j) ==
    [s |-> m.s, u |-> IF Cardinality(m.insts) = 1 THEN unify(m.u, to, TheOne(m)[j]) ELSE m.u]
DependOn(acc, k, ts, d) ==
    IF acc.s.thrown \/ acc.u.st # "ok" \/ hasFreeVariables(<<ts[d[1]]>>) \/ ~hasFreeVariables(<<ts[d[2]]>>) THEN acc
    ELSE Follows(matches(acc.s, k, ts, acc.u), ts[d[2]], d[2])
refineDeps(acc0, c) ==
    FoldLeft(LAMBDA acc, d : DependOn(acc, c.cls, substituteAll(acc.u, c.args)[2], d), acc0, Deps(c.cls))
RECURSIVE refine(_, _)
refine(acc0, c) ==
    refineDeps(FoldLeft(LAMBDA acc, q : refine(acc, [cls |-> q[1], args |-> Selected(c.args, q[2])]), acc0, Requires(c.cls)), c)

\* refine() of constraints, as long as one of them binds a variable; they are left with
\* what their variables stand for: [s, u, reqs].
Updated(u, cs) == FoldLeft(LAMBDA acc, c : Append(acc, WithArgs(c, substituteAll(u, c.args)[2])), <<>>, cs)
RefineAgain(r, u, cs) ==
    CASE r.u.st # "ok" -> [s |-> [r.s EXCEPT !.thrown = TRUE], u |-> r.u, reqs |-> cs]
      [] r.u.st = "ok" /\ (r.u.bcount = u.bcount \/ r.s.thrown) -> [s |-> r.s, u |-> r.u, reqs |-> Updated(r.u, cs)]
      [] OTHER -> refineAll(r.s, r.u, Updated(r.u, cs))
refineAll(s, u, cs) ==
    RefineAgain(FoldLeft(LAMBDA acc, c : refine(acc, c), [s |-> s, u |-> u], cs), u, cs)

-----------------------------------------------------------------------------
RECURSIVE satisfiable(_, _, _)

\* TCInstanceFn::satisfiable(): [s, ok]
AllSatisfiable(r) ==
    FoldLeft(LAMBDA acc, c : IF acc.ok THEN satisfiable(acc.s, c.cls, simplifyVarNames(c.args)) ELSE acc,
             [s |-> r.s, ok |-> ~r.s.thrown], r.reqs)
Unthrown(q) == [s |-> [q.s EXCEPT !.thrown = FALSE], ok |-> q.ok /\ ~q.s.thrown]
SatisfiableUnified(s, d, u) ==
    IF u.st # "ok" THEN [s |-> s, ok |-> FALSE] ELSE Unthrown(AllSatisfiable(refineAll(s, u, d.reqs)))
SatisfiableFresh(s, args, d) == SatisfiableUnified(Fresher(s), d, mguAll(NewUnifier, d.head, args))
fnSatisfiable(s, i, args) == SatisfiableFresh(s, args, freshDef(s, i))

\* TClass::satisfiable(): [s, ok].  A constraint counts as satisfiable until it is known
\* not to be, and what was once found of it is never asked again.
Known(s, k, args, b) == [s EXCEPT !.satf[k] = (args :> b) @@ @]
SomeSatisfiable(s, k, args) ==
    FoldLeft(LAMBDA acc, i : IF acc.ok THEN acc ELSE fnSatisfiable(acc.s, i, args), [s |-> s, ok |-> FALSE], s.fns[k])
OrKnownNot(q, k, args) == IF q.ok THEN q ELSE [s |-> Known(q.s, k, args, FALSE), ok |-> FALSE]
LookFor(s, k, args) ==
    IF GroundMatches(s, k, args) # {} THEN [s |-> s, ok |-> TRUE] ELSE OrKnownNot(SomeSatisfiable(s, k, args), k, args)
satisfiable(s, k, args) ==
    CASE DOMAIN s.db[k] = {} /\ s.fns[k] = <<>> -> [s |-> s, ok |-> TRUE]
      [] ~(DOMAIN s.db[k] = {} /\ s.fns[k] = <<>>) /\ args \in DOMAIN s.satf[k] -> [s |-> s, ok |-> s.satf[k][args]]
      [] OTHER -> LookFor(Known(s, k, args, TRUE), k, args)

-----------------------------------------------------------------------------
Empty(p) == LET none == [k \in DOMAIN p.classes |-> <<>>]
            IN  [db |-> none, fns |-> none, tested |-> none, satf |-> none, next |-> FirstFresh, thrown |-> FALSE]

\* compile(InstanceDef): a definition without variables and requirements is an instance.
IsGround(d) == d.reqs = <<>> /\ ~hasFreeVariables(d.head)

\* Mutant: with a new definition, what the generators made is made again.
MadeAnew(s, d, i) ==
    LET own(f) == [ts \in {ts \in DOMAIN f : IsGround(Def(f[ts]))} |-> f[ts]]
    IN  IF IsGround(d) THEN [s EXCEPT !.db = [k \in DOMAIN @ |-> IF k = d.cls THEN (d.head :> i) @@ own(@[k]) ELSE own(@[k])]]
        ELSE [s EXCEPT !.fns[d.cls] = Append(@, i)]

Defined(s, d, i) == IF IsGround(d) THEN [s EXCEPT !.db[d.cls] = (d.head :> i) @@ @]
                    ELSE [s EXCEPT !.fns[d.cls] = Append(@, i)]

ClassInit ==
    /\ program \in Programs
    /\ given = program.known
    /\ held = FoldLeft(LAMBDA s, i : Defined(s, program.defs[i], i), Empty(program), Numbers(program.known))
    /\ answers = <<>>

DefineInstance ==
    /\ given < Len(program.defs)
    /\ given' = given + 1
    /\ held' = Defined(held, Def(given + 1), given + 1)
    /\ UNCHANGED <<program, answers>>

\* Fresh names are never met again.
Forget(s) ==
    LET old(f) == [ts \in {ts \in DOMAIN f : \A v \in varsOf(ts) : v < FirstFresh} |-> f[ts]]
    IN  [s EXCEPT !.tested = [k \in DOMAIN @ |-> old(@[k])], !.satf = [k \in DOMAIN @ |-> old(@[k])],
                  !.next = FirstFresh, !.thrown = FALSE]

\* The type of an expression with the constraint c is refined, and its constraint is
\* resolved as unqualifyTypes() does: [s, args, found], where a constraint that is not
\* satisfied is left "open", and "refused" where the program ends.
Resolution(s, args, found) == [s |-> s, args |-> args, found |-> found]
Unqualified(m, args) == Resolution(m.s, args, IF Cardinality(m.insts) = 1 THEN "found" ELSE "error")
IfSatisfied(q, k, args) ==
    IF q.ok THEN Unqualified(matchesOnly(q.s, k, args), args) ELSE Resolution(q.s, args, IF q.s.thrown THEN "error" ELSE "open")
IfSatisfiable(q, k, args) ==
    IF q.ok THEN IfSatisfied(satisfied(q.s, k, args), k, args) ELSE Resolution(q.s, args, "refused")
IfRefined(s, k, args) ==
    IF s.thrown THEN Resolution(s, args, "error") ELSE IfSatisfiable(satisfiable(s, k, args), k, args)
Resolve(r, k) == IfRefined(r.s, k, r.reqs[1].args)
Resolved(s, c) == Resolve(refineAll(s, NewUnifier, <<c>>), c.cls)

Note(r, c) ==
    /\ held' = Forget(r.s)
    /\ answers' = Append(answers, [c |-> c, args |-> r.args, found |-> r.found, given |-> given,
                                   by |-> IF r.found = "found" THEN r.s.db[c.cls][r.args] ELSE 0])

Ask(c) ==
    /\ Len(answers) < MaxQuestions
    /\ Note(Resolved(held, c), c)
    /\ UNCHANGED <<program, given>>

ClassNext == DefineInstance \/ \E c \in program.asks : Ask(c)

(***************************************************************************)
(* What the definitions mean: the largest set of constraints each of which *)
(* has an instance, or a generator whose requirements are in the set.      *)
(***************************************************************************)
Universe == UNION {{[cls |-> k, args |-> ts] : ts \in [1 .. program.classes[k].arity -> program.types]} : k \in DOMAIN program.classes}

\* What the first n definitions could make, of what, by which of them.
Instances(n) ==
    UNION {{[made |-> [cls |-> Def(i).cls, args |-> Replaced(Def(i).head, f)], by |-> i,
             of   |-> {WithArgs(c, Replaced(c.args, f)) : c \in ToSet(Def(i).reqs)}] : f \in [varsOfDef(i) -> program.types]} : i \in 1 .. n}

Able(xs, cs) == {x \in xs : x.of \subseteq cs}
MadeBy(xs) == {x.made : x \in xs}

RECURSIVE Largest(_, _)
Largest(xs, cs) ==
    LET left == cs \intersect MadeBy(Able(xs, cs)) IN IF left = cs THEN cs ELSE Largest(xs, left)

\* The definition that a constraint is resolved with, when those in cs have instances.
Chosen(xs, c) ==
    LET by     == {x.by : x \in {y \in xs : y.made = c}}
        ground == {i \in by : IsGround(Def(i))}
    IN  IF ground # {} THEN CHOOSE i \in ground : \A j \in ground : j <= i
        ELSE CHOOSE i \in by : \A j \in by : i <= j

RECURSIVE NeededBy(_, _)
NeededBy(xs, cs) ==
    LET more == cs \union UNION {x.of : x \in {y \in xs : y.made \in cs}}
    IN  IF more = cs THEN cs ELSE NeededBy(xs, more)

\* A constraint that needs itself and has no instance: what was made for the others on
\* the way, while it counted as satisfied, stays.
FailingCircle(xs, cs) == \E x \in xs : x.made \in Universe \ cs /\ x.made \in NeededBy(xs, x.of)

(***************************************************************************)
(* Properties                                                              *)
(***************************************************************************)
\* However often and in whatever order constraints were asked for before: a constraint
\* gets the first definition whose requirements are met (a ground instance before any
\* generator), with the arguments that follow from the others, and is left or refused
\* only if it has none.  It is stated for questions that no definition came between,
\* and for definitions without a failing circle.
AnsweredAsDefined(q, xs, cs) ==
    LET fit == {c \in cs : c.cls = q.c.cls /\ unifiable(c.args, q.c.args)}
    IN  FailingCircle(xs, cs) \/
        CASE q.found = "found" -> LET c == [cls |-> q.c.cls, args |-> q.args]
                                  IN  c \in fit /\ q.by = Chosen(Able(xs, cs), c)
          [] q.found = "error" -> FALSE
          [] OTHER             -> Cardinality(fit) # 1
AnswersAsDefined ==
    (answers # <<>> /\ answers[1].given = Last(answers).given) =>
        LET xs == Instances(Last(answers).given)
        IN  AnsweredAsDefined(Last(answers), xs, Largest(xs, Universe))

\* A constraint that was resolved once is resolved in the same way ever after, whatever
\* is asked and defined in between, short of an instance for it alone: two parts of a
\* program do not get different instances.
AnswersAgree ==
    \A i, j \in DOMAIN answers :
        LET p == answers[i]
            q == answers[j]
        IN  (i < j /\ p.c = q.c /\ p.found = "found" /\ q.found = "found") =>
                \/ q.args = p.args /\ q.by = p.by
                \/ q.by > p.given /\ IsGround(Def(q.by))
=============================================================================
