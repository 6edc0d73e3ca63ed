--------------------------- MODULE TypePredicates ---------------------------
(***************************************************************************)
(* The predicates on types that the compiler knows (src/lib/hobbes/lang/   *)
(* preds): a record is a head and a tail, a variant is a constructor and   *)
(* the others, a record is two records in a row, a type has a field or a   *)
(* constructor, two types are equal or are not, a type has a size, is made *)
(* of certain parts, or is a recursive type unrolled.  The constraints of  *)
(* an expression are refined in turn, each binding what follows from what  *)
(* is known, until a pass over them binds nothing; then each of them is    *)
(* satisfied, or still satisfiable, or the program is refused.             *)
(*                                                                         *)
(* A constraint is [p, args].  Offsets and tags follow from the members    *)
(* of a type (TypeLayout) and are left out.  Of the ways to have a field   *)
(* the one of records is here.                                             *)
(***************************************************************************)
EXTENDS TypeLayout

CONSTANT Constraints    \* [cs, types]: constraints, and the types that variables may stand for

\* asked: the constraints.  preds: what they are now.  pu: the unifier of the
\* expression.  turn: the constraint to refine next, Len(preds) + 1 at the end
\* of a pass.  upd: refine() of one in this pass said that it bound something,
\* "done" when none did.
VARIABLES asked, preds, pu, turn, upd

predVars == <<asked, preds, pu, turn, upd>>

TString(n) == Type("string", n, <<>>)
TLong(n) == Type("long", n, <<>>)
Pred(p, ts) == [p |-> p, args |-> ts]
ARRAY == 1
FUNC  == 2
RECUR == 3

IsRecord(t)  == t.c = "record"
IsVariant(t) == t.c = "variant"
IsTString(t)    == t.c = "string"
IsUnit(t)    == t = Prim(UNIT)
HasVars(t)   == ~isMonoSingular(t)

\* A type of members, which is unit or void without a visible one.
TypeOf(k, ms) == FoldLeft(LAMBDA acc, m : Append(acc, MemberOf(m.label, m.ty)), <<>>, ms)
MakeRecord(ms)  == RecordOf(TypeOf("record", ms))
MakeVariant(ms) == VariantOf(TypeOf("variant", ms))
Tuple(ts)       == RecordOf([i \in DOMAIN ts |-> MemberOf(Nth(i - 1), ts[i])])
Members(t)      == IF IsUnit(t) THEN <<>> ELSE Written(t)
Constructors(t) == IF t = Prim(VOID) THEN <<>> ELSE Written(t)
IsTuple(t)      == isTuple(Written(t))

HeadAmong(ms) == ms[nextVisibleMember(ms)]
HeadOf(t)     == HeadAmong(Written(t))
RecordOrUnit(ms)  == IF AnyVisible(ms) THEN MakeRecord(ms) ELSE Prim(UNIT)
VariantOrVoid(ms) == IF AnyVisible(ms) THEN MakeVariant(ms) ELSE Prim(VOID)
TailOf(t) == RecordOrUnit(tailRecordMembers(IsTuple(t), Written(t), nextVisibleMember(Written(t))))
RestOf(t) == VariantOrVoid(tailVariantMembers(Written(t), nextVisibleMember(Written(t))))
Renumbered(tup, ms) == IF tup THEN normalizeTupleFields(ms) ELSE ms
Consed(tup, l, h, t) == MakeRecord(Renumbered(tup, consRecordMember(l, h, Members(t), findHiddenMember(l, Members(t)))))
Added(l, h, ms)      == MakeVariant(consVariantMember(l, h, ms, findHiddenMember(l, ms)))
Visible(ms)          == SelectSeq(ms, LAMBDA m : ~IsHidden(m.label))
stripHiddenFields(t) == IF IsRecord(t) THEN MakeRecord(Visible(Written(t))) ELSE t
normalizeCtorIDs(t)  == IF IsVariant(t) THEN MakeVariant(Visible(Written(t))) ELSE t

\* mgu() after mgu(): one that throws is the last.
AndThen(un, t, s) == IF un.st = "ok" THEN unify(un, t, s) ELSE un
Bound(un, vn) == vn.bcount # un.bcount
Solvable(un, t) == un.st = "ok" /\ substitute(un, t)[1].st = "ok"
Unifiable(t, s) == t = s \/ Solvable(unify(NewUnifier, t, s), t)

-----------------------------------------------------------------------------
\* RecordDeconstructor: <<forward, as a tuple, record, name, head, tail>>
Forward(c) == c.args[1].n # 0
AsTuple(c) == c.args[2].n # 0
isRecordLike(t) == IsRecord(t) \/ IsUnit(t)
SplitsInto(un, m, n, h) == AndThen(unify(un, TString(m.label), n), m.ty, h)
refineConsRecord(un, c) ==
    LET r == c.args[3]
        n == c.args[4]
        h == c.args[5]
        t == c.args[6]
    IN  CASE IsRecord(r) -> AndThen(SplitsInto(un, HeadOf(r), n, h), IF Forward(c) THEN TailOf(r) ELSE stripHiddenFields(TailOf(r)),
                                    IF Forward(c) THEN t ELSE stripHiddenFields(t))
          [] ~IsRecord(r) /\ isRecordLike(t) /\ AsTuple(c) -> AndThen(unify(un, n, TString(Nth(0))), r, Consed(TRUE, Nth(0), h, t))
          [] ~IsRecord(r) /\ isRecordLike(t) /\ ~AsTuple(c) /\ IsTString(n) -> unify(un, r, Consed(FALSE, n.n, h, t))
          [] OTHER -> un
satisfiedConsRecord(c) ==
    LET r == c.args[3]
        n == c.args[4]
        h == c.args[5]
        t == c.args[6]
    IN  /\ IsTString(n) /\ IsRecord(r) /\ AsTuple(c) = IsTuple(r)
        /\ \/ IsRecord(t) /\ r = Consed(AsTuple(c), n.n, h, t)
           \/ IsUnit(t) /\ (AsTuple(c) \/ HeadOf(r).label = n.n) /\ HeadOf(r).ty = h
satisfiableConsRecord(c) ==
    \/ satisfiedConsRecord(c) \/ IsVar(c.args[3]) \/ IsVar(c.args[4])
    \/ IsRecord(c.args[3]) /\ (IsVar(c.args[5]) \/ IsVar(c.args[6]))

\* VariantDeconstructor: <<forward, variant, name, head, rest>>.  It says that nothing was
\* bound when the variant is made from its parts.
refineConsVariant(un, c) ==
    LET v == c.args[2]
        n == c.args[3]
        h == c.args[4]
        t == c.args[5]
    IN  CASE IsVariant(v) -> AndThen(SplitsInto(un, HeadOf(v), n, h), IF Forward(c) THEN RestOf(v) ELSE normalizeCtorIDs(RestOf(v)),
                                     IF Forward(c) THEN t ELSE normalizeCtorIDs(t))
          [] ~IsVariant(v) /\ IsTString(n) /\ (t = Prim(VOID) \/ IsVariant(t)) -> unify(un, v, Added(n.n, h, Constructors(t)))
          [] OTHER -> un
satisfiedConsVariant(c) ==
    /\ IsVariant(c.args[2])
    /\ c.args[3] = TString(HeadOf(c.args[2]).label)
    /\ c.args[4] = HeadOf(c.args[2]).ty
    /\ normalizeCtorIDs(c.args[5]) = normalizeCtorIDs(RestOf(c.args[2]))
satisfiableConsVariant(c) ==
    \/ satisfiedConsVariant(c) \/ IsVar(c.args[2])
    \/ IsVariant(c.args[2]) /\ \E i \in 3 .. 5 : IsVar(c.args[i])

\* ATRecordEliminator: <<left, right, result>>.  What it throws is swallowed; the unifier
\* keeps what was bound until then.
tupleNormalize(ms) ==
    IF ms # <<>> /\ IsNth(ms[1].label) THEN FoldLeft(LAMBDA acc, m : Append(acc, [m EXCEPT !.label = Nth(Len(acc))]), <<>>, ms) ELSE ms
\* Mutant: the fields of a tuple keep the names they had.
NamesKept(ms) == IF ms = <<>> THEN Prim(UNIT) ELSE MakeRecord(ms)

makeRecordType(ms) == IF ms = <<>> THEN Prim(UNIT) ELSE MakeRecord(tupleNormalize(ms))
joinedRecord(l, r) == makeRecordType(Members(l) \o Members(r))
equivalent(m, k) == ((IsNth(m.label) /\ IsNth(k.label)) \/ m.label = k.label) /\ Unifiable(m.ty, k.ty)
AlikeFrom(ms, all, d) == Len(ms) <= Len(all) /\ \A i \in DOMAIN ms : equivalent(ms[i], all[d + i])
recordSuffix(ms, all) == makeRecordType(SubSeq(all, Len(ms) + 1, Len(all)))
recordPrefix(ms, all) == makeRecordType(SubSeq(all, 1, Len(all) - Len(ms)))

Thrown(un) == [un EXCEPT !.st = "clash"]
Joins(un, l, r, res) == IF isRecordLike(l) /\ isRecordLike(r) THEN AndThen(un, joinedRecord(l, r), res) ELSE un
SuffixFollows(un, l, r, res) ==
    CASE un.st # "ok" \/ ~isRecordLike(l) \/ ~isRecordLike(res) -> un
      [] OTHER -> IF AlikeFrom(Members(l), Members(res), 0) THEN unify(un, recordSuffix(Members(l), Members(res)), r) ELSE Thrown(un)
PrefixFollows(un, l, r, res) ==
    CASE un.st # "ok" \/ ~isRecordLike(r) \/ ~isRecordLike(res) -> un
      [] OTHER -> IF AlikeFrom(Members(r), Members(res), Len(Members(res)) - Len(Members(r)))
                  THEN unify(un, recordPrefix(Members(r), Members(res)), l) ELSE Thrown(un)
tryRefine(un, c) ==
    IF \E i \in 1 .. 3 : ~isRecordLike(c.args[i]) /\ ~IsVar(c.args[i]) THEN Thrown(un)
    ELSE PrefixFollows(SuffixFollows(Joins(un, c.args[1], c.args[2], c.args[3]), c.args[1], c.args[2], c.args[3]), c.args[1], c.args[2], c.args[3])
satisfiableAppendsTo(c) == tryRefine(NewUnifier, c).st = "ok"
refineAppendsTo(un, c)  == IF satisfiableAppendsTo(c) THEN [tryRefine(un, c) EXCEPT !.st = "ok"] ELSE un
satisfiedAppendsTo(c) ==
    /\ satisfiableAppendsTo(c)
    /\ \A i \in 1 .. 3 : isRecordLike(c.args[i])
    /\ c.args[3] = joinedRecord(c.args[1], c.args[2])

\* HFRecordEliminator: <<record, name, type>>; what it throws is swallowed.
FieldOf(t, n) == {m \in ToSet(Written(t)) : m.label = IF n.c = "long" THEN Nth(n.n) ELSE n.n}
IsFieldName(n) == n.c \in {"string", "long"}
Find(ms) == CHOOSE m \in ms : TRUE
satisfiedHasField(c) ==
    /\ IsRecord(c.args[1]) /\ IsFieldName(c.args[2]) /\ FieldOf(c.args[1], c.args[2]) # {}
    /\ Unifiable(Find(FieldOf(c.args[1], c.args[2])).ty, c.args[3])
satisfiableHasField(c) ==
    CASE IsRecord(c.args[1]) /\ IsFieldName(c.args[2]) ->
            /\ FieldOf(c.args[1], c.args[2]) # {}
            /\ IsVar(c.args[3]) \/ IsVar(Find(FieldOf(c.args[1], c.args[2])).ty) \/ satisfiedHasField(c)
      [] IsRecord(c.args[1]) /\ ~IsFieldName(c.args[2]) -> IsVar(c.args[2])
      [] OTHER -> IsVar(c.args[1])
refineHasField(un, c) ==
    IF satisfiableHasField(c) /\ IsRecord(c.args[1]) /\ IsFieldName(c.args[2])
    THEN [unify(un, c.args[3], Find(FieldOf(c.args[1], c.args[2])).ty) EXCEPT !.st = "ok"] ELSE un

\* HCVariantEliminator: <<variant, name, type>>
CtorOf(t, n) == {m \in ToSet(Written(t)) : m.label = n.n}
satisfiedHasCtor(c) ==
    /\ IsVariant(c.args[1]) /\ IsTString(c.args[2]) /\ CtorOf(c.args[1], c.args[2]) # {}
    /\ Find(CtorOf(c.args[1], c.args[2])).ty = c.args[3]
satisfiableHasCtor(c) ==
    CASE IsVariant(c.args[1]) /\ IsTString(c.args[2]) ->
            CtorOf(c.args[1], c.args[2]) # {} /\ Unifiable(Find(CtorOf(c.args[1], c.args[2])).ty, c.args[3])
      [] IsVariant(c.args[1]) /\ ~IsTString(c.args[2]) -> IsVar(c.args[2])
      [] OTHER -> IsVar(c.args[1])
refineHasCtor(un, c) ==
    IF satisfiableHasCtor(c) /\ IsVariant(c.args[1]) /\ IsTString(c.args[2])
    THEN unify(un, c.args[3], Find(CtorOf(c.args[1], c.args[2])).ty) ELSE un

\* EqualTypes and NotEqualTypes: <<left, right>>; they bind nothing.
satisfiableNotEqual(c) == HasVars(c.args[1]) \/ HasVars(c.args[2]) \/ c.args[1] # c.args[2]
satisfiedNotEqual(c)   == ~HasVars(c.args[1]) /\ ~HasVars(c.args[2]) /\ c.args[1] # c.args[2]

\* SizeOfP: <<type, size>>
refineSizeOf(un, c)  == IF HasVars(c.args[1]) THEN un ELSE unify(un, c.args[2], TLong(sizeOf(c.args[1])))
satisfiedSizeOf(c)   == ~HasVars(c.args[1]) /\ c.args[2] = TLong(sizeOf(c.args[1]))
satisfiableSizeOf(c) == HasVars(c.args[1]) \/ satisfiedSizeOf(c)

\* DeconstructP: <<type, its parts>>.  A function of one parameter has a tuple of one.
OneParameter(t) == IF IsRecord(t) /\ IsTuple(t) /\ Len(t.as) = 1 THEN t.as[1].as[1] ELSE t
asDestruct(t) ==
    CASE t.c = "array" -> {Tuple(<<TString(ARRAY), t.as[1]>>)}
      [] t.c = "->"    -> {Tuple(<<TString(FUNC), OneParameter(t.as[1]), t.as[2]>>)}
      [] t.c = "recur" -> {Tuple(<<TString(RECUR), t>>)}
      [] OTHER -> {}
Parameters(t) == IF IsRecord(t) /\ IsTuple(t) THEN t ELSE Tuple(<<t>>)
Restruct(n, ts) ==
    CASE n = TString(FUNC)  /\ Len(ts) = 3 -> {Func(Parameters(ts[2].as[1]), ts[3].as[1])}
      [] n = TString(ARRAY) /\ Len(ts) = 2 -> {Array(ts[2].as[1])}
      [] n = TString(RECUR) /\ Len(ts) = 2 -> {ts[2].as[1]}
      [] OTHER -> {}
asRestruct(t) == IF IsRecord(t) /\ IsTuple(t) THEN Restruct(t.as[1].as[1], t.as) ELSE {}
refineDeconstruct(un, c) ==
    CASE asDestruct(c.args[1]) # {} -> unify(un, Find(asDestruct(c.args[1])), c.args[2])
      [] asDestruct(c.args[1]) = {} /\ asRestruct(c.args[2]) # {} -> unify(un, Find(asRestruct(c.args[2])), c.args[1])
      [] OTHER -> un
satisfiedDeconstruct(c)   == asDestruct(c.args[1]) = {c.args[2]} /\ asRestruct(c.args[2]) = {c.args[1]}
satisfiableDeconstruct(c) == IsVar(c.args[1]) \/ IsVar(c.args[2]) \/ satisfiedDeconstruct(c)

\* FixIsoRecur: <<rolled, unrolled>>
RECURSIVE Stepped(_, _, _)
Stepped(t, n, by) ==
    CASE IsVar(t) -> IF t.n = n THEN by ELSE t
      [] t.c = "recur" /\ t.n = n -> t
      [] OTHER -> [t EXCEPT !.as = FoldLeft(LAMBDA acc, s : Append(acc, Stepped(s, n, by)), <<>>, @)]
unroll(t) == Stepped(t.as[1], t.n, t)
refineIsoRecur(un, c)  == IF c.args[1].c = "recur" THEN unify(un, unroll(c.args[1]), c.args[2]) ELSE un
satisfiedIsoRecur(c)   == c.args[1].c = "recur" /\ unroll(c.args[1]) = c.args[2]
satisfiableIsoRecur(c) ==
    IsVar(c.args[1]) \/ (c.args[1].c = "recur" /\ (IsVar(c.args[2]) \/ Unifiable(unroll(c.args[1]), c.args[2])))

-----------------------------------------------------------------------------
\* UnqualifierSet: each predicate has its solver.
refinePred(un, c) ==
    CASE c.p = "ConsRecord"  -> refineConsRecord(un, c)
      [] c.p = "ConsVariant" -> refineConsVariant(un, c)
      [] c.p = "AppendsTo"   -> refineAppendsTo(un, c)
      [] c.p = "HasField"    -> refineHasField(un, c)
      [] c.p = "HasCtor"     -> refineHasCtor(un, c)
      [] c.p = "SizeOf"      -> refineSizeOf(un, c)
      [] c.p = "Deconstruct" -> refineDeconstruct(un, c)
      [] c.p = "IsoRecur"    -> refineIsoRecur(un, c)
      [] OTHER -> un
satisfiedPred(c) ==
    CASE c.p = "ConsRecord"  -> satisfiedConsRecord(c)
      [] c.p = "ConsVariant" -> satisfiedConsVariant(c)
      [] c.p = "AppendsTo"   -> satisfiedAppendsTo(c)
      [] c.p = "HasField"    -> satisfiedHasField(c)
      [] c.p = "HasCtor"     -> satisfiedHasCtor(c)
      [] c.p = "SizeOf"      -> satisfiedSizeOf(c)
      [] c.p = "Deconstruct" -> satisfiedDeconstruct(c)
      [] c.p = "IsoRecur"    -> satisfiedIsoRecur(c)
      [] c.p = "equals"      -> c.args[1] = c.args[2]
      [] c.p = "!equals"     -> satisfiedNotEqual(c)
satisfiablePred(c) ==
    CASE c.p = "ConsRecord"  -> satisfiableConsRecord(c)
      [] c.p = "ConsVariant" -> satisfiableConsVariant(c)
      [] c.p = "AppendsTo"   -> satisfiableAppendsTo(c)
      [] c.p = "HasField"    -> satisfiableHasField(c)
      [] c.p = "HasCtor"     -> satisfiableHasCtor(c)
      [] c.p = "SizeOf"      -> satisfiableSizeOf(c)
      [] c.p = "Deconstruct" -> satisfiableDeconstruct(c)
      [] c.p = "IsoRecur"    -> satisfiableIsoRecur(c)
      [] c.p = "equals"      -> Unifiable(c.args[1], c.args[2])
      [] c.p = "!equals"     -> satisfiableNotEqual(c)

Says(c, un, vn) ==
    Bound(un, vn) /\ (c.p = "ConsVariant" => IsVariant(c.args[2]))

SubstituteAll(un, ts) == FoldLeft(LAMBDA acc, t : LET r == substitute(acc[1], t) IN <<r[1], Append(acc[2], r[2])>>, <<un, <<>>>>, ts)

PredInit ==
    /\ asked \in Constraints
    /\ preds = asked.cs
    /\ pu = NewUnifier
    /\ turn = 1
    /\ upd = "no"

\* refine(): the constraint is written with what is known, refined, and written again if
\* that bound something.
Refined(c, before, after) ==
    LET known == SubstituteAll(after, c.args)
        says  == Says(c, before, after)
    IN  /\ pu' = IF after.st = "ok" /\ says THEN known[1] ELSE after
        /\ preds' = [preds EXCEPT ![turn].args = IF after.st = "ok" /\ says THEN known[2] ELSE c.args]
        /\ upd' = IF says THEN "yes" ELSE upd
Wrote(r) == Refined([preds[turn] EXCEPT !.args = r[2]], r[1], IF r[1].st = "ok" THEN refinePred(r[1], [preds[turn] EXCEPT !.args = r[2]]) ELSE r[1])
RefineConstraint ==
    /\ pu.st = "ok" /\ turn \in DOMAIN preds
    /\ Wrote(SubstituteAll(pu, preds[turn].args))
    /\ turn' = turn + 1
    /\ UNCHANGED asked

EndPass ==
    /\ pu.st = "ok" /\ turn > Len(preds) /\ upd # "done"
    /\ turn' = IF upd = "yes" THEN 1 ELSE turn
    /\ upd' = IF upd = "yes" THEN "no" ELSE "done"
    /\ UNCHANGED <<asked, preds, pu>>

PredNext == RefineConstraint \/ EndPass

(***************************************************************************)
(* What the predicates mean, of types without variables.                   *)
(***************************************************************************)
SameFields(ms, ks) ==
    /\ Len(ms) = Len(ks)
    /\ \A i \in DOMAIN ms : ms[i].ty = ks[i].ty /\ (ms[i].label = ks[i].label \/ (IsNth(ms[i].label) /\ IsNth(ks[i].label)))
IsConsRecord(c) ==
    LET r == c.args[3]
        n == c.args[4]
        h == c.args[5]
        t == c.args[6]
    IN  /\ IsRecord(r) /\ AsTuple(c) = IsTuple(r) /\ n = TString(HeadOf(r).label) /\ h = HeadOf(r).ty
        /\ IF Forward(c) THEN t = TailOf(r)
           ELSE isRecordLike(t) /\ SameFields(Tail(Visible(Members(r))), Visible(Members(t)))
IsConsVariant(c) ==
    LET v == c.args[2]
    IN  /\ IsVariant(v) /\ c.args[3] = TString(HeadOf(v).label) /\ c.args[4] = HeadOf(v).ty
        /\ IF Forward(c) THEN c.args[5] = RestOf(v) ELSE normalizeCtorIDs(c.args[5]) = normalizeCtorIDs(RestOf(v))
Holds(c) ==
    CASE c.p = "ConsRecord"  -> IsConsRecord(c)
      [] c.p = "ConsVariant" -> IsConsVariant(c)
      [] c.p = "AppendsTo"   -> /\ \A i \in 1 .. 3 : isRecordLike(c.args[i])
                                /\ SameFields(Members(c.args[1]) \o Members(c.args[2]), Members(c.args[3]))
      [] c.p = "HasField"    -> IsRecord(c.args[1]) /\ IsFieldName(c.args[2]) /\ \E m \in FieldOf(c.args[1], c.args[2]) : m.ty = c.args[3]
      [] c.p = "HasCtor"     -> IsVariant(c.args[1]) /\ IsTString(c.args[2]) /\ \E m \in CtorOf(c.args[1], c.args[2]) : m.ty = c.args[3]
      [] c.p = "SizeOf"      -> c.args[2] = TLong(sizeOf(c.args[1]))
      [] c.p = "Deconstruct" -> c.args[2] \in asDestruct(c.args[1]) /\ c.args[1] \in asRestruct(c.args[2])
      [] c.p = "IsoRecur"    -> c.args[1].c = "recur" /\ c.args[2] = unroll(c.args[1])
      [] c.p = "equals"      -> c.args[1] = c.args[2]
      [] c.p = "!equals"     -> c.args[1] # c.args[2]

RECURSIVE Grounded(_, _)
Grounded(t, f) == IF IsVar(t) /\ t.n \in DOMAIN f THEN f[t.n] ELSE [t EXCEPT !.as = FoldLeft(LAMBDA acc, s : Append(acc, Grounded(s, f)), <<>>, @)]
GroundArgs(c, f) == FoldLeft(LAMBDA acc, t : Append(acc, Grounded(t, f)), <<>>, c.args)
HoldsFor(c, f) == Holds([c EXCEPT !.args = GroundArgs(c, f)])
VarsIn(cs) == UNION {UNION {freeTVars(t) : t \in ToSet(c.args)} : c \in ToSet(cs)}
Solutions == {f \in [VarsIn(asked.cs) -> asked.types] : \A i \in DOMAIN asked.cs : HoldsFor(asked.cs[i], f)}

RuledOut == pu.st # "ok" \/ \E i \in DOMAIN preds : ~satisfiablePred(preds[i])
SolutionsKept(sols, i)     == \A f \in sols : GroundArgs(preds[i], f) = GroundArgs(asked.cs[i], f)
Whatever(i)       == \A f \in [VarsIn(<<preds[i]>>) -> asked.types] : HoldsFor(preds[i], f)
MeantBy(sols) ==
    IF RuledOut THEN sols = {}
    ELSE \A i \in DOMAIN preds :
            SolutionsKept(sols, i) /\ IF satisfiedPred(preds[i]) THEN Whatever(i) ELSE VarsIn(<<preds[i]>>) = {} => ~Whatever(i)

(***************************************************************************)
(* Properties                                                              *)
(***************************************************************************)
\* Whatever the order of the constraints: no solution is ruled out by what was bound, the
\* program is refused only if there is none, what counts as satisfied holds for all that
\* its variables can still stand for, and a constraint that is known in full and holds
\* counts as satisfied.
PredicatesMeanWhatTheySay == (preds # <<>> /\ (pu.st # "ok" \/ upd = "done")) => MeantBy(Solutions)
=============================================================================
