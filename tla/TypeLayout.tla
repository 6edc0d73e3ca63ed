----------------------------- MODULE TypeLayout -----------------------------
(***************************************************************************)
(* How records and variants lie in memory (src/lib/hobbes/lang/type.C),    *)
(* and how generic code walks over them: a record (or a tuple, or a        *)
(* variant) is taken apart into its first visible field and a tail.  The   *)
(* tail is the same memory under another type, in which the first field is *)
(* hidden; putting the field back finds the hidden one again.  Compiled    *)
(* code reaches a field by its index in a packed LLVM structure that has   *)
(* the padding as fields of its own (src/lib/hobbes/eval/ctype.C).         *)
(*                                                                         *)
(* A member is [label, ty, at]: at is its offset in a record, or its tag   *)
(* in a variant.  Labels are numbers: a name, Nth(i) for the ".f<i>" of a  *)
(* tuple, and Hidden + l for the ".p" before a label l.  Sizes are those   *)
(* of a 64 bit machine.                                                    *)
(***************************************************************************)
EXTENDS TypeUnifier, Integers

CONSTANT Shapes     \* [kind, fields]: "record", "tuple" or "variant", and <<label, type>>s

VARIABLES
    shape,      \* the fields that are looked at
    from,       \* the first of them that is in memory
    shown,      \* the first of them that is visible
    view,       \* the members of the type for the memory from there on; none for unit and void
    layout      \* "ok", or "mismatch" when offsets did not fit

layoutVars == <<shape, from, shown, view, layout>>

CHAR  == 4
SHORT == 5
LONG  == 6
VOID  == 7
PrimSize == [n \in {INT, BOOL, UNIT, CHAR, SHORT, LONG, VOID} |->
                CASE n \in {UNIT, VOID} -> 0 [] n \in {BOOL, CHAR} -> 1 [] n = SHORT -> 2 [] n = INT -> 4 [] n = LONG -> 8]
IntSize     == 4
PointerSize == 8

Fixed(t, n)    == Type("fixed", n, <<t>>)
Exists         == Type("exists", 0, <<>>)        \* a closure
MemberOf(l, t) == Type("member", l, <<t>>)
RecordOf(ms)   == Type("record", 0, ms)
VariantOf(ms)  == Type("variant", 0, ms)

Hidden == 1000
Nth(i) == 100 + i
IsHidden(l)   == l >= Hidden
IsNth(l)      == l \in 100 .. Hidden - 1
Unknown == -1
Member(l, t, o) == [label |-> l, ty |-> t, at |-> o]

align(x, m) == IF m = 0 \/ x % m = 0 THEN x ELSE (1 + (x \div m)) * m
Largest0(ns, least) == FoldLeft(LAMBDA acc, n : IF n > acc THEN n ELSE acc, least, ns)

-----------------------------------------------------------------------------
RECURSIVE alignment(_), sizeOf(_)

Alignments(ms) == FoldLeft(LAMBDA acc, m : Append(acc, alignment(m.ty)), <<>>, ms)
Sizes(ms)      == FoldLeft(LAMBDA acc, m : Append(acc, sizeOf(m.ty)), <<>>, ms)
Written(t)     == FoldLeft(LAMBDA acc, m : Append(acc, Member(m.n, m.as[1], Unknown)), <<>>, t.as)

payloadOffset(ms) == Largest0(FoldLeft(LAMBDA acc, n : Append(acc, align(IntSize, n)), <<>>, Alignments(ms)), IntSize)
payloadSize(ms)   == Largest0(Sizes(ms), 0)
variantSize(ms)   == align(payloadOffset(ms) + payloadSize(ms), Largest0(Alignments(ms), IntSize))

maxFieldAlignment(ms) == Largest0(Alignments(ms), 1)

\* From the end of the last member that is not empty.
recordSize(ms) ==
    LET full == {i \in DOMAIN ms : sizeOf(ms[i].ty) > 0}
    IN  IF full = {} THEN 0 ELSE align(ms[Max(full)].at + sizeOf(ms[Max(full)].ty), maxFieldAlignment(ms))

\* withResolvedMemoryLayout(): [o, ms, st].  What was known of the offsets has to agree.
PlacedAt(acc, m, o) ==
    [o |-> o + sizeOf(m.ty), ms |-> Append(acc.ms, [m EXCEPT !.at = o]), st |-> IF m.at \in {Unknown, o} THEN acc.st ELSE "mismatch"]
withResolvedMemoryLayout(ms) ==
    IF \E i \in DOMAIN ms : ~isMonoSingular(ms[i].ty) THEN [o |-> 0, ms |-> ms, st |-> "ok"]
    ELSE FoldLeft(LAMBDA acc, m : PlacedAt(acc, m, align(acc.o, alignment(m.ty))), [o |-> 0, ms |-> <<>>, st |-> "ok"], ms)

alignment(t) ==
    CASE t.c = "prim"    -> IF t.n = UNIT THEN 1 ELSE sizeOf(t)
      [] t.c = "variant" -> IF payloadOffset(Written(t)) = IntSize THEN IntSize ELSE PointerSize
      [] t.c = "fixed"   -> alignment(t.as[1])
      [] t.c = "record"  -> maxFieldAlignment(Written(t))
      [] t.c \in {"array", "->", "recur"} -> PointerSize
      [] OTHER -> 1

sizeOf(t) ==
    CASE t.c = "prim"    -> PrimSize[t.n]
      [] t.c = "variant" -> variantSize(Written(t))
      [] t.c = "fixed"   -> t.n * sizeOf(t.as[1])
      [] t.c = "record"  -> recordSize(withResolvedMemoryLayout(Written(t)).ms)
      [] t.c \in {"string", "long"} -> 0
      [] OTHER -> PointerSize

\* withExplicitPadding(): what the compiled structure consists of.
Padding == 0
PaddedTo(acc, m, o) == IF o > acc.o THEN Append(acc.ms, Member(Padding, Fixed(Prim(CHAR), o - acc.o), acc.o)) ELSE acc.ms
Packed1(ms, m) == IF sizeOf(m.ty) > 0 THEN Append(ms, m) ELSE ms
PaddedAfter(packed, ms) == PaddedTo(packed, <<>>, align(packed.o, maxFieldAlignment(ms)))
withExplicitPadding(ms) ==
    PaddedAfter(FoldLeft(LAMBDA acc, m : [o |-> m.at + sizeOf(m.ty), ms |-> Packed1(PaddedTo(acc, m, m.at), m)], [o |-> 0, ms |-> <<>>], ms), ms)

\* index() in it, and where LLVM puts the elements of a packed structure.
alignedIndex(ams, l) == CHOOSE i \in DOMAIN ams : ams[i].label = l /\ \A j \in 1 .. i - 1 : ams[j].label # l
RECURSIVE CompiledSize(_)
CompiledSizes(ams) == FoldLeft(LAMBDA acc, m : Append(acc, CompiledSize(m.ty)), <<>>, ams)
SumOf(ns) == FoldLeft(LAMBDA acc, n : acc + n, 0, ns)
CompiledSize(t) ==
    CASE t.c = "record" -> SumOf(CompiledSizes(withExplicitPadding(withResolvedMemoryLayout(Written(t)).ms)))
      [] t.c = "fixed"  -> t.n * CompiledSize(t.as[1])
      [] OTHER -> sizeOf(t)
structOffset(ams, i) == SumOf(CompiledSizes(SubSeq(ams, 1, i - 1)))

-----------------------------------------------------------------------------
\* Mutant: the first hidden member with the label instead of the last.
FirstHiddenMember(l, ms) ==
    LET at == {i \in DOMAIN ms : ms[i].label = Hidden + l} IN IF at = {} THEN 0 ELSE Min(at)

findHiddenMember(l, ms) ==
    LET at == {i \in DOMAIN ms : ms[i].label = Hidden + l} IN IF at = {} THEN 0 ELSE Max(at)
nextVisibleMember(ms) == CHOOSE i \in DOMAIN ms : ~IsHidden(ms[i].label) /\ \A j \in 1 .. i - 1 : IsHidden(ms[j].label)
AnyVisible(ms) == \E i \in DOMAIN ms : ~IsHidden(ms[i].label)
isTuple(ms)    == \E i \in DOMAIN ms : IsNth(ms[i].label)

resetFieldOffsets(ms) == FoldLeft(LAMBDA acc, m : Append(acc, [m EXCEPT !.at = Unknown]), <<>>, ms)
resetCtorIDs(ms)      == FoldLeft(LAMBDA acc, m : Append(acc, [m EXCEPT !.at = Len(acc)]), <<>>, ms)

\* consMember(): a hidden member of that label is shown again, or the new one goes in
\* front.  A record keeps the type that the hidden member has.
consRecordMember(l, t, ms, slot) ==
    IF slot = 0 THEN resetFieldOffsets(<<Member(l, t, Unknown)>> \o ms) ELSE [ms EXCEPT ![slot].label = l]
consVariantMember(l, t, ms, slot) ==
    IF slot = 0 THEN resetCtorIDs(<<Member(l, t, 0)>> \o ms) ELSE [ms EXCEPT ![slot] = Member(l, t, @.at)]

normalizeTupleFields(ms) ==
    FoldLeft(LAMBDA acc, m : IF IsHidden(m.label) THEN [acc EXCEPT !.ms = Append(@, m)]
                             ELSE [i |-> acc.i + 1, ms |-> Append(acc.ms, [m EXCEPT !.label = Nth(acc.i)])],
             [i |-> 0, ms |-> <<>>], ms).ms

\* tailMembers(): the first visible member h is hidden; those of a tuple after it move up.
tailRecordMembers(tup, ms, h) ==
    FoldLeft(LAMBDA acc, m : Append(acc, IF Len(acc) + 1 = h THEN [m EXCEPT !.label = Hidden + @]
                                         ELSE IF tup /\ Len(acc) + 1 > h THEN [m EXCEPT !.label = Nth(Len(acc) - h)] ELSE m), <<>>, ms)
tailVariantMembers(ms, h) == [ms EXCEPT ![h].label = Hidden + @]

Record(ms)  == withResolvedMemoryLayout(ms)
Variant(ms) == [o |-> 0, ms |-> ms, st |-> "ok"]

tailType(k, ms) ==
    IF k = "variant" THEN Variant(tailVariantMembers(ms, nextVisibleMember(ms)))
    ELSE Record(tailRecordMembers(isTuple(ms), ms, nextVisibleMember(ms)))

\* make(label, head, tail)
consType(k, l, t, ms) ==
    CASE k = "record"  -> Record(consRecordMember(l, t, ms, findHiddenMember(l, ms)))
      [] k = "tuple"   -> Record(normalizeTupleFields(consRecordMember(Nth(0), t, ms, findHiddenMember(Nth(0), ms))))
      [] k = "variant" -> Variant(consVariantMember(l, t, ms, findHiddenMember(l, ms)))

\* The type as it is written down, for the fields from the i-th on.
WrittenFrom(k, fs, i) ==
    LET ms == FoldLeft(LAMBDA acc, j : Append(acc, Member(IF k = "tuple" THEN Nth(j - i) ELSE fs[j][1], fs[j][2], IF k = "variant" THEN j - i ELSE Unknown)),
                       <<>>, [j \in 1 .. Len(fs) - i + 1 |-> i + j - 1])
    IN  IF k = "variant" THEN Variant(ms) ELSE Record(ms)

-----------------------------------------------------------------------------
\* The whole type is written down, or it is put together from the last field on.
LayoutInit ==
    /\ shape \in Shapes
    /\ \/ from = 1 /\ view = WrittenFrom(shape.kind, shape.fields, 1).ms
       \/ from = Len(shape.fields) + 1 /\ view = <<>>
    /\ shown = from
    /\ layout = "ok"

Shown(r, i, f) ==
    /\ shown' = i
    /\ from' = IF AnyVisible(r.ms) THEN f ELSE i
    /\ view' = IF AnyVisible(r.ms) THEN r.ms ELSE <<>>
    /\ layout' = IF r.st = "ok" THEN layout ELSE r.st

TakeTail ==
    /\ view # <<>>
    /\ Shown(tailType(shape.kind, view), shown + 1, from)
    /\ UNCHANGED shape

PutHead ==
    /\ shown > 1
    /\ Shown(consType(shape.kind, shape.fields[shown - 1][1], shape.fields[shown - 1][2], view), shown - 1,
             IF from = shown THEN shown - 1 ELSE from)
    /\ UNCHANGED shape

\* substitute(): the variable is known now, in every type that has it.
Given(t, to) == IF IsVar(t) THEN to ELSE t
Instantiate(to) ==
    /\ \E i \in DOMAIN shape.fields : IsVar(shape.fields[i][2])
    /\ shape' = [shape EXCEPT !.fields = [i \in DOMAIN @ |-> <<@[i][1], Given(@[i][2], to)>>]]
    /\ Shown(LET ms == FoldLeft(LAMBDA acc, m : Append(acc, [m EXCEPT !.ty = Given(@, to)]), <<>>, view)
             IN  IF shape.kind = "variant" THEN Variant(ms) ELSE Record(ms), shown, from)

LayoutNext == TakeTail \/ PutHead \/ \E to \in {Prim(CHAR), Prim(LONG)} : Instantiate(to)

(***************************************************************************)
(* Properties                                                              *)
(***************************************************************************)
\* A tail shows the rest of the fields, in the memory and with the tags of the type it
\* was taken from, and what it says of the memory is what the whole type says.
SameMemory(whole, ms) ==
    /\ Len(ms) = Len(whole)
    /\ \A i \in DOMAIN ms :
          /\ ms[i].ty = whole[i].ty /\ ms[i].at = whole[i].at
          /\ IsHidden(ms[i].label) <=> i <= shown - from
          /\ i > shown - from => ms[i].label = IF shape.kind = "tuple" THEN Nth(i - 1 - (shown - from)) ELSE whole[i].label

\* Members are aligned and do not overlap, and every one that has contents is found in
\* the compiled structure where the layout says, which is as large as the type.
FoundAt(ams, m) == structOffset(ams, alignedIndex(ams, m.label)) = m.at
CompiledAlike(ms, ams) ==
    /\ SumOf(CompiledSizes(ams)) = recordSize(ms)
    /\ \A i \in DOMAIN ms :
          /\ ms[i].at % alignment(ms[i].ty) = 0
          /\ i < Len(ms) => ms[i].at + sizeOf(ms[i].ty) <= ms[i + 1].at
          /\ (sizeOf(ms[i].ty) > 0 /\ ~IsHidden(ms[i].label)) => FoundAt(ams, ms[i])

\* A payload is aligned and inside the variant.
PayloadFits(ms) ==
    \A i \in DOMAIN ms :
        /\ payloadOffset(ms) % alignment(ms[i].ty) = 0
        /\ payloadOffset(ms) + sizeOf(ms[i].ty) <= variantSize(ms)

\* However a type was taken apart and put together again, its fields lie where those of
\* the type that was written down lie, and where the compiled code looks for them.
LaidOutAlike ==
    /\ layout = "ok"
    /\ view # <<>> =>
        /\ SameMemory(WrittenFrom(shape.kind, shape.fields, from).ms, view)
        /\ (\A m \in ToSet(view) : isMonoSingular(m.ty)) => IF shape.kind = "variant" THEN PayloadFits(view) ELSE CompiledAlike(view, withExplicitPadding(view))
=============================================================================
