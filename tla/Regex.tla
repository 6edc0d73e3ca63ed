-------------------------------- MODULE Regex --------------------------------
(***************************************************************************)
(* The regular expression compiler (src/lib/hobbes/lang/pat/regex.C): the  *)
(* text of a pattern is parsed, the expressions of a match are linked into *)
(* one NFA, its eps* is found, the NFA is made a DFA, the DFA is shrunk,   *)
(* and a function is generated that runs it over a whole string.           *)
(*                                                                         *)
(* Characters are numbers, the ones with a meaning in a pattern in the     *)
(* order of their codes.  Named groups (and the marks they put on states)  *)
(* and the printing of automata are left out; escapes stand for the        *)
(* character they name.  States and results count from 1 (0 in the code),  *)
(* and NullResult is 0 (-1 in the code).                                   *)
(***************************************************************************)
EXTENDS RangeMap, FiniteSets, FiniteSetsExt, Functions

LPAR == 1
RPAR == 2
STAR == 3
PLUS == 4
DASH == 5
DOT  == 6
QUES == 7
LSQR == 8
BSLH == 9
RSQR == 10
CARE == 11
MaxChar == 16
BAR  == MaxChar

Chars == 0 .. MaxChar
NullResult == 0

(***************************************************************************)
(* Expressions                                                             *)
(***************************************************************************)
epsilon == <<"eps">>
charRange(b, e) == <<"range", b, e>>
zeroOrMore(p) == <<"star", p>>
either(p, q) == <<"either", p, q>>
sequence(p, q) == <<"seq", p, q>>

\* toRanges(): a set of characters as the ranges of neighbours it consists of.
toRanges(cs) ==
    FoldLeft(LAMBDA acc, c : CASE c \notin cs -> acc
                               [] c \in cs /\ c - 1 \in cs -> Front(acc) \o <<<<Last(acc)[1], c>>>>
                               [] OTHER -> Append(acc, <<c, c>>),
             <<>>, [i \in 1 .. MaxChar + 1 |-> i - 1])

\* anyOf(): a character of the set; an empty set is taken for the empty string.
anyOf(cs) ==
    LET rs == toRanges(cs)
        one(r) == charRange(r[1], r[2])
    IN  IF rs = <<>> THEN epsilon
        ELSE FoldLeft(LAMBDA a, r : either(a, one(r)), one(Head(rs)), Tail(rs))

(***************************************************************************)
(* Parsing.  A position runs from 1; a result is <<next position, value>>. *)
(***************************************************************************)
At(x, i) == IF i <= Len(x) THEN x[i] ELSE 0

\* readCharset(): the characters up to ']', with ranges and escapes.
RECURSIVE readCharset(_, _, _)
readCharset(x, i, cs) ==
    CASE i > Len(x)  -> <<i, cs>>
      [] At(x, i) = RSQR -> <<i + 1, cs>>
      [] At(x, i) = BSLH -> readCharset(x, i + 2, cs \union {At(x, i + 1)})
      [] At(x, i) \notin {RSQR, BSLH, 0} /\ At(x, i + 1) = DASH /\ i + 2 <= Len(x) ->
            readCharset(x, i + 3, cs \union (At(x, i) .. At(x, i + 2)))
      [] OTHER -> readCharset(x, i + 1, cs \union {At(x, i)})

\* returnR(): the quantifier behind an expression, if there is one.
\* Mutant: '+' is read as '*'.
PlusIsStar(x, k, r) ==
    CASE At(x, k) = QUES -> <<k + 1, either(epsilon, r)>>
      [] At(x, k) \in {STAR, PLUS} -> <<k + 1, zeroOrMore(r)>>
      [] OTHER -> <<k, r>>

returnR(x, k, r) ==
    CASE At(x, k) = QUES -> <<k + 1, either(epsilon, r)>>
      [] At(x, k) = STAR -> <<k + 1, zeroOrMore(r)>>
      [] At(x, k) = PLUS -> <<k + 1, sequence(r, zeroOrMore(r))>>
      [] OTHER -> <<k, r>>

\* diffRegex(): read on from position i, behind the expression lhs.  What follows
\* '|' is read up to the ')' of the group, which takes the quantifier behind it.
RECURSIVE diffRegex(_, _, _)
diffRegex(lhs, x, i) ==
    LET seqR(c, k) == LET cm == returnR(x, k, c) IN diffRegex(sequence(lhs, cm[2]), x, cm[1])
    IN  CASE i > Len(x) -> <<i, lhs>>
          [] At(x, i) = RPAR -> returnR(x, i + 1, lhs)
          [] At(x, i) = LPAR -> LET g == diffRegex(epsilon, x, i + 1)
                                IN  diffRegex(sequence(lhs, g[2]), x, g[1])
          [] At(x, i) = BAR  -> LET n == diffRegex(epsilon, x, i + 1)
                                IN  <<n[1], either(lhs, n[2])>>
          [] At(x, i) = DOT  -> seqR(anyOf(Chars), i + 1)
          [] At(x, i) = LSQR -> LET invert == At(x, i + 1) = CARE
                                    p == readCharset(x, IF invert THEN i + 2 ELSE i + 1, {})
                                IN  seqR(anyOf(IF invert THEN Chars \ p[2] ELSE p[2]), p[1])
          [] At(x, i) = BSLH -> seqR(anyOf({At(x, i + 1)}), i + 2)
          [] OTHER           -> seqR(charRange(At(x, i), At(x, i)), i + 1)

\* parseRegex(): a ')' that closes no group does not end the pattern.
RECURSIVE ParseFrom(_, _)
ParseFrom(x, dr) == IF dr[1] > Len(x) THEN dr[2] ELSE ParseFrom(x, diffRegex(dr[2], x, dr[1]))
parseRegex(x) == ParseFrom(x, diffRegex(epsilon, x, 1))

(***************************************************************************)
(* The NFA: a state has the states it reaches without a character, those   *)
(* it reaches with one, and the expression it accepts, if any.             *)
(***************************************************************************)
NFAState == [eps |-> {}, chars |-> <<>>, acc |-> NullResult]

\* linkStateF: the expression p between the states self and succ.
\* regexBefore(): the expression p from a new state to the state cont.
RECURSIVE linkState(_, _, _, _)
RECURSIVE regexBefore(_, _, _)
linkState(nfa, self, succ, p) ==
    CASE p[1] = "eps"    -> [nfa EXCEPT ![self].eps = @ \union {succ}]
      [] p[1] = "range"  -> [nfa EXCEPT ![self].chars = mergeRange(@, p[2], p[3], succ)]
      [] p[1] = "star"   -> [linkState(nfa, self, self, p[2]) EXCEPT ![self].eps = @ \union {succ}]
      [] p[1] = "either" -> LET l == regexBefore(p[2], succ, nfa)
                                r == regexBefore(p[3], succ, l[2])
                            IN  [r[2] EXCEPT ![self].eps = @ \union {l[1], r[1]}]
      [] p[1] = "seq"    -> LET r == regexBefore(p[3], succ, nfa)
                            IN  linkState(r[2], self, r[1], p[2])
regexBefore(p, cont, nfa) ==
    <<Len(nfa) + 1, linkState(Append(nfa, NFAState), Len(nfa) + 1, cont, p)>>

accumRegex(p, x, nfa) == regexBefore(p, Len(nfa) + 1, Append(nfa, [NFAState EXCEPT !.acc = x]))

\* The first part of makeRegexFn(): the first state jumps to every expression.
LinkAll(ps) ==
    FoldLeft(LAMBDA nfa, i : LET s == accumRegex(ps[i], i, nfa)
                             IN  [s[2] EXCEPT ![1].eps = @ \union {s[1]}],
             <<NFAState>>, [i \in DOMAIN ps |-> i])

(***************************************************************************)
(* eps*: a depth-first walk that gives a state its successors' sets as     *)
(* they are when the walk leaves it.                                       *)
(***************************************************************************)
RECURSIVE VisitEps(_, _, _)
VisitEps(nfa, st, s) ==
    LET in  == FoldLeft(LAMBDA t, et : IF et \in nfa[s].eps /\ et \notin t.marks THEN VisitEps(nfa, t, et) ELSE t,
                        [st EXCEPT !.marks = @ \union {s}], [i \in DOMAIN nfa |-> i])
    IN  [in EXCEPT !.ec[s] = @ \union {s} \union nfa[s].eps \union UNION {in.ec[et] : et \in nfa[s].eps}]

findEpsClosure(nfa) ==
    FoldLeft(LAMBDA t, s : IF s \in t.marks THEN t ELSE VisitEps(nfa, t, s),
             [marks |-> {}, ec |-> [s \in DOMAIN nfa |-> {}]], [i \in DOMAIN nfa |-> i]).ec

epsState(ec, ss) == UNION {ec[s] : s \in ss}

(***************************************************************************)
(* The DFA: its states are the sets of NFA states that are reached, in the *)
(* order in which they are.  A state that accepts has its own number for a *)
(* result, and fstates has the expressions that the result stands for.     *)
(***************************************************************************)
usedCharRanges(nfa, ss) ==
    FoldLeft(LAMBDA rs, s : IF s \in ss THEN disjointRanges(nfa[s].chars, rs) ELSE rs,
             <<>>, [i \in DOMAIN nfa |-> i])

nfaTransition(nfa, ec, ss, cr) ==
    epsState(ec, UNION {lookupRangeSubset(nfa[s].chars, cr, {}) : s \in ss})

RECURSIVE dfaState(_, _, _, _)

NewDfaState(st, ss, accs) ==
    [sets    |-> Append(st.sets, ss),
     dfa     |-> Append(st.dfa, [chars |-> <<>>, acc |-> IF accs = {} THEN NullResult ELSE Len(st.sets) + 1]),
     fstates |-> Append(st.fstates, accs)]

\* From state `me' a range of characters leads to the state for the set ns.
LeadsTo(st, me, cr, ns) ==
    [st EXCEPT !.dfa[me].chars = insert(@, cr.lo, cr.hi, SelectInSeq(st.sets, LAMBDA s : s = ns))]

Transition(nfa, ec, st, me, cr, ns) == LeadsTo(dfaState(nfa, ec, st, ns), me, cr, ns)

dfaState(nfa, ec, st, ss) ==
    IF ss \in Range(st.sets) THEN st
    ELSE FoldLeft(LAMBDA t, cr : Transition(nfa, ec, t, Len(st.sets) + 1, cr, nfaTransition(nfa, ec, ss, cr)),
                  NewDfaState(st, ss, {nfa[s].acc : s \in ss} \ {NullResult}), usedCharRanges(nfa, ss))

disambiguate(nfa, ec) ==
    dfaState(nfa, ec, [sets |-> <<>>, dfa |-> <<>>, fstates |-> <<>>], ec[1])

(***************************************************************************)
(* Shrinking the DFA                                                       *)
(***************************************************************************)
\* mergeCharRangesAndEqResults(): one result for states that accept the same
\* expressions; rstates has the expressions of a result.
mergeCharRangesAndEqResults(dfa, fstates) ==
    FoldLeft(LAMBDA t, s :
                LET c  == [chars |-> compact(s.chars), acc |-> NullResult]
                    fs == fstates[s.acc]
                    at == SelectInSeq(t.rstates, LAMBDA rs : rs = fs)
                IN  CASE s.acc = NullResult -> [t EXCEPT !.dfa = Append(@, c)]
                      [] s.acc # NullResult /\ at # 0 -> [t EXCEPT !.dfa = Append(@, [c EXCEPT !.acc = at])]
                      [] OTHER -> [dfa     |-> Append(t.dfa, [c EXCEPT !.acc = Len(t.rstates) + 1]),
                                   rstates |-> Append(t.rstates, fs)],
             [dfa |-> <<>>, rstates |-> <<>>], dfa)

\* Mutant: the results of two states are not compared.
SameButForAcc(dfa, eq, s0, s1) ==
    LET m0 == dfa[s0].chars
        m1 == dfa[s1].chars
    IN  /\ Len(m0) = Len(m1)
        /\ \A i \in DOMAIN m0 : /\ m0[i].lo = m1[i].lo
                                /\ m0[i].hi = m1[i].hi
                                /\ m0[i].v = m1[i].v \/ <<m0[i].v, m1[i].v>> \in eq

\* Two states are the same when their results and their transitions are.
SameState(dfa, eq, s0, s1) ==
    LET m0 == dfa[s0].chars
        m1 == dfa[s1].chars
    IN  /\ dfa[s0].acc = dfa[s1].acc
        /\ Len(m0) = Len(m1)
        /\ \A i \in DOMAIN m0 : /\ m0[i].lo = m1[i].lo
                                /\ m0[i].hi = m1[i].hi
                                /\ m0[i].v = m1[i].v \/ <<m0[i].v, m1[i].v>> \in eq

\* The pairs (higher, lower) of states found the same, to a fixed point.
RECURSIVE GrowEq(_, _)
GrowEq(dfa, eq) ==
    LET more == eq \union {p \in (DOMAIN dfa) \X (DOMAIN dfa) : p[2] < p[1] /\ SameState(dfa, eq, p[1], p[2])}
    IN  IF more = eq THEN eq ELSE GrowEq(dfa, more)

\* findEquivStates(): the state that a state is replaced by, itself if it stays.
findEquivStates(dfa) ==
    LET eq == GrowEq(dfa, {})
        r[s \in DOMAIN dfa] == LET below == {t \in 1 .. s - 1 : <<s, t>> \in eq}
                               IN  IF below = {} THEN s ELSE r[Max(below)]
    IN  r

\* Transitions go to the states that theirs became.
Patched(chars, to) == FoldLeft(LAMBDA acc, p : insert(acc, p.lo, p.hi, to[p.v]), chars, chars)

\* Mutant: transitions keep the numbers that states had before others went.
NumbersKept(dfa, r) ==
    FoldLeft(LAMBDA acc, s : IF r[s] = s THEN Append(acc, [dfa[s] EXCEPT !.chars = Patched(@, r)]) ELSE acc,
             <<>>, [s \in DOMAIN dfa |-> s])

\* removeEquivStates(): the states that stay move down over those that went.
removeEquivStates(dfa, r) ==
    LET to == [s \in DOMAIN dfa |-> r[s] - Cardinality({t \in 1 .. r[s] - 1 : r[t] # t})]
    IN  FoldLeft(LAMBDA acc, s : IF r[s] = s THEN Append(acc, [dfa[s] EXCEPT !.chars = Patched(@, to)]) ELSE acc,
                 <<>>, [s \in DOMAIN dfa |-> s])

(***************************************************************************)
(* The function made for a DFA: in a state, at the end of the string, it   *)
(* answers with the state's result, and otherwise it goes on with the      *)
(* state its next character leads to, or fails.                            *)
(***************************************************************************)
RECURSIVE RunFrom(_, _, _, _)
RunFrom(dfa, cs, i, s) ==
    IF i > Len(cs) THEN dfa[s].acc
    ELSE LET t == lookup(dfa[s].chars, cs[i], 0)
         IN  IF t = 0 THEN NullResult ELSE RunFrom(dfa, cs, i + 1, t)

RunDFA(dfa, cs) == RunFrom(dfa, cs, 1, 1)

\* The expressions that match, as the caller reads them from the result.
Matched(dfa, results, cs) ==
    LET a == RunDFA(dfa, cs) IN IF a = NullResult THEN {} ELSE results[a]

\* makeRegexFn(): what the function for some patterns is made from.
Determined(nfa) == disambiguate(nfa, findEpsClosure(nfa))
Merged(d)       == mergeCharRangesAndEqResults(d.dfa, d.fstates)
Shrunk(m)       == [m EXCEPT !.dfa = removeEquivStates(@, findEquivStates(@))]
makeRegexFn(texts) ==
    Shrunk(Merged(Determined(LinkAll([i \in DOMAIN texts |-> parseRegex(texts[i])]))))
=============================================================================
