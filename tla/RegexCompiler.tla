---------------------------- MODULE RegexCompiler ----------------------------
(***************************************************************************)
(* The compiler's work on the regular expressions of one match, a pass at  *)
(* a time in the order of makeRegexFn() (regex.C), and next to it a range  *)
(* map in the hands of a caller that inserts, merges and compacts.         *)
(*                                                                         *)
(* The patterns are written down from trees (RegexTree), whose meaning the *)
(* function that the compiler makes is compared with.                      *)
(***************************************************************************)
EXTENDS RegexTree

CONSTANTS
    RegexLists,  \* what to compile: sequences of trees
    Alphabet,    \* the characters of the strings the compiled function is run on
    MaxLength,   \* the length of the longest of them
    MaxKey,      \* the keys of the range map are 0 .. MaxKey
    Values       \* the values it maps to

ASSUME RegexAssumption ==
    /\ Alphabet \subseteq Chars \ {0}
    /\ MaxLength \in Nat
    /\ MaxKey \in Nat

VARIABLES
    pc,        \* the pass that comes next, or "map" where a range map is at work
    written,   \* the trees of the match
    regexes,   \* the expressions, as parsed
    nfa,
    ec,        \* eps* of the NFA
    dfa,       \* [dfa, sets, fstates], as disambiguate() makes it
    merged,    \* [dfa, rstates], with the results numbered
    small,     \* the DFA that the function is made from
    map,       \* the range map
    meaning    \* what the calls so far should have made of it

passes == <<written, regexes, nfa, ec, dfa, merged, small>>
maps   == <<map, meaning>>
regexVars == <<pc, passes, maps>>

Strings == UNION {[1 .. n -> Alphabet] : n \in 0 .. MaxLength}

\* The expressions of the match that a string matches, as they are written.
MatchedAsWritten(cs) == {i \in DOMAIN written : MatchesTree(written[i], cs)}

(***************************************************************************)
(* The passes                                                              *)
(***************************************************************************)
RegexInit ==
    /\ \/ pc = "parse" /\ written \in RegexLists
       \/ pc = "map" /\ written = <<>>
    /\ regexes = <<>> /\ nfa = <<>> /\ ec = <<>> /\ small = <<>>
    /\ dfa = [sets |-> <<>>, dfa |-> <<>>, fstates |-> <<>>]
    /\ merged = [dfa |-> <<>>, rstates |-> <<>>]
    /\ map = <<>>
    /\ meaning = [k \in 0 .. MaxKey |-> {}]

Parse ==
    /\ pc = "parse"
    /\ regexes' = [i \in DOMAIN written |-> parseRegex(Writing(written[i]))]
    /\ pc' = "link"
    /\ UNCHANGED <<written, nfa, ec, dfa, merged, small, maps>>

Link ==
    /\ pc = "link"
    /\ nfa' = LinkAll(regexes)
    /\ pc' = "close"
    /\ UNCHANGED <<written, regexes, ec, dfa, merged, small, maps>>

Close ==
    /\ pc = "close"
    /\ ec' = findEpsClosure(nfa)
    /\ pc' = "disambiguate"
    /\ UNCHANGED <<written, regexes, nfa, dfa, merged, small, maps>>

Disambiguate ==
    /\ pc = "disambiguate"
    /\ dfa' = disambiguate(nfa, ec)
    /\ pc' = "merge"
    /\ UNCHANGED <<written, regexes, nfa, ec, merged, small, maps>>

Merge ==
    /\ pc = "merge"
    /\ merged' = mergeCharRangesAndEqResults(dfa.dfa, dfa.fstates)
    /\ pc' = "shrink"
    /\ UNCHANGED <<written, regexes, nfa, ec, dfa, small, maps>>

Shrink ==
    /\ pc = "shrink"
    /\ small' = removeEquivStates(merged.dfa, findEquivStates(merged.dfa))
    /\ pc' = "made"
    /\ UNCHANGED <<written, regexes, nfa, ec, dfa, merged, maps>>

(***************************************************************************)
(* The caller of the range map                                             *)
(***************************************************************************)
MapInsert(lo, hi, v) ==
    /\ pc = "map"
    /\ map' = insert(map, lo, hi, {v})
    /\ meaning' = [k \in 0 .. MaxKey |-> IF k \in lo .. hi THEN {v} ELSE meaning[k]]
    /\ UNCHANGED <<pc, passes>>

MapMerge(lo, hi, v) ==
    /\ pc = "map"
    /\ map' = mergeRange(map, lo, hi, v)
    /\ meaning' = [k \in 0 .. MaxKey |-> IF k \in lo .. hi THEN meaning[k] \union {v} ELSE meaning[k]]
    /\ UNCHANGED <<pc, passes>>

MapCompact ==
    /\ pc = "map"
    /\ map' = compact(map)
    /\ UNCHANGED <<pc, passes, meaning>>

RegexNext ==
    \/ Parse \/ Link \/ Close \/ Disambiguate \/ Merge \/ Shrink
    \/ \E lo \in 0 .. MaxKey, v \in Values : \E hi \in lo .. MaxKey :
            MapInsert(lo, hi, v) \/ MapMerge(lo, hi, v)
    \/ MapCompact

(***************************************************************************)
(* Properties                                                              *)
(***************************************************************************)
Sorted(rs) == /\ \A i \in DOMAIN rs : rs[i].lo <= rs[i].hi
              /\ \A i, j \in DOMAIN rs : i < j => rs[i].hi < rs[j].lo
Covered(rs) == UNION {rs[i].lo .. rs[i].hi : i \in DOMAIN rs}
Overlap(p, q) == classifyIntersection(p, q) \in {"LRLR", "RLRL"}

\* Every list of ranges that disjointRanges() can be given.
RangeLists ==
    {[i \in 1 .. Len(rs) |-> [lo |-> rs[i][1], hi |-> rs[i][2]]] :
        rs \in {toRanges(ks) : ks \in SUBSET (0 .. MaxKey)}}

\* The transitions of every automaton are ranges in order, to states that it has.
RegexTypes ==
    /\ \A s \in DOMAIN nfa : nfa[s].eps \subseteq DOMAIN nfa /\ Sorted(nfa[s].chars)
    /\ \A s \in DOMAIN small :
          /\ Sorted(small[s].chars)
          /\ \A i \in DOMAIN small[s].chars : small[s].chars[i].v \in DOMAIN small
          /\ small[s].acc \in {NullResult} \union DOMAIN merged.rstates

\* disjointRanges() of the map and rs loses no key and adds none, its ranges are
\* apart, and, where no two of the ranges overlap in part, each lies inside or
\* outside of every one of them (lookupRangeSubset() answers for all of its keys).
CutApart(rs) ==
    LET cut == disjointRanges(map, rs)
    IN  /\ Sorted(cut)
        /\ Covered(cut) = Covered(map) \union Covered(rs)
        /\ (\A i \in DOMAIN map, j \in DOMAIN rs : ~Overlap(map[i], rs[j]))
           => \A c \in Range(cut), p \in Range(map) \union Range(rs) :
                 c.lo .. c.hi \subseteq p.lo .. p.hi \/ (c.lo .. c.hi) \intersect (p.lo .. p.hi) = {}

\* Whatever sequence of insert, mergeRange and compact a map went through, its
\* ranges are in order and apart, a key has the values that the calls gave it, and
\* cutting it by the ranges of another automaton keeps the keys apart.
MapMeansItsCalls ==
    pc = "map" =>
        /\ Sorted(map)
        /\ \A k \in 0 .. MaxKey : lookup(map, k, {}) = meaning[k]
        /\ \A rs \in RangeLists : CutApart(rs)

\* The states that a state reaches without a character.
RECURSIVE EpsReach(_)
EpsReach(ss) == LET more == ss \union UNION {nfa[s].eps : s \in ss}
                IN  IF more = ss THEN ss ELSE EpsReach(more)

NoEpsCycle == \A s \in DOMAIN nfa : \A t \in EpsReach({s}) \ {s} : s \notin EpsReach({t})

\* The quantifier of a group is one of the last alternative only.
RECURSIVE Alternates(_)
Alternates(t) == CASE t[1] = "alt" -> TRUE
                   [] t[1] = "cat" -> Alternates(t[2]) \/ Alternates(t[3])
                   [] OTHER -> FALSE
RECURSIVE QuantifiesAlternatives(_)
QuantifiesAlternatives(t) ==
    CASE t[1] = "rep" -> t[2][1] = "grp" /\ (Alternates(t[2][2]) \/ QuantifiesAlternatives(t[2][2]))
      [] t[1] = "grp" -> QuantifiesAlternatives(t[2])
      [] t[1] \in {"cat", "alt"} -> QuantifiesAlternatives(t[2]) \/ QuantifiesAlternatives(t[3])
      [] OTHER -> FALSE

\* The ranges of an NFA state set are cut by all of its states: no two of the NFA overlap in part.
NoOverlap ==
    LET ranges == UNION {Range(nfa[s].chars) : s \in DOMAIN nfa}
    IN  \A p, q \in ranges : ~Overlap(p, q)

AsExpected == \A cs \in Strings : Matched(small, merged.rstates, cs) = MatchedAsWritten(cs)

\* The function made for a match answers for every string with exactly the patterns
\* that it matches as they are written: parsing, linking, eps*, the sets of states,
\* the cutting of ranges and the shrinking together change nothing.  It is stated
\* for the patterns that the compiler gets right: no quantifier on a group with
\* alternatives, no partial overlap of two ranges, no eps cycle.
CompiledAsWritten ==
    (pc = "made" /\ NoEpsCycle /\ NoOverlap /\ \A i \in DOMAIN written : ~QuantifiesAlternatives(written[i]))
        => AsExpected

\* Shrinking keeps every answer: results may be numbered again and states may be
\* merged, but a string gets the expressions that it got from the first DFA.
ShrinkingKeepsAnswers ==
    pc = "made" => \A cs \in Strings :
        Matched(small, merged.rstates, cs) = Matched(dfa.dfa, dfa.fstates, cs)

=============================================================================
