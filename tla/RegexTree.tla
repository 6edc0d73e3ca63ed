------------------------------ MODULE RegexTree ------------------------------
(***************************************************************************)
(* Regular expressions by their usual reading, apart from the code: a tree *)
(* says how a pattern is written and where its matches end.                *)
(***************************************************************************)
EXTENDS Regex

Lit(c)      == <<"lit", c>>
Dot         == <<"dot">>
Among(b, e) == <<"set", b, e>>
Except(b, e) == <<"not", b, e>>
Grp(t)      == <<"grp", t>>
Cat(t, u)   == <<"cat", t, u>>
Alt(t, u)   == <<"alt", t, u>>
Rep(t, q)   == <<"rep", t, q>>

RECURSIVE Writing(_)
Writing(t) ==
    CASE t[1] = "lit" -> <<t[2]>>
      [] t[1] = "dot" -> <<DOT>>
      [] t[1] = "set" -> <<LSQR, t[2], DASH, t[3], RSQR>>
      [] t[1] = "not" -> <<LSQR, CARE, t[2], DASH, t[3], RSQR>>
      [] t[1] = "grp" -> <<LPAR>> \o Writing(t[2]) \o <<RPAR>>
      [] t[1] = "cat" -> Writing(t[2]) \o Writing(t[3])
      [] t[1] = "alt" -> Writing(t[2]) \o <<BAR>> \o Writing(t[3])
      [] t[1] = "rep" -> Append(Writing(t[2]), t[3])

\* The positions at which a match of t that starts at i can end.
RECURSIVE Ends(_, _, _)
RECURSIVE ManyEnds(_, _, _)
Ends(t, cs, i) ==
    LET one(set) == IF i <= Len(cs) /\ cs[i] \in set THEN {i + 1} ELSE {}
    IN  CASE t[1] = "lit" -> one({t[2]})
          [] t[1] = "dot" -> one(Chars)
          [] t[1] = "set" -> one(t[2] .. t[3])
          [] t[1] = "not" -> one(Chars \ (t[2] .. t[3]))
          [] t[1] = "grp" -> Ends(t[2], cs, i)
          [] t[1] = "cat" -> UNION {Ends(t[3], cs, j) : j \in Ends(t[2], cs, i)}
          [] t[1] = "alt" -> Ends(t[2], cs, i) \union Ends(t[3], cs, i)
          [] t[1] = "rep" /\ t[3] = QUES -> {i} \union Ends(t[2], cs, i)
          [] t[1] = "rep" /\ t[3] = STAR -> ManyEnds(t[2], cs, {i})
          [] t[1] = "rep" /\ t[3] = PLUS -> ManyEnds(t[2], cs, Ends(t[2], cs, i))
ManyEnds(t, cs, ends) ==
    LET more == ends \union UNION {Ends(t, cs, j) : j \in ends}
    IN  IF more = ends THEN ends ELSE ManyEnds(t, cs, more)

\* The whole string is a match.
MatchesTree(t, cs) == Len(cs) + 1 \in Ends(t, cs, 1)
=============================================================================
