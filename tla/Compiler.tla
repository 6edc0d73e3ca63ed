------------------------------ MODULE Compiler ------------------------------
(***************************************************************************)
(* The parts of the compiler that make automata and types, each at work on *)
(* a subject of its own: the regular expressions of a match                *)
(* (RegexCompiler), an expression without a type (TypeInference), a        *)
(* program with type classes (ClassInstances), the predicates on types     *)
(* (TypePredicates), the layout of records and variants (TypeLayout), a    *)
(* parse expression (ParserGenerator) or a match expression (PatternMatch, *)
(* which uses RegexCompiler for its columns of regular expressions).       *)
(* Nothing in the compiler is locked: one thread uses it, for one thing at *)
(* a time.  A behaviour has one subject, and the other parts are idle.     *)
(***************************************************************************)
EXTENDS RegexCompiler, TypeInference, ClassInstances, TypePredicates, ParserGenerator, PatternMatch

typeVars == <<infers, calls, stage, classVars>>
formVars == <<layoutVars, predVars>>

vars == <<regexVars, typeVars, formVars, parserVars, matchVars>>

RegexIdle ==
    /\ pc = "idle" /\ written = <<>> /\ regexes = <<>> /\ nfa = <<>> /\ ec = <<>> /\ small = <<>>
    /\ dfa = <<>> /\ merged = [dfa |-> <<>>, rstates |-> <<>>] /\ map = <<>> /\ meaning = <<>>

InferenceIdle ==
    /\ stage = "idle" /\ expr = <<"int">> /\ inf = NoInference
    /\ u = NewUnifier /\ unified = {} /\ made = 0

ClassesIdle ==
    /\ program = [classes |-> <<>>, defs |-> <<>>, known |-> 0, asks |-> {}, types |-> {}]
    /\ given = 0 /\ held = Empty(program) /\ answers = <<>>

LayoutIdle ==
    /\ shape = [kind |-> "record", fields |-> <<>>] /\ from = 1 /\ shown = 1 /\ view = <<>> /\ layout = "ok"

PredsIdle ==
    /\ asked = [cs |-> <<>>, types |-> {}]
    /\ preds = <<>> /\ pu = NewUnifier /\ turn = 0 /\ upd = "no"

FormsIdle == LayoutIdle /\ PredsIdle

ParserIdle ==
    /\ gen = "idle" /\ pdef = NoParser /\ tl = <<>> /\ table = <<>>
    /\ grammar = [g |-> <<>>, s |-> None, px |-> <<>>, ord |-> <<>>, syms |-> {}, len |-> 0]

MatchIdle ==
    /\ lift = "idle" /\ match = [rows |-> <<>>, inputs |-> {}] /\ lower = FALSE
    /\ mdfa = NewDFA(FALSE) /\ root = 0

Init ==
    \/ RegexInit /\ InferenceIdle /\ ClassesIdle /\ FormsIdle /\ ParserIdle /\ MatchIdle
    \/ RegexIdle /\ InferenceInit /\ ClassesIdle /\ FormsIdle /\ ParserIdle /\ MatchIdle
    \/ RegexIdle /\ InferenceIdle /\ ClassInit /\ FormsIdle /\ ParserIdle /\ MatchIdle
    \/ RegexIdle /\ InferenceIdle /\ ClassesIdle /\ LayoutInit /\ PredsIdle /\ ParserIdle /\ MatchIdle
    \/ RegexIdle /\ InferenceIdle /\ ClassesIdle /\ LayoutIdle /\ PredInit /\ ParserIdle /\ MatchIdle
    \/ RegexIdle /\ InferenceIdle /\ ClassesIdle /\ FormsIdle /\ ParserInit /\ MatchIdle
    \/ RegexIdle /\ InferenceIdle /\ ClassesIdle /\ FormsIdle /\ ParserIdle /\ MatchInit

Next ==
    \/ RegexNext /\ UNCHANGED <<typeVars, formVars, parserVars, matchVars>>
    \/ InferenceNext /\ UNCHANGED <<regexVars, classVars, formVars, parserVars, matchVars>>
    \/ ClassNext /\ UNCHANGED <<regexVars, infers, calls, stage, formVars, parserVars, matchVars>>
    \/ LayoutNext /\ UNCHANGED <<regexVars, typeVars, predVars, parserVars, matchVars>>
    \/ PredNext /\ UNCHANGED <<regexVars, typeVars, layoutVars, parserVars, matchVars>>
    \/ ParserNext /\ UNCHANGED <<regexVars, typeVars, formVars, matchVars>>
    \/ MakeDFA /\ UNCHANGED <<regexVars, typeVars, formVars, parserVars>>

Spec == Init /\ [][Next]_vars

(***************************************************************************)
(* Properties                                                              *)
(***************************************************************************)
\* Every automaton is closed: what a state leads to are states of its own, in the
\* DFAs of regular expressions, in the tables of parsers and in the DFA of a match.
TypeOK ==
    /\ RegexTypes
    /\ u.st \in {"ok", "clash", "endless", "infinite"}
    /\ \A n \in DOMAIN table : \A t \in DOMAIN table[n] :
          table[n][t][1] \in {"goto", "shift"} => table[n][t][2] \in DOMAIN table
    /\ lift = "lifted" => \A s \in DOMAIN mdfa.states :
          LET st == mdfa.states[s]
          IN  /\ st.k = "finish" => st.res \in DOMAIN match.rows
              /\ st.k = "load"   => st.next \in DOMAIN mdfa.states
              /\ st.k \in {"switch", "case"} => /\ st.def \in {0} \union DOMAIN mdfa.states
                                                /\ \A j \in ToSet(st.jmps) : j[2] \in DOMAIN mdfa.states
=============================================================================
