SPECIFICATION Spec
CONSTANTS
    RegexLists <- MCRegexLists
    Alphabet <- MCAlphabet
    MaxLength = 3
    MaxKey = 4
    Values = {1, 2}
    Exprs <- MCExprs
    Types <- MCTypes
    MaxCalls = 3
    Programs <- MCPrograms
    MaxQuestions = 2
    Shapes <- MCShapes
    Constraints <- MCConstraints
    Grammars <- MCGrammars
    WordSize = 2
    Labels = {1, 2}
    Tables <- MCTables
INVARIANTS
    TypeOK
    MapMeansItsCalls
    CompiledAsWritten
    ShrinkingKeepsAnswers
    UnifierSolves
    InferredIsPrincipal
    AnswersAsDefined
    AnswersAgree
    LaidOutAlike
    PredicatesMeanWhatTheySay
    LookaheadsLeast
    ParsesTheGrammar
    AmbiguityRejected
    MatchesFirstRow
    RefusedIsSo
CHECK_DEADLOCK FALSE
