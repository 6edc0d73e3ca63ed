SPECIFICATION Spec
CONSTANTS
    RegexLists = {}
    Alphabet <- MCAlphabet
    MaxLength = 1
    MaxKey = 1
    Values = {1, 2}
    Exprs = {}
    Types = {}
    MaxCalls = 0
    Programs = {}
    MaxQuestions = 0
    Shapes = {}
    Constraints = {}
    Grammars = {}
    WordSize = 2
    Labels = {1, 2}
    Tables <- Columns
INVARIANT EveryMatchFirstRow
CHECK_DEADLOCK FALSE
