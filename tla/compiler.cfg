SPECIFICATION MCSpec
CONSTANTS
    MaxOffset = 12
    MaxDepth = 2
    MaxJumps = 1
    MaxCases = 2
    Lengths = {9}
    Conditions = {2}
    MaxStatements = 4
    MaxRecovering = 3
    Families = {{"plain", "while", "do", "if", "break", "continue"},
                {"plain", "for", "while", "switch", "break", "continue"},
                {"export", "try", "plain fn", "async", "generator", "class", "method", "while", "break"}}
    MaxTokens = 7
    Alphabets = {{"id", "(", ")", "-", "!", "+", "*"},
                 {"lit", "*", "<", "==", "&&", "||"},
                 {"id", "(", ")", ",", "[", "]", "=", "+="},
                 {"id", "istr", "{", "}", ":", ",", "."},
                 {"id", "new", "this", "super", ".", "(", ")"},
                 {"id", "++", "await", "yield", "end"}}
    Sources <- MCSources
    Letters = {"a", "b"}
    Keywords <- MCKeywords
INVARIANTS  ContextsBalanced  LexedRight
CHECK_DEADLOCK FALSE
