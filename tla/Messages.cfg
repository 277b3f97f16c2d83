\* Catalogs in two domains found in four folders of two paths; expressions of
\* up to two operators.
CONSTANTS
    Normal <- MCNormal
    Tables <- MCTables
    Setups <- MCSetups
    Messages <- MCMessageSet
    UnaryOperators = {"!", "-"}
    BinaryOperators = {"||", "&&", "==", "<", "-", "%", "/"}
    Operands <- MCOperands
    MaxSize = 2
    Counts = {0, 1, 3}
SPECIFICATION MCSpec
INVARIANTS
    TranslationIsShown
    AllDomainsOrNone
    ExpressionsAreExact
CHECK_DEADLOCK FALSE
