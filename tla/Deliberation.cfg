\* The program's three waves, and a budget of four, which three personas can
\* exhaust (its own budget of six takes a fourth).
CONSTANTS
    a = a
    b = b
    c = c
    Personas = {a, b, c}
    None = None
    Budget = 4
    WaveCap = 3
SPECIFICATION Spec
INVARIANTS TypeOK BudgetConserved CloseGuaranteed Coalesced HonestStop
PROPERTIES NoRequestDropped Terminates ImplementsBounded
