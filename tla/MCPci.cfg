CONSTANTS
    NULL = NULL
    Devs = {a, b, c}
    BarSize = 4
    BarVals <- MCBarVals
SYMMETRY MCSymmetry
SPECIFICATION Spec
INVARIANTS
    TypeOK
    LookupTerminates
    OnBusIffDecoding
    AccessesRouted
