SPECIFICATION Spec
CONSTANTS
    Faults = {slowQuery, poolExhausted}
    SlowFaults = {slowQuery}
    Delays = {d1}
    Default = Default
    NoBody = NoBody
    NoFault = NoFault
    Operators = {o1, o2}
    Requests = {r1}
    MaxToggles = 3
SYMMETRY Symmetry
INVARIANTS
    ResetIsComplete
    QuietRequestIsServed
CHECK_DEADLOCK FALSE
