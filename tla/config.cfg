\* Two commands that may overlap, fail to save or be killed anywhere.
SPECIFICATION Spec
CONSTANTS
    Proc = {c1, c2}
    Ctx = {a, b}
    Port = {p1, p2}
    None = none
    Missing = missing
    Faults <- AllFaults
SYMMETRY AnyOrder
INVARIANTS
    TypeOK
    UsesNamed
    UniquePorts
    ContextsSurvive
PROPERTIES
    StopAllComesBack
\* every command ends
CHECK_DEADLOCK FALSE
