SPECIFICATION Spec
CONSTANTS
    Threads = {t1, t2}
    Objects = {o1, o2}
    Handles = {h1, h2}
    NoHandle = NoHandle
SYMMETRY Symmetry
INVARIANTS
    TypeOK
    HandleHasOneOwner
    ErrorIsOwn
    FaultedIsShut
