CONSTANTS
    SubReactors = 4
    None = None
SPECIFICATION Spec
INVARIANTS
    RunsItsReactor
CHECK_DEADLOCK FALSE
