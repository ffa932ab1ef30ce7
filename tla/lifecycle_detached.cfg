\* The detached threads at the end of the process.
SPECIFICATION Spec
CONSTANTS
    MaxSignals = 1
INVARIANTS DetachedUseMapped
CHECK_DEADLOCK FALSE
