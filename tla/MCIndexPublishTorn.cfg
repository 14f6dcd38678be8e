CONSTANTS
    MaxBuilds = 2
    MaxFaults = 0
SPECIFICATION Spec
INVARIANT AtomicSwap
