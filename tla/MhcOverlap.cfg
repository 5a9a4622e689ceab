SPECIFICATION Spec
CONSTANTS
    Forwards = 4
    Subs = 2
    Bufs = 4
    Ahead = 2
INVARIANTS
    CoefficientsAreOwn
    WholeGraphs
    NoMixedLaunch
