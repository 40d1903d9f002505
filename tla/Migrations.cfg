\* Two runners, four runs of six releases; two faults.
SPECIFICATION Spec
CONSTANTS
    m1 = m1
    m2 = m2
    a = a
    b = b
    b2 = b2
    c = c
    Gone = Gone
    Runners = {m1, m2}
    NoRunner = NoRunner
    Versions = {1, 2, 3}
    Contents = {a, b, b2, c}
    Releases <- SixReleases
    Legacy <- LegacySchema
    Absent = Absent
    NoChecksum = NoChecksum
    MaxRuns = 4
    MaxFaults = 2
\* The runs end.
CHECK_DEADLOCK FALSE
SYMMETRY Symmetry
INVARIANTS
    LedgerIsTrue
    ServicesFindTheirSchema
PROPERTY
    UpgradesOnly
