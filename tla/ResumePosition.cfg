SPECIFICATION ResumeSpec
CONSTANTS
    p1 = p1
    p2 = p2
    t1 = t1
    t2 = t2
    Profile <- MCProfile
    Title <- MCTitle
    WholeLength <- MCWholeLength
    Length = 3
    None = None
    MaxVisits = 2
    MaxSaves = 2
    MaxFaults = 1
SYMMETRY ProfileSymmetry
INVARIANTS
    SerialSavesKept
    ButtonTellsTruth
PROPERTIES
    ResumesOwnProgress
CHECK_DEADLOCK FALSE
