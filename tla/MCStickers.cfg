SPECIFICATION Spec
CONSTANTS
    Imports = {i1, i2}
    Sets = {s1, s2}
    Files = {f1, f2}
    MaxLength = 2
    MaxImports = 3
    MaxDisables = 1
    MaxFaults = 2
INVARIANTS
    TypeOK
    DocumentsHaveObjects
    SetIsOneImport
    NoOtherOrphans
CHECK_DEADLOCK FALSE
SYMMETRY Symmetry
