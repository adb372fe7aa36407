\* systemctl enable/disable/is-enabled: two invocations at once
CONSTANTS
    p1 = p1
    p2 = p2
    Procs <- MCProcs
    MaxLevel = 2
    Names <- MCNames
    StartName <- MCStart
    StopName <- MCStop
    InitDirs <- MCInitDirs
SPECIFICATION Spec
SYMMETRY MCSymmetry
\* every invocation returns; the walk stops only then
CHECK_DEADLOCK FALSE
INVARIANT TypeOK Settled
PROPERTY NoForeignUnlink
