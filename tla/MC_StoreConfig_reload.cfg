\* A reload that adds a second store of an embedded protocol already open.
CONSTANTS
    N = 2
    Protocols <- MC_Protocols
    MaxReloads = 1
SPECIFICATION Spec
INVARIANT ReloadOpensConfigured
\* parse_all and the reload return; the last state is the end of the run.
CHECK_DEADLOCK FALSE
