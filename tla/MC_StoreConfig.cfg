\* Every configuration of two stores, every open outcome, two reloads.
CONSTANTS
    N = 2
    Protocols <- MC_Protocols
    MaxReloads = 2
SPECIFICATION Spec
INVARIANT TypeOK
INVARIANT ParseMatchesConfig
\* parse_all and the reload return; the last state is the end of the run.
CHECK_DEADLOCK FALSE
