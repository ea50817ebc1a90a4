\* Two sessions race for the same recipient's single report of a window.
CONSTANTS
    s1 = s1
    s2 = s2
    r1 = r1
    r2 = r2
    Session <- MC_Session
    Rcpt <- MC_Rcpt
    Rate = 1
    MaxWindow = 1
    MaxCalls = 2
SPECIFICATION Spec
INVARIANT TypeOK
INVARIANT ThrottleBound
\* Every session finishes its calls and time stops at MaxWindow: the
\* final state, all sessions idle, is the end of the bounded run.
CHECK_DEADLOCK FALSE
