\* Three sessions and a channel of two: the channel fills, a sender waits
\* on it, and Stop can have events queued before and behind it.
CONSTANTS
    c1 = c1
    c2 = c2
    c3 = c3
    Callers <- MC_Callers
    Cap = 2
SPECIFICATION Spec
INVARIANT TypeOK
INVARIANT AcceptedBeforeStopDelivered
PROPERTY AnsweredEventually
\* Once every session is answered and Stop is handled, or no Stop comes
\* and the manager waits on an empty channel, the system rests.
CHECK_DEADLOCK FALSE
