\* Two principals, each in up to one group, one address and one list
\* address each, and up to two calls of from_config.
CONSTANTS
    Names <- MC_Names
    Addr <- MC_Addr
    Lower <- MC_Lower
    DomainOf <- MC_DomainOf
    MaxPrincipals = 2
    MaxGroups = 1
    MaxEmails = 1
    MaxLists = 1
    MaxAttempts = 2
SPECIFICATION Spec
INVARIANT TypeOK
INVARIANT IdsAgree
\* from_config returns Some or, after the last attempt, None.
CHECK_DEADLOCK FALSE
