\* One command at a time, crashes anywhere before the file is rewritten, two
\* families; checked against the abstract switch too.
SPECIFICATION Spec
CONSTANTS
    Families = {f1, f2}
    Desks = {d1}
    Operators = {o1}
    NULL = NULL
    Serial = TRUE
    CrashPoints <- BeforeWrite
    MaxSec = 1
    MaxLines = 3
INVARIANTS
    ReadsEnforceAcked
    ActivationHasIncident
    IncidentIdsUnique
PROPERTIES
    KeepsPromise
