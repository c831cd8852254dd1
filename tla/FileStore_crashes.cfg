\* Kills and power losses between any two calls, on file systems that can and
\* that cannot sync directories.
SPECIFICATION Spec
CONSTANTS
    Data = {d1, d2}
    Empty = empty
    Missing = missing
    Torn = torn
    NoCall = nocall
INVARIANTS
    TypeOK
PROPERTIES
    SaveNeverTears
    ImplementsStateStore
