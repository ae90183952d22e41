SPECIFICATION Spec
CONSTANTS
    Kinds <- AllOfThem
    DebounceOf <- ShortDebounce
    Numbers = 3
    MaxResets = 1
INVARIANTS
    TypeOK
    RecordTrue
    WellNumbered
PROPERTY
    EventuallyShown
