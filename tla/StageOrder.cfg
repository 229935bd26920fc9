SPECIFICATION Spec
CONSTANTS
    Names = {1, 2, 3, 4}
    Unknown = 5
CHECK_DEADLOCK FALSE
INVARIANTS DependenciesFirst OutcomeFits
PROPERTY Ends
