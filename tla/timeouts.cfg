SPECIFICATION TimesSpec
CONSTANTS
    Job = {"a", "b"}
    ThunkTimeout <- MCThunkTimeout
    Multiplier = 2
    DefaultTimeout = 1
    Interval = 1
    Width = 3
    Capacity = 1
    MaxTime = 9
    MaxFailures = 1
INVARIANTS DuplicatesAreRationed TimeoutStaysBounded
