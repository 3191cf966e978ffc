CONSTANTS
    Names <- MCNames
    Sources <- MCSources
    Edited <- MCEdited
    Added <- MCAdded
    Headers <- MCHeaders
    Commands <- MCCommands
    MaxEdits = 1
    MaxJobs = 2
SPECIFICATION Spec
INVARIANT SameAsEager
