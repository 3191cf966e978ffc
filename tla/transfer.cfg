SPECIFICATION FairSpec
CONSTANTS
    Dependencies <- MCDependencies
    Outputs <- MCOutputs
    Setups <- MCSetups
    Faults <- MCFaults
    MaxFaults = 1
    MaxRuns = 2
INVARIANTS IndexIsTrue DependenciesUploaded FilesAreRight
PROPERTY EveryRunEnds
