SPECIFICATION TreeSpec
CONSTANTS
    Data <- LookalikeData
    MaxLeaves = 9
    MaxCompared = 4
INVARIANT RootIsTreeHash
INVARIANT ProofsBindLeaf
INVARIANT RootsDiffer
CHECK_DEADLOCK FALSE
