SPECIFICATION Spec
CONSTANTS
    NJobs = 3
    JobRows <- MCJobRows
    Targets = {1, 3, 4, 6}
    Rankings <- MCRankings
    SemanticMin = 2
    MaxCandidates = 3
INVARIANT
    LeastTimeToGoal
