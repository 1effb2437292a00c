SPECIFICATION Spec
INVARIANTS TypeOK  ActivatedIsCurrent 
PROPERTIES  StartedServesDeployed 
CONSTANTS
    Pids = {p1, p2}
    Graphs <- MCGraphs
    Builds <- MCBuilds
    Trees <- MCTrees
    Natives = {n1}
    MaxDeploys = 2
    Options <- MCOptions
    Link = Link
    None = None
