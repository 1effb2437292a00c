CONSTANTS
    Requests = {r1}
    Children = {c1, c2}
    Tokens = {}
    Configs = {}
    Rows = {w1}
    None = None
    Operations = {"control", "halt", "reset", "server", "terminal", "preview", "benchmark"}
SPECIFICATION FairSpec
PROPERTIES  StoppingEnds StopControlCompletes StopControlReleasesServer
