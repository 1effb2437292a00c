CONSTANTS
    c1 = c1
    c2 = c2
    r = r
    Jobs <- Terminals
    Repls <- NoSession
    Servers = {p1, p2, p3}
    Bundles = {b1}
    Operations = {"start", "stop", "run"}
    None = None
SPECIFICATION Spec
PROPERTY StartedMeansOpen
