CONSTANTS
    c1 = c1
    c2 = c2
    r = r
    Jobs <- Terminals
    Repls <- NoSession
    Servers = {p1, p2}
    Bundles = {b1, b2}
    Operations = {"activate", "start", "stop", "preview", "run", "benchmark"}
    None = None
SPECIFICATION FairSpec
INVARIANTS TypeOK OneController  ReportedBundleIsLoaded
PROPERTIES ServerIsLeftAlone StoppedServerEnds
