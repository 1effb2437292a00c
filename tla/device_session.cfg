CONSTANTS
    c1 = c1
    c2 = c2
    r = r
    Jobs <- TerminalAndSession
    Repls <- SessionOnly
    Servers = {p1, p2}
    Bundles = {b1}
    Operations = {"preview", "run"}
    None = None
SPECIFICATION Spec
INVARIANT OneController
