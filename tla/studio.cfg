CONSTANTS
    Requests = {r1, r2}
    Children = {c1, c2}
    Tokens = {t1}
    Configs = {cfgA, cfgB}
    Rows = {w1, w2}
    None = None
    Operations = {"arm", "robot", "stop", "control", "halt", "mismatch", "reset", "shutdown"}
SPECIFICATION Spec
INVARIANTS TypeOK  BusyIsBacked  RobotWasArmed CloseHaltsItsChild
SYMMETRY Symmetry
