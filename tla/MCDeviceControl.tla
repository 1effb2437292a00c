--------------------------- MODULE MCDeviceControl ---------------------------
(* TLC instances of DeviceControl: terminals c1 and c2, session r. *)
EXTENDS DeviceControl, TLC

CONSTANTS c1, c2, r

Terminals == {c1, c2}
TerminalAndSession == {c1, r}
SessionOnly == {r}
NoSession == {}
=============================================================================
