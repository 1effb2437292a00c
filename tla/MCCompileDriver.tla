--------------------------- MODULE MCCompileDriver ---------------------------
(* A policy of two graphs; the first has a fallback precision, and is     *)
(* exported in two versions.                                              *)
EXTENDS CompileDriver

CONSTANTS vision, expert, v1, v2, e1

MCPlan == <<vision, expert>>
MCPrecisions == [g \in {vision, expert} |-> IF g = vision THEN <<"bf16", "int8">> ELSE <<"bf16">>]
MCInputs == [g \in {vision, expert} |-> IF g = vision THEN {v1, v2} ELSE {e1}]
=============================================================================
