--------------------------- MODULE MCBundlePacking ---------------------------
(* TLC instance of BundlePacking: trees of two graphs, as the exporters and  *)
(* the compile driver leave them and as hand-built ones are found.           *)
EXTENDS BundlePacking

CONSTANTS vision, action

MCGraphs == <<vision, action>>

\* The places an ELF of `vision' is found in; `action' was just compiled.
Layouts == {{"retained", "retained_rejected"}, {"retained_v2", "retained_rejected"},
            {"retained_v2", "retained_v3", "mpk"}, {"retained_rejected", "legacy"},
            {"own", "other", "retained"}, {"other", "models"}, {"other", "second", "legacy"}, {"mpk_empty", "legacy"}}

ElfsIn(layout) ==
    [g \in {vision, action} |->
       [p \in Places |-> IF p \in (IF g = vision THEN layout ELSE {"retained"})
                         THEN [graph |-> g, from |-> p] ELSE None]]

HandBuilt ==
    [policy : {"act", "smolvla"}, elf : {ElfsIn(l) : l \in Layouts}, archive : {"none", "older"},
     direct : {FALSE}, fixture : {0}, stats : {None, 0},
     constants : {None, 0}, moments : {"own", "packed", "short", "none"}]

Exported ==
    [policy : DOMAIN Wire, elf : {ElfsIn({"own", "retained"})}, archive : {"exported"},
     direct : {FALSE}, fixture : {0}, stats : {0}, constants : {0}, moments : {"own"}]

MCBuildTrees ==
    {t \in HandBuilt \cup Exported :
       t.policy = "act" => t.constants = None /\ t.moments = "none"}
    \cup {[t EXCEPT !.direct = TRUE, !.archive = a, !.constants = None, !.moments = "none"] :
            t \in {e \in Exported : e.policy = "act"}, a \in {"none", "exported"}}
    \cup {[t EXCEPT !.archive = "none"] : t \in {e \in Exported : e.policy \in {"groot", "groot17"}}}
=============================================================================
