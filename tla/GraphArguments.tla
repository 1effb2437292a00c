--------------------------- MODULE GraphArguments ---------------------------
(***************************************************************************)
(* What every exported graph of GR00T takes the elements of its inputs to  *)
(* be, from the exporter's side (policies/groot*/graphs.py: trace,         *)
(* export_all, verify_chain), and, for all four policies, the arguments a  *)
(* plan should give each ELF it runs.                                      *)
(***************************************************************************)
EXTENDS PolicyGraphs

\* Element i of the n-th output of what the exporter runs before `graph' in `order'.
OfPrevious(order, graph, n, i) ==
    From(order[(CHOOSE k \in DOMAIN order : order[k] = graph) - 1], n, i)

\* The actions before Euler step n.
Actions(n, i) == IF n = 1 THEN OnWire("noise", i) ELSE From("actions", n - 1, i)

\* The n-th denoise step of the action head; `backbone' is the graph that ends the
\* language model.  A pair takes the text mask when its first block is a multiple of 4.
HeadArgument(g, backbone, graph, n, name, i) ==
    LET blocks == BlockNames(g)
        first  == graph = blocks[1]
        pair   == CHOOSE k \in DOMAIN blocks : blocks[k] = graph
    IN  CASE name = "state"   -> IF i < Dim THEN From("state_normalized", 1, i) ELSE Zeroes
          [] name = "actions" -> Actions(n, i)
          [] name = "tau_embedding" -> InBundle(Numbered("tau_embedding_", n), i)
          [] name = "temb"    -> InBundle(Numbered("timestep_embedding_", n), i)
          [] name = "backbone_features" -> From(backbone, 1, i)
          [] name = "additive_mask" ->
               InBundle(IF (2 * (pair - 1)) % 4 = 0 THEN "text_additive_mask"
                        ELSE "image_additive_mask", i)
          [] name = "hidden" /\ graph = "action_tail" -> From(blocks[g.pairs], n, i)
          [] name = "hidden" /\ first ->
               IF i < g.hidden THEN From("state_project", 1, i)
               ELSE From("action_project", n, i - g.hidden)
          [] OTHER -> OfPrevious(blocks, graph, n, i)

InHead(g, graph) == graph \in DOMAIN HeadGraphs(g)

------------------------------------------------------------------------------
(* N1.6 *)

VisionExported == <<"eagle_vision_patch">> \o VisionStageNames \o <<"eagle_vision_post_norm">>
QwenExported   == Append(QwenStageNames, "eagle_output_norm")

\* pixel_unshuffle_tokens: torch.pixel_unshuffle of the grid, channels first.
Unshuffled(token, channel) ==
    LET f == N16.unshuffle
        side == N16.side \div f
        x == ((token % side) * f) + (channel % f)
        y == ((token \div side) * f) + ((channel \div f) % f)
    IN  (y * N16.side + x) * N16.vision + channel \div (f * f)

\* The prompt, with the connector's tokens in the window.
PromptArgument(i) ==
    LET at == i - N16.image_start * N16.language
    IN  IF at \in 0 .. ConnectorWidth * N16.language - 1 THEN From("eagle_vision_connector", 1, at)
        ELSE InBundle("prompt_embedding", i)

GrootArgument(graph, n, name, i) ==
    LET wide == N16.vision * N16.unshuffle * N16.unshuffle
    IN  CASE InHead(N16, graph) -> HeadArgument(N16, "eagle_output_norm", graph, n, name, i)
          [] graph = "eagle_vision_patch" -> OnWire("patches", i)
          [] graph = "eagle_vision_connector" ->
               From("eagle_vision_post_norm", 1, Unshuffled(i \div wide, i % wide))
          [] graph = QwenExported[1] -> PromptArgument(i)
          [] graph \in ToSet(QwenExported) -> OfPrevious(QwenExported, graph, 1, i)
          [] OTHER -> OfPrevious(VisionExported, graph, 1, i)

------------------------------------------------------------------------------
(* N1.7; a graph of the vision tower runs for image n - 1 for the n-th time. *)

VisionExported17   == <<"vit_patch">> \o VisionBlockNames \o <<"vit_merger">>
LanguageExported17 == LlmNames \o SelfAttentionNames

\* scatter_runs: each image's tokens of `graph' on its run, `outside' elsewhere.
Scattered(graph, i, outside) ==
    LET token == i \div N17.language
        at(k) == token - N17.visual_runs[k][1]
        images == {k \in 1 .. N17.images : at(k) \in 0 .. N17.visual_runs[k][2] - 1}
        image == CHOOSE k \in images : TRUE
    IN  IF images = {} THEN outside
        ELSE From(graph, image, (at(image) * N17.language) + (i % N17.language))

\* _export_vision takes tap t after the pair that ends with its block.
TapArgument(t, n, i) ==
    From(PairName("vit_blocks", N17.deepstack[t + 1] - 1, N17.deepstack[t + 1]), n, i)

Groot17Argument(graph, n, name, i) ==
    CASE InHead(N17, graph) ->
           HeadArgument(N17, SelfAttentionNames[Len(SelfAttentionNames)], graph, n, name, i)
      [] graph = "vit_patch" -> OnWire(Numbered("patches_", n - 1), i)
      [] \E t \in Taps : graph = DeepstackName(t) ->
           TapArgument(CHOOSE t \in Taps : graph = DeepstackName(t), n, i)
      [] graph \in ToSet(VisionExported17) -> OfPrevious(VisionExported17, graph, n, i)
      [] name # "hidden" ->
           Scattered(DeepstackName(CHOOSE t \in Taps : name = Numbered("deepstack_", t)), i, Zeroes)
      [] graph = LanguageExported17[1] ->
           Scattered("vit_merger", i, InBundle("prompt_embedding", i))
      [] OTHER -> OfPrevious(LanguageExported17, graph, 1, i)

------------------------------------------------------------------------------
(* All four *)

\* Element i of input `name' of a graph, the n-th time it runs.
Argument(p, graph, n, name, i) ==
    CASE p = "act"     -> ActArgument(graph, n, i)
      [] p = "smolvla" -> SmolVLAArgument(graph, n, i)
      [] p = "groot"   -> GrootArgument(graph, n, name, i)
      [] p = "groot17" -> Groot17Argument(graph, n, name, i)

\* The inputs of a graph, end to end in the order its GraphSpec declares.
Arguments(p, graph, n) ==
    LET inputs == Graphs[p][graph].inputs
    IN  FlattenSeq([j \in DOMAIN inputs |->
          [i \in 1 .. inputs[j].elements |-> Argument(p, graph, n, inputs[j].name, i - 1)]])

\* What an Euler step integrates and what is denormalized at the end: the velocity of
\* its own step, and the joints of every lane after the last.
Operand(p, op, n, i) ==
    LET tail == IF p = "smolvla" THEN "denoise" ELSE "action_tail"
        x    == IF p = "smolvla" THEN "x" ELSE "actions"
        lane == CASE p = "smolvla" -> Lane [] p = "groot" -> N16.lane [] OTHER -> N17.lane
    IN  IF op = "euler" THEN From(tail, n, i)
        ELSE From(x, DenoiseSteps, ((i \div Dim) * lane) + (i % Dim))

\* The steps whose operands the exported model fixes, and their operands in order.
Fixed(s) == RunsElf(s) \/ s.op \in {"euler", "denormalize"}

Expected ==
    [p \in Policies |-> [k \in {j \in DOMAIN Steps[p] : Fixed(Steps[p][j])} |->
       LET s == Steps[p][k]
           n == RunOf(Steps[p], k)
       IN  IF RunsElf(s) THEN Arguments(p, Stages(s)[1], n)
           ELSE [i \in 1 .. Buffers[p][s.out] |-> Operand(p, s.op, n, i - 1)]]]

\* Inside a chain, stage j is given the output of stage j - 1.
ChainsFollow ==
    [p \in Policies |-> [k \in {j \in DOMAIN Steps[p] : RunsElf(Steps[p][j])} |->
       LET stages == Stages(Steps[p][k])
           n == RunOf(Steps[p], k)
       IN  \A j \in 2 .. Len(stages) :
             LET arguments == Arguments(p, stages[j], n)
             IN  arguments = [i \in DOMAIN arguments |-> From(stages[j - 1], n, i - 1)]]]

\* The actions a client is given: the joints of the decoder's every lane for ACT, and
\* for the rest what is denormalized.
ExpectedResult(p, i) ==
    IF p = "act" THEN From("decoder_action_tail", 1, ((i \div Dim) * Lane) + (i % Dim))
    ELSE From(Result[p], 1, i)

\* The statistics of element i: its joint's, and for N1.7's relative actions those of
\* its action step too, a row of joints for each.
Statistic(p, s, i) ==
    IF p = "groot17" /\ s.op = "denormalize" THEN ((i \div Dim) * Dim) + (i % Dim) ELSE i % Dim

\* The plans of which no step reads or writes past a buffer or a constant, not even where
\* run_step does not check it (matvec, the statistics, euler), with the constants the
\* exporters write; and every value is scaled by the statistics of its own joint
\* (sidecar.hpp, "Retrain and the compiled server is quietly wrong"; plan.cpp 398-464).
Fitting ==
    {p \in Policies : \A k \in DOMAIN Steps[p] :
      LET s == Steps[p][k]
          wiring == Wiring(Storage[p], s)
      IN  /\ ~Missing(Storage[p], s)
          /\ DOMAIN wiring \subseteq Indices(Storage[p][s.out])
          /\ \A cell \in Reads(Storage[p], s) \ {Zero} : cell[2] \in Indices(Storage[p][cell[1]])
          /\ s.op \in {"normalize", "denormalize"} =>
               \A i \in DOMAIN wiring :
                 {<<s.mean, Statistic(p, s, i)>>, <<s.std, Statistic(p, s, i)>>} \subseteq wiring[i]}
=============================================================================
