---------------------------- MODULE PolicyGraphs ----------------------------
(***************************************************************************)
(* The four policies side by side: their plans, the graphs their           *)
(* PolicySpecs declare (policies/*/__init__.py), what validate() and then  *)
(* Plan::Plan ask of the two together.                                     *)
(***************************************************************************)
EXTENDS GrootPlans

CONSTANT Lanes           \* the 16 lanes of the HWC16 layout

ASSUME LanesAssumption == Lanes \in Nat \ {0}

Policies == {"act", "smolvla", "groot", "groot17"}

Wire == [act |-> ActWire, smolvla |-> SmolVLAWire, groot |-> GrootWire, groot17 |-> Groot17Wire]
Buffers == [act |-> ActBuffers, smolvla |-> SmolVLABuffers,
            groot |-> GrootBuffers, groot17 |-> Groot17Buffers]
Steps == [act |-> ActSteps, smolvla |-> SmolVLASteps,
          groot |-> GrootSteps, groot17 |-> Groot17Steps]
Result == [act |-> "actions", smolvla |-> "actions",
           groot |-> "action_chunk", groot17 |-> "action_chunk"]

------------------------------------------------------------------------------
(* The files under constants/, as the exporters write them (write_fixtures,     *)
(* write_normalization of policies/*/graphs.py), with their elements.           *)

Statistics(actions) ==
    [state_mean |-> Dim, state_std |-> Dim, action_mean |-> actions, action_std |-> actions]

\* As SmolVLAFiles, with the projection's weights cut to the joints.
SmolVLAFilesUnpadded ==
    [empty_image_embedding |-> ImageBlock, language_embedding |-> LanguageTokens * Hidden,
     state_project_weight |-> Hidden * Dim, state_project_bias |-> Hidden] ++ Statistics(Dim)

SmolVLAFiles ==
    [empty_image_embedding |-> ImageBlock, language_embedding |-> LanguageTokens * Hidden,
     state_project_weight |-> Hidden * Lane, state_project_bias |-> Hidden] ++ Statistics(Dim)

PromptFiles(g) ==
    [prompt_embedding |-> BackboneElements(g),
     text_additive_mask |-> g.sequence, image_additive_mask |-> g.sequence]

HeadFiles(g, actions) ==
    PromptFiles(g)
    ++ [b \in {Numbered("tau_embedding_", n) : n \in 1 .. DenoiseSteps} |-> TauElements(g)]
    ++ [b \in {Numbered("timestep_embedding_", n) : n \in 1 .. DenoiseSteps} |-> g.hidden]
    ++ Statistics(actions)

GrootFiles == HeadFiles(N16, Dim)
\* N1.7's actions are relative: a row of statistics for each action step.
Groot17Files == HeadFiles(N17, Chunk * Dim)

Constants == [act |-> <<>>, smolvla |-> SmolVLAFiles,
              groot |-> GrootFiles, groot17 |-> Groot17Files]

\* Numbered names (temb_1, patches_0, ...) are none of the others and none of another
\* prefix, and no graph of a chain is named as one that runs by itself.
FixedNames ==
    UNION {DOMAIN tensors : tensors \in {HeadTensors(N16), VisionTensors, ChainTensors,
                                        PromptFiles(N16), Statistics(Dim)}}
NameFamilies ==
    << FixedNames,
       {Numbered("temb_", n) : n \in 1 .. DenoiseSteps},
       {Numbered("tau_embedding_", n) : n \in 1 .. DenoiseSteps},
       {Numbered("timestep_embedding_", n) : n \in 1 .. DenoiseSteps},
       {Numbered("patches_", image) : image \in Images},
       {Numbered("image_tokens_", image) : image \in Images}
         \cup {Deepstack(t, image) : t \in Taps, image \in Images},
       {Numbered("deepstack_full_", t) : t \in Taps} >>
HeadNames(g) == {"state_project", "action_project", "action_tail"} \cup ToSet(BlockNames(g))

ASSUME NamesAssumption ==
    /\ \A j, k \in DOMAIN NameFamilies : j # k => NameFamilies[j] \cap NameFamilies[k] = {}
    /\ (ToSet(VisionChain) \cup ToSet(QwenChain))
         \cap (HeadNames(N16) \cup {"eagle_vision_connector"}) = {}
    /\ ({"vit_patch"} \cup ToSet(VisionBlockNames) \cup ToSet(LanguageChain))
         \cap (HeadNames(N17) \cup {"vit_merger", LlmNames[1], LlmNames[2]}
               \cup {DeepstackName(t) : t \in Taps}) = {}

\* Everything a step can name.
Storage == [p \in Policies |-> Buffers[p] ++ Constants[p]]

------------------------------------------------------------------------------
(* GraphSpec: the inputs in order, the output's elements, its logical channels *)
(* when it is in HWC16 (0 otherwise), and whether both ends are flat HWC.       *)

In(name, elements) == [name |-> name, elements |-> elements]
PlainGraph(inputs, out) == [inputs |-> inputs, out |-> out, channels |-> 0, hwc |-> FALSE]
HwcGraph(name, in, out) == [PlainGraph(<<In(name, in)>>, out) EXCEPT !.hwc = TRUE]
Tessellated(inputs, width, channels) ==
    [PlainGraph(inputs, width * channels) EXCEPT !.channels = channels]
\* The same graph under each of the names.
Each(names, graph) == [name \in {names[k] : k \in DOMAIN names} |-> graph]

ActGraphs ==
    LET tokens == (ActTokens + 1) * Hidden
    IN  [vision_backbone |-> PlainGraph(<<In("image", ImageElements)>>, CameraTokens * Hidden),
         encoder_layer_00_stem |-> PlainGraph(<<In("stem_input", ActTokens * Hidden)>>, tokens),
         decoder_action_tail |-> PlainGraph(<<In("hidden", tokens)>>, Chunk * Lane)]
        ++ Each(<<"encoder_layer_01", "encoder_layer_02", "encoder_layer_03">>,
                PlainGraph(<<In("hidden", tokens)>>, tokens))

SmolVLAGraphs ==
    [vision |-> HwcGraph("image", ImageElements, ImageBlock),
     prefix |-> HwcGraph("prefix_embeddings", PrefixTokens * Hidden, CacheTokens * Width),
     suffix |-> PlainGraph(<<In("suffix_input", Chunk * SuffixToken)>>, Chunk * Expert),
     denoise |-> Tessellated(<<In("denoise_input", DenoiseTokens * Width)>>, Chunk, Lane)]

HeadGraphs(g) ==
    LET temb == In("temb", g.hidden)
        hidden == In("hidden", HiddenElements(g))
    IN  [state_project |-> Tessellated(<<In("state", g.lane)>>, 1, g.hidden),
         action_project |-> Tessellated(<<In("actions", ActionElements(g)),
                                          In("tau_embedding", TauElements(g))>>, Chunk, g.hidden),
         action_tail |-> Tessellated(<<hidden, temb>>, Chunk, g.lane)]
        ++ Each(BlockNames(g),
                Tessellated(<<hidden, temb, In("backbone_features", BackboneElements(g)),
                              In("additive_mask", g.sequence)>>, 1 + Chunk, g.hidden))

GrootHeadGraphs == HeadGraphs(N16)
Groot17HeadGraphs == HeadGraphs(N17)

GrootGraphs ==
    [eagle_vision_patch |-> HwcGraph("hidden", VisionWidth * N16.patch, VisionElements),
     eagle_vision_connector |->
       Tessellated(<<In("hidden", VisionElements)>>, ConnectorWidth, N16.language)]
    ++ Each(Append(VisionStageNames, "eagle_vision_post_norm"),
            HwcGraph("hidden", VisionElements, VisionElements))
    ++ Each(QwenChain, HwcGraph("hidden", BackboneElements(N16), BackboneElements(N16)))
    ++ GrootHeadGraphs

\* The first two pairs of the language model also take the taps they add.
LlmTaps == << <<0, 1>>, <<2>> >>

LlmEntry(k) ==
    Tessellated(<<In("hidden", BackboneElements(N17))>>
                \o [j \in DOMAIN LlmTaps[k] |->
                      In(Numbered("deepstack_", LlmTaps[k][j]), BackboneElements(N17))],
                N17.sequence, N17.language)

Groot17Graphs ==
    LET vision == N17.patches * N17.vision
        merger == Tessellated(<<In("hidden", vision)>>, N17.merged, N17.language)
    IN  [vit_patch |-> HwcGraph("hidden", N17.patches * N17.patch, vision), vit_merger |-> merger]
        ++ Each(VisionBlockNames, HwcGraph("hidden", vision, vision))
        ++ Each([k \in 1 .. Len(N17.deepstack) |-> DeepstackName(k - 1)], merger)
        ++ Each(<<LlmNames[1]>>, LlmEntry(1)) ++ Each(<<LlmNames[2]>>, LlmEntry(2))
        ++ Each(LanguageChain, HwcGraph("hidden", BackboneElements(N17), BackboneElements(N17)))
        ++ Groot17HeadGraphs

Graphs == [act |-> ActGraphs, smolvla |-> SmolVLAGraphs,
           groot |-> GrootGraphs, groot17 |-> Groot17Graphs]

------------------------------------------------------------------------------
(* Packing and loading *)

SumOf(elements) ==
    LET sum[k \in 0 .. Len(elements)] == IF k = 0 THEN 0 ELSE sum[k - 1] + elements[k]
    IN  sum[Len(elements)]
InputElements(graph) == SumOf([j \in DOMAIN graph.inputs |-> graph.inputs[j].elements])

\* GraphSpec.validate and TensorSpec.validate: static tensors at both ends, and one at
\* each when the boundary is promoted to HWC (of the HWC graphs only SmolVLA's prefix
\* is not, and it has one input too).
GraphFits(graph) ==
    /\ graph.inputs # <<>> /\ graph.out > 0
    /\ \A j \in DOMAIN graph.inputs : graph.inputs[j].elements > 0
    /\ graph.hwc => Len(graph.inputs) = 1

\* The stages of a shared chain: all HWC, one input each, one size from the first
\* output on.
ChainFits(graphs) ==
    /\ Len(graphs) >= 2
    /\ \A k \in DOMAIN graphs :
         /\ graphs[k].hwc /\ Len(graphs[k].inputs) = 1
         /\ graphs[k].out = graphs[1].out
         /\ k > 1 => InputElements(graphs[k]) = graphs[k - 1].out

\* The graphs', RuntimePlan.validate and the part of PolicySpec.validate about the plan, which
\* registering a policy and packing a bundle run.  That an HWC16 output is a whole
\* number of lanes wide they do not ask.
Validates(p) ==
    /\ \A g \in DOMAIN Graphs[p] : GraphFits(Graphs[p][g])
    /\ Result[p] \in DOMAIN Buffers[p]
    /\ \A k \in DOMAIN Steps[p] :
         LET s == Steps[p][k]
             graphs == [j \in DOMAIN Stages(s) |-> Graphs[p][Stages(s)[j]]]
         IN  /\ s.out \in DOMAIN Buffers[p]
             /\ RunsElf(s) =>
                  /\ \A j \in DOMAIN Stages(s) : Stages(s)[j] \in DOMAIN Graphs[p]
                  /\ \A j \in DOMAIN s.in : s.in[j] \in DOMAIN Buffers[p]
                  /\ s.op = "run_elf_chain" => Len(s.in) = 1 /\ ChainFits(graphs)
                  /\ Buffers[p][s.out] = graphs[Len(graphs)].out
                  /\ SumOf([j \in DOMAIN s.in |-> Buffers[p][s.in[j]]]) = InputElements(graphs[1])

\* The graphs of the chains: each chain loads its own ELFs, the rest get a Runner.
ChainedGraphs(p) ==
    UNION {ToSet(Stages(Steps[p][k])) : k \in {j \in DOMAIN Steps[p] :
                                                 Steps[p][j].op = "run_elf_chain"}}

\* Plan::Plan and SharedRunnerChain accept the plan, and the server finds a buffer for
\* every tensor of the wire.
Loads(p) ==
    /\ Result[p] \in DOMAIN Buffers[p]
    /\ ToSet(Wire[p]) \subseteq DOMAIN Buffers[p]
    /\ \A k \in DOMAIN Steps[p] :
         LET s == Steps[p][k]
             graphs == [j \in DOMAIN Stages(s) |-> Graphs[p][Stages(s)[j]]]
         IN  /\ s.out \in DOMAIN Buffers[p]
             /\ s.op = "run_elf" => s.graph \in DOMAIN Graphs[p] \ ChainedGraphs(p)
             /\ s.op = "run_elf_chain" =>
                  /\ \A j \in DOMAIN graphs :
                       /\ graphs[j].hwc /\ graphs[j].out = graphs[1].out
                       /\ j > 1 => InputElements(graphs[j]) = graphs[1].out
                  /\ Buffers[p][s.in[1]] = InputElements(graphs[1])
                  /\ Buffers[p][s.out] = graphs[Len(graphs)].out

\* detessellate_hwc16 throws on the output of an ELF (of the last of a chain) unless
\* it fills the lanes.
FillsLanes(p, s) ==
    LET graph == Graphs[p][Computes(s)]
    IN  graph.channels # 0 => graph.channels % Lanes = 0
=============================================================================
