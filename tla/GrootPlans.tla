----------------------------- MODULE GrootPlans -----------------------------
(***************************************************************************)
(* GR00T N1.6 and N1.7 (policies/groot, policies/groot17): the buffers and *)
(* steps of their plans (runtime.py) and what their exported graphs take   *)
(* their inputs to be (graphs.py).  Both run a vision and a language model *)
(* in device-resident chains of ELFs and then the same action head, a      *)
(* diffusion transformer whose blocks are paired, one ELF each.            *)
(***************************************************************************)
EXTENDS PolicyPlans

\* The geometry of each, as records of the names of runtime.py in lower case; the
\* sizes of the code are too large to enumerate.
CONSTANTS N16, N17

\* What the action head of either needs.
HeadOf(g) ==
    /\ {g.hidden, g.lane, g.pairs, g.sequence, g.language} \subseteq Nat \ {0}
    /\ g.pairs % 2 = 0        \* "Sixteen pairs is even": the tail reads hidden_a
    /\ Dim <= g.lane

ASSUME GeometryAssumption ==
    /\ HeadOf(N16) /\ HeadOf(N17)
    /\ {N16.side, N16.patch, N16.vision, N16.vision_layers, N16.unshuffle, N16.qwen_layers,
        N16.image_start, N17.images, N17.patches, N17.patch, N17.vision, N17.vision_blocks,
        N17.merged, N17.llm_layers, N17.vl_layers} \subseteq Nat \ {0}
    /\ N16.side % N16.unshuffle = 0 /\ N16.qwen_layers % 2 = 0
    /\ N17.vision_blocks % 2 = 0 /\ N17.llm_layers % 2 = 0 /\ N17.llm_layers >= 8
    /\ N17.vl_layers % 2 = 0
    /\ N17.deepstack \in Seq(Nat) /\ Len(N17.deepstack) = 3 /\ Len(N17.visual_runs) = N17.images
    \* The image tokens lie in the prompt.
    /\ N16.image_start + ((N16.side * N16.side) \div (N16.unshuffle * N16.unshuffle)) <= N16.sequence
    /\ \A k \in 1 .. N17.images :
         LET start == N17.visual_runs[k][1]  length == N17.visual_runs[k][2]
         IN  /\ start \in Nat /\ length \in Nat /\ length <= N17.merged
             /\ start + length <= N17.sequence
    \* Each tap ends a pair, and there is a pair after the last.
    /\ \A t \in 1 .. 3 : N17.deepstack[t] % 2 = 1 /\ N17.deepstack[t] < N17.vision_blocks - 1

\* f"{prefix}{n}" and f"{prefix}_{first}_{last}".
Numbered(prefix, n) == prefix \o ToString(n)
PairName(prefix, first, last) == Numbered(Numbered(prefix \o "_", first) \o "_", last)

\* The layers by twos; the last of an odd number stands alone.
PairNames(prefix, layers) ==
    [k \in 1 .. (layers + 1) \div 2 |->
       PairName(prefix, 2 * (k - 1), (IF 2 * k <= layers THEN 2 * k ELSE layers) - 1)]

RunChain(graphs, in, out) == [op |-> "run_elf_chain", graphs |-> graphs, in |-> <<in>>, out |-> out]
FromSidecar(out, sidecar, count) == PackParts(out, << Part(sidecar, 0, count) >>)

------------------------------------------------------------------------------
(* The action head of both *)

ActionElements(g)   == Chunk * g.lane
TauElements(g)      == Chunk * g.hidden
HiddenElements(g)   == (1 + Chunk) * g.hidden
BackboneElements(g) == g.sequence * g.language

BlockNames(g) == PairNames("dit_blocks", 2 * g.pairs)

HeadTensors(g) ==
    [state |-> Dim, noise |-> ActionElements(g),
     language_embeddings |-> BackboneElements(g), backbone_features |-> BackboneElements(g),
     text_mask |-> g.sequence, image_mask |-> g.sequence,
     state_normalized |-> Dim, state_lane |-> g.lane, state_features |-> g.hidden,
     actions |-> ActionElements(g), action_input |-> ActionElements(g) + TauElements(g),
     action_features |-> TauElements(g),
     hidden_a |-> HiddenElements(g), hidden_b |-> HiddenElements(g),
     velocity |-> ActionElements(g),
     actions_lane |-> Chunk * Dim, action_chunk |-> Chunk * Dim]

HeadBuffers(g) ==
    HeadTensors(g)
    ++ [b \in {Numbered("temb_", n) : n \in 1 .. DenoiseSteps} |-> g.hidden]

\* The masks and the time embeddings, copied once.
HeadConstants(g) ==
    << FromSidecar("text_mask", "text_additive_mask", g.sequence),
       FromSidecar("image_mask", "image_additive_mask", g.sequence) >>
    \o [n \in 1 .. DenoiseSteps |->
          FromSidecar(Numbered("temb_", n), Numbered("timestep_embedding_", n), g.hidden)]

HeadState(g) ==
    << Moments("normalize", "state", "state_normalized", "state_mean", "state_std"),
       FromSidecar("state_lane", "state_normalized", Dim),
       RunElf("state_project", <<"state_lane">>, "state_features"),
       [op |-> "slice", src |-> "noise", out |-> "actions", offset |-> 0,
        count |-> ActionElements(g)] >>

\* As PairStep, giving every pair the text mask.
PairStepOneMask(g, n, k) ==
    RunElf(BlockNames(g)[k],
           << IF k % 2 = 1 THEN "hidden_a" ELSE "hidden_b", Numbered("temb_", n),
              "backbone_features", "text_mask" >>,
           IF k % 2 = 1 THEN "hidden_b" ELSE "hidden_a")

\* The k-th pair, of 1 .. pairs: ping-pong, and the masks in turn.
PairStep(g, n, k) ==
    RunElf(BlockNames(g)[k],
           << IF k % 2 = 1 THEN "hidden_a" ELSE "hidden_b", Numbered("temb_", n),
              "backbone_features", IF k % 2 = 1 THEN "text_mask" ELSE "image_mask" >>,
           IF k % 2 = 1 THEN "hidden_b" ELSE "hidden_a")

\* One Euler step of the flow matching.
HeadDenoise(g, n) ==
    << PackParts("action_input",
         << Part("actions", 0, ActionElements(g)),
            Part(Numbered("tau_embedding_", n), ActionElements(g), TauElements(g)) >>),
       RunElf("action_project", <<"action_input">>, "action_features"),
       PackParts("hidden_a", << Part("state_features", 0, g.hidden),
                                Part("action_features", g.hidden, TauElements(g)) >>) >>
    \o [k \in 1 .. g.pairs |-> PairStep(g, n, k)]
    \o << RunElf("action_tail", <<"hidden_a", Numbered("temb_", n)>>, "velocity"),
          Apply("euler", "velocity", "actions") >>

HeadSteps(g) ==
    HeadState(g) \o FlattenSeq([n \in 1 .. DenoiseSteps |-> HeadDenoise(g, n)])
    \o << Gather("actions", "actions_lane", g.lane, Dim, Dim, 0, FALSE),
          Moments("denormalize", "actions_lane", "action_chunk", "action_mean", "action_std") >>

------------------------------------------------------------------------------
(* N1.6 *)

GrootWire == <<"patches", "state", "noise">>

VisionWidth    == N16.side * N16.side
VisionElements == VisionWidth * N16.vision
ConnectorWidth == VisionWidth \div (N16.unshuffle * N16.unshuffle)

VisionStageNames == PairNames("eagle_vision", N16.vision_layers)
QwenStageNames == PairNames("eagle_qwen", N16.qwen_layers)
VisionChain == <<"eagle_vision_patch">> \o VisionStageNames \o <<"eagle_vision_post_norm">>
QwenChain == Append(QwenStageNames, "eagle_output_norm")

VisionTensors ==
    [patches |-> VisionWidth * N16.patch, vision_hidden |-> VisionElements,
     connector_input |-> VisionElements, image_tokens |-> ConnectorWidth * N16.language]

GrootBuffers == VisionTensors ++ HeadBuffers(N16)

\* One chain, the host's channel fold, the connector, then the prompt with the image
\* tokens over its window, and the second chain.
GrootSteps ==
    HeadConstants(N16)
    \o << RunChain(VisionChain, "patches", "vision_hidden"),
          [op |-> "pixel_unshuffle", src |-> "vision_hidden", out |-> "connector_input",
           grid |-> N16.side, channels |-> N16.vision, factor |-> N16.unshuffle],
          RunElf("eagle_vision_connector", <<"connector_input">>, "image_tokens"),
          PackParts("language_embeddings",
            << Part("prompt_embedding", 0, BackboneElements(N16)),
               Part("image_tokens", N16.image_start * N16.language,
                    ConnectorWidth * N16.language) >>),
          RunChain(QwenChain, "language_embeddings", "backbone_features") >>
    \o HeadSteps(N16)

------------------------------------------------------------------------------
(* N1.7 *)

Images == 0 .. N17.images - 1
Taps   == 0 .. Len(N17.deepstack) - 1

Groot17Wire == [k \in 1 .. N17.images |-> Numbered("patches_", k - 1)] \o <<"state", "noise">>

VisionBlockNames   == PairNames("vit_blocks", N17.vision_blocks)
LlmNames           == PairNames("llm", N17.llm_layers)
SelfAttentionNames == PairNames("vl_self_attention", N17.vl_layers)

\* Chain t of 0 .. 3 runs the pairs after tap t - 1 and up to tap t.
VisionChains(t) ==
    LET after == IF t = 0 THEN 0 ELSE (N17.deepstack[t] + 1) \div 2
        upTo  == IF t \in Taps THEN (N17.deepstack[t + 1] + 1) \div 2 ELSE Len(VisionBlockNames)
    IN  (IF t = 0 THEN <<"vit_patch">> ELSE <<>>) \o SubSeq(VisionBlockNames, after + 1, upTo)

LanguageChain == SubSeq(LlmNames, 3, Len(LlmNames)) \o SelfAttentionNames

\* Buffers of one tap of one image, and the graph that makes it.
Deepstack(t, image) == Numbered(Numbered("deepstack_", t) \o "_", image)
DeepstackName(t)    == Numbered("vit_deepstack_", t)
TokenElements       == N17.merged * N17.language

ChainTensors ==
    [vision_a |-> N17.patches * N17.vision, vision_b |-> N17.patches * N17.vision,
     llm_a |-> BackboneElements(N17), llm_b |-> BackboneElements(N17)]

Groot17Buffers ==
    ChainTensors ++ HeadBuffers(N17)
    ++ [b \in {Numbered("patches_", image) : image \in Images} |-> N17.patches * N17.patch]
    ++ [b \in {Numbered("image_tokens_", image) : image \in Images}
              \cup {Deepstack(t, image) : t \in Taps, image \in Images} |-> TokenElements]
    ++ [b \in {Numbered("deepstack_full_", t) : t \in Taps} |-> BackboneElements(N17)]

\* One image: the chains between the taps, vision_a and vision_b in turn.
ImageSteps(image) ==
    LET at(t) == IF t % 2 = 0 THEN "vision_a" ELSE "vision_b"
        from(t) == IF t = 0 THEN Numbered("patches_", image) ELSE at(t - 1)
    IN  FlattenSeq([k \in 1 .. Len(N17.deepstack) |->
          << RunChain(VisionChains(k - 1), from(k - 1), at(k - 1)),
             RunElf(DeepstackName(k - 1), <<at(k - 1)>>, Deepstack(k - 1, image)) >>])
        \o << RunChain(VisionChains(3), from(3), at(3)),
              RunElf("vit_merger", <<at(3)>>, Numbered("image_tokens_", image)) >>

\* _runs: one part for each image, landing on its run of tokens.
Runs(prefix) ==
    [k \in 1 .. N17.images |->
       Part(Numbered(prefix, k - 1), N17.visual_runs[k][1] * N17.language,
            N17.visual_runs[k][2] * N17.language)]

Groot17Language ==
    << PackParts("language_embeddings",
         << Part("prompt_embedding", 0, BackboneElements(N17)) >> \o Runs("image_tokens_")) >>
    \o [k \in 1 .. Len(N17.deepstack) |->
          PackParts(Numbered("deepstack_full_", k - 1), Runs(Numbered("deepstack_", k - 1) \o "_"))]
    \o << RunElf(LlmNames[1], <<"language_embeddings", "deepstack_full_0", "deepstack_full_1">>,
                 "llm_a"),
          RunElf(LlmNames[2], <<"llm_a", "deepstack_full_2">>, "llm_b"),
          RunChain(LanguageChain, "llm_b", "backbone_features") >>

Groot17Steps ==
    HeadConstants(N17) \o FlattenSeq([k \in 1 .. N17.images |-> ImageSteps(k - 1)])
    \o Groot17Language \o HeadSteps(N17)
=============================================================================
