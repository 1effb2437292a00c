---------------------------- MODULE PolicyPlans ----------------------------
(***************************************************************************)
(* What the policies put into a bundle: the wire tensors, buffers and      *)
(* steps of plan.json (policies/*/runtime.py), and, from the other side of *)
(* the compiler, what each exported graph takes its input to be            *)
(* (policies/*/graphs.py).  The sizes are parameters; ImageElements etc.   *)
(* stand for the sizes of the code, which are too large to enumerate.      *)
(***************************************************************************)
EXTENDS PlanInterpreter, SequencesExt

CONSTANTS ImageElements,   \* of a camera image, as the client sends it
          Dim,             \* STATE_DIM = ACTION_DIM, the joints
          Lane,            \* ACTION_LANE and PADDED_ACTION_DIM: joints padded for the MLA
          Chunk,           \* CHUNK, the action steps of one inference
          Hidden,          \* HIDDEN, the width of a token
          CameraTokens,    \* CAMERA_TOKENS, IMAGE_TOKENS
          LanguageTokens,  \* LANGUAGE_TOKENS
          Expert,          \* EXPERT_HIDDEN
          CacheTokens,     \* DENOISE_SUFFIX_TOKEN
          DenoiseTokens,   \* DENOISE_TOKENS
          Width,           \* DENOISE_WIDTH
          DenoiseSteps     \* DENOISE_STEPS

\* As in the code: the state fits a token, the padded lane holds the joints, and the
\* rows after the cache hold the suffix.
ASSUME SizesAssumption ==
    /\ {ImageElements, Dim, Lane, Chunk, Hidden, CameraTokens, LanguageTokens, Expert,
        CacheTokens, DenoiseTokens, Width, DenoiseSteps} \subseteq Nat \ {0}
    /\ Dim <= Hidden /\ Dim <= Lane
    /\ DenoiseSteps <= 4              \* the time buffers below
    /\ Expert % 2 = 0                 \* half sines, half cosines
    /\ (DenoiseTokens - CacheTokens) * Width >= Chunk * Expert

\* The steps, by their opcodes.
RunElf(graph, in, out) == [op |-> "run_elf", graph |-> graph, in |-> in, out |-> out]
PackParts(out, parts) == [op |-> "pack", out |-> out, parts |-> parts]
Part(src, at, count) == [src |-> src, at |-> at, count |-> count]
Gather(src, out, stride, take, dstStride, dstOffset, clear) ==
    [op |-> "gather_strided", src |-> src, out |-> out, stride |-> stride, take |-> take,
     dst_stride |-> dstStride, dst_offset |-> dstOffset, clear |-> clear, count |-> Chunk]
Apply(op, src, out) == [op |-> op, src |-> src, out |-> out]
\* normalize and denormalize, with a mean and a deviation of the bundle.
Moments(op, src, out, mean, std) ==
    [op |-> op, src |-> src, out |-> out, mean |-> mean, std |-> std]

\* The entries of f, and those of g under the names f does not use.
f ++ g == [x \in DOMAIN f \cup DOMAIN g |-> IF x \in DOMAIN f THEN f[x] ELSE g[x]]

------------------------------------------------------------------------------
(* ACT (policies/act/runtime.py) *)

ActWire == <<"image0", "image1", "state">>

ActTokens == 1 + 2 * CameraTokens           \* STEM_TOKENS; the stem adds one more

ActBuffers ==
    [image0 |-> ImageElements, image1 |-> ImageElements, state |-> Dim,
     cam0 |-> CameraTokens * Hidden, cam1 |-> CameraTokens * Hidden,
     packed |-> ActTokens * Hidden, hidden |-> (ActTokens + 1) * Hidden,
     padded |-> Chunk * Lane, actions |-> Chunk * Dim]

ActSteps ==
    << RunElf("vision_backbone", <<"image0">>, "cam0"),
       RunElf("vision_backbone", <<"image1">>, "cam1"),
       PackParts("packed", << Part("state", 0, Dim),
                              Part("cam0", Hidden, CameraTokens * Hidden),
                              Part("cam1", (1 + CameraTokens) * Hidden, CameraTokens * Hidden) >>),
       RunElf("encoder_layer_00_stem", <<"packed">>, "hidden"),
       RunElf("encoder_layer_01", <<"hidden">>, "hidden"),
       RunElf("encoder_layer_02", <<"hidden">>, "hidden"),
       RunElf("encoder_layer_03", <<"hidden">>, "hidden"),
       RunElf("decoder_action_tail", <<"hidden">>, "padded"),
       Gather("padded", "actions", Lane, Dim, Dim, 0, FALSE) >>

------------------------------------------------------------------------------
(* SmolVLA (policies/smolvla/runtime.py) *)

SmolVLAWire == <<"image0", "image1", "state", "noise">>

ImageBlock   == CameraTokens * Hidden               \* VISION_ELEMENTS
StateToken   == 3 * CameraTokens + LanguageTokens   \* STATE_TOKEN_INDEX
PrefixTokens == StateToken + 1                      \* PREFIX_TOKENS
SuffixToken  == Lane + Expert                       \* SUFFIX_TOKEN

\* time_00, time_01, ...: the time embedding of each Euler step, four of the ten.
TimeBuffers == <<"time_00", "time_01", "time_02", "time_03">>

SmolVLATensors ==
    [image0 |-> ImageElements, image1 |-> ImageElements, state |-> Dim,
     noise |-> Chunk * Lane, vision0 |-> ImageBlock, vision1 |-> ImageBlock,
     vision0_scaled |-> ImageBlock, vision1_scaled |-> ImageBlock,
     state_normalized |-> Dim, state_lane |-> Lane, state_embedding |-> Hidden,
     prefix_embeddings |-> PrefixTokens * Hidden, cache |-> CacheTokens * Width,
     x |-> Chunk * Lane, suffix_input |-> Chunk * SuffixToken,
     suffix_output |-> Chunk * Expert, denoise_input |-> DenoiseTokens * Width,
     velocity |-> Chunk * Lane, actions_lane |-> Chunk * Dim, actions |-> Chunk * Dim]

SmolVLABuffers ==
    SmolVLATensors
    ++ [b \in {TimeBuffers[n] : n \in 1 .. DenoiseSteps} |-> Expert]

\* The two cameras, the state and the 241-token prefix.
SmolVLAPrefix ==
    << RunElf("vision", <<"image0">>, "vision0"),
       RunElf("vision", <<"image1">>, "vision1"),
       Apply("scale", "vision0", "vision0_scaled"),
       Apply("scale", "vision1", "vision1_scaled"),
       Moments("normalize", "state", "state_normalized", "state_mean", "state_std"),
       PackParts("state_lane", << Part("state_normalized", 0, Dim) >>),
       [op |-> "matvec", src |-> "state_lane", out |-> "state_embedding",
        weights |-> "state_project_weight", bias |-> "state_project_bias",
        rows |-> Hidden, cols |-> Lane],
       PackParts("prefix_embeddings",
         << Part("vision0_scaled", 0, ImageBlock),
            Part("vision1_scaled", ImageBlock, ImageBlock),
            Part("empty_image_embedding", 2 * ImageBlock, ImageBlock),
            Part("language_embedding", 3 * ImageBlock, LanguageTokens * Hidden),
            Part("state_embedding", StateToken * Hidden, Hidden) >>),
       RunElf("prefix", <<"prefix_embeddings">>, "cache") >>

\* x starts as the request's noise.
Seed == << [op |-> "slice", src |-> "noise", out |-> "x", offset |-> 0, count |-> Chunk * Lane] >>

\* One Euler step: the suffix of every action token, the expert's velocity, x -= dt * v.
Denoise(n) ==
    << [op |-> "sincos_time", out |-> TimeBuffers[n]],
       Gather("x", "suffix_input", Lane, Lane, SuffixToken, 0, TRUE),
       Gather(TimeBuffers[n], "suffix_input", 0, Expert, SuffixToken, Lane, FALSE),
       RunElf("suffix", <<"suffix_input">>, "suffix_output"),
       PackParts("denoise_input",
         << Part("cache", 0, CacheTokens * Width),
            Part("suffix_output", CacheTokens * Width, Chunk * Expert) >>),
       RunElf("denoise", <<"denoise_input">>, "velocity"),
       Apply("euler", "velocity", "x") >>

SmolVLASteps ==
    SmolVLAPrefix \o Seed \o FlattenSeq([n \in 1 .. DenoiseSteps |-> Denoise(n)])
    \o << Gather("x", "actions_lane", Lane, Dim, Dim, 0, FALSE),
          Moments("denormalize", "actions_lane", "actions", "action_mean", "action_std") >>

------------------------------------------------------------------------------
(* What the graphs take their inputs to be (policies/*/graphs.py), element by *)
(* element: `outputs of ... at ...' in row-major order.                       *)

\* Element i of the n-th output of a graph, or of what is computed into a buffer; of
\* a wire tensor; of a constant of the bundle; and zero.
From(by, n, i)   == <<by, n, i>>
OnWire(b, i)     == <<b, 0, i>>
InBundle(b, i)   == <<b, 0, i>>
Zeroes           == <<Zero[1], 0, Zero[2]>>

\* EncoderStemPacked.forward: token 0 is the state, then camera 0, then camera 1.
StemArgument(token, channel) ==
    CASE token = 0 -> IF channel < Dim THEN OnWire("state", channel) ELSE Zeroes
      [] token \in 1 .. CameraTokens ->
           From("vision_backbone", 1, (token - 1) * Hidden + channel)
      [] OTHER ->
           From("vision_backbone", 2, (token - 1 - CameraTokens) * Hidden + channel)

\* The n-th time ACT's plan runs a graph, what element i of its input is.
ActArgument(graph, n, i) ==
    CASE graph = "vision_backbone"       -> OnWire(<<"image0", "image1">>[n], i)
      [] graph = "encoder_layer_00_stem" -> StemArgument(i \div Hidden, i % Hidden)
      [] graph = "encoder_layer_01"      -> From("encoder_layer_00_stem", 1, i)
      [] graph = "encoder_layer_02"      -> From("encoder_layer_01", 1, i)
      [] graph = "encoder_layer_03"      -> From("encoder_layer_02", 1, i)
      [] graph = "decoder_action_tail"   -> From("encoder_layer_03", 1, i)

\* embed_prefix, as trace() packs it: the cameras, scaled, the empty image, the
\* language and, last, the state.
PrefixArgument(token, channel) ==
    LET block(first) == (token - first) * Hidden + channel
    IN  CASE token < CameraTokens     -> From("vision0_scaled", 1, block(0))
          [] token \in CameraTokens .. 2 * CameraTokens - 1
               -> From("vision1_scaled", 1, block(CameraTokens))
          [] token \in 2 * CameraTokens .. 3 * CameraTokens - 1
               -> InBundle("empty_image_embedding", block(2 * CameraTokens))
          [] token \in 3 * CameraTokens .. StateToken - 1
               -> InBundle("language_embedding", block(3 * CameraTokens))
          [] token = StateToken       -> From("state_embedding", 1, channel)

\* x_t before Euler step n.
Trajectory(n, i) == IF n = 1 THEN OnWire("noise", i) ELSE From("x", n - 1, i)

\* SuffixProjection.forward: each action token is its lane of x, then the time.
SuffixArgument(n, token, channel) ==
    IF channel >= Lane THEN From(TimeBuffers[n], 1, channel - Lane)
    ELSE Trajectory(n, token * Lane + channel)

\* DenoiseExpert.forward: the cache's rows, then the suffix, end to end, then zeros.
DenoiseArgument(n, i) ==
    LET suffix == i - CacheTokens * Width
    IN  CASE suffix < 0              -> From("prefix", 1, i)
          [] suffix >= Chunk * Expert -> Zeroes
          [] OTHER                   -> From("suffix", n, suffix)

SmolVLAArgument(graph, n, i) ==
    CASE graph = "vision"  -> OnWire(<<"image0", "image1">>[n], i)
      [] graph = "prefix"  -> PrefixArgument(i \div Hidden, i % Hidden)
      [] graph = "suffix"  -> SuffixArgument(n, i \div SuffixToken, i % SuffixToken)
      [] graph = "denoise" -> DenoiseArgument(n, i)
=============================================================================
