--------------------------- MODULE MCPolicyServer ---------------------------
EXTENDS PolicyServer

CONSTANT Long     \* policies whose plans are too long for two requests

\* One camera of 2 x 2 patches, three vision and two language layers, two pairs.
MCN16 == [side |-> 2, patch |-> 1, vision |-> 2, vision_layers |-> 3, unshuffle |-> 2,
          sequence |-> 3, image_start |-> 1, language |-> 2, qwen_layers |-> 2,
          hidden |-> 2, lane |-> 4, pairs |-> 2]

\* Two images of 2 patches, a tap after every second of the first six pairs.  As in
\* the code (132 lanes, of 16), the lanes of the actions are no multiple of Lanes.
MCN17 == [images |-> 2, patches |-> 2, patch |-> 1, vision |-> 1, merged |-> 1,
          vision_blocks |-> 16, deepstack |-> <<3, 7, 11>>, language |-> 2, sequence |-> 4,
          visual_runs |-> << <<1, 1>>, <<3, 1>> >>, llm_layers |-> 8, vl_layers |-> 2,
          hidden |-> 2, lane |-> 3, pairs |-> 2]

\* A server of a long plan is the first and only one, and one request asks it, whose
\* values are finite.
Alone ==
    server'.bundle \in Long =>
      /\ \A q \in Requests : conn'[q].at # "new" => q = (CHOOSE r \in Requests : TRUE) /\ ~conn'[q].sick
      /\ server.at = "down" => conn = [q \in Requests |-> NoRequest]

MCSpec == Init /\ [][Next /\ Alone]_vars /\ Fairness
=============================================================================
