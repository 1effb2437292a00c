----------------------------- MODULE PlanTrace -----------------------------
(***************************************************************************)
(* The plans as the interpreter takes them, and what each makes of one     *)
(* request by itself, in buffers nobody has used: the run that every       *)
(* request of a server is compared with.                                   *)
(***************************************************************************)
EXTENDS GraphArguments

\* The steps as the interpreter takes them: what each writes from what, all it reads,
\* which run of its graph (or of the buffer it computes) it is, and whether it throws:
\* because a constant is missing, it overruns a buffer, or its ELF's output is no
\* HWC16 tensor.
Flow == [p \in Policies |-> [k \in DOMAIN Steps[p] |->
           LET s == Steps[p][k]
               throws == \/ Missing(Storage[p], s) \/ Overruns(Storage[p], s)
                         \/ RunsElf(s) /\ ~FillsLanes(p, s)
           IN  [wiring |-> IF throws THEN <<>> ELSE Wiring(Storage[p], s),
                reads  |-> IF throws THEN {} ELSE Reads(Storage[p], s),
                run    |-> RunOf(Steps[p], k),
                throws |-> throws]]]

\* The bundles whose plans pass validation and load.
Packed == {p \in Policies : Validates(p)}
Loaded == {p \in Policies : Loads(p)}

ResponseElements(p) == Buffers[p][Result[p]]

\* What a step is given: its inputs one after the other, element by element.
Inputs(p, k) == LET s == Steps[p][k] IN IF RunsElf(s) THEN s.in ELSE <<s.src>>
Given(buffers, p, k) ==
    FlattenSeq([j \in DOMAIN Inputs(p, k) |->
      LET b == Inputs(p, k)[j] IN [i \in 1 .. Buffers[p][b] |-> buffers[b][i - 1].is]])

------------------------------------------------------------------------------
(* One request alone *)

\* The buffers once the request has been read.
Arrived(p) ==
    [b \in DOMAIN Buffers[p] |-> [i \in Indices(Buffers[p][b]) |->
       IF b \in ToSet(Wire[p]) THEN [of |-> {"request"}, is |-> OnWire(b, i), finite |-> TRUE]
       ELSE Unset]]

Performed(buffers, p, k) ==
    LET f == Flow[p][k]
    IN  IF f.throws THEN buffers ELSE RunStep(buffers, Steps[p][k], f.run, f.wiring, TRUE)

\* The buffers before each step, and after the last.
Trace ==
    [p \in Loaded |->
       FoldLeft(LAMBDA states, k : Append(states, Performed(Last(states), p, k)),
                <<Arrived(p)>>, [k \in DOMAIN Steps[p] |-> k])]

\* The interpreter gets to step k.
Reached(p, k) == \A j \in 1 .. k - 1 : ~Flow[p][j].throws

FitsBuffers(buffers, p) ==
    /\ DOMAIN buffers = DOMAIN Buffers[p]
    /\ \A b \in DOMAIN buffers : DOMAIN buffers[b] = Indices(Buffers[p][b])

\* Something has been written there, or it is a constant.
Present(buffers, cell) ==
    /\ cell[1] \in DOMAIN buffers => cell[2] \in DOMAIN buffers[cell[1]]
    /\ ReadCell(buffers, cell).is # Unset.is

\* A plan by itself is complete: each step reads what the request brought or an earlier
\* step has written, and the last of them leaves the actions.  The plans of the code are
\* (the runtime.py of each policy); what Complete says of this `Trace' follows from how it
\* is built, but for the two parts on what is present and on the result.
Complete(p) ==
    LET n == Len(Steps[p])
    IN  /\ Wire[p] \in Seq(DOMAIN Buffers[p]) \ {<<>>}
        /\ Steps[p] \in Seq(ToSet(Steps[p]))
        /\ \A b \in DOMAIN Buffers[p] : Buffers[p][b] \in Nat
        /\ \A k \in 1 .. n + 1 : FitsBuffers(Trace[p][k], p)
        /\ Trace[p][1] = Arrived(p)
        /\ \A k \in 1 .. n : Reached(p, k + 1) =>
             /\ Trace[p][k + 1] = Performed(Trace[p][k], p, k)
             /\ \A cell \in Flow[p][k].reads : Present(Trace[p][k], cell)
        /\ Reached(p, n + 1) =>
             \A i \in Indices(ResponseElements(p)) :
               Trace[p][n + 1][Result[p]][i] =
                 [of |-> {"request"}, is |-> ExpectedResult(p, i), finite |-> TRUE]

ASSUME PlansAssumption == \A p \in Loaded : Complete(p)
=============================================================================
