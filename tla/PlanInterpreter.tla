-------------------------- MODULE PlanInterpreter --------------------------
(***************************************************************************)
(* The plan interpreter of the policy server (native/src/plan.cpp), as the *)
(* data flow it performs: which cell of which buffer each step writes, and *)
(* from which cells.  A plan is a sequence of steps; a step is a record    *)
(* with the opcode, the buffer it writes and the arguments plan.json gives *)
(* it.  Cells are numbered from 0, as the offsets of the code are.  What   *)
(* the arithmetic computes is left out: a value says what it was made from.*)
(***************************************************************************)
EXTENDS Integers, Sequences, FiniteSets, FiniteSetsExt

Indices(n) == 0 .. n - 1

\* The cells of a buffer or constant; `sizes' are the "buffers" of plan.json and the
\* files under constants/.
BufferCells(sizes, b) == {<<b, i>> : i \in Indices(sizes[b])}

\* A value: the requests it depends on (and whether on a corrupted ELF output), what
\* it is (who computed it, in which of its runs, and which element), and whether it is
\* finite.  Run 0 is what nobody computed: a wire tensor, a zero, or an element of a
\* file under constants/, which is what a part in no buffer reads.
Constant(cell) == [of |-> {}, is |-> <<cell[1], 0, cell[2]>>, finite |-> TRUE]
Zero == <<"zero", 0>>
\* std::vector<float>(size, 0.0f), at load: nothing has been written there yet.
Unset == [of |-> {}, is |-> <<"unset", 0, 0>>, finite |-> TRUE]
ReadCell(data, cell) == IF cell[1] \in DOMAIN data THEN data[cell[1]][cell[2]] ELSE Constant(cell)

RunsElf(s) == s.op \in {"run_elf", "run_elf_chain"}
Moves(s)   == s.op \in {"pack", "slice", "gather_strided", "pixel_unshuffle"}

\* The ELFs a step runs.  Between those of a chain nothing leaves the accelerator.
Stages(s) == IF s.op = "run_elf" THEN <<s.graph>> ELSE s.graphs

\* Who computes what a step writes, and for which time up to step k of `steps'.
Computes(s) == IF RunsElf(s) THEN Stages(s)[Len(Stages(s))] ELSE s.out
RunOf(steps, k) ==
    Cardinality({j \in 1 .. k : ~Moves(steps[j]) /\ Computes(steps[j]) = Computes(steps[k])})

------------------------------------------------------------------------------
(* For each opcode, a function from the indices it writes to the cells read *)

\* Zero everywhere, then each part; a later part overwrites an earlier one.
Pack(sizes, s) ==
    [i \in Indices(sizes[s.out]) |->
       LET covering == {k \in DOMAIN s.parts :
                          i \in s.parts[k].at .. s.parts[k].at + s.parts[k].count - 1}
           last     == s.parts[Max(covering)]
       IN  IF covering = {} THEN {Zero} ELSE {<<last.src, i - last.at>>}]

Slice(sizes, s) == [i \in Indices(s.count) |-> {<<s.src, s.offset + i>>}]

\* `count' blocks of `take' cells, `stride' apart in the source (0 repeats the first
\* block) and `dst_stride' apart in the destination.
GatherStrided(sizes, s) ==
    LET writeAt(k) == k * s.dst_stride + s.dst_offset
        blocks(i)  == {k \in Indices(s.count) : i \in writeAt(k) .. writeAt(k) + s.take - 1}
        all        == Indices(sizes[s.out])
    IN  [i \in {j \in all : s.clear \/ blocks(j) # {}} |->
           IF blocks(i) = {} THEN {Zero}
           ELSE LET k == Max(blocks(i)) IN {<<s.src, k * s.stride + i - writeAt(k)>>}]

\* As PixelUnshuffle, with the rows and the columns of a block in each other's place.
PixelUnshuffleTurned(sizes, s) ==
    LET side == s.grid \div s.factor
        area == s.factor * s.factor
        wide == s.channels * area
    IN  [i \in Indices(sizes[s.out]) |->
           LET token == i \div wide  channel == (i % wide) \div area
               dx == (i % area) \div s.factor  dy == i % s.factor
               row == (token \div side) * s.factor + dy
               column == (token % side) * s.factor + dx
           IN  {<<s.src, (row * s.grid + column) * s.channels + channel>>}]

\* grid x grid tokens of `channels' become (grid/factor)^2 tokens of
\* channels * factor^2, in the order of torch.pixel_unshuffle.
PixelUnshuffle(sizes, s) ==
    LET side == s.grid \div s.factor
        area == s.factor * s.factor
        wide == s.channels * area
    IN  [i \in Indices(sizes[s.out]) |->
           LET token == i \div wide  channel == (i % wide) \div area
               dy == (i % area) \div s.factor  dx == i % s.factor
               row == (token \div side) * s.factor + dy
               column == (token % side) * s.factor + dx
           IN  {<<s.src, (row * s.grid + column) * s.channels + channel>>}]

\* An ELF: every output depends on every input buffer, in the order of `in'.
Elf(sizes, s) ==
    [i \in Indices(sizes[s.out]) |->
       UNION {BufferCells(sizes, s.in[k]) : k \in DOMAIN s.in}]

Scale(sizes, s) == [i \in Indices(sizes[s.out]) |-> {<<s.src, i>>}]

\* Element i takes the statistics of i modulo their length.
Normal(sizes, s) ==
    LET stat(i) == i % sizes[s.mean]
    IN  [i \in Indices(sizes[s.out]) |->
           {<<s.src, i>>, <<s.mean, stat(i)>>, <<s.std, stat(i)>>}]

Euler(sizes, s) == [i \in Indices(sizes[s.out]) |-> {<<s.out, i>>, <<s.src, i>>}]
MatVec(sizes, s) ==
    [i \in Indices(s.rows) |->
       {<<s.bias, i>>}
       \cup UNION {{<<s.weights, i * s.cols + j>>, <<s.src, j>>} : j \in Indices(s.cols)}]
\* sin and cos, half of the buffer each; an odd last cell is not written.
SincosTime(sizes, s) == [i \in Indices(2 * (sizes[s.out] \div 2)) |-> {}]

\* The switch of Plan::run_step.
Wiring(sizes, s) ==
    CASE RunsElf(s)                -> Elf(sizes, s)
      [] s.op = "pack"             -> Pack(sizes, s)
      [] s.op = "slice"            -> Slice(sizes, s)
      [] s.op = "gather_strided"   -> GatherStrided(sizes, s)
      [] s.op = "pixel_unshuffle"  -> PixelUnshuffle(sizes, s)
      [] s.op = "euler"            -> Euler(sizes, s)
      [] s.op = "matvec"           -> MatVec(sizes, s)
      [] s.op = "sincos_time"      -> SincosTime(sizes, s)
      [] s.op = "scale"            -> Scale(sizes, s)
      [] s.op \in {"normalize", "denormalize"} -> Normal(sizes, s)

\* The constants a step names, and the sources of a pack, which may be constants too.
Names(s) ==
    CASE s.op = "pack"   -> {s.parts[k].src : k \in DOMAIN s.parts}
      [] s.op = "matvec" -> {s.weights, s.bias}
      [] s.op \in {"normalize", "denormalize"} -> {s.mean, s.std}
      [] OTHER           -> {}

\* Sidecars::get throws.
Missing(sizes, s) == ~(Names(s) \subseteq DOMAIN sizes)

\* The overruns run_step throws on: a pack part past either end, a slice past its
\* source, a gather past either end, an unshuffle of the wrong shape.  Where a matvec
\* or a statistic reads is not checked.
Overruns(sizes, s) ==
    CASE s.op = "pack" ->
           \E k \in DOMAIN s.parts :
             LET part == s.parts[k]
             IN  part.at + part.count > sizes[s.out] \/ part.count > sizes[part.src]
      [] s.op = "slice" -> s.offset + s.count > sizes[s.src]
      [] s.op = "gather_strided" ->
           \E k \in Indices(s.count) :
             \/ k * s.stride + s.take > sizes[s.src]
             \/ k * s.dst_stride + s.dst_offset + s.take > sizes[s.out]
      [] s.op = "pixel_unshuffle" ->
           \/ s.grid % s.factor # 0
           \/ sizes[s.src] # s.grid * s.grid * s.channels
           \/ sizes[s.out] # sizes[s.src]
      [] OTHER -> FALSE

------------------------------------------------------------------------------

\* What a step reads before it writes.
Reads(sizes, s) == LET wiring == Wiring(sizes, s) IN UNION {wiring[i] : i \in DOMAIN wiring}

\* The value a step writes from the cells `from': moved as it is, or computed.  A
\* computation is finite if its operands are; an ELF's output is, unless the
\* accelerator or a DRAM layout corrupted it (`sound' is FALSE).
Written(data, s, run, i, from, sound) ==
    IF Moves(s)
    THEN ReadCell(data, CHOOSE cell \in from : TRUE)
    ELSE [of     |-> UNION {ReadCell(data, cell).of : cell \in from}
                     \cup (IF sound THEN {} ELSE {"corrupt"}),
          is     |-> <<Computes(s), run, i>>,
          finite |-> IF RunsElf(s) THEN sound
                     ELSE \A cell \in from : ReadCell(data, cell).finite]

\* Plan::run_step on wiring computed before.
RunStep(data, s, run, wiring, sound) ==
    [data EXCEPT ![s.out] =
       [i \in DOMAIN @ |-> IF i \in DOMAIN wiring THEN Written(data, s, run, i, wiring[i], sound)
                          ELSE @[i]]]

\* require_finite.
Finite(data, b) == \A i \in DOMAIN data[b] : data[b][i].finite
=============================================================================
