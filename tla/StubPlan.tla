------------------------------ MODULE StubPlan ------------------------------
(***************************************************************************)
(* The plan interpreter in Python (wire/server_stub.py), which stands in   *)
(* for the board on a workstation.  It is written on whole arrays, with    *)
(* slices, reshape and transpose, where the native one has loops; here an  *)
(* array is a function from its indices to the cells each element is       *)
(* computed from, and a step replaces the buffer it writes by a new array. *)
(***************************************************************************)
EXTENDS PolicyGraphs

ArrayOf(sizes, b) == [i \in Indices(sizes[b]) |-> {<<b, i>>}]
Zeros(n) == [i \in Indices(n) |-> {Zero}]
Size(array) == Cardinality(DOMAIN array)

\* array[at:at + n], which stops at the end, and target[at:at + n] = values.
Clipped(n, room) == Max({0, Min({n, room})})
Span(array, at, n) == [i \in Indices(Clipped(n, Size(array) - at)) |-> array[at + i]]
Assigned(target, at, values) ==
    [i \in DOMAIN target |-> IF i - at \in DOMAIN values THEN values[i - at] ELSE target[i]]

\* numpy's flat index of the coordinates `at' in `shape', and the coordinates of i: the
\* last axis runs first.
Ravel(shape, at) ==
    LET flat[d \in 0 .. Len(shape)] == IF d = 0 THEN 0 ELSE flat[d - 1] * shape[d] + at[d]
    IN  flat[Len(shape)]
Unravel(shape, i) ==
    LET over[d \in DOMAIN shape] == IF d = Len(shape) THEN i ELSE over[d + 1] \div shape[d + 1]
    IN  [d \in DOMAIN shape |-> over[d] % shape[d]]
Permuted(shape, axes) == [d \in DOMAIN axes |-> shape[axes[d]]]

\* array.reshape(shape).transpose(axes).reshape(-1), axes counted from 1.
Transposed(array, shape, axes) ==
    [i \in DOMAIN array |->
       LET to == Unravel(Permuted(shape, axes), i)
       IN  array[Ravel(shape, [d \in DOMAIN shape |->
                                 to[CHOOSE e \in DOMAIN axes : axes[e] = d]])]]

StubPack(sizes, s) ==
    LET packed[k \in 0 .. Len(s.parts)] ==
          IF k = 0 THEN Zeros(sizes[s.out])
          ELSE LET part == s.parts[k]
               IN  Assigned(packed[k - 1], part.at, Span(ArrayOf(sizes, part.src), 0, part.count))
    IN  packed[Len(s.parts)]

StubGather(sizes, s) ==
    LET values == ArrayOf(sizes, s.src)
        target[k \in 0 .. s.count] ==
          IF k = 0 THEN IF s.clear THEN Zeros(sizes[s.out]) ELSE ArrayOf(sizes, s.out)
          ELSE Assigned(target[k - 1], (k - 1) * s.dst_stride + s.dst_offset,
                        Span(values, (k - 1) * s.stride, s.take))
    IN  target[s.count]

\* Both transposes, as written: (row, dy, column, dx, c) to (row, column, dy, dx, c)
\* to (row, column, c, dy, dx).
StubUnshuffle(sizes, s) ==
    LET side == s.grid \div s.factor
        once == Transposed(ArrayOf(sizes, s.src),
                           <<side, s.factor, side, s.factor, s.channels>>, <<1, 3, 2, 4, 5>>)
    IN  Transposed(once, <<side, side, s.factor, s.factor, s.channels>>, <<1, 2, 5, 3, 4>>)

\* A graph is given all of its inputs, joined: whatever it returns depends on each element.
StubElf(sizes, s) ==
    LET elements(array) == UNION {array[j] : j \in DOMAIN array}
    IN  [i \in Indices(sizes[s.out]) |-> UNION {elements(ArrayOf(sizes, b)) : b \in ToSet(s.in)}]

\* weights.reshape(rows, cols) @ x[:cols] + bias[:rows].
StubMatVec(sizes, s) ==
    LET x == Span(ArrayOf(sizes, s.src), 0, s.cols)
        weights == ArrayOf(sizes, s.weights)
        bias == Span(ArrayOf(sizes, s.bias), 0, s.rows)
    IN  [i \in Indices(s.rows) |->
           bias[i] \cup UNION {x[j] \cup weights[Ravel(<<s.rows, s.cols>>, <<i, j>>)]
                               : j \in DOMAIN x}]

\* np.resize repeats the statistics to the length of the values.
StubNormal(sizes, s) ==
    LET repeated(b) == [i \in Indices(sizes[s.src]) |-> {<<b, i % sizes[b]>>}]
    IN  [i \in Indices(sizes[s.src]) |->
           {<<s.src, i>>} \cup repeated(s.mean)[i] \cup repeated(s.std)[i]]

\* _run_step: the array a step leaves in the buffer it writes.
Stubbed(sizes, s) ==
    LET source == ArrayOf(sizes, s.src)
        out    == ArrayOf(sizes, s.out)
    IN  CASE RunsElf(s)               -> StubElf(sizes, s)
          [] s.op = "pack"            -> StubPack(sizes, s)
          [] s.op = "slice"           -> Span(source, s.offset, s.count)
          [] s.op = "gather_strided"  -> StubGather(sizes, s)
          [] s.op = "pixel_unshuffle" -> StubUnshuffle(sizes, s)
          [] s.op = "scale"           -> source
          [] s.op = "matvec"          -> StubMatVec(sizes, s)
          [] s.op = "sincos_time"     -> [i \in Indices(2 * (Size(out) \div 2)) |-> {}]
          [] s.op = "euler"           -> [i \in DOMAIN source |-> out[i] \cup source[i]]
          [] s.op \in {"normalize", "denormalize"} -> StubNormal(sizes, s)

\* numpy takes `given' values where n go: as many, or one for all of them.
Broadcasts(given, n) == given \in {1, n}

\* An assignment to a slice raises unless it gets the values it has room for, an
\* operation on two arrays unless they are as long, reshape unless the elements fit
\* the shape, and a product unless the columns are the elements.
StubRaises(sizes, s) ==
    \/ Missing(sizes, s)
    \/ s.op = "pack" /\ \E k \in DOMAIN s.parts :
         LET part == s.parts[k]
         IN  ~Broadcasts(Clipped(part.count, sizes[part.src]),
                         Clipped(part.count, sizes[s.out] - part.at))
    \/ s.op = "gather_strided" /\ \E k \in Indices(s.count) :
         ~Broadcasts(Clipped(s.take, sizes[s.src] - k * s.stride),
                     Clipped(s.take, sizes[s.out] - (k * s.dst_stride + s.dst_offset)))
    \/ s.op = "pixel_unshuffle" /\ (s.grid % s.factor # 0
                                    \/ sizes[s.src] # s.grid * s.grid * s.channels)
    \/ s.op = "matvec" /\ (\/ sizes[s.weights] # s.rows * s.cols \/ sizes[s.src] < s.cols
                           \/ s.rows # 1 /\ ~Broadcasts(Clipped(s.rows, sizes[s.bias]), s.rows))
    \/ s.op = "euler" /\ sizes[s.out] # 1 /\ ~Broadcasts(sizes[s.src], sizes[s.out])

\* What the native interpreter leaves in the buffer: the cells it does not write stay.
Left(sizes, s) ==
    LET wiring == Wiring(sizes, s)
    IN  [i \in Indices(sizes[s.out]) |->
           IF i \in DOMAIN wiring THEN wiring[i] ELSE {<<s.out, i>>}]

\* The plans whose every step leaves the same in both interpreters: the same buffer
\* size, and every element from the same cells.
Interpreted ==
    {p \in Policies : \A k \in DOMAIN Steps[p] :
      LET s == Steps[p][k]
      IN  /\ ~StubRaises(Storage[p], s)
          /\ Stubbed(Storage[p], s) = Left(Storage[p], s)}
=============================================================================
