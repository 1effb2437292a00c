---------------------------- MODULE PlanProofs ----------------------------
(***************************************************************************)
(* The plans of the four policies, for every size of them.  First the two  *)
(* interpreters, opcode by opcode: on operands that fit, every step means  *)
(* the same to the arrays of server_stub.py and the loops of plan.cpp.     *)
(* Where one writes slice after slice and the other looks up the last      *)
(* slice over a cell, the proof is an induction over the slices; where one *)
(* transposes a shape and the other divides an index, it is arithmetic on  *)
(* the coordinates.  Then plan by plan: the operands of every step fit.    *)
(***************************************************************************)
EXTENDS StubPlan, PlanTrace, FiniteSetTheorems, WellFoundedInduction, TLAPS

Elementwise == {"slice", "scale", "euler", "normalize", "denormalize", "sincos_time"}

\* An array has as many elements as its buffer.
LEMMA SizeOfArray ==
  ASSUME NEW sizes, NEW b, sizes[b] \in Nat
  PROVE  Size(ArrayOf(sizes, b)) = sizes[b]
<1>1. DOMAIN ArrayOf(sizes, b) = 0 .. sizes[b] - 1 BY DEF ArrayOf, Indices
<1>2. Cardinality(0 .. sizes[b] - 1) = sizes[b]
  <2>1. PICK n \in Nat : n = sizes[b] OBVIOUS
  <2>2. Cardinality(0 .. n - 1) = IF 0 > n - 1 THEN 0 ELSE (n - 1) - 0 + 1 BY FS_Interval
  <2>3. Cardinality(0 .. n - 1) = n BY <2>2
  <2> QED BY <2>1, <2>3
<1> QED BY <1>1, <1>2 DEF Size

\* A slice where there is room for it.
LEMMA ClippedWhole ==
  ASSUME NEW n \in Nat, NEW room \in Int, n <= room
  PROVE  Clipped(n, room) = n
<1>1. Min({n, room}) = n
  <2>1. n \in {n, room} /\ \A y \in {n, room} : n <= y OBVIOUS
  <2>2. \A x \in {n, room} : (\A y \in {n, room} : x <= y) => x = n OBVIOUS
  <2> QED BY <2>1, <2>2 DEF Min
<1>2. Max({0, n}) = n
  <2>1. n \in {0, n} /\ \A y \in {0, n} : n >= y OBVIOUS
  <2>2. \A x \in {0, n} : (\A y \in {0, n} : x >= y) => x = n OBVIOUS
  <2> QED BY <2>1, <2>2 DEF Max
<1> QED BY <1>1, <1>2 DEF Clipped

\* array[at:at + n] where the array goes so far.
LEMMA SpanInside ==
  ASSUME NEW sizes, NEW b, sizes[b] \in Nat, NEW at \in Nat, NEW n \in Nat, at + n <= sizes[b]
  PROVE  Span(ArrayOf(sizes, b), at, n) = [i \in Indices(n) |-> {<<b, at + i>>}]
<1> DEFINE array == ArrayOf(sizes, b)
<1>1. Size(array) = sizes[b] BY SizeOfArray
<1>2. PICK room \in Int : room = Size(array) - at /\ n <= room BY <1>1
<1>3. Clipped(n, room) = n BY <1>2, ClippedWhole
<1>4. Span(array, at, n) = [i \in Indices(n) |-> array[at + i]] BY <1>2, <1>3 DEF Span
<1>5. \A i \in Indices(n) : at + i \in Indices(sizes[b]) BY DEF Indices
<1>6. \A i \in Indices(n) : array[at + i] = {<<b, at + i>>} BY <1>5 DEF ArrayOf
<1> QED BY <1>4, <1>6

\* A step that writes all of its buffer leaves its wiring there.
LEMMA LeftWhole ==
  ASSUME NEW sizes, NEW s, NEW w, w = Wiring(sizes, s), w = [i \in Indices(sizes[s.out]) |-> w[i]]
  PROVE  Left(sizes, s) = w
<1>1. DOMAIN w = Indices(sizes[s.out]) OBVIOUS
<1>2. Left(sizes, s)
        = [i \in Indices(sizes[s.out]) |-> IF i \in DOMAIN w THEN w[i] ELSE {<<s.out, i>>}]
  BY DEF Left
<1> HIDE DEF Indices
<1> QED BY <1>1, <1>2

------------------------------------------------------------------------------
(* pack and gather_strided: one span after the other *)

\* Induction on a set of numbers, from the well-founded order of the naturals.
LEMMA Induction ==
  ASSUME NEW S, 0 \in S, \A n \in Nat : n \in S => n + 1 \in S
  PROVE  Nat \subseteq S
<1> DEFINE T == Nat \ S
           R == OpToRel(<, Nat)
<1>1. SUFFICES ASSUME T # {} PROVE FALSE OBVIOUS
<1>2. IsWellFoundedOn(R, Nat) BY NatLessThanWellFounded
<1>3. R = {z \in Nat \X Nat : z[1] < z[2]} BY DEF OpToRel
<1> HIDE DEF R
<1>4. PICK x \in T : \A y \in T : ~(<<y, x>> \in R)
  BY <1>1, <1>2, WFMin
<1>5. x # 0 /\ x - 1 \in Nat BY DEF T
<1>6. x - 1 \in T BY <1>5
<1>7. <<x - 1, x>> \in R BY <1>3, <1>5
<1> QED BY <1>4, <1>6, <1>7

\* One span after the other over an array: each element is of the last span over it.
Layered(base, at, spans, k) ==
    [i \in DOMAIN base |->
       LET covering == {j \in 1 .. k : i - at[j] \in DOMAIN spans[j]}
           last == Max(covering)
       IN  IF covering = {} THEN base[i] ELSE spans[last][i - at[last]]]

\* The recursion of the Python loops over spans.
Layering(f, n, base, at, spans) ==
    f = [k \in 0 .. n |-> IF k = 0 THEN base ELSE Assigned(f[k - 1], at[k], spans[k])]

\* The maximum is the element that bounds the others.
LEMMA MaxIs ==
  ASSUME NEW T, NEW m \in T, T \subseteq Int, \A x \in T : x <= m
  PROVE  Max(T) = m
<1>1. \A y \in T : m >= y OBVIOUS
<1>2. \A x \in T : (\A y \in T : x >= y) => x = m OBVIOUS
<1> QED BY <1>1, <1>2 DEF Max

\* One span more is one assignment more.
LEMMA NextLayer ==
  ASSUME NEW base, NEW at, NEW spans, NEW k \in Nat \ {0}
  PROVE  Layered(base, at, spans, k) = Assigned(Layered(base, at, spans, k - 1), at[k], spans[k])
<1> DEFINE Over(j, i) == i - at[j] \in DOMAIN spans[j]
           C(m, i) == {j \in 1 .. m : Over(j, i)}
           V(m, i) == IF C(m, i) = {} THEN base[i] ELSE spans[Max(C(m, i))][i - at[Max(C(m, i))]]
           L(m) == [i \in DOMAIN base |-> V(m, i)]
<1>1. \A m : Layered(base, at, spans, m) = L(m) BY DEF Layered
<1>2. ASSUME NEW i, Over(k, i) PROVE V(k, i) = spans[k][i - at[k]]
  <2>1. k \in C(k, i) /\ C(k, i) \subseteq Int /\ \A x \in C(k, i) : x <= k BY <1>2
  <2> HIDE DEF C
  <2>2. Max(C(k, i)) = k BY <2>1, MaxIs
  <2> QED BY <2>1, <2>2
<1>3. ASSUME NEW i, ~Over(k, i) PROVE V(k, i) = V(k - 1, i)
  <2>1. C(k, i) = C(k - 1, i)
    <3>1. \A j \in 1 .. k : Over(j, i) => j \in 1 .. k - 1 BY <1>3
    <3> HIDE DEF Over
    <3> QED BY <3>1
  <2> HIDE DEF C
  <2> QED BY <2>1
<1>4. Assigned(L(k - 1), at[k], spans[k])
        = [i \in DOMAIN base |-> IF Over(k, i) THEN spans[k][i - at[k]] ELSE V(k - 1, i)]
  <2> HIDE DEF V
  <2> QED BY DEF Assigned
<1> HIDE DEF V, Over
<1>5. L(k) = [i \in DOMAIN base |-> IF Over(k, i) THEN spans[k][i - at[k]] ELSE V(k - 1, i)]
  BY <1>2, <1>3
<1> HIDE DEF L
<1> QED BY <1>1, <1>4, <1>5

\* There is such a recursion.
LEMMA LayeringExists ==
  ASSUME NEW n \in Nat, NEW base, base = [i \in DOMAIN base |-> base[i]], NEW at, NEW spans
  PROVE  Layering([k \in 0 .. n |-> Layered(base, at, spans, k)], n, base, at, spans)
<1> DEFINE f == [k \in 0 .. n |-> Layered(base, at, spans, k)]
<1>1. Layered(base, at, spans, 0) = base
  <2>1. \A i : {j \in 1 .. 0 : i - at[j] \in DOMAIN spans[j]} = {} OBVIOUS
  <2> QED BY <2>1 DEF Layered
<1>2. \A k \in 0 .. n : k # 0 => f[k] = Assigned(f[k - 1], at[k], spans[k])
  <2> SUFFICES ASSUME NEW k \in 0 .. n, k # 0
               PROVE  f[k] = Assigned(f[k - 1], at[k], spans[k])
    OBVIOUS
  <2>1. k \in Nat \ {0} /\ k - 1 \in 0 .. n OBVIOUS
  <2> QED BY <2>1, NextLayer
<1>3. \A k \in 0 .. n : f[k] = IF k = 0 THEN base ELSE Assigned(f[k - 1], at[k], spans[k])
  BY <1>1, <1>2
<1> QED BY <1>3 DEF Layering

\* Any such recursion leaves the layers.
LEMMA LayeringIs ==
  ASSUME NEW n \in Nat, NEW base, base = [i \in DOMAIN base |-> base[i]], NEW at, NEW spans,
         NEW f, Layering(f, n, base, at, spans)
  PROVE  f[n] = Layered(base, at, spans, n)
<1> DEFINE c == [k \in 0 .. n |-> Layered(base, at, spans, k)]
           Same == {k \in Nat : k <= n => f[k] = c[k]}
<1>1. Layering(c, n, base, at, spans) BY LayeringExists
<1> HIDE DEF c
<1>2. \A k \in 0 .. n : /\ f[k] = IF k = 0 THEN base ELSE Assigned(f[k - 1], at[k], spans[k])
                        /\ c[k] = IF k = 0 THEN base ELSE Assigned(c[k - 1], at[k], spans[k])
  BY <1>1 DEF Layering
<1>3. 0 \in Same BY <1>2
<1>4. ASSUME NEW k \in Nat, k \in Same PROVE k + 1 \in Same
  <2> SUFFICES ASSUME k + 1 <= n PROVE f[k + 1] = c[k + 1] OBVIOUS
  <2>1. f[k] = c[k] /\ k + 1 \in 0 .. n /\ k + 1 # 0 /\ (k + 1) - 1 = k BY <1>4
  <2> QED BY <1>2, <2>1
<1> HIDE DEF Same
<1>5. n \in Same BY <1>3, <1>4, Induction
<1> QED BY <1>5 DEF Same, c

\* A set of numbers up to n that is not empty has its maximum.
LEMMA MaxIn ==
  ASSUME NEW n \in Nat, NEW T, T \subseteq 0 .. n, T # {}
  PROVE  Max(T) \in T /\ \A x \in T : x <= Max(T)
<1> DEFINE S == {m \in Nat : (\E x \in T : x <= m) => \E y \in T : \A x \in T : x <= m => x <= y}
<1>1. 0 \in S
  <2>1. \A x \in T : x \in Int /\ (x <= 0 => x = 0) OBVIOUS
  <2> QED BY <2>1
<1>2. ASSUME NEW m \in Nat, m \in S PROVE m + 1 \in S
  <2> SUFFICES ASSUME NEW z \in T, z <= m + 1
               PROVE  \E y \in T : \A x \in T : x <= m + 1 => x <= y
    OBVIOUS
  <2>1. CASE m + 1 \in T
    BY <2>1
  <2>2. CASE m + 1 \notin T
    <3>1. \A x \in T : x <= m + 1 => x <= m BY <2>2
    <3>2. z <= m BY <3>1
    <3>3. PICK y \in T : \A x \in T : x <= m => x <= y BY <1>2, <3>2
    <3> QED BY <3>1, <3>3
  <2> QED BY <2>1, <2>2
<1> HIDE DEF S
<1>3. n \in S BY <1>1, <1>2, Induction
<1>4. \A x \in T : x \in Int /\ x <= n OBVIOUS
<1>5. \E x \in T : x <= n BY <1>4
<1>6. PICK y \in T : \A x \in T : x <= n => x <= y BY <1>3, <1>5 DEF S
<1>7. \A x \in T : x <= y BY <1>4, <1>6
<1>8. T \subseteq Int BY <1>4
<1>9. Max(T) = y BY <1>7, <1>8, MaxIs
<1> QED BY <1>7, <1>9

\* Every part goes from inside its source to inside the buffer.
PackFits(sizes, s) ==
    /\ sizes[s.out] \in Nat /\ Len(s.parts) \in Nat /\ DOMAIN s.parts = 1 .. Len(s.parts)
    /\ \A k \in 1 .. Len(s.parts) :
         LET part == s.parts[k]
         IN  /\ sizes[part.src] \in Nat /\ part.at \in Nat /\ part.count \in Nat
             /\ part.count <= sizes[part.src] /\ part.at + part.count <= sizes[s.out]

\* pack: one assignment of a slice after the other, or the last part over each cell.
LEMMA PackSame ==
  ASSUME NEW sizes, NEW s, PackFits(sizes, s)
  PROVE  StubPack(sizes, s) = Pack(sizes, s)
<1> DEFINE n == Len(s.parts)
           base == Zeros(sizes[s.out])
           at == [k \in 1 .. n |-> s.parts[k].at]
           spans == [k \in 1 .. n |-> Span(ArrayOf(sizes, s.parts[k].src), 0, s.parts[k].count)]
           D(f) == f = [k \in 0 .. n |->
                     IF k = 0 THEN base
                     ELSE Assigned(f[k - 1], s.parts[k].at,
                                   Span(ArrayOf(sizes, s.parts[k].src), 0, s.parts[k].count))]
<1>1. StubPack(sizes, s) = (CHOOSE f : D(f))[n] BY DEF StubPack
<1>2. n \in Nat BY DEF PackFits
<1>3. base = [i \in DOMAIN base |-> base[i]] BY DEF Zeros
<1>4. ASSUME NEW f PROVE D(f) <=> Layering(f, n, base, at, spans)
  <2>1. \A k \in 0 .. n : k # 0 => at[k] = s.parts[k].at
          /\ spans[k] = Span(ArrayOf(sizes, s.parts[k].src), 0, s.parts[k].count)
    BY <1>2
  <2> HIDE DEF base, at, spans
  <2>2. [k \in 0 .. n |-> IF k = 0 THEN base
           ELSE Assigned(f[k - 1], s.parts[k].at,
                         Span(ArrayOf(sizes, s.parts[k].src), 0, s.parts[k].count))]
         = [k \in 0 .. n |-> IF k = 0 THEN base ELSE Assigned(f[k - 1], at[k], spans[k])]
    BY <2>1
  <2> QED BY <2>2 DEF Layering
<1> HIDE DEF n, base, at, spans, D
<1>5. PICK f : f = (CHOOSE g : D(g)) OBVIOUS
<1>6. D(f)
  <2>1. \E g : D(g) BY <1>2, <1>3, <1>4, LayeringExists
  <2> QED BY <1>5, <2>1
<1>7. StubPack(sizes, s) = Layered(base, at, spans, n)
  BY <1>1, <1>2, <1>3, <1>4, <1>5, <1>6, LayeringIs
<1>8. ASSUME NEW k \in 1 .. n
      PROVE  spans[k] = [i \in Indices(s.parts[k].count) |-> {<<s.parts[k].src, i>>}]
  <2>1. PICK b, m : b = s.parts[k].src /\ m = s.parts[k].count OBVIOUS
  <2>2. sizes[b] \in Nat /\ m \in Nat /\ 0 + m <= sizes[b] BY <2>1 DEF PackFits, n
  <2>3. Span(ArrayOf(sizes, b), 0, m) = [i \in Indices(m) |-> {<<b, 0 + i>>}]
    BY <2>2, SpanInside
  <2>4. \A i \in Indices(m) : 0 + i = i BY <2>2 DEF Indices
  <2>5. [i \in Indices(m) |-> {<<b, 0 + i>>}] = [i \in Indices(m) |-> {<<b, i>>}] BY <2>4
  <2> QED BY <2>1, <2>3, <2>5 DEF spans
<1>9. ASSUME NEW i \in Indices(sizes[s.out])
      PROVE  {j \in 1 .. n : i - at[j] \in DOMAIN spans[j]}
               = {k \in DOMAIN s.parts :
                    i \in s.parts[k].at .. s.parts[k].at + s.parts[k].count - 1}
  <2>1. /\ DOMAIN s.parts = 1 .. n
        /\ \A k \in 1 .. n : s.parts[k].at \in Nat /\ s.parts[k].count \in Nat
    BY DEF PackFits, n
  <2>2. \A k \in 1 .. n : at[k] = s.parts[k].at /\ DOMAIN spans[k] = 0 .. s.parts[k].count - 1
    BY <1>8 DEF at, Indices
  <2>3. sizes[s.out] \in Nat /\ i \in Int BY DEF PackFits, Indices
  <2>4. ASSUME NEW k \in 1 .. n
        PROVE  i - at[k] \in DOMAIN spans[k]
                 <=> i \in s.parts[k].at .. s.parts[k].at + s.parts[k].count - 1
    <3>1. PICK first \in Nat, count \in Nat :
            /\ first = s.parts[k].at /\ count = s.parts[k].count
            /\ at[k] = first /\ DOMAIN spans[k] = 0 .. count - 1
      BY <2>1, <2>2
    <3>2. PICK cell \in Int : cell = i BY <2>3
    <3>3. cell - first \in 0 .. count - 1 <=> cell \in first .. first + count - 1 OBVIOUS
    <3> QED BY <3>1, <3>2, <3>3
  <2> QED BY <2>1, <2>4
<1>10. ASSUME NEW i \in Indices(sizes[s.out]), NEW k \in 1 .. n, i - at[k] \in DOMAIN spans[k]
       PROVE  spans[k][i - at[k]] = {<<s.parts[k].src, i - s.parts[k].at>>}
  BY <1>8, <1>10 DEF at
<1> DEFINE C(i) == {k \in DOMAIN s.parts :
                      i \in s.parts[k].at .. s.parts[k].at + s.parts[k].count - 1}
<1>11. ASSUME NEW i \in Indices(sizes[s.out]), C(i) # {}
       PROVE  Max(C(i)) \in C(i)
  <2>1. C(i) \subseteq 0 .. n BY DEF PackFits, n
  <2> QED BY <1>2, <1>11, <2>1, MaxIn
<1>12. Layered(base, at, spans, n)
         = [i \in Indices(sizes[s.out]) |->
              IF {j \in 1 .. n : i - at[j] \in DOMAIN spans[j]} = {} THEN {Zero}
              ELSE spans[Max({j \in 1 .. n : i - at[j] \in DOMAIN spans[j]})]
                     [i - at[Max({j \in 1 .. n : i - at[j] \in DOMAIN spans[j]})]]]
  BY DEF Layered, base, Zeros
<1>13. ASSUME NEW i \in Indices(sizes[s.out])
       PROVE  Layered(base, at, spans, n)[i] = Pack(sizes, s)[i]
  <2>1. Layered(base, at, spans, n)[i]
          = IF C(i) = {} THEN {Zero} ELSE spans[Max(C(i))][i - at[Max(C(i))]]
    BY <1>9, <1>12
  <2>2. Pack(sizes, s)[i]
          = IF C(i) = {} THEN {Zero}
            ELSE {<<s.parts[Max(C(i))].src, i - s.parts[Max(C(i))].at>>}
    BY DEF Pack
  <2>3. CASE C(i) = {} BY <2>1, <2>2, <2>3
  <2>4. CASE C(i) # {}
    <3>1. PICK m : m = Max(C(i)) OBVIOUS
    <3>2. m \in C(i) BY <1>11, <2>4, <3>1
    <3>3. m \in {j \in 1 .. n : i - at[j] \in DOMAIN spans[j]} BY <1>9, <3>2
    <3>4. m \in 1 .. n /\ i - at[m] \in DOMAIN spans[m] BY <3>3
    <3>5. spans[m][i - at[m]] = {<<s.parts[m].src, i - s.parts[m].at>>} BY <1>10, <3>4
    <3> HIDE DEF C
    <3> QED BY <2>1, <2>2, <2>4, <3>1, <3>5
  <2> QED BY <2>3, <2>4
<1>14. Pack(sizes, s) = [i \in Indices(sizes[s.out]) |-> Pack(sizes, s)[i]] BY DEF Pack
<1>15. Layered(base, at, spans, n)
         = [i \in Indices(sizes[s.out]) |-> Layered(base, at, spans, n)[i]]
  BY <1>12
<1> QED BY <1>7, <1>13, <1>14, <1>15

\* A product of numbers.
LEMMA Times == ASSUME NEW a \in Nat, NEW b \in Nat PROVE a * b \in Nat
OBVIOUS

\* Every block goes from inside the source to inside the buffer.
GatherFits(sizes, s) ==
    /\ sizes[s.src] \in Nat /\ sizes[s.out] \in Nat
    /\ s.count \in Nat /\ s.take \in Nat /\ s.stride \in Nat
    /\ s.dst_stride \in Nat /\ s.dst_offset \in Nat
    /\ \A k \in Indices(s.count) :
         /\ k * s.stride + s.take <= sizes[s.src]
         /\ k * s.dst_stride + s.dst_offset + s.take <= sizes[s.out]

\* gather_strided: one assignment a block, or the last block over each cell.
LEMMA GatherSame ==
  ASSUME NEW sizes, NEW s, s.op = "gather_strided", GatherFits(sizes, s)
  PROVE  StubGather(sizes, s) = Left(sizes, s)
<1> DEFINE n == s.count
           base == IF s.clear THEN Zeros(sizes[s.out]) ELSE ArrayOf(sizes, s.out)
           at == [k \in 1 .. n |-> (k - 1) * s.dst_stride + s.dst_offset]
           spans == [k \in 1 .. n |-> Span(ArrayOf(sizes, s.src), (k - 1) * s.stride, s.take)]
           D(f) == f = [k \in 0 .. n |->
                     IF k = 0 THEN base
                     ELSE Assigned(f[k - 1], (k - 1) * s.dst_stride + s.dst_offset,
                                   Span(ArrayOf(sizes, s.src), (k - 1) * s.stride, s.take))]
<1>1. StubGather(sizes, s) = (CHOOSE f : D(f))[n] BY DEF StubGather
<1>2. n \in Nat BY DEF GatherFits
<1>3. base = [i \in DOMAIN base |-> base[i]] /\ DOMAIN base = Indices(sizes[s.out])
  BY DEF Zeros, ArrayOf
<1>4. ASSUME NEW f PROVE D(f) <=> Layering(f, n, base, at, spans)
  <2>1. \A k \in 0 .. n : k # 0 =>
          /\ at[k] = (k - 1) * s.dst_stride + s.dst_offset
          /\ spans[k] = Span(ArrayOf(sizes, s.src), (k - 1) * s.stride, s.take)
    BY <1>2
  <2> HIDE DEF base, at, spans
  <2>2. [k \in 0 .. n |-> IF k = 0 THEN base
           ELSE Assigned(f[k - 1], (k - 1) * s.dst_stride + s.dst_offset,
                         Span(ArrayOf(sizes, s.src), (k - 1) * s.stride, s.take))]
         = [k \in 0 .. n |-> IF k = 0 THEN base ELSE Assigned(f[k - 1], at[k], spans[k])]
    BY <2>1
  <2> QED BY <2>2 DEF Layering
<1>a. \A k \in 1 .. n : at[k] = (k - 1) * s.dst_stride + s.dst_offset OBVIOUS
<1>b. \A i \in Indices(sizes[s.out]) : base[i] = IF s.clear THEN {Zero} ELSE {<<s.out, i>>}
  BY DEF Zeros, ArrayOf
<1> HIDE DEF n, base, at, D
<1>5. PICK f : f = (CHOOSE g : D(g)) OBVIOUS
<1>6. D(f)
  <2> HIDE DEF spans
  <2>1. \E g : D(g) BY <1>2, <1>3, <1>4, LayeringExists
  <2> QED BY <1>5, <2>1
<1>7. StubGather(sizes, s) = Layered(base, at, spans, n)
  <2> HIDE DEF spans
  <2> QED BY <1>1, <1>2, <1>3, <1>4, <1>5, <1>6, LayeringIs
<1>8. ASSUME NEW k \in 1 .. n
      PROVE  spans[k] = [i \in Indices(s.take) |-> {<<s.src, (k - 1) * s.stride + i>>}]
  <2>1. PICK b, m, from : b = s.src /\ m = s.take /\ from = (k - 1) * s.stride OBVIOUS
  <2>2. k - 1 \in Indices(s.count) /\ k - 1 \in Nat BY <1>2 DEF Indices, n
  <2>3. from \in Nat BY <2>1, <2>2, Times DEF GatherFits
  <2>4. sizes[b] \in Nat /\ m \in Nat /\ from + m <= sizes[b] BY <2>1, <2>2 DEF GatherFits
  <2>5. Span(ArrayOf(sizes, b), from, m) = [i \in Indices(m) |-> {<<b, from + i>>}]
    BY <2>3, <2>4, SpanInside
  <2> QED BY <2>1, <2>5 DEF spans
<1> HIDE DEF spans
<1> DEFINE At(k) == k * s.dst_stride + s.dst_offset
           B(i) == {k \in Indices(s.count) : i \in At(k) .. At(k) + s.take - 1}
           C(i) == {j \in 1 .. n : i - at[j] \in DOMAIN spans[j]}
<1>9. ASSUME NEW i \in Indices(sizes[s.out]), NEW k \in 1 .. n
      PROVE  k \in C(i) <=> k - 1 \in B(i)
  <2>1. PICK w \in Nat : w = At(k - 1)
    <3>1. k - 1 \in Nat BY <1>2
    <3> QED BY <3>1, Times DEF GatherFits
  <2>2. at[k] = w BY <1>a, <2>1
  <2>3. DOMAIN spans[k] = 0 .. s.take - 1 BY <1>8 DEF Indices
  <2>4. s.take \in Nat /\ i \in Int BY DEF GatherFits, Indices
  <2>5. k - 1 \in Indices(s.count) BY <1>2 DEF Indices, n
  <2>6. i - w \in 0 .. s.take - 1 <=> i \in w .. w + s.take - 1 BY <2>4
  <2> HIDE DEF At
  <2> QED BY <2>1, <2>2, <2>3, <2>5, <2>6
<1>10. ASSUME NEW i \in Indices(sizes[s.out])
       PROVE  /\ C(i) = {} <=> B(i) = {}
              /\ C(i) # {} => /\ Max(C(i)) \in C(i) /\ Max(C(i)) \in 1 .. n
                              /\ Max(B(i)) = Max(C(i)) - 1
  <2>1. \A j \in B(i) : j + 1 \in 1 .. n /\ (j + 1) - 1 = j BY <1>2 DEF Indices, n
  <2>2. \A j \in B(i) : j + 1 \in C(i)
    <3> HIDE DEF B, C
    <3> QED BY <1>9, <2>1
  <2>3. \A k \in C(i) : k \in 1 .. n /\ k - 1 \in B(i)
    <3>1. C(i) \subseteq 1 .. n OBVIOUS
    <3> HIDE DEF B, C
    <3> QED BY <1>9, <3>1
  <2>4. B(i) \subseteq Int BY DEF Indices
  <2>5. C(i) \subseteq 0 .. n BY <1>2
  <2> HIDE DEF B, C
  <2>6. ASSUME C(i) # {}
        PROVE  /\ Max(C(i)) \in C(i) /\ Max(C(i)) \in 1 .. n
               /\ Max(B(i)) = Max(C(i)) - 1
    <3>1. PICK m : m = Max(C(i)) OBVIOUS
    <3>2. m \in C(i) /\ \A x \in C(i) : x <= m BY <1>2, <2>5, <2>6, <3>1, MaxIn
    <3>3. m \in 1 .. n /\ m - 1 \in B(i) BY <2>3, <3>2
    <3>4. \A j \in B(i) : j <= m - 1 BY <1>2, <2>1, <2>2, <2>4, <3>2, <3>3
    <3>5. Max(B(i)) = m - 1 BY <2>4, <3>3, <3>4, MaxIs
    <3> QED BY <3>1, <3>2, <3>3, <3>5
  <2> QED BY <2>2, <2>3, <2>6
<1> DEFINE W == GatherStrided(sizes, s)
<1>11. Wiring(sizes, s) = W BY DEF Wiring, RunsElf
<1>12. DOMAIN W = {j \in Indices(sizes[s.out]) : s.clear \/ B(j) # {}} BY DEF GatherStrided
<1>13. \A i \in DOMAIN W : W[i] = IF B(i) = {} THEN {Zero}
                                 ELSE {<<s.src, Max(B(i)) * s.stride + i - At(Max(B(i)))>>}
  BY DEF GatherStrided
<1>14. Left(sizes, s)
         = [i \in Indices(sizes[s.out]) |-> IF i \in DOMAIN W THEN W[i] ELSE {<<s.out, i>>}]
  <2> HIDE DEF W
  <2> QED BY <1>11 DEF Left
<1>15. Layered(base, at, spans, n)
         = [i \in Indices(sizes[s.out]) |->
              IF C(i) = {} THEN base[i] ELSE spans[Max(C(i))][i - at[Max(C(i))]]]
  BY <1>3 DEF Layered
<1> HIDE DEF W
<1>16. ASSUME NEW i \in Indices(sizes[s.out])
       PROVE  Layered(base, at, spans, n)[i] = Left(sizes, s)[i]
  <2>1. Layered(base, at, spans, n)[i]
          = IF C(i) = {} THEN base[i] ELSE spans[Max(C(i))][i - at[Max(C(i))]]
    BY <1>15
  <2>2. Left(sizes, s)[i] = IF i \in DOMAIN W THEN W[i] ELSE {<<s.out, i>>} BY <1>14
  <2>3. CASE C(i) = {}
    <3>1. B(i) = {} BY <1>10, <2>3
    <3>2. Layered(base, at, spans, n)[i] = base[i] BY <2>1, <2>3
    <3>3. i \in DOMAIN W <=> s.clear BY <1>12, <3>1
    <3>4. i \in DOMAIN W => W[i] = {Zero} BY <1>13, <3>1
    <3> HIDE DEF B, C, At
    <3> QED BY <1>b, <2>2, <3>2, <3>3, <3>4
  <2>4. CASE C(i) # {}
    <3>1. PICK m : m = Max(C(i)) OBVIOUS
    <3>2. /\ m \in C(i) /\ m \in 1 .. n /\ Max(B(i)) = m - 1 /\ B(i) # {}
      BY <1>10, <2>4, <3>1
    <3>3. i \in DOMAIN W BY <1>12, <3>2
    <3>4. W[i] = {<<s.src, (m - 1) * s.stride + i - At(m - 1)>>}
      <4> HIDE DEF B, At
      <4> QED BY <1>13, <3>2, <3>3
    <3>5. at[m] = At(m - 1) BY <1>a, <3>2
    <3>6. /\ i - at[m] \in Indices(s.take)
          /\ spans[m][i - at[m]] = {<<s.src, (m - 1) * s.stride + (i - at[m])>>}
      BY <1>8, <3>2
    <3>7. (m - 1) * s.stride + (i - At(m - 1)) = (m - 1) * s.stride + i - At(m - 1)
      <4>1. m - 1 \in Nat BY <1>2, <3>2
      <4>2. PICK w \in Nat, v \in Nat : w = At(m - 1) /\ v = (m - 1) * s.stride
        BY <4>1, Times DEF GatherFits
      <4>3. i \in Int BY DEF Indices
      <4> HIDE DEF At
      <4> QED BY <4>2, <4>3
    <3> HIDE DEF B, C, At
    <3> QED BY <2>1, <2>2, <2>4, <3>1, <3>3, <3>4, <3>5, <3>6, <3>7
  <2> QED BY <2>3, <2>4
<1>17. Left(sizes, s) = [i \in Indices(sizes[s.out]) |-> Left(sizes, s)[i]] BY DEF Left
<1>18. Layered(base, at, spans, n)
         = [i \in Indices(sizes[s.out]) |-> Layered(base, at, spans, n)[i]]
  BY <1>15
<1> QED BY <1>7, <1>16, <1>17, <1>18

------------------------------------------------------------------------------
(* pixel_unshuffle: the coordinates of an index *)

\* The quotient and the remainder are the only ones.
LEMMA DivIs ==
  ASSUME NEW b \in Nat \ {0}, NEW q \in Int, NEW r \in Int, 0 <= r, r < b
  PROVE  (q * b + r) \div b = q /\ (q * b + r) % b = r
<1> DEFINE a == q * b + r
<1>1. a \in Int OBVIOUS
<1>2. a = b * (a \div b) + (a % b) /\ a \div b \in Int /\ a % b \in Int /\ 0 <= a % b /\ a % b < b
  OBVIOUS
<1>3. PICK p \in Int, m \in Int : p = a \div b /\ m = a % b BY <1>2
<1>4. q * b + r = b * p + m /\ 0 <= m /\ m < b BY <1>2, <1>3
<1>5. p = q
  <2>1. CASE p >= q + 1
    <3>1. b * p >= b * (q + 1) BY <2>1
    <3>2. b * (q + 1) = q * b + b OBVIOUS
    <3> QED BY <3>1, <3>2, <1>4
  <2>2. CASE q >= p + 1
    <3>1. b * q >= b * (p + 1) BY <2>2
    <3>2. b * (p + 1) = b * p + b OBVIOUS
    <3> QED BY <3>1, <3>2, <1>4
  <2> QED BY <2>1, <2>2
<1>6. m = r BY <1>4, <1>5
<1> QED BY <1>3, <1>5, <1>6

\* The flat index of five coordinates.
LEMMA RavelIs ==
  ASSUME NEW shape, NEW at, Len(shape) = 5
  PROVE  Ravel(shape, at)
           = ((((0 * shape[1] + at[1]) * shape[2] + at[2]) * shape[3] + at[3])
                * shape[4] + at[4]) * shape[5] + at[5]
<1> DEFINE D(f) == f = [d \in 0 .. Len(shape) |-> IF d = 0 THEN 0 ELSE f[d - 1] * shape[d] + at[d]]
           e1 == 0 * shape[1] + at[1]
           e2 == e1 * shape[2] + at[2]
           e3 == e2 * shape[3] + at[3]
           e4 == e3 * shape[4] + at[4]
           e5 == e4 * shape[5] + at[5]
           g == [d \in 0 .. 5 |-> IF d = 0 THEN 0 ELSE IF d = 1 THEN e1 ELSE IF d = 2 THEN e2
                                  ELSE IF d = 3 THEN e3 ELSE IF d = 4 THEN e4 ELSE e5]
<1>1. Ravel(shape, at) = (CHOOSE f : D(f))[Len(shape)] BY DEF Ravel
<1>2. D(g)
  <2>1. g[0] = 0 /\ g[1] = e1 /\ g[2] = e2 /\ g[3] = e3 /\ g[4] = e4 /\ g[5] = e5
    <3> HIDE DEF e1, e2, e3, e4, e5
    <3> QED OBVIOUS
  <2>2. /\ e1 = g[0] * shape[1] + at[1] /\ e2 = g[1] * shape[2] + at[2]
        /\ e3 = g[2] * shape[3] + at[3] /\ e4 = g[3] * shape[4] + at[4]
        /\ e5 = g[4] * shape[5] + at[5]
    <3> HIDE DEF g
    <3> QED BY <2>1
  <2> HIDE DEF e1, e2, e3, e4, e5
  <2>3. g = [d \in 0 .. 5 |-> g[d]] OBVIOUS
  <2> HIDE DEF g
  <2>4. \A d \in 0 .. 5 : d = 0 \/ d = 1 \/ d = 2 \/ d = 3 \/ d = 4 \/ d = 5 OBVIOUS
  <2>5. \A d \in 0 .. 5 : g[d] = IF d = 0 THEN 0 ELSE g[d - 1] * shape[d] + at[d]
    <3> SUFFICES ASSUME NEW d \in 0 .. 5
                 PROVE  g[d] = IF d = 0 THEN 0 ELSE g[d - 1] * shape[d] + at[d]
      OBVIOUS
    <3>1. CASE d = 0 BY <3>1, <2>1
    <3>2. CASE d = 1 BY <3>2, <2>1, <2>2
    <3>3. CASE d = 2 BY <3>3, <2>1, <2>2
    <3>4. CASE d = 3 BY <3>4, <2>1, <2>2
    <3>5. CASE d = 4 BY <3>5, <2>1, <2>2
    <3>6. CASE d = 5 BY <3>6, <2>1, <2>2
    <3> QED BY <2>4, <3>1, <3>2, <3>3, <3>4, <3>5, <3>6
  <2> QED BY <2>3, <2>5
<1> HIDE DEF g
<1>3. PICK f : f = (CHOOSE h : D(h)) OBVIOUS
<1>4. D(f)
  <2>1. \E h : D(h) BY <1>2
  <2> HIDE DEF D
  <2> QED BY <2>1, <1>3
<1>5. /\ f[0] = 0 /\ f[1] = f[0] * shape[1] + at[1] /\ f[2] = f[1] * shape[2] + at[2]
      /\ f[3] = f[2] * shape[3] + at[3] /\ f[4] = f[3] * shape[4] + at[4]
      /\ f[5] = f[4] * shape[5] + at[5]
  <2>1. \A d \in 0 .. 5 : f[d] = IF d = 0 THEN 0 ELSE f[d - 1] * shape[d] + at[d]
    BY <1>4
  <2> HIDE DEF D
  <2> QED BY <2>1
<1> HIDE DEF D
<1> QED BY <1>1, <1>3, <1>5

\* The coordinates of an index of five axes.
LEMMA UnravelIs ==
  ASSUME NEW shape, NEW i, Len(shape) = 5, DOMAIN shape = 1 .. 5
  PROVE  LET over4 == i \div shape[5]
             over3 == over4 \div shape[4]
             over2 == over3 \div shape[3]
             over1 == over2 \div shape[2]
             to == Unravel(shape, i)
         IN  /\ to = [d \in 1 .. 5 |-> to[d]]
             /\ to[5] = i % shape[5] /\ to[4] = over4 % shape[4] /\ to[3] = over3 % shape[3]
             /\ to[2] = over2 % shape[2] /\ to[1] = over1 % shape[1]
<1> DEFINE D(f) == f = [d \in DOMAIN shape |-> IF d = Len(shape) THEN i
                                               ELSE f[d + 1] \div shape[d + 1]]
           o4 == i \div shape[5]
           o3 == o4 \div shape[4]
           o2 == o3 \div shape[3]
           o1 == o2 \div shape[2]
           g == [d \in 1 .. 5 |-> IF d = 5 THEN i ELSE IF d = 4 THEN o4 ELSE IF d = 3 THEN o3
                                  ELSE IF d = 2 THEN o2 ELSE o1]
<1>1. Unravel(shape, i) = [d \in DOMAIN shape |-> (CHOOSE f : D(f))[d] % shape[d]]
  BY DEF Unravel
<1>2. D(g)
  <2>1. g[5] = i /\ g[4] = o4 /\ g[3] = o3 /\ g[2] = o2 /\ g[1] = o1
    <3> HIDE DEF o4, o3, o2, o1
    <3> QED OBVIOUS
  <2>2. /\ o4 = g[5] \div shape[5] /\ o3 = g[4] \div shape[4]
        /\ o2 = g[3] \div shape[3] /\ o1 = g[2] \div shape[2]
    <3> HIDE DEF g
    <3> QED BY <2>1
  <2> HIDE DEF o4, o3, o2, o1
  <2>3. g = [d \in 1 .. 5 |-> g[d]] OBVIOUS
  <2> HIDE DEF g
  <2>4. \A d \in 1 .. 5 : d = 1 \/ d = 2 \/ d = 3 \/ d = 4 \/ d = 5 OBVIOUS
  <2>5. \A d \in 1 .. 5 : g[d] = IF d = Len(shape) THEN i ELSE g[d + 1] \div shape[d + 1]
    <3> SUFFICES ASSUME NEW d \in 1 .. 5
                 PROVE  g[d] = IF d = 5 THEN i ELSE g[d + 1] \div shape[d + 1]
      OBVIOUS
    <3>1. CASE d = 1 BY <3>1, <2>1, <2>2
    <3>2. CASE d = 2 BY <3>2, <2>1, <2>2
    <3>3. CASE d = 3 BY <3>3, <2>1, <2>2
    <3>4. CASE d = 4 BY <3>4, <2>1, <2>2
    <3>5. CASE d = 5 BY <3>5, <2>1, <2>2
    <3> QED BY <2>4, <3>1, <3>2, <3>3, <3>4, <3>5
  <2> QED BY <2>3, <2>5
<1> HIDE DEF g
<1>3. PICK f : f = (CHOOSE h : D(h)) OBVIOUS
<1>4. D(f)
  <2>1. \E h : D(h) BY <1>2
  <2> HIDE DEF D
  <2> QED BY <2>1, <1>3
<1>5. f[5] = i /\ f[4] = o4 /\ f[3] = o3 /\ f[2] = o2 /\ f[1] = o1
  <2>1. \A d \in 1 .. 5 : f[d] = IF d = 5 THEN i ELSE f[d + 1] \div shape[d + 1]
    BY <1>4
  <2> HIDE DEF D
  <2> QED BY <2>1
<1>6. Unravel(shape, i) = [d \in 1 .. 5 |-> f[d] % shape[d]]
  <2> HIDE DEF D
  <2> QED BY <1>1, <1>3
<1> QED BY <1>5, <1>6

\* The quotient and the remainder.
LEMMA Division ==
  ASSUME NEW a \in Int, NEW b \in Nat \ {0}
  PROVE  /\ a \div b \in Int /\ a % b \in 0 .. b - 1
         /\ a = (a \div b) * b + (a % b)
OBVIOUS

\* A row of an array of A rows of B.
LEMMA Inside ==
  ASSUME NEW A \in Nat, NEW B \in Nat, NEW a \in Int, NEW b \in Int, 0 <= a, a < A, 0 <= b, b < B
  PROVE  a * B + b \in 0 .. A * B - 1
<1>1. a * B >= 0 BY Times
<1>2. (a + 1) * B <= A * B
  <2>1. PICK d \in Nat : A = (a + 1) + d
    <3>1. A - (a + 1) \in Nat /\ A = (a + 1) + (A - (a + 1)) OBVIOUS
    <3> QED BY <3>1
  <2>2. d * B \in Nat BY Times
  <2>3. ((a + 1) + d) * B = (a + 1) * B + d * B OBVIOUS
  <2> QED BY <2>1, <2>2, <2>3
<1>3. (a + 1) * B = a * B + B OBVIOUS
<1>4. a * B \in Int /\ A * B \in Int OBVIOUS
<1> QED BY <1>1, <1>2, <1>3, <1>4

\* j is the index of the coordinates t1, ..., t5 in n1 x ... x n5 cells.
IndexOf(j, n1, n2, n3, n4, n5, t1, t2, t3, t4, t5) ==
    /\ {n1, n2, n3, n4, n5} \subseteq Nat \ {0}
    /\ t1 \in 0 .. n1 - 1 /\ t2 \in 0 .. n2 - 1 /\ t3 \in 0 .. n3 - 1
    /\ t4 \in 0 .. n4 - 1 /\ t5 \in 0 .. n5 - 1
    /\ j = (((t1 * n2 + t2) * n3 + t3) * n4 + t4) * n5 + t5

\* The digits of an index of side x side x ch x f x f.
LEMMA Digits ==
  ASSUME NEW f \in Nat \ {0}, NEW ch \in Nat \ {0}, NEW side \in Nat \ {0},
         NEW i \in Nat, i < side * side * ch * f * f
  PROVE  \E t1, t2, t3, t4, t5 : IndexOf(i, side, side, ch, f, f, t1, t2, t3, t4, t5)
<1> DEFINE q1 == i \div f     t5 == i % f
           q2 == q1 \div f    t4 == q1 % f
           q3 == q2 \div ch   t3 == q2 % ch
           q4 == q3 \div side t2 == q3 % side
<1>1. q1 \in Int /\ t5 \in 0 .. f - 1 /\ i = q1 * f + t5 BY Division
<1>2. q2 \in Int /\ t4 \in 0 .. f - 1 /\ q1 = q2 * f + t4
  <2> HIDE DEF q1
  <2> QED BY <1>1, Division
<1>3. q3 \in Int /\ t3 \in 0 .. ch - 1 /\ q2 = q3 * ch + t3
  <2> HIDE DEF q2
  <2> QED BY <1>2, Division
<1>4. q4 \in Int /\ t2 \in 0 .. side - 1 /\ q3 = q4 * side + t2
  <2> HIDE DEF q3
  <2> QED BY <1>3, Division
<1> HIDE DEF q1, q2, q3, q4, t2, t3, t4, t5
<1>5. i = (((q4 * side + t2) * ch + t3) * f + t4) * f + t5 BY <1>1, <1>2, <1>3, <1>4
<1>6. ASSUME NEW a \in Int, NEW b \in Nat \ {0}, NEW c \in Int, NEW r \in 0 .. b - 1,
             a = c * b + r, 0 <= a
      PROVE  0 <= c
  <2> SUFFICES ASSUME c <= -1 PROVE FALSE OBVIOUS
  <2>1. -c - 1 \in Nat OBVIOUS
  <2>2. (-c - 1) * b \in Nat BY <2>1, Times
  <2>3. (-c - 1) * b = -(c * b) - b OBVIOUS
  <2>4. c * b \in Int OBVIOUS
  <2> QED BY <1>6, <2>2, <2>3, <2>4
<1>7. ASSUME NEW a \in Int, NEW b \in Nat \ {0}, NEW c \in Int, NEW r \in 0 .. b - 1, NEW m \in Int,
             a = c * b + r, a < m * b
      PROVE  c < m
  <2> SUFFICES ASSUME c >= m PROVE FALSE OBVIOUS
  <2>1. (c - m) \in Nat OBVIOUS
  <2>2. (c - m) * b \in Nat BY <2>1, Times
  <2>3. (c - m) * b = c * b - m * b OBVIOUS
  <2>4. c * b \in Int /\ m * b \in Int OBVIOUS
  <2> QED BY <1>7, <2>2, <2>3, <2>4
<1>8. 0 <= q4
  <2>1. 0 <= q1 BY <1>1, <1>6
  <2>2. 0 <= q2 BY <2>1, <1>1, <1>2, <1>6
  <2>3. 0 <= q3 BY <2>2, <1>2, <1>3, <1>6
  <2> QED BY <2>3, <1>3, <1>4, <1>6
<1>9. q4 < side
  <2>1. q1 < side * side * ch * f
    <3>1. PICK m \in Int : m = side * side * ch * f OBVIOUS
    <3>2. i < m * f BY <3>1
    <3> QED BY <3>1, <3>2, <1>1, <1>7
  <2>2. q2 < side * side * ch
    <3>1. PICK m \in Int : m = side * side * ch OBVIOUS
    <3>2. q1 < m * f BY <3>1, <2>1
    <3> QED BY <3>1, <3>2, <1>1, <1>2, <1>7
  <2>3. q3 < side * side
    <3>1. PICK m \in Int : m = side * side OBVIOUS
    <3>2. q2 < m * ch BY <3>1, <2>2
    <3> QED BY <3>1, <3>2, <1>2, <1>3, <1>7
  <2> QED BY <2>3, <1>3, <1>4, <1>7
<1>10. q4 \in 0 .. side - 1 BY <1>4, <1>8, <1>9
<1>11. IndexOf(i, side, side, ch, f, f, q4, t2, t3, t4, t5)
  BY <1>1, <1>2, <1>3, <1>4, <1>5, <1>10 DEF IndexOf
<1> QED BY <1>11

\* The source is a grid that the factor divides.
UnshuffleFits(sizes, s) ==
    /\ sizes[s.src] \in Nat /\ sizes[s.out] = sizes[s.src]
    /\ s.grid \in Nat /\ s.factor \in Nat \ {0} /\ s.channels \in Nat
    /\ s.grid % s.factor = 0 /\ sizes[s.src] = s.grid * s.grid * s.channels

\* What plan.cpp divides an index of side x side x ch x f x f into.
NativeDigits(i, side, ch, f, t1, t2, t3, t4, t5) ==
    /\ i \div (ch * (f * f)) = t1 * side + t2
    /\ (i % (ch * (f * f))) \div (f * f) = t3
    /\ (i % (f * f)) \div f = t4 /\ i % f = t5
    /\ (t1 * side + t2) \div side = t1 /\ (t1 * side + t2) % side = t2

\* It finds the digits of the index.
LEMMA OfDigits ==
  ASSUME NEW f \in Nat \ {0}, NEW ch \in Nat \ {0}, NEW side \in Nat \ {0},
         NEW t1, NEW t2, NEW t3, NEW t4, NEW t5, NEW i,
         IndexOf(i, side, side, ch, f, f, t1, t2, t3, t4, t5)
  PROVE  NativeDigits(i, side, ch, f, t1, t2, t3, t4, t5)
<1>0. PICK d1 \in 0 .. side - 1, d2 \in 0 .. side - 1, d3 \in 0 .. ch - 1,
           d4 \in 0 .. f - 1, d5 \in 0 .. f - 1 :
             /\ d1 = t1 /\ d2 = t2 /\ d3 = t3 /\ d4 = t4 /\ d5 = t5
             /\ i = (((d1 * side + d2) * ch + d3) * f + d4) * f + d5
  BY DEF IndexOf
<1>1. PICK area \in Nat \ {0} : area = f * f
  <2>1. f * f \in Nat /\ f * f # 0 OBVIOUS
  <2> QED BY <2>1
<1>2. PICK wide \in Nat \ {0} : wide = ch * area
  <2>1. ch * area \in Nat /\ ch * area # 0 OBVIOUS
  <2> QED BY <2>1
<1>3. PICK u \in Int : u = d1 * side + d2 OBVIOUS
<1>4. PICK v \in Int : v = u * ch + d3 OBVIOUS
<1>5. PICK w \in Int : w = v * f + d4 OBVIOUS
<1>6. i = w * f + d5 BY <1>0, <1>3, <1>4, <1>5
<1>7. i % f = d5
  <2>1. d5 \in Int /\ 0 <= d5 /\ d5 < f OBVIOUS
  <2>2. (w * f + d5) % f = d5 BY <2>1, DivIs
  <2> QED BY <2>2, <1>6
<1>8. PICK low \in Int : low = d4 * f + d5 OBVIOUS
<1>9. low \in 0 .. area - 1 BY <1>1, <1>8, Inside
<1>10. i = v * area + low
  <2>1. (v * f + d4) * f + d5 = v * (f * f) + (d4 * f + d5) OBVIOUS
  <2> QED BY <2>1, <1>1, <1>5, <1>6, <1>8
<1>11. i % area = low
  <2>1. 0 <= low /\ low < area BY <1>9
  <2>2. (v * area + low) % area = low BY <2>1, DivIs
  <2> QED BY <2>2, <1>10
<1>12. low \div f = d4 BY <1>8, DivIs
<1>13. PICK mid \in Int : mid = d3 * area + low OBVIOUS
<1>14. mid \in 0 .. wide - 1 BY <1>2, <1>9, <1>13, Inside
<1>15. i = u * wide + mid
  <2>1. (u * ch + d3) * area + low = u * (ch * area) + (d3 * area + low) OBVIOUS
  <2> QED BY <2>1, <1>2, <1>4, <1>10, <1>13
<1>16. i \div wide = u /\ i % wide = mid BY <1>14, <1>15, DivIs
<1>17. mid \div area = d3 BY <1>9, <1>13, DivIs
<1>18. u \div side = d1 /\ u % side = d2 BY <1>3, DivIs
<1> QED BY <1>0, <1>1, <1>2, <1>3, <1>7, <1>11, <1>12, <1>16, <1>17, <1>18 DEF NativeDigits

\* What numpy divides an index of n1 x ... x n5 into, axis by axis from the last.
Coordinates(j, n1, n2, n3, n4, n5, t1, t2, t3, t4, t5) ==
    /\ j \in 0 .. n1 * n2 * n3 * n4 * n5 - 1
    /\ j % n5 = t5
    /\ (j \div n5) % n4 = t4
    /\ ((j \div n5) \div n4) % n3 = t3
    /\ (((j \div n5) \div n4) \div n3) % n2 = t2
    /\ ((((j \div n5) \div n4) \div n3) \div n2) % n1 = t1

\* It finds the coordinates of the index.
LEMMA Nested ==
  ASSUME NEW j, NEW n1, NEW n2, NEW n3, NEW n4, NEW n5, NEW t1, NEW t2, NEW t3, NEW t4, NEW t5,
         IndexOf(j, n1, n2, n3, n4, n5, t1, t2, t3, t4, t5)
  PROVE  Coordinates(j, n1, n2, n3, n4, n5, t1, t2, t3, t4, t5)
<1>0. /\ n1 \in Nat \ {0} /\ n2 \in Nat \ {0} /\ n3 \in Nat \ {0}
      /\ n4 \in Nat \ {0} /\ n5 \in Nat \ {0}
      /\ t1 \in 0 .. n1 - 1 /\ t2 \in 0 .. n2 - 1 /\ t3 \in 0 .. n3 - 1
      /\ t4 \in 0 .. n4 - 1 /\ t5 \in 0 .. n5 - 1
      /\ j = (((t1 * n2 + t2) * n3 + t3) * n4 + t4) * n5 + t5
  BY DEF IndexOf
<1>1. PICK a \in Int : a = t1 * n2 + t2 BY <1>0
<1>2. PICK b \in Int : b = a * n3 + t3 BY <1>0
<1>3. PICK c \in Int : c = b * n4 + t4 BY <1>0
<1>4. j = c * n5 + t5 BY <1>0, <1>1, <1>2, <1>3
<1>5. j % n5 = t5 /\ j \div n5 = c
  <2>1. n5 \in Nat \ {0} /\ t5 \in Int /\ 0 <= t5 /\ t5 < n5 BY <1>0
  <2>2. (c * n5 + t5) % n5 = t5 /\ (c * n5 + t5) \div n5 = c BY <2>1, DivIs
  <2> QED BY <1>4, <2>2
<1>6. c % n4 = t4 /\ c \div n4 = b
  <2>1. n4 \in Nat \ {0} /\ t4 \in Int /\ 0 <= t4 /\ t4 < n4 BY <1>0
  <2>2. (b * n4 + t4) % n4 = t4 /\ (b * n4 + t4) \div n4 = b BY <2>1, DivIs
  <2> QED BY <1>3, <2>2
<1>7. b % n3 = t3 /\ b \div n3 = a
  <2>1. n3 \in Nat \ {0} /\ t3 \in Int /\ 0 <= t3 /\ t3 < n3 BY <1>0
  <2>2. (a * n3 + t3) % n3 = t3 /\ (a * n3 + t3) \div n3 = a BY <2>1, DivIs
  <2> QED BY <1>2, <2>2
<1>8. a % n2 = t2 /\ a \div n2 = t1
  <2>1. n2 \in Nat \ {0} /\ t2 \in Int /\ 0 <= t2 /\ t2 < n2 /\ t1 \in Int BY <1>0
  <2>2. (t1 * n2 + t2) % n2 = t2 /\ (t1 * n2 + t2) \div n2 = t1 BY <2>1, DivIs
  <2> QED BY <1>1, <2>2
<1>9. t1 % n1 = t1
  <2>1. t1 = 0 * n1 + t1 BY <1>0
  <2>2. n1 \in Nat \ {0} /\ t1 \in Int /\ 0 <= t1 /\ t1 < n1 BY <1>0
  <2>3. (0 * n1 + t1) % n1 = t1 BY <2>2, DivIs
  <2> QED BY <2>1, <2>3
<1>10. j \in 0 .. n1 * n2 * n3 * n4 * n5 - 1
  <2>1. PICK A \in Nat : A = n1 * n2 BY <1>0
  <2>2. a \in 0 .. A - 1 BY <1>1, <2>1, <1>0, Inside
  <2>3. PICK B \in Nat : B = A * n3 BY <1>0, Times
  <2>4. b \in 0 .. B - 1 BY <1>2, <2>2, <2>3, <1>0, Inside
  <2>5. PICK C \in Nat : C = B * n4 BY <1>0, Times
  <2>6. c \in 0 .. C - 1 BY <1>3, <2>4, <2>5, <1>0, Inside
  <2>7. j \in 0 .. C * n5 - 1 BY <1>4, <2>6, <1>0, Inside
  <2> QED BY <2>1, <2>3, <2>5, <2>7
<1> QED BY <1>5, <1>6, <1>7, <1>8, <1>9, <1>10 DEF Coordinates

\* A shape of five axes.
LEMMA Lengths ==
  ASSUME NEW a, NEW b, NEW c, NEW d, NEW e
  PROVE  /\ Len(<<a, b, c, d, e>>) = 5 /\ DOMAIN <<a, b, c, d, e>> = 1 .. 5
         /\ <<a, b, c, d, e>>[1] = a /\ <<a, b, c, d, e>>[2] = b /\ <<a, b, c, d, e>>[3] = c
         /\ <<a, b, c, d, e>>[4] = d /\ <<a, b, c, d, e>>[5] = e
OBVIOUS

\* As a fact about a shape that is not written out.
FiveAxes(shape) == Len(shape) = 5 /\ DOMAIN shape = 1 .. 5

\* The axis d of a shape is moved to back[d].
Undoes(back, axes) ==
    /\ DOMAIN axes = 1 .. 5
    /\ \A d \in 1 .. 5 : back[d] \in 1 .. 5 /\ \A e \in 1 .. 5 : axes[e] = d <=> e = back[d]

\* An element of a transposed array: the one whose coordinates are moved there.
LEMMA TransposedAt ==
  ASSUME NEW array, NEW i \in DOMAIN array, NEW shape, FiveAxes(shape),
         NEW axes, NEW back, Undoes(back, axes),
         NEW to, to = Unravel(Permuted(shape, axes), i), NEW k,
         IndexOf(k, shape[1], shape[2], shape[3], shape[4], shape[5],
                 to[back[1]], to[back[2]], to[back[3]], to[back[4]], to[back[5]])
  PROVE  Transposed(array, shape, axes)[i] = array[k]
<1>a. Len(shape) = 5 /\ DOMAIN shape = 1 .. 5 BY DEF FiveAxes
<1>b. /\ DOMAIN axes = 1 .. 5
      /\ \A d \in 1 .. 5 : back[d] \in 1 .. 5 /\ \A e \in 1 .. 5 : axes[e] = d <=> e = back[d]
  BY DEF Undoes
<1> DEFINE at == [d \in DOMAIN shape |-> to[CHOOSE e \in DOMAIN axes : axes[e] = d]]
<1>1. \A d \in 1 .. 5 : at[d] = to[back[d]]
  <2> SUFFICES ASSUME NEW d \in 1 .. 5 PROVE at[d] = to[back[d]] OBVIOUS
  <2>1. \A e \in 1 .. 5 : axes[e] = d <=> e = back[d] BY <1>b
  <2>2. back[d] \in 1 .. 5 BY <1>b
  <2>3. (CHOOSE e \in DOMAIN axes : axes[e] = d) = back[d] BY <1>b, <2>1, <2>2
  <2> QED BY <1>a, <2>3
<1>2. Transposed(array, shape, axes)[i] = array[Ravel(shape, at)] BY DEF Transposed
<1> HIDE DEF at
<1>3. at[1] = to[back[1]] /\ at[2] = to[back[2]] /\ at[3] = to[back[3]]
      /\ at[4] = to[back[4]] /\ at[5] = to[back[5]] BY <1>1
<1>4. Ravel(shape, at)
           = ((((0 * shape[1] + at[1]) * shape[2] + at[2]) * shape[3] + at[3])
                * shape[4] + at[4]) * shape[5] + at[5] BY <1>a, RavelIs
<1>5. /\ to[back[1]] \in Int /\ shape[1] \in Int
      /\ k = (((to[back[1]] * shape[2] + to[back[2]]) * shape[3] + to[back[3]])
                * shape[4] + to[back[4]]) * shape[5] + to[back[5]]
  BY DEF IndexOf
<1>6. 0 * shape[1] + to[back[1]] = to[back[1]] BY <1>5
<1> QED BY <1>2, <1>3, <1>4, <1>5, <1>6

\* The five axes.
LEMMA Five == \A d \in 1 .. 5 : d = 1 \/ d = 2 \/ d = 3 \/ d = 4 \/ d = 5
OBVIOUS

\* The array has n elements.
Holds(array, n) == DOMAIN array = Indices(n)

\* The two transposes of a grid of side x side blocks of f x f cells of ch channels.
LEMMA Folded ==
  ASSUME NEW f \in Nat \ {0}, NEW ch \in Nat \ {0}, NEW side \in Nat \ {0},
         NEW t1, NEW t2, NEW t3, NEW t4, NEW t5,
         NEW array, Holds(array, side * side * ch * f * f),
         NEW once, once = Transposed(array, <<side, f, side, f, ch>>, <<1, 3, 2, 4, 5>>),
         NEW i, IndexOf(i, side, side, ch, f, f, t1, t2, t3, t4, t5),
         NEW k, IndexOf(k, side, f, side, f, ch, t1, t4, t2, t5, t3)
  PROVE  /\ Transposed(once, <<side, side, f, f, ch>>, <<1, 2, 5, 3, 4>>)[i] = array[k]
         /\ k \in DOMAIN array
<1>1. PICK shape1 : shape1 = <<side, f, side, f, ch>> OBVIOUS
<1>2. PICK shape2 : shape2 = <<side, side, f, f, ch>> OBVIOUS
<1>3. PICK shape3 : shape3 = <<side, side, ch, f, f>> OBVIOUS
<1>4. PICK axes1 : axes1 = <<1, 3, 2, 4, 5>> OBVIOUS
<1>5. PICK axes2 : axes2 = <<1, 2, 5, 3, 4>> OBVIOUS
<1>6. PICK back2 : back2 = <<1, 2, 4, 5, 3>> OBVIOUS
<1>7. /\ Len(shape1) = 5 /\ DOMAIN shape1 = 1 .. 5 /\ shape1[1] = side /\ shape1[2] = f
      /\ shape1[3] = side /\ shape1[4] = f /\ shape1[5] = ch
  BY <1>1, Lengths
<1>8. /\ Len(shape2) = 5 /\ DOMAIN shape2 = 1 .. 5 /\ shape2[1] = side /\ shape2[2] = side
      /\ shape2[3] = f /\ shape2[4] = f /\ shape2[5] = ch
  BY <1>2, Lengths
<1>9. /\ Len(shape3) = 5 /\ DOMAIN shape3 = 1 .. 5 /\ shape3[1] = side /\ shape3[2] = side
      /\ shape3[3] = ch /\ shape3[4] = f /\ shape3[5] = f
  BY <1>3, Lengths
<1>10. /\ DOMAIN axes1 = 1 .. 5 /\ axes1[1] = 1 /\ axes1[2] = 3 /\ axes1[3] = 2
       /\ axes1[4] = 4 /\ axes1[5] = 5
  BY <1>4, Lengths
<1>11. /\ DOMAIN axes2 = 1 .. 5 /\ axes2[1] = 1 /\ axes2[2] = 2 /\ axes2[3] = 5
       /\ axes2[4] = 3 /\ axes2[5] = 4
  BY <1>5, Lengths
<1>12. /\ back2[1] = 1 /\ back2[2] = 2 /\ back2[3] = 4 /\ back2[4] = 5 /\ back2[5] = 3
  BY <1>6, Lengths
<1>13. shape2 = Permuted(shape1, axes1)
  <2>1. \A d \in 1 .. 5 : shape2[d] = shape1[axes1[d]] BY <1>7, <1>8, <1>10, Five
  <2>2. shape2 = [d \in 1 .. 5 |-> shape2[d]] BY <1>2
  <2> QED BY <1>10, <2>1, <2>2 DEF Permuted
<1>14. shape3 = Permuted(shape2, axes2)
  <2>1. \A d \in 1 .. 5 : shape3[d] = shape2[axes2[d]] BY <1>8, <1>9, <1>11, Five
  <2>2. shape3 = [d \in 1 .. 5 |-> shape3[d]] BY <1>3
  <2> QED BY <1>11, <2>1, <2>2 DEF Permuted
<1>15. PICK j : j = (((t1 * side + t2) * f + t4) * f + t5) * ch + t3 OBVIOUS
<1>a. IndexOf(j, side, side, f, f, ch, t1, t2, t4, t5, t3) BY <1>15 DEF IndexOf
<1>16. /\ i \in 0 .. side * side * ch * f * f - 1 /\ i % f = t5 /\ (i \div f) % f = t4
       /\ ((i \div f) \div f) % ch = t3 /\ (((i \div f) \div f) \div ch) % side = t2
       /\ ((((i \div f) \div f) \div ch) \div side) % side = t1
  BY Nested DEF Coordinates
<1>17. /\ j \in 0 .. side * side * f * f * ch - 1 /\ j % ch = t3 /\ (j \div ch) % f = t5
       /\ ((j \div ch) \div f) % f = t4 /\ (((j \div ch) \div f) \div f) % side = t2
       /\ ((((j \div ch) \div f) \div f) \div side) % side = t1
  <2>1. Coordinates(j, side, side, f, f, ch, t1, t2, t4, t5, t3) BY <1>a, Nested
  <2> QED BY <2>1 DEF Coordinates
<1>18. k \in 0 .. side * f * side * f * ch - 1
  <2>1. Coordinates(k, side, f, side, f, ch, t1, t4, t2, t5, t3) BY Nested
  <2> QED BY <2>1 DEF Coordinates
<1>19. i \in DOMAIN array /\ j \in DOMAIN array /\ k \in DOMAIN array
  <2>1. side * side * f * f * ch = side * side * ch * f * f
        /\ side * f * side * f * ch = side * side * ch * f * f
    OBVIOUS
  <2> QED BY <1>16, <1>17, <1>18, <2>1 DEF Holds, Indices
<1>20. PICK at : at = Unravel(shape2, j) OBVIOUS
<1>21. at[1] = t1 /\ at[2] = t2 /\ at[3] = t4 /\ at[4] = t5 /\ at[5] = t3
  BY <1>8, <1>17, <1>20, UnravelIs
<1>22. PICK to : to = Unravel(shape3, i) OBVIOUS
<1>23. to[1] = t1 /\ to[2] = t2 /\ to[3] = t3 /\ to[4] = t4 /\ to[5] = t5
  BY <1>9, <1>16, <1>22, UnravelIs
<1>25. once[j] = array[k]
  <2>1. Undoes(axes1, axes1) BY <1>10, Five DEF Undoes
  <2>2. IndexOf(k, shape1[1], shape1[2], shape1[3], shape1[4], shape1[5],
                at[axes1[1]], at[axes1[2]], at[axes1[3]], at[axes1[4]], at[axes1[5]])
    BY <1>7, <1>10, <1>21
  <2>3. FiveAxes(shape1) BY <1>7 DEF FiveAxes
  <2>4. at = Unravel(Permuted(shape1, axes1), j) BY <1>13, <1>20
  <2>5. j \in DOMAIN array BY <1>19
  <2>6. Transposed(array, shape1, axes1)[j] = array[k]
    BY <2>1, <2>2, <2>3, <2>4, <2>5, TransposedAt
  <2> QED BY <1>1, <1>4, <2>6
<1>26. DOMAIN once = DOMAIN array BY DEF Transposed
<1>27. Transposed(once, shape2, axes2)[i] = once[j]
  <2>1. Undoes(back2, axes2) BY <1>11, <1>12, Five DEF Undoes
  <2>2. IndexOf(j, shape2[1], shape2[2], shape2[3], shape2[4], shape2[5],
                to[back2[1]], to[back2[2]], to[back2[3]], to[back2[4]], to[back2[5]])
    BY <1>a, <1>8, <1>12, <1>23
  <2>3. FiveAxes(shape2) BY <1>8 DEF FiveAxes
  <2>4. to = Unravel(Permuted(shape2, axes2), i) BY <1>14, <1>22
  <2>5. i \in DOMAIN once BY <1>19, <1>26
  <2> QED BY <2>1, <2>2, <2>3, <2>4, <2>5, TransposedAt
<1> QED BY <1>2, <1>5, <1>19, <1>25, <1>27

\* The step unshuffles side x side blocks of f x f cells of ch channels.
Unshuffles(sizes, s, side, f, ch) ==
    /\ s.factor = f /\ s.channels = ch /\ s.grid = side * f /\ (side * f) \div f = side
    /\ sizes[s.src] = side * side * ch * f * f /\ sizes[s.out] = sizes[s.src]

\* Both move one and the same element to i.
Unfolded(sizes, s, i) ==
    \E k \in Indices(sizes[s.src]) : /\ PixelUnshuffle(sizes, s)[i] = {<<s.src, k>>}
                                    /\ StubUnshuffle(sizes, s)[i] = {<<s.src, k>>}

\* One element of an unshuffled grid.
LEMMA UnshuffleAt ==
  ASSUME NEW sizes, NEW s, NEW f \in Nat \ {0}, NEW ch \in Nat \ {0}, NEW side \in Nat \ {0},
         Unshuffles(sizes, s, side, f, ch), NEW i, i \in Indices(sizes[s.src])
  PROVE  Unfolded(sizes, s, i)
<1>1. /\ s.factor = f /\ s.channels = ch /\ s.grid = side * f /\ (side * f) \div f = side
      /\ sizes[s.src] = side * side * ch * f * f /\ sizes[s.out] = sizes[s.src]
  BY DEF Unshuffles
<1>2. i \in Nat /\ i < side * side * ch * f * f BY <1>1 DEF Indices
<1>3. PICK t1, t2, t3, t4, t5 : IndexOf(i, side, side, ch, f, f, t1, t2, t3, t4, t5)
  BY <1>2, Digits
<1>4. PICK k : k = (((t1 * f + t4) * side + t2) * f + t5) * ch + t3 OBVIOUS
<1>5. PICK array : array = ArrayOf(sizes, s.src) OBVIOUS
<1>6. Holds(array, side * side * ch * f * f)
      /\ \A j \in DOMAIN array : array[j] = {<<s.src, j>>}
  BY <1>1, <1>5 DEF ArrayOf, Holds
<1>7. PICK once : once = Transposed(array, <<side, f, side, f, ch>>, <<1, 3, 2, 4, 5>>) OBVIOUS
<1>8. StubUnshuffle(sizes, s) = Transposed(once, <<side, side, f, f, ch>>, <<1, 2, 5, 3, 4>>)
  BY <1>1, <1>5, <1>7 DEF StubUnshuffle
<1>a. IndexOf(k, side, f, side, f, ch, t1, t4, t2, t5, t3) BY <1>3, <1>4 DEF IndexOf
<1>9. StubUnshuffle(sizes, s)[i] = array[k] /\ k \in DOMAIN array
  BY <1>3, <1>6, <1>7, <1>8, <1>a, Folded
<1>10. /\ i \div (ch * (f * f)) = t1 * side + t2
       /\ (i % (ch * (f * f))) \div (f * f) = t3
       /\ (i % (f * f)) \div f = t4 /\ i % f = t5
       /\ (t1 * side + t2) \div side = t1 /\ (t1 * side + t2) % side = t2
  <2>1. NativeDigits(i, side, ch, f, t1, t2, t3, t4, t5) BY <1>3, OfDigits
  <2> QED BY <2>1 DEF NativeDigits
<1>11. PixelUnshuffle(sizes, s)[i]
         = {<<s.src, ((t1 * f + t4) * (side * f) + (t2 * f + t5)) * ch + t3>>}
  <2>1. i \in Indices(sizes[s.out]) BY <1>1
  <2>2. PixelUnshuffle(sizes, s)[i]
          = {<<s.src, (((((i \div (ch * (f * f))) \div side) * f) + ((i % (f * f)) \div f))
                         * (side * f)
                       + ((((i \div (ch * (f * f))) % side) * f) + (i % f))) * ch
                      + ((i % (ch * (f * f))) \div (f * f))>>}
    BY <1>1, <2>1 DEF PixelUnshuffle
  <2> HIDE DEF PixelUnshuffle
  <2> QED BY <1>10, <2>2
<1>12. ((t1 * f + t4) * (side * f) + (t2 * f + t5)) * ch + t3 = k
  <2>1. t1 \in Int /\ t2 \in Int /\ t3 \in Int /\ t4 \in Int /\ t5 \in Int
    BY <1>3 DEF IndexOf
  <2>2. ((t1 * f + t4) * (side * f) + (t2 * f + t5)) * ch + t3
          = (((t1 * f + t4) * side + t2) * f + t5) * ch + t3
    BY <2>1
  <2> QED BY <1>4, <2>2
<1>13. k \in Indices(sizes[s.src]) BY <1>5, <1>9 DEF ArrayOf
<1> QED BY <1>6, <1>9, <1>11, <1>12, <1>13 DEF Unfolded

\* pixel_unshuffle: two transposes, or one division of each index.
LEMMA UnshuffleSame ==
  ASSUME NEW sizes, NEW s, UnshuffleFits(sizes, s)
  PROVE  /\ StubUnshuffle(sizes, s) = PixelUnshuffle(sizes, s)
         /\ \A i \in Indices(sizes[s.src]) : \E k \in Indices(sizes[s.src]) :
              PixelUnshuffle(sizes, s)[i] = {<<s.src, k>>}
<1>1. PICK f \in Nat \ {0}, ch \in Nat, g \in Nat, n \in Nat :
        /\ f = s.factor /\ ch = s.channels /\ g = s.grid /\ n = sizes[s.src]
        /\ n = g * g * ch /\ g % f = 0 /\ n = sizes[s.out]
  BY DEF UnshuffleFits
<1>2. PICK side \in Int : side = g \div f
  <2>1. g \div f \in Int BY Division
  <2> QED BY <2>1
<1>3. g = side * f
  <2>1. g = (g \div f) * f + (g % f) BY Division
  <2> QED BY <1>1, <1>2, <2>1
<1>4. side >= 0 BY <1>2
<1>5. \A i \in 0 .. n - 1 : Unfolded(sizes, s, i)
  <2> SUFFICES ASSUME NEW i \in 0 .. n - 1 PROVE Unfolded(sizes, s, i) OBVIOUS
  <2>1. n # 0 OBVIOUS
  <2>2. ch # 0 BY <1>1, <2>1
  <2>3. g # 0
    <3>1. 0 * 0 * ch = 0 OBVIOUS
    <3> QED BY <1>1, <2>1, <3>1
  <2>4. side # 0 BY <1>3, <2>3
  <2>5. ch \in Nat \ {0} /\ side \in Nat \ {0} BY <1>4, <2>2, <2>4
  <2>6. (side * f) \div f = side BY <1>2, <1>3
  <2>7. n = side * side * ch * f * f
    <3>1. (side * f) * (side * f) * ch = side * side * ch * f * f OBVIOUS
    <3> QED BY <1>1, <1>3, <3>1
  <2>8. s.factor = f /\ s.channels = ch /\ s.grid = side * f BY <1>1, <1>3
  <2>9. sizes[s.src] = side * side * ch * f * f /\ sizes[s.out] = sizes[s.src] BY <1>1, <2>7
  <2>10. i \in Indices(sizes[s.src]) BY <1>1 DEF Indices
  <2>11. Unshuffles(sizes, s, side, f, ch) BY <2>6, <2>8, <2>9 DEF Unshuffles
  <2> QED BY <2>5, <2>10, <2>11, UnshuffleAt
<1>6. PixelUnshuffle(sizes, s) = [i \in 0 .. n - 1 |-> PixelUnshuffle(sizes, s)[i]]
  BY <1>1 DEF PixelUnshuffle, Indices
<1>7. StubUnshuffle(sizes, s) = [i \in 0 .. n - 1 |-> StubUnshuffle(sizes, s)[i]]
  <2> DEFINE wide == s.grid \div s.factor
             first == <<wide, s.factor, wide, s.factor, s.channels>>
             array == ArrayOf(sizes, s.src)
  <2>1. PICK once, shape, axes :
          /\ once = Transposed(array, first, <<1, 3, 2, 4, 5>>)
          /\ StubUnshuffle(sizes, s) = Transposed(once, shape, axes)
    BY DEF StubUnshuffle
  <2> HIDE DEF array, first
  <2>2. DOMAIN once = DOMAIN array BY <2>1 DEF Transposed
  <2>3. DOMAIN array = 0 .. n - 1 BY <1>1 DEF array, ArrayOf, Indices
  <2>4. Transposed(once, shape, axes) = [i \in DOMAIN once |-> Transposed(once, shape, axes)[i]]
    BY DEF Transposed
  <2> QED BY <2>1, <2>2, <2>3, <2>4
<1>8. Indices(sizes[s.src]) = 0 .. n - 1 BY <1>1 DEF Indices
<1> QED BY <1>5, <1>6, <1>7, <1>8 DEF Unfolded

------------------------------------------------------------------------------
(* run_elf, run_elf_chain and matvec *)

\* A run of an ELF depends on every element of every input, joined or not.
LEMMA ElfSame ==
  ASSUME NEW sizes, NEW s
  PROVE  StubElf(sizes, s) = Elf(sizes, s)
<1> DEFINE Elements(array) == UNION {array[j] : j \in DOMAIN array}
<1>1. \A b : Elements(ArrayOf(sizes, b)) = BufferCells(sizes, b)
  BY DEF ArrayOf, BufferCells
<1> HIDE DEF Elements
<1>2. {Elements(ArrayOf(sizes, b)) : b \in ToSet(s.in)}
        = {BufferCells(sizes, s.in[k]) : k \in DOMAIN s.in}
  BY <1>1 DEF ToSet
<1>3. StubElf(sizes, s) = [i \in Indices(sizes[s.out]) |->
                            UNION {Elements(ArrayOf(sizes, b)) : b \in ToSet(s.in)}]
  BY DEF StubElf, Elements
<1> QED BY <1>2, <1>3 DEF Elf

\* A row and a column of a matrix.
LEMMA RavelOfTwo ==
  ASSUME NEW r, NEW c \in Int, NEW i \in Int, NEW j \in Int, r \in Int
  PROVE  Ravel(<<r, c>>, <<i, j>>) = i * c + j
<1> DEFINE shape == <<r, c>>  at == <<i, j>>
           D(f) == f = [d \in 0 .. Len(shape) |-> IF d = 0 THEN 0 ELSE f[d - 1] * shape[d] + at[d]]
           g == [d \in 0 .. 2 |-> IF d = 0 THEN 0 ELSE IF d = 1 THEN 0 * r + i ELSE i * c + j]
<1>1. Ravel(shape, at) = (CHOOSE f : D(f))[Len(shape)] BY DEF Ravel
<1>2. Len(shape) = 2 /\ shape[1] = r /\ shape[2] = c /\ at[1] = i /\ at[2] = j OBVIOUS
<1>3. 0 * r + i = i OBVIOUS
<1> HIDE DEF shape, at
<1>4. D(g)
  <2>1. \A d \in 0 .. 2 : d = 0 \/ d = 1 \/ d = 2 OBVIOUS
  <2>2. g[0] = 0 /\ g[1] = 0 * r + i /\ g[2] = i * c + j OBVIOUS
  <2>3. g = [d \in 0 .. 2 |-> g[d]] OBVIOUS
  <2> HIDE DEF g
  <2>4. \A d \in 0 .. 2 : g[d] = IF d = 0 THEN 0 ELSE g[d - 1] * shape[d] + at[d]
    BY <1>2, <1>3, <2>1, <2>2
  <2> QED BY <1>2, <2>3, <2>4
<1> HIDE DEF g
<1>5. PICK f : f = (CHOOSE h : D(h)) OBVIOUS
<1>6. D(f)
  <2>1. \E h : D(h) BY <1>4
  <2> HIDE DEF D
  <2> QED BY <2>1, <1>5
<1>7. f[2] = i * c + j
  <2>1. \A d \in 0 .. 2 : f[d] = IF d = 0 THEN 0 ELSE f[d - 1] * shape[d] + at[d] BY <1>2, <1>6
  <2> HIDE DEF D
  <2>2. f[0] = 0 BY <2>1
  <2>3. f[1] = i BY <1>2, <1>3, <2>1, <2>2
  <2> QED BY <1>2, <2>1, <2>3
<1> HIDE DEF D
<1> QED BY <1>1, <1>2, <1>5, <1>7 DEF shape, at

\* The operands have the rows and the columns the step names.
MatVecFits(sizes, s) ==
    /\ s.rows \in Nat /\ s.cols \in Nat /\ s.rows = sizes[s.out]
    /\ sizes[s.src] \in Nat /\ s.cols <= sizes[s.src]
    /\ sizes[s.bias] \in Nat /\ s.rows <= sizes[s.bias]
    /\ sizes[s.weights] = s.rows * s.cols

\* matvec: a product of matrices, or two loops.
LEMMA MatVecSame ==
  ASSUME NEW sizes, NEW s, MatVecFits(sizes, s)
  PROVE  StubMatVec(sizes, s) = MatVec(sizes, s)
<1>1. PICK r \in Nat, c \in Nat : r = s.rows /\ c = s.cols BY DEF MatVecFits
<1>2. PICK x, b, w : x = s.src /\ b = s.bias /\ w = s.weights OBVIOUS
<1>3. /\ sizes[x] \in Nat /\ 0 + c <= sizes[x] /\ sizes[b] \in Nat /\ 0 + r <= sizes[b]
      /\ sizes[w] = r * c
  BY <1>1, <1>2 DEF MatVecFits
<1>4. PICK from, bias : /\ from = Span(ArrayOf(sizes, x), 0, c)
                        /\ bias = Span(ArrayOf(sizes, b), 0, r)
  OBVIOUS
<1>5. from = [j \in Indices(c) |-> {<<x, 0 + j>>}] BY <1>3, <1>4, SpanInside
<1>6. bias = [i \in Indices(r) |-> {<<b, 0 + i>>}] BY <1>3, <1>4, SpanInside
<1>7. \A n : \A i \in Indices(n) : i \in Int /\ 0 + i = i BY DEF Indices
<1>8. /\ DOMAIN from = Indices(c)
      /\ \A j \in Indices(c) : from[j] = {<<x, j>>}
      /\ \A i \in Indices(r) : bias[i] = {<<b, i>>}
  BY <1>5, <1>6, <1>7
<1>9. PICK weights : weights = ArrayOf(sizes, w) OBVIOUS
<1>10. ASSUME NEW i \in Indices(r), NEW j \in Indices(c)
       PROVE  weights[Ravel(<<r, c>>, <<i, j>>)] = {<<w, i * c + j>>}
  <2>1. Ravel(<<r, c>>, <<i, j>>) = i * c + j
    <3>1. r \in Int /\ c \in Int /\ i \in Int /\ j \in Int BY <1>7
    <3> QED BY <3>1, RavelOfTwo
  <2>2. i * c + j \in 0 .. r * c - 1
    <3>1. i \in Int /\ j \in Int /\ 0 <= i /\ i < r /\ 0 <= j /\ j < c BY DEF Indices
    <3> QED BY <3>1, Inside
  <2>3. i * c + j \in Indices(sizes[w]) BY <1>3, <2>2 DEF Indices
  <2> QED BY <1>9, <2>1, <2>3 DEF ArrayOf
<1>11. StubMatVec(sizes, s)
         = [i \in Indices(r) |->
              bias[i] \cup UNION {from[j] \cup weights[Ravel(<<r, c>>, <<i, j>>)]
                                  : j \in DOMAIN from}]
  BY <1>1, <1>2, <1>4, <1>9 DEF StubMatVec
<1>12. MatVec(sizes, s)
         = [i \in Indices(r) |->
              {<<b, i>>} \cup UNION {{<<w, i * c + j>>, <<x, j>>} : j \in Indices(c)}]
  BY <1>1, <1>2 DEF MatVec
<1>13. ASSUME NEW i \in Indices(r)
       PROVE  bias[i] \cup UNION {from[j] \cup weights[Ravel(<<r, c>>, <<i, j>>)]
                                   : j \in DOMAIN from}
                = {<<b, i>>} \cup UNION {{<<w, i * c + j>>, <<x, j>>} : j \in Indices(c)}
  <2>1. \A j \in Indices(c) : from[j] \cup weights[Ravel(<<r, c>>, <<i, j>>)]
                                = {<<w, i * c + j>>, <<x, j>>}
    BY <1>8, <1>10
  <2>2. {from[j] \cup weights[Ravel(<<r, c>>, <<i, j>>)] : j \in DOMAIN from}
          = {{<<w, i * c + j>>, <<x, j>>} : j \in Indices(c)}
    BY <1>8, <2>1
  <2> QED BY <1>8, <2>2
<1> QED BY <1>11, <1>12, <1>13

------------------------------------------------------------------------------
(* All of them *)

\* The buffers a step names are as long as both interpreters need them.  plan.cpp
\* writes as many elements as it is told and leaves the rest, server_stub.py replaces
\* the array.
Fits(sizes, s) ==
    /\ sizes[s.out] \in Nat
    /\ s.op = "slice" => /\ sizes[s.src] \in Nat /\ s.offset \in Nat
                         /\ s.count = sizes[s.out] /\ ~Overruns(sizes, s)
    /\ s.op \in {"scale", "euler", "normalize", "denormalize"} => sizes[s.src] = sizes[s.out]
    /\ s.op \in {"normalize", "denormalize"} => /\ sizes[s.mean] \in Nat \ {0}
                                                /\ sizes[s.std] = sizes[s.mean]
    /\ s.op = "sincos_time" => sizes[s.out] % 2 = 0
    /\ s.op = "pack" => PackFits(sizes, s)
    /\ s.op = "gather_strided" => GatherFits(sizes, s)
    /\ s.op = "pixel_unshuffle" => UnshuffleFits(sizes, s)
    /\ s.op = "matvec" => MatVecFits(sizes, s)

\* Those that take each element by itself.
LEMMA ElementwiseSame ==
  ASSUME NEW sizes, NEW s, s.op \in Elementwise, Fits(sizes, s)
  PROVE  Stubbed(sizes, s) = Left(sizes, s)
<1>1. ~RunsElf(s) BY DEF RunsElf, Elementwise
<1>2. CASE s.op = "slice"
  <2>1. Stubbed(sizes, s) = Span(ArrayOf(sizes, s.src), s.offset, s.count)
    BY <1>1, <1>2 DEF Stubbed
  <2>2. Wiring(sizes, s) = Slice(sizes, s) BY <1>1, <1>2 DEF Wiring
  <2>3. /\ sizes[s.src] \in Nat /\ s.offset \in Nat /\ s.count \in Nat /\ s.count = sizes[s.out]
        /\ s.offset + s.count <= sizes[s.src]
    <3>1. ~(s.offset + s.count > sizes[s.src]) BY <1>2 DEF Fits, Overruns
    <3> QED BY <1>2, <3>1 DEF Fits
  <2>4. Stubbed(sizes, s) = Slice(sizes, s)
    <3>1. PICK b, at, n : b = s.src /\ at = s.offset /\ n = s.count OBVIOUS
    <3>2. sizes[b] \in Nat /\ at \in Nat /\ n \in Nat /\ at + n <= sizes[b] BY <2>3, <3>1
    <3>3. Span(ArrayOf(sizes, b), at, n) = [i \in Indices(n) |-> {<<b, at + i>>}]
      BY <3>2, SpanInside
    <3> QED BY <2>1, <3>1, <3>3 DEF Slice
  <2>5. Left(sizes, s) = Slice(sizes, s) BY <2>2, <2>3, LeftWhole DEF Slice
  <2> QED BY <2>4, <2>5
<1>3. CASE s.op = "scale"
  <2>1. Stubbed(sizes, s) = ArrayOf(sizes, s.src) BY <1>1, <1>3 DEF Stubbed
  <2>2. Wiring(sizes, s) = Scale(sizes, s) BY <1>1, <1>3 DEF Wiring
  <2>3. Left(sizes, s) = Scale(sizes, s) BY <2>2, LeftWhole DEF Scale
  <2> QED BY <1>3, <2>1, <2>3 DEF Scale, ArrayOf, Fits
<1>4. CASE s.op = "euler"
  <2> DEFINE from == ArrayOf(sizes, s.src)  to == ArrayOf(sizes, s.out)
  <2>1. Stubbed(sizes, s) = [i \in DOMAIN from |-> to[i] \cup from[i]] BY <1>1, <1>4 DEF Stubbed
  <2>2. Wiring(sizes, s) = Euler(sizes, s) BY <1>1, <1>4 DEF Wiring
  <2>3. Left(sizes, s) = Euler(sizes, s) BY <2>2, LeftWhole DEF Euler
  <2>4. sizes[s.src] = sizes[s.out] BY <1>4 DEF Fits
  <2>5. \A i \in Indices(sizes[s.out]) : to[i] \cup from[i] = {<<s.out, i>>, <<s.src, i>>}
    BY <2>4 DEF ArrayOf
  <2>6. DOMAIN from = Indices(sizes[s.out]) BY <2>4 DEF ArrayOf
  <2> QED BY <2>1, <2>3, <2>5, <2>6 DEF Euler
<1>5. CASE s.op \in {"normalize", "denormalize"}
  <2>1. Stubbed(sizes, s) = StubNormal(sizes, s) BY <1>1, <1>5 DEF Stubbed
  <2>2. Wiring(sizes, s) = Normal(sizes, s) BY <1>1, <1>5 DEF Wiring
  <2>3. Left(sizes, s) = Normal(sizes, s) BY <2>2, LeftWhole DEF Normal
  <2>4. sizes[s.src] = sizes[s.out] /\ sizes[s.std] = sizes[s.mean] BY <1>5 DEF Fits
  <2> QED BY <2>1, <2>3, <2>4 DEF Normal, StubNormal
<1>6. CASE s.op = "sincos_time"
  <2>1. Stubbed(sizes, s) = [i \in Indices(2 * (Size(ArrayOf(sizes, s.out)) \div 2)) |-> {}]
    BY <1>1, <1>6 DEF Stubbed
  <2>2. Wiring(sizes, s) = SincosTime(sizes, s) BY <1>1, <1>6 DEF Wiring
  <2>3. sizes[s.out] \in Nat /\ sizes[s.out] % 2 = 0 BY <1>6 DEF Fits
  <2>4. 2 * (sizes[s.out] \div 2) = sizes[s.out]
    <3>1. PICK n \in Nat : n = sizes[s.out] /\ n % 2 = 0 BY <2>3
    <3>2. 2 * (n \div 2) = n BY <3>1
    <3> QED BY <3>1, <3>2
  <2>5. Size(ArrayOf(sizes, s.out)) = sizes[s.out] BY <2>3, SizeOfArray
  <2>6. Left(sizes, s) = SincosTime(sizes, s) BY <2>2, <2>4, LeftWhole DEF SincosTime
  <2> QED BY <2>1, <2>4, <2>5, <2>6 DEF SincosTime
<1> QED BY <1>2, <1>3, <1>4, <1>5, <1>6 DEF Elementwise

Opcodes == Elementwise \cup {"pack", "gather_strided", "pixel_unshuffle", "matvec",
                             "run_elf", "run_elf_chain"}

\* What a step leaves in the buffer it writes.
LEMMA SameLeft ==
  ASSUME NEW sizes, NEW s, s.op \in Opcodes, Fits(sizes, s)
  PROVE  Stubbed(sizes, s) = Left(sizes, s)
<1> DEFINE w == Wiring(sizes, s)
<1>1. CASE s.op \in Elementwise BY <1>1, ElementwiseSame
<1>2. CASE s.op = "gather_strided"
  <2>1. Stubbed(sizes, s) = StubGather(sizes, s) BY <1>2 DEF Stubbed, RunsElf
  <2>2. GatherFits(sizes, s) BY <1>2 DEF Fits
  <2> QED BY <1>2, <2>1, <2>2, GatherSame
<1>3. CASE s.op = "pack"
  <2>1. Stubbed(sizes, s) = StubPack(sizes, s) /\ w = Pack(sizes, s)
    BY <1>3 DEF Stubbed, Wiring, RunsElf
  <2>2. PackFits(sizes, s) BY <1>3 DEF Fits
  <2>3. Left(sizes, s) = w BY <2>1, LeftWhole DEF Pack
  <2> QED BY <2>1, <2>2, <2>3, PackSame
<1>4. CASE s.op = "pixel_unshuffle"
  <2>1. Stubbed(sizes, s) = StubUnshuffle(sizes, s) /\ w = PixelUnshuffle(sizes, s)
    BY <1>4 DEF Stubbed, Wiring, RunsElf
  <2>2. UnshuffleFits(sizes, s) BY <1>4 DEF Fits
  <2>3. Left(sizes, s) = w BY <2>1, LeftWhole DEF PixelUnshuffle
  <2> QED BY <2>1, <2>2, <2>3, UnshuffleSame
<1>5. CASE s.op = "matvec"
  <2>1. Stubbed(sizes, s) = StubMatVec(sizes, s) /\ w = MatVec(sizes, s)
    BY <1>5 DEF Stubbed, Wiring, RunsElf
  <2>2. MatVecFits(sizes, s) BY <1>5 DEF Fits
  <2>3. s.rows = sizes[s.out] BY <2>2 DEF MatVecFits
  <2>4. Left(sizes, s) = w BY <2>1, <2>3, LeftWhole DEF MatVec
  <2> QED BY <2>1, <2>2, <2>4, MatVecSame
<1>6. CASE RunsElf(s)
  <2>1. Stubbed(sizes, s) = StubElf(sizes, s) /\ w = Elf(sizes, s)
    BY <1>6 DEF Stubbed, Wiring, RunsElf
  <2>2. Left(sizes, s) = w BY <2>1, LeftWhole DEF Elf
  <2> QED BY <2>1, <2>2, ElfSame
<1> QED BY <1>1, <1>2, <1>3, <1>4, <1>5, <1>6 DEF Opcodes, RunsElf

\* Every opcode means the same to both interpreters, for any buffers and any operands
\* that fit, and the Python one raises only where the other throws, for a constant the
\* bundle does not have (server_stub.py, "opcodes; keep in lockstep with
\* native/src/plan.cpp").
THEOREM OpcodesAgree ==
  ASSUME NEW sizes, NEW s, s.op \in Opcodes, Fits(sizes, s)
  PROVE  /\ Stubbed(sizes, s) = Left(sizes, s)
         /\ StubRaises(sizes, s) => Missing(sizes, s)
<1>1. CASE s.op = "pixel_unshuffle"
  <2>1. UnshuffleFits(sizes, s) BY <1>1 DEF Fits
  <2> QED BY <1>1, <2>1, SameLeft DEF UnshuffleFits, StubRaises
<1>2. CASE s.op = "matvec"
  <2>1. MatVecFits(sizes, s) BY <1>2 DEF Fits
  <2>2. PICK n \in Nat, room \in Int : n = s.rows /\ room = sizes[s.bias] /\ n <= room
    BY <2>1 DEF MatVecFits
  <2>3. Clipped(n, room) = n BY <2>2, ClippedWhole
  <2>4. ~(sizes[s.src] < s.cols) /\ sizes[s.weights] = s.rows * s.cols BY <2>1 DEF MatVecFits
  <2>5. StubRaises(sizes, s) => Missing(sizes, s) BY <1>2, <2>2, <2>3, <2>4 DEF StubRaises, Broadcasts
  <2> QED BY <2>5, SameLeft
<1>3. CASE s.op = "pack"
  <2>1. PackFits(sizes, s) BY <1>3 DEF Fits
  <2>2. ASSUME NEW k \in DOMAIN s.parts
        PROVE  LET part == s.parts[k]
               IN  Broadcasts(Clipped(part.count, sizes[part.src]),
                              Clipped(part.count, sizes[s.out] - part.at))
    <3>1. PICK n \in Nat, from \in Int, room \in Int :
            /\ n = s.parts[k].count /\ from = sizes[s.parts[k].src] /\ n <= from
            /\ room = sizes[s.out] - s.parts[k].at /\ n <= room
      <4>1. /\ sizes[s.out] \in Nat /\ s.parts[k].at \in Nat /\ s.parts[k].count \in Nat
            /\ sizes[s.parts[k].src] \in Nat /\ s.parts[k].count <= sizes[s.parts[k].src]
            /\ s.parts[k].at + s.parts[k].count <= sizes[s.out]
        BY <2>1 DEF PackFits
      <4>2. s.parts[k].count <= sizes[s.out] - s.parts[k].at BY <4>1
      <4> QED BY <4>1, <4>2
    <3>2. Clipped(n, from) = n /\ Clipped(n, room) = n BY <3>1, ClippedWhole
    <3> QED BY <3>1, <3>2 DEF Broadcasts
  <2>3. StubRaises(sizes, s) => Missing(sizes, s) BY <1>3, <2>2 DEF StubRaises
  <2> QED BY <2>3, SameLeft
<1>4. CASE s.op = "gather_strided"
  <2>1. GatherFits(sizes, s) BY <1>4 DEF Fits
  <2>2. ASSUME NEW k \in Indices(s.count)
        PROVE  Broadcasts(Clipped(s.take, sizes[s.src] - k * s.stride),
                          Clipped(s.take, sizes[s.out] - (k * s.dst_stride + s.dst_offset)))
    <3>1. PICK n \in Nat, from \in Int, room \in Int :
            /\ n = s.take /\ from = sizes[s.src] - k * s.stride /\ n <= from
            /\ room = sizes[s.out] - (k * s.dst_stride + s.dst_offset) /\ n <= room
      <4>1. /\ sizes[s.src] \in Nat /\ sizes[s.out] \in Nat /\ s.take \in Nat
            /\ k * s.stride + s.take <= sizes[s.src]
            /\ k * s.dst_stride + s.dst_offset + s.take <= sizes[s.out]
            /\ s.dst_offset \in Nat /\ k \in Nat /\ s.stride \in Nat /\ s.dst_stride \in Nat
        BY <2>1 DEF GatherFits, Indices
      <4>2. PICK a \in Nat, b \in Nat : a = k * s.stride /\ b = k * s.dst_stride BY <4>1, Times
      <4> QED BY <4>1, <4>2
    <3>2. Clipped(n, from) = n /\ Clipped(n, room) = n BY <3>1, ClippedWhole
    <3> QED BY <3>1, <3>2 DEF Broadcasts
  <2>3. StubRaises(sizes, s) => Missing(sizes, s) BY <1>4, <2>2 DEF StubRaises
  <2> QED BY <2>3, SameLeft
<1>5. CASE s.op = "euler" BY <1>5, SameLeft DEF StubRaises, Broadcasts, Fits
<1>6. CASE s.op \notin {"pixel_unshuffle", "matvec", "pack", "gather_strided", "euler"}
  BY <1>6, SameLeft DEF StubRaises
<1> QED BY <1>1, <1>2, <1>3, <1>4, <1>5, <1>6

\* What a step reads and writes lies in the buffers and constants it names.
Within(sizes, s) ==
    /\ DOMAIN Wiring(sizes, s) \subseteq Indices(sizes[s.out])
    /\ \A cell \in Reads(sizes, s) \ {Zero} : cell[2] \in Indices(sizes[cell[1]])

\* A step whose operands fit reads and writes inside what it names: plan.cpp's loops stay
\* in their vectors even where run_step does not check them.
LEMMA FitsWithin ==
  ASSUME NEW sizes, NEW s, s.op \in Opcodes, Fits(sizes, s)
  PROVE  Within(sizes, s)
<1> DEFINE w == Wiring(sizes, s)
           Inner(cell) == cell = Zero \/ cell[2] \in Indices(sizes[cell[1]])
<1>1. SUFFICES /\ DOMAIN w \subseteq Indices(sizes[s.out])
               /\ \A i \in DOMAIN w : \A cell \in w[i] : Inner(cell)
  BY DEF Within, Reads
<1>2. CASE s.op = "slice"
  <2>1. w = Slice(sizes, s) BY <1>2 DEF Wiring, RunsElf
  <2>2. /\ sizes[s.src] \in Nat /\ s.offset \in Nat /\ s.count \in Nat /\ s.count = sizes[s.out]
        /\ s.offset + s.count <= sizes[s.src]
    <3>1. ~(s.offset + s.count > sizes[s.src]) BY <1>2 DEF Fits, Overruns
    <3> QED BY <1>2, <3>1 DEF Fits
  <2>3. \A i \in Indices(s.count) : s.offset + i \in Indices(sizes[s.src]) BY <2>2 DEF Indices
  <2> QED BY <2>1, <2>2, <2>3 DEF Slice
<1>3. CASE s.op = "scale"
  <2>1. w = Scale(sizes, s) BY <1>3 DEF Wiring, RunsElf
  <2>2. sizes[s.src] = sizes[s.out] BY <1>3 DEF Fits
  <2> QED BY <2>1, <2>2 DEF Scale
<1>4. CASE s.op = "euler"
  <2>1. w = Euler(sizes, s) BY <1>4 DEF Wiring, RunsElf
  <2>2. sizes[s.src] = sizes[s.out] BY <1>4 DEF Fits
  <2> QED BY <2>1, <2>2 DEF Euler
<1>5. CASE s.op \in {"normalize", "denormalize"}
  <2>1. w = Normal(sizes, s) BY <1>5 DEF Wiring, RunsElf
  <2>2. /\ sizes[s.src] = sizes[s.out] /\ sizes[s.mean] \in Nat \ {0}
        /\ sizes[s.std] = sizes[s.mean] /\ sizes[s.out] \in Nat
    BY <1>5 DEF Fits
  <2>3. \A i \in Indices(sizes[s.out]) : i % sizes[s.mean] \in Indices(sizes[s.mean])
    <3>1. PICK m \in Nat \ {0} : m = sizes[s.mean] BY <2>2
    <3>2. \A i \in Int : i % m \in 0 .. m - 1 BY Division
    <3> QED BY <3>1, <3>2 DEF Indices
  <2> QED BY <2>1, <2>2, <2>3 DEF Normal
<1>6. CASE s.op = "sincos_time"
  <2>1. w = SincosTime(sizes, s) BY <1>6 DEF Wiring, RunsElf
  <2>2. PICK n \in Nat : n = sizes[s.out] BY DEF Fits
  <2>3. 2 * (n \div 2) <= n BY <2>2
  <2> QED BY <2>1, <2>2, <2>3 DEF SincosTime, Indices
<1>7. CASE s.op = "pack"
  <2>1. w = Pack(sizes, s) BY <1>7 DEF Wiring, RunsElf
  <2>2. PackFits(sizes, s) BY <1>7 DEF Fits
  <2>3. ASSUME NEW i \in Indices(sizes[s.out]), NEW cell \in w[i] PROVE Inner(cell)
    <3> DEFINE C == {k \in DOMAIN s.parts :
                       i \in s.parts[k].at .. s.parts[k].at + s.parts[k].count - 1}
    <3>1. w[i] = IF C = {} THEN {Zero} ELSE {<<s.parts[Max(C)].src, i - s.parts[Max(C)].at>>}
      BY <2>1 DEF Pack
    <3>2. CASE C = {} BY <2>3, <3>1, <3>2
    <3>3. CASE C # {}
      <4>1. C \subseteq 0 .. Len(s.parts) /\ Len(s.parts) \in Nat BY <2>2 DEF PackFits
      <4>2. PICK m : m = Max(C) OBVIOUS
      <4>3. m \in C
        <5> HIDE DEF C
        <5> QED BY <3>3, <4>1, <4>2, MaxIn
      <4>4. /\ m \in 1 .. Len(s.parts) /\ i \in s.parts[m].at .. s.parts[m].at + s.parts[m].count - 1
            /\ DOMAIN s.parts = 1 .. Len(s.parts)
        BY <2>2, <4>3 DEF PackFits
      <4>5. /\ s.parts[m].at \in Nat /\ s.parts[m].count \in Nat /\ sizes[s.parts[m].src] \in Nat
            /\ s.parts[m].count <= sizes[s.parts[m].src]
        BY <2>2, <4>4 DEF PackFits
      <4>6. i - s.parts[m].at \in Indices(sizes[s.parts[m].src]) BY <4>4, <4>5 DEF Indices
      <4>7. cell = <<s.parts[m].src, i - s.parts[m].at>>
        <5> HIDE DEF C, w
        <5> QED BY <2>3, <3>1, <3>3, <4>2
      <4> QED BY <4>6, <4>7
    <3> QED BY <3>2, <3>3
  <2> QED BY <2>1, <2>3 DEF Pack
<1>8. CASE s.op = "gather_strided"
  <2>1. w = GatherStrided(sizes, s) BY <1>8 DEF Wiring, RunsElf
  <2>2. GatherFits(sizes, s) BY <1>8 DEF Fits
  <2> DEFINE At(k) == k * s.dst_stride + s.dst_offset
             B(i) == {k \in Indices(s.count) : i \in At(k) .. At(k) + s.take - 1}
  <2>3. /\ DOMAIN w \subseteq Indices(sizes[s.out])
        /\ \A i \in DOMAIN w : w[i] = IF B(i) = {} THEN {Zero}
                                      ELSE {<<s.src, Max(B(i)) * s.stride + i - At(Max(B(i)))>>}
    BY <2>1 DEF GatherStrided
  <2>4. ASSUME NEW i \in DOMAIN w, NEW cell \in w[i] PROVE Inner(cell)
    <3>1. CASE B(i) = {} BY <2>3, <2>4, <3>1
    <3>2. CASE B(i) # {}
      <4>1. s.count \in Nat /\ B(i) \subseteq 0 .. s.count BY <2>2 DEF GatherFits, Indices
      <4>2. PICK m : m = Max(B(i)) OBVIOUS
      <4>3. m \in B(i)
        <5> HIDE DEF B
        <5> QED BY <3>2, <4>1, <4>2, MaxIn
      <4>4. m \in Indices(s.count) /\ m \in Nat BY <4>3 DEF Indices
      <4>5. PICK a \in Nat, b \in Nat : a = m * s.stride /\ b = At(m)
        BY <2>2, <4>4, Times DEF GatherFits
      <4>6. i \in b .. b + s.take - 1 BY <4>3, <4>5
      <4>7. a + s.take <= sizes[s.src] /\ s.take \in Nat /\ sizes[s.src] \in Nat
        BY <2>2, <4>4, <4>5 DEF GatherFits
      <4>8. cell = <<s.src, a + i - b>>
        <5> HIDE DEF B, At, w
        <5> QED BY <2>3, <2>4, <3>2, <4>2, <4>5
      <4>9. a + i - b \in Indices(sizes[s.src]) BY <4>6, <4>7 DEF Indices
      <4> QED BY <4>8, <4>9
    <3> QED BY <3>1, <3>2
  <2> QED BY <2>3, <2>4
<1>9. CASE s.op = "pixel_unshuffle"
  <2>1. w = PixelUnshuffle(sizes, s) BY <1>9 DEF Wiring, RunsElf
  <2>2. UnshuffleFits(sizes, s) BY <1>9 DEF Fits
  <2>3. \A i \in Indices(sizes[s.src]) : \E k \in Indices(sizes[s.src]) : w[i] = {<<s.src, k>>}
    BY <2>1, <2>2, UnshuffleSame
  <2>4. DOMAIN w = Indices(sizes[s.src]) BY <2>1, <2>2 DEF PixelUnshuffle, UnshuffleFits
  <2>5. sizes[s.out] = sizes[s.src] BY <2>2 DEF UnshuffleFits
  <2> HIDE DEF w
  <2> QED BY <2>3, <2>4, <2>5
<1>10. CASE s.op = "matvec"
  <2>1. w = MatVec(sizes, s) BY <1>10 DEF Wiring, RunsElf
  <2>2. MatVecFits(sizes, s) BY <1>10 DEF Fits
  <2>3. PICK r \in Nat, c \in Nat : r = s.rows /\ c = s.cols BY <2>2 DEF MatVecFits
  <2>4. /\ r = sizes[s.out] /\ c <= sizes[s.src] /\ r <= sizes[s.bias]
        /\ sizes[s.weights] = r * c /\ sizes[s.src] \in Nat /\ sizes[s.bias] \in Nat
    BY <2>2, <2>3 DEF MatVecFits
  <2>5. ASSUME NEW i \in Indices(r), NEW j \in Indices(c)
        PROVE  i * c + j \in Indices(r * c) /\ j \in Indices(sizes[s.src])
    <3>1. i \in Int /\ j \in Int /\ 0 <= i /\ i < r /\ 0 <= j /\ j < c BY DEF Indices
    <3>2. i * c + j \in 0 .. r * c - 1 BY <3>1, Inside
    <3> QED BY <2>4, <3>1, <3>2 DEF Indices
  <2>6. \A i \in Indices(r) : i \in Indices(sizes[s.bias]) BY <2>4 DEF Indices
  <2>7. w = [i \in Indices(r) |->
               {<<s.bias, i>>} \cup UNION {{<<s.weights, i * c + j>>, <<s.src, j>>} : j \in Indices(c)}]
    BY <2>1, <2>3 DEF MatVec
  <2> HIDE DEF w
  <2> QED BY <2>4, <2>5, <2>6, <2>7
<1>11. CASE RunsElf(s)
  <2>1. w = Elf(sizes, s) BY <1>11 DEF Wiring, RunsElf
  <2>2. \A i \in DOMAIN w : \A cell \in w[i] : \E k \in DOMAIN s.in : cell \in BufferCells(sizes, s.in[k])
    BY <2>1 DEF Elf
  <2>3. \A b : \A cell \in BufferCells(sizes, b) : cell[1] = b /\ cell[2] \in Indices(sizes[b])
    BY DEF BufferCells
  <2>4. DOMAIN w = Indices(sizes[s.out]) BY <2>1 DEF Elf
  <2> HIDE DEF w
  <2> QED BY <2>2, <2>3, <2>4
<1> QED BY <1>2, <1>3, <1>4, <1>5, <1>6, <1>7, <1>8, <1>9, <1>10, <1>11
    DEF Opcodes, Elementwise, RunsElf

\* The ELFs each plan runs in chains.
ChainNames ==
    [act |-> {}, smolvla |-> {}, groot |-> ToSet(VisionChain) \cup ToSet(QwenChain),
     groot17 |-> {"vit_patch"} \cup ToSet(VisionBlockNames) \cup ToSet(LanguageChain)]

\* A step whose operands fit, with its constants in the bundle and its statistics by
\* joint, and whose ELFs run either in chains or alone.
Suits(p, s) ==
    LET sizes == Storage[p]
    IN  /\ s.op \in Opcodes /\ Fits(sizes, s) /\ Names(s) \subseteq DOMAIN sizes
        /\ s.op \in {"normalize", "denormalize"} =>
             \A i \in Indices(sizes[s.out]) : Statistic(p, s, i) = i % sizes[s.mean]
        /\ s.op = "run_elf" => s.graph \notin ChainNames[p]
        /\ s.op = "run_elf_chain" => /\ s.graphs \in Seq(ChainNames[p])
                                     /\ \E b : s.in = <<b>> /\ sizes[b] \in Nat

\* A plan of steps that suit fits its buffers and is read alike by both interpreters.
LEMMA SuitsFits ==
  ASSUME NEW p \in Policies, \A k \in DOMAIN Steps[p] : Suits(p, Steps[p][k])
  PROVE  p \in Fitting /\ p \in Interpreted
<1> SUFFICES ASSUME NEW k \in DOMAIN Steps[p]
             PROVE  LET s == Steps[p][k]
                        wiring == Wiring(Storage[p], s)
                    IN  /\ ~StubRaises(Storage[p], s)
                        /\ Stubbed(Storage[p], s) = Left(Storage[p], s)
                        /\ ~Missing(Storage[p], s)
                        /\ DOMAIN wiring \subseteq Indices(Storage[p][s.out])
                        /\ \A cell \in Reads(Storage[p], s) \ {Zero} :
                             cell[2] \in Indices(Storage[p][cell[1]])
                        /\ s.op \in {"normalize", "denormalize"} =>
                             \A i \in DOMAIN wiring :
                               {<<s.mean, Statistic(p, s, i)>>, <<s.std, Statistic(p, s, i)>>}
                                 \subseteq wiring[i]
  BY DEF Fitting, Interpreted
<1>1. PICK s, sizes : s = Steps[p][k] /\ sizes = Storage[p] OBVIOUS
<1>2. Suits(p, s) BY <1>1
<1>3. s.op \in Opcodes /\ Fits(sizes, s) /\ ~Missing(sizes, s) BY <1>1, <1>2 DEF Suits, Missing
<1>4. ~StubRaises(sizes, s) /\ Stubbed(sizes, s) = Left(sizes, s) BY <1>3, OpcodesAgree
<1>5. Within(sizes, s) BY <1>3, FitsWithin
<1>6. ASSUME s.op \in {"normalize", "denormalize"}, NEW i \in DOMAIN Wiring(sizes, s)
      PROVE  {<<s.mean, Statistic(p, s, i)>>, <<s.std, Statistic(p, s, i)>>} \subseteq Wiring(sizes, s)[i]
  <2>1. Wiring(sizes, s) = Normal(sizes, s) BY <1>6 DEF Wiring, RunsElf
  <2>2. i \in Indices(sizes[s.out]) BY <1>6, <2>1 DEF Normal
  <2>3. Statistic(p, s, i) = i % sizes[s.mean] BY <1>1, <1>2, <1>6, <2>2 DEF Suits
  <2> QED BY <2>1, <2>2, <2>3 DEF Normal
<1> QED BY <1>1, <1>3, <1>4, <1>5, <1>6 DEF Within

\* A row of n rows of w.
LEMMA RowInside ==
  ASSUME NEW n \in Nat, NEW w \in Nat, NEW k \in Indices(n)
  PROVE  k * w \in Nat /\ n * w \in Nat /\ k * w + w <= n * w
<1>1. k \in Nat /\ k + 1 <= n BY DEF Indices
<1>2. k * w \in Nat /\ n * w \in Nat BY <1>1, Times
<1>3. PICK d \in Nat : n = (k + 1) + d
  <2>1. n - (k + 1) \in Nat /\ n = (k + 1) + (n - (k + 1)) BY <1>1
  <2> QED BY <2>1
<1>4. d * w \in Nat BY Times
<1>5. ((k + 1) + d) * w = k * w + w + d * w BY <1>1
<1> QED BY <1>2, <1>3, <1>4, <1>5

------------------------------------------------------------------------------
(* Steps that suit, by the operators of runtime.py *)

\* An ELF that runs alone.
LEMMA ElfSuits ==
  ASSUME NEW p, NEW graph, NEW in, NEW out, Storage[p][out] \in Nat, graph \notin ChainNames[p]
  PROVE  Suits(p, RunElf(graph, in, out))
<1> DEFINE s == RunElf(graph, in, out)
<1>1. s.op = "run_elf" /\ s.graph = graph /\ s.in = in /\ s.out = out BY DEF RunElf
<1> HIDE DEF s
<1>2. Suits(p, s) BY <1>1 DEF Suits, Opcodes, Elementwise, Fits, Names
<1> QED BY <1>2 DEF s

\* A chain of ELFs with one input.
LEMMA ChainSuits ==
  ASSUME NEW p, NEW graphs, NEW in, NEW out, Storage[p][out] \in Nat, Storage[p][in] \in Nat,
         graphs \in Seq(ChainNames[p])
  PROVE  Suits(p, RunChain(graphs, in, out))
<1> DEFINE s == RunChain(graphs, in, out)
<1>1. s.op = "run_elf_chain" /\ s.graphs = graphs /\ s.in = <<in>> /\ s.out = out BY DEF RunChain
<1> HIDE DEF s
<1>2. Suits(p, s) BY <1>1 DEF Suits, Opcodes, Elementwise, Fits, Names
<1> QED BY <1>2 DEF s

PartSuits(p, out, part) ==
    LET sizes == Storage[p]
    IN  /\ part.src \in DOMAIN sizes /\ sizes[part.src] \in Nat /\ part.at \in Nat /\ part.count \in Nat
        /\ part.count <= sizes[part.src] /\ part.at + part.count <= sizes[out]

\* A pack of parts that lie in their sources and in the buffer.
LEMMA PackSuits ==
  ASSUME NEW p, NEW out, Storage[p][out] \in Nat, NEW parts, NEW n \in Nat, Len(parts) = n,
         DOMAIN parts = 1 .. n, \A k \in 1 .. n : PartSuits(p, out, parts[k])
  PROVE  Suits(p, PackParts(out, parts))
<1> DEFINE s == PackParts(out, parts)
<1>1. s.op = "pack" /\ s.out = out /\ s.parts = parts BY DEF PackParts
<1> HIDE DEF s
<1>2. PackFits(Storage[p], s) BY <1>1 DEF PackFits, PartSuits
<1>3. Names(s) \subseteq DOMAIN Storage[p] BY <1>1 DEF Names, PartSuits
<1>4. Fits(Storage[p], s) BY <1>1, <1>2 DEF Fits
<1>5. Suits(p, s) BY <1>1, <1>3, <1>4 DEF Suits, Opcodes
<1> QED BY <1>5 DEF s

\* `take' of every row of the source, to the rows of the buffer.
LEMMA GatherSuits ==
  ASSUME NEW p, NEW src, NEW out, NEW stride \in Nat, NEW take \in Nat, NEW dstStride \in Nat,
         NEW dstOffset \in Nat, NEW clear, Storage[p][src] \in Nat, Storage[p][out] \in Nat,
         \A k \in Indices(Chunk) : k * stride + take <= Storage[p][src],
         \A k \in Indices(Chunk) : k * dstStride + dstOffset + take <= Storage[p][out]
  PROVE  Suits(p, Gather(src, out, stride, take, dstStride, dstOffset, clear))
<1> DEFINE s == Gather(src, out, stride, take, dstStride, dstOffset, clear)
<1>1. /\ s.op = "gather_strided" /\ s.src = src /\ s.out = out /\ s.stride = stride
      /\ s.take = take /\ s.dst_stride = dstStride /\ s.dst_offset = dstOffset /\ s.count = Chunk
  BY DEF Gather
<1> HIDE DEF s
<1>2. Chunk \in Nat BY SizesAssumption
<1>3. GatherFits(Storage[p], s) BY <1>1, <1>2 DEF GatherFits
<1>4. Fits(Storage[p], s) BY <1>1, <1>3 DEF Fits
<1>5. Suits(p, s) BY <1>1, <1>4 DEF Suits, Opcodes, Names
<1> QED BY <1>5 DEF s

\* An operation on two buffers of one size, element by element.
LEMMA ApplySuits ==
  ASSUME NEW p, NEW op \in {"scale", "euler"}, NEW src, NEW out, Storage[p][out] \in Nat,
         Storage[p][src] = Storage[p][out]
  PROVE  Suits(p, Apply(op, src, out))
<1> DEFINE s == Apply(op, src, out)
<1>1. s.op \in {"scale", "euler"} /\ s.src = src /\ s.out = out BY DEF Apply
<1> HIDE DEF s
<1>2. Suits(p, s) BY <1>1 DEF Suits, Opcodes, Elementwise, Fits, Names
<1> QED BY <1>2 DEF s

\* A slice of a whole buffer.
LEMMA SliceSuits ==
  ASSUME NEW p, NEW src, NEW out, NEW n \in Nat, Storage[p][out] = n, Storage[p][src] = n
  PROVE  Suits(p, [op |-> "slice", src |-> src, out |-> out, offset |-> 0, count |-> n])
<1> DEFINE s == [op |-> "slice", src |-> src, out |-> out, offset |-> 0, count |-> n]
<1>1. s.op = "slice" /\ s.src = src /\ s.out = out /\ s.offset = 0 /\ s.count = n OBVIOUS
<1> HIDE DEF s
<1>2. Suits(p, s) BY <1>1 DEF Suits, Opcodes, Elementwise, Fits, Names, Overruns
<1> QED BY <1>2 DEF s

\* A normalization by statistics of the bundle.
LEMMA MomentsSuits ==
  ASSUME NEW p, NEW op \in {"normalize", "denormalize"}, NEW src, NEW out, NEW mean, NEW std,
         Storage[p][out] \in Nat, Storage[p][src] = Storage[p][out],
         {mean, std} \subseteq DOMAIN Storage[p], Storage[p][mean] \in Nat \ {0},
         Storage[p][std] = Storage[p][mean],
         \A i \in Indices(Storage[p][out]) :
           Statistic(p, Moments(op, src, out, mean, std), i) = i % Storage[p][mean]
  PROVE  Suits(p, Moments(op, src, out, mean, std))
<1> DEFINE s == Moments(op, src, out, mean, std)
<1>1. /\ s.op \in {"normalize", "denormalize"} /\ s.src = src /\ s.out = out
      /\ s.mean = mean /\ s.std = std
  BY DEF Moments
<1>2. \A i \in Indices(Storage[p][s.out]) : Statistic(p, s, i) = i % Storage[p][s.mean]
  BY <1>1
<1> HIDE DEF s
<1>3. Fits(Storage[p], s) BY <1>1 DEF Fits
<1>4. Suits(p, s) BY <1>1, <1>2, <1>3 DEF Suits, Opcodes, Elementwise, Names
<1> QED BY <1>4 DEF s

------------------------------------------------------------------------------
(* Plans of steps that suit *)

AllSuit(p, steps) ==
    /\ \E S : steps \in Seq(S)
    /\ \A k \in DOMAIN steps : Suits(p, steps[k])

\* Two lists of steps, one after the other.
LEMMA JoinedSuit ==
  ASSUME NEW p, NEW a, NEW b, AllSuit(p, a), AllSuit(p, b)
  PROVE  AllSuit(p, a \o b)
<1>1. PICK S, T : a \in Seq(S) /\ b \in Seq(T) BY DEF AllSuit
<1>2. a \in Seq(S \cup T) /\ b \in Seq(S \cup T) BY <1>1
<1>3. a \o b \in Seq(S \cup T) BY <1>2
<1>4. ASSUME NEW k \in DOMAIN (a \o b) PROVE Suits(p, (a \o b)[k])
  <2>1. k \in 1 .. Len(a) + Len(b) BY <1>2
  <2>2. CASE k <= Len(a)
    <3>1. k \in DOMAIN a /\ (a \o b)[k] = a[k] BY <1>2, <2>1, <2>2
    <3> QED BY <3>1 DEF AllSuit
  <2>3. CASE ~(k <= Len(a))
    <3>1. k - Len(a) \in DOMAIN b /\ (a \o b)[k] = b[k - Len(a)] BY <1>2, <2>1, <2>3
    <3> QED BY <3>1 DEF AllSuit
  <2> QED BY <2>2, <2>3
<1> QED BY <1>3, <1>4 DEF AllSuit

\* A list of steps made one for each number.
LEMMA EachSuits ==
  ASSUME NEW p, NEW n \in Nat, NEW steps, steps = [k \in 1 .. n |-> steps[k]],
         \A k \in 1 .. n : Suits(p, steps[k])
  PROVE  AllSuit(p, steps)
<1>1. steps \in [1 .. n -> {steps[k] : k \in 1 .. n}] OBVIOUS
<1>2. steps \in Seq({steps[k] : k \in 1 .. n}) BY <1>1
<1>3. DOMAIN steps = 1 .. n BY <1>1
<1> QED BY <1>2, <1>3 DEF AllSuit

\* The recursion of FlattenSeq.
Flattening(f, n, ss) == f = [i \in 1 .. n |-> IF i = 1 THEN ss[i] ELSE f[i - 1] \o ss[i]]

\* FlattenSeq's recursion has a solution: of k lists, the concatenation of the first k - 1
\* and the k-th.
LEMMA FlatteningExists ==
  ASSUME NEW ss, NEW n \in Nat
  PROVE  \E f : Flattening(f, n, ss)
<1> DEFINE Has == {m \in Nat : \E f : Flattening(f, m, ss)}
<1>1. 0 \in Has
  <2>1. Flattening([i \in 1 .. 0 |-> <<>>], 0, ss) BY DEF Flattening
  <2> QED BY <2>1
<1>2. ASSUME NEW m \in Nat, m \in Has PROVE m + 1 \in Has
  <2>1. PICK f : Flattening(f, m, ss) BY <1>2
  <2>2. PICK last : last = (IF m = 0 THEN ss[1] ELSE f[m] \o ss[m + 1]) OBVIOUS
  <2> DEFINE g == [i \in 1 .. m + 1 |-> IF i = m + 1 THEN last ELSE f[i]]
  <2>3. \A i \in 1 .. m : f[i] = IF i = 1 THEN ss[i] ELSE f[i - 1] \o ss[i] BY <2>1 DEF Flattening
  <2>4. \A i \in 1 .. m + 1 : g[i] = IF i = 1 THEN ss[i] ELSE g[i - 1] \o ss[i]
    <3> SUFFICES ASSUME NEW i \in 1 .. m + 1
                 PROVE  g[i] = IF i = 1 THEN ss[i] ELSE g[i - 1] \o ss[i]
      OBVIOUS
    <3>1. g[i] = IF i = m + 1 THEN last ELSE f[i] OBVIOUS
    <3>2. i # 1 => i - 1 \in 1 .. m /\ i - 1 # m + 1 /\ g[i - 1] = f[i - 1] OBVIOUS
    <3>3. CASE i = m + 1 BY <2>2, <3>1, <3>2, <3>3
    <3>4. CASE i # m + 1
      <4>1. i \in 1 .. m BY <3>4
      <4> HIDE DEF g
      <4> QED BY <2>3, <3>1, <3>2, <3>4, <4>1
    <3> QED BY <3>3, <3>4
  <2>5. g = [i \in 1 .. m + 1 |-> g[i]] OBVIOUS
  <2> HIDE DEF g
  <2>6. Flattening(g, m + 1, ss) BY <2>4, <2>5 DEF Flattening
  <2> QED BY <2>6
<1> HIDE DEF Has
<1>3. n \in Has BY <1>1, <1>2, Induction
<1> QED BY <1>3 DEF Has

\* A list of steps for each number, end to end.
LEMMA FlatSuits ==
  ASSUME NEW p, NEW n \in Nat, NEW ss, ss = [k \in 1 .. n |-> ss[k]],
         \A k \in 1 .. n : AllSuit(p, ss[k])
  PROVE  AllSuit(p, FlattenSeq(ss))
<1> DEFINE D(f) == f = [i \in 1 .. Len(ss) |-> IF i = 1 THEN ss[i] ELSE f[i - 1] \o ss[i]]
<1>1. ss \in Seq({ss[k] : k \in 1 .. n}) /\ Len(ss) = n
  <2>1. ss \in [1 .. n -> {ss[k] : k \in 1 .. n}] OBVIOUS
  <2> QED BY <2>1
<1>2. FlattenSeq(ss) = IF Len(ss) = 0 THEN ss ELSE (CHOOSE f : D(f))[Len(ss)] BY DEF FlattenSeq
<1>3. CASE n = 0
  <2>1. FlattenSeq(ss) = ss /\ DOMAIN ss = {} BY <1>1, <1>2, <1>3
  <2> QED BY <1>1, <2>1 DEF AllSuit
<1>4. CASE n # 0
  <2>1. PICK f : f = (CHOOSE g : D(g)) OBVIOUS
  <2>2. \A g : D(g) <=> Flattening(g, n, ss) BY <1>1 DEF Flattening
  <2> HIDE DEF D
  <2>3. D(f) BY <2>1, <2>2, FlatteningExists
  <2>4. \A i \in 1 .. n : f[i] = IF i = 1 THEN ss[i] ELSE f[i - 1] \o ss[i]
    BY <2>2, <2>3 DEF Flattening
  <2> DEFINE Good == {i \in Nat : i + 1 \in 1 .. n => AllSuit(p, f[i + 1])}
  <2>5. 0 \in Good BY <1>4, <2>4
  <2>6. ASSUME NEW i \in Nat, i \in Good PROVE i + 1 \in Good
    <3> SUFFICES ASSUME (i + 1) + 1 \in 1 .. n PROVE AllSuit(p, f[(i + 1) + 1]) OBVIOUS
    <3>1. i + 1 \in 1 .. n /\ (i + 1) + 1 # 1 /\ ((i + 1) + 1) - 1 = i + 1 OBVIOUS
    <3>2. AllSuit(p, f[i + 1]) BY <2>6, <3>1
    <3>3. f[(i + 1) + 1] = f[i + 1] \o ss[(i + 1) + 1] BY <2>4, <3>1
    <3> QED BY <3>2, <3>3, JoinedSuit
  <2> HIDE DEF Good
  <2>7. n - 1 \in Good
    <3>1. n - 1 \in Nat BY <1>4
    <3> QED BY <2>5, <2>6, <3>1, Induction
  <2>8. AllSuit(p, f[n]) BY <1>4, <2>7 DEF Good
  <2> QED BY <1>1, <1>2, <1>4, <2>1, <2>8
<1> QED BY <1>3, <1>4

\* A list of n steps.
LEMMA StepsSuit ==
  ASSUME NEW p, NEW n \in Nat, NEW steps, NEW S, steps \in Seq(S), Len(steps) = n,
         \A k \in 1 .. n : Suits(p, steps[k])
  PROVE  AllSuit(p, steps)
<1>1. DOMAIN steps = 1 .. n OBVIOUS
<1> QED BY <1>1 DEF AllSuit

\* Lists of a few steps.
LEMMA OneSuits ==
  ASSUME NEW p, NEW a, Suits(p, a)
  PROVE  AllSuit(p, <<a>>)
<1> DEFINE steps == <<a>>
<1>1. steps \in Seq({a}) /\ Len(steps) = 1 OBVIOUS
<1>2. ASSUME NEW k \in 1 .. 1 PROVE Suits(p, steps[k])
  <2>1. k = 1 OBVIOUS
  <2>2. steps[1] = a OBVIOUS
  <2> HIDE DEF steps
  <2> QED BY <2>1, <2>2
<1> HIDE DEF steps
<1>3. AllSuit(p, steps) BY <1>1, <1>2, StepsSuit
<1> QED BY <1>3 DEF steps

\* As OneSuits, of two.
LEMMA TwoSuit ==
  ASSUME NEW p, NEW a, NEW b, Suits(p, a), Suits(p, b)
  PROVE  AllSuit(p, <<a, b>>)
<1> DEFINE steps == <<a, b>>
<1>1. steps \in Seq({a, b}) /\ Len(steps) = 2 OBVIOUS
<1>2. ASSUME NEW k \in 1 .. 2 PROVE Suits(p, steps[k])
  <2>1. k = 1 \/ k = 2 OBVIOUS
  <2>2. steps[1] = a /\ steps[2] = b OBVIOUS
  <2> HIDE DEF steps
  <2> QED BY <2>1, <2>2
<1> HIDE DEF steps
<1>3. AllSuit(p, steps) BY <1>1, <1>2, StepsSuit
<1> QED BY <1>3 DEF steps

\* Of three.
LEMMA ThreeSuit ==
  ASSUME NEW p, NEW a, NEW b, NEW c, Suits(p, a), Suits(p, b), Suits(p, c)
  PROVE  AllSuit(p, <<a, b, c>>)
<1> DEFINE steps == <<a, b, c>>
<1>1. steps \in Seq({a, b, c}) /\ Len(steps) = 3 OBVIOUS
<1>2. ASSUME NEW k \in 1 .. 3 PROVE Suits(p, steps[k])
  <2>1. k = 1 \/ k = 2 \/ k = 3 OBVIOUS
  <2>2. steps[1] = a /\ steps[2] = b /\ steps[3] = c OBVIOUS
  <2> HIDE DEF steps
  <2> QED BY <2>1, <2>2
<1> HIDE DEF steps
<1>3. AllSuit(p, steps) BY <1>1, <1>2, StepsSuit
<1> QED BY <1>3 DEF steps

\* Of four.
LEMMA FourSuit ==
  ASSUME NEW p, NEW a, NEW b, NEW c, NEW d, Suits(p, a), Suits(p, b), Suits(p, c), Suits(p, d)
  PROVE  AllSuit(p, <<a, b, c, d>>)
<1> DEFINE steps == <<a, b, c, d>>
<1>1. steps \in Seq({a, b, c, d}) /\ Len(steps) = 4 OBVIOUS
<1>2. ASSUME NEW k \in 1 .. 4 PROVE Suits(p, steps[k])
  <2>1. k = 1 \/ k = 2 \/ k = 3 \/ k = 4 OBVIOUS
  <2>2. steps[1] = a /\ steps[2] = b /\ steps[3] = c /\ steps[4] = d OBVIOUS
  <2> HIDE DEF steps
  <2> QED BY <2>1, <2>2
<1> HIDE DEF steps
<1>3. AllSuit(p, steps) BY <1>1, <1>2, StepsSuit
<1> QED BY <1>3 DEF steps

\* Of five.
LEMMA FiveSuit ==
  ASSUME NEW p, NEW a, NEW b, NEW c, NEW d, NEW e, Suits(p, a), Suits(p, b), Suits(p, c),
         Suits(p, d), Suits(p, e)
  PROVE  AllSuit(p, <<a, b, c, d, e>>)
<1> DEFINE steps == <<a, b, c, d, e>>
<1>1. steps \in Seq({a, b, c, d, e}) /\ Len(steps) = 5 OBVIOUS
<1>2. ASSUME NEW k \in 1 .. 5 PROVE Suits(p, steps[k])
  <2>1. k = 1 \/ k = 2 \/ k = 3 \/ k = 4 \/ k = 5 OBVIOUS
  <2>2. steps[1] = a /\ steps[2] = b /\ steps[3] = c /\ steps[4] = d /\ steps[5] = e OBVIOUS
  <2> HIDE DEF steps
  <2> QED BY <2>1, <2>2
<1> HIDE DEF steps
<1>3. AllSuit(p, steps) BY <1>1, <1>2, StepsSuit
<1> QED BY <1>3 DEF steps

\* Of seven.
LEMMA SevenSuit ==
  ASSUME NEW p, NEW a, NEW b, NEW c, NEW d, NEW e, NEW f, NEW g, Suits(p, a), Suits(p, b),
         Suits(p, c), Suits(p, d), Suits(p, e), Suits(p, f), Suits(p, g)
  PROVE  AllSuit(p, <<a, b, c, d, e, f, g>>)
<1> DEFINE steps == <<a, b, c, d, e, f, g>>
<1>1. steps \in Seq({a, b, c, d, e, f, g}) /\ Len(steps) = 7 OBVIOUS
<1>2. ASSUME NEW k \in 1 .. 7 PROVE Suits(p, steps[k])
  <2>1. k = 1 \/ k = 2 \/ k = 3 \/ k = 4 \/ k = 5 \/ k = 6 \/ k = 7 OBVIOUS
  <2>2. /\ steps[1] = a /\ steps[2] = b /\ steps[3] = c /\ steps[4] = d /\ steps[5] = e
        /\ steps[6] = f /\ steps[7] = g
    OBVIOUS
  <2> HIDE DEF steps
  <2> QED BY <2>1, <2>2
<1> HIDE DEF steps
<1>3. AllSuit(p, steps) BY <1>1, <1>2, StepsSuit
<1> QED BY <1>3 DEF steps

\* Of nine.
LEMMA NineSuit ==
  ASSUME NEW p, NEW a, NEW b, NEW c, NEW d, NEW e, NEW f, NEW g, NEW h, NEW i, Suits(p, a),
         Suits(p, b), Suits(p, c), Suits(p, d), Suits(p, e), Suits(p, f), Suits(p, g),
         Suits(p, h), Suits(p, i)
  PROVE  AllSuit(p, <<a, b, c, d, e, f, g, h, i>>)
<1> DEFINE steps == <<a, b, c, d, e, f, g, h, i>>
<1>1. steps \in Seq({a, b, c, d, e, f, g, h, i}) /\ Len(steps) = 9 OBVIOUS
<1>2. ASSUME NEW k \in 1 .. 9 PROVE Suits(p, steps[k])
  <2>1. k = 1 \/ k = 2 \/ k = 3 \/ k = 4 \/ k = 5 \/ k = 6 \/ k = 7 \/ k = 8 \/ k = 9 OBVIOUS
  <2>2. /\ steps[1] = a /\ steps[2] = b /\ steps[3] = c /\ steps[4] = d /\ steps[5] = e
        /\ steps[6] = f /\ steps[7] = g /\ steps[8] = h /\ steps[9] = i
    OBVIOUS
  <2> HIDE DEF steps
  <2> QED BY <2>1, <2>2
<1> HIDE DEF steps
<1>3. AllSuit(p, steps) BY <1>1, <1>2, StepsSuit
<1> QED BY <1>3 DEF steps


\* What a step can name: the plan's buffers, then the bundle's constants.
LEMMA InStorage ==
  ASSUME NEW p \in Policies, NEW b
  PROVE  /\ b \in DOMAIN Buffers[p] => b \in DOMAIN Storage[p] /\ Storage[p][b] = Buffers[p][b]
         /\ b \in DOMAIN Constants[p] =>
              /\ b \in DOMAIN Storage[p]
              /\ b \notin DOMAIN Buffers[p] => Storage[p][b] = Constants[p][b]
<1>1. Storage[p] = Buffers[p] ++ Constants[p] BY DEF Storage
<1> QED BY <1>1 DEF ++

\* What the steps of ACT find.
LEMMA ActSizes ==
  /\ Storage["act"].state = Dim /\ Storage["act"].cam0 = CameraTokens * Hidden
  /\ Storage["act"].cam1 = CameraTokens * Hidden /\ Storage["act"].packed = ActTokens * Hidden
  /\ Storage["act"].hidden = (ActTokens + 1) * Hidden /\ Storage["act"].padded = Chunk * Lane
  /\ Storage["act"].actions = Chunk * Dim
  /\ {"state", "cam0", "cam1"} \subseteq DOMAIN Storage["act"]
<1>1. "act" \in Policies /\ Buffers["act"] = ActBuffers BY DEF Policies, Buffers
<1>2. ASSUME NEW b \in DOMAIN ActBuffers
      PROVE  Storage["act"][b] = ActBuffers[b] /\ b \in DOMAIN Storage["act"]
  BY <1>1, InStorage
<1>3. {"state", "cam0", "cam1", "packed", "hidden", "padded", "actions"} \subseteq DOMAIN ActBuffers
  BY DEF ActBuffers
<1> QED BY <1>2, <1>3 DEF ActBuffers

\* ACT's plan, step by step (act/runtime.py).
LEMMA ActSuits == AllSuit("act", ActSteps)
<1>1. /\ {Dim, Lane, Chunk, Hidden, CameraTokens} \subseteq Nat /\ Dim <= Hidden /\ Dim <= Lane
  BY SizesAssumption
<1>2. PICK c \in Nat : c = CameraTokens * Hidden BY <1>1, Times
<1>3. /\ ActTokens * Hidden = Hidden + c + c /\ (1 + CameraTokens) * Hidden = Hidden + c
      /\ (ActTokens + 1) * Hidden = Hidden + Hidden + c + c
  <2>1. (1 + 2 * CameraTokens) * Hidden = Hidden + CameraTokens * Hidden + CameraTokens * Hidden
    BY <1>1
  <2>2. (1 + CameraTokens) * Hidden = Hidden + CameraTokens * Hidden BY <1>1
  <2>3. ((1 + 2 * CameraTokens) + 1) * Hidden
          = Hidden + Hidden + CameraTokens * Hidden + CameraTokens * Hidden
    BY <1>1
  <2> QED BY <1>2, <2>1, <2>2, <2>3 DEF ActTokens
<1>4. \A out \in {"cam0", "cam1", "packed", "hidden", "padded", "actions"} : Storage["act"][out] \in Nat
  BY <1>1, <1>2, <1>3, ActSizes, Times
<1>5. Suits("act", ActSteps[3])
  <2> DEFINE parts == << Part("state", 0, Dim), Part("cam0", Hidden, CameraTokens * Hidden),
                         Part("cam1", (1 + CameraTokens) * Hidden, CameraTokens * Hidden) >>
  <2>1. PartSuits("act", "packed", Part("state", 0, Dim))
    BY <1>1, <1>2, <1>3, ActSizes DEF PartSuits, Part
  <2>2. PartSuits("act", "packed", Part("cam0", Hidden, CameraTokens * Hidden))
    BY <1>1, <1>2, <1>3, ActSizes DEF PartSuits, Part
  <2>3. PartSuits("act", "packed", Part("cam1", (1 + CameraTokens) * Hidden, CameraTokens * Hidden))
    BY <1>1, <1>2, <1>3, ActSizes DEF PartSuits, Part
  <2>4. Len(parts) = 3 /\ DOMAIN parts = 1 .. 3 OBVIOUS
  <2>5. \A k \in 1 .. 3 : PartSuits("act", "packed", parts[k]) BY <2>1, <2>2, <2>3
  <2>6. ActSteps[3] = PackParts("packed", parts) BY DEF ActSteps
  <2> HIDE DEF parts
  <2>7. Suits("act", PackParts("packed", parts)) BY <1>4, <2>4, <2>5, PackSuits
  <2> QED BY <2>6, <2>7
<1>6. Suits("act", ActSteps[9])
  <2>1. ASSUME NEW k \in Indices(Chunk)
        PROVE  k * Lane + Dim <= Storage["act"].padded /\ k * Dim + 0 + Dim <= Storage["act"].actions
    <3>1. /\ k * Lane \in Nat /\ Chunk * Lane \in Nat /\ k * Lane + Lane <= Chunk * Lane
          /\ k * Dim \in Nat /\ Chunk * Dim \in Nat /\ k * Dim + Dim <= Chunk * Dim
      BY <1>1, RowInside
    <3> QED BY <1>1, <3>1, ActSizes
  <2>2. ActSteps[9] = Gather("padded", "actions", Lane, Dim, Dim, 0, FALSE) BY DEF ActSteps
  <2>3. Suits("act", Gather("padded", "actions", Lane, Dim, Dim, 0, FALSE))
    <3>1. /\ \A k \in Indices(Chunk) : k * Lane + Dim <= Storage["act"]["padded"]
          /\ \A k \in Indices(Chunk) : k * Dim + 0 + Dim <= Storage["act"]["actions"]
      BY <2>1
    <3>2. {Lane, Dim, 0} \subseteq Nat BY <1>1
    <3> QED BY <1>4, <3>1, <3>2, GatherSuits
  <2> QED BY <2>2, <2>3
<1>7. /\ Suits("act", ActSteps[1]) /\ Suits("act", ActSteps[2]) /\ Suits("act", ActSteps[4])
      /\ Suits("act", ActSteps[5]) /\ Suits("act", ActSteps[6]) /\ Suits("act", ActSteps[7])
      /\ Suits("act", ActSteps[8])
  <2>1. \A graph : graph \notin ChainNames["act"] BY DEF ChainNames
  <2> QED BY <1>4, <2>1, ElfSuits DEF ActSteps
<1> QED BY <1>5, <1>6, <1>7, NineSuit DEF ActSteps

\* `take' of every row of Chunk rows, to the rows of another width.
LEMMA RowsSuit ==
  ASSUME NEW p, NEW src, NEW out, NEW stride \in Nat, NEW take \in Nat, NEW dstStride \in Nat,
         NEW clear, Storage[p][src] = Chunk * stride, Storage[p][out] = Chunk * dstStride,
         take <= stride, take <= dstStride
  PROVE  Suits(p, Gather(src, out, stride, take, dstStride, 0, clear))
<1>1. Chunk \in Nat BY SizesAssumption
<1>2. PICK from \in Nat, to \in Nat : from = Storage[p][src] /\ to = Storage[p][out] BY <1>1, Times
<1>3. ASSUME NEW k \in Indices(Chunk)
      PROVE  k * stride + take <= from /\ k * dstStride + 0 + take <= to
  <2>1. /\ k * stride \in Nat /\ k * stride + stride <= Chunk * stride
        /\ k * dstStride \in Nat /\ k * dstStride + dstStride <= Chunk * dstStride
    BY <1>1, RowInside
  <2> QED BY <1>2, <2>1
<1> QED BY <1>2, <1>3, GatherSuits

\* A projection by a matrix of the bundle.
LEMMA MatVecSuits ==
  ASSUME NEW p, NEW src, NEW out, NEW weights, NEW bias, NEW rows \in Nat, NEW cols \in Nat,
         Storage[p][out] = rows, Storage[p][src] = cols, Storage[p][bias] = rows,
         Storage[p][weights] = rows * cols, {weights, bias} \subseteq DOMAIN Storage[p]
  PROVE  Suits(p, [op |-> "matvec", src |-> src, out |-> out, weights |-> weights,
                   bias |-> bias, rows |-> rows, cols |-> cols])
<1> DEFINE s == [op |-> "matvec", src |-> src, out |-> out, weights |-> weights,
                 bias |-> bias, rows |-> rows, cols |-> cols]
<1>1. /\ s.op = "matvec" /\ s.src = src /\ s.out = out /\ s.weights = weights
      /\ s.bias = bias /\ s.rows = rows /\ s.cols = cols
  OBVIOUS
<1> HIDE DEF s
<1>2. MatVecFits(Storage[p], s) BY <1>1 DEF MatVecFits
<1>3. Fits(Storage[p], s) BY <1>1, <1>2 DEF Fits
<1>4. Suits(p, s) BY <1>1, <1>3 DEF Suits, Opcodes, Names
<1> QED BY <1>4 DEF s

\* The time embedding, of an even width.
LEMMA SincosSuits ==
  ASSUME NEW p, NEW out, Storage[p][out] \in Nat, Storage[p][out] % 2 = 0
  PROVE  Suits(p, [op |-> "sincos_time", out |-> out])
<1> DEFINE s == [op |-> "sincos_time", out |-> out]
<1>1. s.op = "sincos_time" /\ s.out = out OBVIOUS
<1> HIDE DEF s
<1>2. Suits(p, s) BY <1>1 DEF Suits, Opcodes, Elementwise, Fits, Names
<1> QED BY <1>2 DEF s

\* What the steps of SmolVLA find in its buffers,
LEMMA SmolVLASizes ==
  LET sizes == Storage["smolvla"]
  IN  /\ sizes.state = Dim /\ sizes.noise = Chunk * Lane /\ sizes.x = Chunk * Lane
      /\ sizes.vision0 = ImageBlock /\ sizes.vision1 = ImageBlock
      /\ sizes.vision0_scaled = ImageBlock /\ sizes.vision1_scaled = ImageBlock
      /\ sizes.state_normalized = Dim /\ sizes.state_lane = Lane /\ sizes.state_embedding = Hidden
      /\ sizes.prefix_embeddings = PrefixTokens * Hidden /\ sizes.cache = CacheTokens * Width
      /\ sizes.suffix_input = Chunk * SuffixToken /\ sizes.suffix_output = Chunk * Expert
      /\ sizes.denoise_input = DenoiseTokens * Width /\ sizes.velocity = Chunk * Lane
      /\ sizes.actions_lane = Chunk * Dim /\ sizes.actions = Chunk * Dim
      /\ {"vision0_scaled", "vision1_scaled", "state_normalized", "state_embedding", "cache",
          "suffix_output"} \subseteq DOMAIN sizes
<1>1. "smolvla" \in Policies /\ Buffers["smolvla"] = SmolVLABuffers BY DEF Policies, Buffers
<1>2. ASSUME NEW b \in DOMAIN SmolVLATensors
      PROVE  Storage["smolvla"][b] = SmolVLATensors[b] /\ b \in DOMAIN Storage["smolvla"]
  <2>1. b \in DOMAIN SmolVLABuffers /\ SmolVLABuffers[b] = SmolVLATensors[b]
    BY DEF SmolVLABuffers, ++
  <2> QED BY <1>1, <2>1, InStorage
<1>3. {"state", "noise", "x", "vision0", "vision1", "vision0_scaled", "vision1_scaled",
       "state_normalized", "state_lane", "state_embedding", "prefix_embeddings", "cache",
       "suffix_input", "suffix_output", "denoise_input", "velocity", "actions_lane",
       "actions"} \subseteq DOMAIN SmolVLATensors
  BY DEF SmolVLATensors
<1> QED BY <1>2, <1>3 DEF SmolVLATensors

\* in the files of its bundle,
LEMMA SmolVLAFileSizes ==
  LET sizes == Storage["smolvla"]
  IN  /\ sizes.empty_image_embedding = ImageBlock
      /\ sizes.language_embedding = LanguageTokens * Hidden
      /\ sizes.state_project_weight = Hidden * Lane /\ sizes.state_project_bias = Hidden
      /\ \A b \in {"state_mean", "state_std", "action_mean", "action_std"} : sizes[b] = Dim
      /\ DOMAIN SmolVLAFiles \subseteq DOMAIN sizes
      /\ {"empty_image_embedding", "language_embedding", "state_project_weight",
          "state_project_bias", "state_mean", "state_std", "action_mean", "action_std"}
           \subseteq DOMAIN sizes
<1>1. /\ "smolvla" \in Policies /\ Buffers["smolvla"] = SmolVLABuffers
      /\ Constants["smolvla"] = SmolVLAFiles
  BY DEF Policies, Buffers, Constants
<1> DEFINE files == {"empty_image_embedding", "language_embedding", "state_project_weight",
                     "state_project_bias", "state_mean", "state_std", "action_mean", "action_std"}
<1>2. files \cap DOMAIN SmolVLABuffers = {}
  <2>1. files \cap DOMAIN SmolVLATensors = {} BY DEF SmolVLATensors
  <2>2. \A n \in 1 .. DenoiseSteps : TimeBuffers[n] \notin files
    <3>1. \A n \in 1 .. DenoiseSteps : n = 1 \/ n = 2 \/ n = 3 \/ n = 4 BY SizesAssumption
    <3> QED BY <3>1 DEF TimeBuffers
  <2>3. DOMAIN SmolVLABuffers = DOMAIN SmolVLATensors \cup {TimeBuffers[n] : n \in 1 .. DenoiseSteps}
    BY DEF SmolVLABuffers, ++
  <2> QED BY <2>1, <2>2, <2>3
<1>3. DOMAIN SmolVLAFiles = files BY DEF SmolVLAFiles, Statistics, ++
<1>4. ASSUME NEW b \in files
      PROVE  Storage["smolvla"][b] = SmolVLAFiles[b] /\ b \in DOMAIN Storage["smolvla"]
  <2>1. b \in DOMAIN SmolVLAFiles /\ b \notin DOMAIN SmolVLABuffers BY <1>2, <1>3, <1>4
  <2> HIDE DEF files
  <2> QED BY <1>1, <2>1, InStorage
<1>5. /\ SmolVLAFiles.empty_image_embedding = ImageBlock
      /\ SmolVLAFiles.language_embedding = LanguageTokens * Hidden
      /\ SmolVLAFiles.state_project_weight = Hidden * Lane /\ SmolVLAFiles.state_project_bias = Hidden
      /\ \A b \in {"state_mean", "state_std", "action_mean", "action_std"} : SmolVLAFiles[b] = Dim
  BY DEF SmolVLAFiles, Statistics, ++
<1> QED BY <1>3, <1>4, <1>5

\* and in the time buffers.
LEMMA TimeSizes ==
  ASSUME NEW n \in 1 .. DenoiseSteps
  PROVE  Storage["smolvla"][TimeBuffers[n]] = Expert
<1>1. "smolvla" \in Policies /\ Buffers["smolvla"] = SmolVLABuffers BY DEF Policies, Buffers
<1>2. TimeBuffers[n] \notin DOMAIN SmolVLATensors
  <2>1. n = 1 \/ n = 2 \/ n = 3 \/ n = 4 BY SizesAssumption
  <2> QED BY <2>1 DEF TimeBuffers, SmolVLATensors
<1>3. TimeBuffers[n] \in DOMAIN SmolVLABuffers /\ SmolVLABuffers[TimeBuffers[n]] = Expert
  BY <1>2 DEF SmolVLABuffers, ++
<1> QED BY <1>1, <1>3, InStorage

\* The offsets of the prefix, in elements: the parts tile it.
LEMMA SmolVLANumbers ==
  /\ {Dim, Lane, Chunk, Hidden, CameraTokens, LanguageTokens, Expert, CacheTokens, DenoiseTokens,
      Width, DenoiseSteps} \subseteq Nat
  /\ Dim # 0 /\ Dim <= Lane /\ Expert % 2 = 0
  /\ {ImageBlock, LanguageTokens * Hidden, Chunk * Lane, Chunk * Dim, Chunk * Expert,
      Chunk * SuffixToken, CacheTokens * Width, DenoiseTokens * Width, Hidden * Lane} \subseteq Nat
  /\ StateToken * Hidden = 3 * ImageBlock + LanguageTokens * Hidden
  /\ PrefixTokens * Hidden = 3 * ImageBlock + LanguageTokens * Hidden + Hidden
  /\ CacheTokens * Width + Chunk * Expert <= DenoiseTokens * Width
<1>1. /\ {Dim, Lane, Chunk, Hidden, CameraTokens, LanguageTokens, Expert, CacheTokens,
          DenoiseTokens, Width, DenoiseSteps} \subseteq Nat
      /\ Dim # 0 /\ Dim <= Lane /\ Expert % 2 = 0
      /\ (DenoiseTokens - CacheTokens) * Width >= Chunk * Expert
  BY SizesAssumption
<1>2. {ImageBlock, LanguageTokens * Hidden, Chunk * Lane, Chunk * Dim, Chunk * Expert,
      Chunk * SuffixToken, CacheTokens * Width, DenoiseTokens * Width, Hidden * Lane} \subseteq Nat
  BY <1>1, Times DEF ImageBlock, SuffixToken
<1>3. StateToken * Hidden = 3 * ImageBlock + LanguageTokens * Hidden
  <2>1. (3 * CameraTokens + LanguageTokens) * Hidden
          = 3 * (CameraTokens * Hidden) + LanguageTokens * Hidden
    BY <1>1
  <2> QED BY <2>1 DEF StateToken, ImageBlock
<1>4. PrefixTokens * Hidden = 3 * ImageBlock + LanguageTokens * Hidden + Hidden
  <2>1. (3 * CameraTokens + LanguageTokens + 1) * Hidden
          = 3 * (CameraTokens * Hidden) + LanguageTokens * Hidden + Hidden
    BY <1>1
  <2> QED BY <2>1 DEF StateToken, PrefixTokens, ImageBlock
<1>5. CacheTokens * Width + Chunk * Expert <= DenoiseTokens * Width
  <2>1. (DenoiseTokens - CacheTokens) * Width = DenoiseTokens * Width - CacheTokens * Width
    BY <1>1
  <2> QED BY <1>1, <1>2, <2>1
<1> QED BY <1>1, <1>2, <1>3, <1>4, <1>5

\* SmolVLA's cameras, state and prefix (smolvla/runtime.py).
LEMMA SmolVLAPrefixSuits == AllSuit("smolvla", SmolVLAPrefix)
<1> DEFINE p == "smolvla"
           sizes == Storage[p]
           Step(k) == SmolVLAPrefix[k]
<1>1. Suits(p, RunElf("vision", <<"image0">>, "vision0"))
      /\ Suits(p, RunElf("vision", <<"image1">>, "vision1"))
      /\ Suits(p, RunElf("prefix", <<"prefix_embeddings">>, "cache"))
  <2>1. \A graph : graph \notin ChainNames[p] BY DEF ChainNames
  <2> QED BY <2>1, SmolVLANumbers, SmolVLASizes, ElfSuits
<1>2. Suits(p, Apply("scale", "vision0", "vision0_scaled"))
      /\ Suits(p, Apply("scale", "vision1", "vision1_scaled"))
  BY SmolVLANumbers, SmolVLASizes, ApplySuits
<1>3. Suits(p, Moments("normalize", "state", "state_normalized", "state_mean", "state_std"))
  <2>1. \A s, i : Statistic(p, s, i) = i % Dim BY DEF Statistic
  <2>2. /\ Storage[p]["state_normalized"] = Dim /\ Storage[p]["state"] = Dim /\ Dim \in Nat \ {0}
        /\ Storage[p]["state_mean"] = Dim /\ Storage[p]["state_std"] = Dim
        /\ {"state_mean", "state_std"} \subseteq DOMAIN Storage[p]
    BY SmolVLANumbers, SmolVLASizes, SmolVLAFileSizes
  <2> HIDE DEF p
  <2> QED BY <2>1, <2>2, MomentsSuits
<1>4. Suits(p, PackParts("state_lane", << Part("state_normalized", 0, Dim) >>))
  <2>1. PartSuits(p, "state_lane", Part("state_normalized", 0, Dim))
    BY SmolVLANumbers, SmolVLASizes DEF PartSuits, Part
  <2> DEFINE parts == << Part("state_normalized", 0, Dim) >>
  <2>2. Len(parts) = 1 /\ DOMAIN parts = 1 .. 1 /\ \A k \in 1 .. 1 : PartSuits(p, "state_lane", parts[k])
    BY <2>1
  <2> HIDE DEF parts
  <2>3. Suits(p, PackParts("state_lane", parts))
    BY <2>2, SmolVLANumbers, SmolVLASizes, PackSuits
  <2> QED BY <2>3 DEF parts
<1>5. Suits(p, [op |-> "matvec", src |-> "state_lane", out |-> "state_embedding",
                weights |-> "state_project_weight", bias |-> "state_project_bias",
                rows |-> Hidden, cols |-> Lane])
  <2>1. /\ Storage[p]["state_embedding"] = Hidden /\ Storage[p]["state_lane"] = Lane
        /\ Storage[p]["state_project_bias"] = Hidden
        /\ Storage[p]["state_project_weight"] = Hidden * Lane
        /\ {"state_project_weight", "state_project_bias"} \subseteq DOMAIN Storage[p]
        /\ Hidden \in Nat /\ Lane \in Nat
    BY SmolVLANumbers, SmolVLASizes, SmolVLAFileSizes
  <2> HIDE DEF p
  <2> QED BY <2>1, MatVecSuits
<1>6. Suits(p, SmolVLAPrefix[8])
  <2> DEFINE parts == << Part("vision0_scaled", 0, ImageBlock),
                         Part("vision1_scaled", ImageBlock, ImageBlock),
                         Part("empty_image_embedding", 2 * ImageBlock, ImageBlock),
                         Part("language_embedding", 3 * ImageBlock, LanguageTokens * Hidden),
                         Part("state_embedding", StateToken * Hidden, Hidden) >>
             Good(part) == PartSuits(p, "prefix_embeddings", part)
  <2>1. Good(Part("vision0_scaled", 0, ImageBlock))
    BY SmolVLANumbers, SmolVLASizes DEF PartSuits, Part
  <2>2. Good(Part("vision1_scaled", ImageBlock, ImageBlock))
    BY SmolVLANumbers, SmolVLASizes DEF PartSuits, Part
  <2>3. Good(Part("empty_image_embedding", 2 * ImageBlock, ImageBlock))
    BY SmolVLANumbers, SmolVLASizes, SmolVLAFileSizes DEF PartSuits, Part
  <2>4. Good(Part("language_embedding", 3 * ImageBlock, LanguageTokens * Hidden))
    BY SmolVLANumbers, SmolVLASizes, SmolVLAFileSizes DEF PartSuits, Part
  <2>5. Good(Part("state_embedding", StateToken * Hidden, Hidden))
    BY SmolVLANumbers, SmolVLASizes DEF PartSuits, Part
  <2>6. Len(parts) = 5 /\ DOMAIN parts = 1 .. 5 OBVIOUS
  <2> HIDE DEF Good
  <2>7. \A k \in 1 .. 5 : Good(parts[k])
    <3>1. Good(parts[1]) /\ Good(parts[2]) /\ Good(parts[3]) /\ Good(parts[4]) /\ Good(parts[5])
      BY <2>1, <2>2, <2>3, <2>4, <2>5
    <3>2. \A k \in 1 .. 5 : k = 1 \/ k = 2 \/ k = 3 \/ k = 4 \/ k = 5 OBVIOUS
    <3> HIDE DEF parts
    <3> QED BY <3>1, <3>2
  <2>8. SmolVLAPrefix[8] = PackParts("prefix_embeddings", parts) BY DEF SmolVLAPrefix
  <2> HIDE DEF parts
  <2>9. \A k \in 1 .. 5 : PartSuits(p, "prefix_embeddings", parts[k]) BY <2>7 DEF Good
  <2>10. Suits(p, PackParts("prefix_embeddings", parts))
    <3>1. Storage[p]["prefix_embeddings"] \in Nat BY SmolVLANumbers, SmolVLASizes
    <3> QED BY <2>6, <2>9, <3>1, PackSuits
  <2> QED BY <2>8, <2>10
<1>7. /\ Suits(p, SmolVLAPrefix[1]) /\ Suits(p, SmolVLAPrefix[2]) /\ Suits(p, SmolVLAPrefix[3])
      /\ Suits(p, SmolVLAPrefix[4]) /\ Suits(p, SmolVLAPrefix[5]) /\ Suits(p, SmolVLAPrefix[6])
      /\ Suits(p, SmolVLAPrefix[7]) /\ Suits(p, SmolVLAPrefix[9])
  BY <1>1, <1>2, <1>3, <1>4, <1>5 DEF SmolVLAPrefix
<1> QED BY <1>6, <1>7, NineSuit DEF SmolVLAPrefix

\* One of SmolVLA's Euler steps.
LEMMA SmolVLADenoiseSuits ==
  ASSUME NEW n \in 1 .. DenoiseSteps
  PROVE  AllSuit("smolvla", Denoise(n))
<1> DEFINE p == "smolvla"
<1>1. Suits(p, [op |-> "sincos_time", out |-> TimeBuffers[n]])
  BY SmolVLANumbers, TimeSizes, SincosSuits
<1>2. Suits(p, Gather("x", "suffix_input", Lane, Lane, SuffixToken, 0, TRUE))
  <2>1. PICK a \in Nat, w \in Nat, yes \in {TRUE} : a = Lane /\ w = SuffixToken /\ a <= w
    BY SmolVLANumbers DEF SuffixToken
  <2>2. a <= a /\ yes = TRUE /\ Storage[p]["x"] = Chunk * a /\ Storage[p]["suffix_input"] = Chunk * w
    BY <2>1, SmolVLASizes
  <2> HIDE DEF p
  <2>3. Suits(p, Gather("x", "suffix_input", a, a, w, 0, yes)) BY <2>1, <2>2, RowsSuit
  <2> QED BY <2>1, <2>2, <2>3
<1>3. Suits(p, Gather(TimeBuffers[n], "suffix_input", 0, Expert, SuffixToken, Lane, FALSE))
  <2>1. /\ Lane \in Nat /\ SuffixToken \in Nat /\ Expert \in Nat /\ Lane + Expert = SuffixToken
        /\ Storage[p][TimeBuffers[n]] = Expert /\ Storage[p]["suffix_input"] = Chunk * SuffixToken
        /\ Chunk * SuffixToken \in Nat /\ Chunk \in Nat
    BY SmolVLANumbers, SmolVLASizes, TimeSizes DEF SuffixToken
  <2> HIDE DEF p
  <2>2. ASSUME NEW k \in Indices(Chunk)
        PROVE  /\ k * 0 + Expert <= Storage[p][TimeBuffers[n]]
               /\ k * SuffixToken + Lane + Expert <= Storage[p]["suffix_input"]
    <3>1. /\ k * SuffixToken \in Nat /\ k * SuffixToken + SuffixToken <= Chunk * SuffixToken
      BY <2>1, RowInside
    <3>2. k * 0 = 0 BY DEF Indices
    <3> QED BY <2>1, <3>1, <3>2
  <2>3. 0 \in Nat OBVIOUS
  <2> QED BY <2>1, <2>2, <2>3, GatherSuits
<1>4. Suits(p, RunElf("suffix", <<"suffix_input">>, "suffix_output"))
      /\ Suits(p, RunElf("denoise", <<"denoise_input">>, "velocity"))
  <2>1. \A graph : graph \notin ChainNames[p] BY DEF ChainNames
  <2> QED BY <2>1, SmolVLANumbers, SmolVLASizes, ElfSuits
<1>5. Suits(p, PackParts("denoise_input",
         << Part("cache", 0, CacheTokens * Width),
            Part("suffix_output", CacheTokens * Width, Chunk * Expert) >>))
  <2> DEFINE parts == << Part("cache", 0, CacheTokens * Width),
                         Part("suffix_output", CacheTokens * Width, Chunk * Expert) >>
             Good(part) == PartSuits(p, "denoise_input", part)
  <2>1. Good(Part("cache", 0, CacheTokens * Width))
    BY SmolVLANumbers, SmolVLASizes DEF PartSuits, Part
  <2>2. Good(Part("suffix_output", CacheTokens * Width, Chunk * Expert))
    BY SmolVLANumbers, SmolVLASizes DEF PartSuits, Part
  <2>3. Len(parts) = 2 /\ DOMAIN parts = 1 .. 2 OBVIOUS
  <2> HIDE DEF Good
  <2>4. \A k \in 1 .. 2 : Good(parts[k]) BY <2>1, <2>2
  <2> HIDE DEF parts
  <2>5. \A k \in 1 .. 2 : PartSuits(p, "denoise_input", parts[k]) BY <2>4 DEF Good
  <2>6. Storage[p]["denoise_input"] \in Nat BY SmolVLANumbers, SmolVLASizes
  <2>7. Suits(p, PackParts("denoise_input", parts)) BY <2>3, <2>5, <2>6, PackSuits
  <2> QED BY <2>7 DEF parts
<1>6. Suits(p, Apply("euler", "velocity", "x")) BY SmolVLANumbers, SmolVLASizes, ApplySuits
<1> QED BY <1>1, <1>2, <1>3, <1>4, <1>5, <1>6, SevenSuit DEF Denoise

\* SmolVLA's plan.
LEMMA SmolVLASuits == AllSuit("smolvla", SmolVLASteps)
<1> DEFINE p == "smolvla"
<1>1. AllSuit(p, Seed)
  <2>1. Suits(p, [op |-> "slice", src |-> "noise", out |-> "x", offset |-> 0, count |-> Chunk * Lane])
    BY SmolVLANumbers, SmolVLASizes, SliceSuits
  <2> QED BY <2>1, OneSuits DEF Seed
<1>2. AllSuit(p, FlattenSeq([n \in 1 .. DenoiseSteps |-> Denoise(n)]))
  <2> DEFINE ss == [n \in 1 .. DenoiseSteps |-> Denoise(n)]
  <2>1. ss = [k \in 1 .. DenoiseSteps |-> ss[k]] OBVIOUS
  <2>2. \A k \in 1 .. DenoiseSteps : AllSuit(p, ss[k]) BY SmolVLADenoiseSuits
  <2> HIDE DEF ss
  <2>3. AllSuit(p, FlattenSeq(ss)) BY <2>1, <2>2, SmolVLANumbers, FlatSuits
  <2> QED BY <2>3 DEF ss
<1>3. AllSuit(p, << Gather("x", "actions_lane", Lane, Dim, Dim, 0, FALSE),
          Moments("denormalize", "actions_lane", "actions", "action_mean", "action_std") >>)
  <2>1. Suits(p, Gather("x", "actions_lane", Lane, Dim, Dim, 0, FALSE))
    <3>1. /\ Lane \in Nat /\ Dim \in Nat /\ Dim <= Lane /\ Dim <= Dim
          /\ Storage[p]["x"] = Chunk * Lane /\ Storage[p]["actions_lane"] = Chunk * Dim
      BY SmolVLANumbers, SmolVLASizes
    <3> HIDE DEF p
    <3> QED BY <3>1, RowsSuit
  <2>2. Suits(p, Moments("denormalize", "actions_lane", "actions", "action_mean", "action_std"))
    <3>1. \A s, i : Statistic(p, s, i) = i % Dim BY DEF Statistic
    <3>2. /\ Storage[p]["actions"] = Chunk * Dim /\ Storage[p]["actions_lane"] = Chunk * Dim
          /\ Dim \in Nat \ {0} /\ Chunk * Dim \in Nat
          /\ Storage[p]["action_mean"] = Dim /\ Storage[p]["action_std"] = Dim
          /\ {"action_mean", "action_std"} \subseteq DOMAIN Storage[p]
      BY SmolVLANumbers, SmolVLASizes, SmolVLAFileSizes
    <3> HIDE DEF p
    <3> QED BY <3>1, <3>2, MomentsSuits
  <2> QED BY <2>1, <2>2, TwoSuit
<1> QED BY <1>1, <1>2, <1>3, SmolVLAPrefixSuits, JoinedSuit DEF SmolVLASteps

\* What the action head finds in the buffers and the bundle of policy p.
HeadHolds(p, g) ==
    LET sizes == Storage[p]
    IN  /\ HeadOf(g) /\ HeadNames(g) \cap ChainNames[p] = {}
        /\ \A b \in DOMAIN HeadTensors(g) : b \in DOMAIN sizes /\ sizes[b] = HeadTensors(g)[b]
        /\ \A b \in DOMAIN PromptFiles(g) : b \in DOMAIN sizes /\ sizes[b] = PromptFiles(g)[b]
        /\ \A n \in 1 .. DenoiseSteps :
             /\ sizes[Numbered("temb_", n)] = g.hidden
             /\ Numbered("tau_embedding_", n) \in DOMAIN sizes
             /\ sizes[Numbered("tau_embedding_", n)] = TauElements(g)
             /\ Numbered("timestep_embedding_", n) \in DOMAIN sizes
             /\ sizes[Numbered("timestep_embedding_", n)] = g.hidden
        /\ {"state_mean", "state_std", "action_mean", "action_std"} \subseteq DOMAIN sizes
        /\ sizes.state_mean = Dim /\ sizes.state_std = Dim
        /\ sizes.action_mean \in Nat \ {0} /\ sizes.action_std = sizes.action_mean
        /\ \A s, i : s.op = "normalize" => Statistic(p, s, i) = i % Dim
        /\ \A s : \A i \in Indices(Chunk * Dim) :
             s.op = "denormalize" => Statistic(p, s, i) = i % sizes.action_mean

\* No graph of the head runs in a chain.
LEMMA HeadAlone ==
  ASSUME NEW p, NEW g, HeadHolds(p, g)
  PROVE  /\ \A graph \in {"state_project", "action_project", "action_tail"} : graph \notin ChainNames[p]
         /\ \A k \in 1 .. g.pairs : BlockNames(g)[k] \notin ChainNames[p]
<1>1. HeadNames(g) \cap ChainNames[p] = {} BY DEF HeadHolds
<1>2. PICK names : names = BlockNames(g) OBVIOUS
<1>3. DOMAIN names = 1 .. g.pairs
  <2>1. PICK m \in Nat : m = g.pairs BY DEF HeadHolds, HeadOf
  <2>2. (2 * m + 1) \div 2 = m OBVIOUS
  <2> QED BY <1>2, <2>1, <2>2 DEF BlockNames, PairNames
<1>4. ToSet(names) \subseteq HeadNames(g) BY <1>2 DEF HeadNames
<1>5. \A k \in 1 .. g.pairs : names[k] \in ToSet(names) BY <1>3 DEF ToSet
<1> QED BY <1>1, <1>2, <1>4, <1>5 DEF HeadNames

\* The sizes behind HeadHolds.
LEMMA HeadSizes ==
  ASSUME NEW p, NEW g, HeadHolds(p, g)
  PROVE  LET sizes == Storage[p]
         IN  /\ {g.hidden, g.lane, g.pairs, g.sequence, g.language} \subseteq Nat
             /\ Dim \in Nat \ {0} /\ Chunk \in Nat /\ DenoiseSteps \in Nat /\ Dim <= g.lane
             /\ {ActionElements(g), TauElements(g), BackboneElements(g), Chunk * Dim} \subseteq Nat
             /\ HiddenElements(g) = g.hidden + TauElements(g)
             /\ sizes.state = Dim /\ sizes.noise = ActionElements(g)
             /\ sizes.language_embeddings = BackboneElements(g)
             /\ sizes.backbone_features = BackboneElements(g)
             /\ sizes.text_mask = g.sequence /\ sizes.image_mask = g.sequence
             /\ sizes.state_normalized = Dim /\ sizes.state_lane = g.lane
             /\ sizes.state_features = g.hidden /\ sizes.actions = ActionElements(g)
             /\ sizes.action_input = ActionElements(g) + TauElements(g)
             /\ sizes.action_features = TauElements(g)
             /\ sizes.hidden_a = HiddenElements(g) /\ sizes.hidden_b = HiddenElements(g)
             /\ sizes.velocity = ActionElements(g)
             /\ sizes.actions_lane = Chunk * Dim /\ sizes.action_chunk = Chunk * Dim
             /\ sizes.prompt_embedding = BackboneElements(g)
             /\ sizes.text_additive_mask = g.sequence /\ sizes.image_additive_mask = g.sequence
             /\ {"state_normalized", "actions", "state_features", "action_features",
                 "prompt_embedding", "text_additive_mask", "image_additive_mask"} \subseteq DOMAIN sizes
<1>1. /\ {g.hidden, g.lane, g.pairs, g.sequence, g.language} \subseteq Nat /\ Dim <= g.lane
  BY DEF HeadHolds, HeadOf
<1>2. Dim \in Nat \ {0} /\ Chunk \in Nat /\ DenoiseSteps \in Nat BY SizesAssumption
<1>3. {ActionElements(g), TauElements(g), BackboneElements(g), Chunk * Dim} \subseteq Nat
  BY <1>1, <1>2, Times DEF ActionElements, TauElements, BackboneElements
<1>4. HiddenElements(g) = g.hidden + TauElements(g)
  BY <1>1, <1>2 DEF HiddenElements, TauElements
<1>5. \A b \in DOMAIN HeadTensors(g) : b \in DOMAIN Storage[p] /\ Storage[p][b] = HeadTensors(g)[b]
  BY DEF HeadHolds
<1>6. \A b \in DOMAIN PromptFiles(g) : b \in DOMAIN Storage[p] /\ Storage[p][b] = PromptFiles(g)[b]
  BY DEF HeadHolds
<1>7. {"state", "noise", "language_embeddings", "backbone_features", "text_mask", "image_mask",
       "state_normalized", "state_lane", "state_features", "actions", "action_input",
       "action_features", "hidden_a", "hidden_b", "velocity", "actions_lane", "action_chunk"}
        \subseteq DOMAIN HeadTensors(g)
  BY DEF HeadTensors
<1>8. {"prompt_embedding", "text_additive_mask", "image_additive_mask"} \subseteq DOMAIN PromptFiles(g)
  BY DEF PromptFiles
<1>9. LET sizes == Storage[p]
      IN     /\ sizes.state = Dim /\ sizes.noise = ActionElements(g)
             /\ sizes.language_embeddings = BackboneElements(g)
             /\ sizes.backbone_features = BackboneElements(g)
             /\ sizes.text_mask = g.sequence /\ sizes.image_mask = g.sequence
             /\ sizes.state_normalized = Dim /\ sizes.state_lane = g.lane
             /\ sizes.state_features = g.hidden /\ sizes.actions = ActionElements(g)
             /\ sizes.action_input = ActionElements(g) + TauElements(g)
             /\ sizes.action_features = TauElements(g)
             /\ sizes.hidden_a = HiddenElements(g) /\ sizes.hidden_b = HiddenElements(g)
             /\ sizes.velocity = ActionElements(g)
             /\ sizes.actions_lane = Chunk * Dim /\ sizes.action_chunk = Chunk * Dim
             /\ {"state_normalized", "actions", "state_features", "action_features"} \subseteq DOMAIN sizes
  BY <1>5, <1>7 DEF HeadTensors
<1>10. LET sizes == Storage[p]
      IN     /\ sizes.prompt_embedding = BackboneElements(g)
             /\ sizes.text_additive_mask = g.sequence /\ sizes.image_additive_mask = g.sequence
             /\ {"prompt_embedding", "text_additive_mask", "image_additive_mask"} \subseteq DOMAIN sizes
  BY <1>6, <1>8 DEF PromptFiles
<1> QED BY <1>1, <1>2, <1>3, <1>4, <1>9, <1>10

\* A buffer filled with all of another buffer or of a constant, and maybe zeros after it.
LEMMA SidecarSuits ==
  ASSUME NEW p, NEW out, NEW sidecar \in DOMAIN Storage[p], NEW n \in Nat,
         Storage[p][sidecar] = n, Storage[p][out] \in Nat, n <= Storage[p][out]
  PROVE  Suits(p, FromSidecar(out, sidecar, n))
<1> DEFINE parts == << Part(sidecar, 0, n) >>
<1>1. PartSuits(p, out, Part(sidecar, 0, n)) BY DEF PartSuits, Part
<1>2. Len(parts) = 1 /\ DOMAIN parts = 1 .. 1 /\ \A k \in 1 .. 1 : PartSuits(p, out, parts[k])
  BY <1>1
<1> HIDE DEF parts
<1>3. Suits(p, PackParts(out, parts)) BY <1>2, PackSuits
<1> QED BY <1>3 DEF parts, FromSidecar

\* Two parts.
LEMMA TwoParts ==
  ASSUME NEW p, NEW out, NEW a, NEW b, Storage[p][out] \in Nat,
         PartSuits(p, out, a), PartSuits(p, out, b)
  PROVE  Suits(p, PackParts(out, <<a, b>>))
<1> DEFINE parts == <<a, b>>
<1>1. Len(parts) = 2 /\ DOMAIN parts = 1 .. 2 /\ \A k \in 1 .. 2 : PartSuits(p, out, parts[k])
  OBVIOUS
<1> HIDE DEF parts
<1>2. Suits(p, PackParts(out, parts)) BY <1>1, PackSuits
<1> QED BY <1>2 DEF parts

\* The masks and time embeddings of the action head.
LEMMA HeadConstantsSuit ==
  ASSUME NEW p, NEW g, HeadHolds(p, g)
  PROVE  AllSuit(p, HeadConstants(g))
<1>1. Suits(p, FromSidecar("text_mask", "text_additive_mask", g.sequence))
  <2>1. PICK m \in Nat : m = g.sequence BY HeadSizes
  <2>2. /\ "text_additive_mask" \in DOMAIN Storage[p] /\ Storage[p]["text_additive_mask"] = m
        /\ Storage[p]["text_mask"] \in Nat /\ m <= Storage[p]["text_mask"]
    BY <2>1, HeadSizes
  <2> QED BY <2>1, <2>2, SidecarSuits
<1>2. Suits(p, FromSidecar("image_mask", "image_additive_mask", g.sequence))
  <2>1. PICK m \in Nat : m = g.sequence BY HeadSizes
  <2>2. /\ "image_additive_mask" \in DOMAIN Storage[p] /\ Storage[p]["image_additive_mask"] = m
        /\ Storage[p]["image_mask"] \in Nat /\ m <= Storage[p]["image_mask"]
    BY <2>1, HeadSizes
  <2> QED BY <2>1, <2>2, SidecarSuits
<1> DEFINE times == [n \in 1 .. DenoiseSteps |->
             FromSidecar(Numbered("temb_", n), Numbered("timestep_embedding_", n), g.hidden)]
<1>3. ASSUME NEW n \in 1 .. DenoiseSteps PROVE Suits(p, times[n])
  <2>1. PICK temb, time : temb = Numbered("temb_", n) /\ time = Numbered("timestep_embedding_", n)
    OBVIOUS
  <2>2. PICK m \in Nat : m = g.hidden BY HeadSizes
  <2>3. time \in DOMAIN Storage[p] /\ Storage[p][time] = m /\ Storage[p][temb] \in Nat /\ m <= Storage[p][temb]
    BY <2>1, <2>2 DEF HeadHolds
  <2>4. Suits(p, FromSidecar(temb, time, m)) BY <2>3, SidecarSuits
  <2> QED BY <2>1, <2>2, <2>4
<1>4. times = [n \in 1 .. DenoiseSteps |-> times[n]] OBVIOUS
<1> HIDE DEF times
<1>5. AllSuit(p, times) BY <1>3, <1>4, SizesAssumption, EachSuits
<1>6. AllSuit(p, << FromSidecar("text_mask", "text_additive_mask", g.sequence),
                    FromSidecar("image_mask", "image_additive_mask", g.sequence) >>)
  BY <1>1, <1>2, TwoSuit
<1> QED BY <1>5, <1>6, JoinedSuit DEF HeadConstants, times

\* The state and the noise.
LEMMA HeadStateSuits ==
  ASSUME NEW p, NEW g, HeadHolds(p, g)
  PROVE  AllSuit(p, HeadState(g))
<1>1. Suits(p, Moments("normalize", "state", "state_normalized", "state_mean", "state_std"))
  <2>1. \A i : Statistic(p, Moments("normalize", "state", "state_normalized", "state_mean", "state_std"), i)
                  = i % Dim
    <3>1. Moments("normalize", "state", "state_normalized", "state_mean", "state_std").op = "normalize"
      BY DEF Moments
    <3> QED BY <3>1 DEF HeadHolds
  <2>2. /\ Storage[p]["state_normalized"] = Dim /\ Storage[p]["state"] = Dim /\ Dim \in Nat \ {0}
        /\ Storage[p]["state_mean"] = Dim /\ Storage[p]["state_std"] = Dim
        /\ {"state_mean", "state_std"} \subseteq DOMAIN Storage[p]
    BY HeadSizes DEF HeadHolds
  <2> QED BY <2>1, <2>2, MomentsSuits
<1>2. Suits(p, FromSidecar("state_lane", "state_normalized", Dim))
  <2>1. /\ "state_normalized" \in DOMAIN Storage[p] /\ Dim \in Nat /\ g.lane \in Nat
        /\ Storage[p]["state_normalized"] = Dim /\ Storage[p]["state_lane"] = g.lane /\ Dim <= g.lane
    BY HeadSizes
  <2> QED BY <2>1, SidecarSuits
<1>3. Suits(p, RunElf("state_project", <<"state_lane">>, "state_features"))
  <2>1. Storage[p]["state_features"] \in Nat BY HeadSizes
  <2>2. "state_project" \notin ChainNames[p] BY HeadAlone
  <2> QED BY <2>1, <2>2, ElfSuits
<1>4. Suits(p, [op |-> "slice", src |-> "noise", out |-> "actions", offset |-> 0,
                count |-> ActionElements(g)])
  <2>1. /\ ActionElements(g) \in Nat /\ Storage[p]["actions"] = ActionElements(g)
        /\ Storage[p]["noise"] = ActionElements(g)
    BY HeadSizes
  <2> QED BY <2>1, SliceSuits
<1> QED BY <1>1, <1>2, <1>3, <1>4, FourSuit DEF HeadState

\* One Euler step of the action head: the two parts of its input, the pairs, the tail.
LEMMA HeadDenoiseSuits ==
  ASSUME NEW p, NEW g, HeadHolds(p, g), NEW n \in 1 .. DenoiseSteps
  PROVE  AllSuit(p, HeadDenoise(g, n))
<1>1. Suits(p, PackParts("action_input",
         << Part("actions", 0, ActionElements(g)),
            Part(Numbered("tau_embedding_", n), ActionElements(g), TauElements(g)) >>))
  <2>1. PICK tau : tau = Numbered("tau_embedding_", n) OBVIOUS
  <2>2. tau \in DOMAIN Storage[p] /\ Storage[p][tau] = TauElements(g) BY <2>1 DEF HeadHolds
  <2>3. PartSuits(p, "action_input", Part("actions", 0, ActionElements(g)))
    BY HeadSizes DEF PartSuits, Part
  <2>4. PartSuits(p, "action_input", Part(tau, ActionElements(g), TauElements(g)))
    BY <2>2, HeadSizes DEF PartSuits, Part
  <2>5. Storage[p]["action_input"] \in Nat BY HeadSizes
  <2>6. Suits(p, PackParts("action_input", << Part("actions", 0, ActionElements(g)),
                                              Part(tau, ActionElements(g), TauElements(g)) >>))
    BY <2>3, <2>4, <2>5, TwoParts
  <2> QED BY <2>1, <2>6
<1>2. Suits(p, RunElf("action_project", <<"action_input">>, "action_features"))
  <2>1. Storage[p]["action_features"] \in Nat BY HeadSizes
  <2>2. "action_project" \notin ChainNames[p] BY HeadAlone
  <2> QED BY <2>1, <2>2, ElfSuits
<1>3. Suits(p, PackParts("hidden_a", << Part("state_features", 0, g.hidden),
                                        Part("action_features", g.hidden, TauElements(g)) >>))
  <2>1. PartSuits(p, "hidden_a", Part("state_features", 0, g.hidden))
    BY HeadSizes DEF PartSuits, Part
  <2>2. PartSuits(p, "hidden_a", Part("action_features", g.hidden, TauElements(g)))
    BY HeadSizes DEF PartSuits, Part
  <2>3. Storage[p]["hidden_a"] \in Nat BY HeadSizes
  <2> QED BY <2>1, <2>2, <2>3, TwoParts
<1> DEFINE pairs == [k \in 1 .. g.pairs |-> PairStep(g, n, k)]
<1>4. ASSUME NEW k \in 1 .. g.pairs PROVE Suits(p, pairs[k])
  <2>1. Storage[p]["hidden_a"] \in Nat /\ Storage[p]["hidden_b"] \in Nat BY HeadSizes
  <2>2. PICK out, in : out = (IF k % 2 = 1 THEN "hidden_b" ELSE "hidden_a")
           /\ in = << IF k % 2 = 1 THEN "hidden_a" ELSE "hidden_b", Numbered("temb_", n),
              "backbone_features", IF k % 2 = 1 THEN "text_mask" ELSE "image_mask" >>
    OBVIOUS
  <2>3. Suits(p, RunElf(BlockNames(g)[k], in, out)) BY <2>1, <2>2, HeadAlone, ElfSuits
  <2>4. pairs[k] = RunElf(BlockNames(g)[k], in, out) BY <2>2 DEF PairStep
  <2> QED BY <2>3, <2>4
<1>5. pairs = [k \in 1 .. g.pairs |-> pairs[k]] OBVIOUS
<1> HIDE DEF pairs
<1>6. AllSuit(p, pairs)
  <2>1. PICK m \in Nat : m = g.pairs BY HeadSizes
  <2> QED BY <1>4, <1>5, <2>1, EachSuits
<1>7. Suits(p, RunElf("action_tail", <<"hidden_a", Numbered("temb_", n)>>, "velocity"))
  <2>1. Storage[p]["velocity"] \in Nat BY HeadSizes
  <2>2. "action_tail" \notin ChainNames[p] BY HeadAlone
  <2> QED BY <2>1, <2>2, ElfSuits
<1>8. Suits(p, Apply("euler", "velocity", "actions"))
  <2>1. Storage[p]["actions"] \in Nat /\ Storage[p]["velocity"] = Storage[p]["actions"] BY HeadSizes
  <2> QED BY <2>1, ApplySuits
<1> DEFINE before == << PackParts("action_input",
         << Part("actions", 0, ActionElements(g)),
            Part(Numbered("tau_embedding_", n), ActionElements(g), TauElements(g)) >>),
       RunElf("action_project", <<"action_input">>, "action_features"),
       PackParts("hidden_a", << Part("state_features", 0, g.hidden),
                                Part("action_features", g.hidden, TauElements(g)) >>) >>
           after == << RunElf("action_tail", <<"hidden_a", Numbered("temb_", n)>>, "velocity"),
                       Apply("euler", "velocity", "actions") >>
<1>9. AllSuit(p, before) BY <1>1, <1>2, <1>3, ThreeSuit
<1>10. AllSuit(p, after) BY <1>7, <1>8, TwoSuit
<1>11. HeadDenoise(g, n) = before \o pairs \o after BY DEF HeadDenoise, pairs
<1> HIDE DEF before, after
<1> QED BY <1>6, <1>9, <1>10, <1>11, JoinedSuit

\* The action head.
LEMMA HeadStepsSuit ==
  ASSUME NEW p, NEW g, HeadHolds(p, g)
  PROVE  AllSuit(p, HeadSteps(g))
<1> DEFINE ss == [n \in 1 .. DenoiseSteps |-> HeadDenoise(g, n)]
<1>1. ss = [k \in 1 .. DenoiseSteps |-> ss[k]] OBVIOUS
<1>2. \A k \in 1 .. DenoiseSteps : AllSuit(p, ss[k]) BY HeadDenoiseSuits
<1>3. DenoiseSteps \in Nat BY SizesAssumption
<1> HIDE DEF ss
<1>4. AllSuit(p, FlattenSeq(ss)) BY <1>1, <1>2, <1>3, FlatSuits
<1>5. Suits(p, Gather("actions", "actions_lane", g.lane, Dim, Dim, 0, FALSE))
  <2>1. /\ g.lane \in Nat /\ Dim \in Nat /\ Dim <= g.lane /\ Dim <= Dim
        /\ Storage[p]["actions"] = Chunk * g.lane /\ Storage[p]["actions_lane"] = Chunk * Dim
    BY HeadSizes DEF ActionElements
  <2> QED BY <2>1, RowsSuit
<1> DEFINE last == Moments("denormalize", "actions_lane", "action_chunk", "action_mean", "action_std")
<1>6. Suits(p, last)
  <2>1. last.op = "denormalize" BY DEF Moments
  <2>2. /\ \A i \in Indices(Chunk * Dim) : Statistic(p, last, i) = i % Storage[p].action_mean
        /\ Storage[p].action_mean \in Nat \ {0} /\ Storage[p].action_std = Storage[p].action_mean
        /\ {"action_mean", "action_std"} \subseteq DOMAIN Storage[p]
    BY <2>1 DEF HeadHolds
  <2>3. /\ Storage[p]["action_chunk"] = Chunk * Dim /\ Storage[p]["actions_lane"] = Chunk * Dim
        /\ Chunk * Dim \in Nat
    BY HeadSizes
  <2> QED BY <2>2, <2>3, MomentsSuits
<1>7. AllSuit(p, << Gather("actions", "actions_lane", g.lane, Dim, Dim, 0, FALSE), last >>)
  BY <1>5, <1>6, TwoSuit
<1> QED BY <1>4, <1>7, HeadStateSuits, JoinedSuit DEF HeadSteps, ss, last

\* A numbered name is none of the fixed ones, and none of another family.
LEMMA Apart ==
  ASSUME NEW j \in 1 .. 7, NEW k \in 1 .. 7, j # k, NEW x \in NameFamilies[j]
  PROVE  x \notin NameFamilies[k]
<1>1. DOMAIN NameFamilies = 1 .. 7 BY DEF NameFamilies
<1> QED BY <1>1, NamesAssumption

\* The numbered names, family by family.
LEMMA Families ==
  /\ NameFamilies[1] = FixedNames
  /\ NameFamilies[2] = {Numbered("temb_", n) : n \in 1 .. DenoiseSteps}
  /\ NameFamilies[3] = {Numbered("tau_embedding_", n) : n \in 1 .. DenoiseSteps}
  /\ NameFamilies[4] = {Numbered("timestep_embedding_", n) : n \in 1 .. DenoiseSteps}
  /\ NameFamilies[5] = {Numbered("patches_", image) : image \in Images}
  /\ NameFamilies[6] = {Numbered("image_tokens_", image) : image \in Images}
                         \cup {Deepstack(t, image) : t \in Taps, image \in Images}
  /\ NameFamilies[7] = {Numbered("deepstack_full_", t) : t \in Taps}
BY DEF NameFamilies

\* The fixed names make the first family.
LEMMA NamesFixed ==
  ASSUME NEW g
  PROVE  /\ DOMAIN HeadTensors(g) \subseteq NameFamilies[1]
         /\ DOMAIN VisionTensors \subseteq NameFamilies[1]
         /\ DOMAIN ChainTensors \subseteq NameFamilies[1]
         /\ DOMAIN PromptFiles(g) \subseteq NameFamilies[1]
         /\ \A n : DOMAIN Statistics(n) \subseteq NameFamilies[1]
<1>1. DOMAIN HeadTensors(g) = DOMAIN HeadTensors(N16) BY DEF HeadTensors
<1>2. DOMAIN PromptFiles(g) = DOMAIN PromptFiles(N16) BY DEF PromptFiles
<1>3. \A n : DOMAIN Statistics(n) = DOMAIN Statistics(Dim) BY DEF Statistics
<1>4. \A tensors \in {HeadTensors(N16), VisionTensors, ChainTensors, PromptFiles(N16), Statistics(Dim)} :
        DOMAIN tensors \subseteq FixedNames
  BY DEF FixedNames
<1> QED BY <1>1, <1>2, <1>3, <1>4, Families

\* The names of the head's tensors, the stages' tensors and the files, one of another.
LEMMA FixedApart ==
  ASSUME NEW g
  PROVE  /\ DOMAIN HeadTensors(g) \cap DOMAIN VisionTensors = {}
         /\ DOMAIN HeadTensors(g) \cap DOMAIN ChainTensors = {}
         /\ \A tensors \in {HeadTensors(g), VisionTensors, ChainTensors, PromptFiles(g)} :
              DOMAIN tensors \cap {"state_mean", "state_std", "action_mean", "action_std"} = {}
         /\ \A tensors \in {HeadTensors(g), VisionTensors, ChainTensors} :
              DOMAIN tensors \cap DOMAIN PromptFiles(g) = {}
BY DEF HeadTensors, VisionTensors, ChainTensors, PromptFiles

\* The buffers of the head, below those of the stages before it.
LEMMA HeadBufferIs ==
  ASSUME NEW g
  PROVE  /\ DOMAIN HeadBuffers(g) = DOMAIN HeadTensors(g) \cup NameFamilies[2]
         /\ \A b \in DOMAIN HeadTensors(g) : HeadBuffers(g)[b] = HeadTensors(g)[b]
         /\ \A b \in NameFamilies[2] : HeadBuffers(g)[b] = g.hidden
<1>1. HeadBuffers(g) = HeadTensors(g) ++ [b \in NameFamilies[2] |-> g.hidden]
  BY Families DEF HeadBuffers
<1>2. \A b \in NameFamilies[2] : b \notin DOMAIN HeadTensors(g)
  <2>1. ASSUME NEW b \in NameFamilies[2] PROVE b \notin NameFamilies[1] BY Apart
  <2> QED BY <2>1, NamesFixed
<1> QED BY <1>1, <1>2 DEF ++

\* The files of a GR00T bundle.
LEMMA HeadFileIs ==
  ASSUME NEW g, NEW n
  PROVE  LET files == HeadFiles(g, n)
         IN  /\ DOMAIN files = DOMAIN PromptFiles(g) \cup NameFamilies[3] \cup NameFamilies[4]
                                 \cup {"state_mean", "state_std", "action_mean", "action_std"}
             /\ \A b \in DOMAIN PromptFiles(g) : files[b] = PromptFiles(g)[b]
             /\ \A b \in NameFamilies[3] : files[b] = TauElements(g)
             /\ \A b \in NameFamilies[4] : files[b] = g.hidden
             /\ files["state_mean"] = Dim /\ files["state_std"] = Dim
             /\ files["action_mean"] = n /\ files["action_std"] = n
<1> DEFINE taus == [b \in NameFamilies[3] |-> TauElements(g)]
           times == [b \in NameFamilies[4] |-> g.hidden]
           own == {"state_mean", "state_std", "action_mean", "action_std"}
<1>1. HeadFiles(g, n) = ((PromptFiles(g) ++ taus) ++ times) ++ Statistics(n)
  BY Families DEF HeadFiles
<1>2. /\ \A b \in NameFamilies[3] : b \notin DOMAIN PromptFiles(g)
      /\ \A b \in NameFamilies[4] : b \notin DOMAIN PromptFiles(g) /\ b \notin NameFamilies[3]
  <2>1. ASSUME NEW b \in NameFamilies[3] PROVE b \notin NameFamilies[1] BY Apart
  <2>2. ASSUME NEW b \in NameFamilies[4] PROVE b \notin NameFamilies[1] /\ b \notin NameFamilies[3]
    BY Apart
  <2> QED BY <2>1, <2>2, NamesFixed
<1>3. DOMAIN Statistics(n) = own /\ own \subseteq NameFamilies[1]
  <2>1. DOMAIN Statistics(n) = own BY DEF Statistics
  <2> QED BY <2>1, NamesFixed
<1>4. \A b \in own : b \notin DOMAIN PromptFiles(g) /\ b \notin NameFamilies[3] /\ b \notin NameFamilies[4]
  <2>1. ASSUME NEW b \in NameFamilies[1] PROVE b \notin NameFamilies[3] /\ b \notin NameFamilies[4]
    BY Apart
  <2> QED BY <1>3, <2>1, FixedApart
<1>5. /\ Statistics(n)["state_mean"] = Dim /\ Statistics(n)["state_std"] = Dim
      /\ Statistics(n)["action_mean"] = n /\ Statistics(n)["action_std"] = n
  BY DEF Statistics
<1>6. LET files == ((PromptFiles(g) ++ taus) ++ times) ++ Statistics(n)
      IN  /\ DOMAIN files = DOMAIN PromptFiles(g) \cup NameFamilies[3] \cup NameFamilies[4] \cup own
          /\ \A b \in DOMAIN PromptFiles(g) : files[b] = PromptFiles(g)[b]
          /\ \A b \in NameFamilies[3] : files[b] = TauElements(g)
          /\ \A b \in NameFamilies[4] : files[b] = g.hidden
          /\ \A b \in own : files[b] = Statistics(n)[b]
  BY <1>2, <1>3, <1>4 DEF ++
<1> QED BY <1>1, <1>5, <1>6

OwnStatistics == {"state_mean", "state_std", "action_mean", "action_std"}

\* What the head finds, from the buffers and the files of a policy.
LEMMA HoldsFrom ==
  ASSUME NEW p \in Policies, NEW g, NEW n \in Nat \ {0}, HeadOf(g),
         HeadNames(g) \cap ChainNames[p] = {}, Constants[p] = HeadFiles(g, n),
         \A b \in DOMAIN HeadBuffers(g) : b \in DOMAIN Buffers[p] /\ Buffers[p][b] = HeadBuffers(g)[b],
         DOMAIN HeadFiles(g, n) \cap DOMAIN Buffers[p] = {},
         \A s, i : s.op = "normalize" => Statistic(p, s, i) = i % Dim,
         \A s : \A i \in Indices(Chunk * Dim) : s.op = "denormalize" => Statistic(p, s, i) = i % n
  PROVE  HeadHolds(p, g)
<1>1. ASSUME NEW b \in DOMAIN HeadBuffers(g)
      PROVE  b \in DOMAIN Storage[p] /\ Storage[p][b] = HeadBuffers(g)[b]
  BY InStorage
<1>2. ASSUME NEW b \in DOMAIN HeadFiles(g, n)
      PROVE  b \in DOMAIN Storage[p] /\ Storage[p][b] = HeadFiles(g, n)[b]
  <2>1. b \in DOMAIN Constants[p] /\ b \notin DOMAIN Buffers[p] /\ Constants[p][b] = HeadFiles(g, n)[b]
    OBVIOUS
  <2> QED BY <2>1, InStorage
<1> DEFINE files == HeadFiles(g, n)
<1>3. /\ DOMAIN files = DOMAIN PromptFiles(g) \cup NameFamilies[3] \cup NameFamilies[4] \cup OwnStatistics
      /\ \A b \in DOMAIN PromptFiles(g) : files[b] = PromptFiles(g)[b]
      /\ \A b \in NameFamilies[3] : files[b] = TauElements(g)
      /\ \A b \in NameFamilies[4] : files[b] = g.hidden
      /\ files["state_mean"] = Dim /\ files["state_std"] = Dim
      /\ files["action_mean"] = n /\ files["action_std"] = n
  BY HeadFileIs DEF OwnStatistics
<1>4. /\ DOMAIN HeadBuffers(g) = DOMAIN HeadTensors(g) \cup NameFamilies[2]
      /\ \A b \in DOMAIN HeadTensors(g) : HeadBuffers(g)[b] = HeadTensors(g)[b]
      /\ \A b \in NameFamilies[2] : HeadBuffers(g)[b] = g.hidden
  BY HeadBufferIs
<1> HIDE DEF files
<1>5. \A b \in DOMAIN files : b \in DOMAIN Storage[p] /\ Storage[p][b] = files[b] BY <1>2 DEF files
<1>6. \A b \in DOMAIN HeadTensors(g) : b \in DOMAIN Storage[p] /\ Storage[p][b] = HeadTensors(g)[b]
  BY <1>1, <1>4
<1>7. \A b \in DOMAIN PromptFiles(g) : b \in DOMAIN Storage[p] /\ Storage[p][b] = PromptFiles(g)[b]
  BY <1>3, <1>5
<1>8. ASSUME NEW k \in 1 .. DenoiseSteps
      PROVE  /\ Storage[p][Numbered("temb_", k)] = g.hidden
             /\ Numbered("tau_embedding_", k) \in DOMAIN Storage[p]
             /\ Storage[p][Numbered("tau_embedding_", k)] = TauElements(g)
             /\ Numbered("timestep_embedding_", k) \in DOMAIN Storage[p]
             /\ Storage[p][Numbered("timestep_embedding_", k)] = g.hidden
  <2>1. PICK temb \in NameFamilies[2], tau \in NameFamilies[3], time \in NameFamilies[4] :
          /\ temb = Numbered("temb_", k) /\ tau = Numbered("tau_embedding_", k)
          /\ time = Numbered("timestep_embedding_", k)
    BY Families
  <2>2. Storage[p][temb] = g.hidden BY <1>1, <1>4
  <2>3. /\ tau \in DOMAIN Storage[p] /\ Storage[p][tau] = TauElements(g)
        /\ time \in DOMAIN Storage[p] /\ Storage[p][time] = g.hidden
    BY <1>3, <1>5
  <2> QED BY <2>1, <2>2, <2>3
<1>9. /\ OwnStatistics \subseteq DOMAIN Storage[p]
      /\ Storage[p].state_mean = Dim /\ Storage[p].state_std = Dim
      /\ Storage[p].action_mean = n /\ Storage[p].action_std = n
  BY <1>3, <1>5 DEF OwnStatistics
<1> QED BY <1>6, <1>7, <1>8, <1>9 DEF HeadHolds, OwnStatistics

\* Where the buffers of N1.6 come from.
LEMMA GrootBufferIs ==
  /\ DOMAIN GrootBuffers = DOMAIN VisionTensors \cup DOMAIN HeadBuffers(N16)
  /\ \A b \in DOMAIN VisionTensors : GrootBuffers[b] = VisionTensors[b]
  /\ \A b \in DOMAIN HeadBuffers(N16) : GrootBuffers[b] = HeadBuffers(N16)[b]
<1>1. \A b \in DOMAIN HeadBuffers(N16) : b \notin DOMAIN VisionTensors
  <2>1. ASSUME NEW b \in NameFamilies[2] PROVE b \notin DOMAIN VisionTensors
    <3>1. b \notin NameFamilies[1] BY Apart
    <3> QED BY <3>1, NamesFixed
  <2>2. \A b \in DOMAIN HeadTensors(N16) : b \notin DOMAIN VisionTensors BY FixedApart
  <2> QED BY <2>1, <2>2, HeadBufferIs
<1> QED BY <1>1 DEF GrootBuffers, ++

\* No file of a GR00T bundle is named as a tensor.
LEMMA FilesApart ==
  ASSUME NEW g, NEW n, NEW b \in DOMAIN HeadFiles(g, n)
  PROVE  /\ b \notin DOMAIN HeadTensors(g) \cup DOMAIN VisionTensors \cup DOMAIN ChainTensors
         /\ \A k \in {2, 5, 6, 7} : b \notin NameFamilies[k]
<1>1. CASE b \in DOMAIN PromptFiles(g)
  <2>1. b \in NameFamilies[1] BY <1>1, NamesFixed
  <2>2. \A k \in {2, 5, 6, 7} : b \notin NameFamilies[k] BY <2>1, Apart
  <2> QED BY <1>1, <2>2, FixedApart
<1>2. CASE b \in OwnStatistics
  <2>1. b \in DOMAIN Statistics(n) BY <1>2 DEF OwnStatistics, Statistics
  <2>2. b \in NameFamilies[1] BY <2>1, NamesFixed
  <2>3. \A k \in {2, 5, 6, 7} : b \notin NameFamilies[k] BY <2>2, Apart
  <2> QED BY <1>2, <2>3, FixedApart DEF OwnStatistics
<1>3. CASE b \in NameFamilies[3]
  <2>1. \A k \in {1, 2, 5, 6, 7} : b \notin NameFamilies[k] BY <1>3, Apart
  <2> QED BY <2>1, NamesFixed
<1>4. CASE b \in NameFamilies[4]
  <2>1. \A k \in {1, 2, 5, 6, 7} : b \notin NameFamilies[k] BY <1>4, Apart
  <2> QED BY <2>1, NamesFixed
<1>5. DOMAIN HeadFiles(g, n)
        = DOMAIN PromptFiles(g) \cup NameFamilies[3] \cup NameFamilies[4] \cup OwnStatistics
  BY HeadFileIs DEF OwnStatistics
<1> QED BY <1>1, <1>2, <1>3, <1>4, <1>5

\* The action head of N1.6 finds what it reads,
LEMMA GrootHolds == HeadHolds("groot", N16)
<1>1. /\ "groot" \in Policies /\ Buffers["groot"] = GrootBuffers
      /\ Constants["groot"] = HeadFiles(N16, Dim)
  BY DEF Policies, Buffers, Constants, GrootFiles
<1>2. HeadOf(N16) /\ Dim \in Nat \ {0} BY GeometryAssumption, SizesAssumption
<1>3. DOMAIN HeadFiles(N16, Dim) \cap DOMAIN Buffers["groot"] = {}
  <2>1. DOMAIN Buffers["groot"]
          = DOMAIN VisionTensors \cup DOMAIN HeadTensors(N16) \cup NameFamilies[2]
    BY <1>1, GrootBufferIs, HeadBufferIs
  <2>2. ASSUME NEW b \in DOMAIN HeadFiles(N16, Dim) PROVE b \notin DOMAIN Buffers["groot"]
    <3>1. b \notin DOMAIN HeadTensors(N16) /\ b \notin DOMAIN VisionTensors BY FilesApart
    <3>2. b \notin NameFamilies[2] BY FilesApart
    <3> QED BY <2>1, <3>1, <3>2
  <2> QED BY <2>2
<1>4. \A s, i : Statistic("groot", s, i) = i % Dim BY DEF Statistic
<1>5. \A b \in DOMAIN HeadBuffers(N16) :
        b \in DOMAIN Buffers["groot"] /\ Buffers["groot"][b] = HeadBuffers(N16)[b]
  BY <1>1, GrootBufferIs
<1>6. HeadNames(N16) \cap ChainNames["groot"] = {} BY NamesAssumption DEF ChainNames
<1>7. /\ \A s, i : s.op = "normalize" => Statistic("groot", s, i) = i % Dim
      /\ \A s : \A i \in Indices(Chunk * Dim) :
           s.op = "denormalize" => Statistic("groot", s, i) = i % Dim
  BY <1>4, Zenon
<1> QED BY <1>1, <1>2, <1>3, <1>5, <1>6, <1>7, HoldsFrom

\* Where the buffers of N1.7 come from.
LEMMA Groot17BufferIs ==
  /\ DOMAIN Groot17Buffers = DOMAIN ChainTensors \cup DOMAIN HeadBuffers(N17) \cup NameFamilies[5]
                               \cup NameFamilies[6] \cup NameFamilies[7]
  /\ \A b \in DOMAIN ChainTensors : Groot17Buffers[b] = ChainTensors[b]
  /\ \A b \in DOMAIN HeadBuffers(N17) : Groot17Buffers[b] = HeadBuffers(N17)[b]
  /\ \A b \in NameFamilies[5] : Groot17Buffers[b] = N17.patches * N17.patch
  /\ \A b \in NameFamilies[6] : Groot17Buffers[b] = TokenElements
  /\ \A b \in NameFamilies[7] : Groot17Buffers[b] = BackboneElements(N17)
<1> DEFINE fives == [b \in NameFamilies[5] |-> N17.patches * N17.patch]
           sixes == [b \in NameFamilies[6] |-> TokenElements]
           sevens == [b \in NameFamilies[7] |-> BackboneElements(N17)]
<1>1. Groot17Buffers = (((ChainTensors ++ HeadBuffers(N17)) ++ fives) ++ sixes) ++ sevens
  BY Families DEF Groot17Buffers
<1>2. \A b \in DOMAIN HeadBuffers(N17) : b \notin DOMAIN ChainTensors
  <2>1. ASSUME NEW b \in NameFamilies[2] PROVE b \notin DOMAIN ChainTensors
    <3>1. b \notin NameFamilies[1] BY Apart
    <3> QED BY <3>1, NamesFixed
  <2>2. \A b \in DOMAIN HeadTensors(N17) : b \notin DOMAIN ChainTensors BY FixedApart
  <2> QED BY <2>1, <2>2, HeadBufferIs
<1>3. ASSUME NEW k \in 5 .. 7, NEW b \in NameFamilies[k]
      PROVE  b \notin DOMAIN ChainTensors /\ b \notin DOMAIN HeadBuffers(N17)
  <2>1. b \notin NameFamilies[1] /\ b \notin NameFamilies[2] BY <1>3, Apart
  <2> QED BY <2>1, HeadBufferIs, NamesFixed
<1>4. /\ \A b \in NameFamilies[6] : b \notin NameFamilies[5]
      /\ \A b \in NameFamilies[7] : b \notin NameFamilies[5] /\ b \notin NameFamilies[6]
  <2>1. ASSUME NEW b \in NameFamilies[6] PROVE b \notin NameFamilies[5] BY Apart
  <2>2. ASSUME NEW b \in NameFamilies[7] PROVE b \notin NameFamilies[5] /\ b \notin NameFamilies[6]
    BY Apart
  <2> QED BY <2>1, <2>2
<1>5. /\ \A b \in NameFamilies[5] : b \notin DOMAIN ChainTensors /\ b \notin DOMAIN HeadBuffers(N17)
      /\ \A b \in NameFamilies[6] : b \notin DOMAIN ChainTensors /\ b \notin DOMAIN HeadBuffers(N17)
      /\ \A b \in NameFamilies[7] : b \notin DOMAIN ChainTensors /\ b \notin DOMAIN HeadBuffers(N17)
  BY <1>3
<1> QED BY <1>1, <1>2, <1>4, <1>5 DEF ++

\* and that of N1.7: its rows of statistics are one for each action step and joint.
LEMMA Groot17Holds == HeadHolds("groot17", N17)
<1>1. /\ "groot17" \in Policies /\ Buffers["groot17"] = Groot17Buffers
      /\ Constants["groot17"] = HeadFiles(N17, Chunk * Dim)
  BY DEF Policies, Buffers, Constants, Groot17Files
<1>2. HeadOf(N17) /\ Dim \in Nat \ {0} /\ Chunk \in Nat \ {0} BY GeometryAssumption, SizesAssumption
<1>3. PICK n \in Nat \ {0} : n = Chunk * Dim
  <2>1. Chunk * Dim \in Nat \ {0} BY <1>2
  <2> QED BY <2>1
<1>4. DOMAIN HeadFiles(N17, n) \cap DOMAIN Buffers["groot17"] = {}
  <2>1. DOMAIN Buffers["groot17"]
          = DOMAIN ChainTensors \cup DOMAIN HeadTensors(N17) \cup NameFamilies[2] \cup NameFamilies[5]
              \cup NameFamilies[6] \cup NameFamilies[7]
    BY <1>1, Groot17BufferIs, HeadBufferIs
  <2>2. ASSUME NEW b \in DOMAIN HeadFiles(N17, n) PROVE b \notin DOMAIN Buffers["groot17"]
    <3>1. b \notin DOMAIN HeadTensors(N17) \cup DOMAIN ChainTensors BY FilesApart
    <3>2. \A k \in {2, 5, 6, 7} : b \notin NameFamilies[k] BY FilesApart
    <3> QED BY <2>1, <3>1, <3>2
  <2> QED BY <2>2
<1>5. \A s, i : s.op = "normalize" => Statistic("groot17", s, i) = i % Dim BY DEF Statistic
<1>6. ASSUME NEW s, NEW i \in Indices(Chunk * Dim), s.op = "denormalize"
      PROVE  Statistic("groot17", s, i) = i % n
  <2>1. i \in Int /\ 0 <= i /\ i < n BY <1>3 DEF Indices
  <2>2. i = (i \div Dim) * Dim + (i % Dim) BY <1>2, <2>1, Division
  <2>3. i % n = i BY <2>1
  <2> QED BY <1>6, <2>2, <2>3 DEF Statistic
<1>7. \A b \in DOMAIN HeadBuffers(N17) :
        b \in DOMAIN Buffers["groot17"] /\ Buffers["groot17"][b] = HeadBuffers(N17)[b]
  BY <1>1, Groot17BufferIs
<1>8. Constants["groot17"] = HeadFiles(N17, n) BY <1>1, <1>3
<1>9. HeadNames(N17) \cap ChainNames["groot17"] = {} BY NamesAssumption DEF ChainNames
<1> QED BY <1>1, <1>2, <1>3, <1>4, <1>5, <1>6, <1>7, <1>8, <1>9, HoldsFrom

\* Rows a .. a + c - 1 of s rows of w.
LEMMA Window ==
  ASSUME NEW a \in Nat, NEW c \in Nat, NEW s \in Nat, NEW w \in Nat, a + c <= s
  PROVE  /\ a * w \in Nat /\ c * w \in Nat /\ s * w \in Nat
         /\ a * w + c * w <= s * w /\ c * w <= s * w
<1>1. a * w \in Nat /\ c * w \in Nat /\ s * w \in Nat BY Times
<1>2. PICK d \in Nat : s = (a + c) + d
  <2>1. s - (a + c) \in Nat /\ s = (a + c) + (s - (a + c)) OBVIOUS
  <2> QED BY <2>1
<1>3. d * w \in Nat BY Times
<1>4. ((a + c) + d) * w = a * w + c * w + d * w OBVIOUS
<1> QED BY <1>1, <1>2, <1>3, <1>4

\* The unshuffle of a whole grid.
LEMMA UnshuffleSuits ==
  ASSUME NEW p, NEW src, NEW out, NEW grid \in Nat, NEW channels \in Nat, NEW factor \in Nat \ {0},
         grid % factor = 0, Storage[p][src] = grid * grid * channels,
         Storage[p][out] = Storage[p][src]
  PROVE  Suits(p, [op |-> "pixel_unshuffle", src |-> src, out |-> out,
                   grid |-> grid, channels |-> channels, factor |-> factor])
<1> DEFINE s == [op |-> "pixel_unshuffle", src |-> src, out |-> out,
                 grid |-> grid, channels |-> channels, factor |-> factor]
<1>1. /\ s.op = "pixel_unshuffle" /\ s.src = src /\ s.out = out
      /\ s.grid = grid /\ s.channels = channels /\ s.factor = factor
  OBVIOUS
<1>2. grid * grid * channels \in Nat
  <2>1. PICK area \in Nat : area = grid * grid BY Times
  <2>2. area * channels \in Nat BY Times
  <2> QED BY <2>1, <2>2
<1> HIDE DEF s
<1>3. UnshuffleFits(Storage[p], s) BY <1>1, <1>2 DEF UnshuffleFits
<1>4. Storage[p][s.out] \in Nat BY <1>1, <1>2
<1>5. Fits(Storage[p], s) BY <1>1, <1>3, <1>4 DEF Fits
<1>6. Suits(p, s) BY <1>1, <1>5 DEF Suits, Opcodes, Names
<1> QED BY <1>6 DEF s

\* The names of pairs, in a list.
LEMMA PairsListed ==
  ASSUME NEW prefix, NEW layers \in Nat
  PROVE  PairNames(prefix, layers) \in Seq(ToSet(PairNames(prefix, layers)))
<1>1. PICK m \in Nat : m = (layers + 1) \div 2 OBVIOUS
<1>2. PICK names : names = PairNames(prefix, layers) OBVIOUS
<1>3. DOMAIN names = 1 .. m /\ names = [k \in 1 .. m |-> names[k]] BY <1>1, <1>2 DEF PairNames
<1>4. \A k \in 1 .. m : names[k] \in ToSet(names) BY <1>3 DEF ToSet
<1>5. names \in [1 .. m -> ToSet(names)] BY <1>3, <1>4
<1> QED BY <1>2, <1>5

\* A list of any elements is one of its own.
LEMMA Listed ==
  ASSUME NEW S, NEW s \in Seq(S)
  PROVE  s \in Seq(ToSet(s))
<1>1. DOMAIN s = 1 .. Len(s) /\ Len(s) \in Nat OBVIOUS
<1>2. \A k \in 1 .. Len(s) : s[k] \in ToSet(s) BY <1>1 DEF ToSet
<1>3. s = [k \in 1 .. Len(s) |-> s[k]] OBVIOUS
<1>4. s \in [1 .. Len(s) -> ToSet(s)] BY <1>2, <1>3
<1> QED BY <1>1, <1>4

\* Both chains of N1.6 are lists of chained graphs.
LEMMA GrootChained ==
  /\ VisionChain \in Seq(ChainNames["groot"])
  /\ QwenChain \in Seq(ChainNames["groot"])
<1>1. PICK chained : chained = ChainNames["groot"] OBVIOUS
<1>2. ToSet(VisionChain) \subseteq chained /\ ToSet(QwenChain) \subseteq chained
  BY <1>1 DEF ChainNames
<1>3. N16.vision_layers \in Nat /\ N16.qwen_layers \in Nat BY GeometryAssumption
<1>4. PICK S : VisionStageNames \in Seq(S) BY <1>3, PairsListed DEF VisionStageNames
<1>5. PICK T : QwenStageNames \in Seq(T) BY <1>3, PairsListed DEF QwenStageNames
<1>6. VisionChain \in Seq(S \cup {"eagle_vision_patch", "eagle_vision_post_norm"})
  <2> DEFINE U == S \cup {"eagle_vision_patch", "eagle_vision_post_norm"}
  <2>1. /\ <<"eagle_vision_patch">> \in Seq(U) /\ <<"eagle_vision_post_norm">> \in Seq(U)
        /\ VisionStageNames \in Seq(U)
    BY <1>4
  <2> HIDE DEF U
  <2>2. VisionChain \in Seq(U) BY <2>1 DEF VisionChain
  <2> QED BY <2>2 DEF U
<1>7. QwenChain \in Seq(T \cup {"eagle_output_norm"})
  <2>1. QwenStageNames \in Seq(T \cup {"eagle_output_norm"}) BY <1>5
  <2> QED BY <2>1 DEF QwenChain
<1>8. VisionChain \in Seq(ToSet(VisionChain)) BY <1>6, Listed
<1>9. QwenChain \in Seq(ToSet(QwenChain)) BY <1>7, Listed
<1> QED BY <1>1, <1>2, <1>8, <1>9

\* The buffers of N1.6's vision model.
LEMMA VisionSizes ==
  LET sizes == Storage["groot"]
  IN  /\ VisionElements \in Nat /\ VisionElements = N16.side * N16.side * N16.vision
      /\ ConnectorWidth \in Nat /\ N16.image_start \in Nat
      /\ N16.image_start + ConnectorWidth <= N16.sequence
      /\ sizes.vision_hidden = VisionElements /\ sizes.connector_input = VisionElements
      /\ sizes.image_tokens = ConnectorWidth * N16.language /\ sizes.patches \in Nat
      /\ "image_tokens" \in DOMAIN sizes
<1>1. {N16.side, N16.patch, N16.vision, N16.unshuffle, N16.image_start} \subseteq Nat \ {0}
  BY GeometryAssumption
<1>2. PICK width \in Nat, area \in Nat \ {0} :
        width = N16.side * N16.side /\ area = N16.unshuffle * N16.unshuffle
  <2>1. N16.side * N16.side \in Nat BY <1>1, Times
  <2>2. N16.unshuffle * N16.unshuffle \in Nat \ {0} BY <1>1
  <2> QED BY <2>1, <2>2
<1>3. VisionElements \in Nat /\ VisionElements = N16.side * N16.side * N16.vision
  <2>1. width * N16.vision \in Nat BY <1>1, Times
  <2> QED BY <1>2, <2>1 DEF VisionElements, VisionWidth
<1>4. ConnectorWidth = width \div area BY <1>2 DEF ConnectorWidth, VisionWidth
<1>5. width \div area \in Nat OBVIOUS
<1>6. N16.image_start + ConnectorWidth <= N16.sequence
  BY GeometryAssumption DEF ConnectorWidth, VisionWidth
<1>7. "groot" \in Policies /\ Buffers["groot"] = GrootBuffers BY DEF Policies, Buffers
<1>8. ASSUME NEW b \in DOMAIN VisionTensors
      PROVE  b \in DOMAIN Storage["groot"] /\ Storage["groot"][b] = VisionTensors[b]
  <2>1. b \in DOMAIN GrootBuffers /\ GrootBuffers[b] = VisionTensors[b] BY GrootBufferIs
  <2> QED BY <1>7, <2>1, InStorage
<1>9. {"patches", "vision_hidden", "connector_input", "image_tokens"} \subseteq DOMAIN VisionTensors
  BY DEF VisionTensors
<1>10. VisionTensors["patches"] \in Nat
  <2>1. width * N16.patch \in Nat BY <1>1, Times
  <2> QED BY <1>2, <2>1 DEF VisionTensors, VisionWidth
<1> QED BY <1>1, <1>3, <1>4, <1>5, <1>6, <1>8, <1>9, <1>10 DEF VisionTensors

\* N1.6's plan (groot/runtime.py).
LEMMA GrootSuits == AllSuit("groot", GrootSteps)
<1> DEFINE p == "groot"
<1>1. HeadHolds(p, N16) BY GrootHolds
<1>2. Suits(p, RunChain(VisionChain, "patches", "vision_hidden"))
  <2>1. Storage[p]["patches"] \in Nat /\ Storage[p]["vision_hidden"] \in Nat BY VisionSizes
  <2>2. VisionChain \in Seq(ChainNames[p]) BY GrootChained
  <2> QED BY <2>1, <2>2, ChainSuits
<1>3. Suits(p, [op |-> "pixel_unshuffle", src |-> "vision_hidden", out |-> "connector_input",
                grid |-> N16.side, channels |-> N16.vision, factor |-> N16.unshuffle])
  <2>1. /\ N16.side \in Nat /\ N16.vision \in Nat /\ N16.unshuffle \in Nat \ {0}
        /\ N16.side % N16.unshuffle = 0
    BY GeometryAssumption
  <2>2. /\ Storage[p]["vision_hidden"] = N16.side * N16.side * N16.vision
        /\ Storage[p]["connector_input"] = Storage[p]["vision_hidden"]
    BY VisionSizes
  <2> QED BY <2>1, <2>2, UnshuffleSuits
<1>4. Suits(p, RunElf("eagle_vision_connector", <<"connector_input">>, "image_tokens"))
  <2>1. Storage[p]["image_tokens"] \in Nat BY <1>1, VisionSizes, HeadSizes, Times
  <2>2. "eagle_vision_connector" \notin ChainNames[p] BY NamesAssumption DEF ChainNames
  <2> QED BY <2>1, <2>2, ElfSuits
<1>5. Suits(p, PackParts("language_embeddings",
            << Part("prompt_embedding", 0, BackboneElements(N16)),
               Part("image_tokens", N16.image_start * N16.language,
                    ConnectorWidth * N16.language) >>))
  <2>1. PartSuits(p, "language_embeddings", Part("prompt_embedding", 0, BackboneElements(N16)))
    BY <1>1, HeadSizes DEF PartSuits, Part
  <2>2. PICK a \in Nat, c \in Nat, n \in Nat :
          /\ a = N16.image_start * N16.language /\ c = ConnectorWidth * N16.language
          /\ n = BackboneElements(N16) /\ a + c <= n
    <3>1. PICK first \in Nat, width \in Nat, rows \in Nat, cols \in Nat :
            /\ first = N16.image_start /\ width = ConnectorWidth /\ rows = N16.sequence
            /\ cols = N16.language /\ first + width <= rows
      <4>1. N16.sequence \in Nat /\ N16.language \in Nat BY <1>1, HeadSizes
      <4> QED BY <4>1, VisionSizes
    <3>2. BackboneElements(N16) = rows * cols BY <3>1 DEF BackboneElements
    <3>3. /\ first * cols \in Nat /\ width * cols \in Nat /\ rows * cols \in Nat
          /\ first * cols + width * cols <= rows * cols
      BY <3>1, Window
    <3> QED BY <3>1, <3>2, <3>3
  <2>3. /\ Storage[p]["image_tokens"] = c /\ "image_tokens" \in DOMAIN Storage[p]
        /\ Storage[p]["language_embeddings"] = n
    BY <1>1, <2>2, VisionSizes, HeadSizes
  <2>4. PartSuits(p, "language_embeddings", Part("image_tokens", a, c))
    BY <2>2, <2>3 DEF PartSuits, Part
  <2>5. Suits(p, PackParts("language_embeddings",
              << Part("prompt_embedding", 0, BackboneElements(N16)), Part("image_tokens", a, c) >>))
    BY <2>1, <2>2, <2>3, <2>4, TwoParts
  <2> QED BY <2>2, <2>5
<1>6. Suits(p, RunChain(QwenChain, "language_embeddings", "backbone_features"))
  <2>1. Storage[p]["backbone_features"] \in Nat /\ Storage[p]["language_embeddings"] \in Nat
    BY <1>1, HeadSizes
  <2>2. QwenChain \in Seq(ChainNames[p]) BY GrootChained
  <2> QED BY <2>1, <2>2, ChainSuits
<1> DEFINE stages ==
      << RunChain(VisionChain, "patches", "vision_hidden"),
         [op |-> "pixel_unshuffle", src |-> "vision_hidden", out |-> "connector_input",
          grid |-> N16.side, channels |-> N16.vision, factor |-> N16.unshuffle],
         RunElf("eagle_vision_connector", <<"connector_input">>, "image_tokens"),
         PackParts("language_embeddings",
           << Part("prompt_embedding", 0, BackboneElements(N16)),
              Part("image_tokens", N16.image_start * N16.language,
                   ConnectorWidth * N16.language) >>),
         RunChain(QwenChain, "language_embeddings", "backbone_features") >>
<1>7. AllSuit(p, stages) BY <1>2, <1>3, <1>4, <1>5, <1>6, FiveSuit
<1>8. GrootSteps = HeadConstants(N16) \o stages \o HeadSteps(N16) BY DEF GrootSteps
<1>9. AllSuit(p, HeadConstants(N16)) /\ AllSuit(p, HeadSteps(N16))
  BY <1>1, HeadConstantsSuit, HeadStepsSuit
<1> HIDE DEF stages
<1> QED BY <1>7, <1>8, <1>9, JoinedSuit

\* The buffers of N1.7's vision and language models.
LEMMA Groot17Sizes ==
  LET sizes == Storage["groot17"]
  IN  /\ TokenElements \in Nat /\ N17.images \in Nat
      /\ \A b \in {"vision_a", "vision_b", "llm_a", "llm_b"} : sizes[b] \in Nat
      /\ \A image \in Images :
           /\ sizes[Numbered("patches_", image)] \in Nat
           /\ Numbered("image_tokens_", image) \in DOMAIN sizes
           /\ sizes[Numbered("image_tokens_", image)] = TokenElements
      /\ \A t \in Taps : sizes[Numbered("deepstack_full_", t)] = BackboneElements(N17)
      /\ \A t \in Taps, image \in Images :
           Deepstack(t, image) \in DOMAIN sizes /\ sizes[Deepstack(t, image)] = TokenElements
<1>1. {N17.images, N17.patches, N17.patch, N17.vision, N17.merged, N17.language, N17.sequence} \subseteq Nat
  BY GeometryAssumption DEF HeadOf
<1>2. TokenElements \in Nat /\ BackboneElements(N17) \in Nat /\ N17.patches * N17.vision \in Nat
      /\ N17.patches * N17.patch \in Nat
  BY <1>1, Times DEF TokenElements, BackboneElements
<1>3. "groot17" \in Policies /\ Buffers["groot17"] = Groot17Buffers BY DEF Policies, Buffers
<1>4. ASSUME NEW b \in DOMAIN ChainTensors PROVE Storage["groot17"][b] = ChainTensors[b]
  <2>1. b \in DOMAIN Groot17Buffers /\ Groot17Buffers[b] = ChainTensors[b] BY Groot17BufferIs
  <2> QED BY <1>3, <2>1, InStorage
<1>5. {"vision_a", "vision_b", "llm_a", "llm_b"} \subseteq DOMAIN ChainTensors BY DEF ChainTensors
<1>6. \A b \in {"vision_a", "vision_b", "llm_a", "llm_b"} : ChainTensors[b] \in Nat
  BY <1>2 DEF ChainTensors
<1>7. ASSUME NEW b \in NameFamilies[6]
      PROVE  b \in DOMAIN Storage["groot17"] /\ Storage["groot17"][b] = TokenElements
  <2>1. b \in DOMAIN Groot17Buffers /\ Groot17Buffers[b] = TokenElements BY Groot17BufferIs
  <2> QED BY <1>3, <2>1, InStorage
<1>8. ASSUME NEW b \in NameFamilies[7] PROVE Storage["groot17"][b] = BackboneElements(N17)
  <2>1. b \in DOMAIN Groot17Buffers /\ Groot17Buffers[b] = BackboneElements(N17) BY Groot17BufferIs
  <2> QED BY <1>3, <2>1, InStorage
<1>10. ASSUME NEW b \in NameFamilies[5] PROVE Storage["groot17"][b] \in Nat
  <2>1. b \in DOMAIN Groot17Buffers /\ Groot17Buffers[b] = N17.patches * N17.patch BY Groot17BufferIs
  <2> QED BY <1>2, <1>3, <2>1, InStorage
<1>9. /\ \A image \in Images : Numbered("patches_", image) \in NameFamilies[5]
      /\ \A image \in Images : Numbered("image_tokens_", image) \in NameFamilies[6]
      /\ \A t \in Taps, image \in Images : Deepstack(t, image) \in NameFamilies[6]
      /\ \A t \in Taps : Numbered("deepstack_full_", t) \in NameFamilies[7]
  BY Families
<1> QED BY <1>1, <1>2, <1>4, <1>5, <1>6, <1>7, <1>8, <1>9, <1>10

\* No other graph of N1.7 runs in a chain.
LEMMA Groot17Alone ==
  /\ \A t \in Taps : DeepstackName(t) \notin ChainNames["groot17"]
  /\ \A graph \in {"vit_merger", LlmNames[1], LlmNames[2]} : graph \notin ChainNames["groot17"]
<1>1. ChainNames["groot17"] = {"vit_patch"} \cup ToSet(VisionBlockNames) \cup ToSet(LanguageChain)
  BY DEF ChainNames
<1>2. ChainNames["groot17"] \cap (HeadNames(N17) \cup {"vit_merger", LlmNames[1], LlmNames[2]}
                                    \cup {DeepstackName(t) : t \in Taps}) = {}
  BY <1>1, NamesAssumption
<1> QED BY <1>2

\* The chains between the taps are pairs of the vision model, the patches before them.
LEMMA VisionChained ==
  ASSUME NEW t \in 0 .. 3
  PROVE  VisionChains(t) \in Seq(ChainNames["groot17"])
<1>1. PICK names, chained : names = VisionBlockNames /\ chained = ChainNames["groot17"] OBVIOUS
<1>2. PICK m \in Nat : m = (N17.vision_blocks + 1) \div 2 BY GeometryAssumption
<1>3. DOMAIN names = 1 .. m /\ names = [k \in 1 .. m |-> names[k]] BY <1>1, <1>2 DEF VisionBlockNames, PairNames
<1>4. "vit_patch" \in chained /\ ToSet(names) \subseteq chained BY <1>1 DEF ChainNames
<1>5. \A k \in 1 .. m : names[k] \in chained BY <1>3, <1>4 DEF ToSet
<1>6. names \in Seq(chained) /\ Len(names) = m
  <2>1. names \in [1 .. m -> chained] BY <1>3, <1>5
  <2> QED BY <2>1
<1> DEFINE after == IF t = 0 THEN 0 ELSE (N17.deepstack[t] + 1) \div 2
           upTo == IF t \in Taps THEN (N17.deepstack[t + 1] + 1) \div 2 ELSE Len(VisionBlockNames)
           start == IF t = 0 THEN <<"vit_patch">> ELSE <<>>
<1>7. after \in 0 .. m /\ upTo \in 0 .. m
  <2>1. Taps = 0 .. 2 BY GeometryAssumption DEF Taps
  <2>2. \A k \in 1 .. 3 : N17.deepstack[k] \in Nat /\ N17.deepstack[k] < N17.vision_blocks - 1
    <3>1. PICK s \in Seq(Nat) : s = N17.deepstack BY GeometryAssumption
    <3>2. Len(s) = 3 BY <3>1, GeometryAssumption
    <3>3. \A k \in 1 .. 3 : s[k] \in Nat BY <3>1, <3>2
    <3>4. \A k \in 1 .. 3 : N17.deepstack[k] < N17.vision_blocks - 1 BY GeometryAssumption
    <3> QED BY <3>1, <3>3, <3>4
  <2>3. N17.vision_blocks \in Nat BY GeometryAssumption
  <2>4. \A k \in 1 .. 3 : (N17.deepstack[k] + 1) \div 2 \in 0 .. m BY <1>2, <2>2, <2>3
  <2> QED BY <1>1, <1>6, <2>1, <2>4
<1>8. SubSeq(names, after + 1, upTo) \in Seq(chained)
  <2>1. PICK a \in 0 .. m, b \in 0 .. m : a = after /\ b = upTo BY <1>7
  <2>2. SubSeq(names, a + 1, b) \in Seq(chained) BY <1>6
  <2> QED BY <2>1, <2>2
<1>9. start \in Seq(chained)
  <2>1. <<"vit_patch">> \in Seq(chained) /\ <<>> \in Seq(chained) BY <1>4
  <2> QED BY <2>1
<1>10. VisionChains(t) = start \o SubSeq(names, after + 1, upTo) BY <1>1 DEF VisionChains
<1> HIDE DEF start, after, upTo
<1>11. VisionChains(t) \in Seq(chained) BY <1>8, <1>9, <1>10
<1> QED BY <1>1, <1>11

\* The language chain of N1.7 is a list of chained graphs.
LEMMA LanguageChained == LanguageChain \in Seq(ChainNames["groot17"])
<1>1. N17.llm_layers \in Nat /\ N17.vl_layers \in Nat BY GeometryAssumption
<1>2. PICK S : LlmNames \in Seq(S) BY <1>1, PairsListed DEF LlmNames
<1>3. PICK T : SelfAttentionNames \in Seq(T) BY <1>1, PairsListed DEF SelfAttentionNames
<1>4. SubSeq(LlmNames, 3, Len(LlmNames)) \in Seq(S)
  <2>1. PICK names \in Seq(S) : names = LlmNames BY <1>2
  <2>2. SubSeq(names, 3, Len(names)) \in Seq(S) OBVIOUS
  <2> QED BY <2>1, <2>2
<1>5. LanguageChain \in Seq(S \cup T)
  <2>1. /\ SubSeq(LlmNames, 3, Len(LlmNames)) \in Seq(S \cup T)
        /\ SelfAttentionNames \in Seq(S \cup T)
    BY <1>3, <1>4
  <2> QED BY <2>1 DEF LanguageChain
<1>6. LanguageChain \in Seq(ToSet(LanguageChain)) BY <1>5, Listed
<1>7. ToSet(LanguageChain) \subseteq ChainNames["groot17"] BY DEF ChainNames
<1> QED BY <1>6, <1>7

\* One image of N1.7: its chains, taps and merger.
LEMMA ImageStepsSuit ==
  ASSUME NEW image \in Images
  PROVE  AllSuit("groot17", ImageSteps(image))
<1> DEFINE p == "groot17"
           at(t) == IF t % 2 = 0 THEN "vision_a" ELSE "vision_b"
           from(t) == IF t = 0 THEN Numbered("patches_", image) ELSE at(t - 1)
           taps == [k \in 1 .. Len(N17.deepstack) |->
             << RunChain(VisionChains(k - 1), from(k - 1), at(k - 1)),
                RunElf(DeepstackName(k - 1), <<at(k - 1)>>, Deepstack(k - 1, image)) >>]
           rest == << RunChain(VisionChains(3), from(3), at(3)),
                      RunElf("vit_merger", <<at(3)>>, Numbered("image_tokens_", image)) >>
<1>1. Len(N17.deepstack) = 3 /\ Taps = 0 .. 2 BY GeometryAssumption DEF Taps
<1>2. /\ \A t : Storage[p][at(t)] \in Nat
      /\ \A t \in 0 .. 2 : Storage[p][Deepstack(t, image)] \in Nat
      /\ Storage[p][Numbered("image_tokens_", image)] \in Nat
      /\ Storage[p][Numbered("patches_", image)] \in Nat
  BY <1>1, Groot17Sizes
<1>3. ASSUME NEW k \in 1 .. 3 PROVE AllSuit(p, taps[k])
  <2>1. PICK t \in 0 .. 2 : t = k - 1 OBVIOUS
  <2>2. PICK chain, graph, in, out, tap :
          /\ chain = VisionChains(t) /\ graph = DeepstackName(t) /\ in = from(t) /\ out = at(t)
          /\ tap = Deepstack(t, image)
    OBVIOUS
  <2>3. /\ Storage[p][out] \in Nat /\ Storage[p][in] \in Nat /\ Storage[p][tap] \in Nat
        /\ chain \in Seq(ChainNames[p]) /\ graph \notin ChainNames[p]
    <3>1. Storage[p][out] \in Nat /\ Storage[p][tap] \in Nat BY <1>2, <2>2
    <3>2. Storage[p][in] \in Nat BY <1>2, <2>2
    <3>3. chain \in Seq(ChainNames[p]) BY <2>2, VisionChained
    <3>4. graph \notin ChainNames[p] BY <1>1, <2>2, Groot17Alone
    <3> QED BY <3>1, <3>2, <3>3, <3>4
  <2>4. taps[k] = << RunChain(chain, in, out), RunElf(graph, <<out>>, tap) >> BY <1>1, <2>1, <2>2
  <2>5. Suits(p, RunChain(chain, in, out)) /\ Suits(p, RunElf(graph, <<out>>, tap))
    BY <2>3, ElfSuits, ChainSuits
  <2> QED BY <2>4, <2>5, TwoSuit
<1>4. taps = [k \in 1 .. 3 |-> taps[k]] BY <1>1
<1>5. AllSuit(p, rest)
  <2>1. PICK chain, in, out, tokens :
          /\ chain = VisionChains(3) /\ in = from(3) /\ out = at(3)
          /\ tokens = Numbered("image_tokens_", image)
    OBVIOUS
  <2>2. /\ Storage[p][out] \in Nat /\ Storage[p][in] \in Nat /\ Storage[p][tokens] \in Nat
        /\ chain \in Seq(ChainNames[p]) /\ "vit_merger" \notin ChainNames[p]
    <3>1. /\ Storage[p][out] \in Nat /\ Storage[p][in] \in Nat /\ Storage[p][tokens] \in Nat
      BY <1>2, <2>1
    <3>2. chain \in Seq(ChainNames[p]) BY <2>1, VisionChained
    <3>3. "vit_merger" \notin ChainNames[p] BY Groot17Alone
    <3> QED BY <3>1, <3>2, <3>3
  <2>3. Suits(p, RunChain(chain, in, out)) /\ Suits(p, RunElf("vit_merger", <<out>>, tokens))
    BY <2>2, ElfSuits, ChainSuits
  <2> QED BY <2>1, <2>3, TwoSuit
<1>6. ImageSteps(image) = FlattenSeq(taps) \o rest BY DEF ImageSteps
<1> HIDE DEF taps, rest
<1>7. AllSuit(p, FlattenSeq(taps)) BY <1>3, <1>4, FlatSuits
<1> QED BY <1>5, <1>6, <1>7, JoinedSuit

\* Every image's tokens land inside the prompt.
LEMMA RunsSuit ==
  ASSUME NEW prefix, NEW out, Storage["groot17"][out] = BackboneElements(N17), NEW k \in 1 .. N17.images,
         Numbered(prefix, k - 1) \in DOMAIN Storage["groot17"],
         Storage["groot17"][Numbered(prefix, k - 1)] = TokenElements
  PROVE  PartSuits("groot17", out, Runs(prefix)[k])
<1> DEFINE p == "groot17"
<1>1. /\ N17.visual_runs[k][1] \in Nat /\ N17.visual_runs[k][2] \in Nat
      /\ N17.visual_runs[k][2] <= N17.merged
      /\ N17.visual_runs[k][1] + N17.visual_runs[k][2] <= N17.sequence
  BY GeometryAssumption
<1>2. N17.language \in Nat /\ N17.merged \in Nat /\ N17.sequence \in Nat
  BY GeometryAssumption DEF HeadOf
<1>3. PICK start \in Nat, length \in Nat, w \in Nat, merged \in Nat, sequence \in Nat :
        /\ start = N17.visual_runs[k][1] /\ length = N17.visual_runs[k][2]
        /\ w = N17.language /\ merged = N17.merged /\ sequence = N17.sequence
  BY <1>1, <1>2
<1>4. start + length <= sequence /\ 0 + length <= merged BY <1>1, <1>3
<1>5. /\ start * w \in Nat /\ length * w \in Nat /\ sequence * w \in Nat /\ merged * w \in Nat
      /\ start * w + length * w <= sequence * w /\ length * w <= merged * w
  <2>1. /\ start * w \in Nat /\ length * w \in Nat /\ sequence * w \in Nat
        /\ start * w + length * w <= sequence * w
    BY <1>4, Window
  <2>2. length * w <= merged * w /\ merged * w \in Nat BY <1>4, Window
  <2> QED BY <2>1, <2>2
<1>6. PICK a \in Nat, c \in Nat : a = start * w /\ c = length * w BY <1>5
<1>7. PICK src : src = Numbered(prefix, k - 1) OBVIOUS
<1>8. BackboneElements(N17) = sequence * w /\ TokenElements = merged * w
  BY <1>3 DEF BackboneElements, TokenElements
<1>9. /\ c <= Storage[p][src] /\ a + c <= Storage[p][out] /\ src \in DOMAIN Storage[p]
      /\ Storage[p][src] \in Nat
  BY <1>5, <1>6, <1>7, <1>8
<1>10. Runs(prefix)[k] = Part(src, a, c)
  <2>1. Runs(prefix)[k] = Part(Numbered(prefix, k - 1), N17.visual_runs[k][1] * N17.language,
                               N17.visual_runs[k][2] * N17.language)
    BY DEF Runs
  <2> QED BY <1>3, <1>6, <1>7, <2>1
<1>11. PartSuits(p, out, Part(src, a, c)) BY <1>9 DEF PartSuits, Part
<1> QED BY <1>10, <1>11

\* N1.7's prompt, taps and language model.
LEMMA Groot17LanguageSuits == AllSuit("groot17", Groot17Language)
<1> DEFINE p == "groot17"
<1>1. HeadHolds(p, N17) BY Groot17Holds
<1>2. PICK m \in Nat : m = N17.images BY Groot17Sizes
<1>3. Len(N17.deepstack) = 3 /\ Taps = 0 .. 2 /\ Images = 0 .. m - 1
  BY <1>2, GeometryAssumption DEF Taps, Images
<1>4. BackboneElements(N17) \in Nat BY <1>1, HeadSizes
<1>5. AllSuit(p, << PackParts("language_embeddings",
         << Part("prompt_embedding", 0, BackboneElements(N17)) >> \o Runs("image_tokens_")) >>)
  <2> DEFINE out == "language_embeddings"
             first == Part("prompt_embedding", 0, BackboneElements(N17))
             runs == Runs("image_tokens_")
             parts == <<first>> \o runs
  <2>1. Storage[p][out] = BackboneElements(N17) BY <1>1, HeadSizes
  <2>2. PartSuits(p, out, first) BY <1>1, HeadSizes DEF PartSuits, Part
  <2>3. ASSUME NEW k \in 1 .. m PROVE PartSuits(p, out, runs[k])
    <3>1. k - 1 \in Images BY <1>3
    <3>2. /\ Numbered("image_tokens_", k - 1) \in DOMAIN Storage[p]
          /\ Storage[p][Numbered("image_tokens_", k - 1)] = TokenElements
      BY <3>1, Groot17Sizes
    <3> QED BY <1>2, <2>1, <3>2, RunsSuit
  <2>4. runs \in Seq({runs[k] : k \in 1 .. m}) /\ Len(runs) = m
    <3>1. runs = [k \in 1 .. m |-> runs[k]] BY <1>2 DEF Runs
    <3> HIDE DEF runs
    <3>2. runs \in [1 .. m -> {runs[k] : k \in 1 .. m}] BY <3>1
    <3> QED BY <3>2
  <2> HIDE DEF first, runs
  <2>5. /\ parts \in Seq({first} \cup {runs[k] : k \in 1 .. m}) /\ Len(parts) = 1 + m
        /\ \A k \in 1 .. 1 + m : parts[k] = IF k = 1 THEN first ELSE runs[k - 1]
    <3>1. /\ <<first>> \in Seq({first} \cup {runs[k] : k \in 1 .. m}) /\ Len(<<first>>) = 1
          /\ <<first>>[1] = first
      OBVIOUS
    <3>2. runs \in Seq({first} \cup {runs[k] : k \in 1 .. m}) BY <2>4
    <3>3. PICK one : one = <<first>> OBVIOUS
    <3> QED BY <2>4, <3>1, <3>2, <3>3
  <2> HIDE DEF parts
  <2>6. DOMAIN parts = 1 .. 1 + m BY <2>5
  <2>7. ASSUME NEW k \in 1 .. 1 + m PROVE PartSuits(p, out, parts[k])
    <3>1. CASE k = 1 BY <2>2, <2>5, <3>1
    <3>2. CASE k # 1
      <4>1. k - 1 \in 1 .. m /\ parts[k] = runs[k - 1] BY <2>5, <3>2
      <4> QED BY <2>3, <4>1
    <3> QED BY <3>1, <3>2
  <2>8. PICK n \in Nat : n = 1 + m OBVIOUS
  <2>9. Suits(p, PackParts(out, parts)) BY <1>4, <2>1, <2>5, <2>6, <2>7, <2>8, PackSuits
  <2>10. AllSuit(p, <<PackParts(out, parts)>>) BY <2>9, OneSuits
  <2> QED BY <2>10 DEF parts, first, runs
<1> DEFINE fulls == [k \in 1 .. Len(N17.deepstack) |->
             PackParts(Numbered("deepstack_full_", k - 1), Runs(Numbered("deepstack_", k - 1) \o "_"))]
<1>6. ASSUME NEW k \in 1 .. 3 PROVE Suits(p, fulls[k])
  <2>1. PICK t \in Taps : t = k - 1 BY <1>3
  <2>2. PICK out, prefix : out = Numbered("deepstack_full_", t) /\ prefix = Numbered("deepstack_", t) \o "_"
    OBVIOUS
  <2>3. Storage[p][out] = BackboneElements(N17) BY <2>2, Groot17Sizes
  <2>4. \A image : Deepstack(t, image) = Numbered(prefix, image) BY <2>2 DEF Deepstack
  <2>5. ASSUME NEW j \in 1 .. m PROVE PartSuits(p, out, Runs(prefix)[j])
    <3>1. j - 1 \in Images BY <1>3
    <3>2. /\ Numbered(prefix, j - 1) \in DOMAIN Storage[p]
          /\ Storage[p][Numbered(prefix, j - 1)] = TokenElements
      BY <2>4, <3>1, Groot17Sizes
    <3> QED BY <1>2, <2>3, <3>2, RunsSuit
  <2>6. PICK runs : runs = Runs(prefix) OBVIOUS
  <2>7. runs = [j \in 1 .. m |-> runs[j]] BY <1>2, <2>6 DEF Runs
  <2>8. Len(runs) = m /\ DOMAIN runs = 1 .. m
    <3>1. runs \in [1 .. m -> {runs[j] : j \in 1 .. m}] BY <2>7
    <3> QED BY <3>1
  <2>9. Suits(p, PackParts(out, runs)) BY <1>4, <2>3, <2>5, <2>6, <2>8, PackSuits
  <2>10. fulls[k] = PackParts(out, runs) BY <1>3, <2>1, <2>2, <2>6
  <2> QED BY <2>9, <2>10
<1>7. fulls = [k \in 1 .. 3 |-> fulls[k]] BY <1>3
<1> HIDE DEF fulls
<1>8. AllSuit(p, fulls) BY <1>6, <1>7, EachSuits
<1> DEFINE rest ==
      << RunElf(LlmNames[1], <<"language_embeddings", "deepstack_full_0", "deepstack_full_1">>, "llm_a"),
         RunElf(LlmNames[2], <<"llm_a", "deepstack_full_2">>, "llm_b"),
         RunChain(LanguageChain, "llm_b", "backbone_features") >>
<1>9. AllSuit(p, rest)
  <2>1. /\ Storage[p]["llm_a"] \in Nat /\ Storage[p]["llm_b"] \in Nat
        /\ Storage[p]["backbone_features"] \in Nat
    BY <1>1, <1>4, Groot17Sizes, HeadSizes
  <2>2. Suits(p, RunElf(LlmNames[1], <<"language_embeddings", "deepstack_full_0", "deepstack_full_1">>,
                        "llm_a"))
    BY <2>1, Groot17Alone, ElfSuits
  <2>3. Suits(p, RunElf(LlmNames[2], <<"llm_a", "deepstack_full_2">>, "llm_b"))
    BY <2>1, Groot17Alone, ElfSuits
  <2>4. Suits(p, RunChain(LanguageChain, "llm_b", "backbone_features"))
    <3>1. LanguageChain \in Seq(ChainNames[p]) BY LanguageChained
    <3> QED BY <2>1, <3>1, ChainSuits
  <2> QED BY <2>2, <2>3, <2>4, ThreeSuit
<1> HIDE DEF rest
<1> QED BY <1>5, <1>8, <1>9, JoinedSuit DEF Groot17Language, fulls, rest

\* N1.7's plan (groot17/runtime.py).
LEMMA Groot17Suits == AllSuit("groot17", Groot17Steps)
<1> DEFINE p == "groot17"
           images == [k \in 1 .. N17.images |-> ImageSteps(k - 1)]
<1>1. HeadHolds(p, N17) BY Groot17Holds
<1>2. PICK m \in Nat : m = N17.images BY Groot17Sizes
<1>3. ASSUME NEW k \in 1 .. m PROVE AllSuit(p, images[k])
  <2>1. k - 1 \in Images /\ images[k] = ImageSteps(k - 1) BY <1>2 DEF Images
  <2> QED BY <2>1, ImageStepsSuit
<1>4. images = [k \in 1 .. m |-> images[k]] BY <1>2
<1>5. Groot17Steps = HeadConstants(N17) \o FlattenSeq(images) \o Groot17Language \o HeadSteps(N17)
  BY DEF Groot17Steps
<1> HIDE DEF images
<1>6. AllSuit(p, FlattenSeq(images)) BY <1>3, <1>4, FlatSuits
<1>7. AllSuit(p, HeadConstants(N17)) /\ AllSuit(p, HeadSteps(N17))
  BY <1>1, HeadConstantsSuit, HeadStepsSuit
<1> QED BY <1>5, <1>6, <1>7, Groot17LanguageSuits, JoinedSuit

\* Every step of every plan suits.
LEMMA AllPlansSuit ==
  ASSUME NEW p \in Policies
  PROVE  AllSuit(p, Steps[p])
<1>1. p = "act" \/ p = "smolvla" \/ p = "groot" \/ p = "groot17" BY DEF Policies
<1>2. /\ Steps["act"] = ActSteps /\ Steps["smolvla"] = SmolVLASteps
      /\ Steps["groot"] = GrootSteps /\ Steps["groot17"] = Groot17Steps
  BY DEF Steps
<1> QED BY <1>1, <1>2, ActSuits, SmolVLASuits, GrootSuits, Groot17Suits

\* Every plan fits the buffers and constants it declares, and scales each value by the
\* statistics of its own joint (Fitting); and the interpreter on the workstation makes of
\* every plan what the native one does (Interpreted): for all sizes of the policies, not
\* only those of a run.
THEOREM PlansFit == Policies = Fitting /\ Policies = Interpreted
<1>1. \A p \in Policies : p \in Fitting /\ p \in Interpreted BY AllPlansSuit, SuitsFits DEF AllSuit
<1> QED BY <1>1 DEF Fitting, Interpreted

\* A sum of one number.
LEMMA SumOfOne ==
  ASSUME NEW e, NEW n \in Nat, Len(e) = 1, e[1] = n
  PROVE  SumOf(e) = n
<1> DEFINE Sums(f) == f = [k \in 0 .. Len(e) |-> IF k = 0 THEN 0 ELSE f[k - 1] + e[k]]
<1>1. Sums([k \in 0 .. 1 |-> IF k = 0 THEN 0 ELSE n])
  <2> DEFINE g == [k \in 0 .. 1 |-> IF k = 0 THEN 0 ELSE n]
  <2>1. \A k \in 0 .. 1 : g[k] = IF k = 0 THEN 0 ELSE g[k - 1] + e[k] OBVIOUS
  <2>2. g = [k \in 0 .. 1 |-> g[k]] OBVIOUS
  <2> HIDE DEF g
  <2>3. g = [k \in 0 .. Len(e) |-> IF k = 0 THEN 0 ELSE g[k - 1] + e[k]] BY <2>1, <2>2
  <2> QED BY <2>3 DEF g
<1>2. SumOf(e) = (CHOOSE f : Sums(f))[Len(e)] BY DEF SumOf
<1>3. PICK f : f = CHOOSE g : Sums(g) OBVIOUS
<1>4. Sums(f)
  <2> HIDE DEF Sums
  <2> QED BY <1>1, <1>3
<1>5. f[0] = 0 /\ f[1] = f[0] + e[1] BY <1>4
<1> HIDE DEF Sums
<1> QED BY <1>2, <1>3, <1>5

\* The chained graphs are those the steps name.
LEMMA ChainedAre ==
  ASSUME NEW p, AllSuit(p, Steps[p])
  PROVE  ChainedGraphs(p) \subseteq ChainNames[p]
<1>1. SUFFICES ASSUME NEW k \in DOMAIN Steps[p], Steps[p][k].op = "run_elf_chain"
               PROVE  ToSet(Stages(Steps[p][k])) \subseteq ChainNames[p]
  BY DEF ChainedGraphs
<1>2. PICK s : s = Steps[p][k] OBVIOUS
<1>3. Suits(p, s) BY <1>2 DEF AllSuit
<1>4. s.graphs \in Seq(ChainNames[p]) BY <1>1, <1>2, <1>3 DEF Suits
<1>5. Stages(s) = s.graphs BY <1>1, <1>2 DEF Stages
<1>6. PICK names, chained : names = s.graphs /\ chained = ChainNames[p] OBVIOUS
<1>7. names \in Seq(chained) BY <1>4, <1>6
<1>8. \A i \in DOMAIN names : names[i] \in chained BY <1>7
<1>9. ASSUME NEW x \in ToSet(names) PROVE x \in chained
  <2>1. PICK i \in DOMAIN names : names[i] = x BY Zenon DEF ToSet
  <2> QED BY <1>8, <2>1
<1> QED BY <1>2, <1>5, <1>6, <1>9

\* What Loads asks of a step and its graphs.
StepLoads(p, s, graphs) ==
    /\ s.out \in DOMAIN Buffers[p]
    /\ s.op = "run_elf" => s.graph \in DOMAIN Graphs[p] \ ChainedGraphs(p)
    /\ s.op = "run_elf_chain" =>
         /\ \A j \in DOMAIN graphs :
              /\ graphs[j].hwc /\ graphs[j].out = graphs[1].out
              /\ j > 1 => InputElements(graphs[j]) = graphs[1].out
         /\ Buffers[p][s.in[1]] = InputElements(graphs[1])
         /\ Buffers[p][s.out] = graphs[Len(graphs)].out

\* What PolicySpec.validate lets pass, Plan::Plan and SharedRunnerChain take.
LEMMA ValidLoads ==
  ASSUME NEW p \in Policies, AllSuit(p, Steps[p]), ToSet(Wire[p]) \subseteq DOMAIN Buffers[p],
         Validates(p)
  PROVE  Loads(p)
<1>1. Result[p] \in DOMAIN Buffers[p] BY DEF Validates
<1>2. ASSUME NEW k \in DOMAIN Steps[p]
      PROVE  LET s == Steps[p][k]
             IN  StepLoads(p, s, [j \in DOMAIN Stages(s) |-> Graphs[p][Stages(s)[j]]])
  <2>1. PICK s : s = Steps[p][k] OBVIOUS
  <2>2. PICK stages, graphs :
          /\ stages = Stages(s)
          /\ graphs = [j \in DOMAIN Stages(s) |-> Graphs[p][Stages(s)[j]]]
    OBVIOUS
  <2>4. /\ s.out \in DOMAIN Buffers[p]
        /\ RunsElf(s) =>
             /\ \A j \in DOMAIN stages : stages[j] \in DOMAIN Graphs[p]
             /\ \A j \in DOMAIN s.in : s.in[j] \in DOMAIN Buffers[p]
             /\ s.op = "run_elf_chain" => Len(s.in) = 1 /\ ChainFits(graphs)
             /\ Buffers[p][s.out] = graphs[Len(graphs)].out
             /\ SumOf([j \in DOMAIN s.in |-> Buffers[p][s.in[j]]]) = InputElements(graphs[1])
    BY <2>1, <2>2 DEF Validates
  <2>5. Suits(p, s) BY <2>1 DEF AllSuit
  <2>6. ASSUME s.op = "run_elf" PROVE s.graph \in DOMAIN Graphs[p] \ ChainedGraphs(p)
    <3>1. stages = <<s.graph>> BY <2>2, <2>6 DEF Stages
    <3>2. 1 \in DOMAIN stages /\ stages[1] = s.graph BY <3>1
    <3>3. s.graph \in DOMAIN Graphs[p] BY <2>4, <2>6, <3>2 DEF RunsElf
    <3>4. s.graph \notin ChainNames[p] BY <2>5, <2>6 DEF Suits
    <3> QED BY <3>3, <3>4, ChainedAre
  <2>7. ASSUME s.op = "run_elf_chain"
        PROVE  /\ \A j \in DOMAIN graphs :
                    /\ graphs[j].hwc /\ graphs[j].out = graphs[1].out
                    /\ j > 1 => InputElements(graphs[j]) = graphs[1].out
               /\ Buffers[p][s.in[1]] = InputElements(graphs[1])
               /\ Buffers[p][s.out] = graphs[Len(graphs)].out
    <3>1. ChainFits(graphs) BY <2>4, <2>7 DEF RunsElf
    <3>2. stages \in Seq(ChainNames[p])
      <4>1. stages = s.graphs BY <2>2, <2>7 DEF Stages
      <4> QED BY <2>5, <2>7, <4>1 DEF Suits
    <3>3. PICK n \in Nat : DOMAIN stages = 1 .. n BY <3>2
    <3>4. DOMAIN graphs = 1 .. n BY <2>2, <3>3
    <3>5. ASSUME NEW j \in DOMAIN graphs
          PROVE  /\ graphs[j].hwc /\ graphs[j].out = graphs[1].out
                 /\ j > 1 => InputElements(graphs[j]) = graphs[1].out
      <4>1. j > 1 => j - 1 \in DOMAIN graphs BY <3>4
      <4> QED BY <3>1, <4>1 DEF ChainFits
    <3>6. PICK b : s.in = <<b>> /\ Storage[p][b] \in Nat BY <2>5, <2>7 DEF Suits
    <3>7. b \in DOMAIN Buffers[p]
      <4>1. 1 \in DOMAIN s.in /\ s.in[1] = b BY <3>6
      <4> QED BY <2>4, <2>7, <4>1 DEF RunsElf
    <3>8. PICK size \in Nat : size = Buffers[p][b] BY <3>6, <3>7, InStorage
    <3>9. SumOf([j \in DOMAIN s.in |-> Buffers[p][s.in[j]]]) = size
      <4> DEFINE e == [j \in DOMAIN s.in |-> Buffers[p][s.in[j]]]
      <4>1. DOMAIN s.in = 1 .. 1 /\ s.in[1] = b BY <3>6
      <4>2. e = [j \in 1 .. 1 |-> size]
        <5>1. \A j \in 1 .. 1 : Buffers[p][s.in[j]] = size BY <3>8, <4>1
        <5> QED BY <4>1, <5>1
      <4> HIDE DEF e
      <4>3. e \in [1 .. 1 -> Nat] BY <4>2
      <4>4. Len(e) = 1 /\ e[1] = size BY <4>2, <4>3
      <4>5. SumOf(e) = size BY <4>4, SumOfOne
      <4> QED BY <4>5 DEF e
    <3>10. Buffers[p][s.in[1]] = InputElements(graphs[1])
      <4>1. s.in[1] = b BY <3>6
      <4> QED BY <2>4, <2>7, <3>8, <3>9, <4>1 DEF RunsElf
    <3>11. Buffers[p][s.out] = graphs[Len(graphs)].out BY <2>4, <2>7 DEF RunsElf
    <3> QED BY <3>5, <3>10, <3>11
  <2>8. StepLoads(p, s, graphs) BY <2>4, <2>6, <2>7 DEF StepLoads
  <2> QED BY <2>1, <2>2, <2>8
<1> QED BY <1>1, <1>2 DEF Loads, StepLoads

\* The server finds a buffer for every tensor of the wire.
LEMMA WireHeld ==
  ASSUME NEW p \in Policies
  PROVE  ToSet(Wire[p]) \subseteq DOMAIN Buffers[p]
<1>1. CASE p = "act"
  <2>1. Wire[p] = ActWire /\ Buffers[p] = ActBuffers BY <1>1 DEF Wire, Buffers
  <2>2. ActWire \in Seq({"image0", "image1", "state"}) BY DEF ActWire
  <2>3. {"image0", "image1", "state"} \subseteq DOMAIN ActBuffers BY DEF ActBuffers
  <2> QED BY <2>1, <2>2, <2>3 DEF ToSet
<1>2. CASE p = "smolvla"
  <2>1. Wire[p] = SmolVLAWire /\ Buffers[p] = SmolVLABuffers BY <1>2 DEF Wire, Buffers
  <2>2. SmolVLAWire \in Seq({"image0", "image1", "state", "noise"}) BY DEF SmolVLAWire
  <2>3. {"image0", "image1", "state", "noise"} \subseteq DOMAIN SmolVLATensors BY DEF SmolVLATensors
  <2>4. DOMAIN SmolVLATensors \subseteq DOMAIN SmolVLABuffers BY DEF SmolVLABuffers, ++
  <2> QED BY <2>1, <2>2, <2>3, <2>4 DEF ToSet
<1>3. CASE p = "groot"
  <2>1. Wire[p] = GrootWire /\ Buffers[p] = GrootBuffers BY <1>3 DEF Wire, Buffers
  <2>2. GrootWire \in Seq({"patches", "state", "noise"}) BY DEF GrootWire
  <2>3. "patches" \in DOMAIN VisionTensors /\ {"state", "noise"} \subseteq DOMAIN HeadTensors(N16)
    BY DEF VisionTensors, HeadTensors
  <2>4. {"patches", "state", "noise"} \subseteq DOMAIN GrootBuffers
    BY <2>3, GrootBufferIs, HeadBufferIs
  <2> QED BY <2>1, <2>2, <2>4 DEF ToSet
<1>4. CASE p = "groot17"
  <2>1. Wire[p] = Groot17Wire /\ Buffers[p] = Groot17Buffers BY <1>4 DEF Wire, Buffers
  <2> DEFINE patches == [k \in 1 .. N17.images |-> Numbered("patches_", k - 1)]
             others == <<"state", "noise">>
  <2>2. PICK names : names = DOMAIN Groot17Buffers OBVIOUS
  <2>3. PICK m \in Nat : m = N17.images BY Groot17Sizes
  <2>4. ASSUME NEW k \in 1 .. m PROVE patches[k] \in names
    <3>1. k - 1 \in Images BY <2>3 DEF Images
    <3>2. patches[k] = Numbered("patches_", k - 1) BY <2>3
    <3>3. Numbered("patches_", k - 1) \in NameFamilies[5] BY <3>1, Families
    <3> QED BY <2>2, <3>2, <3>3, Groot17BufferIs
  <2>5. patches = [k \in 1 .. m |-> patches[k]] BY <2>3
  <2>6. {"state", "noise"} \subseteq names
    <3>1. {"state", "noise"} \subseteq DOMAIN HeadTensors(N17) BY DEF HeadTensors
    <3> QED BY <2>2, <3>1, Groot17BufferIs, HeadBufferIs
  <2>7. others \in Seq(names) BY <2>6
  <2>8. Groot17Wire = patches \o others BY DEF Groot17Wire
  <2> HIDE DEF patches, others
  <2>9. patches \in Seq(names)
    <3>1. patches \in [1 .. m -> names] BY <2>4, <2>5
    <3> QED BY <3>1
  <2>10. Groot17Wire \in Seq(names) BY <2>7, <2>8, <2>9
  <2> QED BY <2>1, <2>2, <2>10 DEF ToSet
<1> QED BY <1>1, <1>2, <1>3, <1>4 DEF Policies

\* A bundle that validates, loads: whatever RuntimePlan.validate and PolicySpec.validate
\* let pass when a policy is registered or packed, Plan::Plan and SharedRunnerChain of the
\* server accept (plan.cpp, "the plan validator guarantees the sizes line up").
THEOREM ValidPlansLoad == Packed \subseteq Loaded
<1>1. ASSUME NEW p \in Policies, Validates(p) PROVE Loads(p)
  BY <1>1, AllPlansSuit, WireHeld, ValidLoads
<1> QED BY <1>1 DEF Packed, Loaded
=============================================================================
