------------------------- MODULE PolicyServerProofs -------------------------
(***************************************************************************)
(* Every request a policy server answers is computed as though it were the *)
(* only one: for any plans that are complete by themselves (PlanTrace),    *)
(* any number of connections and of request ids, any backlog, and every    *)
(* order of signals, kills, restarts, clients that give up and ELFs that   *)
(* return garbage.                                                         *)
(***************************************************************************)
EXTENDS PolicyServer, PlanProofs, SequenceTheorems

ServerType == [at: Points, bundle: Policies \cup {None}, conn: Requests \cup {None},
               step: Nat, header: BOOLEAN]

Unconnected == {"down", "load", "test", "enter", "accept"}

\* The result of request q to a server of p.
IsOwn(q, result, p) ==
    \A i \in Indices(ResponseElements(p)) :
      /\ result[i].is = ExpectedResult(p, i)
      /\ result[i].of = {q}
      /\ result[i].finite

\* A connection the server has not closed.
Held(q) == conn[q].at # "new" /\ ~conn[q].shut

\* A value of request q is what it is in the run of one request alone.
SameFor(q, value, alone) ==
    /\ value.is = alone.is
    /\ value.of = IF "request" \in alone.of THEN {q} ELSE {}

\* The buffers before step k of p, of the request q: whatever q alone would have written,
\* and anything else where it has written nothing.
Matches(buffers, p, k, q) ==
    \A b \in DOMAIN Buffers[p] : \A i \in Indices(Buffers[p][b]) :
      Trace[p][k][b][i].is # Unset.is => SameFor(q, buffers[b][i], Trace[p][k][b][i])

SlotRead(buffers, p, b, q) ==
    \A i \in Indices(Buffers[p][b]) :
      buffers[b][i].of = {q} /\ buffers[b][i].is = OnWire(b, i)

------------------------------------------------------------------------------
(* The inductive invariant *)

ServerFits ==
    /\ server \in ServerType /\ running \in BOOLEAN
    /\ (server.bundle = None) <=> (server.at = "down")
    /\ (server.conn = None) <=> (server.at \in Unconnected)
    /\ server.at \notin {"down", "load"} => server.bundle \in Loaded
    /\ server.conn # None => Held(server.conn)
    /\ server.at \in {"slots", "execute", "reply", "result"} => Serving.asks = server.bundle

QueueFits ==
    /\ queue \in Seq(Requests) /\ Len(queue) <= Backlog
    /\ \A k \in DOMAIN queue :
         /\ Held(queue[k]) /\ queue[k] # server.conn
         /\ \A j \in DOMAIN queue : queue[j] = queue[k] => j = k

Fields == {"at", "asks", "id", "sick", "reply", "result", "shut"}

ClientFits(q, c) ==
    /\ DOMAIN c = Fields
    /\ c.at \in {"new", "open", "answered", "failed"} /\ c.shut \in BOOLEAN
    /\ c.at \notin {"new", "failed"} => c.asks \in Policies /\ c.id \in Ids
    /\ c.result # None => IsOwn(q, c.result, c.asks)
    /\ c.at = "answered" => c.result # None

ClientsFit ==
    /\ conn = [q \in Requests |-> conn[q]]
    /\ \A q \in Requests : ClientFits(q, conn[q])

BuffersFit ==
    /\ server.at \notin {"down", "load"} => FitsBuffers(data, server.bundle)
    /\ server.at = "slots" =>
         /\ server.step \in DOMAIN Wire[server.bundle]
         /\ \A k \in 1 .. server.step - 1 :
              SlotRead(data, server.bundle, Wire[server.bundle][k], server.conn)
    /\ server.at = "execute" =>
         /\ server.step \in 1 .. Len(Plan) + 1
         /\ Reached(server.bundle, server.step)
         /\ Matches(data, server.bundle, server.step, server.conn)
    /\ server.at \in {"reply", "result"} =>
         IsOwn(server.conn, data[Result[server.bundle]], server.bundle)

ServerInv == ServerFits /\ QueueFits /\ ClientsFit /\ BuffersFit

------------------------------------------------------------------------------
(* The interpreter *)

\* A move takes each element from one cell.
LEMMA MovesFromOne ==
  ASSUME NEW sizes, NEW s, Moves(s), NEW i \in DOMAIN Wiring(sizes, s)
  PROVE  Wiring(sizes, s)[i] # {}
<1>1. ~RunsElf(s) BY DEF RunsElf, Moves
<1>2. CASE s.op = "pack"
  <2>1. Wiring(sizes, s) = Pack(sizes, s) BY <1>1, <1>2 DEF Wiring
  <2> QED BY <2>1 DEF Pack
<1>3. CASE s.op = "slice"
  <2>1. Wiring(sizes, s) = Slice(sizes, s) BY <1>1, <1>3 DEF Wiring
  <2> QED BY <2>1 DEF Slice
<1>4. CASE s.op = "gather_strided"
  <2>1. Wiring(sizes, s) = GatherStrided(sizes, s) BY <1>1, <1>4 DEF Wiring
  <2> QED BY <2>1 DEF GatherStrided
<1>5. CASE s.op = "pixel_unshuffle"
  <2>1. Wiring(sizes, s) = PixelUnshuffle(sizes, s) BY <1>1, <1>5 DEF Wiring
  <2> QED BY <2>1 DEF PixelUnshuffle
<1> QED BY <1>2, <1>3, <1>4, <1>5 DEF Moves

\* What Flow says of a step: one that throws reads nothing.
LEMMA FlowAt ==
  ASSUME NEW p \in Policies, NEW k \in DOMAIN Steps[p]
  PROVE  /\ Flow[p][k].throws => Flow[p][k].reads = {}
         /\ ~Flow[p][k].throws => /\ Flow[p][k].wiring = Wiring(Storage[p], Steps[p][k])
                                  /\ Flow[p][k].reads = Reads(Storage[p], Steps[p][k])
<1> DEFINE s == Steps[p][k]
           f == Flow[p][k]
           throws == \/ Missing(Storage[p], s) \/ Overruns(Storage[p], s)
                     \/ RunsElf(s) /\ ~FillsLanes(p, s)
           w == Wiring(Storage[p], s)
           r == Reads(Storage[p], s)
<1>1. f = [wiring |-> IF throws THEN <<>> ELSE w, reads |-> IF throws THEN {} ELSE r,
           run |-> RunOf(Steps[p], k), throws |-> throws]
  BY DEF Flow
<1>2. throws \in BOOLEAN BY DEF RunsElf, Missing, Overruns
<1> HIDE DEF f, throws, w, r
<1>3. f.throws = throws /\ f.reads = (IF throws THEN {} ELSE r)
      /\ f.wiring = (IF throws THEN <<>> ELSE w)
  BY <1>1
<1>4. f.throws => f.reads = {} BY <1>3
<1>5. ~f.throws => f.wiring = w /\ f.reads = r BY <1>3
<1> QED BY <1>4, <1>5 DEF f, w, r

\* What a step that does not throw reads is all that its wiring names.
LEMMA FlowReads ==
  ASSUME NEW p \in Policies, NEW k \in DOMAIN Steps[p], ~Flow[p][k].throws
  PROVE  \A i \in DOMAIN Flow[p][k].wiring :
           /\ Flow[p][k].wiring[i] \subseteq Flow[p][k].reads
           /\ Moves(Steps[p][k]) => Flow[p][k].wiring[i] # {}
<1> DEFINE s == Steps[p][k]  w == Wiring(Storage[p], s)
<1>1. Flow[p][k].wiring = w /\ Flow[p][k].reads = Reads(Storage[p], s)
  BY FlowAt
<1>2. Moves(s) => \A i \in DOMAIN w : w[i] # {} BY MovesFromOne
<1>3. Reads(Storage[p], s) = UNION {w[i] : i \in DOMAIN w} BY DEF Reads
<1>4. PICK v : v = w OBVIOUS
<1>5. Flow[p][k].wiring = v /\ Flow[p][k].reads = UNION {v[j] : j \in DOMAIN v}
  BY <1>1, <1>3, <1>4
<1>6. Moves(Steps[p][k]) => \A i \in DOMAIN v : v[i] # {} BY <1>2, <1>4
<1> HIDE DEF w, s
<1>7. \A i \in DOMAIN v : v[i] \subseteq UNION {v[j] : j \in DOMAIN v} BY Zenon
<1> QED BY <1>5, <1>6, <1>7

\* The plans that load.
LEMMA LoadedPlans ==
  ASSUME NEW p \in Loaded
  PROVE  /\ p \in Policies /\ Complete(p) /\ Result[p] \in DOMAIN Buffers[p]
         /\ \A k \in DOMAIN Steps[p] : Steps[p][k].out \in DOMAIN Buffers[p]
         /\ Len(Steps[p]) \in Nat /\ DOMAIN Steps[p] = 1 .. Len(Steps[p])
         /\ Len(Wire[p]) \in Nat \ {0} /\ DOMAIN Wire[p] = 1 .. Len(Wire[p])
         /\ \A k \in DOMAIN Wire[p] : Wire[p][k] \in DOMAIN Buffers[p]
         /\ \A b : b \in ToSet(Wire[p]) <=> \E k \in DOMAIN Wire[p] : Wire[p][k] = b
<1>1. p \in Policies /\ Loads(p) /\ Complete(p) BY PlansAssumption DEF Loaded
<1>2. Steps[p] \in Seq(ToSet(Steps[p])) /\ Wire[p] \in Seq(DOMAIN Buffers[p]) /\ Wire[p] # <<>>
  BY <1>1 DEF Complete
<1>3. Len(Steps[p]) \in Nat /\ DOMAIN Steps[p] = 1 .. Len(Steps[p])
  BY <1>2, LenProperties
<1>4. Len(Wire[p]) \in Nat /\ DOMAIN Wire[p] = 1 .. Len(Wire[p]) /\ Len(Wire[p]) # 0
  BY <1>2, LenProperties, EmptySeq
<1>5. \A k \in DOMAIN Wire[p] : Wire[p][k] \in DOMAIN Buffers[p]
  BY <1>2, <1>4, ElementOfSeq
<1>6. \A b : b \in ToSet(Wire[p]) <=> \E k \in DOMAIN Wire[p] : Wire[p][k] = b
  BY DEF ToSet
<1> QED BY <1>1, <1>3, <1>4, <1>5, <1>6 DEF Loads

\* The next run of one request alone.
LEMMA NextAlone ==
  ASSUME NEW p \in Loaded, NEW k \in DOMAIN Steps[p], Reached(p, k), ~Flow[p][k].throws
  PROVE  /\ Reached(p, k + 1)
         /\ FitsBuffers(Trace[p][k], p) /\ FitsBuffers(Trace[p][k + 1], p)
         /\ Trace[p][k + 1] =
              RunStep(Trace[p][k], Steps[p][k], Flow[p][k].run, Flow[p][k].wiring, TRUE)
         /\ \A cell \in Flow[p][k].reads : Present(Trace[p][k], cell)
<1>1. Len(Steps[p]) \in Nat /\ k \in 1 .. Len(Steps[p]) BY LoadedPlans
<1>2. \A j \in 1 .. (k + 1) - 1 : j \in 1 .. k - 1 \/ j = k BY <1>1
<1>3. Reached(p, k + 1) BY <1>2 DEF Reached
<1>4. k \in 1 .. Len(Steps[p]) + 1 /\ k + 1 \in 1 .. Len(Steps[p]) + 1 BY <1>1
<1>5. Complete(p) BY LoadedPlans
<1> QED BY <1>1, <1>3, <1>4, <1>5 DEF Complete, Performed

\* A cell that one request alone has written reads the same in a server.
LEMMA SameRead ==
  ASSUME NEW p, NEW k, NEW q, NEW buffers, FitsBuffers(buffers, p), FitsBuffers(Trace[p][k], p),
         Matches(buffers, p, k, q), NEW cell, Present(Trace[p][k], cell)
  PROVE  /\ SameFor(q, ReadCell(buffers, cell), ReadCell(Trace[p][k], cell))
         /\ ReadCell(buffers, cell).is # Unset.is
<1> DEFINE t == Trace[p][k]
<1>1. DOMAIN buffers = DOMAIN Buffers[p] /\ DOMAIN t = DOMAIN Buffers[p]
      /\ \A b \in DOMAIN Buffers[p] : DOMAIN t[b] = Indices(Buffers[p][b])
  BY DEF FitsBuffers
<1>2. CASE cell[1] \in DOMAIN Buffers[p]
  <2>1. cell[2] \in Indices(Buffers[p][cell[1]]) BY <1>1, <1>2 DEF Present
  <2>2. ReadCell(t, cell) = t[cell[1]][cell[2]] /\ ReadCell(buffers, cell) = buffers[cell[1]][cell[2]]
    BY <1>1, <1>2 DEF ReadCell
  <2>3. t[cell[1]][cell[2]].is # Unset.is BY <2>2 DEF Present
  <2>4. SameFor(q, buffers[cell[1]][cell[2]], t[cell[1]][cell[2]])
    BY <1>2, <2>1, <2>3 DEF Matches
  <2>5. buffers[cell[1]][cell[2]].is # Unset.is BY <2>3, <2>4 DEF SameFor
  <2> HIDE DEF t
  <2> QED BY <2>2, <2>4, <2>5 DEF t
<1>3. CASE cell[1] \notin DOMAIN Buffers[p]
  <2>1. ReadCell(t, cell) = Constant(cell) /\ ReadCell(buffers, cell) = Constant(cell)
    BY <1>1, <1>3 DEF ReadCell
  <2> HIDE DEF t
  <2>2. Constant(cell).of = {} BY DEF Constant
  <2>3. Constant(cell).is # Unset.is BY <2>1 DEF Present, t
  <2> QED BY <2>1, <2>2, <2>3 DEF SameFor, t
<1> QED BY <1>2, <1>3

\* What a step writes of a request is what it writes of that request alone.
LEMMA SameWritten ==
  ASSUME NEW p, NEW k, NEW q, NEW buffers, FitsBuffers(buffers, p), FitsBuffers(Trace[p][k], p),
         Matches(buffers, p, k, q), NEW s, NEW run, NEW i, NEW from,
         \A cell \in from : Present(Trace[p][k], cell), Moves(s) => from # {}
  PROVE  SameFor(q, Written(buffers, s, run, i, from, TRUE), Written(Trace[p][k], s, run, i, from, TRUE))
<1> DEFINE t == Trace[p][k]
<1>1. \A cell \in from : SameFor(q, ReadCell(buffers, cell), ReadCell(t, cell)) BY SameRead
<1> HIDE DEF t
<1>2. CASE Moves(s)
  <2>1. (CHOOSE cell \in from : TRUE) \in from BY <1>2
  <2> QED BY <1>1, <1>2, <2>1 DEF Written, t
<1>3. CASE ~Moves(s)
  <2> DEFINE v == Written(buffers, s, run, i, from, TRUE)
             a == Written(t, s, run, i, from, TRUE)
  <2>1. v.is = a.is BY <1>3 DEF Written
  <2>2. v.of = UNION {ReadCell(buffers, cell).of : cell \in from}
        /\ a.of = UNION {ReadCell(t, cell).of : cell \in from}
    BY <1>3 DEF Written
  <2> HIDE DEF v, a
  <2>3. \A cell \in from : ReadCell(buffers, cell).of = IF "request" \in ReadCell(t, cell).of THEN {q} ELSE {}
    BY <1>1 DEF SameFor
  <2>4. CASE "request" \in a.of
    <3>1. PICK cell \in from : "request" \in ReadCell(t, cell).of BY <2>2, <2>4
    <3>2. q \in v.of BY <2>2, <2>3, <3>1
    <3>3. \A x \in v.of : x = q BY <2>2, <2>3
    <3>4. v.of = {q} BY <3>2, <3>3
    <3> QED BY <2>1, <2>4, <3>4 DEF SameFor, v, a, t
  <2>5. CASE "request" \notin a.of
    <3>1. \A cell \in from : "request" \notin ReadCell(t, cell).of BY <2>2, <2>5
    <3>2. \A cell \in from : ReadCell(buffers, cell).of = {} BY <2>3, <3>1
    <3>3. v.of = {} BY <2>2, <3>2
    <3> QED BY <2>1, <2>5, <3>3 DEF SameFor, v, a, t
  <2> QED BY <2>4, <2>5
<1> QED BY <1>2, <1>3

\* Where a step writes, and that it leaves the sizes.
LEMMA RunStepIs ==
  ASSUME NEW p, NEW buffers, FitsBuffers(buffers, p), NEW s, s.out \in DOMAIN Buffers[p],
         NEW run, NEW wiring, NEW sound
  PROVE  /\ FitsBuffers(RunStep(buffers, s, run, wiring, sound), p)
         /\ \A b \in DOMAIN Buffers[p] : \A i \in Indices(Buffers[p][b]) :
              RunStep(buffers, s, run, wiring, sound)[b][i] =
                IF b = s.out /\ i \in DOMAIN wiring THEN Written(buffers, s, run, i, wiring[i], sound)
                ELSE buffers[b][i]
<1> DEFINE out == s.out
           new == [i \in DOMAIN buffers[out] |->
                     IF i \in DOMAIN wiring THEN Written(buffers, s, run, i, wiring[i], sound)
                     ELSE buffers[out][i]]
           r == RunStep(buffers, s, run, wiring, sound)
<1>1. r = [buffers EXCEPT ![out] = new] BY DEF RunStep
<1>2. DOMAIN new = DOMAIN buffers[out]
      /\ \A i \in DOMAIN new : new[i] = IF i \in DOMAIN wiring
                                         THEN Written(buffers, s, run, i, wiring[i], sound)
                                         ELSE buffers[out][i]
  OBVIOUS
<1>3. DOMAIN buffers = DOMAIN Buffers[p] /\ \A b \in DOMAIN buffers : DOMAIN buffers[b] = Indices(Buffers[p][b])
  BY DEF FitsBuffers
<1> HIDE DEF new, r
<1>4. DOMAIN r = DOMAIN buffers /\ r[out] = new /\ \A b \in DOMAIN buffers : b # out => r[b] = buffers[b]
  BY <1>1, <1>3 DEF out
<1> QED BY <1>2, <1>3, <1>4 DEF FitsBuffers, r, out

\* A step that does not fail takes a server from what the request had alone to what it
\* has alone after the step.
LEMMA StepMatches ==
  ASSUME NEW p \in Loaded, NEW k \in DOMAIN Steps[p], Reached(p, k), ~Flow[p][k].throws,
         NEW q, NEW buffers, FitsBuffers(buffers, p), Matches(buffers, p, k, q),
         NEW sound \in BOOLEAN, NEW after,
         after = RunStep(buffers, Steps[p][k], Flow[p][k].run, Flow[p][k].wiring, sound),
         sound \/ (RunsElf(Steps[p][k]) /\ Finite(after, Steps[p][k].out))
  PROVE  FitsBuffers(after, p) /\ Matches(after, p, k + 1, q)
<1> DEFINE s == Steps[p][k]
           run == Flow[p][k].run
           wiring == Flow[p][k].wiring
           t == Trace[p][k]
           u == Trace[p][k + 1]
<1>1. p \in Policies /\ s.out \in DOMAIN Buffers[p] BY LoadedPlans
<1>2. \A i \in DOMAIN wiring : (\A cell \in wiring[i] : Present(t, cell)) /\ (Moves(s) => wiring[i] # {})
  <2> SUFFICES ASSUME NEW i \in DOMAIN wiring
               PROVE  (\A cell \in wiring[i] : Present(t, cell)) /\ (Moves(s) => wiring[i] # {})
    OBVIOUS
  <2>1. \A cell \in Flow[p][k].reads : Present(t, cell) BY NextAlone
  <2>2. wiring[i] \subseteq Flow[p][k].reads /\ (Moves(s) => wiring[i] # {}) BY <1>1, FlowReads
  <2> HIDE DEF wiring, t, s
  <2> QED BY <2>1, <2>2
<1>3. FitsBuffers(t, p) /\ u = RunStep(t, s, run, wiring, TRUE) BY NextAlone
<1> HIDE DEF s, run, wiring, t, u
<1>4. after = RunStep(buffers, s, run, wiring, sound) BY DEF s, run, wiring
<1>5. /\ FitsBuffers(after, p)
      /\ \A b \in DOMAIN Buffers[p] : \A i \in Indices(Buffers[p][b]) :
           after[b][i] = IF b = s.out /\ i \in DOMAIN wiring
                         THEN Written(buffers, s, run, i, wiring[i], sound) ELSE buffers[b][i]
  BY <1>1, <1>4, RunStepIs
<1>6. \A b \in DOMAIN Buffers[p] : \A i \in Indices(Buffers[p][b]) :
        u[b][i] = IF b = s.out /\ i \in DOMAIN wiring
                  THEN Written(t, s, run, i, wiring[i], TRUE) ELSE t[b][i]
  <2>1. PICK yes : yes = TRUE OBVIOUS
  <2>2. u = RunStep(t, s, run, wiring, yes) BY <1>3, <2>1
  <2>3. FitsBuffers(t, p) /\ s.out \in DOMAIN Buffers[p] BY <1>1, <1>3
  <2>4. \A b \in DOMAIN Buffers[p] : \A i \in Indices(Buffers[p][b]) :
          u[b][i] = IF b = s.out /\ i \in DOMAIN wiring
                    THEN Written(t, s, run, i, wiring[i], yes) ELSE t[b][i]
    BY <2>2, <2>3, RunStepIs
  <2> QED BY <2>1, <2>4
<1>7. ASSUME NEW b \in DOMAIN Buffers[p], NEW i \in Indices(Buffers[p][b]), u[b][i].is # Unset.is
      PROVE  SameFor(q, after[b][i], u[b][i])
  <2>1. CASE ~(b = s.out /\ i \in DOMAIN wiring)
    <3>1. after[b][i] = buffers[b][i] /\ u[b][i] = t[b][i] BY <1>5, <1>6, <2>1
    <3> QED BY <1>7, <3>1 DEF Matches, t
  <2>2. CASE b = s.out /\ i \in DOMAIN wiring
    <3>1. after[b][i] = Written(buffers, s, run, i, wiring[i], sound) BY <1>5, <2>2
    <3>2. u[b][i] = Written(t, s, run, i, wiring[i], TRUE) BY <1>6, <2>2
    <3>3. CASE sound
      <4>1. after[b][i] = Written(buffers, s, run, i, wiring[i], TRUE) BY <3>1, <3>3
      <4>2. SameFor(q, Written(buffers, s, run, i, wiring[i], TRUE), Written(t, s, run, i, wiring[i], TRUE))
        BY <1>2, <1>3, <2>2, SameWritten DEF t
      <4> QED BY <3>2, <4>1, <4>2
    <3>4. CASE ~sound
      <4>1. RunsElf(s) /\ Finite(after, s.out) BY <3>4 DEF s
      <4>2. ~Moves(s) BY <4>1 DEF RunsElf, Moves
      <4>3. ~after[b][i].finite BY <3>1, <3>4, <4>1, <4>2 DEF Written
      <4>4. i \in DOMAIN after[s.out] BY <1>1, <1>5, <2>2 DEF FitsBuffers
      <4> QED BY <2>2, <4>1, <4>3, <4>4 DEF Finite
    <3> QED BY <3>3, <3>4
  <2> QED BY <2>1, <2>2
<1> QED BY <1>5, <1>7 DEF Matches, u

------------------------------------------------------------------------------
(* The clients' connections *)

LEMMA FreshFits == ASSUME NEW q PROVE ClientFits(q, NoRequest) /\ ClientFits(q, Lost)
<1>1. DOMAIN Lost = Fields /\ Lost.at = "failed" /\ Lost.shut = TRUE /\ Lost.result = None
  BY DEF Lost, NoRequest, Fields
<1>2. /\ DOMAIN NoRequest = Fields /\ NoRequest.at = "new" /\ NoRequest.shut = FALSE
      /\ NoRequest.result = None
  BY DEF NoRequest, Fields
<1> QED BY <1>1, <1>2 DEF ClientFits

LEMMA RequestFits ==
  ASSUME NEW q, NEW p \in Policies, NEW id \in Ids, NEW sick
  PROVE  /\ ClientFits(q, Request(p, id, sick))
         /\ Request(p, id, sick).at = "open" /\ ~Request(p, id, sick).shut
<1> DEFINE c == Request(p, id, sick)
<1>1. /\ DOMAIN c = Fields /\ c.at = "open" /\ c.asks = p /\ c.id = id
      /\ c.result = None /\ c.shut = FALSE
  BY DEF Request, NoRequest, Fields
<1> HIDE DEF c
<1>2. ClientFits(q, c) /\ c.at = "open" /\ ~c.shut BY <1>1 DEF ClientFits
<1> QED BY <1>2 DEF c

\* When one end closes after the other nothing is left of a request that failed.
LEMMA ShutFits ==
  ASSUME NEW q, NEW c, ClientFits(q, c), c.at # "new" PROVE ClientFits(q, ShutBy(c))
<1>1. CASE c.at = "failed" BY <1>1, FreshFits DEF ShutBy
<1>2. CASE c.at # "failed"
  <2> DEFINE d == [c EXCEPT !.shut = TRUE]
  <2>1. /\ DOMAIN d = Fields /\ d.at = c.at /\ d.asks = c.asks /\ d.id = c.id
        /\ d.result = c.result /\ d.shut = TRUE
    BY DEF ClientFits, Fields
  <2>2. d = ShutBy(c) BY <1>2 DEF ShutBy
  <2> HIDE DEF d
  <2>3. ClientFits(q, d) BY <2>1 DEF ClientFits
  <2> QED BY <2>2, <2>3
<1> QED BY <1>1, <1>2

LEMMA FailedFits ==
  ASSUME NEW q, NEW c, ClientFits(q, c)
  PROVE  /\ ClientFits(q, FailedBy(c)) /\ FailedBy(c).at = "failed"
         /\ ~c.shut => FailedBy(c).asks = c.asks /\ ~FailedBy(c).shut
<1>1. CASE c.shut
  <2>1. FailedBy(c) = Lost BY <1>1 DEF FailedBy
  <2> QED BY <1>1, <2>1, FreshFits DEF Lost, NoRequest
<1>2. CASE ~c.shut
  <2> DEFINE d == [c EXCEPT !.at = "failed"]
  <2>1. /\ DOMAIN d = Fields /\ d.at = "failed" /\ d.asks = c.asks
        /\ d.result = c.result /\ d.shut = c.shut
    BY DEF ClientFits, Fields
  <2>2. d = FailedBy(c) BY <1>2 DEF FailedBy
  <2> HIDE DEF d
  <2>3. ClientFits(q, d) /\ d.at = "failed" /\ d.asks = c.asks /\ d.shut = c.shut
    BY <2>1 DEF ClientFits
  <2> QED BY <1>2, <2>2, <2>3
<1> QED BY <1>1, <1>2

\* A client that has its answer, or has a header or the result sent to it.
LEMMA AnsweredFits ==
  ASSUME NEW q, NEW c, ClientFits(q, c), c.at = "open", c.result # None
  PROVE  LET d == [c EXCEPT !.at = "answered"]
         IN  ClientFits(q, d) /\ d.at = "answered" /\ d.asks = c.asks /\ d.shut = c.shut
<1> DEFINE d == [c EXCEPT !.at = "answered"]
<1>1. /\ DOMAIN d = Fields /\ d.at = "answered" /\ d.asks = c.asks /\ d.id = c.id
      /\ d.result = c.result /\ d.shut = c.shut
  BY DEF ClientFits, Fields
<1> HIDE DEF d
<1>2. ClientFits(q, d) /\ d.at = "answered" /\ d.asks = c.asks /\ d.shut = c.shut
  BY <1>1 DEF ClientFits
<1> QED BY <1>2 DEF d

LEMMA ReplyFits ==
  ASSUME NEW q, NEW c, ClientFits(q, c), NEW what, NEW d, d = [c EXCEPT !.reply = what]
  PROVE  ClientFits(q, d) /\ d.at = c.at /\ d.asks = c.asks /\ d.shut = c.shut
<1>1. /\ DOMAIN d = Fields /\ d.at = c.at /\ d.asks = c.asks /\ d.id = c.id
      /\ d.result = c.result /\ d.shut = c.shut
  BY DEF ClientFits, Fields
<1> QED BY <1>1 DEF ClientFits

LEMMA ResultFits ==
  ASSUME NEW q, NEW c, ClientFits(q, c), c.at = "open", NEW what, IsOwn(q, what, c.asks),
         NEW d, d = [c EXCEPT !.result = what]
  PROVE  ClientFits(q, d) /\ d.at = c.at /\ d.asks = c.asks /\ d.shut = c.shut
<1>1. /\ DOMAIN d = Fields /\ d.at = c.at /\ d.asks = c.asks /\ d.id = c.id
      /\ d.result = what /\ d.shut = c.shut
  BY DEF ClientFits, Fields
<1>2. IsOwn(q, d.result, d.asks) BY <1>1
<1> QED BY <1>1, <1>2 DEF ClientFits

\* One connection changes.
LEMMA OneClient ==
  ASSUME ClientsFit, NEW q \in Requests, NEW c, ClientFits(q, c), conn' = [conn EXCEPT ![q] = c]
  PROVE  ClientsFit' /\ conn'[q] = c /\ \A r \in Requests : r # q => conn'[r] = conn[r]
<1>1. DOMAIN conn = Requests BY DEF ClientsFit
<1>2. conn' = [r \in Requests |-> IF r = q THEN c ELSE conn[r]] BY <1>1
<1>3. conn' = [r \in Requests |-> conn'[r]] /\ conn'[q] = c
      /\ \A r \in Requests : r # q => conn'[r] = conn[r]
  BY <1>2
<1> QED BY <1>3 DEF ClientsFit

LEMMA ClientsKept == ASSUME ClientsFit, conn' = conn PROVE ClientsFit'
  BY DEF ClientsFit

LEMMA QueueKept ==
  ASSUME QueueFits, queue' = queue, server'.conn \in {server.conn, None},
         \A q \in Requests : q # server.conn /\ Held(q) => Held(q)'
  PROVE  QueueFits'
<1>1. DOMAIN queue = 1 .. Len(queue) /\ \A k \in DOMAIN queue : queue[k] \in Requests
  BY LenProperties, ElementOfSeq DEF QueueFits
<1>2. \A k \in DOMAIN queue : queue[k] # server'.conn BY <1>1, ServerAssumption DEF QueueFits
<1>3. \A k \in DOMAIN queue : conn'[queue[k]].at # "new" /\ ~conn'[queue[k]].shut
  BY <1>1 DEF QueueFits, Held
<1> QED BY <1>2, <1>3 DEF QueueFits, Held

------------------------------------------------------------------------------
(* The server's steps *)

LEMMA Moved ==
  ASSUME server \in ServerType, NEW point \in Points, Goto(point)
  PROVE  /\ server' \in ServerType /\ server'.at = point
         /\ server'.bundle = server.bundle /\ server'.conn = server.conn
         /\ server'.step = server.step /\ server'.header = server.header
  BY DEF Goto, ServerType

\* The buffers are left alone and nothing more is said of what is in them.
LEMMA BuffersKept ==
  ASSUME BuffersFit, server.at \notin {"down", "load"}, data' = data,
         server'.bundle = server.bundle,
         server'.at \notin {"slots", "execute", "reply", "result"}
  PROVE  BuffersFit'
  BY DEF BuffersFit

LEMMA BuffersUnchanged == ASSUME BuffersFit, data' = data, server' = server PROVE BuffersFit'
  BY DEF BuffersFit, Plan

\* The process goes, and with it every connection.
LEMMA GoneStep == ASSUME ServerInv, Gone PROVE ServerInv'
<1>1. /\ server' = [at |-> "down", bundle |-> None, conn |-> None, step |-> 0, header |-> FALSE]
      /\ running' = FALSE /\ queue' = <<>>
      /\ conn' = [q \in Requests |-> IF conn[q].at = "new" THEN conn[q] ELSE ShutBy(conn[q])]
  BY DEF Gone, Down
<1>2. ServerFits' BY <1>1 DEF ServerFits, ServerType, Points, Unconnected
<1>3. QueueFits'
  <2>1. queue' \in Seq(Requests) /\ Len(queue') = 0 /\ DOMAIN queue' = {} BY <1>1
  <2> QED BY <2>1, ServerAssumption DEF QueueFits
<1>4. ClientsFit'
  <2>1. conn' = [q \in Requests |-> conn'[q]] BY <1>1
  <2>2. ASSUME NEW q \in Requests PROVE ClientFits(q, conn'[q])
    <3>1. ClientFits(q, conn[q]) BY DEF ServerInv, ClientsFit
    <3>2. conn'[q] = IF conn[q].at = "new" THEN conn[q] ELSE ShutBy(conn[q]) BY <1>1
    <3> QED BY <3>1, <3>2, ShutFits
  <2> QED BY <2>1, <2>2 DEF ClientsFit
<1>5. BuffersFit' BY <1>1 DEF BuffersFit
<1> QED BY <1>2, <1>3, <1>4, <1>5 DEF ServerInv

LEMMA StartStep == ASSUME ServerInv, NEW bundle \in Policies, Start(bundle) PROVE ServerInv'
<1>1. /\ server' = [at |-> "load", bundle |-> bundle, conn |-> None, step |-> 0, header |-> FALSE]
      /\ running' = TRUE /\ data' = data /\ queue' = queue /\ conn' = conn
      /\ server.at = "down"
  BY DEF Start, Down
<1>2. ServerFits'
  BY <1>1, ServerAssumption DEF ServerFits, ServerType, Points, Unconnected
<1>3. QueueFits'
  <2>1. \A q \in Requests : Held(q) => Held(q)' BY <1>1 DEF Held
  <2> QED BY <1>1, <2>1, QueueKept DEF ServerInv
<1>4. BuffersFit' BY <1>1 DEF BuffersFit
<1> QED BY <1>1, <1>2, <1>3, <1>4, ClientsKept DEF ServerInv

LEMMA LoadStep == ASSUME ServerInv, Load PROVE ServerInv'
<1>1. CASE server.bundle \notin Loaded BY <1>1, GoneStep DEF Load
<1>2. CASE server.bundle \in Loaded
  <2>1. /\ Goto("test") /\ running' = running /\ queue' = queue /\ conn' = conn
        /\ data' = [b \in DOMAIN Sizes |-> [i \in Indices(Sizes[b]) |-> Unset]]
        /\ server.at = "load"
    BY <1>2 DEF Load
  <2>2. server' \in ServerType /\ server'.at = "test" /\ server'.bundle = server.bundle
        /\ server'.conn = server.conn
    BY <2>1, Moved DEF ServerInv, ServerFits, Points
  <2>3. ServerFits'
    BY <1>2, <2>1, <2>2 DEF ServerInv, ServerFits, Unconnected
  <2>4. QueueFits'
    <3>1. \A q \in Requests : Held(q) => Held(q)' BY <2>1 DEF Held
    <3> QED BY <2>1, <2>2, <3>1, QueueKept DEF ServerInv
  <2>5. FitsBuffers(data', server.bundle) BY <2>1 DEF FitsBuffers, Sizes
  <2>6. BuffersFit' BY <2>2, <2>5 DEF BuffersFit
  <2> QED BY <2>1, <2>3, <2>4, <2>6, ClientsKept DEF ServerInv
<1> QED BY <1>1, <1>2

\* The steps that only go on to another point, or to an end.
LEMMA GotoStep ==
  ASSUME ServerInv, NEW point \in Points \ {"down", "load", "slots", "execute", "reply", "result"},
         Goto(point), server.at \notin {"down", "load"},
         point \in Unconnected <=> server.at \in Unconnected,
         running' \in BOOLEAN, UNCHANGED <<data, queue, conn>>
  PROVE  ServerInv'
<1>1. server' \in ServerType /\ server'.at = point /\ server'.bundle = server.bundle
      /\ server'.conn = server.conn
  BY Moved DEF ServerInv, ServerFits
<1>2. data' = data /\ queue' = queue /\ conn' = conn OBVIOUS
<1>3. ServerFits' BY <1>1, <1>2 DEF ServerInv, ServerFits, Held
<1>4. QueueFits'
  <2>1. \A q \in Requests : Held(q) => Held(q)' BY <1>2 DEF Held
  <2> QED BY <1>1, <1>2, <2>1, QueueKept DEF ServerInv
<1>5. BuffersFit' BY <1>1, <1>2, BuffersKept DEF ServerInv
<1> QED BY <1>2, <1>3, <1>4, <1>5, ClientsKept DEF ServerInv

\* Nothing changes but the flag.
LEMMA FlagStep ==
  ASSUME ServerInv, server' = server, running' \in BOOLEAN, UNCHANGED <<data, queue, conn>>
  PROVE  ServerInv'
<1>1. data' = data /\ queue' = queue /\ conn' = conn OBVIOUS
<1>2. ServerFits' BY <1>1 DEF ServerInv, ServerFits, Held, Serving
<1>3. QueueFits' BY <1>1 DEF ServerInv, QueueFits, Held
<1> QED BY <1>1, <1>2, <1>3, ClientsKept, BuffersUnchanged DEF ServerInv

LEMMA SignalStep == ASSUME ServerInv, Signal PROVE ServerInv'
<1>1. running' \in BOOLEAN /\ UNCHANGED <<data, queue, conn>> /\ server.at \notin {"down", "load"}
  BY DEF Signal
<1>2. CASE server' = server BY <1>1, <1>2, FlagStep
<1>3. CASE server.at = "accept" /\ Goto("test")
  BY <1>1, <1>3, GotoStep DEF Points, Unconnected
<1>4. CASE server.at \in {"header", "slots"} /\ Goto("error")
  BY <1>1, <1>4, GotoStep DEF Points, Unconnected
<1> QED BY <1>2, <1>3, <1>4 DEF Signal

LEMMA TestStep == ASSUME ServerInv, Test PROVE ServerInv'
<1>1. CASE running /\ Goto("enter") /\ UNCHANGED <<running, data, queue, conn>>
  <2>1. running' \in BOOLEAN BY <1>1 DEF ServerInv, ServerFits
  <2> QED BY <1>1, <2>1, GotoStep DEF Test, Points, Unconnected
<1>2. CASE Gone BY <1>2, GoneStep
<1> QED BY <1>1, <1>2 DEF Test

LEMMA BlockStep == ASSUME ServerInv, Block PROVE ServerInv'
<1>1. running' \in BOOLEAN BY DEF Block, ServerInv, ServerFits
<1> QED BY <1>1, GotoStep DEF Block, Points, Unconnected

LEMMA AcceptStep == ASSUME ServerInv, Accept PROVE ServerInv'
<1> DEFINE head == Head(queue)  rest == Tail(queue)  n == Len(queue)
<1>1. /\ server.at \in {"enter", "accept"} /\ queue # <<>> /\ running' = running
      /\ server' = [server EXCEPT !.at = "header", !.conn = head, !.header = FALSE]
      /\ queue' = rest /\ data' = data /\ conn' = conn
  BY DEF Accept
<1>2. queue \in Seq(Requests) BY DEF ServerInv, QueueFits
<1>3. /\ head \in Requests /\ head = queue[1] /\ rest \in Seq(Requests) /\ Len(rest) = n - 1
      /\ n \in Nat \ {0} /\ DOMAIN queue = 1 .. n /\ DOMAIN rest = 1 .. n - 1
      /\ \A k \in 1 .. n - 1 : rest[k] = queue[k + 1]
  BY <1>1, <1>2, HeadTailProperties, LenProperties, EmptySeq
<1> HIDE DEF head, rest, n
<1>4. Held(head) /\ head # None
  BY <1>3, ServerAssumption DEF ServerInv, QueueFits
<1>5. /\ server' \in ServerType /\ server'.at = "header" /\ server'.conn = head
      /\ server'.bundle = server.bundle
  BY <1>1, <1>3 DEF ServerInv, ServerFits, ServerType, Points
<1>6. ServerFits'
  BY <1>1, <1>4, <1>5 DEF ServerInv, ServerFits, Unconnected, Held
<1>7. QueueFits'
  <2>1. Len(rest) <= Backlog
    BY <1>3, ServerAssumption DEF ServerInv, QueueFits, n
  <2>2. ASSUME NEW k \in 1 .. n - 1
        PROVE  /\ Held(rest[k]) /\ rest[k] # head
               /\ \A j \in 1 .. n - 1 : rest[j] = rest[k] => j = k
    <3>1. k + 1 \in 1 .. n /\ 1 \in 1 .. n /\ k + 1 # 1 BY <1>3
    <3>2. Held(queue[k + 1]) /\ queue[k + 1] # queue[1]
      BY <1>3, <3>1 DEF ServerInv, QueueFits
    <3>3. ASSUME NEW j \in 1 .. n - 1, rest[j] = rest[k] PROVE j = k
      <4>1. j + 1 \in 1 .. n /\ queue[j + 1] = queue[k + 1] BY <1>3, <3>3
      <4>2. j + 1 = k + 1 BY <1>3, <3>1, <4>1 DEF ServerInv, QueueFits
      <4> QED BY <1>3, <4>2
    <3> QED BY <1>3, <3>2, <3>3
  <2> QED BY <1>1, <1>3, <1>5, <2>1, <2>2 DEF QueueFits, Held
<1>8. BuffersFit' BY <1>1, <1>5, BuffersKept DEF ServerInv
<1> QED BY <1>1, <1>6, <1>7, <1>8, ClientsKept DEF ServerInv

LEMMA ReadHeaderStep == ASSUME ServerInv, ReadHeader PROVE ServerInv'
<1> DEFINE next == IF Serving.asks = server.bundle THEN "slots" ELSE "error"
<1>1. /\ server.at = "header" /\ running' = running /\ data' = data /\ queue' = queue /\ conn' = conn
      /\ server' = [server EXCEPT !.header = TRUE, !.step = 1, !.at = next]
  BY DEF ReadHeader
<1>2. /\ server' \in ServerType /\ server'.at = next /\ server'.conn = server.conn
      /\ server'.bundle = server.bundle /\ server'.step = 1
  BY <1>1 DEF ServerInv, ServerFits, ServerType, Points
<1>3. ServerFits' BY <1>1, <1>2 DEF ServerInv, ServerFits, Unconnected, Held, Serving
<1>4. QueueFits'
  <2>1. \A q \in Requests : Held(q) => Held(q)' BY <1>1 DEF Held
  <2> QED BY <1>1, <1>2, <2>1, QueueKept DEF ServerInv
<1>5. BuffersFit'
  <2>1. server.bundle \in Loaded /\ FitsBuffers(data, server.bundle)
    BY <1>1 DEF ServerInv, ServerFits, BuffersFit
  <2>2. 1 \in DOMAIN Wire[server.bundle] BY <2>1, LoadedPlans
  <2> QED BY <1>1, <1>2, <2>1, <2>2 DEF BuffersFit
<1> QED BY <1>1, <1>3, <1>4, <1>5, ClientsKept DEF ServerInv

\* What a read leaves in the buffers.
LEMMA ReceivedIs ==
  ASSUME NEW p, FitsBuffers(data, p), NEW b \in DOMAIN Buffers[p], NEW n
  PROVE  /\ FitsBuffers(Received(b, n), p)
         /\ \A c \in DOMAIN Buffers[p] : \A i \in Indices(Buffers[p][c]) :
              /\ c # b => Received(b, n)[c][i] = data[c][i]
              /\ c = b /\ i < n => /\ Received(b, n)[c][i].of = {server.conn}
                                   /\ Received(b, n)[c][i].is = OnWire(b, i)
<1> DEFINE new == [i \in DOMAIN data[b] |->
                     IF i < n THEN [of |-> {server.conn}, is |-> OnWire(b, i), finite |-> ~Serving.sick]
                     ELSE data[b][i]]
           r == Received(b, n)
<1>1. r = [data EXCEPT ![b] = new] BY DEF Received
<1>2. DOMAIN new = DOMAIN data[b]
      /\ \A i \in DOMAIN new : i < n => new[i].of = {server.conn} /\ new[i].is = OnWire(b, i)
  OBVIOUS
<1>3. DOMAIN data = DOMAIN Buffers[p] /\ \A c \in DOMAIN data : DOMAIN data[c] = Indices(Buffers[p][c])
  BY DEF FitsBuffers
<1> HIDE DEF new, r
<1>4. DOMAIN r = DOMAIN data /\ r[b] = new /\ \A c \in DOMAIN data : c # b => r[c] = data[c]
  BY <1>1, <1>3
<1> QED BY <1>2, <1>3, <1>4 DEF FitsBuffers, r

\* Each tensor that has been read is the request's; after the last the buffers are what
\* they are when the request is alone.
LEMMA ReadSlotStep == ASSUME ServerInv, ReadSlot PROVE ServerInv'
<1> DEFINE p == server.bundle
           slot == Wire[p][server.step]
           last == server.step = Len(Wire[p])
           next == IF last THEN "execute" ELSE "slots"
           step == IF last THEN 1 ELSE server.step + 1
<1>1. /\ server.at = "slots" /\ running' = running /\ queue' = queue /\ conn' = conn
      /\ data' = Received(slot, Buffers[p][slot])
      /\ server' = [server EXCEPT !.at = next, !.step = step]
  BY DEF ReadSlot, Sizes
<1>2. /\ p \in Loaded /\ FitsBuffers(data, p) /\ server.step \in DOMAIN Wire[p]
      /\ \A k \in 1 .. server.step - 1 : SlotRead(data, p, Wire[p][k], server.conn)
  BY <1>1 DEF ServerInv, ServerFits, BuffersFit
<1>3. /\ slot \in DOMAIN Buffers[p] /\ DOMAIN Wire[p] = 1 .. Len(Wire[p]) /\ Len(Wire[p]) \in Nat
      /\ \A k \in DOMAIN Wire[p] : Wire[p][k] \in DOMAIN Buffers[p]
      /\ Complete(p) /\ Len(Steps[p]) \in Nat
  BY <1>2, LoadedPlans
<1>4. step \in Nat BY <1>2, <1>3
<1>5. /\ server' \in ServerType /\ server'.at = next /\ server'.conn = server.conn
      /\ server'.bundle = p /\ server'.step = step
  BY <1>1, <1>4 DEF ServerInv, ServerFits, ServerType, Points
<1>6. ServerFits' BY <1>1, <1>5 DEF ServerInv, ServerFits, Unconnected, Held, Serving
<1>7. QueueFits'
  <2>1. \A q \in Requests : Held(q) => Held(q)' BY <1>1 DEF Held
  <2> QED BY <1>1, <1>5, <2>1, QueueKept DEF ServerInv
<1>8. /\ FitsBuffers(data', p)
      /\ \A c \in DOMAIN Buffers[p] : \A i \in Indices(Buffers[p][c]) :
           /\ c # slot => data'[c][i] = data[c][i]
           /\ c = slot /\ i < Buffers[p][slot] => /\ data'[c][i].of = {server.conn}
                                                /\ data'[c][i].is = OnWire(slot, i)
  <2> DEFINE n == Buffers[p][slot]
  <2>1. FitsBuffers(data, p) /\ slot \in DOMAIN Buffers[p] /\ data' = Received(slot, n)
    BY <1>1, <1>2, <1>3
  <2> HIDE DEF slot, n
  <2>2. /\ FitsBuffers(data', p)
        /\ \A c \in DOMAIN Buffers[p] : \A i \in Indices(Buffers[p][c]) :
             /\ c # slot => data'[c][i] = data[c][i]
             /\ c = slot /\ i < n => /\ data'[c][i].of = {server.conn}
                                    /\ data'[c][i].is = OnWire(slot, i)
    BY <2>1, ReceivedIs
  <2> QED BY <2>2 DEF n
<1>9. \A i \in Indices(Buffers[p][slot]) : i < Buffers[p][slot]
  <2>1. Buffers[p][slot] \in Nat BY <1>3, SMTT(20) DEF Complete
  <2> QED BY <2>1 DEF Indices
<1> HIDE DEF slot
<1>10. SlotRead(data', p, slot, server.conn) BY <1>3, <1>8, <1>9, SMTT(20) DEF SlotRead, slot
<1>11. ASSUME NEW k \in 1 .. server.step PROVE SlotRead(data', p, Wire[p][k], server.conn)
  <2>1. CASE Wire[p][k] = slot BY <1>10, <2>1
  <2>2. CASE Wire[p][k] # slot
    <3>1. k \in 1 .. server.step - 1 /\ k \in DOMAIN Wire[p] BY <1>2, <1>3, <2>2 DEF slot
    <3>2. SlotRead(data, p, Wire[p][k], server.conn) BY <1>2, <3>1
    <3>3. PICK b : b = Wire[p][k] OBVIOUS
    <3>4. b \in DOMAIN Buffers[p] /\ b # slot /\ SlotRead(data, p, b, server.conn)
      BY <1>3, <2>2, <3>1, <3>2, <3>3
    <3>5. SlotRead(data', p, b, server.conn) BY <1>8, <3>4, SMTT(20) DEF SlotRead
    <3> QED BY <3>3, <3>5
  <2> QED BY <2>1, <2>2
<1>12. CASE ~last
  <2>1. server'.at = "slots" /\ server'.step = server.step + 1 BY <1>5, <1>12
  <2>2. server'.step \in DOMAIN Wire[p] BY <1>2, <1>3, <1>12, <2>1
  <2>3. \A k \in 1 .. server'.step - 1 : k \in 1 .. server.step BY <1>2, <1>3, <2>1
  <2> QED BY <1>1, <1>5, <1>6, <1>7, <1>8, <1>11, <2>1, <2>2, <2>3, ClientsKept
      DEF ServerInv, BuffersFit
<1>13. CASE last
  <2>1. server'.at = "execute" /\ server'.step = 1 BY <1>5, <1>13
  <2>2. Reached(p, 1) /\ 1 \in 1 .. Len(Steps[p]) + 1 BY <1>3 DEF Reached
  <2>3. Matches(data', p, 1, server.conn)
    <3>1. Trace[p][1] = Arrived(p) BY <1>3 DEF Complete
    <3>2. SUFFICES ASSUME NEW b \in DOMAIN Buffers[p], NEW i \in Indices(Buffers[p][b]),
                          Arrived(p)[b][i].is # Unset.is
                   PROVE  SameFor(server.conn, data'[b][i], Arrived(p)[b][i])
      BY <3>1 DEF Matches
    <3>3. Arrived(p)[b][i] = IF b \in ToSet(Wire[p])
                             THEN [of |-> {"request"}, is |-> OnWire(b, i), finite |-> TRUE]
                             ELSE Unset
      BY DEF Arrived
    <3>4. b \in ToSet(Wire[p]) BY <3>2, <3>3
    <3>5. PICK k \in DOMAIN Wire[p] : Wire[p][k] = b BY <1>2, <3>4, LoadedPlans
    <3>6. k \in 1 .. server.step BY <1>3, <1>13, <3>5
    <3>7. SlotRead(data', p, b, server.conn) BY <1>11, <3>5, <3>6
    <3>8. Arrived(p)[b][i].of = {"request"} /\ Arrived(p)[b][i].is = OnWire(b, i)
      BY <3>3, <3>4
    <3> QED BY <3>7, <3>8 DEF SlotRead, SameFor
  <2> QED BY <1>1, <1>5, <1>6, <1>7, <1>8, <2>1, <2>2, <2>3, ClientsKept
      DEF ServerInv, BuffersFit, Plan
<1> QED BY <1>12, <1>13

LEMMA ReadFailsStep == ASSUME ServerInv, ReadFails PROVE ServerInv'
<1>1. /\ server.at \in {"header", "slots"} /\ Goto("error") /\ running' = running
      /\ queue' = queue /\ conn' = conn
  BY DEF ReadFails
<1>2. server' \in ServerType /\ server'.at = "error" /\ server'.bundle = server.bundle
      /\ server'.conn = server.conn
  BY <1>1, Moved DEF ServerInv, ServerFits, Points
<1>3. ServerFits' BY <1>1, <1>2 DEF ServerInv, ServerFits, Unconnected, Held
<1>4. QueueFits'
  <2>1. \A q \in Requests : Held(q) => Held(q)' BY <1>1 DEF Held
  <2> QED BY <1>1, <1>2, <2>1, QueueKept DEF ServerInv
<1>5. FitsBuffers(data', server.bundle)
  <2>1. FitsBuffers(data, server.bundle) BY <1>1 DEF ServerInv, BuffersFit
  <2>2. CASE server.at = "header" BY <2>1, <2>2 DEF ReadFails
  <2>3. CASE server.at = "slots"
    <3>1. PICK n : data' = Received(Wire[server.bundle][server.step], n)
      BY <2>3 DEF ReadFails
    <3>2. server.bundle \in Loaded /\ server.step \in DOMAIN Wire[server.bundle]
      BY <2>3 DEF ServerInv, ServerFits, BuffersFit
    <3>3. Wire[server.bundle][server.step] \in DOMAIN Buffers[server.bundle] BY <3>2, LoadedPlans
    <3> QED BY <2>1, <3>1, <3>3, ReceivedIs
  <2> QED BY <1>1, <2>2, <2>3
<1>6. BuffersFit' BY <1>2, <1>5 DEF BuffersFit
<1> QED BY <1>1, <1>3, <1>4, <1>6, ClientsKept DEF ServerInv

\* What an interpreter's step leaves is the request's, or it fails.
LEMMA ExecuteStep == ASSUME ServerInv, Execute PROVE ServerInv'
<1> DEFINE p == server.bundle
           k == server.step
           s == Plan[k]
           f == Flow[p][k]
           q == server.conn
<1>1. server.at = "execute" /\ k <= Len(Plan) /\ running' = running /\ queue' = queue /\ conn' = conn
  BY DEF Execute
<1>2. /\ p \in Loaded /\ FitsBuffers(data, p) /\ k \in 1 .. Len(Plan) + 1
      /\ Reached(p, k) /\ Matches(data, p, k, q)
  BY <1>1 DEF ServerInv, ServerFits, BuffersFit
<1>3. Plan = Steps[p] /\ Len(Plan) \in Nat /\ k \in DOMAIN Steps[p] /\ k \in Nat /\ k + 1 \in 1 .. Len(Plan) + 1
  <2>1. Plan = Steps[p] BY DEF Plan
  <2>2. Len(Steps[p]) \in Nat /\ DOMAIN Steps[p] = 1 .. Len(Steps[p]) BY <1>2, LoadedPlans
  <2> QED BY <1>1, <1>2, <2>1, <2>2
<1>4. ASSUME server' = [server EXCEPT !.at = "error"] \/ server' = [server EXCEPT !.step = k + 1]
      PROVE  QueueFits' /\ ClientsFit' /\ ServerFits'
  <2>1. /\ server' \in ServerType /\ server'.bundle = p /\ server'.conn = q
        /\ server'.at \in {"error", "execute"}
    BY <1>1, <1>3, <1>4 DEF ServerInv, ServerFits, ServerType, Points
  <2>2. ServerFits' BY <1>1, <2>1 DEF ServerInv, ServerFits, Unconnected, Held, Serving
  <2>3. \A r \in Requests : Held(r) => Held(r)' BY <1>1 DEF Held
  <2> QED BY <1>1, <2>1, <2>2, <2>3, QueueKept, ClientsKept DEF ServerInv
<1>5. CASE f.throws
  <2>1. Goto("error") /\ data' = data BY <1>5 DEF Execute
  <2>2. server' = [server EXCEPT !.at = "error"] BY <2>1 DEF Goto
  <2>3. server'.at = "error" /\ server'.bundle = p
    BY <2>2 DEF ServerInv, ServerFits, ServerType
  <2>4. BuffersFit' BY <1>1, <2>1, <2>3, BuffersKept DEF ServerInv
  <2> QED BY <1>4, <2>2, <2>4 DEF ServerInv
<1>6. CASE ~f.throws
  <2>1. PICK sound \in BOOLEAN :
          /\ ~sound => RunsElf(s)
          /\ data' = RunStep(data, s, f.run, f.wiring, sound)
          /\ server' = IF RunsElf(s) /\ ~Finite(data', s.out)
                       THEN [server EXCEPT !.at = "error"] ELSE [server EXCEPT !.step = k + 1]
    BY <1>6 DEF Execute
  <2>2. s = Steps[p][k] BY <1>3
  <2>3. FitsBuffers(data', p)
    <3>1. s.out \in DOMAIN Buffers[p] BY <1>2, <1>3, <2>2, LoadedPlans
    <3> HIDE DEF s, f, p
    <3>2. \A run, wiring : FitsBuffers(RunStep(data, s, run, wiring, sound), p)
      BY <1>2, <3>1, RunStepIs
    <3> QED BY <2>1, <3>2
  <2>4. CASE RunsElf(s) /\ ~Finite(data', s.out)
    <3>1. server' = [server EXCEPT !.at = "error"] BY <2>1, <2>4
    <3>2. server'.at = "error" /\ server'.bundle = p
      BY <3>1 DEF ServerInv, ServerFits, ServerType
    <3>3. BuffersFit' BY <2>3, <3>2 DEF BuffersFit
    <3> QED BY <1>4, <3>1, <3>3 DEF ServerInv
  <2>5. CASE ~(RunsElf(s) /\ ~Finite(data', s.out))
    <3>1. server' = [server EXCEPT !.step = k + 1] BY <2>1, <2>5
    <3>2. server'.at = "execute" /\ server'.bundle = p /\ server'.step = k + 1 /\ server'.conn = q
      BY <1>1, <3>1 DEF ServerInv, ServerFits, ServerType
    <3>3. sound \/ (RunsElf(s) /\ Finite(data', s.out)) BY <2>1, <2>5
    <3>4. Matches(data', p, k + 1, q)
      BY <1>2, <1>3, <1>6, <2>1, <2>2, <3>3, StepMatches
    <3>5. Reached(p, k + 1)
      <4>1. \A j \in 1 .. (k + 1) - 1 : j \in 1 .. k - 1 \/ j = k BY <1>3
      <4> QED BY <1>2, <1>6, <4>1 DEF Reached
    <3>6. BuffersFit' BY <1>3, <2>3, <3>2, <3>4, <3>5 DEF BuffersFit, Plan
    <3> QED BY <1>4, <3>1, <3>6 DEF ServerInv
  <2> QED BY <2>4, <2>5
<1> QED BY <1>5, <1>6

\* The result of a plan that got to its end is the request's own.
LEMMA FinishStep == ASSUME ServerInv, Finish PROVE ServerInv'
<1> DEFINE p == server.bundle  q == server.conn  n == Len(Steps[p])  out == Result[p]
<1>1. /\ server.at = "execute" /\ server.step > Len(Plan) /\ UNCHANGED <<running, data, queue, conn>>
      /\ Goto(IF Finite(data, out) THEN "reply" ELSE "error")
  BY DEF Finish
<1>2. CASE ~Finite(data, out)
  <2>1. running' \in BOOLEAN BY <1>1 DEF ServerInv, ServerFits
  <2> QED BY <1>1, <1>2, <2>1, GotoStep DEF Points, Unconnected
<1>3. CASE Finite(data, out)
  <2>1. Goto("reply") /\ data' = data /\ queue' = queue /\ conn' = conn /\ running' = running
    BY <1>1, <1>3
  <2>2. server' \in ServerType /\ server'.at = "reply" /\ server'.bundle = p /\ server'.conn = q
    BY <2>1, Moved DEF ServerInv, ServerFits, Points
  <2>3. /\ p \in Loaded /\ FitsBuffers(data, p) /\ server.step \in 1 .. Len(Plan) + 1
        /\ Reached(p, server.step) /\ Matches(data, p, server.step, q)
    BY <1>1 DEF ServerInv, ServerFits, BuffersFit
  <2>4. n \in Nat /\ Complete(p) /\ out \in DOMAIN Buffers[p] BY <2>3, LoadedPlans
  <2>5. server.step = n + 1
    <3>1. PICK k, m : k = server.step /\ m = n OBVIOUS
    <3>2. m \in Nat /\ k > m /\ k \in 1 .. m + 1 BY <1>1, <2>3, <2>4, <3>1 DEF Plan
    <3>3. k = m + 1 BY <3>2
    <3> QED BY <3>1, <3>3
  <2>6. IsOwn(q, data[out], p)
    <3> SUFFICES ASSUME NEW i \in Indices(ResponseElements(p))
                 PROVE  /\ data[out][i].is = ExpectedResult(p, i) /\ data[out][i].of = {q}
                        /\ data[out][i].finite
      BY DEF IsOwn
    <3>1. Trace[p][n + 1][out][i] = [of |-> {"request"}, is |-> ExpectedResult(p, i), finite |-> TRUE]
      BY <2>3, <2>4, <2>5 DEF Complete
    <3>2. Trace[p][n + 1][out][i].of = {"request"} /\ Trace[p][n + 1][out][i].is = ExpectedResult(p, i)
      BY <3>1
    <3>3. ExpectedResult(p, i) # Unset.is
      <4>1. \A b, j : From(b, 1, j) # <<"unset", 0, 0>> BY DEF From
      <4> QED BY <4>1 DEF ExpectedResult, Unset
    <3>4. i \in Indices(Buffers[p][out]) BY DEF ResponseElements
    <3>5. SameFor(q, data[out][i], Trace[p][n + 1][out][i])
      BY <2>3, <2>4, <2>5, <3>2, <3>3, <3>4 DEF Matches
    <3>6. data[out][i].finite BY <1>3, <2>3, <2>4, <3>4 DEF Finite, FitsBuffers
    <3> QED BY <3>2, <3>5, <3>6 DEF SameFor
  <2>7. ServerFits' BY <1>1, <2>1, <2>2 DEF ServerInv, ServerFits, Unconnected, Held, Serving
  <2>8. QueueFits'
    <3>1. \A r \in Requests : Held(r) => Held(r)' BY <2>1 DEF Held
    <3> QED BY <2>1, <2>2, <3>1, QueueKept DEF ServerInv
  <2>9. BuffersFit' BY <2>1, <2>2, <2>3, <2>6 DEF BuffersFit
  <2> QED BY <2>1, <2>7, <2>8, <2>9, ClientsKept DEF ServerInv
<1> QED BY <1>2, <1>3

\* What is sent reaches a client that is still there.  The connection stays held, and its
\* request the same.
LEMMA SendStep ==
  ASSUME ServerInv, server.at \in {"reply", "result", "error"}, NEW c, ClientFits(server.conn, c),
         c.at # "new", c.asks = Serving.asks, ~c.shut,
         conn' = [conn EXCEPT ![server.conn] = c] \/ conn' = conn,
         NEW point \in {"result", "close", "error"}, Goto(point),
         point = "result" => server.at = "reply",
         UNCHANGED <<running, data, queue>>
  PROVE  ServerInv'
<1>1. PICK q \in Requests : q = server.conn /\ Held(q)
  BY DEF ServerInv, ServerFits, ServerType, Unconnected
<1>2. ClientsFit' /\ \A r \in Requests : r # q => conn'[r] = conn[r]
  BY <1>1, OneClient, ClientsKept DEF ServerInv
<1>3. conn'[q] = c \/ conn'[q] = conn[q] BY <1>1, OneClient DEF ServerInv
<1>4. conn'[q].at # "new" /\ ~conn'[q].shut /\ conn'[q].asks = conn[q].asks
  BY <1>1, <1>3 DEF Held, Serving
<1>5. /\ server' \in ServerType /\ server'.at = point /\ server'.bundle = server.bundle
      /\ server'.conn = q /\ data' = data /\ queue' = queue /\ running' = running
  BY <1>1, Moved DEF ServerInv, ServerFits, Points
<1>6. ServerFits'
  BY <1>1, <1>4, <1>5 DEF ServerInv, ServerFits, Unconnected, Held, Serving
<1>7. QueueFits'
  <2>1. \A r \in Requests : r # server.conn /\ Held(r) => Held(r)' BY <1>1, <1>2 DEF Held
  <2> QED BY <1>1, <1>5, <2>1, QueueKept DEF ServerInv
<1>8. BuffersFit' BY <1>1, <1>5 DEF ServerInv, BuffersFit
<1> QED BY <1>2, <1>6, <1>7, <1>8 DEF ServerInv

LEMMA ReplyStep == ASSUME ServerInv, Reply \/ SendResult \/ Fail PROVE ServerInv'
<1>1. PICK q \in Requests : q = server.conn
  BY DEF Reply, SendResult, Fail, ServerInv, ServerFits, ServerType, Unconnected
<1>2. PICK c : c = conn[q] OBVIOUS
<1>3. /\ server.at \in {"reply", "result", "error"} /\ UNCHANGED <<running, data, queue>>
      /\ c.at # "new" /\ ~c.shut /\ ClientFits(q, c) /\ ClientFits(server.conn, c)
      /\ c.asks = Serving.asks /\ Held(q)
  BY <1>1, <1>2 DEF Reply, SendResult, Fail, ServerInv, ServerFits, Unconnected, Held,
     ClientsFit, Serving
<1>4. ASSUME NEW what, NEW point \in {"result", "close", "error"}, Goto(point),
             point = "result" => server.at = "reply",
             conn' = [conn EXCEPT ![q].reply = what] \/ conn' = conn
      PROVE  ServerInv'
  <2>1. PICK d : d = [c EXCEPT !.reply = what] OBVIOUS
  <2>2. ClientFits(q, d) /\ d.at = c.at /\ d.asks = c.asks /\ d.shut = c.shut
    BY <1>3, <2>1, ReplyFits
  <2>3. conn' = [conn EXCEPT ![q] = d] \/ conn' = conn BY <1>2, <1>4, <2>1
  <2>4. /\ ClientFits(server.conn, d) /\ d.at # "new" /\ d.asks = Serving.asks /\ ~d.shut
        /\ conn' = [conn EXCEPT ![server.conn] = d] \/ conn' = conn
    BY <1>1, <1>3, <2>2, <2>3
  <2> QED BY <1>3, <1>4, <2>4, SendStep
<1>5. CASE Reply
  <2>1. PICK what : \/ /\ conn' = [conn EXCEPT ![q].reply = what] \/ conn' = conn
                       /\ Goto("result")
                    \/ conn' = conn /\ Goto("error")
    BY <1>1, <1>5 DEF Reply, Send
  <2>2. server.at = "reply" BY <1>5 DEF Reply
  <2> QED BY <1>4, <2>1, <2>2
<1>6. CASE Fail
  <2>1. PICK what : conn' = [conn EXCEPT ![q].reply = what] \/ conn' = conn
    BY <1>1, <1>6 DEF Fail
  <2>2. Goto("close") BY <1>6 DEF Fail
  <2> QED BY <1>4, <2>1, <2>2
<1>7. CASE SendResult
  <2>1. PICK what : what = data[Result[server.bundle]] OBVIOUS
  <2>2. /\ (c.at = "open" /\ conn' = [conn EXCEPT ![q].result = what]) \/ conn' = conn
        /\ Goto("close") \/ Goto("error")
    BY <1>1, <1>2, <1>7, <2>1 DEF SendResult, Send, Open
  <2>3. IsOwn(q, what, c.asks)
    BY <1>1, <1>3, <1>7, <2>1 DEF SendResult, ServerInv, ServerFits, BuffersFit
  <2>4. CASE c.at = "open" /\ conn' = [conn EXCEPT ![q].result = what]
    <3>1. PICK d : d = [c EXCEPT !.result = what] OBVIOUS
    <3>2. ClientFits(q, d) /\ d.at = c.at /\ d.asks = c.asks /\ d.shut = c.shut
      BY <1>3, <2>3, <2>4, <3>1, ResultFits
    <3>3. /\ ClientFits(server.conn, d) /\ d.at # "new" /\ d.asks = Serving.asks /\ ~d.shut
          /\ conn' = [conn EXCEPT ![server.conn] = d]
      BY <1>1, <1>2, <1>3, <2>4, <3>1, <3>2
    <3>4. CASE Goto("close") BY <1>3, <3>3, <3>4, SendStep
    <3>5. CASE Goto("error") BY <1>3, <3>3, <3>5, SendStep
    <3> QED BY <2>2, <3>4, <3>5
  <2>5. CASE conn' = conn
    <3>1. CASE Goto("close") BY <1>3, <2>5, <3>1, SendStep
    <3>2. CASE Goto("error") BY <1>3, <2>5, <3>2, SendStep
    <3> QED BY <2>2, <3>1, <3>2
  <2> QED BY <2>2, <2>4, <2>5
<1> QED BY <1>5, <1>6, <1>7

LEMMA CloseStep == ASSUME ServerInv, Close PROVE ServerInv'
<1>1. PICK q \in Requests : q = server.conn /\ Held(q) /\ ClientFits(q, conn[q])
  BY DEF Close, ServerInv, ServerFits, ServerType, Unconnected, ClientsFit
<1>2. /\ server' = [server EXCEPT !.at = "test", !.conn = None, !.step = 0, !.header = FALSE]
      /\ conn' = [conn EXCEPT ![q] = ShutBy(conn[q])]
      /\ running' = running /\ data' = data /\ queue' = queue /\ server.at = "close"
  BY <1>1 DEF Close
<1>3. ClientFits(q, ShutBy(conn[q])) BY <1>1, ShutFits DEF Held
<1>4. ClientsFit' /\ \A r \in Requests : r # q => conn'[r] = conn[r]
  BY <1>2, <1>3, OneClient DEF ServerInv
<1>5. /\ server' \in ServerType /\ server'.at = "test" /\ server'.conn = None
      /\ server'.bundle = server.bundle
  BY <1>2 DEF ServerInv, ServerFits, ServerType, Points
<1>6. ServerFits' BY <1>2, <1>5 DEF ServerInv, ServerFits, Unconnected
<1>7. QueueFits'
  <2>1. \A r \in Requests : r # server.conn /\ Held(r) => Held(r)' BY <1>1, <1>4 DEF Held
  <2> QED BY <1>2, <1>5, <2>1, QueueKept DEF ServerInv
<1>8. BuffersFit' BY <1>2, <1>5, BuffersKept DEF ServerInv
<1> QED BY <1>4, <1>6, <1>7, <1>8 DEF ServerInv

------------------------------------------------------------------------------
(* The clients' steps *)

\* A client's own step leaves the connection held and its request the same.
LEMMA ClientSide ==
  ASSUME ServerInv, NEW q \in Requests, NEW c, ClientFits(q, c),
         conn[q].at # "new", c.at # "new",
         ~conn[q].shut => c.asks = conn[q].asks /\ ~c.shut,
         conn' = [conn EXCEPT ![q] = c], UNCHANGED <<server, running, data, queue>>
  PROVE  ServerInv'
<1>1. ClientsFit' /\ conn'[q] = c /\ \A r \in Requests : r # q => conn'[r] = conn[r]
  BY OneClient DEF ServerInv
<1>2. \A r \in Requests : Held(r) => Held(r)' /\ conn'[r].asks = conn[r].asks
  BY <1>1 DEF Held
<1>3. server' = server /\ data' = data /\ queue' = queue /\ running' = running OBVIOUS
<1>4. ServerFits'
  <2>1. server.conn # None => server.conn \in Requests /\ Held(server.conn)
    BY DEF ServerInv, ServerFits, ServerType
  <2>2. server.conn # None => /\ conn'[server.conn].at # "new" /\ ~conn'[server.conn].shut
                             /\ conn'[server.conn].asks = conn[server.conn].asks
    BY <1>2, <2>1 DEF Held
  <2> QED BY <1>3, <2>2 DEF ServerInv, ServerFits, Unconnected, Held, Serving
<1>5. QueueFits' BY <1>2, <1>3, QueueKept DEF ServerInv
<1>6. BuffersFit' BY <1>3, BuffersUnchanged DEF ServerInv
<1> QED BY <1>1, <1>4, <1>5, <1>6 DEF ServerInv

LEMMA ClientStep == ASSUME ServerInv, NEW q \in Requests, Client(q) PROVE ServerInv'
<1>1. /\ conn[q].at = "open" /\ ClientFits(q, conn[q])
      /\ UNCHANGED <<server, running, data, queue>>
  BY DEF Client, Receive, GiveUp, Open, ServerInv, ClientsFit
<1>2. CASE conn' = [conn EXCEPT ![q] = FailedBy(conn[q])]
  BY <1>1, <1>2, FailedFits, ClientSide
<1>3. CASE conn' = [conn EXCEPT ![q] = [conn[q] EXCEPT !.at = "answered"]] /\ conn[q].result # None
  BY <1>1, <1>3, AnsweredFits, ClientSide
<1> QED BY <1>2, <1>3 DEF Client, Receive, GiveUp

LEMMA ConnectStep ==
  ASSUME ServerInv, NEW q \in Requests, NEW p \in Policies, NEW id \in Ids, NEW sick \in BOOLEAN,
         Connect(q, p, id, sick)
  PROVE  ServerInv'
<1> DEFINE c == Request(p, id, sick)  n == Len(queue)
<1>1. /\ conn[q].at = "new" /\ n < Backlog /\ conn' = [conn EXCEPT ![q] = c]
      /\ queue' = Append(queue, q) /\ server' = server /\ running' = running /\ data' = data
  BY DEF Connect
<1>2. ClientFits(q, c) /\ c.at = "open" /\ ~c.shut BY RequestFits
<1> HIDE DEF c
<1>3. ClientsFit' /\ conn'[q] = c /\ \A r \in Requests : r # q => conn'[r] = conn[r]
  BY <1>1, <1>2, OneClient DEF ServerInv
<1>4. ~Held(q) BY <1>1 DEF Held
<1>5. ServerFits'
  <2>1. server.conn # None => server.conn \in Requests /\ server.conn # q /\ Held(server.conn)
    BY <1>4 DEF ServerInv, ServerFits, ServerType
  <2>2. server.conn # None => conn'[server.conn] = conn[server.conn] BY <1>3, <2>1
  <2> QED BY <1>1, <2>2 DEF ServerInv, ServerFits, Unconnected, Held, Serving
<1>6. QueueFits'
  <2>1. queue \in Seq(Requests) /\ n \in Nat /\ DOMAIN queue = 1 .. n
        /\ \A k \in 1 .. n : queue[k] \in Requests
    BY LenProperties, ElementOfSeq DEF ServerInv, QueueFits
  <2>2. /\ queue' \in Seq(Requests) /\ Len(queue') = n + 1 /\ DOMAIN queue' = 1 .. n + 1
        /\ queue'[n + 1] = q /\ \A k \in 1 .. n : queue'[k] = queue[k]
    BY <1>1, <2>1, AppendProperties, LenProperties
  <2> HIDE DEF n
  <2>3. n + 1 <= Backlog BY <1>1, <2>1, ServerAssumption
  <2>4. \A k \in 1 .. n : Held(queue[k]) /\ queue[k] # q /\ queue[k] # server.conn
    BY <1>4, <2>1 DEF ServerInv, QueueFits
  <2>5. \A k \in 1 .. n : conn'[queue[k]] = conn[queue[k]] BY <1>3, <2>1, <2>4
  <2>6. server.conn # q BY <1>4, ServerAssumption DEF ServerInv, ServerFits
  <2>7. \A k \in 1 .. n + 1 : k \in 1 .. n \/ k = n + 1 BY <2>1
  <2>8. \A k \in 1 .. n + 1 : /\ conn'[queue'[k]].at # "new" /\ ~conn'[queue'[k]].shut
                             /\ queue'[k] # server'.conn
    BY <1>1, <1>2, <1>3, <2>2, <2>4, <2>5, <2>6, <2>7 DEF Held
  <2>9. ASSUME NEW k \in 1 .. n + 1, NEW j \in 1 .. n + 1, queue'[j] = queue'[k] PROVE j = k
    <3>1. CASE k = n + 1 BY <2>2, <2>4, <2>7, <2>9, <3>1
    <3>2. CASE k \in 1 .. n
      <4>1. j \in 1 .. n BY <2>2, <2>4, <2>7, <2>9, <3>2
      <4> QED BY <2>1, <2>2, <2>9, <3>2, <4>1 DEF ServerInv, QueueFits
    <3> QED BY <2>7, <3>1, <3>2
  <2> QED BY <2>2, <2>3, <2>8, <2>9 DEF QueueFits, Held
<1>7. BuffersFit' BY <1>1, BuffersUnchanged DEF ServerInv
<1> QED BY <1>3, <1>5, <1>6, <1>7 DEF ServerInv

------------------------------------------------------------------------------
(* Every step *)

LEMMA AtFirst == ASSUME Init PROVE ServerInv
<1>1. /\ server = [at |-> "down", bundle |-> None, conn |-> None, step |-> 0, header |-> FALSE]
      /\ running = FALSE /\ queue = <<>> /\ conn = [q \in Requests |-> NoRequest]
  BY DEF Init, Down
<1>2. ServerFits BY <1>1 DEF ServerFits, ServerType, Points, Unconnected
<1>3. queue \in Seq(Requests) /\ Len(queue) = 0 /\ DOMAIN queue = {} BY <1>1
<1>4. QueueFits BY <1>3, ServerAssumption DEF QueueFits
<1>5. ClientsFit BY <1>1, FreshFits DEF ClientsFit
<1>6. BuffersFit BY <1>1 DEF BuffersFit
<1> QED BY <1>2, <1>4, <1>5, <1>6 DEF ServerInv

LEMMA EveryStep == ASSUME ServerInv, [Next]_vars PROVE ServerInv'
<1>1. CASE Serve
  BY <1>1, LoadStep, TestStep, BlockStep, AcceptStep, ReadFailsStep, ExecuteStep, FinishStep,
     ReplyStep, CloseStep DEF Serve
<1>2. CASE ReadHeader BY <1>2, ReadHeaderStep
<1>3. CASE ReadSlot BY <1>3, ReadSlotStep
<1>4. ASSUME NEW bundle \in Policies, Start(bundle) PROVE ServerInv' BY <1>4, StartStep
<1>5. CASE Signal BY <1>5, SignalStep
<1>6. CASE Kill BY <1>6, GoneStep DEF Kill
<1>7. ASSUME NEW q \in Requests, Client(q) PROVE ServerInv' BY <1>7, ClientStep
<1>8. ASSUME NEW q \in Requests, NEW p \in Policies, NEW id \in Ids, NEW sick \in BOOLEAN,
             Connect(q, p, id, sick)
      PROVE  ServerInv'
  BY <1>8, ConnectStep
<1>9. CASE UNCHANGED vars
  <2>1. server' = server /\ running' = running /\ UNCHANGED <<data, queue, conn>>
    BY <1>9 DEF vars
  <2> QED BY <2>1, FlagStep DEF ServerInv, ServerFits
<1> QED BY <1>1, <1>2, <1>3, <1>4, <1>5, <1>6, <1>7, <1>8, <1>9 DEF Next

LEMMA Served == Spec => []ServerInv
<1>1. Init => ServerInv BY AtFirst
<1>2. ServerInv /\ [Next]_vars => ServerInv' BY EveryStep
<1> QED BY <1>1, <1>2, PTL DEF Spec

------------------------------------------------------------------------------
(* The theorems *)

\* What TypeOK says of the server's process: it holds a connection exactly while it serves
\* one, never one that waits in the backlog, and its step is one of its plan.
THEOREM ServerTyped == Spec => []TypeOK
<1>1. ServerInv => TypeOK
  <2> SUFFICES ASSUME ServerInv PROVE TypeOK OBVIOUS
  <2>1. server.at \notin {"down", "load"} => DOMAIN data = DOMAIN Sizes
    BY DEF ServerInv, BuffersFit, FitsBuffers, Sizes
  <2> QED BY <2>1 DEF ServerInv, ServerFits, ServerType, Unconnected, QueueFits, ClientsFit,
        ClientFits, BuffersFit, TypeOK
<1> QED BY <1>1, Served, PTL

\* What AnswerIsOwn says, for any number of connections and any plans that are complete by
\* themselves: an answer a client accepts is the whole result of its own plan, computed from
\* its own request alone, and finite (server_main.cpp, one set of buffers for all requests).
THEOREM AnswersOwn == Spec => []AnswerIsOwn
<1>1. ServerInv => AnswerIsOwn
  BY DEF ServerInv, ClientsFit, ClientFits, IsOwn, AnswerIsOwn
<1> QED BY <1>1, Served, PTL

\* What NothingCarriesOver says: buffers are never cleared between requests, and no step
\* reads what an earlier request, or one that was only half read, left there (plan.cpp,
\* "Allocate every buffer once, at load time").
THEOREM NothingCarried == Spec => []NothingCarriesOver
<1>1. ServerInv => NothingCarriesOver
  <2> SUFFICES ASSUME ServerInv, server.at = "execute", server.step <= Len(Plan),
                      NEW cell \in Flow[server.bundle][server.step].reads
               PROVE  /\ ReadCell(data, cell).of \subseteq {server.conn, "corrupt"}
                      /\ ReadCell(data, cell) # Unset
    BY DEF NothingCarriesOver
  <2> DEFINE p == server.bundle  k == server.step
  <2>1. /\ p \in Loaded /\ FitsBuffers(data, p) /\ k \in 1 .. Len(Plan) + 1
        /\ Reached(p, k) /\ Matches(data, p, k, server.conn)
    BY DEF ServerInv, ServerFits, BuffersFit
  <2>2. k \in DOMAIN Steps[p] /\ p \in Policies
    <3>1. Len(Steps[p]) \in Nat /\ DOMAIN Steps[p] = 1 .. Len(Steps[p]) /\ p \in Policies
      BY <2>1, LoadedPlans
    <3> QED BY <2>1, <3>1 DEF Plan
  <2>3. ~Flow[p][k].throws
    <3>1. Flow[p][k].throws => Flow[p][k].reads = {} BY <2>2, FlowAt
    <3> QED BY <3>1
  <2>4. Present(Trace[p][k], cell) /\ FitsBuffers(Trace[p][k], p) BY <2>1, <2>2, <2>3, NextAlone
  <2>5. SameFor(server.conn, ReadCell(data, cell), ReadCell(Trace[p][k], cell))
        /\ ReadCell(data, cell).is # Unset.is
    BY <2>1, <2>4, SameRead
  <2> QED BY <2>5 DEF SameFor
<1> QED BY <1>1, Served, PTL

\* Every graph is given the right arguments by a plan that runs alone.
FedAlone(p) ==
    \A k \in 1 .. Len(Steps[p]) : Reached(p, k) /\ Fixed(Steps[p][k]) =>
      /\ \A j \in DOMAIN Inputs(p, k) :
           /\ Inputs(p, k)[j] \in DOMAIN Buffers[p]
           /\ \A i \in Indices(Buffers[p][Inputs(p, k)[j]]) :
                Trace[p][k][Inputs(p, k)[j]][i].is # Unset.is
      /\ Expected[p][k] = Given(Trace[p][k], p, k)
      /\ RunsElf(Steps[p][k]) => ChainsFollow[p][k]

\* What LayoutIsTheGraphs says: if the plans lay out the arguments of their graphs as the
\* graphs were traced with when each runs alone, so do they for every request of a server,
\* whatever other requests, half-read ones and garbage have left in its buffers.
THEOREM LayoutKept ==
  ASSUME \A p \in Loaded : FedAlone(p)
  PROVE  Spec => []LayoutIsTheGraphs
<1>1. ServerInv => LayoutIsTheGraphs
  <2> SUFFICES ASSUME ServerInv, server.at = "execute", server.step <= Len(Plan),
                      Fixed(Plan[server.step])
               PROVE  /\ Expected[server.bundle][server.step] = Given(data, server.bundle, server.step)
                      /\ RunsElf(Plan[server.step]) => ChainsFollow[server.bundle][server.step]
    BY DEF LayoutIsTheGraphs
  <2>1. PICK p, k, q : p = server.bundle /\ k = server.step /\ q = server.conn OBVIOUS
  <2>2. /\ p \in Loaded /\ FitsBuffers(data, p) /\ k \in 1 .. Len(Steps[p]) + 1
        /\ Reached(p, k) /\ Matches(data, p, k, q) /\ k <= Len(Steps[p]) /\ Fixed(Steps[p][k])
    BY <2>1 DEF ServerInv, ServerFits, BuffersFit, Plan
  <2>3. k \in 1 .. Len(Steps[p]) /\ \A b \in DOMAIN Buffers[p] : Buffers[p][b] \in Nat
    BY <2>2, LoadedPlans DEF Complete
  <2>4. FedAlone(p) BY <2>2
  <2>5. /\ Expected[p][k] = Given(Trace[p][k], p, k)
        /\ RunsElf(Steps[p][k]) => ChainsFollow[p][k]
        /\ \A j \in DOMAIN Inputs(p, k) :
             /\ Inputs(p, k)[j] \in DOMAIN Buffers[p]
             /\ \A i \in Indices(Buffers[p][Inputs(p, k)[j]]) :
                  Trace[p][k][Inputs(p, k)[j]][i].is # Unset.is
    BY <2>2, <2>3, <2>4 DEF FedAlone
  <2>6. ASSUME NEW j \in DOMAIN Inputs(p, k), NEW b, b = Inputs(p, k)[j],
               NEW i \in 1 .. Buffers[p][b]
        PROVE  data[b][i - 1].is = Trace[p][k][b][i - 1].is
    <3>1. b \in DOMAIN Buffers[p] /\ i - 1 \in Indices(Buffers[p][b])
      BY <2>3, <2>5, <2>6 DEF Indices
    <3>2. Trace[p][k][b][i - 1].is # Unset.is BY <2>5, <2>6, <3>1
    <3>3. SameFor(q, data[b][i - 1], Trace[p][k][b][i - 1]) BY <2>2, <3>1, <3>2 DEF Matches
    <3> QED BY <3>3 DEF SameFor
  <2>7. Given(data, p, k) = Given(Trace[p][k], p, k)
    <3> DEFINE Laid(buffers, b) == [i \in 1 .. Buffers[p][b] |-> buffers[b][i - 1].is]
    <3>1. \A j \in DOMAIN Inputs(p, k) :
            Laid(data, Inputs(p, k)[j]) = Laid(Trace[p][k], Inputs(p, k)[j])
      BY <2>6
    <3> HIDE DEF Laid
    <3>2. [j \in DOMAIN Inputs(p, k) |-> Laid(data, Inputs(p, k)[j])]
            = [j \in DOMAIN Inputs(p, k) |-> Laid(Trace[p][k], Inputs(p, k)[j])]
      BY <3>1
    <3> QED BY <3>2 DEF Given, Laid
  <2> QED BY <2>1, <2>5, <2>7 DEF Plan
<1> QED BY <1>1, Served, PTL

------------------------------------------------------------------------------
(* What a server is started on *)

\* A plan that is being loaded was packed.
LoadsPacked == server.at = "load" => server.bundle \in Packed

LEMMA PackedStep == ASSUME ServerInv, LoadsPacked, [Next]_vars PROVE LoadsPacked'
<1>1. server \in ServerType BY DEF ServerInv, ServerFits
<1>2. ASSUME NEW point, point # "load", Goto(point) PROVE LoadsPacked'
  BY <1>1, <1>2 DEF Goto, LoadsPacked, ServerType
<1>3. ASSUME server' = server PROVE LoadsPacked' BY <1>3 DEF LoadsPacked
<1>4. ASSUME Gone PROVE LoadsPacked' BY <1>4 DEF Gone, Down, LoadsPacked
<1>5. ASSUME NEW bundle \in Policies, Start(bundle) PROVE LoadsPacked'
  BY <1>5 DEF Start, Down, LoadsPacked
<1>6. CASE Load BY <1>2, <1>4, <1>6 DEF Load
<1>7. CASE Signal BY <1>2, <1>3, <1>7 DEF Signal
<1>8. CASE Kill BY <1>4, <1>8 DEF Kill
<1>9. CASE Test BY <1>2, <1>4, <1>9 DEF Test
<1>10. CASE Block BY <1>2, <1>10 DEF Block
<1>11. CASE Accept BY <1>1, <1>11 DEF Accept, LoadsPacked, ServerType
<1>12. CASE ReadHeader BY <1>1, <1>12 DEF ReadHeader, LoadsPacked, ServerType
<1>13. CASE ReadSlot BY <1>1, <1>13 DEF ReadSlot, LoadsPacked, ServerType
<1>14. CASE ReadFails BY <1>2, <1>14 DEF ReadFails
<1>15. CASE Execute
  <2>1. CASE Goto("error") BY <1>2, <2>1
  <2>2. CASE \/ server' = [server EXCEPT !.at = "error"]
             \/ server' = [server EXCEPT !.step = @ + 1] /\ server.at = "execute"
    BY <1>1, <2>2 DEF LoadsPacked, ServerType
  <2> QED BY <1>15, <2>1, <2>2 DEF Execute
<1>16. CASE Finish BY <1>2, <1>16 DEF Finish
<1>17. CASE Reply \/ SendResult BY <1>2, <1>17 DEF Reply, SendResult, Send
<1>18. CASE Fail BY <1>2, <1>18 DEF Fail
<1>19. CASE Close BY <1>1, <1>19 DEF Close, LoadsPacked, ServerType
<1>20. ASSUME NEW q \in Requests, Client(q) PROVE LoadsPacked'
  BY <1>3, <1>20 DEF Client, Receive, GiveUp
<1>21. ASSUME NEW q, NEW p, NEW id, NEW sick, Connect(q, p, id, sick) PROVE LoadsPacked'
  BY <1>3, <1>21 DEF Connect
<1>22. CASE UNCHANGED vars BY <1>3, <1>22 DEF vars
<1> QED BY <1>5, <1>6, <1>7, <1>8, <1>9, <1>10, <1>11, <1>12, <1>13, <1>14, <1>15, <1>16, <1>17,
           <1>18, <1>19, <1>20, <1>21, <1>22 DEF Next, Serve

LEMMA LoadedWerePacked == Spec => []LoadsPacked
<1>1. Init => LoadsPacked BY DEF Init, Down, LoadsPacked
<1>2. ServerInv /\ LoadsPacked /\ [Next]_vars => LoadsPacked' BY PackedStep
<1> QED BY <1>1, <1>2, Served, PTL DEF Spec

\* What PackedPlansLoad says: a server that was started on a packed bundle comes up, and
\* no step of its plan overruns a buffer or takes another joint's statistics, whatever the
\* sizes of the policies are (plan.cpp, "the plan validator guarantees the sizes line up").
THEOREM PackedLoad == Spec => []PackedPlansLoad
<1>1. LoadsPacked => PackedPlansLoad
  <2>1. Packed \subseteq Loaded BY ValidPlansLoad
  <2>2. Packed \subseteq Policies BY DEF Packed
  <2>3. Policies = Fitting BY PlansFit
  <2> QED BY <2>1, <2>2, <2>3 DEF LoadsPacked, PackedPlansLoad
<1> QED BY <1>1, LoadedWerePacked, PTL

\* What StubAgrees says: the plan a server loads means the same to the interpreter that
\* stands in for it on a workstation (server_stub.py, "keep in lockstep with
\* native/src/plan.cpp").
THEOREM StubsAgree == Spec => []StubAgrees
<1>1. LoadsPacked => StubAgrees
  <2>1. Packed \subseteq Policies BY DEF Packed
  <2>2. Policies = Interpreted BY PlansFit
  <2> QED BY <2>1, <2>2 DEF LoadsPacked, StubAgrees
<1> QED BY <1>1, LoadedWerePacked, PTL
=============================================================================
