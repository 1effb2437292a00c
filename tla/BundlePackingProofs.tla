------------------------ MODULE BundlePackingProofs ------------------------
(***************************************************************************)
(* What holds of every bundle BundlePacking writes, for every policy's     *)
(* graphs, every tree that may be found and every sequence of packs,       *)
(* kills, exports, compiles, checkouts and hydrations.                     *)
(***************************************************************************)
EXTENDS BundlePacking, SequenceTheorems, FiniteSetTheorems, TLAPS

GraphNames == Elements(Graphs)

\* The request an archive's fixtures make is one the policy's server understands.
Understood(policy, fixtures) ==
    /\ DOMAIN fixtures.inputs \ Optional \in {{}, DOMAIN Wire[policy] \ Optional}
    /\ \A t \in DOMAIN fixtures.inputs : fixtures.inputs[t] = Wire[policy][t]

\* An id names a policy, and for each graph an ELF of that graph which is shipped.
IdFits(id) ==
    /\ id.policy \in DOMAIN Wire
    /\ \A g \in GraphNames : id.elf[g].graph = g /\ id.elf[g].from # "retained_rejected"

\* The files of a bundle that are in place: for a graph, the ELF the id names.
Filed(id) == {f \in DOMAIN store[id] : f \in GraphNames => store[id][f] = id.elf[f]}

\* A manifest that may be written once the files of `have' are in place.
Covers(id, manifest, have) ==
    /\ manifest.elf = id.elf
    /\ GraphNames \subseteq have
    /\ manifest.sidecars \subseteq have

\* What a command may write to a bundle.
EntryFits(id, e) ==
    /\ e.file \in GraphNames => ~e.always /\ e.content = id.elf[e.file]
    /\ e.file = "fixtures" => Understood(id.policy, e.content)

IsSequence(s) == s \in Seq(Elements(s))

\* The entries fit, and each manifest among them comes after the files it lists.
FilesOf(s) == {s[k].file : k \in DOMAIN s}
FilesBefore(s, k) == {s[j].file : j \in 1 .. k - 1}
Ordered(id, have, s) ==
    /\ IsSequence(s)
    /\ \A k \in DOMAIN s :
         /\ EntryFits(id, s[k])
         /\ s[k].file = "bundle.json" => Covers(id, s[k].content, have \cup FilesBefore(s, k))

------------------------------------------------------------------------------
(* The inductive invariant *)

TreeFits == tree \in Trees /\ InPlace(tree)

BundleFits(id) ==
    /\ IdFits(id)
    /\ Whole(id) => Covers(id, store[id]["bundle.json"], Filed(id))
    /\ Content(id, "fixtures") \notin {None, Partial} =>
         Understood(id.policy, store[id]["fixtures"])

StoreFits == \A id \in DOMAIN store : BundleFits(id)

\* The command has something to write, and to a bundle of the store.
WorkFits ==
    /\ work = [id |-> work.id, todo |-> work.todo]
    /\ work # Idle => /\ work.id \in DOMAIN store
                      /\ work.todo # <<>>
                      /\ Ordered(work.id, Filed(work.id), work.todo)

PackingInv == TreeFits /\ StoreFits /\ WorkFits
------------------------------------------------------------------------------
(* Sequences of entries *)

\* A sequence is one of its own elements.
LEMMA OwnElements == ASSUME NEW S, NEW s \in Seq(S) PROVE IsSequence(s)
<1>1. s = [k \in 1 .. Len(s) |-> s[k]] /\ Len(s) \in Nat /\ DOMAIN s = 1 .. Len(s)
  BY LenProperties
<1>2. \A k \in 1 .. Len(s) : s[k] \in Elements(s)
  BY <1>1 DEF Elements
<1> QED BY <1>1, <1>2, IsASeq DEF IsSequence

\* An entry of a concatenation is one of its parts'.
LEMMA Concatenation ==
  ASSUME NEW a, NEW b, IsSequence(a), IsSequence(b)
  PROVE  /\ IsSequence(a \o b)
         /\ DOMAIN a = 1 .. Len(a) /\ Len(a) \in Nat
         /\ DOMAIN b = 1 .. Len(b) /\ Len(b) \in Nat
         /\ DOMAIN (a \o b) = 1 .. Len(a) + Len(b)
         /\ \A k \in 1 .. Len(a) + Len(b) : (a \o b)[k] = IF k <= Len(a) THEN a[k] ELSE b[k - Len(a)]
<1> DEFINE S == Elements(a) \cup Elements(b)
<1>1. a \in Seq(S) /\ b \in Seq(S)
  BY SeqMonotonic DEF IsSequence
<1> HIDE DEF S
<1>2. a \o b \in Seq(S) BY <1>1, ConcatProperties
<1>3. IsSequence(a \o b) BY <1>2, OwnElements
<1>4. DOMAIN a = 1 .. Len(a) /\ Len(a) \in Nat /\ DOMAIN b = 1 .. Len(b) /\ Len(b) \in Nat
  BY <1>1, LenProperties
<1>5. Len(a \o b) = Len(a) + Len(b) /\ DOMAIN (a \o b) = 1 .. Len(a \o b)
  BY <1>1, <1>2, ConcatProperties, LenProperties
<1>6. \A k \in 1 .. Len(a) + Len(b) : (a \o b)[k] = IF k <= Len(a) THEN a[k] ELSE b[k - Len(a)]
  BY <1>1, ConcatProperties
<1> QED BY <1>3, <1>4, <1>5, <1>6

LEMMA FilesInTurn ==
  ASSUME NEW a, NEW b, IsSequence(a), IsSequence(b), NEW s, s = a \o b
  PROVE  FilesOf(a) \subseteq FilesOf(s) /\ FilesOf(b) \subseteq FilesOf(s)
<1> DEFINE m == Len(a)  n == Len(b)
<1>1. /\ DOMAIN a = 1 .. m /\ m \in Nat /\ DOMAIN b = 1 .. n /\ n \in Nat
      /\ DOMAIN s = 1 .. m + n
      /\ \A k \in 1 .. m + n : s[k] = IF k <= m THEN a[k] ELSE b[k - m]
  BY Concatenation
<1> HIDE DEF m, n
<1>2. \A k \in DOMAIN a : k \in DOMAIN s /\ s[k] = a[k] BY <1>1
<1>3. \A k \in DOMAIN b : m + k \in DOMAIN s /\ s[m + k] = b[k] BY <1>1
<1> QED BY <1>2, <1>3 DEF FilesOf

\* Two ordered parts in turn are ordered, the second after the files of the first.
LEMMA InTurn ==
  ASSUME NEW id, NEW have, NEW a, NEW b, Ordered(id, have, a),
         NEW more, more = have \cup FilesOf(a), Ordered(id, more, b),
         NEW s, s = a \o b
  PROVE  Ordered(id, have, s)
<1> DEFINE m == Len(a)  n == Len(b)
<1>0. IsSequence(a) /\ IsSequence(b) BY DEF Ordered
<1>1. /\ IsSequence(s) /\ DOMAIN a = 1 .. m /\ m \in Nat /\ DOMAIN b = 1 .. n /\ n \in Nat
      /\ DOMAIN s = 1 .. m + n
      /\ \A k \in 1 .. m + n : s[k] = IF k <= m THEN a[k] ELSE b[k - m]
  BY <1>0, Concatenation
<1> HIDE DEF m, n
<1>2. \A k \in 1 .. m : k \in 1 .. m + n /\ s[k] = a[k]
  BY <1>1
<1>3. \A k \in 1 .. n : m + k \in 1 .. m + n /\ s[m + k] = b[k]
  BY <1>1
<1>4. \A k \in 1 .. m + n : k \in 1 .. m \/ (k - m \in 1 .. n /\ s[k] = b[k - m] /\ k = m + (k - m))
  BY <1>1
<1>5. ASSUME NEW k \in DOMAIN s
      PROVE  /\ EntryFits(id, s[k])
             /\ s[k].file = "bundle.json" => Covers(id, s[k].content, have \cup FilesBefore(s, k))
  <2>1. CASE k \in 1 .. m
    <3>1. FilesBefore(s, k) = FilesBefore(a, k)
      <4>1. \A j \in 1 .. k - 1 : s[j] = a[j] BY <1>1, <1>2, <2>1
      <4> QED BY <4>1 DEF FilesBefore
    <3> QED BY <1>1, <1>2, <2>1, <3>1 DEF Ordered
  <2>2. CASE k \notin 1 .. m
    <3> DEFINE j == k - m
    <3>1. j \in 1 .. n /\ s[k] = b[j] /\ k = m + j BY <1>1, <1>4, <2>2
    <3>2. FilesOf(a) \cup FilesBefore(b, j) \subseteq FilesBefore(s, k)
      <4>1. \A i \in 1 .. m : i \in 1 .. k - 1 /\ s[i] = a[i] BY <1>1, <1>2, <3>1
      <4>2. \A i \in 1 .. j - 1 : m + i \in 1 .. k - 1 /\ s[m + i] = b[i] BY <1>1, <1>3, <3>1
      <4> HIDE DEF j
      <4>3. \A x \in FilesOf(a) : x \in FilesBefore(s, k) BY <1>1, <4>1 DEF FilesOf, FilesBefore
      <4>4. \A x \in FilesBefore(b, j) : x \in FilesBefore(s, k) BY <4>2 DEF FilesBefore
      <4> QED BY <4>3, <4>4
    <3> HIDE DEF j
    <3>3. /\ EntryFits(id, b[j])
          /\ b[j].file = "bundle.json" =>
               Covers(id, b[j].content, (have \cup FilesOf(a)) \cup FilesBefore(b, j))
      BY <1>1, <3>1 DEF Ordered
    <3>4. (have \cup FilesOf(a)) \cup FilesBefore(b, j) \subseteq have \cup FilesBefore(s, k)
      BY <3>2
    <3> QED BY <3>1, <3>3, <3>4 DEF Covers
  <2> QED BY <2>1, <2>2
<1> QED BY <1>1, <1>5 DEF Ordered

\* More files in place do no harm.
LEMMA WithMore ==
  ASSUME NEW id, NEW have, NEW more, have \subseteq more, NEW s, Ordered(id, have, s)
  PROVE  Ordered(id, more, s)
<1>1. \A k \in DOMAIN s : have \cup FilesBefore(s, k) \subseteq more \cup FilesBefore(s, k) OBVIOUS
<1> QED BY <1>1 DEF Ordered, Covers

\* No entry, and one.
LEMMA Nothing == ASSUME NEW id, NEW have PROVE Ordered(id, have, <<>>) /\ FilesOf(<<>>) = {}
<1>1. DOMAIN <<>> = {} OBVIOUS
<1>2. <<>> \in Seq(Elements(<<>>)) OBVIOUS
<1> QED BY <1>1, <1>2 DEF Ordered, FilesOf, IsSequence

LEMMA Single ==
  ASSUME NEW id, NEW have, NEW e, EntryFits(id, e),
         e.file = "bundle.json" => Covers(id, e.content, have)
  PROVE  Ordered(id, have, <<e>>) /\ FilesOf(<<e>>) = {e.file}
<1> DEFINE s == <<e>>
<1>1. s \in Seq({e}) /\ DOMAIN s = {1} /\ s[1] = e OBVIOUS
<1>2. IsSequence(s) BY <1>1, OwnElements
<1> HIDE DEF s
<1>3. FilesBefore(s, 1) = {} BY DEF FilesBefore
<1>4. Ordered(id, have, s) BY <1>1, <1>2, <1>3 DEF Ordered, Covers
<1>5. FilesOf(s) = {e.file} BY <1>1 DEF FilesOf
<1> QED BY <1>4, <1>5 DEF s

\* When the first entry is in place, the rest follow it.
LEMMA TheRest ==
  ASSUME NEW id, NEW have, NEW s, s # <<>>, Ordered(id, have, s)
  PROVE  /\ Ordered(id, have \cup {Head(s).file}, Tail(s))
         /\ EntryFits(id, Head(s))
         /\ Head(s).file = "bundle.json" => Covers(id, Head(s).content, have)
         /\ Len(s) = 1 \/ Tail(s) # <<>>
<1> DEFINE t == Tail(s)  n == Len(s)  S == Elements(s)
<1>1. s \in Seq(S) BY DEF Ordered, IsSequence
<1> HIDE DEF S
<1>2. n \in Nat \ {0} /\ DOMAIN s = 1 .. n BY <1>1, LenProperties, EmptySeq
<1>3. t \in Seq(S) /\ Len(t) = n - 1 /\ Head(s) = s[1] /\ DOMAIN t = 1 .. n - 1
  BY <1>1, <1>2, HeadTailProperties, LenProperties
<1>4. \A k \in 1 .. n - 1 : t[k] = s[k + 1] BY <1>1, HeadTailProperties
<1>5. IsSequence(t) BY <1>3, OwnElements
<1>6. n = 1 \/ t # <<>> BY <1>2, <1>3
<1> HIDE DEF t, n
<1>7. EntryFits(id, s[1]) /\ (s[1].file = "bundle.json" => Covers(id, s[1].content, have))
  <2>1. FilesBefore(s, 1) = {} BY DEF FilesBefore
  <2> QED BY <1>2, <2>1 DEF Ordered, Covers
<1>8. ASSUME NEW k \in DOMAIN t
      PROVE  /\ EntryFits(id, t[k])
             /\ t[k].file = "bundle.json" =>
                  Covers(id, t[k].content, (have \cup {s[1].file}) \cup FilesBefore(t, k))
  <2>1. k \in 1 .. n - 1 /\ k + 1 \in DOMAIN s /\ t[k] = s[k + 1] BY <1>2, <1>3, <1>4
  <2>2. FilesBefore(s, k + 1) \subseteq {s[1].file} \cup FilesBefore(t, k)
    <3>1. ASSUME NEW j \in 1 .. (k + 1) - 1
          PROVE  s[j].file \in {s[1].file} \cup FilesBefore(t, k)
      <4>1. CASE j = 1 BY <4>1
      <4>2. CASE j # 1
        <5>1. j - 1 \in 1 .. k - 1 /\ t[j - 1] = s[j] BY <1>2, <1>4, <2>1, <4>2
        <5> QED BY <5>1 DEF FilesBefore
      <4> QED BY <4>1, <4>2
    <3> QED BY <3>1 DEF FilesBefore
  <2>3. have \cup FilesBefore(s, k + 1) \subseteq (have \cup {s[1].file}) \cup FilesBefore(t, k)
    BY <2>2
  <2> QED BY <2>1, <2>3 DEF Ordered, Covers
<1>9. Ordered(id, have \cup {s[1].file}, t) BY <1>5, <1>8 DEF Ordered
<1> QED BY <1>3, <1>6, <1>7, <1>9 DEF t, n

------------------------------------------------------------------------------
(* Which ELFs a tree gives *)

\* What lies at a place that is not for rejected experiments is the graph's own.
Shipped(g, elf) == \E p \in Places \ {"retained_rejected"} : elf = At(g, p)

LEMMA ShippedFits ==
  ASSUME TreeFits, NEW g \in GraphNames, NEW elf, Shipped(g, elf), elf # None
  PROVE  elf.graph = g /\ elf.from # "retained_rejected"
  BY DEF TreeFits, InPlace, Shipped, At, GraphNames

\* The only ELF of several places is one of theirs.
LEMMA SoleShipped ==
  ASSUME NEW g, NEW places, places \subseteq Places \ {"retained_rejected"}, Sole(g, places) # None
  PROVE  Shipped(g, Sole(g, places))
<1> DEFINE there == {p \in places : At(g, p) # None}
<1>1. Cardinality(there) = 1 /\ Sole(g, places) = At(g, CHOOSE p \in there : TRUE) BY DEF Sole
<1>2. there # {} BY <1>1, FS_EmptySet
<1>3. (CHOOSE p \in there : TRUE) \in there BY <1>2
<1> QED BY <1>1, <1>3 DEF Shipped

\* _resolve_one finds an ELF of the graph which no marker rejects.
LEMMA ResolvedFits ==
  ASSUME TreeFits, NEW g \in GraphNames, Found(Candidates(g)) # {}
  PROVE  FirstOf(Candidates(g)).graph = g /\ FirstOf(Candidates(g)).from # "retained_rejected"
<1> DEFINE c == Candidates(g)
<1>1. /\ DOMAIN c = 1 .. 5 /\ c[1] = Deployed(g) /\ c[2] = At(g, "models") /\ c[3] = Selected(g)
      /\ c[4] = At(g, "mpk") /\ c[5] = IF HasLegacyNames THEN At(g, "legacy") ELSE None
  BY DEF Candidates, Unpacked
<1> HIDE DEF c
<1>2. \E k \in Found(c) : \A j \in Found(c) : k <= j
  <2>1. Found(c) \subseteq 1 .. 5 BY <1>1 DEF Found
  <2>2. Found(c) # {} BY DEF c
  <2> QED BY <2>1, <2>2
<1>3. PICK k \in 1 .. 5 : c[k] # None /\ FirstOf(c) = c[k]
  BY <1>1, <1>2 DEF Found, FirstOf
<1>4. {"own", "other", "second", "models", "retained", "retained_v2", "retained_v3", "mpk", "legacy"}
        \subseteq Places \ {"retained_rejected"}
  BY DEF Places, EmptyArchive
<1>5. Deployed(g) # None => Shipped(g, Deployed(g))
  BY <1>4, SoleShipped DEF Deployed, Shipped
<1>6. Selected(g) # None => Shipped(g, Selected(g))
  BY <1>4, SoleShipped DEF Selected, Shipped, Viable
<1>7. Shipped(g, At(g, "models")) /\ Shipped(g, At(g, "mpk")) /\ Shipped(g, At(g, "legacy"))
  BY <1>4 DEF Shipped
<1>8. k = 1 \/ k = 2 \/ k = 3 \/ k = 4 \/ k = 5 BY <1>3
<1>9. Shipped(g, c[k]) BY <1>1, <1>3, <1>5, <1>6, <1>7, <1>8
<1> QED BY <1>3, <1>9, ShippedFits DEF c

\* The id of what a tree packs to.
LEMMA IdOfTree == ASSUME TreeFits, Resolvable PROVE IdFits(BundleId)
  BY ResolvedFits DEF TreeFits, Trees, Resolvable, Resolved, IdFits, BundleId, GraphNames

------------------------------------------------------------------------------
(* Which fixtures *)

\* What collect_fixtures lets pass is understood, whatever wrote the tree: the archives
\* of ACT and GR00T lack a tensor or have one of another width and never pass.
LEMMA FixturesUnderstood == ASSUME TreeFits, FixturesFit PROVE Understood(tree.policy, Fixtures)
<1> DEFINE wire == Wire[tree.policy]
<1>0. tree.policy \in {"act", "smolvla", "groot", "groot17"}
  BY DEF TreeFits, Trees, Wire
<1>1. Fixtures.inputs = Inputs BY DEF Fixtures
<1>2. DOMAIN Inputs = Taken \cup DOMAIN Direct
      /\ \A t \in DOMAIN Inputs : Inputs[t] = IF t \in Taken THEN OnWire(Archived[ArrayOf(t)]) ELSE Direct[t]
  BY DEF Inputs
<1>3. CASE tree.direct
  <2>1. tree.policy = "act" /\ Direct = ActWire /\ wire = ActWire
    BY <1>3 DEF TreeFits, InPlace, Direct, Wire
  <2>2. Taken = {} BY <2>1 DEF Taken, FromArchive
  <2> QED BY <1>1, <1>2, <2>1, <2>2 DEF Understood
<1>4. CASE ~tree.direct /\ ~HasArchive
  <2>1. DOMAIN Direct = {} BY <1>4 DEF Direct
  <2>2. Taken = {} BY <1>4 DEF Taken
  <2>3. DOMAIN Inputs = {} BY <1>2, <2>1, <2>2
  <2> QED BY <1>1, <2>3 DEF Understood
<1>5. CASE ~tree.direct /\ HasArchive /\ tree.policy = "act"
  <2>1. FromArchive = {"image0", "image1", "state", "expected"}
    BY <1>5 DEF FromArchive, Direct, Wire, ActWire
  <2>2. ArrayOf("image0") = "image0" BY DEF ArrayOf
  <2>3. "image0" \notin DOMAIN Archived BY <1>5 DEF Archived, Archive, ActArchive
  <2> QED BY <1>5, <2>1, <2>2, <2>3 DEF FixturesFit, Optional
<1>6. CASE ~tree.direct /\ HasArchive /\ tree.policy \in {"groot", "groot17"}
  <2>1. "state" \in FromArchive /\ "state" \notin Optional
    BY <1>6 DEF FromArchive, Direct, Wire, GrootWire, Groot17Wire, Optional
  <2>2. ArrayOf("state") = "state" BY DEF ArrayOf
  <2>3. "state" \in Taken
    BY <1>6, <2>1, <2>2 DEF FixturesFit, Taken
  <2>4. Width(Archived["state"]) = Width(wire["state"])
    BY <1>6, <2>2, <2>3 DEF FixturesFit
  <2>5. CASE tree.policy = "groot"
    <3>1. "state" \in DOMAIN GrootArchive \ {"action"} BY DEF GrootArchive
    <3>2. Archived["state"] = Lane("normalized", 128)
      BY <2>5, <3>1 DEF Archived, Archive, GrootArchive
    <3>3. wire["state"] = Lane("raw", 6) BY <2>5 DEF Wire, GrootWire
    <3> QED BY <2>4, <3>2, <3>3 DEF Width, Lane
  <2>6. CASE tree.policy = "groot17"
    <3>1. "state" \in DOMAIN Groot17Archive \ {"action"} BY DEF Groot17Archive
    <3>2. Archived["state"] = Lane("normalized", 132)
      BY <2>6, <3>1 DEF Archived, Archive, Groot17Archive
    <3>3. wire["state"] = Lane("raw", 17) BY <2>6 DEF Wire, Groot17Wire
    <3> QED BY <2>4, <3>2, <3>3 DEF Width, Lane
  <2> QED BY <1>6, <2>5, <2>6
<1>7. CASE ~tree.direct /\ HasArchive /\ tree.policy = "smolvla"
  <2>1. wire = SmolVLAWire BY <1>7 DEF Wire
  <2>2. DOMAIN Direct = {} BY <1>7 DEF Direct
  <2>3. FromArchive = DOMAIN SmolVLAWire BY <2>1, <2>2 DEF FromArchive
  <2>4. DOMAIN SmolVLAWire = {"image0", "image1", "state", "noise", "expected"}
    BY DEF SmolVLAWire
  <2>5. DOMAIN Inputs = Taken /\ \A t \in Taken : Inputs[t] = OnWire(Archived[ArrayOf(t)])
    BY <1>2, <2>2
  <2>6. \A t \in {"image0", "image1", "state", "noise"} : t \in Taken /\ ArrayOf(t) = t
    BY <1>7, <2>3, <2>4 DEF FixturesFit, Taken, ArrayOf, Optional
  <2>7. Taken \ Optional = DOMAIN wire \ Optional
    BY <2>1, <2>3, <2>4, <2>6 DEF Taken, Optional
  <2>8. \A n \in DOMAIN Archived : n \in DOMAIN SmolVLAArchive /\ Archived[n] = SmolVLAArchive[n]
    BY <1>7 DEF Archived, Archive
  <2>9. \A t \in Taken : ArrayOf(t) \in DOMAIN Archived BY DEF Taken
  <2>10. OnWire(Image("nchw")) = Image("hwc") BY <1>7 DEF OnWire
  <2>11. OnWire(AsDrawn) = AsDrawn
    <3>1. "drawn" \in DOMAIN AsDrawn /\ "drawn" \notin DOMAIN Image("nchw") /\ "units" \notin DOMAIN AsDrawn
      BY DEF AsDrawn, Image
    <3> QED BY <1>7, <3>1 DEF OnWire, Raw
  <2>12. OnWire(Lane("raw", 6)) = Lane("raw", 6) /\ OnWire(Lane("normalized", 6)) = Lane("raw", 6)
    <3>1. \A u : "units" \in DOMAIN Lane(u, 6) /\ "units" \notin DOMAIN Image("nchw")
      BY DEF Lane, Image
    <3>2. \A u : [Lane(u, 6) EXCEPT !.units = "raw"] = Lane("raw", 6) BY DEF Lane
    <3>3. \A u : OnWire(Lane(u, 6)) = Lane("raw", 6) BY <1>7, <3>1, <3>2 DEF OnWire, Raw
    <3> QED BY <3>3
  <2>13. \A t \in Taken : Inputs[t] = SmolVLAWire[t]
    <3>1. ASSUME NEW t \in Taken PROVE Inputs[t] = SmolVLAWire[t]
      <4>1. Inputs[t] = OnWire(SmolVLAArchive[ArrayOf(t)]) /\ ArrayOf(t) \in DOMAIN SmolVLAArchive
        BY <2>5, <2>8, <2>9
      <4>2. t \in {"image0", "image1", "state", "noise", "expected"} BY <2>3, <2>4 DEF Taken
      <4>3. CASE t \in {"image0", "image1"}
        BY <4>1, <4>3, <2>6, <2>10 DEF SmolVLAArchive, SmolVLAWire
      <4>4. CASE t = "state" BY <4>1, <4>4, <2>6, <2>12 DEF SmolVLAArchive, SmolVLAWire
      <4>5. CASE t = "noise" BY <4>1, <4>5, <2>6, <2>11 DEF SmolVLAArchive, SmolVLAWire
      <4>6. CASE t = "expected"
        <5>1. ArrayOf(t) \in {"action", "normalized_action"} BY <4>6 DEF ArrayOf
        <5> QED BY <4>1, <4>6, <5>1, <2>12 DEF SmolVLAArchive, SmolVLAWire
      <4> QED BY <4>2, <4>3, <4>4, <4>5, <4>6
    <3> QED BY <3>1
  <2> QED BY <1>1, <2>1, <2>5, <2>7, <2>13 DEF Understood
<1> QED BY <1>0, <1>3, <1>4, <1>5, <1>6, <1>7

------------------------------------------------------------------------------
(* What a pack is to write *)

\* The ELFs, each under the name of its graph.
LEMMA ModelsOrdered ==
  ASSUME Resolvable, NEW have
  PROVE  Ordered(BundleId, have, Models) /\ FilesOf(Models) = GraphNames
<1>1. DOMAIN Models = 1 .. Len(Graphs) /\ DOMAIN Graphs = 1 .. Len(Graphs) /\ Len(Graphs) \in Nat
  BY PackingAssumption, LenProperties DEF Models
<1>2. \A k \in DOMAIN Models : Models[k] = Entry(Graphs[k], Resolved[Graphs[k]])
  BY DEF Models
<1>3. IsSequence(Models)
  <2> DEFINE m == Models  S == Elements(m)
  <2>1. \A k \in 1 .. Len(Graphs) : m[k] \in S BY <1>1 DEF Elements
  <2>2. m = [k \in 1 .. Len(Graphs) |-> m[k]] BY <1>1 DEF Models
  <2> HIDE DEF m, S
  <2>3. m \in Seq(S) BY <1>1, <2>1, <2>2, IsASeq
  <2> QED BY <2>3 DEF IsSequence, m, S
<1>4. \A k \in DOMAIN Graphs : Graphs[k] \in GraphNames BY DEF GraphNames, Elements
<1>5. GraphNames \cap {"fixtures", "bundle.json"} = {} BY PackingAssumption DEF GraphNames
<1>6. ASSUME NEW k \in DOMAIN Models
      PROVE  EntryFits(BundleId, Models[k]) /\ Models[k].file # "bundle.json"
  <2>1. Models[k].file = Graphs[k] /\ ~Models[k].always /\ Models[k].content = Resolved[Graphs[k]]
    BY <1>2 DEF Entry
  <2>2. Graphs[k] \in GraphNames BY <1>1, <1>4
  <2>3. BundleId.elf = Resolved BY DEF BundleId
  <2> QED BY <1>5, <2>1, <2>2, <2>3 DEF EntryFits
<1>7. FilesOf(Models) = GraphNames
  BY <1>1, <1>2 DEF FilesOf, Entry, GraphNames, Elements
<1> QED BY <1>3, <1>6, <1>7 DEF Ordered

\* A part that not every policy has.
LEMMA Optionally ==
  ASSUME NEW id, NEW have, NEW c \in BOOLEAN, NEW e, c => EntryFits(id, e),
         c => (e.file = "bundle.json" => Covers(id, e.content, have))
  PROVE  /\ Ordered(id, have, If(c, <<e>>))
         /\ FilesOf(If(c, <<e>>)) = IF c THEN {e.file} ELSE {}
<1>1. CASE c BY <1>1, Single DEF If
<1>2. CASE ~c BY <1>2, Nothing DEF If
<1> QED BY <1>1, <1>2

\* The fixtures and what becomes of the sidecars.
LEMMA ExtrasOrdered ==
  ASSUME TreeFits, FixturesFit, NEW have
  PROVE  Ordered(BundleId, have, Extras) /\ Sidecars \subseteq FilesOf(Extras)
<1> DEFINE id == BundleId
           f == Entry("fixtures", Fixtures)
           c == Entry("constants", Constants)
           r == Entry("robot_client", checkout.version)
           s == Entry("client_stats", tree.stats)
           ifc == If(HasConstants, <<c>>)
           ifr == If(HasRobotClient, <<r>>)
           ifs == If(ClientStats, <<s>>)
           one == <<f>>
           two == one \o ifc
           three == two \o ifr
           four == three \o ifs
<1>1. f.file = "fixtures" /\ c.file = "constants" /\ r.file = "robot_client" /\ s.file = "client_stats"
  BY DEF Entry
<1>2. GraphNames \cap {"fixtures", "constants", "robot_client", "client_stats"} = {}
  BY PackingAssumption DEF GraphNames
<1>3. EntryFits(id, f)
  BY <1>1, <1>2, FixturesUnderstood DEF EntryFits, Entry, BundleId
<1>4. EntryFits(id, c) /\ EntryFits(id, r) /\ EntryFits(id, s) BY <1>1, <1>2 DEF EntryFits
<1>5. HasConstants \in BOOLEAN /\ HasRobotClient \in BOOLEAN /\ ClientStats \in BOOLEAN
  BY DEF HasConstants, HasRobotClient, ClientStats
<1> HIDE DEF id, f, c, r, s
<1>6. Ordered(id, have, one) /\ FilesOf(one) = {"fixtures"}
  BY <1>1, <1>3, Single
<1>7. \A more : Ordered(id, more, ifc) /\ FilesOf(ifc) = IF HasConstants THEN {"constants"} ELSE {}
  BY <1>1, <1>4, <1>5, Optionally
<1>8. \A more : Ordered(id, more, ifr) /\ FilesOf(ifr) = IF HasRobotClient THEN {"robot_client"} ELSE {}
  BY <1>1, <1>4, <1>5, Optionally
<1>9. \A more : Ordered(id, more, ifs) /\ FilesOf(ifs) = IF ClientStats THEN {"client_stats"} ELSE {}
  BY <1>1, <1>4, <1>5, Optionally
<1> HIDE DEF one, ifc, ifr, ifs, two, three, four
<1>10. Ordered(id, have, two) /\ FilesOf(one) \subseteq FilesOf(two) /\ FilesOf(ifc) \subseteq FilesOf(two)
  <2>1. Ordered(id, have, one) BY <1>6
  <2>2. Ordered(id, have \cup FilesOf(one), ifc) BY <1>7
  <2>3. two = one \o ifc BY DEF two
  <2>4. Ordered(id, have, two) BY <2>1, <2>2, <2>3, InTurn
  <2>5. IsSequence(one) /\ IsSequence(ifc) BY <2>1, <2>2 DEF Ordered
  <2> QED BY <2>3, <2>4, <2>5, FilesInTurn
<1>11. Ordered(id, have, three) /\ FilesOf(two) \subseteq FilesOf(three) /\ FilesOf(ifr) \subseteq FilesOf(three)
  <2>1. Ordered(id, have, two) BY <1>10
  <2>2. Ordered(id, have \cup FilesOf(two), ifr) BY <1>8
  <2>3. three = two \o ifr BY DEF three
  <2>4. Ordered(id, have, three) BY <2>1, <2>2, <2>3, InTurn
  <2>5. IsSequence(two) /\ IsSequence(ifr) BY <2>1, <2>2 DEF Ordered
  <2> QED BY <2>3, <2>4, <2>5, FilesInTurn
<1>12. Ordered(id, have, four) /\ FilesOf(three) \subseteq FilesOf(four) /\ FilesOf(ifs) \subseteq FilesOf(four)
  <2>1. Ordered(id, have, three) BY <1>11
  <2>2. Ordered(id, have \cup FilesOf(three), ifs) BY <1>9
  <2>3. four = three \o ifs BY DEF four
  <2>4. Ordered(id, have, four) BY <2>1, <2>2, <2>3, InTurn
  <2>5. IsSequence(three) /\ IsSequence(ifs) BY <2>1, <2>2 DEF Ordered
  <2> QED BY <2>3, <2>4, <2>5, FilesInTurn
<1>13. Extras = four
  BY DEF Extras, four, three, two, one, ifc, ifr, ifs, f, c, r, s
<1>14. Sidecars \subseteq FilesOf(four)
  BY <1>7, <1>8, <1>9, <1>10, <1>11, <1>12 DEF Sidecars
<1> QED BY <1>12, <1>13, <1>14 DEF id

\* All of it: the manifest comes last.
LEMMA BundledOrdered ==
  ASSUME TreeFits, Resolvable, FixturesFit, NEW have
  PROVE  Ordered(BundleId, have, Bundled) /\ Bundled # <<>>
<1> DEFINE id == BundleId
           p == Json("plan.json", checkout.version)
           b == Json("bundle.json", Manifest(Resolved, Sidecars))
           m == Models \o Extras
<1>1. p.file = "plan.json" /\ b.file = "bundle.json" /\ b.content = Manifest(Resolved, Sidecars)
  BY DEF Json
<1>2. GraphNames \cap {"plan.json", "bundle.json"} = {} BY PackingAssumption DEF GraphNames
<1>3. EntryFits(id, p) /\ EntryFits(id, b) BY <1>1, <1>2 DEF EntryFits
<1>4. Ordered(id, have, Models) /\ FilesOf(Models) = GraphNames BY ModelsOrdered
<1>5. \A more : Ordered(id, more, Extras) /\ Sidecars \subseteq FilesOf(Extras) BY ExtrasOrdered
<1>6. Manifest(Resolved, Sidecars).elf = id.elf /\ Manifest(Resolved, Sidecars).sidecars = Sidecars
  BY DEF Manifest, BundleId
<1> DEFINE a == Models  e == Extras  pp == <<p>>  bb == <<b>>  q == m \o pp
<1> HIDE DEF id, p, b
<1>7. Ordered(id, have, m) /\ FilesOf(a) \subseteq FilesOf(m) /\ FilesOf(e) \subseteq FilesOf(m)
  <2> HIDE DEF a, e, m
  <2>1. Ordered(id, have, a) BY <1>4 DEF a, id
  <2>2. Ordered(id, have \cup FilesOf(a), e) BY <1>5 DEF e, id
  <2>3. m = a \o e BY DEF m, a, e
  <2>4. Ordered(id, have, m) BY <2>1, <2>2, <2>3, InTurn
  <2>5. IsSequence(a) /\ IsSequence(e) BY <2>1, <2>2 DEF Ordered
  <2> QED BY <2>3, <2>4, <2>5, FilesInTurn
<1>8. GraphNames \subseteq FilesOf(m) /\ Sidecars \subseteq FilesOf(m)
  BY <1>4, <1>5, <1>7
<1> HIDE DEF m
<1>9. Ordered(id, have \cup FilesOf(m), pp) BY <1>1, <1>3, Single
<1> HIDE DEF pp, q
<1>10. Ordered(id, have, q) /\ FilesOf(m) \subseteq FilesOf(q) /\ FilesOf(pp) \subseteq FilesOf(q)
  <2>1. q = m \o pp BY DEF q
  <2>2. Ordered(id, have, q) BY <1>7, <1>9, <2>1, InTurn
  <2>3. IsSequence(m) /\ IsSequence(pp) BY <1>7, <1>9 DEF Ordered
  <2> QED BY <2>1, <2>2, <2>3, FilesInTurn
<1>11. Covers(id, b.content, have \cup FilesOf(q)) BY <1>1, <1>6, <1>8, <1>10 DEF Covers
<1>12. Ordered(id, have \cup FilesOf(q), bb) /\ FilesOf(bb) = {"bundle.json"}
  BY <1>1, <1>3, <1>11, Single
<1> HIDE DEF bb
<1>13. Ordered(id, have, q \o bb)
  <2>1. Ordered(id, have, q) BY <1>10
  <2>2. Ordered(id, have \cup FilesOf(q), bb) BY <1>12
  <2>3. PICK s : s = q \o bb OBVIOUS
  <2>4. Ordered(id, have, s) BY <2>1, <2>2, <2>3, InTurn
  <2> QED BY <2>3, <2>4
<1>14. Bundled = q \o bb BY DEF Bundled, q, m, pp, bb, p, b
<1>15. q \o bb # <<>>
  <2>1. DOMAIN (q \o bb) = 1 .. Len(q) + Len(bb) /\ Len(q) \in Nat
    BY <1>10, <1>12, Concatenation DEF Ordered
  <2>2. Len(bb) = 1 BY DEF bb
  <2>3. 1 \in DOMAIN (q \o bb) BY <2>1, <2>2
  <2> QED BY <2>3
<1> QED BY <1>13, <1>14, <1>15 DEF id

------------------------------------------------------------------------------
(* What a hydration is to write *)

LEMMA Conditionally ==
  ASSUME NEW id, NEW have, NEW c \in BOOLEAN, NEW s, c => Ordered(id, have, s)
  PROVE  Ordered(id, have, If(c, s))
<1>1. CASE c BY <1>1 DEF If
<1>2. CASE ~c BY <1>2, Nothing DEF If
<1> QED BY <1>1, <1>2

\* It rewrites the manifest of a whole bundle for files that are in place by then.
LEMMA HydrationOrdered ==
  ASSUME StoreFits, NEW id \in DOMAIN store, Whole(id)
  PROVE  Ordered(id, Filed(id), Hydration(id))
<1> DEFINE have == Filed(id)
           old == store[id]["bundle.json"]
           now == Manifest(old.elf, old.sidecars)
           kept == Content(id, "fixtures")
           r == Entry("robot_client", checkout.version)
           s == Entry("client_stats", IF kept = Partial THEN Partial ELSE kept.stats)
           ifr == If(id.policy \in {"act", "smolvla"}, <<r>>)
           ifs == If(id.policy = "act" /\ (kept = Partial \/ kept.stats # None), <<s>>)
           files == ifr \o ifs
           full == Manifest(old.elf, old.sidecars \cup {e.file : e \in Elements(files)})
           stale == \E e \in Elements(files) : Content(id, e.file) # e.content
           first == If(now # old, <<Json("bundle.json", now)>>)
           last == If(stale \/ full # now, <<Json("bundle.json", full)>>)
           rest == If(id.policy \in {"act", "smolvla"} => checkout.complete, files \o last)
<1>1. Covers(id, old, have) BY DEF StoreFits, BundleFits
<1>2. Covers(id, now, have) BY <1>1 DEF Covers, Manifest
<1>3. GraphNames \cap {"robot_client", "client_stats", "bundle.json"} = {}
  BY PackingAssumption DEF GraphNames
<1>4. EntryFits(id, r) /\ EntryFits(id, s) /\ r.file = "robot_client" /\ s.file = "client_stats"
  BY <1>3 DEF EntryFits, Entry
<1>5. \A m : /\ EntryFits(id, Json("bundle.json", m)) /\ Json("bundle.json", m).content = m
             /\ Json("bundle.json", m).file = "bundle.json"
  BY <1>3 DEF EntryFits, Json
<1>6. Hydration(id) = first \o rest BY DEF Hydration
<1>7. full.elf = old.elf /\ full.sidecars = old.sidecars \cup {e.file : e \in Elements(files)}
  BY DEF Manifest
<1>8. \A more : Ordered(id, more, ifr)
  <2> DEFINE c == id.policy \in {"act", "smolvla"}
  <2> HIDE DEF r
  <2>1. \A more : Ordered(id, more, <<r>>) BY <1>4, Single
  <2>2. CASE c BY <2>1, <2>2 DEF If
  <2>3. CASE ~c BY <2>3, Nothing DEF If
  <2> QED BY <2>2, <2>3
<1>9. \A more : Ordered(id, more, ifs)
  <2> DEFINE c == id.policy = "act" /\ (kept = Partial \/ kept.stats # None)
  <2> HIDE DEF s
  <2>1. \A more : Ordered(id, more, <<s>>) BY <1>4, Single
  <2>2. CASE c BY <2>1, <2>2 DEF If
  <2>3. CASE ~c BY <2>3, Nothing DEF If
  <2> QED BY <2>2, <2>3
<1>10. \A e \in Elements(files) : e.file \in FilesOf(files) BY DEF Elements, FilesOf
<1> HIDE DEF have, old, now, kept, r, s, ifr, ifs, files, full
<1>11. Ordered(id, have, files)
  <2>1. Ordered(id, have \cup FilesOf(ifr), ifs) BY <1>9
  <2>2. files = ifr \o ifs BY DEF files
  <2> QED BY <1>8, <2>1, <2>2, InTurn
<1>12. Covers(id, full, have \cup FilesOf(files))
  BY <1>1, <1>7, <1>10 DEF Covers
<1>13. Ordered(id, have \cup FilesOf(files), last)
  <2> DEFINE c == stale \/ full # now
             e == Json("bundle.json", full)
             more == have \cup FilesOf(files)
  <2>1. EntryFits(id, e) /\ (e.file = "bundle.json" => Covers(id, e.content, more))
    BY <1>5, <1>12
  <2> HIDE DEF e, more
  <2>2. Ordered(id, more, <<e>>) BY <2>1, Single
  <2>3. CASE c BY <2>2, <2>3 DEF If, e, more
  <2>4. CASE ~c BY <2>4, Nothing DEF If
  <2> QED BY <2>3, <2>4
<1>14. Ordered(id, have \cup FilesOf(first), first) /\ Ordered(id, have, first)
  <2> DEFINE c == now # old
             e == Json("bundle.json", now)
  <2>1. EntryFits(id, e) /\ (e.file = "bundle.json" => Covers(id, e.content, have))
    BY <1>2, <1>5
  <2> HIDE DEF e
  <2>2. Ordered(id, have, <<e>>) BY <2>1, Single
  <2>3. Ordered(id, have, first)
    <3>1. CASE c BY <2>2, <3>1 DEF If, first, e
    <3>2. CASE ~c BY <3>2, Nothing DEF If, first
    <3> QED BY <3>1, <3>2
  <2> QED BY <2>3, WithMore
<1> HIDE DEF last, first
<1>15. Ordered(id, have, files \o last)
  <2>1. PICK whole : whole = files \o last OBVIOUS
  <2>2. Ordered(id, have, whole) BY <1>11, <1>13, <2>1, InTurn
  <2> QED BY <2>1, <2>2
<1>16. Ordered(id, have, rest) BY <1>15, Conditionally
<1> HIDE DEF rest
<1>17. Ordered(id, have \cup FilesOf(first), rest) BY <1>16, WithMore
<1>18. Ordered(id, have, first \o rest)
  <2>1. PICK whole : whole = first \o rest OBVIOUS
  <2>2. Ordered(id, have, whole) BY <1>14, <1>17, <2>1, InTurn
  <2> QED BY <2>1, <2>2
<1> QED BY <1>6, <1>18 DEF have

------------------------------------------------------------------------------
(* Every step keeps the invariant *)

\* A bundle that is left alone stays as it fits.
LEMMA LeftAlone ==
  ASSUME NEW id \in DOMAIN store, id \in DOMAIN store', store'[id] = store[id], BundleFits(id)
  PROVE  BundleFits(id)' /\ Filed(id)' = Filed(id)
  BY DEF BundleFits, Whole, Content, Filed

LEMMA StoreUnchanged == ASSUME StoreFits, store' = store PROVE StoreFits'
<1>1. \A id \in DOMAIN store : BundleFits(id)' BY LeftAlone DEF StoreFits
<1> QED BY <1>1 DEF StoreFits

LEMMA TreeUnchanged == ASSUME TreeFits, tree' = tree PROVE TreeFits'
  BY DEF TreeFits, InPlace

LEMMA IdleFits == ASSUME work' = Idle PROVE WorkFits'
  BY DEF WorkFits, Idle

\* What is in the store when a file of the bundle being written is put there.
LEMMA PutAt ==
  ASSUME NEW file, NEW content, Put(file, content), work.id \in DOMAIN store
  PROVE  /\ DOMAIN store' = DOMAIN store
         /\ \A id \in DOMAIN store : id # work.id => store'[id] = store[id]
         /\ DOMAIN store'[work.id] = DOMAIN store[work.id] \cup {file}
         /\ store'[work.id][file] = content
         /\ \A f \in DOMAIN store[work.id] : f # file => store'[work.id][f] = store[work.id][f]
<1> DEFINE new == [f \in DOMAIN store[work.id] \cup {file} |->
                     IF f = file THEN content ELSE store[work.id][f]]
<1>1. store' = [store EXCEPT ![work.id] = new] BY DEF Put
<1>2. /\ DOMAIN new = DOMAIN store[work.id] \cup {file} /\ new[file] = content
      /\ \A f \in DOMAIN store[work.id] : f # file => new[f] = store[work.id][f]
  OBVIOUS
<1> HIDE DEF new
<1>3. DOMAIN store' = DOMAIN store /\ store'[work.id] = new
      /\ \A id \in DOMAIN store : id # work.id => store'[id] = store[id]
  BY <1>1
<1> QED BY <1>2, <1>3

\* An entry written whole: the bundle fits, with that file in place too.
LEMMA EntryWritten ==
  ASSUME StoreFits, NEW id \in DOMAIN store, id = work.id, NEW e, EntryFits(id, e),
         Put(e.file, e.content), e.file = "bundle.json" => Covers(id, e.content, Filed(id))
  PROVE  StoreFits' /\ Filed(id) \cup {e.file} \subseteq Filed(id)'
                    /\ DOMAIN store' = DOMAIN store
<1> DEFINE was == store[id]
           is == store'[id]
<1>0. IdFits(id) /\ BundleFits(id) BY DEF StoreFits, BundleFits
<1>1. /\ DOMAIN store' = DOMAIN store /\ DOMAIN is = DOMAIN was \cup {e.file}
      /\ is[e.file] = e.content /\ \A f \in DOMAIN was : f # e.file => is[f] = was[f]
      /\ \A i \in DOMAIN store : i # id => store'[i] = store[i]
  BY PutAt
<1> DEFINE now == {f \in DOMAIN is : f \in GraphNames => is[f] = id.elf[f]}
           before == {f \in DOMAIN was : f \in GraphNames => was[f] = id.elf[f]}
<1>2. before \cup {e.file} \subseteq now BY <1>1 DEF EntryFits
<1>3. ("bundle.json" \in DOMAIN is /\ is["bundle.json"] \notin {None, Partial}) =>
         Covers(id, is["bundle.json"], now)
  <2>1. CASE e.file = "bundle.json"
    <3>1. Covers(id, e.content, before) BY <2>1 DEF Filed
    <3> QED BY <1>1, <1>2, <2>1, <3>1 DEF Covers
  <2>2. CASE e.file # "bundle.json"
    <3>1. ("bundle.json" \in DOMAIN was /\ was["bundle.json"] \notin {None, Partial}) =>
            Covers(id, was["bundle.json"], before)
      BY <1>0 DEF BundleFits, Whole, Content, Filed
    <3> QED BY <1>1, <1>2, <2>2, <3>1 DEF Covers
  <2> QED BY <2>1, <2>2
<1>4. ("fixtures" \in DOMAIN is /\ is["fixtures"] \notin {None, Partial}) =>
         Understood(id.policy, is["fixtures"])
  BY <1>0, <1>1 DEF EntryFits, BundleFits, Content
<1>5. \A i \in DOMAIN store : i # id => BundleFits(i)' BY <1>1, LeftAlone DEF StoreFits
<1>6. ASSUME NEW i \in DOMAIN store, i = id PROVE BundleFits(i)'
  BY <1>0, <1>3, <1>4, <1>6 DEF BundleFits, Whole, Content, Filed
<1> QED BY <1>1, <1>2, <1>5, <1>6 DEF StoreFits, Filed

\* An entry cut short: whole manifests list no file that could be in the making, for what
\* is in place already is not written again.
LEMMA EntryCutShort ==
  ASSUME StoreFits, NEW id \in DOMAIN store, id = work.id, NEW e, EntryFits(id, e),
         ~UpToDate(e), Put(e.file, Partial)
  PROVE  StoreFits'
<1> DEFINE was == store[id]
           is == store'[id]
<1>0. IdFits(id) /\ BundleFits(id) BY DEF StoreFits, BundleFits
<1>1. /\ DOMAIN store' = DOMAIN store /\ DOMAIN is = DOMAIN was \cup {e.file}
      /\ is[e.file] = Partial /\ \A f \in DOMAIN was : f # e.file => is[f] = was[f]
      /\ \A i \in DOMAIN store : i # id => store'[i] = store[i]
  BY PutAt
<1> DEFINE now == {f \in DOMAIN is : f \in GraphNames => is[f] = id.elf[f]}
           before == {f \in DOMAIN was : f \in GraphNames => was[f] = id.elf[f]}
<1>2. ("bundle.json" \in DOMAIN is /\ is["bundle.json"] \notin {None, Partial}) =>
         Covers(id, is["bundle.json"], now)
  <2>1. CASE e.file = "bundle.json" BY <1>1, <2>1
  <2>2. CASE e.file # "bundle.json" /\ e.file \in GraphNames
    <3>1. e.file \notin before BY <2>2 DEF EntryFits, UpToDate
    <3>2. ("bundle.json" \in DOMAIN was /\ was["bundle.json"] \notin {None, Partial}) =>
            GraphNames \subseteq before
      BY <1>0 DEF BundleFits, Whole, Content, Filed, Covers
    <3> QED BY <1>1, <2>2, <3>1, <3>2
  <2>3. CASE e.file # "bundle.json" /\ e.file \notin GraphNames
    <3>1. before \subseteq now BY <1>1, <2>3
    <3>2. ("bundle.json" \in DOMAIN was /\ was["bundle.json"] \notin {None, Partial}) =>
            Covers(id, was["bundle.json"], before)
      BY <1>0 DEF BundleFits, Whole, Content, Filed
    <3> QED BY <1>1, <2>3, <3>1, <3>2 DEF Covers
  <2> QED BY <2>1, <2>2, <2>3
<1>3. ("fixtures" \in DOMAIN is /\ is["fixtures"] \notin {None, Partial}) =>
         Understood(id.policy, is["fixtures"])
  BY <1>0, <1>1 DEF BundleFits, Content
<1>4. \A i \in DOMAIN store : i # id => BundleFits(i)' BY <1>1, LeftAlone DEF StoreFits
<1>5. ASSUME NEW i \in DOMAIN store, i = id PROVE BundleFits(i)'
  BY <1>0, <1>2, <1>3, <1>5 DEF BundleFits, Whole, Content, Filed
<1> QED BY <1>1, <1>4, <1>5 DEF StoreFits

LEMMA PackStep == ASSUME PackingInv, Pack PROVE PackingInv'
<1>1. CASE ~(Resolvable /\ FixturesFit /\ SidecarsFit /\ RobotClientFits)
  <2>1. tree' = tree /\ store' = store /\ work' = Idle BY <1>1 DEF Pack
  <2> QED BY <2>1, TreeUnchanged, StoreUnchanged, IdleFits DEF PackingInv
<1>2. CASE Resolvable /\ FixturesFit /\ SidecarsFit /\ RobotClientFits
  <2> DEFINE id == BundleId  todo == Bundled  ids == DOMAIN store \cup {id}
  <2>1. /\ tree' = tree /\ work' = [id |-> id, todo |-> todo]
        /\ store' = [i \in ids |-> IF i \in DOMAIN store THEN store[i] ELSE <<>>]
    BY <1>2 DEF Pack
  <2>2. IdFits(id) BY <1>2, IdOfTree DEF PackingInv
  <2>3. \A have : Ordered(id, have, todo) /\ todo # <<>> BY <1>2, BundledOrdered DEF PackingInv
  <2> HIDE DEF id, todo
  <2>4. /\ DOMAIN store' = ids /\ \A i \in DOMAIN store : store'[i] = store[i]
        /\ id \notin DOMAIN store => store'[id] = <<>>
    BY <2>1
  <2>5. \A i \in DOMAIN store : BundleFits(i)' BY <2>4, LeftAlone DEF PackingInv, StoreFits
  <2>6. ASSUME NEW i \in ids, i \notin DOMAIN store PROVE BundleFits(i)'
    <3>1. i = id /\ DOMAIN store'[i] = {} BY <2>4, <2>6
    <3> QED BY <2>2, <3>1 DEF BundleFits, Whole, Content
  <2>7. StoreFits' BY <2>4, <2>5, <2>6 DEF StoreFits
  <2>8. work'.id = id /\ work'.todo = todo BY <2>1
  <2>9. WorkFits' BY <2>1, <2>3, <2>4, <2>8 DEF WorkFits
  <2> QED BY <2>1, <2>7, <2>9, TreeUnchanged DEF PackingInv
<1> QED BY <1>1, <1>2

LEMMA WriteStep == ASSUME PackingInv, Write PROVE PackingInv'
<1>0. PICK id : id = work.id OBVIOUS
<1> DEFINE s == work.todo  e == Head(s)  t == Tail(s)
<1>1. s # <<>> /\ tree' = tree BY DEF Write
<1>2. work # Idle BY <1>1 DEF Idle
<1>3. id \in DOMAIN store /\ Ordered(id, Filed(id), s) BY <1>0, <1>2 DEF PackingInv, WorkFits
<1>4. /\ Ordered(id, Filed(id) \cup {e.file}, t)
      /\ EntryFits(id, e)
      /\ e.file = "bundle.json" => Covers(id, e.content, Filed(id))
      /\ Len(s) = 1 \/ t # <<>>
  BY <1>1, <1>3, TheRest
<1> HIDE DEF e
<1>5. StoreFits' /\ Filed(id) \cup {e.file} \subseteq Filed(id)' /\ DOMAIN store' = DOMAIN store
  <2>1. CASE UpToDate(e)
    <3>1. store' = store BY <2>1 DEF Write, e
    <3>2. e.file \in Filed(id) BY <1>0, <1>4, <2>1 DEF UpToDate, Filed, EntryFits
    <3> QED BY <3>1, <3>2, StoreUnchanged DEF PackingInv, Filed
  <2>2. CASE ~UpToDate(e)
    <3>1. Put(e.file, e.content) BY <2>2 DEF Write, e
    <3> QED BY <1>0, <1>3, <1>4, <3>1, EntryWritten DEF PackingInv
  <2> QED BY <2>1, <2>2
<1>6. WorkFits'
  <2>1. CASE Len(s) = 1
    <3>1. work' = Idle BY <2>1 DEF Write
    <3> QED BY <3>1, IdleFits
  <2>2. CASE Len(s) # 1
    <3>1. work' = [work EXCEPT !.todo = t] BY <2>2 DEF Write
    <3>2. work = [id |-> id, todo |-> s] BY <1>0 DEF PackingInv, WorkFits
    <3>3. work' = [id |-> id, todo |-> t]
      <4> HIDE DEF s, t
      <4>1. \A rest : [work EXCEPT !.todo = rest] = [id |-> id, todo |-> rest] BY <3>2
      <4> QED BY <3>1, <4>1
    <3>4. work'.id = id /\ work'.todo = t BY <3>3
    <3>5. t # <<>> BY <1>4, <2>2
    <3> HIDE DEF t
    <3> DEFINE more == Filed(id)'
    <3>6. Filed(id) \cup {e.file} \subseteq more BY <1>5
    <3> HIDE DEF more
    <3>7. Ordered(id, more, t) BY <1>4, <3>6, WithMore
    <3>8. Filed(work.id)' = more BY <3>4 DEF more, Filed
    <3> QED BY <1>3, <1>5, <3>3, <3>4, <3>5, <3>7, <3>8 DEF WorkFits
  <2> QED BY <2>1, <2>2
<1> QED BY <1>1, <1>5, <1>6, TreeUnchanged DEF PackingInv

LEMMA KilledStep == ASSUME PackingInv, Killed PROVE PackingInv'
<1> DEFINE e == Head(work.todo)
<1>1. work # Idle /\ work' = Idle /\ tree' = tree BY DEF Killed
<1>2. CASE store' = store
  BY <1>1, <1>2, TreeUnchanged, StoreUnchanged, IdleFits DEF PackingInv
<1>3. CASE ~UpToDate(e) /\ Put(e.file, Partial)
  <2>1. PICK id \in DOMAIN store : id = work.id BY <1>1 DEF PackingInv, WorkFits
  <2>2. work.todo # <<>> /\ Ordered(id, Filed(id), work.todo)
    BY <1>1, <2>1 DEF PackingInv, WorkFits
  <2>3. EntryFits(id, e) BY <2>2, TheRest
  <2> HIDE DEF e
  <2>4. StoreFits' BY <1>3, <2>1, <2>3, EntryCutShort DEF PackingInv
  <2> QED BY <1>1, <2>4, TreeUnchanged, IdleFits DEF PackingInv
<1> QED BY <1>2, <1>3 DEF Killed

LEMMA HydrateStep == ASSUME PackingInv, NEW id \in DOMAIN store, Hydrate(id) PROVE PackingInv'
<1> DEFINE h == Hydration(id)
<1>1. /\ Whole(id) /\ tree' = tree /\ store' = store
      /\ work' = IF h = <<>> THEN Idle ELSE [id |-> id, todo |-> h]
  BY DEF Hydrate
<1>2. Ordered(id, Filed(id), h) BY <1>1, HydrationOrdered DEF PackingInv
<1> HIDE DEF h
<1>3. CASE h = <<>>
  BY <1>1, <1>3, TreeUnchanged, StoreUnchanged, IdleFits DEF PackingInv
<1>4. CASE h # <<>>
  <2>1. work' = [id |-> id, todo |-> h] BY <1>1, <1>4
  <2>2. work'.id = id /\ work'.todo = h BY <2>1
  <2>3. Filed(work.id)' = Filed(id) BY <1>1, <2>2 DEF Filed
  <2>4. WorkFits' BY <1>1, <1>2, <1>4, <2>1, <2>2, <2>3 DEF WorkFits
  <2> QED BY <1>1, <2>4, TreeUnchanged, StoreUnchanged DEF PackingInv
<1> QED BY <1>3, <1>4

\* The tree and the checkout change only while no command writes.
LEMMA CompileStep == ASSUME PackingInv, NEW g \in GraphNames, Compile(g) PROVE PackingInv'
<1> DEFINE new == [graph |-> g, from |-> "compiled"]
           was == tree.elf[g]
           is == [was EXCEPT !["own"] = new, !["retained"] = new]
           elf == [tree.elf EXCEPT ![g] = is]
<1>1. work' = Idle /\ store' = store BY DEF Compile
<1>2. tree \in Trees /\ InPlace(tree) BY DEF PackingInv, TreeFits
<1>3. tree' = [tree EXCEPT !.elf = elf] BY DEF Compile
<1>4. new \in ELFs /\ new.graph = g /\ new.from = "compiled" BY DEF ELFs, GraphNames
<1>5. was \in [Places -> ELFs \cup {None}] BY <1>2 DEF Trees, GraphNames
<1> HIDE DEF new
<1>6. is \in [Places -> ELFs \cup {None}] BY <1>4, <1>5
<1>7. \A p \in Places : is[p] = was[p] \/ is[p] = new BY <1>5
<1> HIDE DEF is
<1>8. elf \in [GraphNames -> [Places -> ELFs \cup {None}]]
      /\ elf[g] = is /\ \A h \in GraphNames : h # g => elf[h] = tree.elf[h]
  BY <1>2, <1>6 DEF Trees, GraphNames
<1>9. ASSUME NEW h \in GraphNames, NEW p \in Places, elf[h][p] # None
      PROVE  /\ elf[h][p].graph = h
             /\ elf[h][p].from = "retained_rejected" => p = "retained_rejected"
  <2>1. CASE h = g /\ is[p] = new BY <1>4, <1>8, <2>1
  <2>2. CASE h # g \/ is[p] # new
    <3>1. elf[h][p] = tree.elf[h][p] BY <1>7, <1>8, <2>2
    <3> QED BY <1>2, <1>9, <3>1 DEF InPlace, GraphNames
  <2> QED BY <2>1, <2>2
<1> HIDE DEF elf
<1>10. tree' \in Trees /\ tree'.elf = elf /\ tree'.direct = tree.direct /\ tree'.policy = tree.policy
  BY <1>2, <1>3, <1>8 DEF Trees, GraphNames
<1>11. InPlace(tree') BY <1>2, <1>9, <1>10 DEF InPlace, GraphNames
<1>12. TreeFits' BY <1>10, <1>11 DEF TreeFits
<1> QED BY <1>1, <1>12, StoreUnchanged, IdleFits DEF PackingInv

LEMMA ExportStep ==
  ASSUME PackingInv, ExportFixtures \/ ExportNormalization PROVE PackingInv'
<1>1. work' = Idle /\ store' = store BY DEF ExportFixtures, ExportNormalization
<1>2. tree \in Trees /\ InPlace(tree) BY DEF PackingInv, TreeFits
<1>3. tree' \in Trees /\ tree'.elf = tree.elf /\ tree'.policy = tree.policy
      /\ (tree'.direct => tree.direct \/ tree.policy = "act")
  <2>1. CASE ExportFixtures
    <3>1. tree.fixture + 1 \in Nat BY <1>2 DEF Trees
    <3> QED BY <1>2, <2>1, <3>1 DEF ExportFixtures, Trees
  <2>2. CASE ExportNormalization BY <1>2, <2>2 DEF ExportNormalization, Trees
  <2> QED BY <2>1, <2>2
<1>4. InPlace(tree') BY <1>2, <1>3 DEF InPlace
<1>5. TreeFits' BY <1>3, <1>4 DEF TreeFits
<1> QED BY <1>1, <1>5, StoreUnchanged, IdleFits DEF PackingInv

LEMMA FirstTree == ASSUME Init PROVE PackingInv
<1>1. TreeFits BY PackingAssumption DEF Init, TreeFits
<1>2. store = <<>> /\ DOMAIN <<>> = {} BY DEF Init
<1> QED BY <1>1, <1>2 DEF Init, PackingInv, StoreFits, WorkFits, Idle

LEMMA EveryStep == ASSUME PackingInv, [Next]_vars PROVE PackingInv'
<1>1. CASE Pack BY <1>1, PackStep
<1>2. CASE Write BY <1>2, WriteStep
<1>3. CASE Killed BY <1>3, KilledStep
<1>4. ASSUME NEW id \in DOMAIN store, Hydrate(id) PROVE PackingInv' BY <1>4, HydrateStep
<1>5. ASSUME NEW g \in Elements(Graphs), Compile(g) PROVE PackingInv'
  BY <1>5, CompileStep DEF GraphNames
<1>6. CASE ExportFixtures \/ ExportNormalization BY <1>6, ExportStep
<1>7. CASE Checkout
  <2>1. tree' = tree /\ store' = store /\ work' = Idle BY <1>7 DEF Checkout
  <2> QED BY <2>1, TreeUnchanged, StoreUnchanged, IdleFits DEF PackingInv
<1>8. CASE UNCHANGED vars
  <2>1. tree' = tree /\ store' = store /\ work' = work BY <1>8 DEF vars
  <2>2. \A id : Filed(id)' = Filed(id) BY <2>1 DEF Filed
  <2>3. WorkFits' BY <2>1, <2>2 DEF PackingInv, WorkFits, Filed
  <2> QED BY <2>1, <2>3, TreeUnchanged, StoreUnchanged DEF PackingInv
<1> QED BY <1>1, <1>2, <1>3, <1>4, <1>5, <1>6, <1>7, <1>8 DEF Next

LEMMA Packing == Spec => []PackingInv
<1>1. Init => PackingInv BY FirstTree
<1>2. PackingInv /\ [Next]_vars => PackingInv' BY EveryStep
<1> QED BY <1>1, <1>2, PTL DEF Spec

------------------------------------------------------------------------------
(* The theorems *)

\* What BundleIsItsManifest says, for every policy's graphs and every messy tree: packs that
\* die, packs begun again and hydrations never leave a readable manifest beside a file it
\* does not describe (pack.py:72-159, _copy 230-238).
THEOREM BundlesKept == Spec => []BundleIsItsManifest
<1>1. PackingInv => BundleIsItsManifest
  <2> SUFFICES ASSUME PackingInv, NEW id \in DOMAIN store, Whole(id)
               PROVE  LET manifest == store[id]["bundle.json"] IN
                      /\ manifest.elf = id.elf
                      /\ \A g \in Elements(Graphs) :
                           /\ Content(id, g) = manifest.elf[g]
                           /\ manifest.elf[g].graph = g
                           /\ manifest.elf[g].from # "retained_rejected"
                      /\ manifest.sidecars \subseteq DOMAIN store[id]
    BY DEF BundleIsItsManifest
  <2>1. Covers(id, store[id]["bundle.json"], Filed(id)) /\ IdFits(id)
    BY DEF PackingInv, StoreFits, BundleFits
  <2>2. \A g \in GraphNames : g \in DOMAIN store[id] /\ store[id][g] = id.elf[g]
    BY <2>1 DEF Covers, Filed
  <2>3. Filed(id) \subseteq DOMAIN store[id] BY DEF Filed
  <2> QED BY <2>1, <2>2, <2>3 DEF Covers, IdFits, Content, GraphNames
<1> QED BY <1>1, Packing, PTL

\* What FixturesAreOnWire says: whichever exporter wrote the archive, the fixtures a bundle
\* ships are a request in the wire's units, layout and widths, or none (collect_fixtures).
THEOREM FixturesKept == Spec => []FixturesAreOnWire
<1>1. PackingInv => FixturesAreOnWire
  BY DEF PackingInv, StoreFits, BundleFits, FixturesAreOnWire, Understood
<1> QED BY <1>1, Packing, PTL
=============================================================================
