--------------------------- MODULE BundlePacking ---------------------------
(***************************************************************************)
(* From a build tree to a bundle on the host (bundle/import_legacy.py,     *)
(* retained.py, pack.py, layout.py): which ELF of a messy tree each graph  *)
(* gets, what becomes of the exporter's fixtures and constants, and how    *)
(* the bundle is written, file by file, into the directory its id names.   *)
(* A pack may be killed at any file and begun again; polima-deploy         *)
(* brings a packed bundle's metadata and robot client up to date in place. *)
(* Nothing compiles or exports into the tree while it is being packed.     *)
(***************************************************************************)
EXTENDS Naturals, Sequences, FiniteSets

CONSTANTS Graphs,     \* the policy's graphs, in plan order
          BuildTrees, \* the trees that may be packed first
          MaxPacks, MaxExports, MaxCheckouts, \* bounds
          None, Partial  \* no file, and one whose writing was cut short

VARIABLES tree,     \* the build tree
          checkout, \* this checkout: its version, and whether a robot client is complete
          store,    \* outputs/bundles/: id |-> file |-> content
          work,     \* the command that is writing to the store
          packs     \* how many packs began, for MaxPacks

vars == <<tree, checkout, store, work, packs>>

Elements(s) == {s[k] : k \in DOMAIN s}
Idle == [id |-> None, todo |-> <<>>]

\* The first of several places that has something.
Found(s) == {k \in DOMAIN s : s[k] # None}
FirstOf(s) == s[CHOOSE k \in Found(s) : \A j \in Found(s) : k <= j]

-----------------------------------------------------------------------------
(* The ELFs of a tree.  tree.elf[g] holds, for each place, the ELF that lies there. *)

\* Where an ELF of a graph may lie: under its own name or another in the share/
\* directory of models_uncompressed/<graph>, in models/<graph>, in retained/<graph> and
\* in directories named after experiments, in an archive, under a legacy name.  An
\* archive holds none when the compiler put the graph on the APU.
EmptyArchive == "mpk_empty"
Places == {"own", "other", "second", "models", "retained", "retained_v2", "retained_v3",
           "retained_rejected", "mpk", EmptyArchive, "legacy"}

At(g, place) == tree.elf[g][place]

Sole(g, places) ==
    LET there == {p \in places : At(g, p) # None} IN
    IF Cardinality(there) = 1 THEN At(g, CHOOSE p \in there : TRUE) ELSE None

\* from_deployed_tree: the graph's own name, or else the only ELF of the directory.
Deployed(g) == IF At(g, "own") # None THEN At(g, "own") ELSE Sole(g, {"other", "second"})

\* Those whose directory names bear none of REJECTED_MARKERS.
Viable == {"retained_v2", "retained_v3"}

\* retained.select: the directory named exactly after the graph, or else the only one
\* that is not a rejected experiment.
Selected(g) == IF At(g, "retained") # None THEN At(g, "retained") ELSE Sole(g, Viable)

HasLegacyNames == tree.policy = "smolvla"

\* _resolve_one, for the graph's name and then for its legacy names.
Unpacked(g)   == <<Deployed(g), At(g, "models"), Selected(g)>>
Candidates(g) == Unpacked(g) \o <<At(g, "mpk"), IF HasLegacyNames THEN At(g, "legacy") ELSE None>>

\* from_mpk raises on an archive without an ELF, and nothing after it is tried.
Resolvable ==
    \A g \in Elements(Graphs) :
        /\ Found(Candidates(g)) # {}
        /\ Found(Unpacked(g)) # {} \/ At(g, EmptyArchive) = None
Resolved == [g \in Elements(Graphs) |-> FirstOf(Candidates(g))]

-----------------------------------------------------------------------------
(* The fixtures, in the terms of the wire *)

Image(layout)      == [layout |-> layout]
Lane(units, width) == [units |-> units, width |-> width]
AsDrawn            == [drawn |-> TRUE]

\* WireSpec.request_tensors of each policy, and the response `polima run' compares with
\* "expected".
ActWire     == [image0 |-> Image("hwc"), image1 |-> Image("hwc"),
                state |-> Lane("normalized", 6), expected |-> Lane("normalized", 6)]
SmolVLAWire == [image0 |-> Image("hwc"), image1 |-> Image("hwc"), state |-> Lane("raw", 6),
                noise |-> AsDrawn, expected |-> Lane("raw", 6)]
GrootWire   == [patches |-> AsDrawn, state |-> Lane("raw", 6), noise |-> AsDrawn]
Groot17Wire == [patches_0 |-> AsDrawn, patches_1 |-> AsDrawn, patches_2 |-> AsDrawn,
                patches_3 |-> AsDrawn, state |-> Lane("raw", 17), noise |-> AsDrawn]

Wire == [act |-> ActWire, smolvla |-> SmolVLAWire, groot |-> GrootWire, groot17 |-> Groot17Wire]

\* What write_fixtures of each policy puts in the archive.
ActArchive     == [camera0 |-> Image("nchw"), camera1 |-> Image("nchw"),
                   state |-> Lane("normalized", 6), normalized_action |-> Lane("normalized", 6)]
SmolVLAArchive == [image0 |-> Image("nchw"), image1 |-> Image("nchw"),
                   state |-> Lane("normalized", 6), noise |-> AsDrawn,
                   normalized_action |-> Lane("normalized", 6), action |-> Lane("raw", 6)]
GrootArchive   == [patches |-> AsDrawn, state |-> Lane("normalized", 128), noise |-> AsDrawn]
Groot17Archive == [patches |-> AsDrawn, state |-> Lane("normalized", 132), noise |-> AsDrawn]

Archive == [act |-> ActArchive, smolvla |-> SmolVLAArchive,
            groot |-> GrootArchive, groot17 |-> Groot17Archive]

HasArchive == tree.archive # "none"

\* Older exporters of SmolVLA recorded only the normalized action.
Archived ==
    LET all == Archive[tree.policy] IN
    IF tree.archive = "older" THEN [n \in DOMAIN all \ {"action"} |-> all[n]] ELSE all

\* ACT's direct_inputs/.
Direct == IF tree.direct THEN ActWire ELSE <<>>

Raw(v) == IF "units" \in DOMAIN v THEN [v EXCEPT !.units = "raw"] ELSE v

\* Mutant of OnWire: the normalized lane is what the client would send.
OnWireAsStored(v) == IF v = Image("nchw") THEN Image("hwc") ELSE v

\* SmolVLA's frames are sent HWC and its state raw; other policies' arrays go as they are.
OnWire(v) ==
    IF tree.policy # "smolvla" THEN v
    ELSE IF v = Image("nchw") THEN Image("hwc") ELSE Raw(v)

\* The archive's array for a wire tensor, and for the expected actions.
ArrayOf(t) ==
    IF t # "expected" THEN t
    ELSE IF tree.policy = "smolvla" /\ "action" \in DOMAIN Archived THEN "action"
    ELSE "normalized_action"

Optional == {"expected"}
FromArchive == DOMAIN Wire[tree.policy] \ DOMAIN Direct
Taken == {t \in FromArchive : HasArchive /\ ArrayOf(t) \in DOMAIN Archived}
Width(v) == IF "width" \in DOMAIN v THEN v.width ELSE 0

\* collect_fixtures raises when the archive lacks a tensor or holds one of another size,
\* or when a normalized lane comes without its statistics.
FixturesFit ==
    HasArchive =>
      /\ \A t \in FromArchive \ Optional : ArrayOf(t) \in DOMAIN Archived
      /\ \A t \in Taken : LET v == Archived[ArrayOf(t)] IN
           /\ Width(v) = Width(Wire[tree.policy][t])
           /\ OnWire(v) # v /\ "units" \in DOMAIN v => tree.stats # None

Inputs == [t \in Taken \cup DOMAIN Direct |->
             IF t \in Taken THEN OnWire(Archived[ArrayOf(t)]) ELSE Direct[t]]
Fixtures == [inputs |-> Inputs, of |-> tree.fixture, stats |-> tree.stats]

-----------------------------------------------------------------------------
(* collect_sidecars and collect_robot_files *)

HasConstants == tree.policy # "act"
HasRobotClient == tree.policy \in {"act", "smolvla"}

\* The normalization is in files of its own or in one packed file of the right length.
SidecarsFit == HasConstants => tree.constants # None /\ tree.moments \in {"own", "packed"}
Constants == [named |-> tree.constants, moments |-> tree.moments, stats |-> tree.stats]

RobotClientFits == HasRobotClient => checkout.complete

-----------------------------------------------------------------------------
(* The bundle's files, in the order build_bundle writes them *)

If(condition, s) == IF condition THEN s ELSE <<>>
Entry(file, content) == [file |-> file, content |-> content, always |-> FALSE]
Json(file, content)  == [file |-> file, content |-> content, always |-> TRUE]

\* compute_bundle_id: the ELFs' digests and the plan, which the policy fixes.
BundleId == [policy |-> tree.policy, elf |-> Resolved]

\* ACT's client reads the statistics at the root of the bundle.
ClientStats == tree.policy = "act" /\ tree.stats # None

Sidecars == {f \in {"constants"} : HasConstants} \cup {f \in {"robot_client"} : HasRobotClient}
            \cup {f \in {"client_stats"} : ClientStats}

Manifest(elf, sidecars) == [elf |-> elf, sidecars |-> sidecars, layout |-> checkout.version]

Models == [k \in DOMAIN Graphs |-> Entry(Graphs[k], Resolved[Graphs[k]])]
Extras ==
    <<Entry("fixtures", Fixtures)>>
    \o If(HasConstants, <<Entry("constants", Constants)>>)
    \o If(HasRobotClient, <<Entry("robot_client", checkout.version)>>)
    \o If(ClientStats, <<Entry("client_stats", tree.stats)>>)
Bundled ==
    Models \o Extras \o <<Json("plan.json", checkout.version)>>
    \o <<Json("bundle.json", Manifest(Resolved, Sidecars))>>

-----------------------------------------------------------------------------
(* The trees that are found *)

ELFs  == [graph : Elements(Graphs), from : Places \cup {"compiled"}]
Trees == [policy : DOMAIN Wire, elf : [Elements(Graphs) -> [Places -> ELFs \cup {None}]],
          archive : {"none", "older", "exported"}, direct : BOOLEAN, fixture : Nat,
          stats : Nat \cup {None}, constants : Nat \cup {None},
          moments : {"own", "packed", "short", "none"}]

\* An ELF lies under the name of its graph, one of a rejected experiment under a
\* rejected name; direct_inputs/ is ACT's.
InPlace(t) ==
    /\ t.direct => t.policy = "act"
    /\ \A g \in Elements(Graphs), p \in Places : t.elf[g][p] # None =>
         /\ t.elf[g][p].graph = g
         /\ t.elf[g][p].from = "retained_rejected" => p = "retained_rejected"

ASSUME PackingAssumption ==
    /\ Graphs \in Seq(Elements(Graphs))
    /\ Elements(Graphs) \cap {"fixtures", "constants", "robot_client", "client_stats",
                               "plan.json", "bundle.json"} = {}
    /\ \A t \in BuildTrees : t \in Trees /\ InPlace(t)

-----------------------------------------------------------------------------
(* The command that writes *)

Init ==
    /\ tree \in BuildTrees
    /\ checkout \in [version : {1}, complete : BOOLEAN]
    /\ store = <<>>
    /\ work = Idle
    /\ packs = 0

Pack ==
    /\ work = Idle
    /\ packs < MaxPacks /\ packs' = packs + 1
    /\ IF Resolvable /\ FixturesFit /\ SidecarsFit /\ RobotClientFits
       THEN /\ work' = [id |-> BundleId, todo |-> Bundled]
            /\ store' = [id \in DOMAIN store \cup {BundleId} |->
                           IF id \in DOMAIN store THEN store[id] ELSE <<>>]
       ELSE UNCHANGED <<work, store>>
    /\ UNCHANGED <<tree, checkout>>

Content(id, file) == IF file \in DOMAIN store[id] THEN store[id][file] ELSE None
Put(file, content) ==
    store' = [store EXCEPT ![work.id] = [f \in DOMAIN @ \cup {file} |->
                                           IF f = file THEN content ELSE store[work.id][f]]]

\* Mutant of UpToDate: a file that is there is not looked into.
UpToDateIfThere(e) == Content(work.id, e.file) # None

\* _copy looks for the file and compares size and digest.
UpToDate(e) == ~e.always /\ e.file \in DOMAIN store[work.id] /\ store[work.id][e.file] = e.content

Write ==
    /\ work.todo # <<>>
    /\ LET e == Head(work.todo) IN
       IF UpToDate(e) THEN UNCHANGED store ELSE Put(e.file, e.content)
    /\ work' = IF Len(work.todo) = 1 THEN Idle ELSE [work EXCEPT !.todo = Tail(@)]
    /\ UNCHANGED <<tree, checkout, packs>>

\* The command dies between two files, or within one.
Killed ==
    /\ work # Idle
    /\ work' = Idle
    /\ \/ UNCHANGED store
       \/ ~UpToDate(Head(work.todo)) /\ Put(Head(work.todo).file, Partial)
    /\ UNCHANGED <<tree, checkout, packs>>

\* hydrate_runtime_metadata and hydrate_robot_client, which polima-deploy calls.
Whole(id) == Content(id, "bundle.json") \notin {None, Partial}

Hydration(id) ==
    LET old == store[id]["bundle.json"]
        now == Manifest(old.elf, old.sidecars)
        kept == Content(id, "fixtures")
        client == If(id.policy \in {"act", "smolvla"}, <<Entry("robot_client", checkout.version)>>)
        stats == If(id.policy = "act" /\ (kept = Partial \/ kept.stats # None),
                    <<Entry("client_stats", IF kept = Partial THEN Partial ELSE kept.stats)>>)
        full == Manifest(old.elf, old.sidecars \cup {e.file : e \in Elements(client \o stats)})
        stale == \E e \in Elements(client \o stats) : Content(id, e.file) # e.content
    IN If(now # old, <<Json("bundle.json", now)>>)
       \o If(id.policy \in {"act", "smolvla"} => checkout.complete,
             client \o stats \o If(stale \/ full # now, <<Json("bundle.json", full)>>))

Hydrate(id) ==
    /\ work = Idle
    /\ Whole(id)
    /\ work' = IF Hydration(id) = <<>> THEN Idle ELSE [id |-> id, todo |-> Hydration(id)]
    /\ UNCHANGED <<tree, checkout, store, packs>>

-----------------------------------------------------------------------------
(* What happens to the tree and the checkout between two packs *)

\* compile_graph leaves the new ELF in retained/ and in models_uncompressed/.
Compile(g) ==
    /\ work = Idle
    /\ LET new == [graph |-> g, from |-> "compiled"] IN
       tree' = [tree EXCEPT !.elf[g] = [@ EXCEPT !["own"] = new, !["retained"] = new]]
    /\ UNCHANGED <<checkout, store, work, packs>>

\* export(): write_fixtures, then the statistics.  It may end between the two.
ExportFixtures ==
    /\ work = Idle
    /\ tree.fixture < MaxExports
    /\ tree' = [tree EXCEPT !.archive = "exported", !.fixture = @ + 1,
                            !.direct = tree.policy = "act",
                            !.constants = IF HasConstants THEN tree.fixture + 1 ELSE None]
    /\ UNCHANGED <<checkout, store, work, packs>>

ExportNormalization ==
    /\ work = Idle
    /\ tree.fixture > 0 /\ tree.stats # tree.fixture
    /\ tree' = [tree EXCEPT !.stats = tree.fixture,
                            !.moments = IF HasConstants THEN "own" ELSE @]
    /\ UNCHANGED <<checkout, store, work, packs>>

\* Another version of the host's files: the declared layouts, the robot client.
Checkout ==
    /\ work = Idle
    /\ checkout.version < MaxCheckouts
    /\ \E whole \in BOOLEAN : checkout' = [version |-> checkout.version + 1, complete |-> whole]
    /\ UNCHANGED <<tree, store, work, packs>>

Next ==
    \/ Pack
    \/ Write
    \/ Killed
    \/ \E id \in DOMAIN store : Hydrate(id)
    \/ \E g \in Elements(Graphs) : Compile(g)
    \/ ExportFixtures
    \/ ExportNormalization
    \/ Checkout

Spec == Init /\ [][Next]_vars

-----------------------------------------------------------------------------
(* Properties *)

\* A bundle whose manifest can be read is what the manifest says: every graph's ELF is
\* whole and the one the manifest and the id name, it was built for that graph and is
\* not a rejected experiment, and every other file the manifest lists is there.  Packs and
\* hydrations that are killed, and packs of the same ELFs again, never undo it
\* (pack.py:72-159, _copy 230-238).
BundleIsItsManifest ==
    \A id \in DOMAIN store : Whole(id) =>
      LET manifest == store[id]["bundle.json"] IN
      /\ manifest.elf = id.elf
      /\ \A g \in Elements(Graphs) :
           /\ Content(id, g) = manifest.elf[g]
           /\ manifest.elf[g].graph = g /\ manifest.elf[g].from # "retained_rejected"
      /\ manifest.sidecars \subseteq DOMAIN store[id]

\* The fixtures of every bundle are requests its server understands: all the tensors of
\* the wire or none, each in the layout, the units and the width the live client sends,
\* whichever exporter wrote the tree (collect_fixtures).
FixturesAreOnWire ==
    \A id \in DOMAIN store : Content(id, "fixtures") \notin {None, Partial} =>
      LET inputs == store[id]["fixtures"].inputs
          wire == Wire[id.policy] IN
      /\ DOMAIN inputs \ Optional \in {{}, DOMAIN wire \ Optional}
      /\ \A t \in DOMAIN inputs : inputs[t] = wire[t]
=============================================================================
