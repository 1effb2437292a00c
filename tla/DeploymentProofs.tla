-------------------------- MODULE DeploymentProofs --------------------------
(***************************************************************************)
(* Theorems about Deployment, for any builds, versions and processes.      *)
(***************************************************************************)
EXTENDS Deployment, SequenceTheorems, TLAPS

Stages == {"sync", "send", "build", "native", "compile", "touch", "install_server",
           "install_cli", "verify", "activate", "service", "serving"}

\* Where a verified bundle is.
Verified == {"activate", "service", "serving"}

\* Where the transfer is done.
Sent == Stages \ {"sync", "send"}

DeployRecord ==
    [at: Stages, b: Builds, native: Natives, skipped: BOOLEAN, file: 1 .. Len(Order),
     build: BOOLEAN, force: BOOLEAN, activate: BOOLEAN, start: BOOLEAN]

\* The places of start() after the launch.
Launched == {"wait", "alive", "bound"}
Points == {"idle", "stop", "stop_term", "stop_poll", "launch", "record", "reset",
           "started", "failed", "done"} \cup Launched

OpRecord ==
    [at: Points, then: {"idle", "launch", "done", "reset"}, byPort: BOOLEAN,
     targets: SUBSET Pids, launched: Pids \cup {None}, tree: Trees \cup {Link, None},
     retried: BOOLEAN]

ProcessRecord ==
    [at: {"none", "loading", "up", "dying"}, tree: Trees \cup {Link, None},
     holds: Trees \cup {None}, told: BOOLEAN]

\* What a file may be: absent, cut, or that of some build.
Contents == {None, Partial} \cup {Content(b, f) : b \in Builds, f \in Files}

TypeInv ==
    /\ process \in [Pids -> ProcessRecord]
    /\ pidFile \in Pids \cup {None} /\ wedged \in BOOLEAN
    /\ op \in OpRecord
    /\ tree \in [Trees -> [Files -> Contents]]
    /\ current \in Trees \cup {None}
    /\ built \in [Natives -> [of: Natives \cup {None}, ok: BOOLEAN]]
    /\ native \in Natives \cup {None}
    /\ bin \in [Binaries -> Natives \cup {None}]
    /\ deploy \in DeployRecord \cup {NoDeploy}

\* What an id names on the board is from builds of that id, and what is up has loaded.
FileInv ==
    /\ \A t \in Trees, f \in Files :
         tree[t][f] \in {None, Partial} \cup {Content(b, f) : b \in {c \in Builds : BundleId(c) = t}}
    /\ \A p \in Pids : process[p].at = "up" => process[p].holds # None

\* Every way from a name to a server leads to a whole bundle.
WholeInv ==
    /\ current # None => Whole(current)
    /\ \A p \in Pids : process[p].tree \in Trees => Whole(process[p].tree)
    /\ \A p \in Pids : process[p].holds # None => Whole(process[p].holds)
    /\ op.tree \in Trees => Whole(op.tree)
    /\ deploy.at \in Verified => Whole(BundleId(deploy.b))

\* A transfer that is not skipped has brought the files before the one it is at.
SentInv ==
    /\ deploy.at = "sync" => deploy.file = 1
    /\ deploy.at = "send" =>
         \A k \in 1 .. (deploy.file - 1) : Remote[Order[k]] = Local(Order[k])
    /\ deploy.at \in Sent /\ ~deploy.skipped => \A f \in Files : Remote[f] = Local(f)

\* A build is of what native/ holds, an installed binary of what was built.
BuildInv ==
    /\ \A h \in Natives : built[h].of \in {h, None}
    /\ deploy.at = "compile" => native = deploy.native
    /\ deploy.at = "install_cli" => bin["polima_server"] = deploy.native
    /\ deploy.at \in {"verify"} \cup Verified /\ deploy.build =>
         \A x \in Binaries : bin[x] = deploy.native

\* The process a start() is waiting for.
Awaited == IF op.at = "record" THEN pidFile ELSE op.launched

\* It has the port for itself once it has it, and is of the bundle that was activated.
AwaitedInv ==
    op.at \in {"record"} \cup Launched /\ Awaited # None =>
      /\ Awaited \in Holders => Holders = {Awaited}
      /\ process[Awaited].at # "dying"
      /\ deploy.activate => /\ process[Awaited].tree \in {Link, None}
                            /\ process[Awaited].holds \in {BundleId(deploy.b), None}

\* The places of start() after its stop().
Starting == {"launch", "record"} \cup Launched

\* A start has a bundle and belongs to a deploy, which has made it current if asked to.
StartInv ==
    /\ op.at = "idle" \/ op.then = "idle" => op = NoOp
    /\ deploy.at \in Stages \ {"serving"} => op = NoOp
    /\ op.then = "launch" \/ op.at \in Starting => op.tree # None
    /\ op.tree # None =>
         /\ deploy.at = "serving"
         /\ op.tree = IF deploy.activate THEN Link ELSE BundleId(deploy.b)
    /\ deploy.at \in {"service", "serving"} /\ deploy.activate => current = BundleId(deploy.b)

IInv == TypeInv /\ FileInv /\ WholeInv /\ SentInv /\ BuildInv /\ StartInv /\ AwaitedInv

-----------------------------------------------------------------------------
(* Names, files and records *)

LEMMA Ids ==
  ASSUME NEW b \in Builds
  PROVE  BundleId(b) \in Trees /\ BundleId(b).elf = b.elf
  BY TreesAssumption DEF BundleId

LEMMA ElfFiles ==
  ASSUME NEW b \in Builds, NEW g \in Elfs
  PROVE  g \in Files /\ Content(b, g) = <<"elf", b.elf[g]>>
  BY BuildsAssumption DEF Content, Files

LEMMA Names ==
  /\ Link \notin Trees \cup {None} /\ None \notin Trees /\ None \notin Pids
  /\ NoDeploy.at = "idle" /\ NoDeploy \notin DeployRecord
  BY ServiceAssumption DEF NoDeploy, DeployRecord, Stages

\* Every file is sent once it is reached.
LEMMA Orders ==
  /\ Len(Order) \in Nat \ {0}
  /\ \A k \in 1 .. Len(Order) : Order[k] \in Files
  /\ \A f \in Files : \E k \in 1 .. Len(Order) : Order[k] = f
  <1> DEFINE first == <<"bundle.json", "plan.json", "constants">>
  <1>1. /\ Graphs \in Seq(Elfs) /\ Len(Graphs) \in Nat /\ DOMAIN Graphs = 1 .. Len(Graphs)
        /\ \A j \in 1 .. Len(Graphs) : Graphs[j] \in Elfs
    <2>1. Graphs \in Seq(Elfs)
      BY BuildsAssumption
    <2> QED BY <2>1
  <1>1a. /\ Graphs \in Seq(Files)
         /\ first \in Seq(Files) /\ Len(first) = 3
         /\ \A j \in 1 .. 3 : first[j] \in Files
    <2>1. Elfs \subseteq Files
      BY DEF Files
    <2>2. Graphs \in Seq(Files)
      BY <1>1, <2>1, SeqMonotonic, Zenon
    <2>3. first \in Seq(Files) /\ Len(first) = 3
      BY "bundle.json" \in Files, "plan.json" \in Files, "constants" \in Files DEF Files
    <2> QED BY <2>2, <2>3
  <1>2. /\ Len(Order) = 3 + Len(Graphs)
        /\ \A k \in 1 .. Len(Order) : Order[k] = IF k <= 3 THEN first[k] ELSE Graphs[k - 3]
    BY <1>1, <1>1a DEF Order
  <1>3. ASSUME NEW k \in 1 .. Len(Order) PROVE Order[k] \in Files
    <2>1. CASE k <= 3
      BY <1>1, <1>1a, <1>2, <2>1
    <2>2. CASE ~(k <= 3)
      BY <1>1, <1>2, <2>2 DEF Files
    <2> QED BY <2>1, <2>2
  <1>4. ASSUME NEW f \in Files PROVE \E k \in 1 .. Len(Order) : Order[k] = f
    <2>1. CASE f \in Elfs
      <3>1. PICK j \in 1 .. Len(Graphs) : Graphs[j] = f
        BY <1>1, <2>1 DEF Elfs
      <3> QED BY <1>1, <1>2, <3>1, j + 3 \in 1 .. Len(Order), (j + 3) - 3 = j, ~(j + 3 <= 3)
    <2>2. CASE f \notin Elfs
      <3>1. \E k \in 1 .. 3 : first[k] = f
        BY <2>2, first[1] = "bundle.json", first[2] = "plan.json", first[3] = "constants" DEF Files
      <3> QED BY <1>1, <1>2, <3>1
    <2> QED BY <2>1, <2>2
  <1> QED BY <1>1, <1>2, <1>3, <1>4

\* A deploy goes on to another stage: it is the same deploy.
Moves(s) ==
    /\ deploy' \in DeployRecord /\ deploy'.at = s
    /\ deploy'.b = deploy.b /\ deploy'.native = deploy.native /\ deploy'.build = deploy.build
    /\ deploy'.activate = deploy.activate

LEMMA GotoMoves ==
  ASSUME deploy \in DeployRecord, NEW s \in Stages, Goto(s)
  PROVE  Moves(s) /\ deploy'.skipped = deploy.skipped
  BY DEF Goto, Moves, DeployRecord

\* Whoever is not idle is a deploy.
LEMMA UnderWay ==
  ASSUME TypeInv, deploy.at # "idle"
  PROVE  /\ deploy \in DeployRecord /\ deploy.b \in Builds /\ deploy.at \in Stages
         /\ deploy.file \in 1 .. Len(Order) /\ deploy.native \in Natives
         /\ deploy.skipped \in BOOLEAN /\ deploy.activate \in BOOLEAN
         /\ BundleId(deploy.b) \in Trees
  BY Names, Ids DEF TypeInv, DeployRecord

-----------------------------------------------------------------------------
(* The initial states *)

LEMMA RecordsAtFirst ==
  /\ NoOp \in OpRecord /\ NoOp.at = "idle" /\ NoOp.then = "idle" /\ NoOp.tree = None
  /\ NoProcess \in ProcessRecord /\ NoProcess.at = "none" /\ NoProcess.tree = None
  /\ NoProcess.holds = None
  BY DEF NoOp, OpRecord, Points, Launched, NoProcess, ProcessRecord

\* On a new board nothing is whole, but for what has no graphs.
LEMMA NewBoardInit ==
  ASSUME ServiceInit, NewBoard, deploy = NoDeploy
  PROVE  IInv
  <1>1. TypeInv
    <2>1. Absent \in [Files -> Contents] /\ NoBuild \in [of: Natives \cup {None}, ok: BOOLEAN]
      BY DEF Absent, Contents, NoBuild
    <2> QED BY <2>1, RecordsAtFirst DEF TypeInv, ServiceInit, NewBoard
  <1>2. FileInv
    BY RecordsAtFirst DEF FileInv, Absent, ServiceInit, NewBoard
  <1>3. WholeInv
    BY RecordsAtFirst, Names DEF WholeInv, Verified, ServiceInit, NewBoard
  <1>4. SentInv
    BY Names DEF SentInv, Sent, Stages
  <1>5. BuildInv
    BY Names DEF BuildInv, NoBuild, NewBoard, Verified
  <1>a. AwaitedInv
    BY RecordsAtFirst DEF AwaitedInv, ServiceInit, Launched
  <1>6. StartInv
    BY RecordsAtFirst, Names DEF StartInv, ServiceInit, Stages, Starting, Launched
  <1> QED BY <1>1, <1>2, <1>3, <1>4, <1>5, <1>6, <1>a DEF IInv

\* A board with a bundle has it whole.
LEMMA DeployedInit ==
  ASSUME ServiceInit, NEW b \in Builds, NEW h \in Natives, Deployed(b, h), deploy = NoDeploy
  PROVE  IInv
  <1>1. /\ tree \in [Trees -> [Files -> Contents]]
        /\ \A f \in Files : tree[BundleId(b)][f] = Content(b, f)
        /\ \A t \in Trees, f \in Files : t # BundleId(b) => tree[t][f] = None
    <2>1. \A t \in Trees : [f \in Files |-> Content(b, f)] \in [Files -> Contents]
                           /\ Absent \in [Files -> Contents]
      BY DEF Contents, Absent
    <2> QED BY <2>1, Ids DEF Deployed, Absent
  <1>2. TypeInv
    BY <1>1, RecordsAtFirst, Names, Ids DEF TypeInv, NoBuild, ServiceInit, Deployed
  <1>3. FileInv
    BY <1>1, RecordsAtFirst DEF FileInv, ServiceInit
  <1>4. Whole(BundleId(b))
    BY <1>1, Ids, ElfFiles DEF Whole
  <1>5. WholeInv
    BY <1>4, RecordsAtFirst, Names DEF WholeInv, Verified, ServiceInit, Deployed
  <1>6. SentInv
    BY Names DEF SentInv, Sent, Stages
  <1>7. BuildInv
    BY Names DEF BuildInv, NoBuild, Deployed, Verified
  <1>a. AwaitedInv
    BY RecordsAtFirst DEF AwaitedInv, ServiceInit, Launched
  <1>8. StartInv
    BY RecordsAtFirst, Names DEF StartInv, ServiceInit, Stages, Starting, Launched
  <1> QED BY <1>2, <1>3, <1>5, <1>6, <1>7, <1>8, <1>a DEF IInv

LEMMA InvInit == Init => IInv
  BY NewBoardInit, DeployedInit DEF Init

-----------------------------------------------------------------------------
(* The service: its records *)

LEMMA DoKeeps ==
  ASSUME op \in OpRecord, NEW point \in Points, Do(point)
  PROVE  /\ op' \in OpRecord /\ op'.at = point /\ op'.then = op.then
         /\ op'.tree = op.tree /\ op'.launched = op.launched
  BY DEF Do, OpRecord

LEMMA Born ==
  ASSUME process \in [Pids -> ProcessRecord], NEW p \in Pids,
         NEW t \in Trees \cup {Link, None}, NewProcess(p, t)
  PROVE  /\ process' \in [Pids -> ProcessRecord]
         /\ process'[p].at = "loading" /\ process'[p].tree = t /\ process'[p].holds = None
         /\ \A q \in Pids \ {p} : process'[q] = process[q]
  <1> DEFINE born == [NoProcess EXCEPT !.at = "loading", !.tree = t]
  <1>1. born \in ProcessRecord /\ born.at = "loading" /\ born.tree = t /\ born.holds = None
    BY RecordsAtFirst DEF ProcessRecord
  <1>2. process' = [process EXCEPT ![p] = born]
    BY DEF NewProcess
  <1> HIDE DEF born
  <1> QED BY <1>1, <1>2

LEMMA Ended ==
  ASSUME process \in [Pids -> ProcessRecord], NEW p \in Pids, Ends(p)
  PROVE  /\ process' \in [Pids -> ProcessRecord] /\ process'[p] = NoProcess
         /\ \A q \in Pids \ {p} : process'[q] = process[q]
  BY RecordsAtFirst DEF Ends

\* A process changes its state only.
LEMMA Told ==
  ASSUME NEW r \in ProcessRecord
  PROVE  LET s == [r EXCEPT !.told = TRUE]
         IN  s \in ProcessRecord /\ s.at = r.at /\ s.tree = r.tree /\ s.holds = r.holds
  BY DEF ProcessRecord

LEMMA At ==
  ASSUME NEW r \in ProcessRecord, NEW at \in {"dying", "up"}
  PROVE  LET s == [r EXCEPT !.at = at]
         IN  s \in ProcessRecord /\ s.at = at /\ s.tree = r.tree /\ s.holds = r.holds
  BY DEF ProcessRecord

-----------------------------------------------------------------------------
(* The service: its steps *)

\* A server loads what a whole name leads to.
LEMMA TargetIsWhole ==
  ASSUME IInv, NEW p \in Pids, Target(p) # None
  PROVE  Target(p) \in Trees /\ Whole(Target(p))
  <1>1. process[p].tree \in Trees \cup {Link, None}
    BY DEF IInv, TypeInv, ProcessRecord
  <1> QED BY <1>1 DEF IInv, TypeInv, WholeInv, Target

\* A step of a command or of a server, which leaves the board's files alone.
LEMMA ServiceFrame ==
  ASSUME IInv, UNCHANGED <<boardVars, deploy>>,
         process' \in [Pids -> ProcessRecord], pidFile' \in Pids \cup {None}, wedged' \in BOOLEAN,
         op' \in OpRecord, op'.tree = op.tree,
         \A p \in Pids : process'[p].tree \in {process[p].tree, op.tree, Link, None},
         \A p \in Pids : process'[p].holds \in {None, process[p].holds, Target(p)},
         \A p \in Pids : process'[p].at = "up" => process'[p].holds # None,
         StartInv', AwaitedInv'
  PROVE  IInv'
  <1> USE DEF IInv, boardVars
  <1>1. TypeInv'
    BY DEF TypeInv
  <1>2. FileInv'
    BY DEF FileInv
  <1>3. \A t : Whole(t)' <=> Whole(t)
    BY DEF Whole
  <1>4. WholeInv'
    <2>1. ASSUME NEW p \in Pids, process'[p].tree \in Trees PROVE Whole(process'[p].tree)
      BY <2>1, Names DEF WholeInv
    <2>2. ASSUME NEW p \in Pids, process'[p].holds # None PROVE Whole(process'[p].holds)
      BY <2>2, TargetIsWhole DEF WholeInv
    <2> QED BY <1>3, <2>1, <2>2 DEF WholeInv
  <1>5. SentInv'
    BY DEF SentInv, Remote, Local
  <1>6. BuildInv'
    BY DEF BuildInv
  <1> QED BY <1>1, <1>2, <1>4, <1>5, <1>6

\* A command goes on.
LEMMA OpFrame ==
  ASSUME IInv, deploy' = deploy, current' = current, op.at # "idle",
         op' \in OpRecord, op'.at # "idle", op'.tree = op.tree, op'.then = op.then,
         op'.at \in Starting => op.at \in Starting \/ op'.at = op.then
  PROVE  StartInv'
  <1>1. op # NoOp /\ op.then # "idle"
    BY RecordsAtFirst DEF IInv, StartInv
  <1>2. op.then \in Starting => op.then = "launch"
    BY DEF IInv, TypeInv, OpRecord, Starting, Launched
  <1> QED BY <1>1, <1>2 DEF IInv, StartInv

\* A step of a command that leaves the servers and the pid file alone.
LEMMA WaitFrame ==
  ASSUME IInv, UNCHANGED <<boardVars, deploy, process, pidFile>>, wedged' \in BOOLEAN,
         op.at # "idle", op' \in OpRecord, op'.at # "idle", op'.tree = op.tree, op'.then = op.then,
         op'.at \in Starting => op.at \in Starting \/ op'.at = op.then,
         op'.at \in Launched => op.at \in Launched /\ op'.launched = op.launched,
         op'.at # "record"
  PROVE  IInv'
  <1>1. StartInv'
    BY OpFrame DEF boardVars
  <1>2. Holders' = Holders
    BY DEF Holders
  <1>3. AwaitedInv'
    BY <1>2 DEF IInv, AwaitedInv, Awaited, Launched
  <1>4. \A p \in Pids : process[p].at = "up" => process[p].holds # None
    BY DEF IInv, FileInv
  <1> QED BY <1>1, <1>3, <1>4, ServiceFrame DEF IInv, TypeInv

LEMMA StopReadKeeps == ASSUME IInv, StopRead, UNCHANGED <<boardVars, deploy>> PROVE IInv'
  <1>1. StopTargets \subseteq Pids
    BY DEF StopTargets, Holders
  <1>2. /\ op' \in OpRecord /\ op'.at = "stop_term" /\ op'.then = op.then /\ op'.tree = op.tree
    BY <1>1 DEF StopRead, IInv, TypeInv, OpRecord, Points
  <1> QED BY <1>2, WaitFrame DEF StopRead, IInv, TypeInv, Starting, Launched

LEMMA StopTermKeeps == ASSUME IInv, StopTerm, UNCHANGED <<boardVars, deploy>> PROVE IInv'
  <1> DEFINE alive == {p \in op.targets : Alive(p)}
  <1>1. /\ op.at = "stop_term" /\ op.then \in {"launch", "done", "reset"}
        /\ op \in OpRecord /\ alive \in SUBSET Pids
    BY RecordsAtFirst DEF StopTerm, IInv, TypeInv, StartInv, OpRecord
  <1>2. /\ op' \in OpRecord /\ op'.at \in {"launch", "done", "reset", "stop_poll"}
        /\ op'.at \in Starting => op'.at = op.then
        /\ op'.then = op.then /\ op'.tree = op.tree
    BY <1>1 DEF StopTerm, OpRecord, Points, Starting, Launched
  <1>3. /\ process' \in [Pids -> ProcessRecord]
        /\ \A p \in Pids : /\ process'[p].at = process[p].at /\ process'[p].tree = process[p].tree
                            /\ process'[p].holds = process[p].holds
    <2>1. \A p \in Pids : process[p] \in ProcessRecord
      BY DEF IInv, TypeInv
    <2> QED BY <2>1, Told DEF StopTerm
  <1>4. StartInv'
    BY <1>1, <1>2, OpFrame DEF boardVars
  <1>5. AwaitedInv'
    BY <1>2 DEF AwaitedInv, Launched
  <1> QED BY <1>1, <1>2, <1>3, <1>4, <1>5, ServiceFrame DEF StopTerm, IInv, TypeInv, FileInv

LEMMA StopEndsKeeps == ASSUME IInv, StopEnds, UNCHANGED <<boardVars, deploy>> PROVE IInv'
  <1>1. /\ op.at = "stop_poll" /\ op.then \in {"launch", "done", "reset"} /\ op \in OpRecord
    BY RecordsAtFirst DEF StopEnds, IInv, TypeInv, StartInv, OpRecord
  <1>2. /\ op' \in OpRecord /\ op'.at = op.then /\ op'.then = op.then /\ op'.tree = op.tree
    BY <1>1 DEF StopEnds, OpRecord, Points
  <1>3. /\ process' \in [Pids -> ProcessRecord]
        /\ \A p \in Pids : /\ process'[p].at \in {process[p].at, "dying"}
                            /\ process'[p].tree = process[p].tree
                            /\ process'[p].holds = process[p].holds
    <2>1. \A p \in Pids : process[p] \in ProcessRecord
      BY DEF IInv, TypeInv
    <2> QED BY <2>1, At DEF StopEnds
  <1>4. StartInv'
    BY <1>1, <1>2, OpFrame DEF boardVars
  <1>5. AwaitedInv'
    BY <1>1, <1>2 DEF AwaitedInv, Launched
  <1> QED BY <1>1, <1>2, <1>3, <1>4, <1>5, ServiceFrame DEF StopEnds, IInv, TypeInv, FileInv

\* The one that may start a server for a deploy: what it starts is no one else's.
LEMMA LaunchKeeps == ASSUME IInv, Launch, UNCHANGED <<boardVars, deploy>> PROVE IInv'
  <1>1. PICK p \in Fresh : NewProcess(p, op.tree) /\ pidFile' = p
    BY DEF Launch
  <1>2. op \in OpRecord /\ op.at = "launch" /\ op.tree \in Trees \cup {Link, None} /\ p \in Pids
    BY <1>1 DEF Launch, IInv, TypeInv, OpRecord, Fresh
  <1>3. /\ op' \in OpRecord /\ op'.at = "record" /\ op'.then = op.then /\ op'.tree = op.tree
    BY <1>2, DoKeeps DEF Launch, Points
  <1>4. /\ process' \in [Pids -> ProcessRecord]
        /\ process'[p].at = "loading" /\ process'[p].tree = op.tree /\ process'[p].holds = None
        /\ \A q \in Pids \ {p} : process'[q] = process[q]
    BY <1>1, <1>2, Born DEF IInv, TypeInv
  <1>5. StartInv'
    BY <1>2, <1>3, OpFrame DEF boardVars, Starting
  <1>6. AwaitedInv'
    <2>1. Awaited' = p /\ p \notin Holders'
      BY <1>1, <1>3, <1>4 DEF Awaited, Holders
    <2>2. deploy.activate => op.tree = Link
      BY <1>2 DEF IInv, StartInv, Starting
    <2> QED BY <1>4, <2>1, <2>2 DEF AwaitedInv
  <1> QED BY <1>1, <1>2, <1>3, <1>4, <1>5, <1>6, ServiceFrame DEF Launch, IInv, TypeInv, FileInv

LEMMA LaunchRecordedKeeps == ASSUME IInv, LaunchRecorded, UNCHANGED <<boardVars, deploy>> PROVE IInv'
  <1>1. /\ op \in OpRecord /\ op.at = "record" /\ pidFile \in Pids \cup {None}
    BY DEF LaunchRecorded, IInv, TypeInv
  <1>2. /\ op' \in OpRecord /\ op'.at = "wait" /\ op'.then = op.then /\ op'.tree = op.tree
        /\ op'.launched = pidFile
    BY <1>1 DEF LaunchRecorded, OpRecord, Points, Launched
  <1>3. StartInv'
    BY <1>1, <1>2, OpFrame DEF boardVars, Starting
  <1>4. AwaitedInv'
    BY <1>1, <1>2 DEF LaunchRecorded, IInv, AwaitedInv, Awaited, Holders
  <1> QED BY <1>2, <1>3, <1>4, ServiceFrame DEF LaunchRecorded, IInv, TypeInv, FileInv

LEMMA WaitsKeep ==
  ASSUME IInv, WaitForPort \/ ConfirmAlive \/ ConfirmBound, UNCHANGED <<boardVars, deploy>>
  PROVE  IInv'
  <1>1. op \in OpRecord /\ op.at \in Launched
    BY DEF IInv, TypeInv, WaitForPort, ConfirmAlive, ConfirmBound, Launched
  <1>2. PICK point \in {"alive", "bound", "started", "failed", "reset"} : Do(point)
    BY DEF WaitForPort, ConfirmAlive, ConfirmBound, LaunchFails
  <1>3. /\ op' \in OpRecord /\ op'.at = point /\ op'.then = op.then /\ op'.tree = op.tree
        /\ op'.launched = op.launched
    BY <1>1, <1>2, DoKeeps DEF Points, Launched
  <1> QED BY <1>1, <1>2, <1>3, WaitFrame
        DEF WaitForPort, ConfirmAlive, ConfirmBound, IInv, TypeInv, Starting, Launched

LEMMA ResetMlaKeeps == ASSUME IInv, ResetMla, UNCHANGED <<boardVars, deploy>> PROVE IInv'
  <1>1. op \in OpRecord /\ op.at = "reset" /\ wedged' \in BOOLEAN
    BY DEF IInv, TypeInv, ResetMla
  <1>2. /\ op' \in OpRecord /\ op'.at \in {"done", "stop", "failed"} /\ op'.then = op.then
        /\ op'.tree = op.tree
    BY <1>1 DEF ResetMla, Do, OpRecord, Points
  <1> QED BY <1>1, <1>2, WaitFrame DEF ResetMla, Starting, Launched

LEMMA ServiceKeeps == ASSUME IInv, ServiceStep PROVE IInv'
  BY StopReadKeeps, StopTermKeeps, StopEndsKeeps, LaunchKeeps, LaunchRecordedKeeps, WaitsKeep,
     ResetMlaKeeps DEF ServiceStep, Service

-----------------------------------------------------------------------------
(* The servers *)

\* While a start waits, its deploy is under way and what it activated is current.
LEMMA AwaitedCurrent ==
  ASSUME IInv, op.at \in {"record"} \cup Launched, deploy.activate
  PROVE  current = BundleId(deploy.b)
  BY DEF IInv, StartInv, Starting

\* A server's step: the command and its deploy stay as they are.
LEMMA ServerFrame ==
  ASSUME IInv, UNCHANGED <<boardVars, deploy, op>>,
         process' \in [Pids -> ProcessRecord], pidFile' \in Pids \cup {None}, wedged' \in BOOLEAN,
         \A p \in Pids : process'[p].tree \in {process[p].tree, Link, None},
         \A p \in Pids : process'[p].holds \in {None, process[p].holds, Target(p)},
         \A p \in Pids : process'[p].at = "up" => process'[p].holds # None,
         AwaitedInv'
  PROVE  IInv'
  <1>1. StartInv'
    BY DEF IInv, StartInv, boardVars
  <1>2. op' \in OpRecord /\ op'.tree = op.tree
    BY DEF IInv, TypeInv
  <1>3. \A p \in Pids : process'[p].tree \in {process[p].tree, op.tree, Link, None}
    OBVIOUS
  <1> QED BY <1>1, <1>2, <1>3, ServiceFrame

\* A process ends.
LEMMA EndKeeps ==
  ASSUME IInv, NEW p \in Pids, Ends(p), wedged' \in BOOLEAN,
         UNCHANGED <<boardVars, deploy, op, pidFile>>
  PROVE  IInv'
  <1>1. /\ process' \in [Pids -> ProcessRecord] /\ process'[p] = NoProcess
        /\ \A q \in Pids \ {p} : process'[q] = process[q]
    BY Ended DEF IInv, TypeInv
  <1>2. Holders' = Holders \ {p}
    BY <1>1, RecordsAtFirst DEF Holders
  <1>3. AwaitedInv'
    <2>1. Awaited' = Awaited
      BY DEF Awaited
    <2>2. SUFFICES ASSUME op.at \in {"record"} \cup Launched, Awaited # None
                   PROVE  /\ Awaited \in Holders' => Holders' = {Awaited}
                          /\ process'[Awaited].at # "dying"
                          /\ deploy.activate =>
                               /\ process'[Awaited].tree \in {Link, None}
                               /\ process'[Awaited].holds \in {BundleId(deploy.b), None}
      BY <2>1 DEF AwaitedInv
    <2>3. Awaited \in Pids
      BY <2>2 DEF Awaited, IInv, TypeInv, OpRecord
    <2> QED BY <1>1, <1>2, <2>2, <2>3, RecordsAtFirst DEF IInv, AwaitedInv
  <1>4. \A q \in Pids : process[q].at = "up" => process[q].holds # None
    BY DEF IInv, FileInv
  <1>5. \A q \in Pids : q = p \/ process'[q] = process[q]
    BY <1>1
  <1> QED BY <1>1, <1>3, <1>4, <1>5, RecordsAtFirst, ServerFrame DEF IInv, TypeInv

LEMMA LoadKeeps ==
  ASSUME IInv, NEW p \in Pids, Load(p, Target(p), Loadable(Target(p))), UNCHANGED <<boardVars, deploy>>
  PROVE  IInv'
  <1>1. CASE ~(Loadable(Target(p)) /\ ~wedged)
    BY <1>1, EndKeeps DEF Load, IInv, TypeInv
  <1>2. CASE Loadable(Target(p)) /\ ~wedged
    <2>1. Target(p) \in Trees
      BY <1>2, TargetIsWhole DEF Loadable
    <2> DEFINE loaded == [process[p] EXCEPT !.holds = Target(p)]
    <2>2. /\ process[p] \in ProcessRecord /\ loaded \in ProcessRecord
          /\ loaded.at = process[p].at /\ loaded.tree = process[p].tree
          /\ loaded.holds = Target(p)
      BY <2>1 DEF IInv, TypeInv, ProcessRecord
    <2>3. process' = [process EXCEPT ![p] = loaded]
      BY <1>2 DEF Load
    <2> HIDE DEF loaded
    <2>4. /\ process' \in [Pids -> ProcessRecord] /\ process'[p] = loaded
          /\ \A q \in Pids \ {p} : process'[q] = process[q]
      BY <2>2, <2>3 DEF IInv, TypeInv
    <2>5. Holders' = Holders
      BY <2>2, <2>4 DEF Holders
    <2>6. AwaitedInv'
      <3>1. Awaited' = Awaited
        BY DEF Awaited, Load
      <3>2. deploy.activate /\ op.at \in {"record"} \cup Launched /\ process[p].tree \in {Link, None} =>
              Target(p) = BundleId(deploy.b)
        BY <2>1, AwaitedCurrent, Names DEF Target
      <3>3. SUFFICES ASSUME op.at \in {"record"} \cup Launched, Awaited # None
                     PROVE  /\ Awaited \in Holders' => Holders' = {Awaited}
                            /\ process'[Awaited].at # "dying"
                            /\ deploy.activate =>
                                 /\ process'[Awaited].tree \in {Link, None}
                                 /\ process'[Awaited].holds \in {BundleId(deploy.b), None}
        BY <3>1 DEF AwaitedInv, Load
      <3>4. Awaited \in Pids
        BY <3>3 DEF Awaited, IInv, TypeInv, OpRecord
      <3> QED BY <2>2, <2>4, <2>5, <3>2, <3>3, <3>4 DEF IInv, AwaitedInv
    <2>7. \A q \in Pids : process[q].at = "up" => process[q].holds # None
      BY DEF IInv, FileInv
    <2>8. \A q \in Pids : q = p \/ process'[q] = process[q]
      BY <2>4
    <2> QED BY <2>1, <2>2, <2>4, <2>6, <2>7, <2>8, Names, ServerFrame DEF Load, IInv, TypeInv
  <1> QED BY <1>1, <1>2

LEMMA BindKeeps ==
  ASSUME IInv, NEW p \in Pids, Bind(p), UNCHANGED <<boardVars, deploy>>
  PROVE  IInv'
  <1>1. CASE Holders # {}
    BY <1>1, EndKeeps DEF Bind, IInv, TypeInv
  <1>2. CASE Holders = {}
    <2> DEFINE up == [process[p] EXCEPT !.at = "up"]
    <2>1. /\ process[p] \in ProcessRecord /\ up \in ProcessRecord /\ up.at = "up"
          /\ up.tree = process[p].tree /\ up.holds = process[p].holds
      BY At DEF IInv, TypeInv
    <2>2. process' = [process EXCEPT ![p] = up]
      BY <1>2 DEF Bind
    <2> HIDE DEF up
    <2>3. /\ process' \in [Pids -> ProcessRecord] /\ process'[p] = up
          /\ \A q \in Pids \ {p} : process'[q] = process[q]
      BY <2>1, <2>2 DEF IInv, TypeInv
    <2>4. Holders' = {p}
      BY <1>2, <2>1, <2>3 DEF Holders
    <2>5. AwaitedInv'
      <3>1. Awaited' = Awaited
        BY DEF Awaited, Bind
      <3>2. SUFFICES ASSUME op.at \in {"record"} \cup Launched, Awaited # None
                     PROVE  /\ Awaited \in Holders' => Holders' = {Awaited}
                            /\ process'[Awaited].at # "dying"
                            /\ deploy.activate =>
                                 /\ process'[Awaited].tree \in {Link, None}
                                 /\ process'[Awaited].holds \in {BundleId(deploy.b), None}
        BY <3>1 DEF AwaitedInv, Bind
      <3>3. Awaited \in Pids
        BY <3>2 DEF Awaited, IInv, TypeInv, OpRecord
      <3> QED BY <2>1, <2>3, <2>4, <3>2, <3>3 DEF IInv, AwaitedInv
    <2>6. \A q \in Pids : process[q].at = "up" => process[q].holds # None
      BY DEF IInv, FileInv
    <2>7. \A q \in Pids : q = p \/ process'[q] = process[q]
      BY <2>3
    <2> QED BY <2>1, <2>3, <2>5, <2>6, <2>7, ServerFrame DEF Bind, IInv, TypeInv
  <1> QED BY <1>1, <1>2

\* Somebody else's server is never the awaited one, unless its pid took the file over.
LEMMA OtherUserKeeps == ASSUME IInv, OtherUser PROVE IInv'
  <1>1. PICK p \in Fresh : NewProcess(p, Link) /\ pidFile' \in {pidFile, p}
    BY DEF OtherUser, OtherStart
  <1>2. /\ p \in Pids /\ p # pidFile /\ p # op.launched /\ p \notin Holders
        /\ UNCHANGED <<boardVars, deploy, op, wedged>>
    BY <1>1 DEF Fresh, Alive, Holders, OtherUser, OtherStart
  <1>3. /\ process' \in [Pids -> ProcessRecord]
        /\ process'[p].at = "loading" /\ process'[p].tree = Link /\ process'[p].holds = None
        /\ \A q \in Pids \ {p} : process'[q] = process[q]
    BY <1>1, <1>2, Born DEF IInv, TypeInv
  <1>4. Holders' = Holders
    BY <1>2, <1>3 DEF Holders
  <1>5. AwaitedInv'
    <2>1. Awaited' = p \/ (Awaited' = Awaited /\ Awaited # p)
      BY <1>1, <1>2 DEF Awaited
    <2>2. CASE Awaited' = p
      BY <1>2, <1>3, <1>4, <2>2 DEF AwaitedInv
    <2>3. CASE Awaited' = Awaited /\ Awaited # p
      <3>1. SUFFICES ASSUME op.at \in {"record"} \cup Launched, Awaited # None
                     PROVE  /\ Awaited \in Holders' => Holders' = {Awaited}
                            /\ process'[Awaited].at # "dying"
                            /\ deploy.activate =>
                                 /\ process'[Awaited].tree \in {Link, None}
                                 /\ process'[Awaited].holds \in {BundleId(deploy.b), None}
        BY <1>2, <2>3 DEF AwaitedInv
      <3>2. Awaited \in Pids
        BY <3>1 DEF Awaited, IInv, TypeInv, OpRecord
      <3> QED BY <1>3, <1>4, <2>3, <3>1, <3>2 DEF IInv, AwaitedInv
    <2> QED BY <2>1, <2>2, <2>3
  <1>6. \A q \in Pids : process[q].at = "up" => process[q].holds # None
    BY DEF IInv, FileInv
  <1>7. \A q \in Pids : q = p \/ process'[q] = process[q]
    BY <1>3
  <1> QED BY <1>1, <1>2, <1>3, <1>5, <1>6, <1>7, ServerFrame DEF IInv, TypeInv

LEMMA ServerKeeps == ASSUME IInv, ServerStep PROVE IInv'
  <1>1. PICK p \in Pids : Load(p, Target(p), Loadable(Target(p))) \/ Bind(p) \/ Exit(p) \/ Die(p)
    BY DEF ServerStep
  <1>2. UNCHANGED <<boardVars, deploy>>
    BY DEF ServerStep
  <1>3. CASE Exit(p)
    BY <1>2, <1>3, EndKeeps DEF Exit, IInv, TypeInv
  <1>4. CASE Die(p)
    BY <1>2, <1>4, EndKeeps DEF Die, IInv, TypeInv
  <1> QED BY <1>1, <1>2, <1>3, <1>4, LoadKeeps, BindKeeps

-----------------------------------------------------------------------------
(* The deploy *)

LEMMA TreeKept == UNCHANGED tree => \A t : Whole(t)' <=> Whole(t)
  BY DEF Whole

\* A step of a deploy before it calls start(): there is no service command.
LEMMA StageFrame ==
  ASSUME IInv, deploy.at \in Stages \ {"serving"}, UNCHANGED serviceVars,
         deploy' = NoDeploy \/ \E s \in Stages \ {"serving"} : Moves(s),
         TypeInv', FileInv', SentInv', BuildInv',
         \A t \in Trees : Whole(t) => Whole(t)',
         current' # None => Whole(current)',
         deploy'.at \in Verified => Whole(BundleId(deploy.b))',
         deploy'.at = "service" /\ deploy.activate => current' = BundleId(deploy.b)
  PROVE  IInv'
  <1>1. op = NoOp /\ op' = NoOp
    BY DEF IInv, StartInv, serviceVars
  <1>2. AwaitedInv'
    BY <1>1, RecordsAtFirst DEF AwaitedInv, Launched
  <1>3. deploy'.at = "idle" \/
          (/\ deploy'.at \in Stages \ {"serving"} /\ deploy'.b = deploy.b
           /\ deploy'.activate = deploy.activate)
    BY Names DEF Moves
  <1>4. StartInv'
    BY <1>1, <1>3, RecordsAtFirst DEF StartInv, Starting, Launched, Stages
  <1>5. WholeInv'
    <2>1. \A p \in Pids : process[p].holds \in Trees \cup {None}
      BY DEF IInv, TypeInv, ProcessRecord
    <2> QED BY <1>1, <1>3, <2>1, RecordsAtFirst, Names DEF IInv, WholeInv, serviceVars, Verified
  <1> QED BY <1>2, <1>4, <1>5 DEF IInv

\* A file that arrives, or is cut, spoils no bundle that was whole.
LEMMA PutKeeps ==
  ASSUME IInv, deploy.at # "idle", NEW f \in Files, NEW c, Put(f, c),
         c = Local(f) \/ (c = Partial /\ Sends(f))
  PROVE  /\ tree' \in [Trees -> [Files -> Contents]]
         /\ \A t \in Trees, h \in Files :
              tree'[t][h] \in {None, Partial} \cup {Content(b, h) : b \in {d \in Builds : BundleId(d) = t}}
         /\ tree'[BundleId(deploy.b)][f] = c
         /\ \A h \in Files \ {f} : tree'[BundleId(deploy.b)][h] = Remote[h]
         /\ \A t \in Trees : Whole(t) => Whole(t)'
  <1> DEFINE id == BundleId(deploy.b)
  <1>1. deploy.b \in Builds /\ id \in Trees /\ id.elf = deploy.b.elf
    BY UnderWay, Ids DEF IInv
  <1>2. c \in Contents /\ c \in {Partial, Content(deploy.b, f)}
    BY <1>1 DEF Contents, Local
  <1>3. tree \in [Trees -> [Files -> Contents]]
    BY DEF IInv, TypeInv
  <1>4. /\ tree' \in [Trees -> [Files -> Contents]]
        /\ tree'[id][f] = c /\ \A h \in Files \ {f} : tree'[id][h] = tree[id][h]
        /\ \A t \in Trees \ {id} : tree'[t] = tree[t]
    BY <1>1, <1>2, <1>3 DEF Put
  <1>5. ASSUME NEW t \in Trees, NEW h \in Files
        PROVE  tree'[t][h] \in {None, Partial} \cup
                                {Content(b, h) : b \in {d \in Builds : BundleId(d) = t}}
    <2>1. CASE t = id /\ h = f
      BY <1>1, <1>2, <1>4, <2>1
    <2>2. CASE ~(t = id /\ h = f)
      BY <1>4, <2>2 DEF IInv, FileInv
    <2> QED BY <2>1, <2>2
  <1>6. ASSUME NEW t \in Trees, Whole(t) PROVE Whole(t)'
    <2>1. CASE t # id
      BY <1>4, <1>6, <2>1 DEF Whole
    <2>2. CASE t = id
      <3>1. f \in Elfs => c = Content(deploy.b, f)
        BY <1>1, <1>6, <2>2, ElfFiles DEF Whole, Sends, Remote, Local
      <3>2. \A g \in Elfs : tree'[id][g] = <<"elf", id.elf[g]>>
        BY <1>1, <1>4, <1>6, <2>2, <3>1, ElfFiles DEF Whole
      <3> QED BY <2>2, <3>2 DEF Whole
    <2> QED BY <2>1, <2>2
  <1> QED BY <1>4, <1>5, <1>6 DEF Remote

LEMMA SyncKeeps == ASSUME IInv, Sync PROVE IInv'
  <1> DEFINE sent == deploy'.at = "build" /\ deploy'.skipped
             sends == deploy'.at = "send" /\ deploy'.file = 1
  <1>1. deploy \in DeployRecord /\ deploy.at = "sync" /\ deploy.file = 1
    BY UnderWay DEF Sync, IInv, SentInv
  <1>2. (sent /\ Moves("build")) \/ (sends /\ Moves("send"))
    BY <1>1 DEF Sync, Moves, DeployRecord, Stages
  <1>3. UNCHANGED <<serviceVars, boardVars>>
    BY DEF Sync
  <1>4. TypeInv' /\ FileInv'
    BY <1>2, <1>3 DEF IInv, TypeInv, FileInv, Moves, serviceVars, boardVars
  <1>5. SentInv'
    BY <1>2 DEF SentInv, Sent
  <1>6. BuildInv'
    BY <1>2, <1>3 DEF IInv, BuildInv, Verified, boardVars
  <1>7. \A t : Whole(t)' <=> Whole(t)
    BY <1>3, TreeKept DEF boardVars
  <1> QED BY <1>1, <1>2, <1>3, <1>4, <1>5, <1>6, <1>7, StageFrame
        DEF Stages, Verified, IInv, WholeInv, boardVars

LEMMA SendKeeps == ASSUME IInv, Send PROVE IInv'
  <1> DEFINE f == Order[deploy.file]
             id == BundleId(deploy.b)
             sent == deploy.file = Len(Order) /\ deploy'.at = "build"
             sends == /\ deploy.file # Len(Order) /\ deploy'.at = "send"
                      /\ deploy'.file = deploy.file + 1
  <1>1. /\ deploy \in DeployRecord /\ deploy.at = "send" /\ deploy.file \in 1 .. Len(Order)
        /\ deploy.b \in Builds /\ f \in Files
    BY UnderWay, Orders DEF Send, IInv
  <1>2. (sent /\ Moves("build")) \/ (sends /\ Moves("send"))
    <2>1. CASE deploy.file = Len(Order)
      BY <1>1, <2>1 DEF Send, Moves, DeployRecord, Stages
    <2>2. CASE deploy.file # Len(Order)
      <3>1. deploy.file + 1 \in 1 .. Len(Order)
        BY <1>1, <2>2, Orders
      <3> QED BY <1>1, <2>2, <3>1 DEF Send, Moves, DeployRecord, Stages
    <2> QED BY <2>1, <2>2
  <1>3. UNCHANGED <<serviceVars, current, built, native, bin>>
    BY DEF Send
  <1>4. /\ tree' \in [Trees -> [Files -> Contents]]
        /\ \A t \in Trees, h \in Files :
             tree'[t][h] \in {None, Partial} \cup {Content(b, h) : b \in {d \in Builds : BundleId(d) = t}}
        /\ tree'[id][f] = Content(deploy.b, f)
        /\ \A h \in Files \ {f} : tree'[id][h] = tree[id][h]
        /\ \A t \in Trees : Whole(t) => Whole(t)'
    <2>1. CASE Sends(f)
      <3>1. Put(f, Local(f))
        BY <2>1 DEF Send
      <3> QED BY <1>1, <3>1, PutKeeps DEF Remote, Local
    <2>2. CASE ~Sends(f)
      <3>1. tree' = tree
        BY <2>2 DEF Send
      <3> QED BY <2>2, <3>1, TreeKept DEF Sends, Remote, Local, IInv, TypeInv, FileInv
    <2> QED BY <2>1, <2>2
  <1>5. TypeInv' /\ FileInv'
    BY <1>2, <1>3, <1>4 DEF IInv, TypeInv, FileInv, Moves, serviceVars
  <1>6. \A k \in 1 .. deploy.file : tree'[id][Order[k]] = Content(deploy.b, Order[k])
    <2> TAKE k \in 1 .. deploy.file
    <2>1. Order[k] \in Files
      BY <1>1, Orders
    <2>2. CASE Order[k] = f
      BY <1>4, <2>2
    <2>3. CASE Order[k] # f
      <3>1. k \in 1 .. (deploy.file - 1)
        BY <1>1, <2>3
      <3> QED BY <1>1, <1>4, <2>1, <2>3, <3>1 DEF IInv, SentInv, Remote, Local
    <2> QED BY <2>2, <2>3
  <1>7. SentInv'
    <2>1. CASE sends /\ Moves("send")
      BY <1>1, <1>6, <2>1 DEF SentInv, Sent, Remote, Local, Moves
    <2>2. CASE sent /\ Moves("build")
      BY <1>6, <2>2, Orders DEF SentInv, Remote, Local, Moves
    <2> QED BY <1>2, <2>1, <2>2
  <1>8. BuildInv'
    BY <1>2, <1>3 DEF IInv, BuildInv, Verified
  <1>9. current' # None => Whole(current)'
    BY <1>3, <1>4 DEF IInv, TypeInv, WholeInv, Whole
  <1> QED BY <1>1, <1>2, <1>3, <1>4, <1>5, <1>7, <1>8, <1>9, StageFrame DEF Stages, Verified

LEMMA SendCutKeeps == ASSUME IInv, SendCut PROVE IInv'
  <1> DEFINE f == Order[deploy.file]
  <1>1. /\ deploy.at = "send" /\ f \in Files /\ Sends(f) /\ Put(f, Partial) /\ deploy' = NoDeploy
        /\ UNCHANGED <<serviceVars, current, built, native, bin>>
    BY UnderWay, Orders DEF SendCut, IInv
  <1>2. /\ tree' \in [Trees -> [Files -> Contents]]
        /\ \A t \in Trees, h \in Files :
             tree'[t][h] \in {None, Partial} \cup {Content(b, h) : b \in {d \in Builds : BundleId(d) = t}}
        /\ \A t \in Trees : Whole(t) => Whole(t)'
    BY <1>1, PutKeeps
  <1>3. TypeInv' /\ FileInv'
    BY <1>1, <1>2 DEF IInv, TypeInv, FileInv, serviceVars
  <1>4. SentInv' /\ BuildInv'
    BY <1>1, Names DEF IInv, SentInv, Sent, Stages, BuildInv, Verified
  <1>5. current' # None => Whole(current)'
    BY <1>1, <1>2 DEF IInv, TypeInv, WholeInv, Whole
  <1> QED BY <1>1, <1>2, <1>3, <1>4, <1>5, Names, StageFrame DEF Stages, Verified

\* A step after the transfer, up to the verification.
LEMMA BuildFrame ==
  ASSUME IInv, deploy.at \in Sent \ Verified, UNCHANGED <<serviceVars, tree, current>>,
         deploy' = NoDeploy \/ \E s \in Sent \ {"service", "serving"} : Goto(s),
         deploy'.at = "activate" => Whole(BundleId(deploy.b)),
         built' \in [Natives -> [of: Natives \cup {None}, ok: BOOLEAN]],
         native' \in Natives \cup {None}, bin' \in [Binaries -> Natives \cup {None}], BuildInv'
  PROVE  IInv'
  <1>1. /\ deploy \in DeployRecord /\ deploy.at \in Stages \ {"serving"}
    BY UnderWay, Names DEF IInv, Sent, Stages, Verified
  <1>2. deploy' = NoDeploy \/ \E s \in Sent \ {"service", "serving"} :
                                Moves(s) /\ deploy'.skipped = deploy.skipped
    BY <1>1, GotoMoves DEF Sent
  <1>3. TypeInv' /\ FileInv'
    BY <1>2 DEF IInv, TypeInv, FileInv, Moves, serviceVars
  <1>4. SentInv'
    BY <1>2, Names DEF IInv, SentInv, Sent, Stages, Verified, Remote, Local, Moves
  <1>5. \A t : Whole(t)' <=> Whole(t)
    BY TreeKept
  <1>6. deploy'.at \in Verified => Whole(BundleId(deploy.b))'
    BY <1>2, <1>5, Names DEF Verified, Moves, Whole
  <1>7. deploy'.at # "service"
    BY <1>2, Names DEF Moves
  <1> QED BY <1>1, <1>2, <1>3, <1>4, <1>5, <1>6, <1>7, StageFrame DEF IInv, WholeInv, Sent, Whole

LEMMA BuildKeeps == ASSUME IInv, Build PROVE IInv'
  <1>1. deploy \in DeployRecord /\ deploy.at = "build" /\ UNCHANGED <<serviceVars, boardVars>>
    BY UnderWay DEF Build, IInv
  <1>2. PICK s \in {"verify", "install_server", "native"} : Goto(s) /\ (s = "verify" => ~deploy.build)
    BY DEF Build
  <1>3. Moves(s)
    BY <1>1, <1>2, GotoMoves DEF Stages
  <1>4. BuildInv'
    BY <1>1, <1>2, <1>3 DEF IInv, BuildInv, Moves, Verified, boardVars
  <1> QED BY <1>1, <1>2, <1>3, <1>4, BuildFrame DEF IInv, TypeInv, Sent, Stages, Verified, Moves, boardVars

LEMMA SyncNativeKeeps == ASSUME IInv, SyncNative PROVE IInv'
  <1>1. deploy \in DeployRecord /\ deploy.at = "native" /\ deploy.native \in Natives
    BY UnderWay DEF SyncNative, IInv
  <1>2. Moves("compile")
    BY <1>1, GotoMoves DEF SyncNative, Stages
  <1>3. BuildInv'
    BY <1>1, <1>2 DEF SyncNative, IInv, BuildInv, Moves, Verified
  <1> QED BY <1>1, <1>2, <1>3, BuildFrame DEF SyncNative, IInv, TypeInv, Sent, Stages, Verified, Moves

\* What cmake compiles is what was synced.
LEMMA CompileKeeps == ASSUME IInv, Compile PROVE IInv'
  <1>1. /\ deploy \in DeployRecord /\ deploy.at = "compile" /\ deploy.native \in Natives
        /\ native = deploy.native
    BY UnderWay DEF Compile, IInv, BuildInv
  <1>2. Moves("touch")
    BY <1>1, GotoMoves DEF Compile, Stages
  <1> DEFINE B == [of: Natives \cup {None}, ok: BOOLEAN]
             of == [built[deploy.native] EXCEPT !.of = native]
  <1>3. of \in B /\ of.of = native /\ built \in [Natives -> B]
    BY <1>1 DEF IInv, TypeInv
  <1>4. built' = [built EXCEPT ![deploy.native] = of]
    BY DEF Compile
  <1> HIDE DEF of
  <1>5. /\ built' \in [Natives -> B] /\ built'[deploy.native].of = native
        /\ \A h \in Natives \ {deploy.native} : built'[h] = built[h]
    BY <1>1, <1>3, <1>4
  <1>6. BuildInv'
    BY <1>1, <1>2, <1>5 DEF Compile, IInv, BuildInv, Moves, Verified
  <1> QED BY <1>1, <1>2, <1>5, <1>6, BuildFrame DEF Compile, IInv, TypeInv, Sent, Stages, Verified, Moves

LEMMA TouchKeeps == ASSUME IInv, Touch PROVE IInv'
  <1>1. deploy \in DeployRecord /\ deploy.at = "touch" /\ deploy.native \in Natives
    BY UnderWay DEF Touch, IInv
  <1>2. Moves("install_server")
    BY <1>1, GotoMoves DEF Touch, Stages
  <1> DEFINE B == [of: Natives \cup {None}, ok: BOOLEAN]
             ok == [built[deploy.native] EXCEPT !.ok = TRUE]
  <1>3. ok \in B /\ ok.of = built[deploy.native].of /\ built \in [Natives -> B]
    BY <1>1 DEF IInv, TypeInv
  <1>4. built' = [built EXCEPT ![deploy.native] = ok]
    BY DEF Touch
  <1> HIDE DEF ok
  <1>5. built' \in [Natives -> B] /\ \A h \in Natives : built'[h].of = built[h].of
    BY <1>1, <1>3, <1>4
  <1>6. BuildInv'
    BY <1>2, <1>5 DEF Touch, IInv, BuildInv, Moves, Verified
  <1> QED BY <1>1, <1>2, <1>5, <1>6, BuildFrame DEF Touch, IInv, TypeInv, Sent, Stages, Verified, Moves

\* One binary is installed, of the source its build is of, or the deploy ends.
LEMMA InstallKeeps ==
  ASSUME IInv, deploy.at \in {"install_server", "install_cli"},
         NEW x \in Binaries, NEW next \in {"install_cli", "verify"}, Install(x, next),
         next = "install_cli" => x = "polima_server",
         next = "verify" => x = "polima_cli" /\ bin["polima_server"] = deploy.native
  PROVE  IInv'
  <1>1. deploy \in DeployRecord /\ deploy.native \in Natives
    BY UnderWay DEF IInv
  <1>2. CASE ~Installs
    <2>1. deploy' = NoDeploy /\ UNCHANGED <<serviceVars, tree, current, built, native, bin>>
      BY <1>2 DEF Install
    <2>2. BuildInv'
      BY <2>1, Names DEF IInv, BuildInv, Verified
    <2> QED BY <2>1, <2>2, Names, BuildFrame DEF IInv, TypeInv, Sent, Stages, Verified
  <1>3. CASE Installs
    <2>1. /\ Goto(next) /\ built[deploy.native].of = deploy.native
          /\ bin' = [bin EXCEPT ![x] = deploy.native]
          /\ UNCHANGED <<serviceVars, tree, current, built, native>>
      BY <1>1, <1>3 DEF Install, Installs, IInv, BuildInv
    <2>2. Moves(next)
      BY <1>1, <2>1, GotoMoves DEF Stages
    <2>3. /\ bin' \in [Binaries -> Natives \cup {None}] /\ bin'[x] = deploy.native
          /\ \A y \in Binaries \ {x} : bin'[y] = bin[y]
      BY <1>1, <2>1 DEF IInv, TypeInv
    <2>4. BuildInv'
      BY <2>1, <2>2, <2>3 DEF IInv, BuildInv, Moves, Verified, Binaries
    <2> QED BY <2>1, <2>2, <2>3, <2>4, BuildFrame DEF IInv, TypeInv, Sent, Stages, Verified, Moves
  <1> QED BY <1>2, <1>3

LEMMA InstallsKeep == ASSUME IInv, InstallServer \/ InstallCli PROVE IInv'
  BY InstallKeeps DEF InstallServer, InstallCli, Binaries, IInv, BuildInv

LEMMA VerifyKeeps == ASSUME IInv, Verify PROVE IInv'
  <1>1. /\ deploy \in DeployRecord /\ deploy.at = "verify" /\ deploy.b \in Builds
        /\ UNCHANGED <<serviceVars, boardVars>>
    BY UnderWay DEF Verify, IInv
  <1>2. CASE deploy' = NoDeploy
    <2>1. BuildInv'
      BY <1>1, <1>2, Names DEF IInv, BuildInv, Verified, boardVars
    <2> QED BY <1>1, <1>2, <2>1, Names, BuildFrame DEF IInv, TypeInv, Sent, Stages, Verified, boardVars
  <1>3. CASE deploy' # NoDeploy
    <2>1. Goto("activate") /\ \A g \in Elfs : Intact(g)
      BY <1>3 DEF Verify
    <2>2. Whole(BundleId(deploy.b))
      BY <1>1, <2>1, Ids DEF Whole, Intact, Remote
    <2>3. Moves("activate")
      BY <1>1, <2>1, GotoMoves DEF Stages
    <2>4. BuildInv'
      BY <1>1, <2>3 DEF IInv, BuildInv, Moves, Verified, boardVars
    <2> QED BY <1>1, <2>1, <2>2, <2>3, <2>4, BuildFrame
          DEF IInv, TypeInv, Sent, Stages, Verified, Moves, boardVars
  <1> QED BY <1>2, <1>3

LEMMA ActivateKeeps == ASSUME IInv, Activate PROVE IInv'
  <1>1. /\ deploy \in DeployRecord /\ deploy.at = "activate" /\ deploy.b \in Builds
        /\ BundleId(deploy.b) \in Trees /\ UNCHANGED <<serviceVars, tree, built, native, bin>>
    BY UnderWay DEF Activate, IInv
  <1>2. Moves("service") /\ deploy'.skipped = deploy.skipped
    BY <1>1, GotoMoves DEF Activate, Stages
  <1>3. /\ Whole(BundleId(deploy.b)) /\ current' \in {current, BundleId(deploy.b)}
        /\ deploy.activate => current' = BundleId(deploy.b)
    BY <1>1 DEF Activate, IInv, WholeInv, Verified
  <1>4. \A t : Whole(t)' <=> Whole(t)
    BY <1>1, TreeKept
  <1>5. TypeInv' /\ FileInv'
    BY <1>1, <1>2, <1>3 DEF IInv, TypeInv, FileInv, Moves, serviceVars
  <1>6. SentInv' /\ BuildInv'
    BY <1>1, <1>2 DEF IInv, SentInv, BuildInv, Sent, Stages, Verified, Remote, Local, Moves
  <1>7. (current' # None => Whole(current)') /\ Whole(BundleId(deploy.b))'
    BY <1>1, <1>2, <1>3 DEF IInv, WholeInv, Whole, Moves
  <1> QED BY <1>1, <1>2, <1>3, <1>4, <1>5, <1>6, <1>7, StageFrame DEF Stages

-----------------------------------------------------------------------------
(* The commands begin and end *)

\* A step that leaves the servers and every file of every bundle alone.
LEMMA CommandFrame ==
  ASSUME IInv, UNCHANGED <<process, pidFile, wedged, tree>>,
         op' \in OpRecord, deploy' \in DeployRecord \cup {NoDeploy},
         current' \in Trees \cup {None}, current' # None => Whole(current'),
         built' \in [Natives -> [of: Natives \cup {None}, ok: BOOLEAN]],
         native' \in Natives \cup {None}, bin' \in [Binaries -> Natives \cup {None}],
         op'.tree \in Trees => Whole(op'.tree),
         deploy'.at \in Verified => Whole(BundleId(deploy'.b)),
         SentInv', BuildInv', StartInv', op'.at \notin {"record"} \cup Launched
  PROVE  IInv'
  <1>1. TypeInv' /\ FileInv'
    BY DEF IInv, TypeInv, FileInv
  <1>2. \A t : Whole(t)' <=> Whole(t)
    BY TreeKept
  <1>3. WholeInv'
    BY <1>2 DEF IInv, WholeInv
  <1>4. AwaitedInv'
    BY DEF AwaitedInv
  <1> QED BY <1>1, <1>3, <1>4 DEF IInv

LEMMA StartServiceKeeps == ASSUME IInv, StartService PROVE IInv'
  <1>1. /\ deploy \in DeployRecord /\ deploy.at = "service" /\ deploy.b \in Builds
        /\ BundleId(deploy.b) \in Trees /\ op = NoOp
        /\ UNCHANGED <<process, pidFile, wedged, boardVars>>
    BY UnderWay DEF StartService, IInv, StartInv, Stages
  <1>2. Whole(BundleId(deploy.b)) /\ (current # None => Whole(current))
    BY <1>1 DEF IInv, WholeInv, Verified
  <1>3. CASE deploy.start
    <2> DEFINE t == IF deploy.activate THEN Link ELSE BundleId(deploy.b)
    <2>1. CallStart(t) /\ Goto("serving")
      BY <1>3 DEF StartService
    <2>2. Moves("serving") /\ deploy'.skipped = deploy.skipped
      BY <1>1, <2>1, GotoMoves DEF Stages
    <2>3. /\ op' \in OpRecord /\ op'.at = "stop" /\ op'.then = "launch" /\ op'.tree = t
      BY <1>1, <2>1, RecordsAtFirst DEF CallStart, OpRecord, Points
    <2>4. t \in Trees => t = BundleId(deploy.b)
      BY Names
    <2> HIDE DEF t
    <2>5. StartInv'
      <3>1. t = IF deploy'.activate THEN Link ELSE BundleId(deploy'.b)
        BY <2>2 DEF Moves, t
      <3>2. t # None
        BY <1>1, Names DEF t
      <3>3. deploy'.activate => current' = BundleId(deploy'.b)
        BY <1>1, <2>2 DEF IInv, StartInv, Moves, boardVars
      <3> QED BY <2>2, <2>3, <3>1, <3>2, <3>3 DEF StartInv, Moves, Stages
    <2>6. SentInv' /\ BuildInv'
      BY <1>1, <2>2 DEF IInv, SentInv, BuildInv, Sent, Stages, Verified, Remote, Local, Moves, boardVars
    <2> QED BY <1>1, <1>2, <2>2, <2>3, <2>4, <2>5, <2>6, CommandFrame
          DEF IInv, TypeInv, Moves, boardVars, Launched
  <1>4. CASE ~deploy.start
    <2>1. deploy' = NoDeploy /\ op' = op
      BY <1>4 DEF StartService
    <2>2. SentInv' /\ BuildInv' /\ StartInv'
      BY <1>1, <2>1, Names, RecordsAtFirst
         DEF IInv, SentInv, BuildInv, StartInv, Sent, Stages, Verified, Starting, Launched, boardVars
    <2> QED BY <1>1, <1>2, <2>1, <2>2, Names, RecordsAtFirst, CommandFrame
          DEF IInv, TypeInv, Verified, Launched, boardVars
  <1> QED BY <1>3, <1>4

\* The command and the deploy are over.
LEMMA OverKeeps ==
  ASSUME IInv, op' = NoOp, deploy' = NoDeploy, UNCHANGED <<process, pidFile, wedged, tree, current, bin>>,
         native' \in Natives \cup {None},
         built' \in [Natives -> [of: Natives \cup {None}, ok: BOOLEAN]],
         \A h \in Natives : built'[h].of \in {h, None}
  PROVE  IInv'
  <1>1. SentInv' /\ BuildInv' /\ StartInv'
    BY Names, RecordsAtFirst DEF SentInv, BuildInv, StartInv, Sent, Stages, Verified, Starting, Launched
  <1>2. (current # None => Whole(current)) /\ current \in Trees \cup {None}
    BY DEF IInv, TypeInv, WholeInv
  <1> QED BY <1>1, <1>2, Names, RecordsAtFirst, CommandFrame DEF IInv, TypeInv, Verified, Launched

LEMMA ReportKeeps == ASSUME IInv, Report PROVE IInv'
  BY OverKeeps DEF Report, boardVars, IInv, TypeInv, BuildInv

LEMMA LostKeeps == ASSUME IInv, Lost PROVE IInv'
  <1> DEFINE B == [of: Natives \cup {None}, ok: BOOLEAN]
             cut == [built[deploy.native] EXCEPT !.of = None]
  <1>1. built \in [Natives -> B] /\ \A h \in Natives : built[h].of \in {h, None}
    BY DEF IInv, TypeInv, BuildInv
  <1>2. built' \in [Natives -> B] /\ \A h \in Natives : built'[h].of \in {h, None}
    <2>1. CASE built' = built
      BY <1>1, <2>1
    <2>2. CASE built' # built
      <3>1. deploy.at = "compile" /\ built' = [built EXCEPT ![deploy.native].of = None]
        BY <2>2 DEF Lost
      <3>2. deploy.native \in Natives
        BY <3>1, UnderWay DEF IInv
      <3>3. cut \in B /\ cut.of = None
        BY <1>1, <3>2
      <3>4. built' = [built EXCEPT ![deploy.native] = cut]
        BY <3>1
      <3> HIDE DEF cut
      <3> QED BY <1>1, <3>2, <3>3, <3>4
    <2> QED BY <2>1, <2>2
  <1>3. native' \in Natives \cup {None}
    BY DEF Lost, IInv, TypeInv
  <1> QED BY <1>2, <1>3, OverKeeps DEF Lost

LEMMA BeginKeeps ==
  ASSUME IInv, NEW b \in Builds, NEW h \in Natives, NEW opts \in Options, Begin(b, h, opts)
  PROVE  IInv'
  <1>1. /\ op = NoOp /\ UNCHANGED <<serviceVars, boardVars>>
    BY DEF Begin, IInv, StartInv
  <1>2. /\ deploy' \in DeployRecord /\ deploy'.at = "sync" /\ deploy'.file = 1
    BY Orders DEF Begin, DeployRecord, Stages
  <1>3. SentInv' /\ BuildInv' /\ StartInv'
    BY <1>1, <1>2, RecordsAtFirst DEF IInv, SentInv, BuildInv, StartInv, Sent, Stages, Verified,
         Starting, Launched, serviceVars, boardVars
  <1>4. current # None => Whole(current)
    BY DEF IInv, WholeInv
  <1> QED BY <1>1, <1>2, <1>3, <1>4, Names, RecordsAtFirst, CommandFrame
        DEF IInv, TypeInv, Verified, Launched, serviceVars, boardVars

LEMMA ManageKeeps == ASSUME IInv, Manage PROVE IInv'
  <1>1. /\ deploy.at = "idle" /\ UNCHANGED <<process, pidFile, wedged, boardVars, deploy>>
    BY DEF Manage
  <1>2. /\ op' \in OpRecord /\ op'.at = "stop" /\ op'.then \in {"done", "reset"} /\ op'.tree = None
    BY RecordsAtFirst DEF Manage, CallStop, OpRecord, Points
  <1>3. SentInv' /\ BuildInv' /\ StartInv'
    BY <1>1, <1>2 DEF IInv, SentInv, BuildInv, StartInv, Sent, Stages, Verified, Starting, Launched,
         boardVars
  <1>4. current # None => Whole(current)
    BY DEF IInv, WholeInv
  <1> QED BY <1>1, <1>2, <1>3, <1>4, Names, CommandFrame DEF IInv, TypeInv, Verified, Launched, boardVars

LEMMA RollbackKeeps == ASSUME IInv, NEW t \in Trees, Rollback(t) PROVE IInv'
  <1>1. /\ deploy.at = "idle" /\ op = NoOp /\ Whole(t) /\ current' = t
        /\ UNCHANGED <<serviceVars, tree, built, native, bin, deploy>>
    BY DEF Rollback, IInv, StartInv
  <1>2. SentInv' /\ BuildInv' /\ StartInv'
    BY <1>1, RecordsAtFirst DEF IInv, SentInv, BuildInv, StartInv, Sent, Stages, Verified, Starting,
         Launched, serviceVars
  <1> QED BY <1>1, <1>2, Names, RecordsAtFirst, CommandFrame
        DEF IInv, TypeInv, Verified, Launched, serviceVars

LEMMA StutterKeeps == ASSUME IInv, UNCHANGED vars PROVE IInv'
  <1>1. UNCHANGED <<process, pidFile, wedged, op, tree, current, built, native, bin, deploy>>
    BY DEF vars, serviceVars, boardVars
  <1>2. TypeInv' /\ FileInv' /\ BuildInv' /\ StartInv'
    BY <1>1 DEF IInv, TypeInv, FileInv, BuildInv, StartInv
  <1>3. SentInv'
    BY <1>1 DEF IInv, SentInv, Remote, Local
  <1>4. WholeInv'
    BY <1>1, TreeKept DEF IInv, WholeInv
  <1>5. AwaitedInv'
    BY <1>1 DEF IInv, AwaitedInv, Awaited, Holders
  <1> QED BY <1>2, <1>3, <1>4, <1>5 DEF IInv

LEMMA InvNext == IInv /\ [Next]_vars => IInv'
  <1> SUFFICES ASSUME IInv, [Next]_vars PROVE IInv'
    OBVIOUS
  <1>1. CASE DeployStep
    BY <1>1, SyncKeeps, SendKeeps, BuildKeeps, SyncNativeKeeps, CompileKeeps, TouchKeeps,
       InstallsKeep, VerifyKeeps, ActivateKeeps, StartServiceKeeps, ReportKeeps DEF DeployStep
  <1> QED BY <1>1, BeginKeeps, SendCutKeeps, ServiceKeeps, LostKeeps, ManageKeeps, RollbackKeeps,
             ServerKeeps, OtherUserKeeps, StutterKeeps DEF Next

LEMMA Always == Spec => []IInv
  BY InvInit, InvNext, PTL DEF Spec

-----------------------------------------------------------------------------
(* The theorems *)

\* Every variable keeps its type, and a server that is up has loaded a bundle.
THEOREM DeployTyped == Spec => []TypeOK
  <1>1. IInv => TypeOK
    <2> SUFFICES ASSUME IInv PROVE TypeOK
      OBVIOUS
    <2>1. ServiceTypeOK
      BY DEF IInv, TypeInv, FileInv, ServiceTypeOK, OpRecord, ProcessRecord
    <2>2. deploy.at # "idle" => deploy.b \in Builds /\ deploy.file \in DOMAIN Order
      <3>1. DOMAIN Order = 1 .. Len(Order)
        BY BuildsAssumption, Orders DEF Order
      <3> QED BY <3>1, UnderWay DEF IInv
    <2> QED BY <2>1, <2>2 DEF IInv, TypeInv, FileInv, TypeOK
  <1> QED BY <1>1, Always, PTL

\* Whatever was cut, sent again to the same directory, activated, rolled back or started
\* by somebody else, a server holds only ELFs that arrived whole (verify_bundle).
THEOREM NoGarbage == Spec => []NoGarbageIsServed
  <1>1. IInv => NoGarbageIsServed
    BY DEF IInv, WholeInv, NoGarbageIsServed
  <1> QED BY <1>1, Always, PTL

\* What a deploy activates is the host's bundle: its ELFs always, and every file unless
\* the transfer was skipped (deploy(), its sync and its verify).
THEOREM Activated == Spec => []ActivatedIsCurrent
  <1>1. IInv => ActivatedIsCurrent
    <2> SUFFICES ASSUME IInv, deploy.at \in Verified
                 PROVE  /\ \A g \in Elfs : Intact(g)
                        /\ ~deploy.skipped => \A f \in Files : Remote[f] = Local(f)
      BY DEF ActivatedIsCurrent, Verified
    <2>1. deploy.b \in Builds /\ BundleId(deploy.b).elf = deploy.b.elf
      BY UnderWay, Ids DEF IInv, Verified
    <2> QED BY <2>1 DEF IInv, WholeInv, Whole, SentInv, Intact, Remote, Verified, Sent, Stages
  <1> QED BY <1>1, Always, PTL

\* A build directory has binaries of its own source or none, and a deploy that built leaves
\* both binaries of that source installed (build_native and _link_binaries).
THEOREM Sentinel == Spec => []SentinelMeansBuilt
  <1>1. IInv => SentinelMeansBuilt
    BY DEF IInv, BuildInv, SentinelMeansBuilt, Verified
  <1> QED BY <1>1, Always, PTL

\* A file that comes completes at most the bundle it is of.
LEMMA PutArrives ==
  ASSUME IInv, deploy.at # "idle", NEW f \in Files, NEW c, Put(f, c),
         c = Local(f) \/ (c = Partial /\ Sends(f)), UNCHANGED current
  PROVE  [Store!Next]_<<{t \in Trees : Whole(t)}, current>>
  <1> DEFINE whole == {t \in Trees : Whole(t)}
             id == BundleId(deploy.b)
  <1>1. id \in Trees
    BY UnderWay DEF IInv
  <1>2. \A t \in Trees : Whole(t) => Whole(t)'
    BY PutKeeps
  <1>3. \A t \in Trees \ {id} : Whole(t)' <=> Whole(t)
    BY DEF Put, Whole, IInv, TypeInv
  <1>4. whole' = whole \/ whole' = whole \cup {id}
    BY <1>1, <1>2, <1>3
  <1> QED BY <1>1, <1>4 DEF Store!Next, Store!Arrive

\* Every step of the deployment is a step of the store, or none.
LEMMA StoreStep ==
  ASSUME IInv, [Next]_vars
  PROVE  [Store!Next]_<<{t \in Trees : Whole(t)}, current>>
  <1> DEFINE whole == {t \in Trees : Whole(t)}
  <1>1. CASE Send \/ SendCut
    <2> DEFINE f == Order[deploy.file]
    <2>1. f \in Files /\ deploy.at # "idle" /\ UNCHANGED current
      BY <1>1, UnderWay, Orders DEF Send, SendCut, IInv
    <2>2. UNCHANGED tree \/ Put(f, Local(f)) \/ (Sends(f) /\ Put(f, Partial))
      BY <1>1 DEF Send, SendCut
    <2>3. UNCHANGED tree => whole' = whole
      BY TreeKept
    <2> QED BY <2>1, <2>2, <2>3, PutArrives
  <1>2. CASE Activate \/ \E t \in Trees : Rollback(t)
    <2>1. whole' = whole
      BY <1>2, TreeKept DEF Activate, Rollback
    <2>2. current' = current \/ (current' \in Trees /\ Whole(current'))
      BY <1>2, UnderWay DEF Activate, Rollback, IInv, WholeInv, Verified
    <2> QED BY <2>1, <2>2 DEF Store!Next, Store!Switch
  <1>3. CASE UNCHANGED <<tree, current>>
    BY <1>3, TreeKept
  <1>4. \/ Send \/ SendCut \/ Activate \/ \E t \in Trees : Rollback(t)
        \/ UNCHANGED <<tree, current>>
    BY DEF Next, vars, boardVars, DeployStep, Begin, Sync, Build, SyncNative, Compile, Touch,
           InstallServer, InstallCli, Install, Verify, StartService, Report, ServiceStep, Lost,
           Manage, ServerStep, OtherUser
  <1> QED BY <1>1, <1>2, <1>3, <1>4

\* The deployment implements BundleStore: no transfer, cut or not, ever spoils a bundle
\* that has arrived, and `current' only ever leads to one that has (deploy() with _activate).
THEOREM StoreRefined == Spec => StoreKept
  <1>1. Init => Store!Init
    <2>1. IInv => current \in {t \in Trees : Whole(t)} \cup {None}
      BY DEF IInv, TypeInv, WholeInv
    <2> QED BY <2>1, InvInit DEF Store!Init
  <1> QED BY <1>1, StoreStep, Always, PTL DEF Spec, StoreKept, Store!Spec

\* Only a confirmed start reports its server up.
LEMMA StartedIsBound ==
  ASSUME IInv, [Next]_vars, op'.at = "started", op.at # "started"
  PROVE  ConfirmBound /\ IsBound
  <1>1. op \in OpRecord
    BY DEF IInv, TypeInv
  <1>2. NoOp.at # "started"
    BY RecordsAtFirst
  <1>3. CASE ServiceStep
    <2>1. CASE StopTerm \/ StopEnds
      <3>1. op.then # "started"
        BY <1>1 DEF OpRecord
      <3> QED BY <1>1, <2>1, <3>1 DEF StopTerm, StopEnds, OpRecord
    <2>2. CASE StopRead \/ LaunchRecorded \/ ResetMla
      BY <1>1, <2>2 DEF StopRead, LaunchRecorded, ResetMla, Do, OpRecord
    <2>3. CASE Launch \/ WaitForPort \/ ConfirmAlive
      BY <1>1, <2>3 DEF Launch, WaitForPort, ConfirmAlive, LaunchFails, Do, OpRecord
    <2>4. CASE ConfirmBound
      BY <1>1, <2>4 DEF ConfirmBound, Do, OpRecord
    <2> QED BY <1>3, <2>1, <2>2, <2>3, <2>4 DEF ServiceStep, Service
  <1>4. CASE StartService \/ Manage
    BY <1>1, <1>4 DEF StartService, Manage, CallStart, CallStop, NoOp
  <1>5. CASE op' \in {op, NoOp}
    BY <1>2, <1>5
  <1>6. ServiceStep \/ StartService \/ Manage \/ op' \in {op, NoOp}
    BY DEF Next, vars, serviceVars, DeployStep, Begin, Sync, Send, SendCut, Build, SyncNative,
           Compile, Touch, InstallServer, InstallCli, Install, Verify, Activate, Report, Lost,
           Rollback, ServerStep, OtherUser, OtherStart, Load, Bind, Exit, Die
  <1> QED BY <1>3, <1>4, <1>5, <1>6

\* A deploy that reports its server up holds the port alone, and with the bundle it has
\* activated (_launch): an earlier server cannot be what answered.
THEOREM StartedServes == Spec => StartedServesDeployed
  <1>1. ASSUME IInv, [Next]_vars, op'.at = "started", op.at # "started", NEW p \in Holders'
        PROVE  /\ p = op.launched
               /\ deploy.activate => process'[p].holds = BundleId(deploy.b)
    <2>1. ConfirmBound /\ IsBound
      BY <1>1, StartedIsBound
    <2>2. op.at = "bound" /\ process' = process /\ Holders' = Holders
      BY <2>1 DEF ConfirmBound, Holders
    <2>3. op.launched \in Holders /\ op.launched # None
      BY <1>1, <2>1, <2>2, Names DEF IsBound, Holders
    <2>4. /\ Holders = {op.launched} /\ process[op.launched].at = "up"
          /\ deploy.activate => process[op.launched].holds \in {BundleId(deploy.b), None}
      BY <2>2, <2>3, <1>1 DEF IInv, AwaitedInv, Awaited, Launched, Holders
    <2>5. process[op.launched].holds # None
      BY <1>1, <2>3, <2>4 DEF IInv, FileInv, Holders
    <2> QED BY <1>1, <2>2, <2>4, <2>5
  <1>2. IInv /\ [Next]_vars =>
          [op'.at = "started" /\ op.at # "started" =>
             \A p \in Holders' : /\ p = op.launched
                                 /\ deploy.activate => process'[p].holds = BundleId(deploy.b)]_vars
    BY <1>1
  <1> QED BY <1>2, Always, PTL DEF Spec, StartedServesDeployed
=============================================================================
