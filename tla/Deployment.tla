----------------------------- MODULE Deployment -----------------------------
(***************************************************************************)
(* polima-deploy (deploy/__init__.py, board.py, build.py, cli/deploy.py):  *)
(* one host sends bundles to a board over ssh, builds the native runtime   *)
(* there, verifies, activates and starts.  The connection may be lost at   *)
(* any step; the next deploy, of the same or of another bundle, finds what *)
(* that left.  A bundle's directory is named after what its ELFs and its   *)
(* plan contain; what else is in it may change under the same name.        *)
(***************************************************************************)
EXTENDS BoardService, Sequences

CONSTANTS MaxDeploys, \* bound: how many deploys are begun
          Graphs,    \* the names of a bundle's graphs, as a sequence
          Builds,    \* the bundles the host packs, one after the other
          Natives,   \* the versions of native/, as their source hashes
          Options    \* of polima-deploy: sets of "build", "force", "activate", "start"

\* A packed bundle, by the versions of its parts: the ELF of each graph, the steps of
\* plan.json, its wire and robot description, and its other files (constants/,
\* robot_client/, run_policy.py).
Elfs == {Graphs[k] : k \in DOMAIN Graphs}

ASSUME BuildsAssumption ==
    /\ Graphs \in Seq(Elfs)
    /\ Elfs \cap {"bundle.json", "plan.json", "constants"} = {}
    /\ \A b \in Builds : DOMAIN b = {"elf", "plan", "wire", "side"} /\ DOMAIN b.elf = Elfs

\* compute_bundle_id: the ELFs' digests and the plan.
BundleId(b) == [elf |-> b.elf, plan |-> b.plan]

ASSUME TreesAssumption == Trees = {BundleId(b) : b \in Builds}

VARIABLES tree,      \* bundles/<id>/ on the board, file by file
          current,   \* the link `current'
          built,     \* build/<hash>/: the source its binaries are of, and .ok
          native,    \* native/ on the board: a version, or none or a mixture
          bin,       \* bin/: the source each installed binary is of
          deploy,    \* the deploy under way
          deploys    \* how many were begun, for MaxDeploys

boardVars == <<tree, current, built, native, bin>>
vars == <<serviceVars, boardVars, deploy, deploys>>

\* In the order rsync sends them: a directory's own files first.
Files == {"bundle.json", "plan.json", "constants"} \cup Elfs
Order == <<"bundle.json", "plan.json", "constants">> \o Graphs

\* bundle.json holds the digest of every ELF and the names, not the digests, of the rest.
Content(b, f) ==
    CASE f = "bundle.json" -> <<"digests", b.elf>>
      [] f = "plan.json"   -> <<"plan", b.plan, b.wire>>
      [] f = "constants"   -> <<"constants", b.side>>
      [] OTHER             -> <<"elf", b.elf[f]>>

Partial == <<"partial">>

Absent == [f \in Files |-> None]
Binaries == {"polima_server", "polima_cli"}
NoBuild  == [of |-> None, ok |-> FALSE]
NoDeploy == [at |-> "idle"]

\* A new board, or one that an earlier deploy has left with bundle b and build h.
Deployed(b, h) ==
    /\ tree = [t \in Trees |-> IF t = BundleId(b) THEN [f \in Files |-> Content(b, f)] ELSE Absent]
    /\ current = BundleId(b)
    /\ built = [x \in Natives |-> IF x = h THEN [of |-> h, ok |-> TRUE] ELSE NoBuild]
    /\ native = h
    /\ bin = [x \in Binaries |-> h]

NewBoard ==
    /\ tree = [t \in Trees |-> Absent]
    /\ current = None
    /\ built = [h \in Natives |-> NoBuild]
    /\ native = None
    /\ bin = [x \in Binaries |-> None]

Init ==
    /\ ServiceInit
    /\ NewBoard \/ \E b \in Builds, h \in Natives : Deployed(b, h)
    /\ deploy = NoDeploy /\ deploys = 0

Local(f) == Content(deploy.b, f)
Remote   == tree[BundleId(deploy.b)]
Goto(stage) == deploy' = [deploy EXCEPT !.at = stage]

-----------------------------------------------------------------------------
(* The stages of deploy() *)

Begin(b, h, opts) ==
    /\ deploy.at = "idle" /\ op.at = "idle"
    /\ deploys < MaxDeploys /\ deploys' = deploys + 1
    /\ deploy' = [at |-> "sync", b |-> b, native |-> h, skipped |-> FALSE, file |-> 1,
                  build |-> "build" \in opts, force |-> "force" \in opts,
                  activate |-> "activate" \in opts, start |-> "start" \in opts]
    /\ UNCHANGED <<serviceVars, boardVars>>

\* _metadata_matches: plan.json and bundle.json.
MetadataMatches == \A f \in {"plan.json", "bundle.json"} : Remote[f] = Local(f)

Sync ==
    /\ deploy.at = "sync"
    /\ deploy' = IF MetadataMatches /\ ~deploy.force
                 THEN [deploy EXCEPT !.at = "build", !.skipped = TRUE]
                 ELSE [deploy EXCEPT !.at = "send"]
    /\ UNCHANGED <<serviceVars, boardVars, deploys>>

\* The first mutant sends everything again, the second keeps what is there.
SendsAll(f) == TRUE
SendsAbsent(f) == Remote[f] = None

\* rsync sends what differs.
Sends(f) == Remote[f] # Local(f)

Put(f, content) == tree' = [tree EXCEPT ![BundleId(deploy.b)][f] = content]

Send ==
    LET f == Order[deploy.file]
    IN  /\ deploy.at = "send"
        /\ IF Sends(f) THEN Put(f, Local(f)) ELSE UNCHANGED tree
        /\ deploy' = IF deploy.file = Len(Order) THEN [deploy EXCEPT !.at = "build"]
                     ELSE [deploy EXCEPT !.file = @ + 1]
        /\ UNCHANGED <<serviceVars, current, built, native, bin, deploys>>

\* rsync --partial: what had come of a file stays under its name.
SendCut ==
    LET f == Order[deploy.file]
    IN  /\ deploy.at = "send" /\ Sends(f)
        /\ Put(f, Partial)
        /\ deploy' = NoDeploy
        /\ UNCHANGED <<serviceVars, current, built, native, bin, deploys>>

\* build_native: skipped when build/<hash>/.ok is there.
Build ==
    /\ deploy.at = "build"
    /\ Goto(CASE ~deploy.build -> "verify"
              [] deploy.build /\ built[deploy.native].ok /\ ~deploy.force -> "install_server"
              [] OTHER -> "native")
    /\ UNCHANGED <<serviceVars, boardVars, deploys>>

SyncNative ==
    /\ deploy.at = "native"
    /\ native' = deploy.native
    /\ Goto("compile")
    /\ UNCHANGED <<serviceVars, tree, current, built, bin, deploys>>

\* cmake, and the check that both binaries are there.
Compile ==
    /\ deploy.at = "compile"
    /\ built' = [built EXCEPT ![deploy.native].of = native]
    /\ Goto("touch")
    /\ UNCHANGED <<serviceVars, tree, current, native, bin, deploys>>

Touch ==
    /\ deploy.at = "touch"
    /\ built' = [built EXCEPT ![deploy.native].ok = TRUE]
    /\ Goto("install_server")
    /\ UNCHANGED <<serviceVars, tree, current, native, bin, deploys>>

\* The mutant goes on whatever install says.
InstallsAnyway == TRUE

\* What was not built, or was deleted when a forced build was cut, is not installed.
Installs == built[deploy.native].of # None

\* install to a new name, then mv: one binary at a time.
Install(x, next) ==
    /\ IF Installs
       THEN Goto(next) /\ bin' = [bin EXCEPT ![x] = built[deploy.native].of]
       ELSE deploy' = NoDeploy /\ UNCHANGED bin
    /\ UNCHANGED <<serviceVars, tree, current, built, native, deploys>>

InstallServer == deploy.at = "install_server" /\ Install("polima_server", "install_cli")
InstallCli    == deploy.at = "install_cli" /\ Install("polima_cli", "verify")

\* The mutant is content with a file of that name.
IntactIfThere(g) == Remote[g] # None

\* verify_bundle: the digest of every ELF on the board.
Intact(g) == Remote[g] = <<"elf", deploy.b.elf[g]>>

Verify ==
    /\ deploy.at = "verify"
    /\ IF \A g \in Elfs : Intact(g) THEN Goto("activate") ELSE deploy' = NoDeploy
    /\ UNCHANGED <<serviceVars, boardVars, deploys>>

\* ln -sfn.
Activate ==
    /\ deploy.at = "activate"
    /\ current' = IF deploy.activate THEN BundleId(deploy.b) ELSE current
    /\ Goto("service")
    /\ UNCHANGED <<serviceVars, tree, built, native, bin, deploys>>

\* start() of deploy/service.py.
StartService ==
    /\ deploy.at = "service"
    /\ IF deploy.start
       THEN /\ CallStart(IF deploy.activate THEN Link ELSE BundleId(deploy.b))
            /\ Goto("serving")
       ELSE deploy' = NoDeploy /\ UNCHANGED op
    /\ UNCHANGED <<process, pidFile, wedged, boardVars, deploys>>

\* start() has returned or raised; so has a command of _manage.
Report ==
    /\ op.at \in {"started", "failed", "done"}
    /\ op' = NoOp
    /\ deploy' = NoDeploy
    /\ UNCHANGED <<process, pidFile, wedged, boardVars, deploys>>

\* The host or the connection goes away.  What runs on the board goes on, and a build
\* that was cut leaves its last complete binaries or none.
Lost ==
    /\ deploy.at # "idle" \/ op.at # "idle"
    /\ deploy' = NoDeploy
    /\ op' = NoOp
    /\ native' \in IF deploy.at = "native" THEN {native, None} ELSE {native}
    /\ built' \in IF deploy.at = "compile"
                  THEN {built, [built EXCEPT ![deploy.native].of = None]} ELSE {built}
    /\ UNCHANGED <<process, pidFile, wedged, tree, current, bin, deploys>>

-----------------------------------------------------------------------------
(* The other commands of cli/deploy.py, and the board *)

\* --stop and --reset-mla: neither knows the port.
Manage ==
    /\ deploy.at = "idle" /\ op.at = "idle"
    /\ \E then \in {"done", "reset"} : CallStop(then, FALSE)
    /\ UNCHANGED <<process, pidFile, wedged, boardVars, deploy, deploys>>

\* The ELFs of t are the ones t is named after.
Whole(t) == \A g \in Elfs : tree[t][g] = <<"elf", t.elf[g]>>

\* --activate takes any name, and verifies nothing; it is given that of a whole bundle.
Rollback(t) ==
    /\ deploy.at = "idle" /\ op.at = "idle"
    /\ Whole(t)
    /\ current' = t
    /\ UNCHANGED <<serviceVars, tree, built, native, bin, deploy, deploys>>

Target(p) == IF process[p].tree = Link THEN current ELSE process[p].tree

\* The manifest and the plan parse, and every file they name is there.
Loadable(t) ==
    /\ t # None
    /\ \A f \in Files : tree[t][f] # None
    /\ \A f \in {"bundle.json", "plan.json"} : tree[t][f] # Partial

ServerStep ==
    /\ \E p \in Pids : Load(p, Target(p), Loadable(Target(p))) \/ Bind(p) \/ Exit(p) \/ Die(p)
    /\ UNCHANGED <<boardVars, deploy, deploys>>

OtherUser == OtherStart(Link) /\ UNCHANGED <<boardVars, deploy, deploys>>

-----------------------------------------------------------------------------

DeployStep == Sync \/ Send \/ Build \/ SyncNative \/ Compile \/ Touch \/ InstallServer
              \/ InstallCli \/ Verify \/ Activate \/ StartService \/ Report

ServiceStep == Service /\ UNCHANGED <<boardVars, deploy, deploys>>

Next ==
    \/ \E b \in Builds, h \in Natives, opts \in Options : Begin(b, h, opts)
    \/ DeployStep \/ SendCut \/ ServiceStep \/ Lost
    \/ Manage \/ \E t \in Trees : Rollback(t)
    \/ ServerStep \/ OtherUser

\* The command runs, every wait of its having a deadline, and a killed process is gone in
\* the end.  A server need not come up, nor heed SIGTERM.
Fairness ==
    /\ WF_vars(DeployStep \/ ServiceStep)
    /\ \A p \in Pids : WF_vars(Die(p) /\ UNCHANGED <<boardVars, deploy, deploys>>)

Spec == Init /\ [][Next]_vars /\ Fairness

-----------------------------------------------------------------------------
(* Properties *)

\* Types; a deploy under way has a bundle of the host, and what runs has a bundle.
TypeOK ==
    /\ ServiceTypeOK
    /\ current \in Trees \cup {None}
    /\ \A t \in Trees, f \in Files :
         tree[t][f] \in {None, Partial} \cup {Content(b, f) : b \in {c \in Builds : BundleId(c) = t}}
    /\ bin \in [Binaries -> Natives \cup {None}]
    /\ deploy.at # "idle" => deploy.b \in Builds /\ deploy.file \in DOMAIN Order

\* A server never loads an ELF that did not arrive whole, whatever was cut and whatever
\* was sent to the same directory before and since (board.py, verify_bundle: "a truncated
\* rsync produces an ELF that loads and returns garbage").
NoGarbageIsServed == \A p \in Pids : process[p].holds # None => Whole(process[p].holds)

\* The board's store keeps BundleStore's promise.
Store == INSTANCE BundleStore WITH whole <- {t \in Trees : Whole(t)}

StoreKept == Store!Spec

\* What a deploy activates has the ELFs of its bundle and, unless the transfer was
\* skipped, is the host's bundle file by file, also after interrupted transfers of an
\* earlier one (deploy/__init__.py, sync and verify).
ActivatedIsCurrent ==
    deploy.at \in {"activate", "service", "serving"} =>
      /\ \A g \in Elfs : Intact(g)
      /\ ~deploy.skipped => \A f \in Files : Remote[f] = Local(f)

\* .ok says that build/<hash>/ has the binaries of that source, and a deploy that built
\* leaves a pair of them installed (build.py, build_native and _link_binaries).
SentinelMeansBuilt ==
    /\ \A h \in Natives : built[h].of \in {h, None}
    /\ deploy.at \in {"verify", "activate", "service", "serving"} /\ deploy.build =>
         \A x \in Binaries : bin[x] = deploy.native

\* A deploy that reports its server up is not shadowed: at that moment the port is held
\* by nobody else, least of all by a server of an earlier bundle (service.py, _launch;
\* listening_pids: "a redeploy silently has no effect").
StartedServesDeployed ==
    [][op'.at = "started" /\ op.at # "started" =>
         \A p \in Holders' : /\ p = op.launched
                             /\ deploy.activate => process'[p].holds = BundleId(deploy.b)]_vars

\* Every deploy and every command ends, whatever the board does.
CommandEnds == (deploy.at # "idle" \/ op.at # "idle") ~> (deploy.at = "idle" /\ op.at = "idle")
=============================================================================
