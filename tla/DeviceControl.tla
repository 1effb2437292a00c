---------------------------- MODULE DeviceControl ----------------------------
(***************************************************************************)
(* The board's own commands: polima activate, server and robot, and the    *)
(* exclusive benchmark (native/src/cli_main.cpp), the same commands inside *)
(* an interactive session (native/src/repl.cpp), and the background policy *)
(* server they start and stop (native/src/service.cpp).  The commands are  *)
(* separate processes.  What they share is var/run/control.lock, the file  *)
(* var/run/server.pid, the `current` link and the server's port.           *)
(***************************************************************************)
EXTENDS Naturals

CONSTANTS
    Jobs,        \* terminals, each running one command at a time
    Repls,       \* the terminals in an interactive session: one process for all commands
    Servers,     \* process ids of policy servers
    Bundles,
    Operations,  \* the commands of this instance
    None

ASSUME NoneAssumption == None \notin (Jobs \cup Servers \cup Bundles \cup {"TERM", "KILL"})
ASSUME ReplsAssumption == Repls \subseteq Jobs
ASSUME OperationsAssumption ==
    Operations \subseteq {"activate", "start", "stop", "preview", "run", "benchmark"}

VARIABLES
    lock,     \* who holds the flock on control.lock
    pidFile,  \* the process id in server.pid
    current,  \* what the link `current` leads to
    server,   \* the policy servers' processes
    job       \* the terminals' commands

vars == <<lock, pidFile, current, server, job>>

Idle == [op |-> None, at |-> "idle", saw |-> None, srv |-> None]
Gone == [at |-> "gone", sig |-> None, parent |-> None, bundle |-> None]

Init ==
    /\ lock = None
    /\ pidFile = None
    /\ current \in Bundles \cup {None}
    /\ server = [s \in Servers |-> Gone]
    /\ job = [p \in Jobs |-> Idle]

-----------------------------------------------------------------------------
(* The server's process *)

\* kill(pid, 0) succeeds for a dead child, too, until its parent waits for it.
Alive(s) == server[s].at # "gone"
Live(s)  == server[s].at \in {"fork", "load", "open"}

\* server_state: the pid file names a process.
Running == pidFile # None /\ Alive(pidFile)
Seen == IF Running THEN pidFile ELSE None

\* Somebody accepts connections on the port, which all bundles share here.
Listening == \E s \in Servers : server[s].at = "open"

\* A pid nobody remembers: pids are not reused while it matters.
Fresh ==
    {s \in Servers : ~Alive(s) /\ s # pidFile
                     /\ \A p \in Jobs : s \notin {job[p].saw, job[p].srv}}

\* exec, and the start of the load: a server given the link finds where it leads.
\* Until it listens SIGTERM has its default effect.
Load(s) ==
    /\ server[s].at = "fork" /\ server[s].sig = None
    /\ LET bundle == IF server[s].bundle = None THEN current ELSE server[s].bundle
       IN  server' = [server EXCEPT ![s] = [@ EXCEPT !.at = "load", !.bundle = bundle]]
    /\ UNCHANGED <<lock, pidFile, current, job>>

\* bind and listen, for which the port must be free.
Open(s) ==
    /\ server[s].at = "load" /\ server[s].sig = None
    /\ ~Listening
    /\ server' = [server EXCEPT ![s].at = "open"]
    /\ UNCHANGED <<lock, pidFile, current, job>>

\* The process ends: a failed exec, load or bind, a crash, a signal.  Nobody waits
\* for a server, so it is a zombie until the command that started it is gone.
Die(s) ==
    /\ Live(s)
    /\ server' = [server EXCEPT ![s] =
                    IF server[s].parent = None THEN Gone ELSE [@ EXCEPT !.at = "zombie"]]
    /\ UNCHANGED <<lock, pidFile, current, job>>

-----------------------------------------------------------------------------
(* Commands *)

\* The servers after p's process has exited: its children are init's, which reaps.
Orphaned(p) ==
    [s \in Servers |->
       IF server[s].parent # p THEN server[s]
       ELSE IF server[s].at = "zombie" THEN Gone
       ELSE [server[s] EXCEPT !.parent = None]]

\* The command is over.  Outside a session its process exits, which drops the lock.
End(p) ==
    /\ job' = [job EXCEPT ![p] = Idle]
    /\ lock' = IF lock = p THEN None ELSE lock
    /\ server' = IF p \in Repls THEN server ELSE Orphaned(p)

Goto(p, at) ==
    /\ job' = [job EXCEPT ![p].at = at]
    /\ UNCHANGED <<lock, server>>

\* A command is typed.  `server` looks for a running server before anything
\* else, and before the guided form asks its question.
Begin(p, op) ==
    /\ job[p].at = "idle" /\ op \in Operations
    /\ op \in {"preview", "run"} /\ p \notin Repls => current # None
    /\ op = "benchmark" => p \notin Repls
    /\ job' = [job EXCEPT ![p] =
                 [op |-> op, at |-> "lock",
                  saw |-> IF op = "start" THEN Seen ELSE None, srv |-> None]]
    /\ UNCHANGED <<lock, pidFile, current, server>>

\* acquire_control_lock, which does not wait; a session does not ask for the lock.
\* The mutants have no lock for previews, or for `server stop`.
LocksOnlyTheArm(p) == p \notin Repls /\ job[p].op # "preview"
LocksNoStop(p) == p \notin Repls /\ job[p].op # "stop"
TakesLock(p) == p \notin Repls

Lock(p) ==
    /\ job[p].at = "lock"
    /\ IF ~TakesLock(p) THEN Goto(p, "ready")
       ELSE IF lock = None
            THEN /\ lock' = p
                 /\ job' = [job EXCEPT ![p].at = "ready"]
                 /\ UNCHANGED server
            ELSE End(p)
    /\ UNCHANGED <<pidFile, current>>

\* The user declines, a device is missing, nothing is selected.
Decline(p) ==
    /\ job[p].at = "ready" /\ job[p].op # "stop"
    /\ End(p)
    /\ UNCHANGED <<pidFile, current>>

\* What a command does once it may.  `server start` goes by what it saw before the
\* lock.  The mutant activates over a running server.
NextStepWarm(p) ==
    CASE job[p].op = "stop"     -> "stop"
      [] job[p].op = "preview"  -> "client"
      [] job[p].op = "run"      -> IF Running THEN "stop" ELSE "start"
      [] job[p].op = "start"    -> IF job[p].saw # None THEN "stop" ELSE "start"
      [] job[p].op \notin {"stop", "preview", "run", "start"} -> "link"
NextStep(p) ==
    CASE job[p].op = "stop"     -> "stop"
      [] job[p].op = "preview"  -> "client"
      [] job[p].op = "run"      -> IF Running THEN "stop" ELSE "start"
      [] job[p].op = "start"    -> IF job[p].saw # None THEN "stop" ELSE "start"
      [] job[p].op \notin {"stop", "preview", "run", "start"} ->
             IF Running THEN "stop" ELSE "link"

\* A session's `server start` leaves a running server alone.
AlreadyRunning(p) == job[p].op = "start" /\ p \in Repls /\ job[p].saw # None

\* `server start` without an active bundle offers the list and activates the choice.
Unselected(p) == job[p].op = "start" /\ p \notin Repls /\ current = None

Proceed(p) ==
    /\ job[p].at = "ready" /\ job[p].op # "benchmark"
    /\ ~AlreadyRunning(p)
    /\ \E b \in Bundles : current' = IF Unselected(p) THEN b ELSE current
    /\ Goto(p, NextStep(p))
    /\ UNCHANGED pidFile

\* --exclusive-control: the benchmark loads the model itself, so no policy server
\* may be running.  The mutant does not look.
ServerAwayUnchecked == TRUE
ServerAway == ~Running

Benchmark(p) ==
    /\ job[p].at = "ready" /\ job[p].op = "benchmark"
    /\ ServerAway
    /\ Goto(p, "client")
    /\ UNCHANGED <<pidFile, current>>

-----------------------------------------------------------------------------
(* stop_server *)

AfterStop(p) ==
    CASE job[p].op = "activate" -> "link"
      [] job[p].op \in {"run", "start"} -> "start"
      [] OTHER -> "end"

\* Nothing runs: only the pid file goes.
StopNothing(p) ==
    /\ job[p].at = "stop" /\ ~Running
    /\ pidFile' = None
    /\ Goto(p, AfterStop(p))
    /\ UNCHANGED current

StopTerm(p) ==
    /\ job[p].at = "stop" /\ Running
    /\ job' = [job EXCEPT ![p] = [@ EXCEPT !.at = "stopping", !.saw = pidFile]]
    /\ server' = [server EXCEPT ![pidFile].sig = IF @ = None THEN "TERM" ELSE @]
    /\ UNCHANGED <<lock, pidFile, current>>

\* It ended within the five seconds.
StopEnded(p) ==
    /\ job[p].at = "stopping" /\ ~Alive(job[p].saw)
    /\ pidFile' = None
    /\ job' = [job EXCEPT ![p] = [@ EXCEPT !.at = AfterStop(p), !.saw = None]]
    /\ UNCHANGED <<lock, current, server>>

\* It did not.  The kill is not waited for.  The mutants only give up, or send
\* another signal.
LastResortNone(sig) == sig
LastResortHangup(sig) == "HUP"
LastResort(sig) == "KILL"

StopKill(p) ==
    /\ job[p].at = "stopping" /\ Alive(job[p].saw)
    /\ server' = [server EXCEPT ![job[p].saw].sig = LastResort(@)]
    /\ pidFile' = None
    /\ job' = [job EXCEPT ![p] = [@ EXCEPT !.at = AfterStop(p), !.saw = None]]
    /\ UNCHANGED <<lock, current>>

-----------------------------------------------------------------------------
(* activate_bundle and start_server *)

\* The link is replaced by a rename; then --start or the guided form may go on.
Link(p) ==
    /\ job[p].at = "link"
    /\ current' \in Bundles
    /\ \E at \in {"start", "end"} : Goto(p, at)
    /\ UNCHANGED pidFile

\* A session names the bundle it has loaded, the other commands the link.
Fork(p) ==
    /\ job[p].at = "start"
    /\ \E s \in Fresh, b \in IF p \in Repls THEN Bundles ELSE {None} :
         /\ server' = [server EXCEPT ![s] =
                         [at |-> "fork", sig |-> None, parent |-> p, bundle |-> b]]
         /\ job' = [job EXCEPT ![p] = [@ EXCEPT !.at = "pidfile", !.srv = s]]
    /\ UNCHANGED <<lock, pidFile, current>>

WritePid(p) ==
    /\ job[p].at = "pidfile"
    /\ pidFile' = job[p].srv
    /\ Goto(p, "starting")
    /\ UNCHANGED current

\* Up to 30 seconds for the port.  alive(pid) is no help: a child that died is a
\* zombie of this very process.
StartOk(p) ==
    /\ job[p].at = "starting"
    /\ Listening
    /\ Goto(p, IF job[p].op = "run" THEN "client" ELSE "end")
    /\ UNCHANGED <<pidFile, current>>

StartTimeout(p) ==
    /\ job[p].at = "starting"
    /\ server' = [server EXCEPT ![job[p].srv].sig = IF @ = None THEN "TERM" ELSE @]
    /\ job' = [job EXCEPT ![p].at = "end"]
    /\ UNCHANGED <<lock, pidFile, current>>

-----------------------------------------------------------------------------

\* The command returns; the robot client, the preview or the benchmark it waited for
\* has ended.
Finish(p) ==
    /\ job[p].at \in {"end", "client"}
    /\ End(p)
    /\ UNCHANGED <<pidFile, current>>

Stop(p) == StopNothing(p) \/ StopTerm(p) \/ StopEnded(p) \/ StopKill(p)
Start(p) == Fork(p) \/ WritePid(p) \/ StartOk(p) \/ StartTimeout(p)
Advance(p) ==
    \/ Lock(p) \/ Decline(p) \/ Proceed(p) \/ Benchmark(p)
    \/ Stop(p) \/ Link(p) \/ Start(p) \/ Finish(p)
Process(s) == Load(s) \/ Open(s) \/ Die(s)

Next ==
    \/ \E p \in Jobs, op \in Operations : Begin(p, op)
    \/ \E p \in Jobs : Advance(p)
    \/ \E s \in Servers : Process(s)

Spec == Init /\ [][Next]_vars

\* A command that waits for nobody goes on, questions are answered, and the kernel
\* carries out a SIGKILL.  Nothing makes a server see SIGTERM, nor a client end.
FairSpec ==
    /\ Spec
    /\ \A p \in Jobs : WF_vars(job[p].at # "client" /\ Advance(p))
    /\ \A s \in Servers : WF_vars(server[s].sig = "KILL" /\ Die(s))

-----------------------------------------------------------------------------
(* Properties *)

Stages == {"idle", "lock", "ready", "stop", "stopping", "link", "start", "pidfile",
           "starting", "client", "end"}

\* Types; a command knows the process it waits for or uses.
TypeOK ==
    /\ lock \in Jobs \cup {None}
    /\ pidFile \in Servers \cup {None}
    /\ current \in Bundles \cup {None}
    /\ server \in [Servers ->
         [at: {"gone", "fork", "load", "open", "zombie"}, sig: {None, "TERM", "KILL"},
          parent: Jobs \cup {None}, bundle: Bundles \cup {None}]]
    /\ job \in [Jobs ->
         [op: Operations \cup {None}, at: Stages,
          saw: Servers \cup {None}, srv: Servers \cup {None}]]
    /\ \A p \in Jobs :
         /\ job[p].at = "stopping" => job[p].saw # None
         /\ job[p].at \in {"pidfile", "starting"} => job[p].srv # None
         /\ job[p].at = "client" /\ job[p].op = "run" => job[p].srv # None

\* "This prevents Studio and a terminal command from controlling the same devices
\* concurrently" (docs/polima-studio.md:39-40): one robot client, preview or
\* benchmark at a time.
OneController ==
    \A p, q \in Jobs : job[p].at = "client" /\ job[q].at = "client" => p = q

\* While a robot client moves the arm no other command signals its server, whatever
\* server commands, activations and benchmarks are tried meanwhile
\* (cli_main.cpp:70-80, 186, 246, 251, 330, 443).
ServerIsLeftAlone ==
    [][\A p \in Jobs :
         job[p].at = "client" /\ job[p].op = "run" =>
             server'[job[p].srv].sig = server[job[p].srv].sig
             \/ server'[job[p].srv].at = "gone"]_vars

\* "If a policy server is running, activation stops it first so its reported bundle
\* cannot disagree with the model it actually loaded" (README.md:139-142): what
\* server_state reports as running has loaded what `current` leads to.
ReportedBundleIsLoaded ==
    Running /\ server[pidFile].at \in {"load", "open"} => server[pidFile].bundle = current

\* A benchmark has the accelerator to itself: server_state finds no server while it
\* runs (cli_main.cpp:440-446, docs/polima-studio.md:55-58).
BenchmarkIsAlone ==
    \A p \in Jobs : job[p].at = "client" /\ job[p].op = "benchmark" => ~Running

\* A server that stop_server has signalled ends, even if it never sees the SIGTERM
\* (service.cpp:64-73).
StoppedServerEnds ==
    \A s \in Servers :
        (\E p \in Jobs : job[p].at = "stopping" /\ job[p].saw = s) ~> ~Live(s)

\* "starting is not considered successful until the socket opens" (service.cpp:
\* 113-115): when start_server succeeds its process is serving.
StartedMeansOpen ==
    [][\A p \in Jobs : StartOk(p) => server[job[p].srv].at = "open"]_vars

\* "two servers on one port" (service.hpp:8-11) do not happen, and no server is left
\* that the pid file does not name: the one server not yet killed is the pid file's
\* or just forked.
OneServer ==
    \A s \in Servers :
        Live(s) /\ server[s].sig # "KILL" =>
            s = pidFile \/ \E p \in Jobs : job[p].at = "pidfile" /\ job[p].srv = s
=============================================================================
