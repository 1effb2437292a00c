--------------------------- MODULE StudioRuntime ---------------------------
(***************************************************************************)
(* PoLiMa Studio's process supervisor (src/src/polima/studio/runtime.py):  *)
(* the StudioRuntime object that waitress request threads, one _monitor    *)
(* thread per child, the _stop_server_after thread and the signal handler  *)
(* of main.py share.  A thread runs one action between two points where    *)
(* another thread can come in: a `with self._lock` section is one action,  *)
(* an unlocked read or assignment between two of them is another.          *)
(*                                                                         *)
(* The child processes (the native CLI in robot, preview, calibration or   *)
(* benchmark mode), control.lock, the policy server and a terminal user    *)
(* are outside src/src/polima/studio: they are modelled by what the native *)
(* CLI does with the lock and the server.                                  *)
(***************************************************************************)
EXTENDS Naturals

CONSTANTS
    Requests,   \* waitress threads, each serving one HTTP request at a time
    Children,   \* child processes Studio may spawn, each at most once
    Tokens,     \* arming tokens that may be issued, each at most once
    Configs,    \* distinct run configurations
    Rows,       \* rows of the runs and benchmarks tables
    Operations, \* what operators and the environment do in this instance
    None        \* Python's None

ASSUME OperationsAssumption ==
    Operations \subseteq {"arm", "robot", "preview", "calibration", "benchmark",
                          "stop", "control", "halt", "reset", "server",
                          "mismatch", "shutdown", "terminal"}

VARIABLES
    \* fields of StudioRuntime
    state, process, termination, stopPending, armTokens,
    \* StudioStore's run and benchmark rows
    runs,
    \* threads
    request, monitor, stopper, main,
    \* the world outside: child processes, policy server, a terminal user
    child, server, terminal

engineVars == <<state, process, termination, stopPending, armTokens>>
threadVars == <<request, monitor, stopper, main>>
worldVars  == <<child, server, terminal>>
vars == <<engineVars, runs, threadVars, worldVars>>

-----------------------------------------------------------------------------
(* Values *)

Kinds == {"robot", "preview", "calibration", "benchmark"}

\* StudioState; ActiveStates are the ones a child of that kind puts Studio in.
StateOf == [k \in Kinds |-> CASE k = "robot"       -> "RUNNING"
                              [] k = "preview"     -> "PREVIEWING"
                              [] k = "calibration" -> "CALIBRATING"
                              [] k = "benchmark"   -> "BENCHMARKING"]
ActiveStates == {"RUNNING", "PREVIEWING", "CALIBRATING", "BENCHMARKING"}
States == ActiveStates \cup {"IDLE", "ARMING", "STOPPING", "FAULT"}

Terminations == {"stopped", "halted", "reset", "calibration_required"}
Signals      == {"INT", "USR1"}

\* How a child ends: 0; 130 or 143; anything else (-9 and -2 included).
Codes == {"zero", "interrupted", "error"}

ASSUME NoneAssumption ==
    None \notin Children \cup Tokens \cup Configs \cup Rows
                 \cup Kinds \cup {"control"} \cup Terminations \cup Codes

RowStatus == {"free", "running", "completed", "failed"} \cup Terminations

\* A token is in the _arm_tokens dictionary while "fresh" or "expired".  Where a
\* popped one went is remembered: "spent" started a run, "void" was refused.
TokenStatus == {"unissued", "fresh", "expired", "spent", "void"}

\* Where a request thread is between two actions.
RequestPoints ==
    {"idle", "arm_check", "arm_issue", "bench_server", "record", "spawn",
     "control_enter", "stop_enter", "stop_signal", "stop_after",
     "halt_enter", "halt_signal",
     "reset_mark", "reset_signal", "reset_wait", "reset_kill", "reset_server",
     "reset_clear"}

IdleRequest == [at |-> "idle", kind |-> None, for |-> None, config |-> None,
                token |-> None, row |-> None]

\* A Python process, as Popen and the CLI see it.  "control": holds control.lock.
Phases == {"unborn", "started", "control", "exited"}
Serving == [at |-> "serve", for |-> None]
Unborn == [kind |-> None, phase |-> "unborn", code |-> None, sigs |-> {},
           config |-> None, token |-> None, row |-> None]

-----------------------------------------------------------------------------
(* Queries *)

\* process.poll() is None
Live(c) == child[c].phase \in {"started", "control"}

\* self._process and self._process.poll() is None
ProcessLive == process # None /\ Live(process)

\* _arm_tokens.clear()
ClearedTokens ==
    [t \in Tokens |-> IF armTokens[t].status \in {"fresh", "expired"}
                      THEN [armTokens[t] EXCEPT !.status = "void"]
                      ELSE armTokens[t]]

\* flock(control.lock) would fail
LockHeld == terminal \/ \E c \in Children : child[c].phase = "control"

\* self._process is process, the check a monitor makes before it touches the
\* engine.  The mutant does without.
OwnsAnyway(c) == TRUE
Owns(c) == process = c

\* stop and halt show STOPPING only for a live child.  The mutant always does.
StopStateUnchecked == "STOPPING"
StopState == IF ProcessLive THEN "STOPPING" ELSE "IDLE"

\* _require_idle: Conflict in any other state
Idle == state \in {"IDLE", "FAULT"}

\* What is left of a child process that ended: nothing is pending for it.
Exited(record, code) == [record EXCEPT !.phase = "exited", !.code = code, !.sigs = {}]

\* _signal_process: the group of whatever child is current now, if it is alive
Signal(sig) ==
    child' = IF ProcessLive
             THEN [child EXCEPT ![process].sigs = @ \cup {sig}]
             ELSE child

\* killpg(SIGKILL): the current child, if alive, is gone.
Kill ==
    child' = IF ProcessLive
             THEN [child EXCEPT ![process] = Exited(@, "error")]
             ELSE child

Goto(r, point) == request' = [request EXCEPT ![r].at = point]
Done(r)        == request' = [request EXCEPT ![r] = IdleRequest]
Begin(r, op)   == op \in Operations /\ main.at # "exit" /\ request[r].at = "idle"

Init ==
    /\ state = "IDLE"
    /\ process = None
    /\ termination = None
    /\ stopPending = FALSE
    /\ armTokens = [t \in Tokens |-> [status |-> "unissued", config |-> None]]
    /\ runs = [w \in Rows |-> "free"]
    /\ request = [r \in Requests |-> IdleRequest]
    /\ monitor = [c \in Children |-> "none"]
    /\ stopper = [at |-> "none", for |-> None]
    /\ main = Serving
    /\ child = [c \in Children |-> Unborn]
    /\ server \in BOOLEAN
    /\ terminal = FALSE

-----------------------------------------------------------------------------
(* arm: drop a previous arming, require idle, validate, issue a token *)

Arm(r, cfg) ==
    /\ Begin(r, "arm")
    /\ \E t \in Tokens : armTokens[t].status = "unissued"  \* bound
    /\ IF state = "ARMING"
       THEN /\ armTokens' = ClearedTokens
            /\ state' = "IDLE"
       ELSE UNCHANGED <<armTokens, state>>
    /\ request' = [request EXCEPT ![r] = [@ EXCEPT !.at = "arm_check", !.config = cfg]]
    /\ UNCHANGED <<process, termination, stopPending, runs, monitor,
                   stopper, main, worldVars>>

\* _require_idle, then _validate_paths, either of which may refuse.
ArmCheck(r) ==
    /\ request[r].at = "arm_check"
    /\ \/ Idle /\ Goto(r, "arm_issue")
       \/ Done(r)
    /\ UNCHANGED <<engineVars, runs, monitor, stopper, main, worldVars>>

ArmIssue(r, t) ==
    /\ request[r].at = "arm_issue"
    /\ armTokens[t].status = "unissued"
    /\ armTokens' = [armTokens EXCEPT ![t] =
                       [status |-> "fresh", config |-> request[r].config]]
    /\ state' = "ARMING"
    /\ Done(r)
    /\ UNCHANGED <<process, termination, stopPending, runs, monitor,
                   stopper, main, worldVars>>

\* 15 seconds pass.
TokenExpires(t) ==
    /\ armTokens[t].status = "fresh"
    /\ armTokens' = [armTokens EXCEPT ![t].status = "expired"]
    /\ UNCHANGED <<state, process, termination, stopPending, runs,
                   threadVars, worldVars>>

-----------------------------------------------------------------------------
(* start_robot: pop the token; a missing, expired or mismatched one sets     *)
(* IDLE whatever the state was, and is refused                               *)

\* The mutant ignores the configuration.
TokenFresh(t, cfg) == armTokens[t].status = "fresh"
TokenValid(t, cfg) == armTokens[t] = [status |-> "fresh", config |-> cfg]

StartRobot(r, t, cfg) ==
    /\ Begin(r, "robot")
    /\ IF TokenValid(t, cfg)
       THEN /\ armTokens' = [armTokens EXCEPT ![t].status = "spent"]
            /\ request' = [request EXCEPT ![r] =
                             [at |-> "record", kind |-> "robot", for |-> None,
                              config |-> cfg, token |-> t, row |-> None]]
            /\ UNCHANGED state
       ELSE /\ armTokens' = IF armTokens[t].status \in {"fresh", "expired"}
                            THEN [armTokens EXCEPT ![t].status = "void"]
                            ELSE armTokens
            /\ state' = "IDLE"
            /\ UNCHANGED request
    /\ UNCHANGED <<process, termination, stopPending, runs, monitor,
                   stopper, main, worldVars>>

\* start_preview, start_calibration and start_benchmark: _require_idle first.
StartOther(r, k) ==
    /\ Begin(r, k)
    /\ \E c \in Children : child[c].phase = "unborn"  \* bound
    /\ Idle
    /\ request' = [request EXCEPT ![r] =
                     [@ EXCEPT !.at = IF k = "benchmark" THEN "bench_server" ELSE "spawn",
                               !.kind = k]]
    /\ UNCHANGED <<engineVars, runs, monitor, stopper, main, worldVars>>

\* start_benchmark: a running policy server is refused.
BenchServer(r) ==
    /\ request[r].at = "bench_server"
    /\ IF server THEN Done(r) ELSE Goto(r, "record")
    /\ UNCHANGED <<engineVars, runs, monitor, stopper, main, worldVars>>

\* begin_run and begin_benchmark: the row exists before the child does.
\* The mutant drops the row's id on the way to _spawn.
RecordForgetsRow(r, w) ==
    /\ request[r].at = "record"
    /\ runs[w] = "free"
    /\ runs' = [runs EXCEPT ![w] = "running"]
    /\ Goto(r, "spawn")
    /\ UNCHANGED <<engineVars, monitor, stopper, main, worldVars>>

Record(r, w) ==
    /\ request[r].at = "record"
    /\ runs[w] = "free"
    /\ runs' = [runs EXCEPT ![w] = "running"]
    /\ request' = [request EXCEPT ![r] = [@ EXCEPT !.at = "spawn", !.row = w]]
    /\ UNCHANGED <<engineVars, monitor, stopper, main, worldVars>>

\* _spawn: refused while a child is alive; a dead one, reaped or not, is replaced.
Spawn(r, c) ==
    /\ request[r].at = "spawn"
    /\ IF ProcessLive
       THEN UNCHANGED <<engineVars, monitor, child>>
       ELSE /\ child[c].phase = "unborn"
            /\ child' = [child EXCEPT ![c] =
                           [Unborn EXCEPT !.kind = request[r].kind,
                                          !.phase = "started",
                                          !.config = request[r].config,
                                          !.token = request[r].token,
                                          !.row = request[r].row]]
            /\ process' = c
            /\ termination' = None
            /\ state' = StateOf[request[r].kind]
            /\ monitor' = [monitor EXCEPT ![c] = "reading"]
            /\ UNCHANGED <<stopPending, armTokens>>
    /\ Done(r)
    /\ UNCHANGED <<runs, stopper, main, server, terminal>>

-----------------------------------------------------------------------------
(* stop, stop_control, halt *)

\* A request for one of them has arrived and is about to take the lock.
CallStop(r, op) ==
    /\ Begin(r, op)
    /\ Goto(r, IF op = "halt" THEN "halt_enter" ELSE "control_enter")
    /\ UNCHANGED <<engineVars, runs, monitor, stopper, main, worldVars>>

\* stop_control's lock section.  While a server stop is pending it returns
\* at once; otherwise it marks one pending if a child is running.
ControlEnter(r) ==
    /\ request[r].at = "control_enter"
    /\ IF ProcessLive /\ stopPending
       THEN Done(r) /\ UNCHANGED stopPending
       ELSE /\ stopPending' = (stopPending \/ ProcessLive)
            /\ request' = [request EXCEPT ![r] =
                             [@ EXCEPT !.at = "stop_enter",
                                       !.kind = "control",
                                       !.for = IF ProcessLive THEN process ELSE None]]
    /\ UNCHANGED <<state, process, termination, armTokens, runs, monitor,
                   stopper, main, worldVars>>

\* What follows stop(): stop_control goes on, a plain stop request returns.
AfterStop(r) ==
    IF request[r].kind = "control" THEN Goto(r, "stop_after") ELSE Done(r)

StopEnter(r) ==
    /\ Begin(r, "stop") \/ request[r].at = "stop_enter"
    /\ state' = StopState
    /\ IF ProcessLive
       THEN /\ termination' = "stopped"
            /\ Goto(r, "stop_signal")
       ELSE /\ UNCHANGED termination
            /\ AfterStop(r)
    /\ UNCHANGED <<process, stopPending, armTokens, runs, monitor,
                   stopper, main, worldVars>>

StopSignal(r) ==
    /\ request[r].at = "stop_signal"
    /\ Signal("INT")
    /\ AfterStop(r)
    /\ UNCHANGED <<engineVars, runs, monitor, stopper, main, server, terminal>>

\* `polima_cli server stop` and `activate`: refused while control.lock is held.
CliStopServer == server' = (server /\ LockHeld)

\* The client's stop is under way: a thread waits for it.  With no client the
\* server is stopped here.
StopAfter(r) ==
    /\ request[r].at = "stop_after"
    /\ IF request[r].for # None
       THEN /\ stopper' = [at |-> "wait", for |-> request[r].for]
            /\ UNCHANGED server
       ELSE CliStopServer /\ UNCHANGED stopper
    /\ Done(r)
    /\ UNCHANGED <<engineVars, runs, monitor, main, child, terminal>>

\* process.wait().  The mutant does not wait.
ClientGoneUnchecked(c) == TRUE
ClientGone(c) == ~Live(c)

\* _stop_server_after: wait for that client, stop the server, clear the flag.
StopperStop ==
    /\ stopper.at = "wait"
    /\ ClientGone(stopper.for)
    /\ CliStopServer
    /\ stopper' = [stopper EXCEPT !.at = "clear"]
    /\ UNCHANGED <<engineVars, runs, request, monitor, main, child, terminal>>

\* `finally`.  The mutant clears the flag only after a stop that succeeded.
PendingAfterSuccess == server
PendingAfterStop == FALSE

StopperClear ==
    /\ stopper.at = "clear"
    /\ stopPending' = PendingAfterStop
    /\ stopper' = [at |-> "none", for |-> None]
    /\ UNCHANGED <<state, process, termination, armTokens, runs, request,
                   monitor, main, worldVars>>

\* The mutant shares stop_control's early return while a stop is pending.
HaltNextUnlessPending(r) == IF stopPending THEN Done(r) ELSE Goto(r, "halt_signal")
HaltNext(r) == Goto(r, "halt_signal")

HaltEnter(r) ==
    /\ request[r].at = "halt_enter"
    /\ state' = StopState
    /\ IF ProcessLive
       THEN termination' = "halted" /\ HaltNext(r)
       ELSE UNCHANGED termination /\ Done(r)
    /\ UNCHANGED <<process, stopPending, armTokens, runs, monitor,
                   stopper, main, worldVars>>

HaltSignal(r) ==
    /\ request[r].at = "halt_signal"
    /\ Signal("USR1")
    /\ Done(r)
    /\ UNCHANGED <<engineVars, runs, monitor, stopper, main, server, terminal>>

-----------------------------------------------------------------------------
(* reset: stop the child, stop the server, reset the MLA, clear the engine *)

Reset(r) ==
    /\ Begin(r, "reset")
    /\ request' = [request EXCEPT ![r] = [@ EXCEPT !.at = "reset_mark", !.for = process]]
    /\ UNCHANGED <<engineVars, runs, monitor, stopper, main, worldVars>>

\* The child read above is polled, and _termination set, without the lock.
ResetMark(r) ==
    /\ request[r].at = "reset_mark"
    /\ IF request[r].for # None /\ Live(request[r].for)
       THEN termination' = "reset" /\ Goto(r, "reset_signal")
       ELSE UNCHANGED termination /\ Goto(r, "reset_server")
    /\ UNCHANGED <<state, process, stopPending, armTokens, runs, monitor,
                   stopper, main, worldVars>>

ResetSignal(r) ==
    /\ request[r].at = "reset_signal"
    /\ Signal("INT")
    /\ Goto(r, "reset_wait")
    /\ UNCHANGED <<engineVars, runs, monitor, stopper, main, server, terminal>>

\* It exits within five seconds, or the wait times out.
ResetWait(r) ==
    /\ request[r].at = "reset_wait"
    /\ IF Live(request[r].for) THEN Goto(r, "reset_kill") ELSE Goto(r, "reset_server")
    /\ UNCHANGED <<engineVars, runs, monitor, stopper, main, worldVars>>

ResetKill(r) ==
    /\ request[r].at = "reset_kill"
    /\ Kill
    /\ Goto(r, "reset_server")
    /\ UNCHANGED <<engineVars, runs, monitor, stopper, main, server, terminal>>

\* A refused `server stop` raises out of reset: nothing below is reached.
ResetServer(r) ==
    /\ request[r].at = "reset_server"
    /\ CliStopServer
    /\ IF server /\ LockHeld THEN Done(r) ELSE Goto(r, "reset_clear")
    /\ UNCHANGED <<engineVars, runs, monitor, stopper, main, child, terminal>>

\* reset leaves _process alone, whose monitor will reap it.  The mutant drops it.
ProcessAfterResetDropped == None
ProcessAfterReset == process

ResetClear(r) ==
    /\ request[r].at = "reset_clear"
    /\ process' = ProcessAfterReset
    /\ state' = "IDLE"
    /\ termination' = None
    /\ armTokens' = ClearedTokens
    /\ Done(r)
    /\ UNCHANGED <<stopPending, runs, monitor, stopper, main, worldVars>>

\* server("start") and activate: the CLI starts, or stops, the server unless
\* control.lock is held.
ServerCommand(r) ==
    /\ Begin(r, "server")
    /\ ~LockHeld
    /\ server' \in BOOLEAN
    /\ UNCHANGED <<engineVars, runs, threadVars, child, terminal>>

-----------------------------------------------------------------------------
(* _monitor, one thread per child *)

\* LeRobot reported a calibration mismatch: fault, then SIGINT.
MonitorMismatch(c) ==
    /\ "mismatch" \in Operations
    /\ monitor[c] = "reading"
    /\ child[c].kind = "robot"
    /\ IF Owns(c)
       THEN /\ termination' = "calibration_required"
            /\ state' = "FAULT"
       ELSE UNCHANGED <<termination, state>>
    /\ monitor' = [monitor EXCEPT ![c] = "mismatch"]
    /\ UNCHANGED <<process, stopPending, armTokens, runs, request, stopper, main,
                   worldVars>>

MonitorSignal(c) ==
    /\ monitor[c] = "mismatch"
    /\ Signal("INT")
    /\ monitor' = [monitor EXCEPT ![c] = "drain"]
    /\ UNCHANGED <<engineVars, runs, request, stopper, main, server, terminal>>

\* The child has exited and its output is read to the end.  Only the monitor of
\* the current child puts the engine back to IDLE or FAULT.
MonitorReap(c) ==
    /\ monitor[c] \in {"reading", "drain"}
    /\ child[c].phase = "exited"
    /\ IF Owns(c)
       THEN LET idle == /\ termination # "calibration_required"
                        /\ \/ termination \in {"stopped", "halted"}
                           \/ child[c].code \in {"zero", "interrupted"}
            IN  /\ process' = None
                /\ state' = IF idle THEN "IDLE" ELSE "FAULT"
       ELSE UNCHANGED <<process, state>>
    /\ monitor' = [monitor EXCEPT ![c] = IF child[c].row = None THEN "done" ELSE "finish"]
    /\ UNCHANGED <<termination, stopPending, armTokens, runs, request, stopper,
                   main, worldVars>>

\* finish_run and finish_benchmark, after the lock is released: _termination is
\* read again here, and a benchmark may have printed no result.
\* The mutant judges by the state the engine is in instead.
StateStatus(c) == IF state = "IDLE" THEN "completed" ELSE "failed"
CodeStatus(c) == IF child[c].code = "zero" THEN "completed" ELSE "failed"

MonitorFinish(c) ==
    /\ monitor[c] = "finish"
    /\ \E status \in IF child[c].kind = "robot"
                     THEN {IF termination # None THEN termination ELSE CodeStatus(c)}
                     ELSE {CodeStatus(c), "failed"} :
         runs' = [runs EXCEPT ![child[c].row] = status]
    /\ monitor' = [monitor EXCEPT ![c] = "done"]
    /\ UNCHANGED <<engineVars, request, stopper, main, worldVars>>

-----------------------------------------------------------------------------
(* The service's signal handler: close(), SystemExit, and systemd            *)

CloseRead ==
    /\ "shutdown" \in Operations
    /\ main.at = "serve"
    /\ main' = IF ProcessLive THEN [at |-> "mark", for |-> process]
                              ELSE [at |-> "exit", for |-> None]
    /\ UNCHANGED <<engineVars, runs, request, monitor, stopper, worldVars>>

CloseMark ==
    /\ main.at = "mark"
    /\ termination' = "halted"
    /\ main' = [main EXCEPT !.at = "signal"]
    /\ UNCHANGED <<state, process, stopPending, armTokens, runs, request,
                   monitor, stopper, worldVars>>

\* The mutant forwards the signal the service got.
CloseSigTerm == "INT"
CloseSig == "USR1"

CloseSignal ==
    /\ main.at = "signal"
    /\ Signal(CloseSig)
    /\ main' = [main EXCEPT !.at = "wait"]
    /\ UNCHANGED <<engineVars, runs, request, monitor, stopper, server, terminal>>

\* The child exits within five seconds, or what is current then is killed.
CloseWait ==
    /\ main.at = "wait"
    /\ Kill
    /\ main' = [main EXCEPT !.at = "exit"]
    /\ UNCHANGED <<engineVars, runs, request, monitor, stopper, server, terminal>>

\* KillMode=mixed: systemd kills what is left of the service's control group,
\* its children and a server they started, and starts the service again.  The
\* rows are what the new process finds.
Restart ==
    /\ main.at = "exit"
    /\ main' = Serving
    /\ state' = "IDLE"
    /\ process' = None
    /\ termination' = None
    /\ stopPending' = FALSE
    /\ armTokens' = ClearedTokens
    /\ request' = [r \in Requests |-> IdleRequest]
    /\ monitor' = [c \in Children |-> IF monitor[c] = "none" THEN "none" ELSE "done"]
    /\ stopper' = [at |-> "none", for |-> None]
    /\ child' = [c \in Children |->
                   IF Live(c)
                   THEN Exited(child[c], "error")
                   ELSE child[c]]
    /\ server' \in {server, FALSE}
    /\ UNCHANGED <<runs, terminal>>

-----------------------------------------------------------------------------
(* The world: what the CLI children, the server and a terminal user do *)

\* robot, preview and benchmark take control.lock; a robot run restarts the
\* server first, a benchmark is refused while one runs.
ChildControl(c) ==
    /\ child[c].phase = "started"
    /\ child[c].kind # "calibration"
    /\ ~LockHeld
    /\ ~(child[c].kind = "benchmark" /\ server)
    /\ child' = [child EXCEPT ![c].phase = "control"]
    /\ server' = (server \/ child[c].kind = "robot")
    /\ UNCHANGED <<engineVars, runs, threadVars, terminal>>

\* A child may end by itself, on a signal, or because the lock was refused.
ChildExit(c) ==
    /\ Live(c)
    /\ \E code \in Codes :
         /\ code = "interrupted" => child[c].sigs # {}
         /\ child' = [child EXCEPT ![c] = Exited(@, code)]
    /\ UNCHANGED <<engineVars, runs, threadVars, server, terminal>>

\* Another `polima robot` session in a terminal.
Terminal ==
    /\ "terminal" \in Operations
    /\ terminal' = ~terminal
    /\ terminal' => ~LockHeld
    /\ server' = (server \/ terminal')
    /\ UNCHANGED <<engineVars, runs, threadVars, child>>

-----------------------------------------------------------------------------

RequestBegins(r) ==
    \/ \E cfg \in Configs : Arm(r, cfg)
    \/ \E t \in Tokens, cfg \in Configs : StartRobot(r, t, cfg)
    \/ \E k \in Kinds \ {"robot"} : StartOther(r, k)
    \/ \E op \in {"control", "halt"} : CallStop(r, op)
    \/ Begin(r, "stop") /\ StopEnter(r)
    \/ Reset(r)
    \/ ServerCommand(r)

RequestContinues(r) ==
    \/ ArmCheck(r)
    \/ \E t \in Tokens : ArmIssue(r, t)
    \/ BenchServer(r)
    \/ \E w \in Rows : Record(r, w)
    \/ \E c \in Children : Spawn(r, c)
    \/ ControlEnter(r)
    \/ request[r].at = "stop_enter" /\ StopEnter(r)
    \/ StopSignal(r) \/ StopAfter(r)
    \/ HaltEnter(r) \/ HaltSignal(r)
    \/ ResetMark(r) \/ ResetSignal(r) \/ ResetWait(r) \/ ResetKill(r)
    \/ ResetServer(r) \/ ResetClear(r)

Monitor(c) == MonitorSignal(c) \/ MonitorReap(c) \/ MonitorFinish(c)

Stopper == StopperStop \/ StopperClear

Service == CloseRead \/ CloseMark \/ CloseSignal \/ CloseWait \/ Restart

World ==
    \/ \E t \in Tokens : TokenExpires(t)
    \/ \E c \in Children : ChildControl(c) \/ ChildExit(c)
    \/ Terminal

Next ==
    \/ \E r \in Requests : RequestBegins(r) \/ RequestContinues(r)
    \/ \E c \in Children : MonitorMismatch(c) \/ Monitor(c)
    \/ Stopper
    \/ Service
    \/ World

Spec == Init /\ [][Next]_vars

\* The handlers, the monitors and the stopper run to their next lock once
\* begun; a signalled client exits (the native CLI forwards the signal and
\* waits); nobody is obliged to press a button or to end a healthy child.
Fairness ==
    /\ \A r \in Requests : WF_vars(RequestContinues(r))
    /\ \A c \in Children : WF_vars(Monitor(c))
    /\ WF_vars(Stopper)
    /\ WF_vars(main.at # "serve" /\ Service)
    /\ \A c \in Children : WF_vars(child[c].sigs # {} /\ ChildExit(c))

FairSpec == Spec /\ Fairness

-----------------------------------------------------------------------------
(* Properties *)

RequestRecord == [at: RequestPoints, kind: Kinds \cup {"control", None},
                  for: Children \cup {None}, config: Configs \cup {None},
                  token: Tokens \cup {None}, row: Rows \cup {None}]
ChildRecord == [kind: Kinds \cup {None}, phase: Phases, code: Codes \cup {None},
                sigs: SUBSET Signals, config: Configs \cup {None},
                token: Tokens \cup {None}, row: Rows \cup {None}]

\* Types, and the shape Popen and the store rely on: a run or benchmark child
\* has a row to close, and no child is unborn once it has a kind.
TypeOK ==
    /\ state \in States
    /\ process \in Children \cup {None}
    /\ termination \in Terminations \cup {None}
    /\ stopPending \in BOOLEAN
    /\ armTokens \in [Tokens -> [status: TokenStatus, config: Configs \cup {None}]]
    /\ runs \in [Rows -> RowStatus]
    /\ request \in [Requests -> RequestRecord]
    /\ monitor \in [Children -> {"none", "reading", "mismatch", "drain", "finish", "done"}]
    /\ stopper \in [at: {"none", "wait", "clear"}, for: Children \cup {None}]
    /\ main \in [at: {"serve", "mark", "signal", "wait", "exit"}, for: Children \cup {None}]
    /\ child \in [Children -> ChildRecord]
    /\ server \in BOOLEAN
    /\ terminal \in BOOLEAN
    /\ \A c \in Children : child[c].kind \in {"robot", "benchmark"} => child[c].row \in Rows

\* Every live child is the one stop, halt and close would signal: no child is
\* ever lost track of, and two never run at once (runtime.py:544-553, 609).
LiveChildIsCurrent == \A c \in Children : Live(c) => process = c

\* A busy state is backed by a child that its monitor has still to reap, of the
\* kind the state names: Studio never shows, and never refuses work because of,
\* a run that is over (runtime.py:308-313, 361-366, 553-557, 608-621).
BusyIsBacked ==
    state \in ActiveStates \cup {"STOPPING"} =>
        /\ process # None
        /\ state \in ActiveStates => state = StateOf[child[process].kind]

\* Robot motion always comes from an arming: each robot child spent a token of
\* its own, issued for exactly its configuration (runtime.py:179-215).
RobotWasArmed ==
    \A c \in Children : child[c].kind = "robot" =>
        /\ child[c].token # None
        /\ armTokens[child[c].token] = [status |-> "spent", config |-> child[c].config]
        /\ \A d \in Children \ {c} : child[d].token # child[c].token

\* A run recorded as completed belongs to a child that exited with 0, however
\* the terminations of neighbouring runs interleave (runtime.py:607-638).
CompletedRunExitedZero ==
    \A w \in Rows : runs[w] = "completed" =>
        \E c \in Children : child[c].row = w /\ child[c].code = "zero"

\* An emergency halt that arrives while a child is alive gets SIGUSR1 to that
\* child, unless it ends first (runtime.py:361-369, docs/polima-studio.md:35).
HaltReachesClient ==
    \A c \in Children :
        (Live(c) /\ \E r \in Requests : request[r].at = "halt_enter")
            ~> ("USR1" \in child[c].sigs \/ ~Live(c))

\* STOPPING is not a dead end (runtime.py:307-315, 361-369, 608-621).
StoppingEnds == state = "STOPPING" ~> state # "STOPPING"

\* stop_control's pending flag is always cleared, so a later stop is not turned
\* away for ever (runtime.py:323-329, 351-359).
StopControlCompletes == stopPending ~> ~stopPending

\* "Stop the active client first, then release the model server": once the
\* stopper waits for a client, the server does stop, unless another controller
\* has taken control.lock meanwhile (runtime.py:317-359).
StopControlReleasesServer ==
    \A c \in Children :
        (stopper = [at |-> "wait", for |-> c])
            ~> \/ ~server \/ terminal \/ main.at # "serve"
               \/ \E d \in Children \ {c} : Live(d)

\* "If the Studio service itself terminates, its signal handler triggers the
\* emergency halt path" (docs/polima-studio.md:41-42): the child close() found
\* alive has SIGUSR1 by the time close() waits, whatever the request threads
\* still running did in between.
CloseHaltsItsChild ==
    /\ main.at \in {"wait", "exit"}
    /\ main.for # None
    /\ Live(main.for)
    => "USR1" \in child[main.for].sigs
=============================================================================
