---------------------------- MODULE BoardService ----------------------------
(***************************************************************************)
(* The policy server of a board as a host manages it over ssh              *)
(* (deploy/service.py, deploy/mla.py): stop, start with one retry after a  *)
(* reset of the accelerator, and the server processes themselves.  The pid *)
(* file, the port and the log are the board's; its users share them.       *)
(***************************************************************************)
EXTENDS Naturals, FiniteSets

CONSTANTS Pids,      \* the processes of the board that may run polima_server
          Trees,     \* the bundle directories of the board
          Link,      \* the path of the link `current'
          None

ASSUME ServiceAssumption == None \notin Pids \cup Trees /\ Link \notin Trees \cup {None}

VARIABLES process,   \* every server process
          pidFile,   \* var/run/server.pid
          wedged,    \* the memory pool of the MLA is too fragmented for a load
          op         \* the service command under way

serviceVars == <<process, pidFile, wedged, op>>

\* "loading": it may take a while before it binds; "up": the port is its; "dying":
\* SIGKILLed, not gone yet.  `holds': the bundle whose ELFs it has loaded; `told': SIGTERM.
NoProcess == [at |-> "none", tree |-> None, holds |-> None, told |-> FALSE]

\* `then': what stop() goes on to; `tree': what to start; `retried': start() has reset
\* the MLA once.
NoOp == [at |-> "idle", then |-> "idle", byPort |-> FALSE, targets |-> {}, launched |-> None,
         tree |-> None, retried |-> FALSE]

Alive(p) == process[p].at # "none"

\* listening_pids: who holds the port; a killed process does until it is gone.
Holders == {p \in Pids : process[p].at \in {"up", "dying"}}

ServiceInit ==
    /\ process = [p \in Pids |-> NoProcess]
    /\ pidFile = None
    /\ wedged = FALSE
    /\ op = NoOp

Do(point) == op' = [op EXCEPT !.at = point]

\* stop() and start() as others call them.
CallStop(then, byPort) == op' = [NoOp EXCEPT !.at = "stop", !.then = then, !.byPort = byPort]
CallStart(tree) == op' = [NoOp EXCEPT !.at = "stop", !.then = "launch", !.byPort = TRUE, !.tree = tree]

-----------------------------------------------------------------------------
(* stop *)

\* The mutant takes the content of the pid file as it comes.
StopTargetsUnread == {pidFile} \cup (IF op.byPort THEN Holders ELSE {})

\* The recorded pid and, when the port is known, whoever holds it.
StopTargets == {p \in Pids : p = pidFile} \cup (IF op.byPort THEN Holders ELSE {})

StopRead ==
    /\ op.at = "stop"
    /\ op' = [op EXCEPT !.at = "stop_term", !.targets = StopTargets]
    /\ UNCHANGED <<process, pidFile, wedged>>

\* kill -0, then SIGTERM.  With nobody alive only the pid file goes.
StopTerm ==
    LET alive == {p \in op.targets : Alive(p)}
    IN  /\ op.at = "stop_term"
        /\ process' = [p \in Pids |-> IF p \in alive THEN [process[p] EXCEPT !.told = TRUE]
                                      ELSE process[p]]
        /\ op' = [op EXCEPT !.at = IF alive = {} THEN op.then ELSE "stop_poll", !.targets = alive]
        /\ pidFile' = IF alive = {} THEN None ELSE pidFile
        /\ UNCHANGED wedged

\* The mutant has no deadline.
StopEndsPatient ==
    /\ op.at = "stop_poll" /\ \A p \in op.targets : ~Alive(p)
    /\ pidFile' = None
    /\ op' = [op EXCEPT !.at = op.then, !.targets = {}]
    /\ UNCHANGED <<process, wedged>>

\* Polled until they are gone, or until the deadline: then SIGKILL, and no wait.
StopEnds ==
    LET still == {p \in op.targets : Alive(p)}
    IN  /\ op.at = "stop_poll"
        /\ process' = [p \in Pids |-> IF p \in still THEN [process[p] EXCEPT !.at = "dying"]
                                      ELSE process[p]]
        /\ pidFile' = None
        /\ op' = [op EXCEPT !.at = op.then, !.targets = {}]
        /\ UNCHANGED wedged

-----------------------------------------------------------------------------
(* start *)

\* Pids are not reused while somebody remembers them.
Fresh == {p \in Pids : ~Alive(p) /\ p # pidFile /\ p # op.launched /\ p \notin op.targets}

NewProcess(p, tree) ==
    process' = [process EXCEPT ![p] = [NoProcess EXCEPT !.at = "loading", !.tree = tree]]

Launch ==
    /\ op.at = "launch"
    /\ \E p \in Fresh : NewProcess(p, op.tree) /\ pidFile' = p
    /\ Do("record")
    /\ UNCHANGED wedged

LaunchRecorded ==
    /\ op.at = "record"
    /\ op' = [op EXCEPT !.at = "wait", !.launched = pidFile]
    /\ UNCHANGED <<process, pidFile, wedged>>

\* start() resets the MLA once, if the log's tail names a wedge, which may be an earlier
\* server's, the log being appended to; else it raises.
LaunchFails == Do("failed") \/ (~op.retried /\ Do("reset"))

\* wait_for_port: somebody accepts, or the health timeout passes.
WaitForPort ==
    /\ op.at = "wait"
    /\ IF Holders # {} THEN Do("alive") ELSE LaunchFails
    /\ UNCHANGED <<process, pidFile, wedged>>

\* kill -0 of what was launched: a port that answers proves nothing.
ConfirmAlive ==
    /\ op.at = "alive"
    /\ IF op.launched = None THEN Do("failed")
       ELSE IF Alive(op.launched) THEN Do("bound") ELSE LaunchFails
    /\ UNCHANGED <<process, pidFile, wedged>>

\* The mutant takes the word of the port that answered.
IsBoundUnchecked == TRUE

\* The port is held by nobody, as far as ss can tell, or by what was launched.
IsBound == Holders # {} => op.launched \in Holders

ConfirmBound ==
    /\ op.at = "bound"
    /\ Do(IF IsBound THEN "started" ELSE "failed")
    /\ UNCHANGED <<process, pidFile, wedged>>

\* mla.reset: the recovery script, the override or the services; each may fail, and
\* the last of them may leave the pool as it was.
ResetMla ==
    /\ op.at = "reset"
    /\ wedged' \in {wedged, FALSE}
    /\ \/ op' = [op EXCEPT !.at = IF op.tree = None THEN "done" ELSE "stop", !.launched = None,
                          !.retried = TRUE]
       \/ Do("failed")
    /\ UNCHANGED <<process, pidFile>>

Service == StopRead \/ StopTerm \/ StopEnds \/ Launch \/ LaunchRecorded \/ WaitForPort
           \/ ConfirmAlive \/ ConfirmBound \/ ResetMla

-----------------------------------------------------------------------------
(* The processes (native/src/server_main.cpp, as the host sees it) *)

Ends(p) == process' = [process EXCEPT ![p] = NoProcess]

\* Plan::Plan: it fails on a wedged MLA, and on a file that is missing or malformed.
Load(p, bundle, loadable) ==
    /\ process[p].at = "loading" /\ process[p].holds = None
    /\ IF loadable /\ ~wedged
       THEN process' = [process EXCEPT ![p].holds = bundle]
       ELSE Ends(p)
    /\ UNCHANGED <<pidFile, wedged, op>>

\* listen_on: the bind fails while another process has the port.
Bind(p) ==
    /\ process[p].at = "loading" /\ process[p].holds # None
    /\ IF Holders = {} THEN process' = [process EXCEPT ![p].at = "up"] ELSE Ends(p)
    /\ UNCHANGED <<pidFile, wedged, op>>

\* On SIGTERM, when it gets round to it.
Exit(p) ==
    /\ process[p].at \in {"loading", "up"} /\ process[p].told
    /\ Ends(p)
    /\ UNCHANGED <<pidFile, wedged, op>>

\* A killed process never frees its DMA buffers.
Die(p) ==
    /\ process[p].at = "dying"
    /\ Ends(p)
    /\ wedged' \in {wedged, TRUE}
    /\ UNCHANGED <<pidFile, op>>

\* Somebody on the board starts a server, with polima_cli or by hand (bound: it leaves a
\* pid to the command).
OtherStart(tree) ==
    /\ \E p, q \in Fresh : p # q /\ NewProcess(p, tree) /\ pidFile' \in {pidFile, p}
    /\ UNCHANGED <<wedged, op>>

-----------------------------------------------------------------------------

ServiceTypeOK ==
    /\ process \in [Pids -> [at: {"none", "loading", "up", "dying"}, tree: Trees \cup {Link, None},
                             holds: Trees \cup {None}, told: BOOLEAN]]
    /\ pidFile \in Pids \cup {None}
    /\ wedged \in BOOLEAN
    /\ op.targets \subseteq Pids /\ op.launched \in Pids \cup {None}
    /\ \A p \in Pids : process[p].at = "up" => process[p].holds # None
=============================================================================
