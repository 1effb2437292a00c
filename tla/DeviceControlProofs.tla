------------------------ MODULE DeviceControlProofs ------------------------
(***************************************************************************)
(* Theorems about DeviceControl without interactive sessions, for any      *)
(* number of terminals, servers and bundles.                               *)
(***************************************************************************)
EXTENDS DeviceControl, TLAPS

\* Every terminal runs the commands of cli_main.cpp, which take the lock.
NoSessions == Repls = {}

\* A command that is under way is one of the instance's.
Busy == \A p \in Jobs : job[p].at # "idle" => job[p].op \in Operations

\* Whoever is past acquire_control_lock holds the lock.
Discipline == \A p \in Jobs : job[p].at \notin {"idle", "lock"} => lock = p

ControlInv == TypeOK /\ Busy /\ Discipline

\* The records a command and a server can be.
JobRecord ==
    [op: Operations \cup {None}, at: Stages, saw: Servers \cup {None}, srv: Servers \cup {None}]
ServerRecord ==
    [at: {"gone", "fork", "load", "open", "zombie"}, sig: {None, "TERM", "KILL"},
     parent: Jobs \cup {None}, bundle: Bundles \cup {None}]

\* A SIGTERM keeps the types of the server processes, whichever process it is for.
LEMMA TermKept ==
  ASSUME NEW f \in [Servers -> ServerRecord], NEW x
  PROVE  [f EXCEPT ![x].sig = IF @ = None THEN "TERM" ELSE @] \in [Servers -> ServerRecord]
  <1>1. ASSUME NEW s \in Servers
        PROVE  [f[s] EXCEPT !.sig = IF @ = None THEN "TERM" ELSE @] \in ServerRecord
    BY DEF ServerRecord
  <1> QED
    BY <1>1

\* What is read of a typed state.
LEMMA Types ==
  ASSUME TypeOK
  PROVE  /\ job \in [Jobs -> JobRecord] /\ server \in [Servers -> ServerRecord]
         /\ lock \in Jobs \cup {None} /\ pidFile \in Servers \cup {None}
         /\ current \in Bundles \cup {None}
  BY DEF TypeOK, JobRecord, ServerRecord

\* A command that only goes on to another stage.
LEMMA Goes ==
  ASSUME TypeOK, NEW p \in Jobs, NEW at \in Stages \ {"stopping", "pidfile"}, Goto(p, at),
         at = "starting" => job[p].srv # None
  PROVE  /\ job' \in [Jobs -> JobRecord]
         /\ job'[p].at = at /\ job'[p].op = job[p].op
         /\ job'[p].saw = job[p].saw /\ job'[p].srv = job[p].srv
         /\ \A q \in Jobs \ {p} : job'[q] = job[q]
         /\ UNCHANGED <<lock, server>>
  BY Types DEF Goto, JobRecord

\* The end of a command.
LEMMA Ends ==
  ASSUME TypeOK, NEW p \in Jobs, End(p)
  PROVE  /\ job' \in [Jobs -> JobRecord] /\ server' \in [Servers -> ServerRecord]
         /\ job'[p] = Idle /\ Idle.at = "idle"
         /\ \A q \in Jobs \ {p} : job'[q] = job[q]
         /\ lock' = (IF lock = p THEN None ELSE lock)
         /\ \A s \in Servers : /\ server'[s].at \in {server[s].at, "gone"}
                               /\ server'[s].sig = server[s].sig \/ server'[s].at = "gone"
                               /\ server'[s].bundle = server[s].bundle \/ server'[s].at = "gone"
  <1>1. Idle \in JobRecord /\ Idle.at = "idle"
    BY DEF Idle, JobRecord, Stages
  <1>2. Gone \in ServerRecord /\ Gone.at = "gone"
    BY DEF Gone, ServerRecord
  <1>3. ASSUME NEW s \in Servers
        PROVE  /\ [server[s] EXCEPT !.parent = None] \in ServerRecord
               /\ [server[s] EXCEPT !.parent = None].at = server[s].at
               /\ [server[s] EXCEPT !.parent = None].sig = server[s].sig
               /\ [server[s] EXCEPT !.parent = None].bundle = server[s].bundle
               /\ server[s] \in ServerRecord
    BY Types DEF ServerRecord
  <1>4. /\ Orphaned(p) \in [Servers -> ServerRecord]
        /\ \A s \in Servers : /\ Orphaned(p)[s].at \in {server[s].at, "gone"}
                              /\ Orphaned(p)[s].sig = server[s].sig \/ Orphaned(p)[s].at = "gone"
                              /\ Orphaned(p)[s].bundle = server[s].bundle
                                   \/ Orphaned(p)[s].at = "gone"
    BY <1>2, <1>3 DEF Orphaned
  <1> QED
    BY <1>1, <1>3, <1>4, Types DEF End

\* A step of p's command keeps the invariant if the rest of the state keeps its types
\* and p goes on with the lock, or gets it, or is done.
LEMMA Keeps ==
  ASSUME ControlInv, NEW p \in Jobs,
         job' \in [Jobs -> JobRecord], server' \in [Servers -> ServerRecord],
         pidFile' \in Servers \cup {None}, current' \in Bundles \cup {None},
         \A q \in Jobs \ {p} : job'[q] = job[q],
         job'[p].at # "idle" => job'[p].op \in Operations,
         job'[p].at = "stopping" => job'[p].saw # None,
         job'[p].at \in {"pidfile", "starting"} => job'[p].srv # None,
         job'[p].at = "client" /\ job'[p].op = "run" => job'[p].srv # None,
         \/ lock' = lock /\ (job'[p].at \in {"idle", "lock"} \/ lock = p)
         \/ lock = None /\ lock' = p
         \/ lock' = (IF lock = p THEN None ELSE lock) /\ job'[p].at \in {"idle", "lock"}
  PROVE  ControlInv'
  <1>1. lock' \in Jobs \cup {None}
    BY Types DEF ControlInv
  <1>2. TypeOK'
    BY <1>1 DEF TypeOK, ControlInv, JobRecord, ServerRecord
  <1>3. Busy'
    BY DEF Busy, ControlInv
  <1>4. Discipline'
    BY NoneAssumption DEF Discipline, ControlInv
  <1> QED
    BY <1>2, <1>3, <1>4 DEF ControlInv

\* At first nothing is under way.
LEMMA ControlInit == Init => ControlInv
  <1>1. Idle \in JobRecord /\ Idle.at = "idle" /\ Idle.at # "lock"
    BY DEF Idle, JobRecord, Stages
  <1>2. Gone \in ServerRecord
    BY DEF Gone, ServerRecord
  <1> QED
    BY <1>1, <1>2 DEF Init, ControlInv, TypeOK, Busy, Discipline, JobRecord, ServerRecord

\* Typing a command, and getting the lock or not.
LEMMA BeginKeeps ==
  ASSUME ControlInv, NEW p \in Jobs, NEW op \in Operations, Begin(p, op)
  PROVE  ControlInv'
  <1> DEFINE r == [op |-> op, at |-> "lock",
                   saw |-> IF op = "start" THEN Seen ELSE None, srv |-> None]
  <1>1. r \in JobRecord /\ r.at = "lock" /\ r.op = op
    BY Types DEF JobRecord, Stages, Seen, Running, ControlInv
  <1>2. job' = [job EXCEPT ![p] = r] /\ UNCHANGED <<lock, pidFile, current, server>>
    BY DEF Begin
  <1> HIDE DEF r
  <1>3. job' \in [Jobs -> JobRecord] /\ job'[p] = r /\ \A q \in Jobs \ {p} : job'[q] = job[q]
    BY <1>1, <1>2, Types DEF ControlInv
  <1> QED
    BY <1>1, <1>2, <1>3, Types, Keeps DEF ControlInv

\* Taking control.lock keeps the invariant: nobody held it, or the command is refused.
LEMMA LockKeeps ==
  ASSUME ControlInv, NoSessions, NEW p \in Jobs, Lock(p)
  PROVE  ControlInv'
  <1>1. CASE lock = None
    <2>1. lock' = p /\ job' = [job EXCEPT ![p].at = "ready"] /\ UNCHANGED <<server, pidFile, current>>
      BY <1>1 DEF Lock, TakesLock, NoSessions
    <2>2. /\ job' \in [Jobs -> JobRecord] /\ job'[p].at = "ready" /\ job'[p].op = job[p].op
          /\ \A q \in Jobs \ {p} : job'[q] = job[q]
      BY <2>1, Types DEF ControlInv, JobRecord, Stages
    <2>3. job[p].op \in Operations
      BY DEF Lock, ControlInv, Busy
    <2> QED
      BY <1>1, <2>1, <2>2, <2>3, Types, Keeps DEF ControlInv
  <1>2. CASE lock # None
    <2>1. End(p) /\ UNCHANGED <<pidFile, current>>
      BY <1>2 DEF Lock, TakesLock, NoSessions
    <2> QED
      BY <2>1, Ends, Types, Keeps DEF ControlInv
  <1> QED
    BY <1>1, <1>2

\* A command past the lock that only goes on to another stage.
LEMMA GoesKeeps ==
  ASSUME ControlInv, NEW p \in Jobs, job[p].at \notin {"idle", "lock"},
         NEW at \in Stages \ {"stopping", "pidfile"}, Goto(p, at),
         at = "starting" => job[p].srv # None,
         at = "client" /\ job[p].op = "run" => job[p].srv # None,
         pidFile' \in Servers \cup {None}, current' \in Bundles \cup {None}
  PROVE  ControlInv'
  <1>1. job[p].op \in Operations /\ lock = p
    BY DEF ControlInv, Busy, Discipline
  <1> QED
    BY <1>1, Goes, Types, Keeps DEF ControlInv

\* The command returns, or never did anything.
LEMMA EndKeeps ==
  ASSUME ControlInv, NEW p \in Jobs, End(p), UNCHANGED <<pidFile, current>>
  PROVE  ControlInv'
  BY Ends, Types, Keeps DEF ControlInv

\* stop_server waits, ends its wait, or gives up.
LEMMA StopKeeps ==
  ASSUME ControlInv, NEW p \in Jobs, Stop(p)
  PROVE  ControlInv'
  <1> DEFINE at == AfterStop(p)
  <1>1. at \in Stages \ {"idle", "lock", "stopping", "pidfile", "starting", "client"}
    BY DEF AfterStop, Stages
  <1>2. job[p].at \notin {"idle", "lock"} /\ job[p].op \in Operations /\ lock = p
    BY DEF Stop, StopNothing, StopTerm, StopEnded, StopKill, ControlInv, Busy, Discipline
  <1>3. CASE StopNothing(p)
    BY <1>1, <1>2, <1>3, GoesKeeps, Types DEF StopNothing, ControlInv
  <1>4. CASE StopTerm(p)
    <2>1. pidFile \in Servers
      BY <1>4, Types DEF StopTerm, Running, ControlInv
    <2> DEFINE r == [job[p] EXCEPT !.at = "stopping", !.saw = pidFile]
    <2>2. r \in JobRecord /\ r.at = "stopping" /\ r.saw = pidFile /\ r.op = job[p].op
      BY <2>1, Types DEF JobRecord, Stages, ControlInv
    <2>3. job' = [job EXCEPT ![p] = r] /\ UNCHANGED <<lock, pidFile, current>>
      BY <1>4 DEF StopTerm
    <2>4. server' \in [Servers -> ServerRecord]
      <3>1. server \in [Servers -> ServerRecord]
        BY Types DEF ControlInv
      <3> QED
        BY <1>4, <3>1, TermKept DEF StopTerm
    <2> HIDE DEF r
    <2>5. job' \in [Jobs -> JobRecord] /\ job'[p] = r /\ \A q \in Jobs \ {p} : job'[q] = job[q]
      BY <2>2, <2>3, Types DEF ControlInv
    <2> QED
      BY <1>2, <2>1, <2>2, <2>3, <2>4, <2>5, NoneAssumption, Types, Keeps DEF ControlInv
  <1>5. CASE StopEnded(p) \/ StopKill(p)
    <2> DEFINE r == [job[p] EXCEPT !.at = AfterStop(p), !.saw = None]
    <2>1. r \in JobRecord /\ r.at = at /\ r.op = job[p].op
      BY <1>1, Types DEF JobRecord, Stages, ControlInv
    <2>2. job' = [job EXCEPT ![p] = r] /\ pidFile' = None /\ UNCHANGED <<lock, current>>
      BY <1>5 DEF StopEnded, StopKill
    <2>3. server' \in [Servers -> ServerRecord]
      BY <1>5, Types DEF StopEnded, StopKill, LastResort, ServerRecord, ControlInv
    <2> HIDE DEF r, at
    <2>4. job' \in [Jobs -> JobRecord] /\ job'[p] = r /\ \A q \in Jobs \ {p} : job'[q] = job[q]
      BY <2>1, <2>2, Types DEF ControlInv
    <2> QED
      BY <1>1, <1>2, <2>1, <2>2, <2>3, <2>4, Types, Keeps DEF ControlInv
  <1> QED
    BY <1>3, <1>4, <1>5 DEF Stop

\* start_server forks, writes the pid file and waits.
LEMMA StartKeeps ==
  ASSUME ControlInv, NEW p \in Jobs, Start(p)
  PROVE  ControlInv'
  <1>1. job[p].at \notin {"idle", "lock"} /\ job[p].op \in Operations /\ lock = p
    BY DEF Start, Fork, WritePid, StartOk, StartTimeout, ControlInv, Busy, Discipline
  <1>2. CASE Fork(p)
    <2>1. PICK s \in Fresh, b \in Bundles \cup {None} :
            /\ server' = [server EXCEPT ![s] = [at |-> "fork", sig |-> None, parent |-> p, bundle |-> b]]
            /\ job' = [job EXCEPT ![p] = [@ EXCEPT !.at = "pidfile", !.srv = s]]
      BY <1>2 DEF Fork
    <2> DEFINE r == [job[p] EXCEPT !.at = "pidfile", !.srv = s]
               f == [at |-> "fork", sig |-> None, parent |-> p, bundle |-> b]
    <2>2. s \in Servers
      BY DEF Fresh
    <2>3. r \in JobRecord /\ r.at = "pidfile" /\ r.srv = s /\ r.op = job[p].op /\ f \in ServerRecord
      BY <2>2, Types DEF JobRecord, ServerRecord, Stages, ControlInv
    <2>4. UNCHANGED <<lock, pidFile, current>>
      BY <1>2 DEF Fork
    <2> HIDE DEF r, f
    <2>5. /\ server' = [server EXCEPT ![s] = f] /\ job' = [job EXCEPT ![p] = r]
      BY <2>1 DEF r, f
    <2>6. /\ job' \in [Jobs -> JobRecord] /\ job'[p] = r /\ \A q \in Jobs \ {p} : job'[q] = job[q]
          /\ server' \in [Servers -> ServerRecord]
      BY <2>2, <2>3, <2>5, Types DEF ControlInv
    <2> QED
      BY <1>1, <2>2, <2>3, <2>4, <2>6, NoneAssumption, Types, Keeps DEF ControlInv
  <1>3. CASE WritePid(p)
    <2>1. job[p].srv \in Servers
      BY <1>3, Types DEF WritePid, ControlInv, TypeOK, JobRecord
    <2>2. "starting" \in Stages \ {"stopping", "pidfile"} /\ Goto(p, "starting")
          /\ pidFile' = job[p].srv /\ current' = current
      BY <1>3 DEF WritePid, Stages
    <2> QED
      BY <1>1, <2>1, <2>2, NoneAssumption, GoesKeeps, Types DEF ControlInv
  <1>4. CASE StartOk(p)
    <2> DEFINE at == IF job[p].op = "run" THEN "client" ELSE "end"
    <2>1. at \in Stages \ {"stopping", "pidfile", "starting"} /\ Goto(p, at)
          /\ UNCHANGED <<pidFile, current>>
      BY <1>4 DEF StartOk, Stages
    <2>2. job[p].srv # None
      BY <1>4 DEF StartOk, ControlInv, TypeOK
    <2> HIDE DEF at
    <2> QED
      BY <1>1, <2>1, <2>2, GoesKeeps, Types DEF ControlInv
  <1>5. CASE StartTimeout(p)
    <2>1. /\ job' \in [Jobs -> JobRecord] /\ job'[p].at = "end" /\ job'[p].op = job[p].op
          /\ \A q \in Jobs \ {p} : job'[q] = job[q]
      BY <1>5, Types DEF StartTimeout, JobRecord, Stages, ControlInv
    <2>2. server' \in [Servers -> ServerRecord] /\ UNCHANGED <<lock, pidFile, current>>
      <3>1. server \in [Servers -> ServerRecord]
        BY Types DEF ControlInv
      <3> QED
        BY <1>5, <3>1, TermKept DEF StartTimeout
    <2> QED
      BY <1>1, <2>1, <2>2, Types, Keeps DEF ControlInv
  <1> QED
    BY <1>2, <1>3, <1>4, <1>5 DEF Start

\* Every step of a command.
LEMMA AdvanceKeeps ==
  ASSUME ControlInv, NoSessions, NEW p \in Jobs, Advance(p)
  PROVE  ControlInv'
  <1>1. CASE Lock(p)
    BY <1>1, LockKeeps
  <1>2. CASE Decline(p) \/ Finish(p)
    BY <1>2, EndKeeps DEF Decline, Finish
  <1>3. CASE Proceed(p)
    <2>1. job[p].at \notin {"idle", "lock"} /\ Goto(p, NextStep(p)) /\ UNCHANGED pidFile
          /\ current' \in Bundles \cup {None}
      BY <1>3, Types DEF Proceed, ControlInv
    <2>2. /\ NextStep(p) \in Stages \ {"stopping", "pidfile", "starting"}
          /\ NextStep(p) = "client" => job[p].op # "run"
      BY DEF NextStep, Stages
    <2> QED
      BY <2>1, <2>2, GoesKeeps, Types DEF ControlInv
  <1>4. CASE Benchmark(p)
    BY <1>4, GoesKeeps, Types DEF Benchmark, ControlInv, Stages
  <1>5. CASE Stop(p)
    BY <1>5, StopKeeps
  <1>6. CASE Link(p)
    <2>1. PICK at \in {"start", "end"} : Goto(p, at)
      BY <1>6 DEF Link
    <2>2. at \in Stages \ {"stopping", "pidfile", "starting"} /\ job[p].at \notin {"idle", "lock"}
          /\ current' \in Bundles \cup {None} /\ UNCHANGED pidFile
      BY <1>6 DEF Link, Stages
    <2> QED
      BY <2>1, <2>2, GoesKeeps, Types DEF ControlInv
  <1>7. CASE Start(p)
    BY <1>7, StartKeeps
  <1> QED
    BY <1>1, <1>2, <1>3, <1>4, <1>5, <1>6, <1>7 DEF Advance

\* What a server's process does by itself.
LEMMA ProcessEffects ==
  ASSUME TypeOK, NEW s \in Servers, Process(s)
  PROVE  /\ server' \in [Servers -> ServerRecord]
         /\ UNCHANGED <<lock, pidFile, current, job>>
         /\ \A q \in Servers \ {s} : server'[q] = server[q]
         /\ Live(s)
         /\ server'[s].sig = server[s].sig \/ server'[s].at = "gone"
  <1>1. Gone \in ServerRecord /\ Gone.at = "gone"
    BY DEF Gone, ServerRecord
  <1>2. CASE Load(s)
    <2> DEFINE bundle == IF server[s].bundle = None THEN current ELSE server[s].bundle
               r == [server[s] EXCEPT !.at = "load", !.bundle = bundle]
    <2>1. server[s] \in ServerRecord /\ bundle \in Bundles \cup {None}
      BY Types DEF ServerRecord
    <2> HIDE DEF bundle
    <2>2. r \in ServerRecord /\ r.sig = server[s].sig
      BY <2>1 DEF ServerRecord
    <2> HIDE DEF r
    <2>3. server' = [server EXCEPT ![s] = r] /\ UNCHANGED <<lock, pidFile, current, job>>
      BY <1>2 DEF Load, r, bundle
    <2> QED
      BY <1>2, <2>2, <2>3, Types DEF Load, Live
  <1>3. CASE Open(s)
    BY <1>3, Types DEF Open, ServerRecord, Live
  <1>4. CASE Die(s)
    <2>1. [server[s] EXCEPT !.at = "zombie"] \in ServerRecord
          /\ [server[s] EXCEPT !.at = "zombie"].sig = server[s].sig
      BY Types DEF ServerRecord
    <2> QED
      BY <1>1, <1>4, <2>1, Types DEF Die
  <1> QED
    BY <1>2, <1>3, <1>4 DEF Process

\* A server's own steps keep the invariant: they touch no command and no lock.
LEMMA ProcessKeeps ==
  ASSUME ControlInv, NEW s \in Servers, Process(s)
  PROVE  ControlInv'
  BY ProcessEffects DEF ControlInv, TypeOK, Busy, Discipline, JobRecord, ServerRecord

\* The invariant is inductive.
LEMMA ControlStep ==
  ASSUME NoSessions, ControlInv, [Next]_vars
  PROVE  ControlInv'
  <1>1. CASE UNCHANGED vars
    BY <1>1 DEF vars, ControlInv, TypeOK, Busy, Discipline
  <1> QED
    BY <1>1, BeginKeeps, AdvanceKeeps, ProcessKeeps DEF Next

\* Types, for any number of terminals and servers.
THEOREM ControlTyped ==
  ASSUME NoSessions PROVE Spec => []TypeOK
  <1>1. Init => ControlInv
    BY ControlInit
  <1>2. ControlInv /\ [Next]_vars => ControlInv'
    BY ControlStep
  <1>3. ControlInv => TypeOK
    BY DEF ControlInv
  <1> QED
    BY <1>1, <1>2, <1>3, PTL DEF Spec

\* One robot client, preview or benchmark at a time, for any number of terminals.
THEOREM ControllerIsAlone ==
  ASSUME NoSessions PROVE Spec => []OneController
  <1>1. Init => ControlInv
    BY ControlInit
  <1>2. ControlInv /\ [Next]_vars => ControlInv'
    BY ControlStep
  <1>3. ControlInv => OneController
    BY DEF ControlInv, Discipline, OneController
  <1> QED
    BY <1>1, <1>2, <1>3, PTL DEF Spec

\* Past the lock only its holder moves; the others type commands and are turned away.
LEMMA OthersWait ==
  ASSUME NoSessions, ControlInv, NEW p \in Jobs, job[p].at \notin {"idle", "lock"},
         NEW q \in Jobs \ {p}, Advance(q)
  PROVE  End(q) /\ UNCHANGED <<pidFile, current>>
  <1>1. lock = p /\ lock # q /\ lock # None /\ job[q].at \in {"idle", "lock"}
    BY NoneAssumption DEF ControlInv, Discipline
  <1>2. Lock(q)
    BY <1>1 DEF Advance, Decline, Proceed, Benchmark, Stop, StopNothing, StopTerm, StopEnded,
                StopKill, Link, Start, Fork, WritePid, StartOk, StartTimeout, Finish
  <1> QED
    BY <1>1, <1>2 DEF Lock, TakesLock, NoSessions

\* The holder of the lock, in the foreground, can only finish.
LEMMA ForegroundEnds ==
  ASSUME NEW p \in Jobs, job[p].at = "client", Advance(p)
  PROVE  End(p) /\ UNCHANGED <<pidFile, current>>
  BY DEF Advance, Lock, Decline, Proceed, Benchmark, Stop, StopNothing, StopTerm, StopEnded,
         StopKill, Link, Start, Fork, WritePid, StartOk, StartTimeout, Finish

\* While something is in the foreground, no process is signalled and no pid written.
LEMMA ForegroundIsQuiet ==
  ASSUME NoSessions, ControlInv, NEW p \in Jobs, job[p].at = "client", [Next]_vars
  PROVE  /\ pidFile' = pidFile
         /\ \A s \in Servers :
              /\ server'[s].sig = server[s].sig \/ server'[s].at = "gone"
              /\ server[s].at = "gone" => server'[s].at = "gone"
  <1>1. CASE UNCHANGED vars
    BY <1>1 DEF vars
  <1>2. ASSUME NEW q \in Jobs, NEW op \in Operations, Begin(q, op)
        PROVE  UNCHANGED <<pidFile, server>>
    BY <1>2 DEF Begin
  <1>3. ASSUME NEW q \in Jobs, Advance(q)
        PROVE  End(q) /\ UNCHANGED pidFile
    <2>1. CASE q = p
      BY <1>3, <2>1, ForegroundEnds
    <2>2. CASE q # p
      BY <1>3, <2>2, OthersWait
    <2> QED
      BY <2>1, <2>2
  <1>4. ASSUME NEW q \in Jobs, End(q)
        PROVE  \A s \in Servers :
                 /\ server'[s].sig = server[s].sig \/ server'[s].at = "gone"
                 /\ server[s].at = "gone" => server'[s].at = "gone"
    BY <1>4, Ends DEF ControlInv
  <1>5. ASSUME NEW s \in Servers, Process(s)
        PROVE  /\ pidFile' = pidFile
               /\ \A t \in Servers :
                    /\ server'[t].sig = server[t].sig \/ server'[t].at = "gone"
                    /\ server[t].at = "gone" => server'[t].at = "gone"
    BY <1>5, ProcessEffects DEF ControlInv, Live
  <1> QED
    BY <1>1, <1>2, <1>3, <1>4, <1>5 DEF Next

\* No command signals the server a robot client is using.
THEOREM ServerStays ==
  ASSUME NoSessions PROVE Spec => ServerIsLeftAlone
  <1>1. Init => ControlInv
    BY ControlInit
  <1>2. ControlInv /\ [Next]_vars => ControlInv'
    BY ControlStep
  <1> DEFINE Alone == \A p \in Jobs :
                        job[p].at = "client" /\ job[p].op = "run" =>
                          server'[job[p].srv].sig = server[job[p].srv].sig
                            \/ server'[job[p].srv].at = "gone"
  <1>3. ControlInv /\ ControlInv' /\ [Next]_vars => [Alone]_vars
    <2> SUFFICES ASSUME ControlInv, ControlInv', [Next]_vars,
                        NEW p \in Jobs, job[p].at = "client", job[p].op = "run"
                 PROVE  server'[job[p].srv].sig = server[job[p].srv].sig
                          \/ server'[job[p].srv].at = "gone"
      OBVIOUS
    <2>1. job[p].srv \in Servers
      BY Types DEF ControlInv, TypeOK, JobRecord
    <2> QED
      BY <2>1, ForegroundIsQuiet
  <1> QED
    BY <1>1, <1>2, <1>3, PTL DEF Spec, ServerIsLeftAlone

\* A benchmark finds no server and none appears while it runs.
LEMMA BenchmarkStep ==
  ASSUME NoSessions, ControlInv, ControlInv', BenchmarkIsAlone, [Next]_vars
  PROVE  BenchmarkIsAlone'
  <1> SUFFICES ASSUME NEW p \in Jobs, job'[p].at = "client", job'[p].op = "benchmark"
               PROVE  ~Running'
    BY DEF BenchmarkIsAlone
  <1>1. CASE job[p].at = "client" /\ job[p].op = "benchmark"
    <2>1. ~Running
      BY <1>1 DEF BenchmarkIsAlone
    <2>2. pidFile' = pidFile /\ \A s \in Servers : server[s].at = "gone" => server'[s].at = "gone"
      BY <1>1, ForegroundIsQuiet
    <2> QED
      BY <2>1, <2>2, Types DEF Running, Alive, ControlInv
  <1>2. CASE ~(job[p].at = "client" /\ job[p].op = "benchmark")
    <2>1. ASSUME NEW q \in Jobs, NEW op \in Operations, Begin(q, op)
          PROVE  FALSE
      BY <1>2, <2>1, Types DEF Begin, ControlInv
    <2>2. ASSUME NEW s \in Servers, Process(s)
          PROVE  FALSE
      BY <1>2, <2>2, ProcessEffects DEF ControlInv
    <2>3. ASSUME NEW q \in Jobs, Advance(q)
          PROVE  Benchmark(p)
      <3>1. ASSUME End(q) PROVE FALSE
        BY <1>2, <3>1, Ends, Types DEF ControlInv, Idle
      <3>2. ASSUME NEW at, job' = [job EXCEPT ![q].at = at], at # "client" \/ job[q].op # "benchmark"
            PROVE  FALSE
        BY <1>2, <3>2, Types DEF ControlInv, JobRecord
      <3>3. ASSUME Stop(q) PROVE FALSE
        <4>1. AfterStop(q) # "client"
          BY DEF AfterStop
        <4> QED
          BY <1>2, <3>3, <4>1, Types
          DEF Stop, StopNothing, StopTerm, StopEnded, StopKill, Goto, ControlInv, JobRecord
      <3>4. ASSUME Start(q) PROVE FALSE
        BY <1>2, <3>4, Types
        DEF Start, Fork, WritePid, StartOk, StartTimeout, Goto, ControlInv, JobRecord
      <3>5. ASSUME Lock(q) PROVE FALSE
        BY <3>1, <3>2, <3>5 DEF Lock, Goto
      <3>6. ASSUME Proceed(q) PROVE FALSE
        BY <3>2, <3>6 DEF Proceed, Goto
      <3>7. ASSUME Link(q) PROVE FALSE
        <4>1. PICK at \in {"start", "end"} : Goto(q, at)
          BY <3>7 DEF Link
        <4> QED
          BY <3>2, <4>1 DEF Goto
      <3>8. Benchmark(q)
        BY <2>3, <3>1, <3>3, <3>4, <3>5, <3>6, <3>7 DEF Advance, Decline, Finish
      <3>9. q = p
        BY <1>2, <3>8, Types DEF Benchmark, Goto, ControlInv, JobRecord
      <3> QED
        BY <3>8, <3>9
    <2>4. CASE UNCHANGED vars
      BY <1>2, <2>4 DEF vars
    <2>5. CASE Benchmark(p)
      BY <2>5 DEF Benchmark, ServerAway, Goto, Running, Alive
    <2> QED
      BY <2>1, <2>2, <2>3, <2>4, <2>5 DEF Next
  <1> QED
    BY <1>1, <1>2

\* No policy server while a benchmark measures.
THEOREM BenchmarkAlone ==
  ASSUME NoSessions PROVE Spec => []BenchmarkIsAlone
  <1>1. Init => ControlInv /\ BenchmarkIsAlone
    <2>1. Init => BenchmarkIsAlone
      BY DEF Init, BenchmarkIsAlone, Idle
    <2> QED
      BY <2>1, ControlInit
  <1>2. ControlInv /\ BenchmarkIsAlone /\ [Next]_vars => (ControlInv /\ BenchmarkIsAlone)'
    BY ControlStep, BenchmarkStep
  <1> QED
    BY <1>1, <1>2, PTL DEF Spec

-----------------------------------------------------------------------------
(* Without `server start`, whose look at the server precedes the lock, there is *)
(* never a second server.                                                       *)

NoStaleStart == "start" \notin Operations

\* A server nobody has killed.
Wild(s) == Live(s) /\ server[s].sig # "KILL"

\* Where a command is about to start a server, and while the pid is not written, no
\* other server is left; the one being stopped is the pid file's.
Cleared ==
    /\ \A p \in Jobs, s \in Servers :
         /\ job[p].at \in {"link", "start"} => ~Wild(s)
         /\ job[p].at = "pidfile" /\ s # job[p].srv => ~Wild(s)
    /\ \A p \in Jobs : job[p].at = "stopping" => job[p].saw = pidFile

TrackInv == ControlInv /\ OneServer /\ Cleared

\* The steps that leave the pid file alone, start nothing and reach no stage that
\* promises anything.
LEMMA TrackKeeps ==
  ASSUME TrackInv, NEW p \in Jobs,
         job[p].at # "pidfile",
         job' \in [Jobs -> JobRecord], \A q \in Jobs \ {p} : job'[q] = job[q],
         job'[p].at \notin {"pidfile", "stopping"},
         job'[p].at \in {"link", "start"} => \A s \in Servers : ~Wild(s)',
         \A s \in Servers : Wild(s)' => Wild(s),
         pidFile' = pidFile
  PROVE  OneServer' /\ Cleared'
  <1>1. OneServer'
    BY DEF TrackInv, OneServer, Wild
  <1>2. Cleared'
    BY DEF TrackInv, Cleared
  <1> QED
    BY <1>1, <1>2

\* A signal changes one process's record and no other field of it.
LEMMA SignalEffects ==
  ASSUME TypeOK, NEW t \in Servers, NEW v, server' = [server EXCEPT ![t].sig = v]
  PROVE  /\ \A s \in Servers : server'[s].at = server[s].at
         /\ \A s \in Servers \ {t} : server'[s] = server[s]
         /\ server'[t].sig = v
  BY Types DEF ServerRecord

\* No step but the fork makes a server one that nobody has killed.
LEMMA NoNewServer ==
  ASSUME TypeOK, NEW p \in Jobs
  PROVE  /\ End(p) => \A s \in Servers : Wild(s)' => Wild(s)
         /\ UNCHANGED server => \A s \in Servers : Wild(s)' = Wild(s)
         /\ StopTerm(p) => \A s \in Servers : Wild(s)' => Wild(s)
         /\ StopKill(p) => \A s \in Servers : Wild(s)' => Wild(s) /\ s # job[p].saw
         /\ StartTimeout(p) => \A s \in Servers : Wild(s)' => Wild(s)
  <1>1. End(p) => \A s \in Servers : Wild(s)' => Wild(s)
    BY Ends DEF Wild, Live
  <1>2. UNCHANGED server => \A s \in Servers : Wild(s)' = Wild(s)
    BY DEF Wild, Live
  <1>3. StopTerm(p) => \A s \in Servers : Wild(s)' => Wild(s)
    <2> SUFFICES ASSUME StopTerm(p) PROVE \A s \in Servers : Wild(s)' => Wild(s)
      OBVIOUS
    <2> DEFINE v == IF server[pidFile].sig = None THEN "TERM" ELSE server[pidFile].sig
    <2>1. pidFile \in Servers /\ server' = [server EXCEPT ![pidFile].sig = v]
      BY Types DEF StopTerm, Running
    <2>2. v = "KILL" \/ server[pidFile].sig # "KILL"
      BY NoneAssumption DEF v
    <2> HIDE DEF v
    <2> QED
      BY <2>1, <2>2, SignalEffects DEF Wild, Live
  <1>4. StopKill(p) => \A s \in Servers : Wild(s)' => Wild(s) /\ s # job[p].saw
    <2> SUFFICES ASSUME StopKill(p)
                 PROVE  \A s \in Servers : Wild(s)' => Wild(s) /\ s # job[p].saw
      OBVIOUS
    <2>1. job[p].saw \in Servers /\ server' = [server EXCEPT ![job[p].saw].sig = "KILL"]
      BY Types DEF StopKill, LastResort, TypeOK, JobRecord
    <2>2. /\ \A s \in Servers : server'[s].at = server[s].at
          /\ \A s \in Servers \ {job[p].saw} : server'[s] = server[s]
          /\ server'[job[p].saw].sig = "KILL"
      BY <2>1, SignalEffects
    <2> QED
      BY <2>2 DEF Wild, Live
  <1>5. StartTimeout(p) => \A s \in Servers : Wild(s)' => Wild(s)
    <2> SUFFICES ASSUME StartTimeout(p) PROVE \A s \in Servers : Wild(s)' => Wild(s)
      OBVIOUS
    <2> DEFINE t == job[p].srv
               v == IF server[t].sig = None THEN "TERM" ELSE server[t].sig
    <2>1. t \in Servers /\ server' = [server EXCEPT ![t].sig = v]
      BY Types DEF StartTimeout, TypeOK, JobRecord
    <2>2. v = "KILL" \/ server[t].sig # "KILL"
      BY NoneAssumption DEF v
    <2> HIDE DEF v, t
    <2> QED
      BY <2>1, <2>2, SignalEffects DEF Wild, Live
  <1> QED
    BY <1>1, <1>2, <1>3, <1>4, <1>5

\* A server's own steps only end it.
LEMMA ProcessTracks ==
  ASSUME TrackInv, NEW s \in Servers, Process(s)
  PROVE  OneServer' /\ Cleared'
  <1>1. UNCHANGED <<lock, pidFile, current, job>>
    BY ProcessEffects DEF TrackInv, ControlInv
  <1>2. \A t \in Servers : Wild(t)' => Wild(t)
    <2>1. \A t \in Servers \ {s} : Wild(t)' => Wild(t)
      BY ProcessEffects DEF TrackInv, ControlInv, Wild, Live
    <2>2. Wild(s)' => Wild(s)
      BY ProcessEffects DEF TrackInv, ControlInv, Wild, Live
    <2> QED
      BY <2>1, <2>2
  <1> QED
    BY <1>1, <1>2 DEF TrackInv, OneServer, Cleared, Wild

\* With the lock, and the pid file's server down, none is left.
LEMMA NoneLeft ==
  ASSUME TrackInv, NEW p \in Jobs, job[p].at \notin {"idle", "lock", "pidfile"}, ~Running
  PROVE  \A s \in Servers : ~Wild(s)
  <1>1. \A q \in Jobs : job[q].at # "pidfile"
    BY DEF TrackInv, ControlInv, Discipline
  <1> QED
    BY <1>1, NoneAssumption DEF TrackInv, OneServer, Wild, Running, Live, Alive

\* Each step of a command keeps track of the server.
LEMMA AdvanceTracks ==
  ASSUME NoSessions, NoStaleStart, TrackInv, NEW p \in Jobs, Advance(p)
  PROVE  OneServer' /\ Cleared'
  <1> USE DEF ControlInv
  <1>0. TypeOK /\ ControlInv
    BY DEF TrackInv
  <1>1. CASE Lock(p) \/ Decline(p) \/ Finish(p)
    <2>1. CASE End(p) /\ UNCHANGED pidFile
      BY <1>0, <1>1, <2>1, Ends, NoNewServer, TrackKeeps
      DEF Lock, Decline, Finish, Idle
    <2>2. CASE ~(End(p) /\ UNCHANGED pidFile)
      <3>1. job' = [job EXCEPT ![p].at = "ready"] /\ UNCHANGED <<server, pidFile>>
            /\ job[p].at = "lock"
        BY <1>1, <2>2 DEF Lock, Decline, Finish, TakesLock, NoSessions
      <3>2. /\ job' \in [Jobs -> JobRecord] /\ job'[p].at = "ready"
            /\ \A q \in Jobs \ {p} : job'[q] = job[q]
        BY <1>0, <3>1, Types DEF JobRecord, Stages
      <3> QED
        BY <1>0, <3>1, <3>2, NoNewServer, TrackKeeps
    <2> QED
      BY <2>1, <2>2
  <1>2. ASSUME NEW at \in Stages \ {"stopping", "pidfile", "starting"}, Goto(p, at),
               job[p].at \notin {"idle", "lock", "pidfile"},
               at \in {"link", "start"} => \A s \in Servers : ~Wild(s),
               pidFile' = pidFile \/ (pidFile' = None /\ ~Running)
        PROVE  OneServer' /\ Cleared'
    <2>1. /\ job' \in [Jobs -> JobRecord] /\ job'[p].at = at /\ server' = server
          /\ \A q \in Jobs \ {p} : job'[q] = job[q]
      BY <1>0, <1>2, Goes
    <2>2. \A s \in Servers : Wild(s)' = Wild(s)
      BY <2>1 DEF Wild, Live
    <2>3. CASE pidFile' = pidFile
      BY <1>2, <2>1, <2>2, <2>3, TrackKeeps
    <2>4. CASE pidFile' = None /\ ~Running
      <3>1. \A s \in Servers : ~Wild(s)'
        BY <1>2, <2>2, <2>4, NoneLeft
      <3>2. \A q \in Jobs \ {p} : job[q].at \in {"idle", "lock"}
        BY <1>2, NoneAssumption DEF TrackInv, Discipline
      <3> QED
        BY <1>2, <2>1, <3>1, <3>2 DEF OneServer, Cleared, Wild
    <2> QED
      BY <1>2, <2>3, <2>4
  <1>3. CASE Proceed(p)
    <2>1. NextStep(p) \in {"link", "start"} => ~Running
      <3>1. job[p].op \in Operations /\ job[p].op # "start"
        BY <1>3 DEF Proceed, TrackInv, Busy, NoStaleStart
      <3>2. job[p].op \in {"activate", "stop", "preview", "run"}
        BY <1>3, <3>1, OperationsAssumption DEF Proceed
      <3> QED
        BY <3>2 DEF NextStep
    <2>2. NextStep(p) \in Stages \ {"stopping", "pidfile", "starting"}
      BY DEF NextStep, Stages
    <2> QED
      BY <1>2, <1>3, <2>1, <2>2, NoneLeft DEF Proceed
  <1>4. CASE Benchmark(p)
    BY <1>2, <1>4 DEF Benchmark, Stages
  <1>5. CASE StopNothing(p)
    <2>1. AfterStop(p) \in Stages \ {"stopping", "pidfile", "starting"}
      BY DEF AfterStop, Stages
    <2>2. \A s \in Servers : ~Wild(s)
      BY <1>5, NoneLeft DEF StopNothing
    <2> QED
      BY <1>2, <1>5, <2>1, <2>2 DEF StopNothing
  <1>6. CASE StopTerm(p)
    <2>1. job' = [job EXCEPT ![p] = [@ EXCEPT !.at = "stopping", !.saw = pidFile]]
          /\ pidFile' = pidFile /\ job[p].at = "stop" /\ pidFile \in Servers
      BY <1>0, <1>6, Types DEF StopTerm, Running
    <2> DEFINE r == [job[p] EXCEPT !.at = "stopping", !.saw = pidFile]
    <2>2. r.at = "stopping" /\ r.saw = pidFile
      BY <1>0, <2>1, Types DEF JobRecord
    <2>3. job'[p] = r /\ \A q \in Jobs \ {p} : job'[q] = job[q]
      BY <1>0, <2>1, Types
    <2>4. \A s \in Servers : Wild(s)' => Wild(s)
      BY <1>0, <1>6, NoNewServer
    <2> HIDE DEF r
    <2> QED
      BY <2>1, <2>2, <2>3, <2>4 DEF TrackInv, OneServer, Cleared, Wild
  <1>7. CASE StopEnded(p) \/ StopKill(p)
    <2> DEFINE r == [job[p] EXCEPT !.at = AfterStop(p), !.saw = None]
    <2>1. job' = [job EXCEPT ![p] = r] /\ pidFile' = None /\ job[p].at = "stopping"
      BY <1>7 DEF StopEnded, StopKill
    <2>2. r.at = AfterStop(p) /\ AfterStop(p) \notin {"pidfile", "stopping"}
      BY <1>0, Types DEF JobRecord, AfterStop
    <2>3. job'[p] = r /\ \A q \in Jobs \ {p} : job'[q] = job[q]
      BY <1>0, <2>1, Types
    <2>4. job[p].saw = pidFile /\ \A q \in Jobs \ {p} : job[q].at \in {"idle", "lock"}
      BY <2>1, NoneAssumption DEF TrackInv, Cleared, Discipline
    <2>5. \A s \in Servers : Wild(s) => s = pidFile
      BY <2>1, <2>4 DEF TrackInv, OneServer, Wild
    <2>6. \A s \in Servers : ~Wild(s)'
      <3>1. CASE StopEnded(p)
        BY <2>4, <2>5, <3>1 DEF StopEnded, Wild, Live, Alive
      <3>2. CASE StopKill(p)
        BY <1>0, <2>4, <2>5, <3>2, NoNewServer
      <3> QED
        BY <1>7, <3>1, <3>2
    <2> HIDE DEF r
    <2> QED
      BY <2>2, <2>3, <2>4, <2>6 DEF OneServer, Cleared, Wild
  <1>8. CASE Link(p)
    <2>1. PICK at \in {"start", "end"} : Goto(p, at)
      BY <1>8 DEF Link
    <2>2. \A s \in Servers : ~Wild(s)
      BY <1>8 DEF Link, TrackInv, Cleared
    <2> QED
      BY <1>2, <1>8, <2>1, <2>2 DEF Link, Stages
  <1>9. CASE Fork(p)
    <2>1. PICK s \in Fresh, b \in Bundles \cup {None} :
            /\ server' = [server EXCEPT ![s] = [at |-> "fork", sig |-> None, parent |-> p, bundle |-> b]]
            /\ job' = [job EXCEPT ![p] = [@ EXCEPT !.at = "pidfile", !.srv = s]]
      BY <1>9 DEF Fork
    <2> DEFINE r == [job[p] EXCEPT !.at = "pidfile", !.srv = s]
    <2>2. s \in Servers /\ r.at = "pidfile" /\ r.srv = s
      BY <1>0, Types DEF Fresh, JobRecord
    <2>3. job'[p] = r /\ \A q \in Jobs \ {p} : job'[q] = job[q]
      BY <1>0, <2>1, Types
    <2>4. \A t \in Servers \ {s} : server'[t] = server[t]
      BY <1>0, <2>1, Types
    <2>5. \A t \in Servers \ {s} : ~Wild(t)'
      BY <1>9, <2>4 DEF Fork, TrackInv, Cleared, Wild, Live
    <2>6. \A q \in Jobs \ {p} : job[q].at \in {"idle", "lock"}
      BY <1>9, NoneAssumption DEF Fork, TrackInv, Discipline
    <2> HIDE DEF r
    <2> QED
      BY <2>2, <2>3, <2>5, <2>6 DEF OneServer, Cleared, Wild
  <1>10. CASE WritePid(p)
    <2>1. /\ job'[p].at = "starting" /\ server' = server
          /\ \A q \in Jobs \ {p} : job'[q] = job[q]
      BY <1>0, <1>10, Types DEF WritePid, Goto, JobRecord
    <2>2. \A q \in Jobs \ {p} : job[q].at \in {"idle", "lock"}
      BY <1>10, NoneAssumption DEF WritePid, TrackInv, Discipline
    <2>3. \A t \in Servers : Wild(t)' => t = pidFile'
      BY <1>10, <2>1 DEF WritePid, TrackInv, Cleared, Wild, Live
    <2> QED
      BY <2>1, <2>2, <2>3 DEF OneServer, Cleared, Wild
  <1>11. CASE StartOk(p)
    <2> DEFINE at == IF job[p].op = "run" THEN "client" ELSE "end"
    <2>1. at \in Stages \ {"stopping", "pidfile", "starting", "link", "start"} /\ Goto(p, at)
      BY <1>11 DEF StartOk, Stages
    <2> HIDE DEF at
    <2> QED
      BY <1>2, <1>11, <2>1 DEF StartOk
  <1>12. CASE StartTimeout(p)
    <2>1. /\ job' \in [Jobs -> JobRecord] /\ job'[p].at = "end" /\ pidFile' = pidFile
          /\ job[p].at = "starting" /\ \A q \in Jobs \ {p} : job'[q] = job[q]
      BY <1>0, <1>12, Types DEF StartTimeout, JobRecord, Stages
    <2> QED
      BY <1>0, <1>12, <2>1, NoNewServer, TrackKeeps
  <1> QED
    BY <1>1, <1>3, <1>4, <1>5, <1>6, <1>7, <1>8, <1>9, <1>10, <1>11, <1>12
    DEF Advance, Stop, Start

\* A command that begins looks at nothing yet: the server is as tracked as before.
LEMMA BeginTracks ==
  ASSUME TrackInv, NEW p \in Jobs, NEW op \in Operations, Begin(p, op)
  PROVE  OneServer' /\ Cleared'
  <1>1. /\ job[p].at = "idle" /\ job'[p].at = "lock" /\ UNCHANGED <<pidFile, server>>
        /\ \A q \in Jobs \ {p} : job'[q] = job[q]
    BY Types DEF Begin, TrackInv, ControlInv
  <1> QED
    BY <1>1 DEF TrackInv, OneServer, Cleared, Wild, Live

\* Without `server start` there is one server, and the pid file names it.
THEOREM ServerIsTracked ==
  ASSUME NoSessions, NoStaleStart PROVE Spec => []OneServer
  <1>1. Init => TrackInv
    <2>1. Init => OneServer /\ Cleared
      BY DEF Init, OneServer, Cleared, Wild, Live, Idle, Gone
    <2> QED
      BY <2>1, ControlInit DEF TrackInv
  <1>2. TrackInv /\ [Next]_vars => TrackInv'
    <2> SUFFICES ASSUME TrackInv, [Next]_vars PROVE TrackInv'
      OBVIOUS
    <2>1. ControlInv'
      BY ControlStep DEF TrackInv
    <2>2. CASE UNCHANGED vars
      BY <2>1, <2>2 DEF vars, TrackInv, OneServer, Cleared, Wild, Live
    <2>3. CASE Next
      BY <2>1, <2>3, BeginTracks, AdvanceTracks, ProcessTracks DEF Next, TrackInv
    <2> QED
      BY <2>2, <2>3
  <1>3. TrackInv => OneServer
    BY DEF TrackInv
  <1> QED
    BY <1>1, <1>2, <1>3, PTL DEF Spec

-----------------------------------------------------------------------------
(* What `polima status' reports is what the server has loaded, stale starts *)
(* included.                                                                *)

\* Where a command will not start a server without a selected bundle.
Chosen(p) ==
    \/ job[p].at = "start"
    \/ job[p].op = "run" /\ job[p].at # "idle"
    \/ job[p].op = "start" /\ job[p].at \notin {"idle", "lock", "ready"}

Loaded(s) == server[s].at \in {"load", "open"} => server[s].bundle = current

\* A bundle is selected before there is a server, a fork does not know it yet, and the
\* link moves only while nothing runs.
ReportInv ==
    /\ ControlInv
    /\ \A p \in Jobs : Chosen(p) => current # None
    /\ \A s \in Servers : Alive(s) => current # None
    /\ \A s \in Servers : server[s].at = "fork" => server[s].bundle = None
    /\ \A p \in Jobs : job[p].at = "link" => ~Running
    /\ \A p \in Jobs : job[p].at = "pidfile" => Loaded(job[p].srv)
    /\ Running => Loaded(pidFile)

\* The steps of p's command but the fork and the write of the pid file.
LEMMA ReportKeeps ==
  ASSUME ReportInv, ControlInv', NEW p \in Jobs, \A q \in Jobs \ {p} : job'[q] = job[q],
         \A s \in Servers : /\ server'[s].at \in {server[s].at, "gone"}
                            /\ server'[s].bundle = server[s].bundle \/ server'[s].at = "gone",
         pidFile' \in {pidFile, None},
         \/ current' = current
         \/ current' \in Bundles /\ lock = p /\ (~Running \/ current = None),
         Chosen(p)' => current' # None,
         job'[p].at # "pidfile", job'[p].at = "link" => ~Running'
  PROVE  ReportInv'
  <1>1. pidFile \in Servers \cup {None} /\ None \notin Servers /\ None \notin Bundles
    BY Types, NoneAssumption DEF ReportInv, ControlInv
  <1>2. ~Running => ~Running'
    BY <1>1 DEF Running, Alive
  <1>3. current # None => current' # None
    BY <1>1
  <1>4. \A q \in Jobs : Chosen(q)' => current' # None
    <2>1. \A q \in Jobs \ {p} : Chosen(q)' => Chosen(q)
      BY DEF Chosen
    <2> QED BY <1>3, <2>1 DEF ReportInv
  <1>5. \A s \in Servers : Alive(s)' => current' # None
    BY <1>3 DEF ReportInv, Alive
  <1>6. \A s \in Servers : server'[s].at = "fork" => server'[s].bundle = None
    BY DEF ReportInv
  <1>7. \A q \in Jobs : job'[q].at = "link" => ~Running'
    BY <1>2 DEF ReportInv
  <1>8. ASSUME NEW q \in Jobs, job'[q].at = "pidfile" PROVE Loaded(job[q].srv)' /\ job'[q] = job[q]
    <2>1. q # p /\ job'[q] = job[q] /\ lock = q /\ job[q].srv \in Servers
      <3>1. q # p /\ job'[q] = job[q] /\ job[q].at = "pidfile"
        BY <1>8
      <3>2. job[q].srv \in Servers
        BY <3>1, Types DEF ReportInv, ControlInv, TypeOK, JobRecord
      <3> QED BY <3>1, <3>2 DEF ReportInv, ControlInv, Discipline
    <2>2. current' = current
      BY <2>1
    <2> QED BY <1>8, <2>1, <2>2 DEF ReportInv, Loaded
  <1>9. Running' => Loaded(pidFile)'
    <2> SUFFICES ASSUME Running' PROVE Loaded(pidFile)'
      OBVIOUS
    <2>1. Running /\ pidFile' = pidFile /\ pidFile \in Servers
      BY <1>1, <1>2 DEF Running
    <2>2. current # None
      BY <2>1 DEF ReportInv, Running
    <2> QED BY <2>1, <2>2 DEF ReportInv, Loaded
  <1> QED BY <1>4, <1>5, <1>6, <1>7, <1>8, <1>9 DEF ReportInv, Loaded

LEMMA ReportBegins ==
  ASSUME NoSessions, ReportInv, ControlInv', NEW p \in Jobs, NEW op \in Operations, Begin(p, op)
  PROVE  ReportInv'
  <1> DEFINE r == [op |-> op, at |-> "lock",
                   saw |-> IF op = "start" THEN Seen ELSE None, srv |-> None]
  <1>1. r.at = "lock" /\ r.op = op /\ job' = [job EXCEPT ![p] = r]
    BY DEF Begin
  <1> HIDE DEF r
  <1>2. job'[p] = r /\ \A q \in Jobs \ {p} : job'[q] = job[q]
    BY <1>1, Types DEF ReportInv, ControlInv
  <1>3. Chosen(p)' => current' # None
    BY <1>1, <1>2 DEF Chosen, Begin, NoSessions
  <1> QED BY <1>1, <1>2, <1>3, ReportKeeps DEF Begin

\* A command that only goes on to another stage.
LEMMA ReportGoes ==
  ASSUME ReportInv, ControlInv', NEW p \in Jobs, job[p].at \notin {"idle", "lock"},
         NEW at \in Stages \ {"stopping", "pidfile", "starting"}, Goto(p, at),
         pidFile' \in {pidFile, None},
         current' = current \/ (current' \in Bundles /\ (~Running \/ current = None)),
         at = "start" \/ job[p].op = "start" => current' # None,
         at = "link" => ~Running
  PROVE  ReportInv'
  <1>1. /\ job'[p].at = at /\ job'[p].op = job[p].op /\ \A q \in Jobs \ {p} : job'[q] = job[q]
        /\ server' = server
    BY Goes DEF ReportInv, ControlInv
  <1>2. lock = p
    BY DEF ReportInv, ControlInv, Discipline
  <1>3. job[p].op = "run" => current' # None
    BY NoneAssumption DEF ReportInv, Chosen
  <1>4. Chosen(p)' => current' # None
    BY <1>1, <1>3 DEF Chosen
  <1>5. ~Running => ~Running'
    BY <1>1 DEF Running, Alive
  <1> QED BY <1>1, <1>2, <1>4, <1>5, ReportKeeps

LEMMA ReportEnds ==
  ASSUME ReportInv, ControlInv', NEW p \in Jobs, End(p), UNCHANGED <<pidFile, current>>
  PROVE  ReportInv'
  <1>1. /\ job'[p].at = "idle" /\ \A q \in Jobs \ {p} : job'[q] = job[q]
        /\ \A s \in Servers : /\ server'[s].at \in {server[s].at, "gone"}
                              /\ server'[s].bundle = server[s].bundle \/ server'[s].at = "gone"
    BY Ends DEF ReportInv, ControlInv
  <1> QED BY <1>1, ReportKeeps DEF Chosen

\* A signal leaves the process where it is.
LEMMA Signalled ==
  ASSUME TypeOK, NEW t \in Servers, NEW v, server' = [server EXCEPT ![t].sig = v]
  PROVE  \A s \in Servers : server'[s].at = server[s].at /\ server'[s].bundle = server[s].bundle
  BY Types DEF ServerRecord

LEMMA ReportStops ==
  ASSUME ReportInv, ControlInv', NEW p \in Jobs, Stop(p)
  PROVE  ReportInv'
  <1> USE DEF ControlInv
  <1>0. job[p].at \in {"stop", "stopping"} /\ TypeOK /\ UNCHANGED current
    BY DEF Stop, StopNothing, StopTerm, StopEnded, StopKill, ReportInv
  <1>1. AfterStop(p) \in {"link", "start", "end"}
    BY DEF AfterStop
  <1>2. AfterStop(p) = "start" \/ job[p].op = "start" => current # None
    <2>1. AfterStop(p) = "start" => job[p].op \in {"run", "start"}
      BY DEF AfterStop
    <2> QED BY <1>0, <2>1 DEF ReportInv, Chosen
  <1>3. CASE StopNothing(p)
    BY <1>1, <1>2, <1>3, ReportGoes DEF StopNothing, Stages
  <1>4. CASE StopTerm(p)
    <2> DEFINE r == [job[p] EXCEPT !.at = "stopping", !.saw = pidFile]
               v == IF server[pidFile].sig = None THEN "TERM" ELSE server[pidFile].sig
    <2>1. /\ job' = [job EXCEPT ![p] = r] /\ UNCHANGED pidFile
          /\ pidFile \in Servers /\ server' = [server EXCEPT ![pidFile].sig = v]
      BY <1>0, <1>4, Types DEF StopTerm, Running
    <2>2. r.at = "stopping" /\ r.op = job[p].op
      BY <1>0, Types DEF JobRecord
    <2> HIDE DEF r, v
    <2>3. job'[p] = r /\ \A q \in Jobs \ {p} : job'[q] = job[q]
      BY <1>0, <2>1, Types
    <2>4. \A s \in Servers : server'[s].at = server[s].at /\ server'[s].bundle = server[s].bundle
      BY <1>0, <2>1, Signalled
    <2>5. Chosen(p)' => Chosen(p)
      BY <1>0, <2>2, <2>3 DEF Chosen
    <2> QED BY <1>0, <2>1, <2>2, <2>3, <2>4, <2>5, ReportKeeps DEF ReportInv
  <1>5. CASE StopEnded(p) \/ StopKill(p)
    <2> DEFINE r == [job[p] EXCEPT !.at = AfterStop(p), !.saw = None]
    <2>1. job' = [job EXCEPT ![p] = r] /\ pidFile' = None
      BY <1>5 DEF StopEnded, StopKill
    <2>2. r.at = AfterStop(p) /\ r.op = job[p].op
      BY <1>0, Types DEF JobRecord
    <2> HIDE DEF r
    <2>3. job'[p] = r /\ \A q \in Jobs \ {p} : job'[q] = job[q]
      BY <1>0, <2>1, Types
    <2>4. \A s \in Servers : server'[s].at = server[s].at /\ server'[s].bundle = server[s].bundle
      <3>1. CASE StopEnded(p)
        BY <3>1 DEF StopEnded
      <3>2. CASE StopKill(p)
        <4>1. job[p].saw \in Servers /\ server' = [server EXCEPT ![job[p].saw].sig = "KILL"]
          BY <1>0, <3>2, Types DEF StopKill, LastResort, TypeOK, JobRecord
        <4> QED BY <1>0, <4>1, Signalled
      <3> QED BY <1>5, <3>1, <3>2
    <2>5. Chosen(p)' => current' # None
      BY <1>0, <1>2, <2>2, <2>3 DEF Chosen, ReportInv
    <2>6. ~Running'
      BY <2>1 DEF Running
    <2> QED BY <1>0, <1>1, <2>1, <2>2, <2>3, <2>4, <2>5, <2>6, ReportKeeps
  <1> QED BY <1>3, <1>4, <1>5 DEF Stop

\* start_server: the pid that is written is of a server that loads what is selected.
LEMMA ReportStarts ==
  ASSUME NoSessions, ReportInv, ControlInv', NEW p \in Jobs, Start(p)
  PROVE  ReportInv'
  <1> USE DEF ControlInv
  <1>0. /\ TypeOK /\ UNCHANGED current /\ lock = p
        /\ \A q \in Jobs \ {p} : job[q].at \in {"idle", "lock"}
    BY NoneAssumption DEF Start, Fork, WritePid, StartOk, StartTimeout, ReportInv, Discipline
  <1>1. CASE Fork(p)
    <2>1. PICK s \in Fresh :
            /\ server' = [server EXCEPT ![s] = [at |-> "fork", sig |-> None, parent |-> p, bundle |-> None]]
            /\ job' = [job EXCEPT ![p] = [@ EXCEPT !.at = "pidfile", !.srv = s]]
      BY <1>1 DEF Fork, NoSessions
    <2> DEFINE r == [job[p] EXCEPT !.at = "pidfile", !.srv = s]
    <2>2. r.at = "pidfile" /\ r.srv = s /\ r.op = job[p].op /\ s \in Servers /\ s # pidFile
      BY <1>0, Types DEF JobRecord, Fresh
    <2>3. job'[p] = r /\ \A q \in Jobs \ {p} : job'[q] = job[q]
      BY <1>0, <2>1, Types
    <2> HIDE DEF r
    <2>4. /\ server'[s].at = "fork" /\ server'[s].bundle = None
          /\ \A t \in Servers \ {s} : server'[t] = server[t]
      BY <1>0, <2>1, <2>2, Types
    <2>5. current # None /\ UNCHANGED pidFile
      BY <1>1 DEF Fork, ReportInv, Chosen
    <2>6. pidFile \in Servers \cup {None} /\ None \notin Servers
      BY <1>0, Types, NoneAssumption
    <2>7. Running' => Running /\ pidFile \in Servers \ {s}
      BY <2>2, <2>4, <2>5, <2>6 DEF Running, Alive
    <2>8. Running' => Loaded(pidFile)'
      BY <1>0, <2>4, <2>5, <2>7 DEF ReportInv, Loaded
    <2>9. Loaded(s)'
      BY <2>4 DEF Loaded
    <2> QED BY <1>0, <2>2, <2>3, <2>4, <2>5, <2>8, <2>9 DEF ReportInv, Loaded
  <1>2. CASE WritePid(p)
    <2>1. /\ job'[p].at = "starting" /\ job'[p].op = job[p].op /\ server' = server
          /\ \A q \in Jobs \ {p} : job'[q] = job[q]
      BY <1>0, <1>2, Types DEF WritePid, Goto, JobRecord
    <2>2. Loaded(job[p].srv) /\ pidFile' = job[p].srv
      BY <1>2 DEF WritePid, ReportInv
    <2>3. Loaded(pidFile)'
      BY <1>0, <2>1, <2>2 DEF Loaded
    <2>4. Chosen(p)' => Chosen(p)
      BY <1>2, <2>1 DEF Chosen, WritePid
    <2>5. \A q \in Jobs : Chosen(q)' => current' # None
      <3>1. \A q \in Jobs \ {p} : Chosen(q)' => Chosen(q)
        BY <2>1 DEF Chosen
      <3> QED BY <1>0, <2>4, <3>1 DEF ReportInv
    <2> QED BY <1>0, <2>1, <2>3, <2>5 DEF ReportInv, Alive
  <1>3. CASE StartOk(p)
    <2> DEFINE at == IF job[p].op = "run" THEN "client" ELSE "end"
    <2>1. at \in Stages \ {"stopping", "pidfile", "starting", "link", "start"} /\ Goto(p, at)
          /\ UNCHANGED pidFile /\ job[p].at = "starting"
      BY <1>3 DEF StartOk, Stages
    <2> HIDE DEF at
    <2>2. job[p].op = "start" => current # None
      BY <2>1 DEF ReportInv, Chosen
    <2> QED BY <1>0, <2>1, <2>2, ReportGoes
  <1>4. CASE StartTimeout(p)
    <2> DEFINE t == job[p].srv
               v == IF server[t].sig = None THEN "TERM" ELSE server[t].sig
    <2>1. t \in Servers /\ server' = [server EXCEPT ![t].sig = v]
      BY <1>0, <1>4, Types DEF StartTimeout, TypeOK, JobRecord
    <2>2. /\ job'[p].at = "end" /\ job'[p].op = job[p].op /\ UNCHANGED pidFile
          /\ job[p].at = "starting" /\ \A q \in Jobs \ {p} : job'[q] = job[q]
      BY <1>0, <1>4, Types DEF StartTimeout, JobRecord
    <2> HIDE DEF t, v
    <2>3. \A s \in Servers : server'[s].at = server[s].at /\ server'[s].bundle = server[s].bundle
      BY <1>0, <2>1, Signalled
    <2>4. Chosen(p)' => Chosen(p)
      BY <2>2 DEF Chosen
    <2> QED BY <1>0, <2>2, <2>3, <2>4, ReportKeeps DEF ReportInv
  <1> QED BY <1>1, <1>2, <1>3, <1>4 DEF Start

LEMMA ReportAdvances ==
  ASSUME NoSessions, ReportInv, ControlInv', NEW p \in Jobs, Advance(p)
  PROVE  ReportInv'
  <1> USE DEF ControlInv
  <1>0. TypeOK
    BY DEF ReportInv
  <1>1. CASE Lock(p)
    <2>1. CASE lock = None
      <3>1. job' = [job EXCEPT ![p].at = "ready"] /\ UNCHANGED <<server, pidFile, current>>
            /\ job[p].at = "lock"
        BY <1>1, <2>1 DEF Lock, TakesLock, NoSessions
      <3>2. /\ job'[p].at = "ready" /\ job'[p].op = job[p].op
            /\ \A q \in Jobs \ {p} : job'[q] = job[q]
        BY <1>0, <3>1, Types DEF JobRecord
      <3>3. Chosen(p)' => Chosen(p)
        BY <3>1, <3>2 DEF Chosen
      <3> QED BY <3>1, <3>2, <3>3, ReportKeeps DEF ReportInv
    <2>2. CASE lock # None
      BY <1>1, <2>2, ReportEnds DEF Lock, TakesLock, NoSessions
    <2> QED BY <2>1, <2>2
  <1>2. CASE Decline(p) \/ Finish(p)
    BY <1>2, ReportEnds DEF Decline, Finish
  <1>3. CASE Proceed(p)
    <2>1. /\ job[p].at = "ready" /\ Goto(p, NextStep(p)) /\ UNCHANGED pidFile
          /\ current' = current \/ (current' \in Bundles /\ current = None)
          /\ job[p].op = "start" => current' # None
      <3>1. current' \in Bundles => current' # None
        BY NoneAssumption
      <3> QED BY <1>3, <3>1 DEF Proceed, Unselected, NoSessions
    <2>2. NextStep(p) \in Stages \ {"stopping", "pidfile", "starting"}
          /\ (NextStep(p) = "link" => ~Running)
          /\ (NextStep(p) = "start" => job[p].op \in {"run", "start"})
      BY DEF NextStep, Stages
    <2>3. job[p].op = "run" => current' # None
      BY <2>1, NoneAssumption DEF ReportInv, Chosen
    <2> QED BY <2>1, <2>2, <2>3, ReportGoes
  <1>4. CASE Benchmark(p)
    BY <1>4, ReportGoes DEF Benchmark, Stages
  <1>5. CASE Link(p)
    <2>1. PICK at \in {"start", "end"} : Goto(p, at)
      BY <1>5 DEF Link
    <2>2. /\ current' \in Bundles /\ current' # None /\ ~Running /\ UNCHANGED pidFile
          /\ job[p].at = "link"
      BY <1>5, NoneAssumption DEF Link, ReportInv
    <2> QED BY <2>1, <2>2, ReportGoes DEF Stages
  <1> QED BY <1>1, <1>2, <1>3, <1>4, <1>5, ReportStops, ReportStarts DEF Advance

\* What a server loads is what is selected then.
LEMMA ReportLoads ==
  ASSUME ReportInv, ControlInv', NEW s \in Servers, Process(s)
  PROVE  ReportInv'
  <1> USE DEF ControlInv
  <1>1. /\ UNCHANGED <<lock, pidFile, current, job>> /\ Live(s)
        /\ \A q \in Servers \ {s} : server'[q] = server[q]
    BY ProcessEffects DEF ReportInv
  <1>2. server[s] \in ServerRecord /\ server \in [Servers -> ServerRecord]
    BY Types DEF ReportInv
  <1>3. server'[s].at # "fork" /\ (Loaded(s) => Loaded(s)')
    <2>1. CASE Load(s)
      <3> DEFINE r == [server[s] EXCEPT !.at = "load", !.bundle = current]
      <3>1. server' = [server EXCEPT ![s] = r]
        BY <2>1 DEF Load, ReportInv
      <3>2. r.bundle = current /\ r.at = "load"
        BY <1>2 DEF ServerRecord
      <3> HIDE DEF r
      <3> QED BY <1>1, <1>2, <3>1, <3>2 DEF Loaded
    <2>2. CASE Open(s)
      <3>1. server'[s].bundle = server[s].bundle /\ server[s].at = "load" /\ server'[s].at = "open"
        BY <1>2, <2>2 DEF Open, ServerRecord
      <3> QED BY <1>1, <3>1 DEF Loaded
    <2>3. CASE Die(s)
      <3>1. server'[s].at \in {"gone", "zombie"}
        BY <1>2, <2>3 DEF Die, Gone, ServerRecord
      <3> QED BY <3>1 DEF Loaded
    <2> QED BY <2>1, <2>2, <2>3 DEF Process
  <1>4. \A t \in Servers : (Alive(t)' => Alive(t)) /\ (Loaded(t) => Loaded(t)')
    BY <1>1, <1>3 DEF Alive, Live, Loaded
  <1>5. pidFile \in Servers \cup {None} /\ \A p \in Jobs : job[p].at = "pidfile" => job[p].srv \in Servers
    BY Types DEF ReportInv, TypeOK, JobRecord
  <1>6. Running' => Running /\ pidFile \in Servers
    BY <1>1, <1>4, <1>5 DEF Running
  <1>7. \A t \in Servers : server'[t].at = "fork" => server'[t].bundle = None
    BY <1>1, <1>3 DEF ReportInv
  <1>8. \A p \in Jobs : Chosen(p)' <=> Chosen(p)
    BY <1>1 DEF Chosen
  <1>9. \A p \in Jobs : job'[p].at = "pidfile" => Loaded(job[p].srv)'
    BY <1>1, <1>4, <1>5 DEF ReportInv
  <1>10. Running' => Loaded(pidFile)'
    BY <1>1, <1>4, <1>6 DEF ReportInv, Loaded
  <1> QED BY <1>1, <1>4, <1>6, <1>7, <1>8, <1>9, <1>10 DEF ReportInv, Loaded

\* What is reported as running has loaded what `current' leads to (README.md:139-142), for
\* any number of terminals, without sessions.
THEOREM ReportedIsLoaded ==
  ASSUME NoSessions PROVE Spec => []ReportedBundleIsLoaded
  <1>1. Init => ReportInv
    <2> SUFFICES ASSUME Init PROVE ReportInv
      OBVIOUS
    <2>1. Idle.at = "idle" /\ Gone.at = "gone"
      BY DEF Idle, Gone
    <2> QED BY <2>1, ControlInit DEF Init, ReportInv, Chosen, Alive, Running
  <1>2. ReportInv /\ [Next]_vars => ReportInv'
    <2> SUFFICES ASSUME ReportInv, [Next]_vars PROVE ReportInv'
      OBVIOUS
    <2>1. ControlInv'
      BY ControlStep DEF ReportInv
    <2>2. CASE UNCHANGED vars
      BY <2>1, <2>2 DEF vars, ReportInv, Chosen, Alive, Running, Loaded
    <2>3. CASE Next
      BY <2>1, <2>3, ReportBegins, ReportAdvances, ReportLoads DEF Next
    <2> QED BY <2>2, <2>3
  <1>3. ReportInv => ReportedBundleIsLoaded
    BY DEF ReportInv, ReportedBundleIsLoaded, Loaded
  <1> QED BY <1>1, <1>2, <1>3, PTL DEF Spec
=============================================================================
