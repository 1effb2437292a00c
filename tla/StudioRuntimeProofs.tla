------------------------ MODULE StudioRuntimeProofs ------------------------
(***************************************************************************)
(* Theorems about StudioRuntime, for any number of request threads, child  *)
(* processes, tokens, configurations and rows.                             *)
(***************************************************************************)
EXTENDS StudioRuntime, TLAPS

\* What a request thread carries on its way to _spawn: the kind it was admitted
\* for and, for a run or a benchmark, the row begin_run returned.
Shaped(q) ==
    /\ q.at = "bench_server" => q.kind = "benchmark"
    /\ q.at = "record" => q.kind \in {"robot", "benchmark"}
    /\ q.at = "spawn" =>
         /\ q.kind \in Kinds
         /\ q.kind \in {"robot", "benchmark"} => q.row \in Rows

RequestShape == \A r \in Requests : Shaped(request[r])

TypeInv == TypeOK /\ RequestShape

\* Every kind of child puts Studio in an active state of its own.
LEMMA StateOfKind == \A k \in Kinds : StateOf[k] \in ActiveStates
  BY DEF StateOf, Kinds, ActiveStates

USE DEF IdleRequest, Unborn, Serving


\* The initial state is well-typed, with no request on its way.
LEMMA TypeInit == Init => TypeInv
  <1> SUFFICES ASSUME Init PROVE TypeInv
    OBVIOUS
  <1>1. IdleRequest \in RequestRecord /\ IdleRequest.at = "idle"
    BY DEF RequestRecord, RequestPoints
  <1>2. Unborn \in ChildRecord /\ Unborn.kind = None
    BY DEF ChildRecord, Phases
  <1>3. None \notin Kinds
    BY NoneAssumption
  <1> HIDE DEF IdleRequest, Unborn
  <1>4. RequestShape
    BY <1>1 DEF Init, RequestShape, Shaped
  <1>5. TypeOK
    BY <1>1, <1>2, <1>3 DEF Init, TypeOK, States, TokenStatus, RowStatus, Kinds
  <1> QED
    BY <1>4, <1>5 DEF TypeInv


\* A request thread that moves to a point before or after _spawn stays typed.
RequestTyped == request \in [Requests -> RequestRecord] /\ RequestShape

\* A request thread that moves on, away from _spawn, stays typed.
LEMMA GotoTyped ==
  ASSUME RequestTyped, NEW r \in Requests, NEW point \in RequestPoints \ {"bench_server", "record", "spawn"},
         Goto(r, point)
  PROVE  RequestTyped'
  BY DEF RequestTyped, RequestShape, Shaped, Goto, RequestRecord

\* So does one whose record is replaced by a well-shaped one.
LEMMA MovedTyped ==
  ASSUME RequestTyped, NEW r \in Requests, NEW new \in RequestRecord, Shaped(new),
         request' = [request EXCEPT ![r] = new]
  PROVE  RequestTyped'
  BY DEF RequestTyped, RequestShape

\* So does one that answers.
LEMMA DoneTyped ==
  ASSUME RequestTyped, NEW r \in Requests, Done(r)
  PROVE  RequestTyped'
  BY DEF RequestTyped, RequestShape, Shaped, Done, RequestRecord, RequestPoints

\* A child that is sent a signal, or ends, keeps its type and its identity.
LEMMA ChildRecordKept ==
  ASSUME NEW record \in ChildRecord
  PROVE  /\ \A sig \in Signals : [record EXCEPT !.sigs = @ \cup {sig}] \in ChildRecord
         /\ \A code \in Codes : Exited(record, code) \in ChildRecord
         /\ [record EXCEPT !.phase = "control"] \in ChildRecord
  BY DEF ChildRecord, Exited, Phases

\* The children keep their kinds and their rows.
SameIdentity == \A c \in Children : child'[c].kind = child[c].kind /\ child'[c].row = child[c].row

\* A signal keeps the types and the identities of the children.
LEMMA SignalTyped ==
  ASSUME TypeOK, NEW sig \in Signals, Signal(sig)
  PROVE  child' \in [Children -> ChildRecord] /\ SameIdentity
  <1>1. CASE ProcessLive
    <2>1. process \in Children /\ child[process] \in ChildRecord
      BY <1>1 DEF TypeOK, ProcessLive
    <2>2. child' = [child EXCEPT ![process] = [child[process] EXCEPT !.sigs = @ \cup {sig}]]
      BY <1>1, <2>1 DEF Signal, TypeOK
    <2>3. child' \in [Children -> ChildRecord]
      BY <2>1, <2>2, ChildRecordKept DEF TypeOK
    <2> QED
      BY <2>1, <2>2, <2>3 DEF TypeOK, ChildRecord, SameIdentity
  <1>2. CASE ~ProcessLive
    BY <1>2 DEF Signal, TypeOK, SameIdentity
  <1> QED
    BY <1>1, <1>2

\* So does the end of a child.
LEMMA ExitTyped ==
  ASSUME TypeOK, NEW c \in Children, NEW code \in Codes,
         child' = [child EXCEPT ![c] = Exited(@, code)]
  PROVE  child' \in [Children -> ChildRecord] /\ SameIdentity
  <1>1. child' \in [Children -> ChildRecord]
    BY ChildRecordKept DEF TypeOK
  <1>2. Exited(child[c], code).kind = child[c].kind /\ Exited(child[c], code).row = child[c].row
    BY DEF Exited, TypeOK, ChildRecord
  <1> QED
    BY <1>1, <1>2 DEF TypeOK, SameIdentity

\* So does a SIGKILL.
LEMMA KillTyped ==
  ASSUME TypeOK, Kill
  PROVE  child' \in [Children -> ChildRecord] /\ SameIdentity
  <1>1. CASE ProcessLive
    BY <1>1, ExitTyped DEF Kill, TypeOK, ProcessLive, Codes
  <1>2. CASE ~ProcessLive
    BY <1>2 DEF Kill, TypeOK, SameIdentity
  <1> QED
    BY <1>1, <1>2

\* _arm_tokens.clear() keeps the types.
LEMMA ClearedTyped ==
  ASSUME TypeOK
  PROVE  ClearedTokens \in [Tokens -> [status: TokenStatus, config: Configs \cup {None}]]
  BY DEF TypeOK, ClearedTokens, TokenStatus

\* The updates a request thread makes to its own record.
Configured(q, point, cfg) == [q EXCEPT !.at = point, !.config = cfg]
OfKind(q, point, k)       == [q EXCEPT !.at = point, !.kind = k]
Controls(q, point, c)     == [q EXCEPT !.at = point, !.kind = "control", !.for = c]
Waiting(q, point, c)      == [q EXCEPT !.at = point, !.for = c]
OnRow(q, point, w)        == [q EXCEPT !.at = point, !.row = w]

\* Admitting an arm.
LEMMA ConfigUpdate ==
  ASSUME NEW q \in RequestRecord, NEW point \in RequestPoints, NEW cfg \in Configs
  PROVE  LET n == Configured(q, point, cfg)
         IN  /\ n \in RequestRecord /\ n.at = point
             /\ n.kind = q.kind /\ n.token = q.token
  BY DEF RequestRecord, Configured

\* A request admitted for a kind of work.
LEMMA KindUpdate ==
  ASSUME NEW q \in RequestRecord, NEW point \in RequestPoints, NEW k \in Kinds
  PROVE  LET n == OfKind(q, point, k)
         IN  /\ n \in RequestRecord /\ n.at = point
             /\ n.kind = k /\ n.token = q.token
  BY DEF RequestRecord, OfKind

\* A stop that remembers the child it saw.
LEMMA ControlUpdate ==
  ASSUME NEW q \in RequestRecord, NEW point \in RequestPoints,
         NEW c \in Children \cup {None}
  PROVE  LET n == Controls(q, point, c)
         IN  /\ n \in RequestRecord /\ n.at = point
             /\ n.kind = "control" /\ n.token = q.token
  BY DEF RequestRecord, Controls

\* A reset that remembers the child it saw.
LEMMA ForUpdate ==
  ASSUME NEW q \in RequestRecord, NEW point \in RequestPoints,
         NEW c \in Children \cup {None}
  PROVE  LET n == Waiting(q, point, c)
         IN  /\ n \in RequestRecord /\ n.at = point
             /\ n.kind = q.kind /\ n.token = q.token
  BY DEF RequestRecord, Waiting

\* A run or a benchmark that was given its row.
LEMMA RowUpdate ==
  ASSUME NEW q \in RequestRecord, NEW point \in RequestPoints, NEW w \in Rows
  PROVE  LET n == OnRow(q, point, w)
         IN  /\ n \in RequestRecord /\ n.at = point /\ n.row = w
             /\ n.kind = q.kind /\ n.token = q.token /\ n.config = q.config
  BY DEF RequestRecord, OnRow

\* The child a stop or a reset sees.
LEMMA SeenChild ==
  ASSUME TypeOK
  PROVE  process \in Children \cup {None}
         /\ (IF ProcessLive THEN process ELSE None) \in Children \cup {None}
  BY DEF TypeOK

\* Every step of the engine, the threads and the world keeps the types.
LEMMA TypeStep == TypeInv /\ [Next]_vars => TypeInv'
  <1> SUFFICES ASSUME TypeInv, [Next]_vars PROVE TypeInv'
    OBVIOUS
  <1> HIDE DEF IdleRequest, Unborn, Serving
  <1>r. RequestTyped
    BY DEF TypeInv, TypeOK, RequestTyped
  <1>q. \A r \in Requests : request[r] \in RequestRecord
    BY <1>r DEF RequestTyped
  <1> USE DEF TypeInv, TypeOK, engineVars, threadVars, worldVars
  <1>u. ASSUME UNCHANGED request PROVE RequestTyped'
    BY <1>r, <1>u DEF RequestTyped, RequestShape
  <1>1. ASSUME NEW r \in Requests, NEW cfg \in Configs, Arm(r, cfg) PROVE TypeInv'
    <2>1. RequestTyped'
      <3> DEFINE new == Configured(request[r], "arm_check", cfg)
      <3>0. new \in RequestRecord /\ new.at = "arm_check"
        <4>1. "arm_check" \in RequestPoints
          BY DEF RequestPoints
        <4> QED
          BY <1>q, <4>1, ConfigUpdate
      <3>2. request' = [request EXCEPT ![r] = new]
        BY <1>1 DEF Arm, Configured
      <3> HIDE DEF new
      <3>1. new \in RequestRecord /\ Shaped(new)
        BY <3>0 DEF Shaped
      <3> QED
        BY <3>1, <3>2, <1>r, MovedTyped
    <2> QED
      BY <1>1, <2>1, ClearedTyped DEF Arm, RequestTyped, States
  <1>2. ASSUME NEW r \in Requests, ArmCheck(r) PROVE TypeInv'
    <2>1. RequestTyped'
      BY <1>2, <1>r, GotoTyped, DoneTyped DEF ArmCheck, RequestPoints
    <2> QED
      BY <1>2, <2>1 DEF ArmCheck, RequestTyped
  <1>3. ASSUME NEW r \in Requests, NEW t \in Tokens, ArmIssue(r, t) PROVE TypeInv'
    <2>1. RequestTyped'
      BY <1>3, <1>r, DoneTyped DEF ArmIssue
    <2>2. request[r].config \in Configs \cup {None}
      BY DEF RequestRecord
    <2> QED
      BY <1>3, <2>1, <2>2 DEF ArmIssue, RequestTyped, States, TokenStatus
  <1>4. ASSUME NEW r \in Requests, NEW c \in Children, Spawn(r, c) PROVE TypeInv'
    <2>1. RequestTyped'
      BY <1>4, <1>r, DoneTyped DEF Spawn
    <2>2. CASE ProcessLive
      BY <1>4, <2>1, <2>2 DEF Spawn, RequestTyped
    <2>3. CASE ~ProcessLive
      <3> DEFINE new == [Unborn EXCEPT !.kind = request[r].kind, !.phase = "started",
                                       !.config = request[r].config,
                                       !.token = request[r].token, !.row = request[r].row]
      <3>0. request[r] \in RequestRecord /\ request[r].kind \in Kinds
        BY <1>4 DEF Spawn, RequestShape, Shaped
      <3>n. /\ new \in ChildRecord
            /\ new.kind = request[r].kind /\ new.row = request[r].row
        BY <3>0 DEF ChildRecord, RequestRecord, Phases, Unborn
      <3>c. child' = [child EXCEPT ![c] = new]
        BY <1>4, <2>3 DEF Spawn
      <3> HIDE DEF new
      <3>1. child' \in [Children -> ChildRecord]
        BY <3>n, <3>c
      <3>2. \A d \in Children : child'[d].kind \in {"robot", "benchmark"} => child'[d].row \in Rows
        BY <1>4, <3>n, <3>c DEF Spawn, RequestShape, Shaped
      <3>3. state' \in States
        BY <1>4, <2>3, StateOfKind DEF Spawn, RequestShape, Shaped, States
      <3> QED
        BY <1>4, <2>1, <2>3, <3>1, <3>2, <3>3 DEF Spawn, RequestTyped
    <2> QED
      BY <2>2, <2>3
  <1>5. ASSUME NEW t \in Tokens, TokenExpires(t) PROVE TypeInv'
    <2>1. RequestTyped'
      BY <1>5, <1>u DEF TokenExpires
    <2> QED
      BY <1>5, <2>1 DEF TokenExpires, RequestTyped, TokenStatus
  <1>6. ASSUME NEW r \in Requests, NEW t \in Tokens, NEW cfg \in Configs, StartRobot(r, t, cfg) PROVE TypeInv'
    <2> DEFINE new == [at |-> "record", kind |-> "robot", for |-> None, config |-> cfg,
                       token |-> t, row |-> None]
    <2>1. RequestTyped'
      <3>1. new \in RequestRecord /\ Shaped(new)
        BY DEF RequestRecord, RequestPoints, Kinds, Shaped
      <3>2. request' \in {request, [request EXCEPT ![r] = new]}
        BY <1>6 DEF StartRobot
      <3> HIDE DEF new
      <3> QED
        BY <3>1, <3>2, <1>r, <1>u, MovedTyped
    <2>2. armTokens' \in [Tokens -> [status: TokenStatus, config: Configs \cup {None}]]
      BY <1>6 DEF StartRobot, TokenStatus
    <2> QED
      BY <1>6, <2>1, <2>2 DEF StartRobot, RequestTyped, States
  <1>7. ASSUME NEW r \in Requests, NEW k \in Kinds \ {"robot"}, StartOther(r, k) PROVE TypeInv'
    <2>1. RequestTyped'
      <3> DEFINE point == IF k = "benchmark" THEN "bench_server" ELSE "spawn"
      <3> DEFINE new == OfKind(request[r], point, k)
      <3>0. new \in RequestRecord /\ new.at = point /\ new.kind = k
        <4>1. point \in RequestPoints
          BY DEF RequestPoints
        <4> HIDE DEF point
        <4> QED
          BY <1>q, <4>1, KindUpdate
      <3>1. new \in RequestRecord /\ Shaped(new)
        BY <3>0 DEF Kinds, Shaped
      <3>2. request' = [request EXCEPT ![r] = new]
        BY <1>7 DEF StartOther, OfKind
      <3> HIDE DEF new
      <3> QED
        BY <3>1, <3>2, <1>r, MovedTyped
    <2> QED
      BY <1>7, <2>1 DEF StartOther, RequestTyped
  <1>8. ASSUME NEW r \in Requests, BenchServer(r) PROVE TypeInv'
    <2>1. RequestTyped'
      <3>1. CASE Goto(r, "record") /\ request[r].kind = "benchmark"
        BY <3>1, <1>r DEF RequestTyped, RequestShape, Shaped, Goto, RequestRecord, RequestPoints
      <3>2. CASE Done(r)
        BY <3>2, <1>r, DoneTyped
      <3> QED
        BY <1>8, <3>1, <3>2, <1>r DEF BenchServer, RequestTyped, RequestShape, Shaped
    <2> QED
      BY <1>8, <2>1 DEF BenchServer, RequestTyped
  <1>9. ASSUME NEW r \in Requests, NEW w \in Rows, Record(r, w) PROVE TypeInv'
    <2>1. RequestTyped'
      <3> DEFINE new == OnRow(request[r], "spawn", w)
      <3>3. request[r].kind \in {"robot", "benchmark"}
        BY <1>9, <1>r DEF Record, RequestTyped, RequestShape, Shaped
      <3>1. new \in RequestRecord /\ Shaped(new)
        <4>1. /\ new \in RequestRecord /\ new.at = "spawn"
              /\ new.kind = request[r].kind /\ new.row = w
          <5>1. "spawn" \in RequestPoints
            BY DEF RequestPoints
          <5> QED
            BY <1>q, <5>1, RowUpdate
        <4> HIDE DEF new
        <4> QED
          BY <4>1, <3>3 DEF Kinds, Shaped
      <3>2. request' = [request EXCEPT ![r] = new]
        BY <1>9 DEF Record, OnRow
      <3> HIDE DEF new
      <3> QED
        BY <3>1, <3>2, <1>r, MovedTyped
    <2> QED
      BY <1>9, <2>1 DEF Record, RequestTyped, RowStatus
  <1>10. ASSUME NEW r \in Requests, NEW op \in {"control", "halt"}, CallStop(r, op) PROVE TypeInv'
    <2>1. RequestTyped'
      BY <1>10, <1>r, GotoTyped DEF CallStop, RequestPoints
    <2> QED
      BY <1>10, <2>1 DEF CallStop, RequestTyped
  <1>11. ASSUME NEW r \in Requests, ControlEnter(r) PROVE TypeInv'
    <2>1. RequestTyped'
      <3> DEFINE new == Controls(request[r], "stop_enter", IF ProcessLive THEN process ELSE None)
      <3>1. CASE Done(r)
        BY <3>1, <1>r, DoneTyped
      <3>2. CASE request' = [request EXCEPT ![r] = new]
        <4>1. new \in RequestRecord /\ Shaped(new)
          <5>1. new \in RequestRecord /\ new.at = "stop_enter"
            <6>1. "stop_enter" \in RequestPoints
              BY DEF RequestPoints
            <6> QED
              BY <1>q, <6>1, SeenChild, ControlUpdate
          <5> HIDE DEF new
          <5> QED
            BY <5>1 DEF Shaped
        <4> QED
          BY <3>2, <4>1, <1>r, MovedTyped
      <3> QED
        BY <1>11, <3>1, <3>2 DEF ControlEnter, Controls
    <2> QED
      <3>1. stopPending' \in BOOLEAN
        BY <1>11 DEF ControlEnter, ProcessLive, Live
      <3>2. UNCHANGED <<state, process, termination, armTokens, runs, monitor, stopper,
                        main, worldVars>>
        BY <1>11 DEF ControlEnter
      <3> QED
        BY <2>1, <3>1, <3>2 DEF RequestTyped
  <1>12. ASSUME NEW r \in Requests, StopEnter(r) PROVE TypeInv'
    <2>1. RequestTyped'
      BY <1>12, <1>r, GotoTyped, DoneTyped DEF StopEnter, AfterStop, RequestPoints
    <2> QED
      BY <1>12, <2>1 DEF StopEnter, StopState, RequestTyped, States, Terminations
  <1>13. ASSUME NEW r \in Requests, StopSignal(r) PROVE TypeInv'
    <2>1. RequestTyped'
      BY <1>13, <1>r, GotoTyped, DoneTyped DEF StopSignal, AfterStop, RequestPoints
    <2> QED
      BY <1>13, <2>1, SignalTyped DEF StopSignal, Signals, SameIdentity, RequestTyped
  <1>14. ASSUME NEW r \in Requests, StopAfter(r) PROVE TypeInv'
    <2>1. RequestTyped'
      BY <1>14, <1>r, DoneTyped DEF StopAfter
    <2>2. request[r].for \in Children \cup {None}
      BY <1>q DEF RequestRecord
    <2>3. stopper' \in [at: {"none", "wait", "clear"}, for: Children \cup {None}]
      BY <1>14, <2>2 DEF StopAfter
    <2> QED
      BY <1>14, <2>1, <2>3 DEF StopAfter, CliStopServer, RequestTyped
  <1>15. CASE StopperStop
    BY <1>15, <1>u DEF StopperStop, CliStopServer, RequestTyped
  <1>16. CASE StopperClear
    BY <1>16, <1>u DEF StopperClear, PendingAfterStop, RequestTyped
  <1>17. ASSUME NEW r \in Requests, HaltEnter(r) PROVE TypeInv'
    <2>1. RequestTyped'
      BY <1>17, <1>r, GotoTyped, DoneTyped DEF HaltEnter, HaltNext, RequestPoints
    <2> QED
      BY <1>17, <2>1 DEF HaltEnter, StopState, RequestTyped, States, Terminations
  <1>18. ASSUME NEW r \in Requests, HaltSignal(r) PROVE TypeInv'
    <2>1. RequestTyped'
      BY <1>18, <1>r, DoneTyped DEF HaltSignal
    <2> QED
      BY <1>18, <2>1, SignalTyped DEF HaltSignal, Signals, SameIdentity, RequestTyped
  <1>19. ASSUME NEW r \in Requests, Reset(r) PROVE TypeInv'
    <2>1. RequestTyped'
      <3> DEFINE new == Waiting(request[r], "reset_mark", process)
      <3>1. new \in RequestRecord /\ Shaped(new)
        <4>1. new \in RequestRecord /\ new.at = "reset_mark"
          <5>1. "reset_mark" \in RequestPoints
            BY DEF RequestPoints
          <5> QED
            BY <1>q, <5>1, SeenChild, ForUpdate
        <4> HIDE DEF new
        <4> QED
          BY <4>1 DEF Shaped
      <3>2. request' = [request EXCEPT ![r] = new]
        BY <1>19 DEF Reset, Waiting
      <3> QED
        BY <3>1, <3>2, <1>r, MovedTyped
    <2> QED
      BY <1>19, <2>1 DEF Reset, RequestTyped
  <1>20. ASSUME NEW r \in Requests, ResetMark(r) PROVE TypeInv'
    <2>1. RequestTyped'
      BY <1>20, <1>r, GotoTyped DEF ResetMark, RequestPoints
    <2> QED
      BY <1>20, <2>1 DEF ResetMark, RequestTyped, Terminations
  <1>21. ASSUME NEW r \in Requests, ResetSignal(r) PROVE TypeInv'
    <2>1. RequestTyped'
      BY <1>21, <1>r, GotoTyped DEF ResetSignal, RequestPoints
    <2> QED
      BY <1>21, <2>1, SignalTyped DEF ResetSignal, Signals, SameIdentity, RequestTyped
  <1>22. ASSUME NEW r \in Requests, ResetWait(r) PROVE TypeInv'
    <2>1. RequestTyped'
      BY <1>22, <1>r, GotoTyped DEF ResetWait, RequestPoints
    <2> QED
      BY <1>22, <2>1 DEF ResetWait, RequestTyped
  <1>23. ASSUME NEW r \in Requests, ResetKill(r) PROVE TypeInv'
    <2>1. RequestTyped'
      BY <1>23, <1>r, GotoTyped DEF ResetKill, RequestPoints
    <2> QED
      BY <1>23, <2>1, KillTyped DEF ResetKill, SameIdentity, RequestTyped
  <1>24. ASSUME NEW r \in Requests, ResetServer(r) PROVE TypeInv'
    <2>1. RequestTyped'
      BY <1>24, <1>r, GotoTyped, DoneTyped DEF ResetServer, RequestPoints
    <2> QED
      BY <1>24, <2>1 DEF ResetServer, CliStopServer, RequestTyped
  <1>25. ASSUME NEW r \in Requests, ResetClear(r) PROVE TypeInv'
    <2>1. RequestTyped'
      BY <1>25, <1>r, DoneTyped DEF ResetClear
    <2> QED
      BY <1>25, <2>1, ClearedTyped DEF ResetClear, ProcessAfterReset, RequestTyped, States
  <1>26. ASSUME NEW r \in Requests, ServerCommand(r) PROVE TypeInv'
    BY <1>26, <1>u DEF ServerCommand, RequestTyped
  <1>27. ASSUME NEW c \in Children, MonitorMismatch(c) PROVE TypeInv'
    BY <1>27, <1>u DEF MonitorMismatch, RequestTyped, States, Terminations
  <1>28. ASSUME NEW c \in Children, MonitorSignal(c) PROVE TypeInv'
    BY <1>28, <1>u, SignalTyped DEF MonitorSignal, Signals, SameIdentity, RequestTyped
  <1>29. ASSUME NEW c \in Children, MonitorReap(c) PROVE TypeInv'
    BY <1>29, <1>u DEF MonitorReap, RequestTyped, States
  <1>30. ASSUME NEW c \in Children, MonitorFinish(c) PROVE TypeInv'
    <2>1. PICK status \in RowStatus : runs' = [runs EXCEPT ![child[c].row] = status]
      BY <1>30 DEF MonitorFinish, CodeStatus, RowStatus
    <2>2. runs' \in [Rows -> RowStatus]
      BY <2>1
    <2>3. RequestTyped'
      BY <1>30, <1>u DEF MonitorFinish
    <2> QED
      BY <1>30, <2>2, <2>3 DEF MonitorFinish, RequestTyped
  <1>31. CASE CloseRead
    BY <1>31, <1>u DEF CloseRead, RequestTyped
  <1>32. CASE CloseMark
    BY <1>32, <1>u DEF CloseMark, RequestTyped, Terminations
  <1>33. CASE CloseSignal
    BY <1>33, <1>u, SignalTyped DEF CloseSignal, CloseSig, Signals, SameIdentity, RequestTyped
  <1>34. CASE CloseWait
    BY <1>34, <1>u, KillTyped DEF CloseWait, SameIdentity, RequestTyped
  <1>35. CASE Restart
    <2>1. RequestTyped'
      BY <1>35, <1>r DEF Restart, RequestTyped, RequestShape, Shaped, IdleRequest,
         RequestRecord, RequestPoints
    <2>2. \A c \in Children : child'[c] \in ChildRecord
      BY <1>35, ChildRecordKept DEF Restart, Codes
    <2>3. \A c \in Children : child'[c].kind = child[c].kind /\ child'[c].row = child[c].row
      <3>1. \A record \in ChildRecord, code \in Codes :
              Exited(record, code).kind = record.kind /\ Exited(record, code).row = record.row
        BY DEF Exited, ChildRecord
      <3>2. \A c \in Children : child[c] \in ChildRecord
        OBVIOUS
      <3> QED
        BY <1>35, <3>1, <3>2 DEF Restart, Codes
    <2> QED
      BY <1>35, <2>1, <2>2, <2>3, ClearedTyped DEF Restart, RequestTyped, States, Serving
  <1>36. ASSUME NEW c \in Children, ChildControl(c) PROVE TypeInv'
    <2> DEFINE new == [child[c] EXCEPT !.phase = "control"]
    <2>1. new \in ChildRecord /\ new.kind = child[c].kind /\ new.row = child[c].row
      BY ChildRecordKept DEF ChildRecord
    <2>2. child' = [child EXCEPT ![c] = new]
      BY <1>36 DEF ChildControl
    <2> HIDE DEF new
    <2>3. /\ child' \in [Children -> ChildRecord]
          /\ \A d \in Children : child'[d].kind = child[d].kind /\ child'[d].row = child[d].row
      BY <2>1, <2>2
    <2> QED
      BY <1>36, <1>u, <2>3 DEF ChildControl, RequestTyped
  <1>37. ASSUME NEW c \in Children, ChildExit(c) PROVE TypeInv'
    <2>1. child' \in [Children -> ChildRecord] /\ SameIdentity
      BY <1>37, ExitTyped DEF ChildExit
    <2> QED
      BY <1>37, <1>u, <2>1 DEF ChildExit, SameIdentity, RequestTyped
  <1>38. CASE Terminal
    BY <1>38, <1>u DEF Terminal, RequestTyped
  <1>39. CASE UNCHANGED vars
    <2>1. /\ UNCHANGED <<state, process, termination, stopPending, armTokens, runs, request>>
          /\ UNCHANGED <<monitor, stopper, main, child, server, terminal>>
      BY <1>39 DEF vars
    <2> QED
      BY <2>1, <1>u DEF RequestTyped
  <1> HIDE DEF TypeInv
  <1>40. ASSUME NEW r \in Requests, RequestBegins(r) PROVE TypeInv'
    BY <1>40, <1>1, <1>6, <1>7, <1>10, <1>12, <1>19, <1>26 DEF RequestBegins
  <1>41. ASSUME NEW r \in Requests, RequestContinues(r) PROVE TypeInv'
    BY <1>41, <1>2, <1>3, <1>4, <1>8, <1>9, <1>11, <1>12, <1>13, <1>14, <1>17, <1>18,
       <1>20, <1>21, <1>22, <1>23, <1>24, <1>25 DEF RequestContinues
  <1>42. ASSUME NEW c \in Children, MonitorMismatch(c) \/ Monitor(c) PROVE TypeInv'
    BY <1>42, <1>27, <1>28, <1>29, <1>30 DEF Monitor
  <1>43. CASE Stopper
    BY <1>43, <1>15, <1>16 DEF Stopper
  <1>44. CASE Service
    BY <1>44, <1>31, <1>32, <1>33, <1>34, <1>35 DEF Service
  <1>45. CASE World
    BY <1>45, <1>5, <1>36, <1>37, <1>38 DEF World
  <1> QED
    BY <1>39, <1>40, <1>41, <1>42, <1>43, <1>44, <1>45 DEF Next

\* Types, and the shape of requests and children, in every reachable state: the
\* store is never asked to finish a run without a row (runtime.py:626-640).
THEOREM Typed == Spec => []TypeOK
  <1>1. TypeInv => TypeOK
    BY DEF TypeInv
  <1> QED
    BY TypeInit, TypeStep, <1>1, PTL DEF Spec

-----------------------------------------------------------------------------
(* What a step does to the children                                          *)

\* A child is as it was, has taken control.lock, or has ended; what it was
\* spawned with stays.
Fate(c) ==
    /\ child'[c].kind = child[c].kind /\ child'[c].row = child[c].row
    /\ child'[c].config = child[c].config /\ child'[c].token = child[c].token
    /\ \/ /\ child'[c].phase = child[c].phase \/ (Live(c) /\ child'[c].phase = "control")
          /\ child'[c].code = child[c].code
          /\ child[c].sigs \subseteq child'[c].sigs
       \/ Live(c) /\ child'[c].phase = "exited" /\ child'[c].code \in Codes

SpawnsOne == \E r \in Requests, c \in Children : Spawn(r, c) /\ ~ProcessLive

\* What the end of a child changes, and what it leaves.
LEMMA ExitedFields ==
  ASSUME NEW record \in ChildRecord, NEW code \in Codes
  PROVE  /\ Exited(record, code).phase = "exited" /\ Exited(record, code).code = code
         /\ Exited(record, code).kind = record.kind /\ Exited(record, code).row = record.row
         /\ Exited(record, code).config = record.config
         /\ Exited(record, code).token = record.token
  BY DEF Exited, ChildRecord

\* A signal, an exit or a kill gives every child one of its fates.
LEMMA SignalFate ==
  ASSUME TypeOK, NEW sig, Signal(sig), NEW c \in Children
  PROVE  Fate(c)
  BY DEF TypeOK, Signal, Fate, ChildRecord, ProcessLive

\* A child that exits has its fate.
LEMMA ExitFate ==
  ASSUME TypeOK, NEW d \in Children, Live(d), NEW code \in Codes,
         child' = [child EXCEPT ![d] = Exited(@, code)], NEW c \in Children
  PROVE  Fate(c)
  BY DEF TypeOK, Fate, ChildRecord, Exited

\* A child that is killed has its fate.
LEMMA KillFate ==
  ASSUME TypeOK, Kill, NEW c \in Children
  PROVE  Fate(c)
  BY ExitFate DEF TypeOK, Kill, ProcessLive, Codes, Fate

\* No step but _spawn brings a child to life.
LEMMA ChildEffects ==
  ASSUME TypeOK, [Next]_vars, ~SpawnsOne, NEW c \in Children
  PROVE  Fate(c)
  <1> USE DEF worldVars
  <1>1. CASE UNCHANGED child
    BY <1>1 DEF Fate
  <1>2. ASSUME NEW r \in Requests, RequestBegins(r) PROVE Fate(c)
    BY <1>1, <1>2 DEF RequestBegins, Arm, StartRobot, StartOther, CallStop, StopEnter, Reset,
       ServerCommand
  <1>3. ASSUME NEW r \in Requests, RequestContinues(r) PROVE Fate(c)
    <2>1. ASSUME NEW d \in Children, Spawn(r, d) PROVE Fate(c)
      BY <1>1, <2>1 DEF SpawnsOne, Spawn
    <2>2. CASE StopSignal(r) \/ HaltSignal(r) \/ ResetSignal(r)
      BY <2>2, SignalFate DEF StopSignal, HaltSignal, ResetSignal
    <2>3. CASE ResetKill(r)
      BY <2>3, KillFate DEF ResetKill
    <2> QED
      BY <1>1, <1>3, <2>1, <2>2, <2>3 DEF RequestContinues, ArmCheck, ArmIssue, BenchServer,
         Record, ControlEnter, StopEnter, StopAfter, HaltEnter, ResetMark, ResetWait,
         ResetServer, ResetClear
  <1>4. ASSUME NEW d \in Children, MonitorMismatch(d) \/ Monitor(d) PROVE Fate(c)
    BY <1>1, <1>4, SignalFate DEF MonitorMismatch, Monitor, MonitorSignal, MonitorReap,
       MonitorFinish
  <1>5. CASE Stopper
    BY <1>1, <1>5 DEF Stopper, StopperStop, StopperClear
  <1>6. CASE Restart
    <2>1. child[c] \in ChildRecord
      BY DEF TypeOK
    <2>2. child'[c] = IF Live(c) THEN Exited(child[c], "error") ELSE child[c]
      BY <1>6 DEF Restart
    <2> QED
      BY <2>1, <2>2, ExitedFields DEF Fate, Codes
  <1>7. CASE CloseRead \/ CloseMark \/ CloseSignal \/ CloseWait
    BY <1>1, <1>7, SignalFate, KillFate DEF CloseRead, CloseMark, CloseSignal, CloseWait
  <1>8. ASSUME NEW d \in Children, ChildControl(d) PROVE Fate(c)
    BY <1>8 DEF ChildControl, Fate, TypeOK, ChildRecord, Live
  <1>9. ASSUME NEW d \in Children, ChildExit(d) PROVE Fate(c)
    BY <1>9, ExitFate DEF ChildExit
  <1>10. CASE Terminal \/ \E t \in Tokens : TokenExpires(t)
    BY <1>1, <1>10 DEF Terminal, TokenExpires
  <1>11. CASE UNCHANGED vars
    BY <1>1, <1>11 DEF vars
  <1> QED
    BY <1>2, <1>3, <1>4, <1>5, <1>6, <1>7, <1>8, <1>9, <1>10, <1>11 DEF Next, Service, World

\* A child is spawned from "unborn", for the request at "spawn", and becomes
\* the current one.
LEMMA SpawnEffects ==
  ASSUME TypeInv, NEW r \in Requests, NEW c \in Children, Spawn(r, c), ~ProcessLive
  PROVE  /\ child[c].phase = "unborn"
         /\ process' = c
         /\ state' = StateOf[request[r].kind] /\ request[r].kind \in Kinds
         /\ child'[c].phase = "started" /\ child'[c].code = None
         /\ child'[c].kind = request[r].kind /\ child'[c].row = request[r].row
         /\ child'[c].config = request[r].config /\ child'[c].token = request[r].token
         /\ \A d \in Children \ {c} : child'[d] = child[d]
  <1>1. child' = [child EXCEPT ![c] =
                    [Unborn EXCEPT !.kind = request[r].kind, !.phase = "started",
                                   !.config = request[r].config,
                                   !.token = request[r].token, !.row = request[r].row]]
    BY DEF Spawn
  <1>2. request[r].kind \in Kinds
    BY DEF Spawn, TypeInv, RequestShape, Shaped
  <1> QED
    BY <1>1, <1>2 DEF Spawn, TypeInv, TypeOK, Unborn

-----------------------------------------------------------------------------
(* One live child, the one Studio can signal                                 *)

\* Only _spawn, the monitor of the current child and a restart change _process.
LEMMA ProcessEffects ==
  ASSUME [Next]_vars, ~SpawnsOne, ~Restart, UNCHANGED process => FALSE
  PROVE  \E c \in Children : MonitorReap(c) /\ process = c /\ process' = None
  <1> USE DEF engineVars
  <1>1. ASSUME NEW r \in Requests PROVE ~RequestBegins(r)
    BY DEF RequestBegins, Arm, StartRobot, StartOther, CallStop, StopEnter, Reset, ServerCommand
  <1>2. ASSUME NEW r \in Requests PROVE ~RequestContinues(r)
    BY DEF RequestContinues, ArmCheck, ArmIssue, BenchServer, Spawn, SpawnsOne,
       Record, ControlEnter, StopEnter, StopSignal, StopAfter, HaltEnter, HaltSignal,
       ResetMark, ResetSignal, ResetWait, ResetKill, ResetServer, ResetClear, ProcessAfterReset
  <1>3. ~Stopper /\ ~CloseRead /\ ~CloseMark /\ ~CloseSignal /\ ~CloseWait
    BY DEF Stopper, StopperStop, StopperClear, CloseRead, CloseMark, CloseSignal, CloseWait
  <1>4. ~World /\ ~UNCHANGED vars
    BY DEF World, Terminal, TokenExpires, ChildControl, ChildExit, vars
  <1>5. PICK c \in Children : MonitorMismatch(c) \/ Monitor(c)
    BY <1>1, <1>2, <1>3, <1>4 DEF Next, Service
  <1> QED
    BY <1>5 DEF Monitor, MonitorMismatch, MonitorSignal, MonitorReap, MonitorFinish, Owns

\* Every live child is the current one, after any step (runtime.py:544-553, 609).
LEMMA CurrentStep ==
  ASSUME TypeInv, LiveChildIsCurrent, [Next]_vars
  PROVE  LiveChildIsCurrent'
  <1> SUFFICES ASSUME NEW c \in Children, Live(c)' PROVE process' = c
    BY DEF LiveChildIsCurrent
  <1>1. CASE SpawnsOne
    <2>1. PICK r \in Requests, d \in Children : Spawn(r, d) /\ ~ProcessLive
      BY <1>1 DEF SpawnsOne
    <2>2. process' = d /\ \A e \in Children \ {d} : child'[e] = child[e]
      BY <2>1, SpawnEffects
    <2>3. \A e \in Children : ~Live(e)
      BY <2>1, NoneAssumption DEF LiveChildIsCurrent, ProcessLive
    <2> QED
      BY <2>2, <2>3 DEF Live
  <1>2. CASE ~SpawnsOne
    <2>1. Live(c)
      BY <1>2, ChildEffects DEF TypeInv, Fate, Live
    <2>2. process = c
      BY <2>1 DEF LiveChildIsCurrent
    <2>3. ~Restart
      <3>1. SUFFICES ASSUME Restart PROVE FALSE
        OBVIOUS
      <3>2. child'[c] = IF Live(c) THEN Exited(child[c], "error") ELSE child[c]
        BY <3>1 DEF Restart
      <3>3. child[c] \in ChildRecord
        BY DEF TypeInv, TypeOK
      <3> QED
        BY <3>2, <3>3, ExitedFields DEF Live, Codes
    <2>4. UNCHANGED process
      BY <1>2, <2>1, <2>2, <2>3, ProcessEffects DEF MonitorReap, Live
    <2> QED
      BY <2>2, <2>4
  <1> QED
    BY <1>1, <1>2

\* No child is ever lost track of, and two never run at once, whatever requests
\* stop, reset, halt, spawn or restart in between.
THEOREM LiveChildIsTracked == Spec => []LiveChildIsCurrent
  <1>1. Init => LiveChildIsCurrent
    BY DEF Init, LiveChildIsCurrent, Live, Unborn
  <1> QED
    BY <1>1, TypeInit, TypeStep, CurrentStep, PTL DEF Spec

-----------------------------------------------------------------------------
(* The state Studio shows                                                    *)

\* A step makes Studio idle, faulted or arming, leaves its state and child as
\* they are, or shows STOPPING for a live child.
LEMMA StateEffects ==
  ASSUME [Next]_vars, ~SpawnsOne
  PROVE  \/ state' \in {"IDLE", "FAULT", "ARMING"}
         \/ UNCHANGED <<state, process>>
         \/ state' = "STOPPING" /\ ProcessLive /\ UNCHANGED process
  <1> USE DEF engineVars
  <1>1. ASSUME NEW r \in Requests, StopEnter(r) \/ HaltEnter(r)
        PROVE  state' = "IDLE" \/ (state' = "STOPPING" /\ ProcessLive /\ UNCHANGED process)
    BY <1>1 DEF StopEnter, HaltEnter, StopState
  <1>2. ASSUME NEW r \in Requests, RequestBegins(r), ~StopEnter(r)
        PROVE  state' \in {"IDLE", "ARMING"} \/ UNCHANGED <<state, process>>
    BY <1>2 DEF RequestBegins, Arm, StartRobot, StartOther, CallStop, Reset, ServerCommand
  <1>3. ASSUME NEW r \in Requests, RequestContinues(r), ~StopEnter(r), ~HaltEnter(r)
        PROVE  state' \in {"IDLE", "ARMING"} \/ UNCHANGED <<state, process>>
    BY <1>3 DEF RequestContinues, ArmCheck, ArmIssue, BenchServer, Spawn, SpawnsOne,
       Record, ControlEnter, StopSignal, StopAfter, HaltSignal,
       ResetMark, ResetSignal, ResetWait, ResetKill, ResetServer, ResetClear
  <1>4. ASSUME NEW c \in Children, MonitorMismatch(c) \/ Monitor(c)
        PROVE  state' \in {"IDLE", "FAULT"} \/ UNCHANGED <<state, process>>
    BY <1>4 DEF Monitor, MonitorMismatch, MonitorSignal, MonitorReap, MonitorFinish
  <1>5. Stopper \/ CloseRead \/ CloseMark \/ CloseSignal \/ CloseWait
          => UNCHANGED <<state, process>>
    BY DEF Stopper, StopperStop, StopperClear, CloseRead, CloseMark, CloseSignal, CloseWait
  <1>6. Restart => state' = "IDLE"
    BY DEF Restart
  <1>7. World \/ UNCHANGED vars => UNCHANGED <<state, process>>
    BY DEF World, Terminal, TokenExpires, ChildControl, ChildExit, vars
  <1> QED
    BY <1>1, <1>2, <1>3, <1>4, <1>5, <1>6, <1>7 DEF Next, Service

\* A busy state stays backed by the child it stands for.
LEMMA BusyStep ==
  ASSUME TypeInv, BusyIsBacked, [Next]_vars
  PROVE  BusyIsBacked'
  <1>1. CASE SpawnsOne
    <2>1. PICK r \in Requests, c \in Children : Spawn(r, c) /\ ~ProcessLive
      BY <1>1 DEF SpawnsOne
    <2>2. process' = c /\ state' = StateOf[request[r].kind] /\ child'[c].kind = request[r].kind
      BY <2>1, SpawnEffects
    <2> QED
      BY <2>2, NoneAssumption DEF BusyIsBacked
  <1>2. CASE ~SpawnsOne
    <2>1. CASE state' \in {"IDLE", "FAULT", "ARMING"}
      BY <2>1 DEF BusyIsBacked, ActiveStates
    <2>2. CASE UNCHANGED <<state, process>>
      <3>1. process # None => child'[process].kind = child[process].kind
        BY <1>2, ChildEffects DEF TypeInv, TypeOK, Fate
      <3> QED
        BY <2>2, <3>1 DEF BusyIsBacked
    <2>3. CASE state' = "STOPPING" /\ ProcessLive /\ UNCHANGED process
      BY <2>3 DEF BusyIsBacked, ProcessLive, ActiveStates
    <2> QED
      BY <1>2, <2>1, <2>2, <2>3, StateEffects
  <1> QED
    BY <1>1, <1>2

\* Studio never shows, and never refuses work because of, a run that is over and
\* reaped: a busy state has a current child of its kind.
THEOREM BusyBacked == Spec => []BusyIsBacked
  <1>1. Init => BusyIsBacked
    BY DEF Init, BusyIsBacked, ActiveStates
  <1> QED
    BY <1>1, TypeInit, TypeStep, BusyStep, PTL DEF Spec

-----------------------------------------------------------------------------
(* Rows of the run table                                                     *)

\* Only a child that has exited has an exit code.
CodeOfTheDead == \A c \in Children : child[c].phase # "exited" => child[c].code = None

\* A child gets its exit code when it exits.
LEMMA CodeStep ==
  ASSUME TypeInv, CodeOfTheDead, [Next]_vars
  PROVE  CodeOfTheDead'
  <1>1. CASE SpawnsOne
    <2>1. PICK r \in Requests, c \in Children : Spawn(r, c) /\ ~ProcessLive
      BY <1>1 DEF SpawnsOne
    <2> QED
      BY <2>1, SpawnEffects DEF CodeOfTheDead
  <1>2. CASE ~SpawnsOne
    BY <1>2, ChildEffects DEF TypeInv, Fate, Live, CodeOfTheDead
  <1> QED
    BY <1>1, <1>2

\* A row becomes completed only when its child's monitor finds exit code 0.
LEMMA RunEffects ==
  ASSUME TypeInv, [Next]_vars, NEW w \in Rows, runs'[w] = "completed", runs[w] # "completed"
  PROVE  \E c \in Children : child[c].row = w /\ child[c].code = "zero"
  <1>1. ASSUME NEW r \in Requests PROVE ~RequestBegins(r)
    BY <1>1 DEF RequestBegins, Arm, StartRobot, StartOther, CallStop, StopEnter, Reset,
       ServerCommand
  <1>2. ASSUME NEW r \in Requests, NEW v \in Rows PROVE ~Record(r, v)
    BY DEF Record, TypeInv, TypeOK
  <1>3. ASSUME NEW r \in Requests PROVE ~RequestContinues(r)
    BY <1>2 DEF RequestContinues, ArmCheck, ArmIssue, BenchServer, Spawn, ControlEnter,
       StopEnter, StopSignal, StopAfter, HaltEnter, HaltSignal,
       ResetMark, ResetSignal, ResetWait, ResetKill, ResetServer, ResetClear
  <1>4. ~Stopper /\ ~Service
    BY DEF Stopper, StopperStop, StopperClear, Service, CloseRead, CloseMark, CloseSignal,
       CloseWait, Restart
  <1>5. ~World /\ ~UNCHANGED vars
    BY DEF World, Terminal, TokenExpires, ChildControl, ChildExit, vars
  <1>6. PICK c \in Children : MonitorMismatch(c) \/ Monitor(c)
    BY <1>1, <1>3, <1>4, <1>5 DEF Next
  <1>7. MonitorFinish(c)
    BY <1>6 DEF Monitor, MonitorMismatch, MonitorSignal, MonitorReap
  <1>8. PICK status \in RowStatus :
          /\ status = "completed" => child[c].code = "zero"
          /\ runs' = [runs EXCEPT ![child[c].row] = status]
    BY <1>7 DEF MonitorFinish, CodeStatus, RowStatus, TypeInv, TypeOK, Terminations
  <1> QED
    BY <1>8 DEF TypeInv, TypeOK

\* A completed row keeps its witness.
LEMMA CompletedStep ==
  ASSUME TypeInv, CodeOfTheDead, CompletedRunExitedZero, [Next]_vars
  PROVE  CompletedRunExitedZero'
  <1> SUFFICES ASSUME NEW w \in Rows, runs'[w] = "completed"
               PROVE  \E c \in Children : child'[c].row = w /\ child'[c].code = "zero"
    BY DEF CompletedRunExitedZero
  <1>1. PICK c \in Children : child[c].row = w /\ child[c].code = "zero"
    BY RunEffects DEF CompletedRunExitedZero
  <1>2. child[c].phase = "exited"
    BY <1>1, NoneAssumption DEF CodeOfTheDead, Codes
  <1>3. CASE SpawnsOne
    BY <1>1, <1>2, <1>3, SpawnEffects DEF SpawnsOne
  <1>4. CASE ~SpawnsOne
    BY <1>1, <1>2, <1>4, ChildEffects DEF TypeInv, Fate, Live
  <1> QED
    BY <1>3, <1>4

\* A run is recorded as completed only if a child of that row exited with 0,
\* however the terminations of neighbouring runs interleave.
THEOREM CompletedExitedZero == Spec => []CompletedRunExitedZero
  <1>1. Init => CodeOfTheDead /\ CompletedRunExitedZero
    BY DEF Init, CodeOfTheDead, CompletedRunExitedZero, Unborn
  <1> QED
    BY <1>1, TypeInit, TypeStep, CodeStep, CompletedStep, PTL DEF Spec

-----------------------------------------------------------------------------
(* The service's own termination                                             *)

\* The child close() read was a running one.
CloseReadAChild == main.for # None => child[main.for].phase # "unborn"

\* Only the service thread moves in close().
LEMMA MainEffects ==
  ASSUME [Next]_vars
  PROVE  Service \/ UNCHANGED main
  <1>1. ASSUME NEW r \in Requests, RequestBegins(r) PROVE UNCHANGED main
    BY <1>1 DEF RequestBegins, Arm, StartRobot, StartOther, CallStop, StopEnter, Reset,
       ServerCommand, threadVars
  <1>2. ASSUME NEW r \in Requests, RequestContinues(r) PROVE UNCHANGED main
    BY <1>2 DEF RequestContinues, ArmCheck, ArmIssue, BenchServer, Record, Spawn, ControlEnter,
       StopEnter, StopSignal, StopAfter, HaltEnter, HaltSignal,
       ResetMark, ResetSignal, ResetWait, ResetKill, ResetServer, ResetClear
  <1>3. ASSUME NEW c \in Children, MonitorMismatch(c) \/ Monitor(c) PROVE UNCHANGED main
    BY <1>3 DEF Monitor, MonitorMismatch, MonitorSignal, MonitorReap, MonitorFinish
  <1>4. Stopper \/ World \/ UNCHANGED vars => UNCHANGED main
    BY DEF Stopper, StopperStop, StopperClear, World, Terminal, TokenExpires, ChildControl,
       ChildExit, threadVars, vars
  <1> QED
    BY <1>1, <1>2, <1>3, <1>4 DEF Next

\* close() signals the child it read, if that is still alive.
LEMMA CloseStep ==
  ASSUME TypeInv, LiveChildIsCurrent, CloseReadAChild, CloseHaltsItsChild, [Next]_vars
  PROVE  CloseReadAChild' /\ CloseHaltsItsChild'
  <1> USE DEF TypeInv, TypeOK
  <1>1. CASE UNCHANGED main
    <2>1. CASE main.for = None
      BY <1>1, <2>1 DEF CloseReadAChild, CloseHaltsItsChild
    <2>2. CASE main.for # None
      <3>1. main.for \in Children /\ child[main.for].phase # "unborn"
        BY <2>2 DEF CloseReadAChild
      <3>2. CASE SpawnsOne
        <4>1. child'[main.for] = child[main.for]
          BY <3>1, <3>2, SpawnEffects DEF SpawnsOne
        <4> QED
          BY <1>1, <4>1 DEF CloseReadAChild, CloseHaltsItsChild, Live
      <3>3. CASE ~SpawnsOne
        <4>1. Fate(main.for)
          BY <3>1, <3>3, ChildEffects
        <4> QED
          BY <1>1, <3>1, <4>1 DEF CloseReadAChild, CloseHaltsItsChild, Live, Fate
      <3> QED
        BY <3>2, <3>3
    <2> QED
      BY <2>1, <2>2
  <1>2. CASE CloseRead
    BY <1>2 DEF CloseRead, worldVars, CloseReadAChild, CloseHaltsItsChild, ProcessLive, Live
  <1>3. CASE CloseMark
    BY <1>3 DEF CloseMark, worldVars, CloseReadAChild, CloseHaltsItsChild
  <1>4. CASE CloseSignal
    <2>1. CASE main.for = None
      BY <1>4, <2>1 DEF CloseSignal, CloseReadAChild, CloseHaltsItsChild
    <2>2. CASE main.for \in Children
      <3>1. main'.for = main.for /\ Fate(main.for)
        BY <1>4, <2>2, SignalFate DEF CloseSignal
      <3>2. CASE Live(main.for)
        <4>1. process = main.for /\ ProcessLive
          BY <2>2, <3>2, NoneAssumption DEF LiveChildIsCurrent, ProcessLive
        <4>2. "USR1" \in child'[main.for].sigs
          BY <1>4, <2>2, <4>1 DEF CloseSignal, Signal, CloseSig, ChildRecord
        <4> QED
          BY <3>1, <3>2, <4>2 DEF CloseReadAChild, CloseHaltsItsChild, Fate, Live
      <3>3. CASE ~Live(main.for)
        BY <3>1, <3>3 DEF CloseReadAChild, CloseHaltsItsChild, Fate, Live
      <3> QED
        BY <3>2, <3>3
    <2> QED
      BY <2>1, <2>2
  <1>5. CASE CloseWait
    <2>1. main'.for = main.for /\ (main.for # None => Fate(main.for))
      BY <1>5, KillFate DEF CloseWait
    <2> QED
      BY <1>5, <2>1 DEF CloseWait, CloseReadAChild, CloseHaltsItsChild, Fate, Live
  <1>6. CASE Restart
    BY <1>6 DEF Restart, Serving, CloseReadAChild, CloseHaltsItsChild
  <1> QED
    BY <1>1, <1>2, <1>3, <1>4, <1>5, <1>6, MainEffects DEF Service

\* The child that close() found alive has had SIGUSR1 by the time close() waits,
\* whatever the request threads still running did in between.
THEOREM CloseHalts == Spec => []CloseHaltsItsChild
  <1>1. Init => LiveChildIsCurrent /\ CloseReadAChild /\ CloseHaltsItsChild
    BY DEF Init, LiveChildIsCurrent, CloseReadAChild, CloseHaltsItsChild, Live, Unborn, Serving
  <1> QED
    BY <1>1, TypeInit, TypeStep, CurrentStep, CloseStep, PTL DEF Spec

-----------------------------------------------------------------------------
(* Arming                                                                    *)

\* A robot request or child carries a token it spent, issued for its
\* configuration; any other carries none.
Carries(x) ==
    IF x.kind = "robot"
    THEN x.token \in Tokens /\ armTokens[x.token] = [status |-> "spent", config |-> x.config]
    ELSE x.token = None

\* No token is carried twice, by requests on their way to _spawn or by children.
ArmedInv ==
    /\ \A r \in Requests :
         /\ Carries(request[r])
         /\ request[r].kind = "robot" => request[r].at \in {"record", "spawn"}
         /\ \A q \in Requests \ {r} :
              request[r].kind = "robot" => request[q].token # request[r].token
         /\ \A c \in Children :
              request[r].kind = "robot" => child[c].token # request[r].token
    /\ \A c \in Children :
         /\ Carries(child[c])
         /\ \A d \in Children \ {c} :
              child[c].kind = "robot" => child[d].token # child[c].token

SpentKept ==
    \A t \in Tokens : armTokens[t].status = "spent" => armTokens'[t] = armTokens[t]

\* A request keeps what it carries, on its way to _spawn, or carries nothing.
Keeps(r) ==
    \/ /\ request'[r].kind = request[r].kind
       /\ request'[r].token = request[r].token
       /\ request'[r].config = request[r].config
       /\ request'[r].kind = "robot" => request'[r].at \in {"record", "spawn"}
    \/ request'[r].kind # "robot" /\ request'[r].token = None

StartsRobot == \E r \in Requests, t \in Tokens, cfg \in Configs :
                   StartRobot(r, t, cfg) /\ TokenValid(t, cfg)

\* What a token was spent on is remembered: no step forgets or respends it.
LEMMA TokensKept ==
  ASSUME TypeInv, [Next]_vars
  PROVE  SpentKept
  <1> USE DEF TypeInv, TypeOK, SpentKept, engineVars
  <1>1. CASE UNCHANGED armTokens
    BY <1>1
  <1>2. CASE armTokens' = ClearedTokens
    BY <1>2 DEF ClearedTokens
  <1>3. ASSUME NEW r \in Requests, NEW t \in Tokens, NEW cfg \in Configs, StartRobot(r, t, cfg)
        PROVE  SpentKept
    BY <1>3 DEF StartRobot, TokenValid
  <1>4. ASSUME NEW r \in Requests, NEW t \in Tokens, ArmIssue(r, t) PROVE SpentKept
    BY <1>4 DEF ArmIssue
  <1>5. ASSUME NEW t \in Tokens, TokenExpires(t) PROVE SpentKept
    BY <1>5 DEF TokenExpires
  <1> HIDE DEF TypeInv, TypeOK, SpentKept
  <1>6. ASSUME NEW r \in Requests, RequestBegins(r) PROVE SpentKept
    BY <1>1, <1>2, <1>3, <1>6 DEF RequestBegins, Arm, StartOther, CallStop, StopEnter, Reset,
       ServerCommand
  <1>7. ASSUME NEW r \in Requests, RequestContinues(r) PROVE SpentKept
    BY <1>1, <1>2, <1>4, <1>7 DEF RequestContinues, ArmCheck, BenchServer, Record, Spawn,
       ControlEnter, StopEnter, StopSignal, StopAfter, HaltEnter, HaltSignal,
       ResetMark, ResetSignal, ResetWait, ResetKill, ResetServer, ResetClear
  <1>8. ASSUME NEW c \in Children, MonitorMismatch(c) \/ Monitor(c) PROVE SpentKept
    BY <1>1, <1>8 DEF Monitor, MonitorMismatch, MonitorSignal, MonitorReap, MonitorFinish
  <1>9. CASE Stopper \/ Service
    BY <1>1, <1>2, <1>9 DEF Stopper, StopperStop, StopperClear, Service, CloseRead, CloseMark,
       CloseSignal, CloseWait, Restart
  <1>10. CASE World \/ UNCHANGED vars
    BY <1>1, <1>5, <1>10 DEF World, Terminal, ChildControl, ChildExit, vars
  <1> QED
    BY <1>6, <1>7, <1>8, <1>9, <1>10 DEF Next

\* Moving on, finishing and taking on other work never take over a robot run.
LEMMA GotoKeeps ==
  ASSUME TypeInv, ArmedInv, NEW q \in Requests, NEW point, Goto(q, point),
         request[q].at \notin {"record", "spawn"}, NEW r \in Requests
  PROVE  Keeps(r)
  BY DEF TypeInv, TypeOK, RequestRecord, ArmedInv, Goto, Keeps

\* An answered request carries nothing.
LEMMA DoneKeeps ==
  ASSUME TypeInv, ArmedInv, NEW q \in Requests, Done(q), NEW r \in Requests
  PROVE  Keeps(r)
  BY NoneAssumption DEF TypeInv, TypeOK, ArmedInv, Done, Keeps, IdleRequest, Kinds

\* Nor does one that takes on other work; a recorded run keeps its token.
LEMMA OtherKeeps ==
  ASSUME TypeInv, ArmedInv, NEW q \in Requests, NEW new \in RequestRecord,
         new.kind # "robot" \/ (new.kind = request[q].kind /\ new.config = request[q].config
                                 /\ new.at \in {"record", "spawn"}),
         new.token = request[q].token, request[q].kind # "robot" \/ new.kind = "robot",
         request' = [request EXCEPT ![q] = new], NEW r \in Requests
  PROVE  Keeps(r)
  BY DEF TypeInv, TypeOK, ArmedInv, Carries, Keeps

\* Every request keeps what it carries, unless a valid token is spent.
LEMMA RequestsKeep ==
  ASSUME TypeInv, ArmedInv, [Next]_vars, ~StartsRobot, NEW r \in Requests
  PROVE  Keeps(r)
  <1>1. CASE UNCHANGED request
    BY <1>1 DEF Keeps, ArmedInv
  <1>2. \A q \in Requests : request[q] \in RequestRecord
    BY DEF TypeInv, TypeOK
  <1>3. \A q \in Requests : request[q].at \notin {"record", "spawn"} => request[q].kind # "robot"
    BY DEF ArmedInv
  <1>4. ASSUME NEW q \in Requests, RequestBegins(q) PROVE Keeps(r)
    <2>1. ASSUME NEW cfg \in Configs, Arm(q, cfg) PROVE Keeps(r)
      <3> DEFINE new == Configured(request[q], "arm_check", cfg)
      <3>1. /\ new \in RequestRecord /\ new.kind = request[q].kind
            /\ new.token = request[q].token
        <4>1. "arm_check" \in RequestPoints
          BY DEF RequestPoints
        <4> QED
          BY <1>2, <4>1, ConfigUpdate
      <3>2. request[q].kind # "robot" /\ request' = [request EXCEPT ![q] = new]
        BY <1>3, <2>1 DEF Arm, Begin, Configured
      <3> HIDE DEF new
      <3> QED
        BY <3>1, <3>2, OtherKeeps
    <2>2. ASSUME NEW t \in Tokens, NEW cfg \in Configs, StartRobot(q, t, cfg) PROVE Keeps(r)
      BY <1>1, <2>2 DEF StartRobot, StartsRobot
    <2>3. ASSUME NEW k \in Kinds \ {"robot"}, StartOther(q, k) PROVE Keeps(r)
      <3> DEFINE new == OfKind(request[q], IF k = "benchmark" THEN "bench_server" ELSE "spawn", k)
      <3>0. k \in Kinds /\ "bench_server" \in RequestPoints /\ "spawn" \in RequestPoints
        BY DEF RequestPoints
      <3>1. new \in RequestRecord /\ new.kind = k /\ new.token = request[q].token
        BY <1>2, <3>0, KindUpdate
      <3>2. request[q].kind # "robot" /\ request' = [request EXCEPT ![q] = new]
        BY <1>3, <2>3 DEF StartOther, Begin, OfKind
      <3> HIDE DEF new
      <3> QED
        BY <3>1, <3>2, OtherKeeps
    <2>4. CASE Reset(q)
      <3> DEFINE new == Waiting(request[q], "reset_mark", process)
      <3>1. /\ new \in RequestRecord /\ new.kind = request[q].kind
            /\ new.token = request[q].token
        <4>1. "reset_mark" \in RequestPoints
          BY DEF RequestPoints
        <4> QED
          BY <1>2, <4>1, SeenChild, ForUpdate DEF TypeInv
      <3>2. request[q].kind # "robot" /\ request' = [request EXCEPT ![q] = new]
        BY <1>3, <2>4 DEF Reset, Begin, Waiting
      <3> HIDE DEF new
      <3> QED
        BY <3>1, <3>2, OtherKeeps
    <2>5. ASSUME NEW op \in {"control", "halt"}, CallStop(q, op) PROVE Keeps(r)
      BY <2>5, GotoKeeps DEF CallStop, Begin
    <2>6. CASE Begin(q, "stop") /\ StopEnter(q)
      BY <2>6, GotoKeeps, DoneKeeps DEF StopEnter, AfterStop, Begin
    <2>7. CASE ServerCommand(q)
      BY <1>1, <2>7 DEF ServerCommand, threadVars
    <2> QED
      BY <1>4, <2>1, <2>2, <2>3, <2>4, <2>5, <2>6, <2>7 DEF RequestBegins
  <1>5. ASSUME NEW q \in Requests, RequestContinues(q) PROVE Keeps(r)
    <2>1. CASE ArmCheck(q)
      BY <2>1, GotoKeeps, DoneKeeps DEF ArmCheck
    <2>2. ASSUME NEW t \in Tokens, ArmIssue(q, t) PROVE Keeps(r)
      BY <2>2, DoneKeeps DEF ArmIssue
    <2>3. CASE BenchServer(q)
      BY <2>3, GotoKeeps, DoneKeeps DEF BenchServer
    <2>4. ASSUME NEW w \in Rows, Record(q, w) PROVE Keeps(r)
      <3> DEFINE new == OnRow(request[q], "spawn", w)
      <3>1. /\ new \in RequestRecord /\ new.kind = request[q].kind /\ new.at = "spawn"
            /\ new.token = request[q].token /\ new.config = request[q].config
        <4>1. "spawn" \in RequestPoints
          BY DEF RequestPoints
        <4> QED
          BY <1>2, <4>1, RowUpdate
      <3>2. request' = [request EXCEPT ![q] = new]
        BY <2>4 DEF Record, OnRow
      <3> HIDE DEF new
      <3> QED
        BY <3>1, <3>2, OtherKeeps
    <2>5. ASSUME NEW c \in Children, Spawn(q, c) PROVE Keeps(r)
      BY <2>5, DoneKeeps DEF Spawn
    <2>6. CASE ControlEnter(q)
      <3> DEFINE new == Controls(request[q], "stop_enter", IF ProcessLive THEN process ELSE None)
      <3>1. new \in RequestRecord /\ new.kind = "control" /\ new.token = request[q].token
        <4>1. "stop_enter" \in RequestPoints
          BY DEF RequestPoints
        <4> QED
          BY <1>2, <4>1, SeenChild, ControlUpdate DEF TypeInv
      <3>2. Done(q) \/ (request[q].kind # "robot" /\ request' = [request EXCEPT ![q] = new])
        BY <1>3, <2>6 DEF ControlEnter, Controls
      <3> HIDE DEF new
      <3> QED
        BY <3>1, <3>2, OtherKeeps, DoneKeeps
    <2>7. CASE StopEnter(q)
      BY <2>7, GotoKeeps, DoneKeeps DEF StopEnter, AfterStop, Begin
    <2>8. CASE StopSignal(q) \/ StopAfter(q) \/ HaltEnter(q) \/ HaltSignal(q)
      BY <2>8, GotoKeeps, DoneKeeps DEF StopSignal, AfterStop, StopAfter, HaltEnter, HaltNext,
         HaltSignal
    <2>9. CASE ResetMark(q) \/ ResetSignal(q) \/ ResetWait(q) \/ ResetKill(q)
                 \/ ResetServer(q) \/ ResetClear(q)
      BY <2>9, GotoKeeps, DoneKeeps DEF ResetMark, ResetSignal, ResetWait, ResetKill,
         ResetServer, ResetClear
    <2> QED
      BY <1>5, <2>1, <2>2, <2>3, <2>4, <2>5, <2>6, <2>7, <2>8, <2>9 DEF RequestContinues
  <1>6. ASSUME NEW c \in Children, MonitorMismatch(c) \/ Monitor(c) PROVE Keeps(r)
    BY <1>1, <1>6 DEF Monitor, MonitorMismatch, MonitorSignal, MonitorReap, MonitorFinish
  <1>7. CASE Stopper \/ CloseRead \/ CloseMark \/ CloseSignal \/ CloseWait
    BY <1>1, <1>7 DEF Stopper, StopperStop, StopperClear, CloseRead, CloseMark, CloseSignal,
       CloseWait
  <1>8. CASE Restart
    BY <1>8, NoneAssumption DEF Restart, Keeps, IdleRequest, Kinds
  <1>9. CASE World \/ UNCHANGED vars
    BY <1>1, <1>9 DEF World, Terminal, TokenExpires, ChildControl, ChildExit, threadVars, vars
  <1> QED
    BY <1>4, <1>5, <1>6, <1>7, <1>8, <1>9 DEF Next, Service

\* No step makes a robot child, or a request for one, without a token of its own.
LEMMA ArmedStep ==
  ASSUME TypeInv, ArmedInv, [Next]_vars
  PROVE  ArmedInv'
  <1>t. SpentKept
    BY TokensKept
  <1>1. CASE StartsRobot
    <2>1. PICK p \in Requests, t \in Tokens, cfg \in Configs :
            StartRobot(p, t, cfg) /\ TokenValid(t, cfg)
      BY <1>1 DEF StartsRobot
    <2>2. /\ armTokens[t] = [status |-> "fresh", config |-> cfg]
          /\ armTokens' = [armTokens EXCEPT ![t].status = "spent"]
          /\ child' = child
      BY <2>1 DEF StartRobot, TokenValid, worldVars
    <2>3. armTokens'[t] = [status |-> "spent", config |-> cfg]
      BY <2>2 DEF TypeInv, TypeOK
    <2>4. /\ request'[p].at = "record" /\ request'[p].kind = "robot"
          /\ request'[p].config = cfg /\ request'[p].token = t
          /\ \A q \in Requests \ {p} : request'[q] = request[q]
      BY <2>1 DEF StartRobot, TypeInv, TypeOK
    <2>5. /\ \A q \in Requests : request[q].token # t
          /\ \A c \in Children : child[c].token # t
      <3>1. armTokens[t].status = "fresh" /\ t # None
        BY <2>2, NoneAssumption
      <3>2. ASSUME NEW x, Carries(x) PROVE x.token # t
        <4>1. CASE x.kind = "robot"
          <5>1. armTokens[x.token].status = "spent"
            BY <3>2, <4>1 DEF Carries
          <5> QED
            BY <3>1, <5>1
        <4>2. CASE x.kind # "robot"
          BY <3>1, <3>2, <4>2 DEF Carries
        <4> QED
          BY <4>1, <4>2
      <3> QED
        BY <3>2 DEF ArmedInv
    <2>6. /\ \A q \in Requests : Carries(request[q])'
          /\ \A c \in Children : Carries(child[c])'
      BY <1>t, <2>2, <2>3, <2>4 DEF ArmedInv, Carries, SpentKept
    <2> QED
      BY <2>2, <2>4, <2>5, <2>6 DEF ArmedInv
  <1>2. CASE ~StartsRobot /\ SpawnsOne
    <2>1. PICK p \in Requests, c \in Children : Spawn(p, c) /\ ~ProcessLive
      BY <1>2 DEF SpawnsOne
    <2>2. /\ request'[p].kind = None /\ request'[p].token = None
          /\ \A q \in Requests \ {p} : request'[q] = request[q]
      BY <2>1 DEF Spawn, Done, IdleRequest, TypeInv, TypeOK
    <2>3. /\ child'[c].kind = request[p].kind /\ child'[c].token = request[p].token
          /\ child'[c].config = request[p].config
          /\ \A d \in Children \ {c} : child'[d] = child[d]
      BY <2>1, SpawnEffects
    <2>4. None # "robot" /\ None \notin Tokens
      BY NoneAssumption DEF Kinds
    <2>5. \A q \in Requests : Carries(request[q])'
      BY <1>t, <2>2, <2>4 DEF ArmedInv, Carries, SpentKept
    <2>6. \A d \in Children : Carries(child[d])'
      BY <1>t, <2>3 DEF ArmedInv, Carries, SpentKept
    <2>7. \A q \in Requests \ {p} : \A d \in Children :
            request[q].kind = "robot" => child'[d].token # request[q].token
      BY <2>3 DEF ArmedInv
    <2>8. ASSUME NEW d \in Children, NEW e \in Children \ {d}, child'[d].kind = "robot"
          PROVE  child'[e].token # child'[d].token
      <3>1. CASE d = c
        BY <2>3, <2>8, <3>1 DEF ArmedInv
      <3>2. CASE e = c
        <4>1. child[d].kind = "robot" /\ child[d].token \in Tokens /\ child'[d] = child[d]
          <5>1. child'[d] = child[d]
            BY <2>3, <3>2
          <5>2. child[d].kind = "robot" /\ Carries(child[d])
            BY <2>8, <5>1 DEF ArmedInv
          <5> QED
            BY <5>1, <5>2 DEF Carries
        <4>2. CASE request[p].kind = "robot"
          <5>1. child[d].token # request[p].token
            BY <4>2 DEF ArmedInv
          <5> QED
            BY <2>3, <3>2, <4>1, <5>1
        <4>3. CASE request[p].kind # "robot"
          <5>1. request[p].token = None
            BY <4>3 DEF ArmedInv, Carries
          <5>2. child'[e].token = None /\ child'[d].token \in Tokens
            BY <2>3, <3>2, <4>1, <5>1
          <5> QED
            BY <2>4, <5>2
        <4> QED
          BY <4>2, <4>3
      <3>3. CASE d # c /\ e # c
        BY <2>3, <2>8, <3>3 DEF ArmedInv
      <3> QED
        BY <3>1, <3>2, <3>3
    <2>9. ASSUME NEW q \in Requests, NEW o \in Requests \ {q}, request'[q].kind = "robot"
          PROVE  request'[o].token # request'[q].token
      <3>1. q # p /\ request'[q] = request[q] /\ request[q].token \in Tokens
        BY <2>2, <2>4, <2>9 DEF ArmedInv, Carries
      <3> QED
        BY <2>2, <2>4, <2>9, <3>1 DEF ArmedInv
    <2> QED
      BY <2>2, <2>4, <2>5, <2>6, <2>7, <2>8, <2>9 DEF ArmedInv
  <1>3. CASE ~StartsRobot /\ ~SpawnsOne
    <2>1. \A r \in Requests : Keeps(r)
      BY <1>3, RequestsKeep
    <2>2. \A c \in Children : Fate(c)
      BY <1>3, ChildEffects DEF TypeInv
    <2>3. \A c \in Children : Carries(child[c])'
      BY <1>t, <2>2 DEF ArmedInv, Carries, SpentKept, Fate
    <2>4. \A r \in Requests : Carries(request[r])'
      BY <1>t, <2>1 DEF ArmedInv, Carries, SpentKept, Keeps
    <2>5. None \notin Tokens
      BY NoneAssumption
    <2>6. ASSUME NEW r \in Requests, request'[r].kind = "robot"
          PROVE  /\ request'[r].at \in {"record", "spawn"}
                 /\ request[r].kind = "robot" /\ request'[r].token = request[r].token
                 /\ request[r].token \in Tokens
      BY <2>1, <2>6 DEF Keeps, ArmedInv, Carries
    <2>7. \A r \in Requests : request'[r].token \in {request[r].token, None}
      BY <2>1 DEF Keeps
    <2> QED
      BY <2>2, <2>3, <2>4, <2>5, <2>6, <2>7 DEF ArmedInv, Fate
  <1> QED
    BY <1>1, <1>2, <1>3

\* Robot motion always comes from an arming: each robot child ever spawned spent
\* a token of its own, issued for exactly its configuration.
THEOREM RobotArmed == Spec => []RobotWasArmed
  <1>1. Init => ArmedInv
    <2>1. None # "robot"
      BY NoneAssumption DEF Kinds
    <2> QED
      BY <2>1 DEF Init, ArmedInv, Carries, IdleRequest, Unborn
  <1>2. TypeInv /\ ArmedInv => RobotWasArmed
    BY NoneAssumption DEF ArmedInv, Carries, RobotWasArmed
  <1> QED
    BY <1>1, <1>2, TypeInit, TypeStep, ArmedStep, PTL DEF Spec
=============================================================================
