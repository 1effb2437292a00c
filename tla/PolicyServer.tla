---------------------------- MODULE PolicyServer ----------------------------
(***************************************************************************)
(* polima-server (native/src/server_main.cpp) with the clients of          *)
(* polima.wire.client: one process, one thread, one connection at a time,  *)
(* every request in the same buffers.  The server reads each tensor of a   *)
(* request straight into the plan's input buffer, runs the plan of its     *)
(* bundle a step at a time, answers, and takes the next connection from    *)
(* the kernel's backlog.  A client may stop sending, time out or close at  *)
(* any moment; the server may be told to stop, or be killed, at any moment *)
(* and is started again with any bundle.                                   *)
(***************************************************************************)
EXTENDS PlanTrace, StubPlan

CONSTANTS Requests,   \* the connections made over the run, each for one request
          Ids,        \* request ids; two clients may draw the same one
          Backlog,    \* listen_on's backlog, 4 in the code
          None

ASSUME ServerAssumption == Backlog \in Nat \ {0} /\ None \notin Policies \cup Ids \cup Requests

VARIABLES server,     \* where the process is, its bundle, the connection it serves
          running,    \* g_running
          data,       \* the plan's buffers, cell by cell
          queue,      \* connections the kernel holds for accept()
          conn        \* every connection, as its client sees it

vars == <<server, running, data, queue, conn>>

\* "down"; "load": constructing the plan; "test": while (g_running); "enter": before accept() blocks; "accept":
\* blocked in it; "header", "slots": reading; "execute": before step `step';
\* "reply", "result": writing; "error": in the catch block; "close".
Points == {"down", "load", "test", "enter", "accept", "header", "slots", "execute",
           "reply", "result", "error", "close"}

Down == [at |-> "down", bundle |-> None, conn |-> None, step |-> 0, header |-> FALSE]

\* A client's connection.  "open" until the client has its answer or gives up.  `asks'
\* is the policy the client speaks, `sick' whether a tensor it sends is not finite;
\* `reply' and `result' are what reached it; `shut': the server closed its end.
NoRequest == [at |-> "new", asks |-> None, id |-> None, sick |-> FALSE,
              reply |-> None, result |-> None, shut |-> FALSE]

Sizes   == Buffers[server.bundle]
Plan    == Steps[server.bundle]
Serving == conn[server.conn]
Open(q) == conn[q].at = "open"

Init ==
    /\ server = Down
    /\ running = FALSE
    /\ data = <<>>
    /\ queue = <<>>
    /\ conn = [q \in Requests |-> NoRequest]

\* What is left of a request without an answer when both ends are closed.
Lost == [NoRequest EXCEPT !.at = "failed", !.shut = TRUE]
ShutBy(c) == IF c.at = "failed" THEN Lost ELSE [c EXCEPT !.shut = TRUE]
FailedBy(c) == IF c.shut THEN Lost ELSE [c EXCEPT !.at = "failed"]

Goto(point) == server' = [server EXCEPT !.at = point]

------------------------------------------------------------------------------
(* Start and stop *)

Start(bundle) ==
    /\ server.at = "down" /\ bundle \in Packed
    /\ server' = [Down EXCEPT !.at = "load", !.bundle = bundle]
    /\ running' = TRUE
    /\ UNCHANGED <<data, queue, conn>>

\* The process is gone; the kernel resets what it had accepted or queued.
Gone ==
    /\ server' = Down
    /\ running' = FALSE
    /\ data' = <<>>
    /\ queue' = <<>>
    /\ conn' = [q \in Requests |-> IF conn[q].at = "new" THEN conn[q] ELSE ShutBy(conn[q])]

\* The plan is decoded, its buffers allocated and zeroed, the signal handlers installed
\* and the port opened.  With a plan that does not load the process exits.
Load ==
    /\ server.at = "load"
    /\ IF server.bundle \in Loaded
       THEN /\ Goto("test")
            /\ data' = [b \in DOMAIN Sizes |-> [i \in Indices(Sizes[b]) |-> Unset]]
            /\ UNCHANGED <<running, queue, conn>>
       ELSE Gone

\* SIGTERM or SIGINT, which end a process that is still loading.  A blocked accept() or recv() fails with EINTR (there is no
\* SA_RESTART); anywhere else, just before accept() blocks included, only the flag
\* is cleared.
Signal ==
    /\ server.at \notin {"down", "load"}
    /\ running' = FALSE
    /\ \/ UNCHANGED server /\ server.at # "accept"
       \/ server.at = "accept" /\ Goto("test")
       \/ server.at \in {"header", "slots"} /\ Goto("error")
    /\ UNCHANGED <<data, queue, conn>>

Kill == server.at # "down" /\ Gone

\* while (g_running).
Test ==
    /\ server.at = "test"
    /\ \/ running /\ Goto("enter") /\ UNCHANGED <<running, data, queue, conn>>
       \/ ~running /\ Gone

------------------------------------------------------------------------------
(* One connection *)

Block ==
    /\ server.at = "enter" /\ queue = <<>>
    /\ Goto("accept")
    /\ UNCHANGED <<running, data, queue, conn>>

Accept ==
    /\ server.at \in {"enter", "accept"} /\ queue # <<>>
    /\ server' = [server EXCEPT !.at = "header", !.conn = Head(queue), !.header = FALSE]
    /\ queue' = Tail(queue)
    /\ UNCHANGED <<running, data, conn>>

\* The magic and the version are the bundle's, or the request is refused.
ReadHeader ==
    /\ server.at = "header"
    /\ server' = [server EXCEPT !.header = TRUE, !.step = 1,
                                !.at = IF Serving.asks = server.bundle THEN "slots" ELSE "error"]
    /\ UNCHANGED <<running, data, queue, conn>>

\* The first n elements of tensor b of the request being read.
Received(b, n) ==
    [data EXCEPT ![b] =
       [i \in DOMAIN @ |->
          IF i < n THEN [of |-> {server.conn}, is |-> OnWire(b, i), finite |-> ~Serving.sick]
          ELSE @[i]]]

\* As ReadSlot, but reading a tensor too many.
ReadSlotPast ==
    LET slot == Wire[server.bundle][server.step]
        last == server.step > Len(Wire[server.bundle])
    IN  /\ server.at = "slots"
        /\ data' = Received(slot, Sizes[slot])
        /\ server' = [server EXCEPT !.at = IF last THEN "execute" ELSE "slots",
                                    !.step = IF last THEN 1 ELSE @ + 1]
        /\ UNCHANGED <<running, queue, conn>>

\* As ReadSlot, but never reading the last tensor.
ReadSlotShort ==
    LET slot == Wire[server.bundle][server.step]
        last == server.step + 1 >= Len(Wire[server.bundle])
    IN  /\ server.at = "slots"
        /\ data' = Received(slot, Sizes[slot])
        /\ server' = [server EXCEPT !.at = IF last THEN "execute" ELSE "slots",
                                    !.step = IF last THEN 1 ELSE @ + 1]
        /\ UNCHANGED <<running, queue, conn>>

\* Straight into the plan's input buffer.
ReadSlot ==
    LET slot == Wire[server.bundle][server.step]
        last == server.step = Len(Wire[server.bundle])
    IN  /\ server.at = "slots"
        /\ data' = Received(slot, Sizes[slot])
        /\ server' = [server EXCEPT !.at = IF last THEN "execute" ELSE "slots",
                                    !.step = IF last THEN 1 ELSE @ + 1]
        /\ UNCHANGED <<running, queue, conn>>

\* As ReadFails, with recv's 0 taken for an empty read and read again.
ReadFailsNever ==
    /\ server.at = "header" /\ ~Open(server.conn)
    /\ Goto("error")
    /\ UNCHANGED <<running, data, queue, conn>>

\* read_all throws: the client closed in the middle of the request.  What had come of
\* the tensor stays in the buffer.
ReadFails ==
    /\ server.at \in {"header", "slots"} /\ ~Open(server.conn)
    /\ IF server.at = "header" THEN UNCHANGED data
       ELSE LET slot == Wire[server.bundle][server.step]
            IN  \E n \in Indices(Sizes[slot]) : data' = Received(slot, n)
    /\ Goto("error")
    /\ UNCHANGED <<running, queue, conn>>

\* As Execute, checking only the result at the end, not what each ELF returned.
ExecuteUnchecked ==
    LET s == Plan[server.step]
        f == Flow[server.bundle][server.step]
    IN  /\ server.at = "execute" /\ server.step <= Len(Plan)
        /\ \E sound \in IF RunsElf(s) THEN BOOLEAN ELSE {TRUE} :
             data' = RunStep(data, s, f.run, f.wiring, sound)
        /\ server' = [server EXCEPT !.step = @ + 1]
        /\ UNCHANGED <<running, queue, conn>>

\* A step of the plan.  An ELF may return garbage, which require_finite sees.  What a
\* step had copied before it throws is left out, as the next request's copies over it.
Execute ==
    LET s == Plan[server.step]
        f == Flow[server.bundle][server.step]
    IN  /\ server.at = "execute" /\ server.step <= Len(Plan)
        /\ IF f.throws THEN Goto("error") /\ UNCHANGED data
           ELSE \E sound \in IF RunsElf(s) THEN BOOLEAN ELSE {TRUE} :
                  /\ data' = RunStep(data, s, f.run, f.wiring, sound)
                  /\ server' = IF RunsElf(s) /\ ~Finite(data', s.out)
                               THEN [server EXCEPT !.at = "error"]
                               ELSE [server EXCEPT !.step = @ + 1]
        /\ UNCHANGED <<running, queue, conn>>

\* The result must be finite too.
Finish ==
    /\ server.at = "execute" /\ server.step > Len(Plan)
    /\ Goto(IF Finite(data, Result[server.bundle]) THEN "reply" ELSE "error")
    /\ UNCHANGED <<running, data, queue, conn>>

\* write_all of a header: it reaches the client unless that has closed, and then it
\* may also fail.
Header(status, count) ==
    [magic |-> server.bundle, id |-> IF server.header THEN Serving.id ELSE None,
     status |-> status, count |-> count]

Send(field, what, next) ==
    \/ /\ conn' = IF Open(server.conn) THEN [conn EXCEPT ![server.conn][field] = what] ELSE conn
       /\ Goto(next)
    \/ ~Open(server.conn) /\ Goto("error") /\ UNCHANGED conn

Reply ==
    /\ server.at = "reply"
    /\ Send("reply", Header(0, ResponseElements(server.bundle)), "result")
    /\ UNCHANGED <<running, data, queue>>

SendResult ==
    /\ server.at = "result"
    /\ Send("result", data[Result[server.bundle]], "close")
    /\ UNCHANGED <<running, data, queue>>

\* The catch block: status 1, as far as it still gets.
Fail ==
    /\ server.at = "error"
    /\ conn' = IF Open(server.conn) THEN [conn EXCEPT ![server.conn].reply = Header(1, 0)] ELSE conn
    /\ Goto("close")
    /\ UNCHANGED <<running, data, queue>>

Close ==
    /\ server.at = "close"
    /\ conn' = [conn EXCEPT ![server.conn] = ShutBy(@)]
    /\ server' = [server EXCEPT !.at = "test", !.conn = None, !.step = 0, !.header = FALSE]
    /\ UNCHANGED <<running, data, queue>>

------------------------------------------------------------------------------
(* The clients (wire/client.py) *)

\* pack_request: the policy's magic, the id and all its tensors, as many elements of
\* each as the wire declares.
Request(p, id, sick) == [NoRequest EXCEPT !.at = "open", !.asks = p, !.id = id, !.sick = sick]

\* create_connection: the kernel takes it while the backlog has room.
Connect(q, p, id, sick) ==
    /\ conn[q].at = "new" /\ server.at \notin {"down", "load"} /\ Len(queue) < Backlog
    /\ conn' = [conn EXCEPT ![q] = Request(p, id, sick)]
    /\ queue' = Append(queue, q)
    /\ UNCHANGED <<server, running, data>>

\* check_response.
Accepted(c) ==
    /\ c.reply.magic = c.asks
    /\ c.reply.id = c.id
    /\ c.reply.status = 0
    /\ c.reply.count = ResponseElements(c.asks)

\* The reply is read and checked; the client closes with its answer or with an error.
Receive(q) ==
    /\ Open(q) /\ conn[q].reply # None
    /\ Accepted(conn[q]) => conn[q].result # None
    /\ conn' = [conn EXCEPT ![q] = IF Accepted(@) THEN [@ EXCEPT !.at = "answered"]
                                   ELSE FailedBy(@)]
    /\ UNCHANGED <<server, running, data, queue>>

\* The socket's timeout, a reset, or the client's own end, before its answer is read.
GiveUp(q) ==
    /\ Open(q)
    /\ conn' = [conn EXCEPT ![q] = FailedBy(@)]
    /\ UNCHANGED <<server, running, data, queue>>

------------------------------------------------------------------------------

Serve == \/ Load \/ Test \/ Block \/ Accept \/ ReadFails \/ Execute \/ Finish
         \/ Reply \/ SendResult \/ Fail \/ Close

Client(q) == Receive(q) \/ GiveUp(q)

Next ==
    \/ Serve \/ ReadHeader \/ ReadSlot
    \/ \E bundle \in Policies : Start(bundle)
    \/ Signal \/ Kill
    \/ \E q \in Requests : Client(q)
    \/ \E q \in Requests, p \in Policies, id \in Ids, sick \in BOOLEAN : Connect(q, p, id, sick)

\* The server process runs.  A client may stall for good in the middle of a request,
\* but its socket operations time out.
Fairness == WF_vars(Serve) /\ \A q \in Requests : WF_vars(Client(q))

Spec == Init /\ [][Next]_vars /\ Fairness

------------------------------------------------------------------------------
(* Properties *)

\* Types, and where the server holds a connection, a bundle and a step of its plan.
TypeOK ==
    /\ server \in [at: Points, bundle: Policies \cup {None}, conn: Requests \cup {None},
                   step: Nat, header: BOOLEAN]
    /\ running \in BOOLEAN
    /\ (server.bundle = None) <=> (server.at = "down")
    /\ (server.conn = None) <=> (server.at \in {"down", "load", "test", "enter", "accept"})
    /\ server.at = "slots" => server.step \in DOMAIN Wire[server.bundle]
    /\ server.at \notin {"down", "load"} => DOMAIN data = DOMAIN Sizes
    /\ \A q \in Requests :
         /\ conn[q].at \in {"new", "open", "answered", "failed"}
         /\ conn[q].at \notin {"new", "failed"} => conn[q].asks \in Policies /\ conn[q].id \in Ids
    /\ Len(queue) <= Backlog /\ server.conn \notin {queue[k] : k \in DOMAIN queue}

\* An answer a client accepts is the whole result of its own plan, computed from its
\* own request and from nothing else: no cell of an earlier request's, of one that was
\* only half read, of a corrupted ELF output, and no value that is not finite
\* (server_main.cpp, one set of buffers for all requests; Plan::execute).
AnswerIsOwn ==
    \A q \in Requests : conn[q].at = "answered" =>
      \A i \in Indices(ResponseElements(conn[q].asks)) :
        /\ conn[q].result[i].is = ExpectedResult(conn[q].asks, i)
        /\ conn[q].result[i].of = {q}
        /\ conn[q].result[i].finite

\* No step reads what an earlier request, or nobody, left in a buffer: every cell it
\* reads was written for the request being served (plan.cpp, "Allocate every buffer
\* once, at load time"; the plans of policies/*/runtime.py).
NothingCarriesOver ==
    server.at = "execute" /\ server.step <= Len(Plan) =>
      \A cell \in Flow[server.bundle][server.step].reads :
        /\ ReadCell(data, cell).of \subseteq {server.conn, "corrupt"}
        /\ ReadCell(data, cell) # Unset

\* Every graph is given, element by element and in the order its GraphSpec declares,
\* what its exported module was traced with: the right half of a packed input, the
\* right run of the previous graph, the mask and the time embedding of its own block
\* and step; and so are the Euler steps and the last denormalization.  Inside a chain
\* every stage follows the one it was exported after (EncoderStemPacked, "the slicing
\* here and RuntimePlan's pack offsets must agree"; groot/runtime.py, "Feeding one mask
\* to every block does not error").
LayoutIsTheGraphs ==
    server.at = "execute" /\ server.step <= Len(Plan) /\ Fixed(Plan[server.step]) =>
      /\ Expected[server.bundle][server.step] = Given(data, server.bundle, server.step)
      /\ RunsElf(Plan[server.step]) => ChainsFollow[server.bundle][server.step]

\* A server that was started on a packed bundle comes up, and its plan fits: what
\* Plan::Plan and main ask of a plan, its graphs and its wire, the plan had when
\* PolicySpec.validate let it pass (plan.cpp, "the plan validator guarantees the sizes
\* line up"); no step of it reads or writes past a buffer or a constant, not even where
\* run_step does not check it (matvec, the statistics, euler), with the constants the
\* exporters write; and every value is scaled by the statistics of its own joint
\* (sidecar.hpp, "Retrain and the compiled server is quietly wrong"; plan.cpp 398-464).
PackedPlansLoad == server.at = "load" => server.bundle \in Loaded \cap Fitting

\* The plan being loaded means the same to the Python interpreter (server_stub.py,
\* "opcodes; keep in lockstep with native/src/plan.cpp").
StubAgrees == server.at = "load" => server.bundle \in Interpreted

\* The interpreter fails a request only for its values: garbage from the accelerator or
\* from the client, never for the shape of its own plan (plan.cpp, require_finite;
\* tess.hpp, "channels must be a multiple of 16, which is what the layout means").
OnlyGarbageFails ==
    [][server.at = "execute" /\ server'.at = "error" =>
         \E b \in DOMAIN data' : ~Finite(data', b)]_vars

\* The server does not stay with one connection: whatever the client does, it is
\* closed in the end and the next one can be accepted (read_all throws when the client
\* is gone; every error ends in close).
ServerReturns == server.conn # None ~> server.conn = None
=============================================================================
