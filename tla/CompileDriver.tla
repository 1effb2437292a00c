--------------------------- MODULE CompileDriver ---------------------------
(* polima-compile over one build tree (compile/driver.py, cli/compile.py):   *)
(* every graph's ONNX is keyed, reused or compiled precision by precision,   *)
(* published and recorded in compile_state.json, by one worker or several,   *)
(* in runs that fail, are interrupted or are killed.  The contents of files  *)
(* are abstracted: an input stands for all that stage_key hashes, and an ELF *)
(* says which input and precision it was generated from and whether the      *)
(* compiler finished it.                                                     *)
EXTENDS Naturals, Sequences, FiniteSets

CONSTANTS
  Plan,        \* the policy's graphs, in the order of CompilePlan.graphs
  Precisions,  \* GraphSpec.precisions of each graph: the first choice, then its fallbacks
  Inputs,      \* what stage_key tells apart of each graph: ONNX, calibration, flags, SDK
  None

Graphs == {Plan[i] : i \in DOMAIN Plan}
AllInputs == UNION {Inputs[g] : g \in Graphs}
Names == UNION {{Precisions[g][i] : i \in DOMAIN Precisions[g]} : g \in Graphs}

ELFs == [input : AllInputs, precision : Names, whole : BOOLEAN]
Entries == [key : AllInputs, precision : Names]

ASSUME PlanAssumption ==
  /\ Plan \in Seq(Graphs) /\ Graphs # {}
  /\ DOMAIN Inputs = Graphs
  /\ None \notin Graphs \cup AllInputs \cup ELFs
  /\ DOMAIN Precisions = Graphs
  /\ \A g \in Graphs : Precisions[g] \in Seq(Names) /\ Len(Precisions[g]) >= 1

VARIABLES
  source,     \* onnx/ and calibration/: the input of each graph, None before an export
  record,     \* compile_state.json; a file cut short is read as the empty one
  retained,   \* retained/<graph>/: the ELF the compiler left there
  published,  \* models_uncompressed/<graph>/share/: the ELF that packing takes
  driver,     \* the run under way
  worker,     \* compile_graph of each graph of the run
  lock        \* the graph whose worker holds _state_lock
vars == <<source, record, retained, published, driver, worker, lock>>

tree == <<source, record, retained, published>>

Working == {"attempt", "compile", "publish", "reuse", "record", "truncate", "write"}
Succeeded == {"compiled", "reused"}
Failed == {"failed", "raised"}
Steps == {"out", "wait"} \cup Working \cup Succeeded \cup Failed

NoEntries == [g \in Graphs |-> None]
NoRun == [phase |-> "off", force |-> FALSE, workers |-> 1, interrupted |-> FALSE]
Outside == [step |-> "out", attempt |-> 1, state |-> NoEntries]
Elf(g) == [input |-> source[g], precision |-> Precisions[g][worker[g].attempt], whole |-> TRUE]
Partial(elf) == [elf EXCEPT !.whole = FALSE]
Entry(g) == [key |-> source[g], precision |-> Precisions[g][worker[g].attempt]]
Earlier(g) == {h \in Graphs : \E i, j \in DOMAIN Plan : i < j /\ Plan[i] = h /\ Plan[j] = g}
Selected == {g \in Graphs : worker[g].step # "out"}
InStep(S) == {g \in Graphs : worker[g].step \in S}

Goto(g, step) == worker' = [worker EXCEPT ![g].step = step]
Over == /\ driver' = NoRun
        /\ worker' = [g \in Graphs |-> Outside]
        /\ lock' = None

Init ==
  /\ source = [g \in Graphs |-> None]
  /\ record = NoEntries
  /\ retained = [g \in Graphs |-> None]
  /\ published = [g \in Graphs |-> None]
  /\ driver = NoRun
  /\ worker = [g \in Graphs |-> Outside]
  /\ lock = None

-----------------------------------------------------------------------------
(* Between runs *)

\* An export writes the graphs one by one, and may end early.
Export(g) ==
  /\ driver.phase = "off"
  /\ \E i \in Inputs[g] : source' = [source EXCEPT ![g] = i]
  /\ UNCHANGED <<record, retained, published, driver, worker, lock>>

\* polima clean --level all.
CleanAll ==
  /\ driver.phase = "off"
  /\ source' = [g \in Graphs |-> None]
  /\ record' = NoEntries
  /\ retained' = [g \in Graphs |-> None]
  /\ published' = [g \in Graphs |-> None]
  /\ UNCHANGED <<driver, worker, lock>>

Run ==
  /\ driver.phase = "off"
  /\ \E only \in SUBSET Graphs, force \in BOOLEAN, workers \in 1..Len(Plan) :
       /\ workers <= Cardinality(only)
       /\ driver' = [NoRun EXCEPT !.phase = "run", !.force = force, !.workers = workers]
       /\ worker' = [g \in Graphs |-> [Outside EXCEPT !.step = IF g \in only THEN "wait" ELSE "out"]]
  /\ UNCHANGED <<tree, lock>>

-----------------------------------------------------------------------------
(* compile_graph *)

\* One worker stops at the first failure; a pool goes on.
MayStart(g) ==
  /\ worker[g].step = "wait"
  /\ \A h \in Earlier(g) : worker[h].step # "wait"
  /\ Cardinality(InStep(Working)) < driver.workers
  /\ driver.workers = 1 => InStep(Failed) = {}

\* The state file is read here without _state_lock.
Reusable(g) ==
  /\ ~driver.force
  /\ record[g] # None /\ record[g].key = source[g]
  /\ retained[g] # None

Start(g) ==
  /\ MayStart(g)
  /\ Goto(g, IF source[g] = None THEN "failed" ELSE IF Reusable(g) THEN "reuse" ELSE "attempt")
  /\ UNCHANGED <<tree, driver, lock>>

\* Mutant of RetainedAtAttempt: the leftover of an earlier attempt is not removed.
RetainedLeft(g) == retained[g]

\* What a precision's attempt finds in the retained directory.
RetainedAtAttempt(g) == None

Attempt(g) ==
  /\ worker[g].step = "attempt"
  /\ retained' = [retained EXCEPT ![g] = RetainedAtAttempt(g)]
  /\ Goto(g, "compile")
  /\ UNCHANGED <<source, record, published, driver, lock>>

\* The compiler exits with 0 and the ELF is there.
CompilerSucceeds(g) ==
  /\ worker[g].step = "compile"
  /\ retained' = [retained EXCEPT ![g] = Elf(g)]
  /\ Goto(g, "publish")
  /\ UNCHANGED <<source, record, published, driver, lock>>

\* Mutant of NextAttempt: one fallback too many.
NextAttemptBeyond(g) ==
  LET n == worker[g].attempt IN
  worker' = [worker EXCEPT ![g] = IF n <= Len(Precisions[g])
    THEN [@ EXCEPT !.step = "attempt", !.attempt = n + 1]
    ELSE [@ EXCEPT !.step = "failed"]]

NextAttempt(g) ==
  LET n == worker[g].attempt IN
  worker' = [worker EXCEPT ![g] = IF n < Len(Precisions[g])
    THEN [@ EXCEPT !.step = "attempt", !.attempt = n + 1]
    ELSE [@ EXCEPT !.step = "failed"]]

\* It exits with another code, leaving what it had written.
CompilerFails(g) ==
  /\ worker[g].step = "compile"
  /\ \E left \in {retained[g], Partial(Elf(g)), Elf(g)} : retained' = [retained EXCEPT ![g] = left]
  /\ NextAttempt(g)
  /\ UNCHANGED <<source, record, published, driver, lock>>

\* It exits with 0 and wrote no MLA ELF: the graph went to the APU.
CompilerPlacesOnApu(g) ==
  /\ worker[g].step = "compile"
  /\ IF retained[g] = None THEN NextAttempt(g) ELSE Goto(g, "publish")
  /\ UNCHANGED <<tree, driver, lock>>

Publish(g) ==
  /\ worker[g].step \in {"publish", "reuse"}
  /\ published' = [published EXCEPT ![g] = retained[g]]
  /\ Goto(g, IF worker[g].step = "reuse" THEN "reused" ELSE "record")
  /\ UNCHANGED <<source, record, retained, driver, lock>>

\* Mutant of Free: _record without _state_lock.
FreeAlways == TRUE

Free == lock = None

\* _record, in its three steps: read the state, truncate the file, write it.
ReadState(g) ==
  /\ worker[g].step = "record" /\ Free
  /\ lock' = g
  /\ worker' = [worker EXCEPT ![g] = [@ EXCEPT !.step = "truncate", !.state = record]]
  /\ UNCHANGED <<tree, driver>>

Truncate(g) ==
  /\ worker[g].step = "truncate"
  /\ record' = NoEntries
  /\ Goto(g, "write")
  /\ UNCHANGED <<source, retained, published, driver, lock>>

WriteState(g) ==
  /\ worker[g].step = "write"
  /\ record' = [worker[g].state EXCEPT ![g] = Entry(g)]
  /\ lock' = None
  /\ worker' = [worker EXCEPT ![g] = [@ EXCEPT !.step = "compiled", !.state = NoEntries]]
  /\ UNCHANGED <<source, retained, published, driver>>

\* An exception, such as a full disk: a worker of a pool fails, the others go on.
TornCopy(g) ==
  IF worker[g].step \in {"publish", "reuse"} THEN {published[g], Partial(retained[g])} ELSE {published[g]}

\* Mutant of Released: a raising worker keeps _state_lock.
ReleasedNever(g) == lock

Released(g) == IF lock = g THEN None ELSE lock

Raise(g) ==
  /\ driver.workers > 1
  /\ worker[g].step \in {"attempt", "publish", "reuse", "truncate", "write"}
  /\ \E torn \in TornCopy(g) : published' = [published EXCEPT ![g] = torn]
  /\ lock' = Released(g)
  /\ worker' = [worker EXCEPT ![g] = [@ EXCEPT !.step = "raised", !.state = NoEntries]]
  /\ UNCHANGED <<source, record, retained, driver>>

-----------------------------------------------------------------------------
(* The run *)

\* Ctrl-C reaches the main thread and the compilers; the pool's workers take
\* their compiler's exit for a failed attempt and go on.
Interrupt ==
  /\ driver.phase = "run" /\ driver.workers > 1
  /\ driver' = [driver EXCEPT !.interrupted = TRUE]
  /\ UNCHANGED <<tree, worker, lock>>

\* A kill, or with one worker Ctrl-C or an exception, at any point.
Killed ==
  /\ driver.phase # "off"
  /\ \E left \in [InStep({"compile"}) -> {"nothing", "partial", "whole"}] :
       retained' = [g \in Graphs |->
         IF g \notin DOMAIN left \/ left[g] = "nothing" THEN retained[g]
         ELSE IF left[g] = "whole" THEN Elf(g) ELSE Partial(Elf(g))]
  /\ \E torn \in SUBSET InStep({"publish", "reuse"}) :
       published' = [g \in Graphs |-> IF g \in torn THEN Partial(retained[g]) ELSE published[g]]
  /\ Over
  /\ UNCHANGED <<source, record>>

AllDone ==
  /\ driver.phase = "run"
  /\ InStep(Working) = {}
  /\ InStep({"wait"}) # {} => driver.workers = 1 /\ InStep(Failed) # {}

\* Mutant of Packs: a run whose graphs failed goes on to pack the tree.
PacksAnyway == ~driver.interrupted

Packs == InStep(Failed) = {} /\ ~driver.interrupted

\* write_manifest; a failure, --stop-after compile and an interrupt end here.
Finish ==
  /\ AllDone
  /\ \/ Over
     \/ /\ Packs
        /\ driver' = [driver EXCEPT !.phase = "pack"]
        /\ UNCHANGED <<worker, lock>>
  /\ UNCHANGED tree

\* The ELF packing takes for a graph: the published one, else the retained one.
Packed(g) == IF published[g] # None THEN published[g] ELSE retained[g]

\* The bundle is a copy of what Packed selects, and the tree is left alone.
Pack ==
  /\ driver.phase = "pack"
  /\ Over
  /\ UNCHANGED tree

CompileGraph(g) ==
  \/ Start(g) \/ Attempt(g)
  \/ CompilerSucceeds(g) \/ CompilerFails(g) \/ CompilerPlacesOnApu(g)
  \/ Publish(g) \/ ReadState(g) \/ Truncate(g) \/ WriteState(g) \/ Raise(g)

Next ==
  \/ \E g \in Graphs : Export(g) \/ CompileGraph(g)
  \/ CleanAll \/ Run \/ Interrupt \/ Killed \/ Finish \/ Pack

Spec == Init /\ [][Next]_vars

\* Compilers end, and the driver's threads are scheduled.
Fairness ==
  /\ \A g \in Graphs : WF_vars(CompileGraph(g))
  /\ WF_vars(Finish) /\ WF_vars(Pack)
FairSpec == Spec /\ Fairness

-----------------------------------------------------------------------------
(* Properties *)

\* Types; every worker is at one of its graph's own precisions.
TypeOK ==
  /\ source \in [Graphs -> AllInputs \cup {None}]
  /\ record \in [Graphs -> Entries \cup {None}]
  /\ retained \in [Graphs -> ELFs \cup {None}]
  /\ published \in [Graphs -> ELFs \cup {None}]
  /\ driver \in [phase : {"off", "run", "pack"}, force : BOOLEAN,
                 workers : Nat \ {0}, interrupted : BOOLEAN]
  /\ DOMAIN worker = Graphs
  /\ \A g \in Graphs : worker[g] \in [step : Steps, attempt : 1..Len(Precisions[g]),
                                       state : [Graphs -> Entries \cup {None}]]
  /\ lock \in Graphs \cup {None}

\* A graph reported as built is published as the finished ELF of the input and
\* the precision of this run: no leftover of an earlier attempt is taken for
\* success (driver.py:310, "would otherwise be mistaken for success").
CompiledIsFresh == \A g \in InStep({"compiled"}) : published[g] = Elf(g)

\* However the workers of a pool interleave, the state file keeps the entry of
\* every graph they built (driver.py:196, "a lost update means a stage
\* recompiles next run for no reason"), unless writing it raised.
NoLostRecord ==
  lock = None /\ InStep({"raised"}) = {} =>
    \A g \in InStep({"compiled"}) : record[g] = Entry(g)

\* A bundle packed by a run that recompiled every graph holds nothing but the
\* finished ELFs of the exported inputs, whatever earlier runs left in the tree.
PackedIsCurrent ==
  driver.phase = "pack" /\ driver.force /\ Selected = Graphs =>
    \A g \in Graphs : Packed(g) = Elf(g)

\* A run whose compilers end, ends: no worker waits for ever for a place in the
\* pool or for _state_lock, whatever its fellows raised.
RunEnds == driver.phase # "off" ~> driver.phase = "off"

\* What is reused is the finished ELF of the key it was reused for
\* (driver.py:18, reuse by content key "closes the hole the legacy --resume had").
ReusedIsItsKeys ==
  \A g \in InStep({"reused"}) : published[g].input = source[g] /\ published[g].whole
=============================================================================
