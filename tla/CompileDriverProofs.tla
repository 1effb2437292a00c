------------------------ MODULE CompileDriverProofs ------------------------
(* Proofs about CompileDriver: types, freshness of what a run builds, and    *)
(* the state file under several workers, for every plan.                     *)
EXTENDS CompileDriver, SequenceTheorems, TLAPS

Recorded == {"record", "truncate", "write", "compiled"}
Writing == {"truncate", "write"}

\* What holds of one graph, and ties it to the lock and the run.
GraphInv(g) ==
  /\ worker[g].step \in Working \cup Succeeded => source[g] # None
  /\ worker[g].step = "compile" => retained[g] = None
  /\ worker[g].step = "publish" => retained[g] = Elf(g)
  /\ worker[g].step = "reuse" => retained[g] # None
  /\ worker[g].step \in Recorded => published[g] = Elf(g)
  /\ worker[g].step \in Writing <=> lock = g
  /\ driver.phase = "off" => worker[g] = Outside
  /\ driver.phase = "pack" => worker[g].step \in {"out"} \cup Succeeded
  /\ driver.force => worker[g].step \notin {"reuse", "reused"}

\* The entry of a graph that was built is in the file, and in the copy of
\* whoever is about to write it.
EntryInv(g) ==
  worker[g].step = "compiled" =>
    /\ lock = None => record[g] = Entry(g)
    /\ \A h \in Graphs : worker[h].step \in Writing => worker[h].state[g] = Entry(g)

NoRaise == \A h \in Graphs : worker[h].step # "raised"

IInv ==
  /\ TypeOK
  /\ \A g \in Graphs : GraphInv(g)
  /\ NoRaise => \A g \in Graphs : EntryInv(g)

WorkerOf(g) == [step : Steps, attempt : 1..Len(Precisions[g]), state : [Graphs -> Entries \cup {None}]]

\* The finished ELF and the entry of a graph whose input is there are well typed.
LEMMA ElfTyped ==
  ASSUME TypeOK, NEW g \in Graphs, source[g] # None
  PROVE  /\ Elf(g) \in ELFs /\ Elf(g) # None
         /\ Partial(Elf(g)) \in ELFs
         /\ Entry(g) \in Entries
<1>1. source[g] \in AllInputs
  BY DEF TypeOK
<1>2. worker[g].attempt \in 1..Len(Precisions[g])
  BY DEF TypeOK
<1>3. Precisions[g][worker[g].attempt] \in Names
  BY <1>2, PlanAssumption DEF Names
<1>4. Elf(g) \in ELFs
  BY <1>1, <1>3 DEF Elf, ELFs
<1>5. Partial(Elf(g)) \in ELFs
  BY <1>4 DEF Partial, ELFs
<1>6. Entry(g) \in Entries
  BY <1>1, <1>3 DEF Entry, Entries
<1> QED
  BY <1>4, <1>5, <1>6, PlanAssumption

\* An ELF cut short is still an ELF.
LEMMA PartialTyped ==
  ASSUME NEW e \in ELFs
  PROVE  Partial(e) \in ELFs
BY DEF Partial, ELFs

\* Before the first export nothing is there and nothing runs.
LEMMA Initially == Init => IInv
<1> SUFFICES ASSUME Init PROVE IInv
  OBVIOUS
<1>1. \A g \in Graphs : 1 \in 1..Len(Precisions[g])
  BY PlanAssumption
<1>2. TypeOK
  BY <1>1 DEF Init, TypeOK, NoRun, Outside, NoEntries, Steps
<1>3. \A g \in Graphs : GraphInv(g)
  BY PlanAssumption DEF Init, GraphInv, Outside, NoRun, Working, Succeeded, Recorded, Writing
<1>4. \A g \in Graphs : EntryInv(g)
  BY DEF Init, EntryInv, Outside
<1> QED
  BY <1>2, <1>3, <1>4 DEF IInv

\* The end of a run leaves no worker, whatever became of the tree.
LEMMA OverKeeps ==
  ASSUME Over, source' \in [Graphs -> AllInputs \cup {None}], record' \in [Graphs -> Entries \cup {None}],
         retained' \in [Graphs -> ELFs \cup {None}], published' \in [Graphs -> ELFs \cup {None}]
  PROVE  IInv'
<1>1. \A g \in Graphs : 1 \in 1..Len(Precisions[g])
  BY PlanAssumption
<1>2. TypeOK'
  BY <1>1 DEF Over, TypeOK, NoRun, Outside, NoEntries, Steps
<1>3. \A g \in Graphs : GraphInv(g)'
  BY PlanAssumption DEF Over, GraphInv, Outside, NoRun, Working, Succeeded, Recorded, Writing
<1>4. \A g \in Graphs : EntryInv(g)'
  BY DEF Over, EntryInv, Outside
<1> QED
  BY <1>2, <1>3, <1>4 DEF IInv

\* Between runs the tree may change as it likes.
LEMMA OffKeeps ==
  ASSUME IInv, driver.phase = "off", UNCHANGED <<driver, worker, lock>>,
         source' \in [Graphs -> AllInputs \cup {None}], record' \in [Graphs -> Entries \cup {None}],
         retained' \in [Graphs -> ELFs \cup {None}], published' \in [Graphs -> ELFs \cup {None}]
  PROVE  IInv'
<1>1. \A g \in Graphs : worker[g] = Outside
  BY DEF IInv, GraphInv
<1>2. TypeOK'
  BY DEF IInv, TypeOK
<1>3. \A g \in Graphs : GraphInv(g)'
  BY <1>1 DEF IInv, GraphInv, Outside, Working, Succeeded, Recorded, Writing
<1>4. \A g \in Graphs : EntryInv(g)'
  BY <1>1 DEF EntryInv, Outside
<1> QED
  BY <1>2, <1>3, <1>4 DEF IInv

\* The state of a run just begun.
LEMMA BegunTyped ==
  ASSUME NEW force \in BOOLEAN, NEW workers \in Nat \ {0}
  PROVE  [phase |-> "run", force |-> force, workers |-> workers, interrupted |-> FALSE]
           \in [phase : {"off", "run", "pack"}, force : BOOLEAN, workers : Nat \ {0}, interrupted : BOOLEAN]
OBVIOUS

\* Starting a run.
LEMMA RunKeeps == ASSUME IInv, Run PROVE IInv'
<1>0. 1..Len(Plan) \subseteq Nat \ {0}
  <2>1. Len(Plan) \in Nat
    BY PlanAssumption, LenProperties
  <2> QED
    BY <2>1
<1> PICK only \in SUBSET Graphs, force \in BOOLEAN, workers \in Nat \ {0} :
      /\ driver' = [NoRun EXCEPT !.phase = "run", !.force = force, !.workers = workers]
      /\ worker' = [g \in Graphs |-> [Outside EXCEPT !.step = IF g \in only THEN "wait" ELSE "out"]]
  BY <1>0 DEF Run
<1>1. lock = None
  <2>1. \A g \in Graphs : worker[g] = Outside
    BY DEF IInv, GraphInv, Run
  <2>2. \A g \in Graphs : worker[g].step = "out" /\ (worker[g].step \in Writing <=> lock = g)
    BY <2>1 DEF IInv, GraphInv, Outside
  <2>3. \A g \in Graphs : lock # g
    BY <2>2 DEF Writing
  <2> QED
    BY <2>3 DEF IInv, TypeOK
<1>2. UNCHANGED <<source, record, retained, published, lock>>
  BY DEF Run, tree
<1>3. \A g \in Graphs : worker'[g] \in WorkerOf(g) /\ worker'[g].step \in {"wait", "out"}
  <2> TAKE g \in Graphs
  <2>1. 1 \in 1..Len(Precisions[g])
    BY PlanAssumption
  <2>2. NoEntries \in [Graphs -> Entries \cup {None}]
    BY DEF NoEntries
  <2>3. worker'[g] = [step |-> IF g \in only THEN "wait" ELSE "out", attempt |-> 1, state |-> NoEntries]
    BY DEF Outside
  <2> QED
    BY <2>1, <2>2, <2>3 DEF WorkerOf, Steps
<1>4. driver' = [phase |-> "run", force |-> force, workers |-> workers, interrupted |-> FALSE]
  BY DEF NoRun
<1>5. TypeOK'
  <2>1. driver' \in [phase : {"off", "run", "pack"}, force : BOOLEAN,
                     workers : Nat \ {0}, interrupted : BOOLEAN]
    BY <1>4, BegunTyped
  <2>2. DOMAIN worker' = Graphs
    OBVIOUS
  <2> QED
    BY <1>2, <1>3, <2>1, <2>2 DEF IInv, TypeOK, WorkerOf
<1>6. \A g \in Graphs : GraphInv(g)'
  BY <1>1, <1>2, <1>3, <1>4, PlanAssumption DEF GraphInv, Working, Succeeded, Recorded, Writing
<1>7. \A g \in Graphs : EntryInv(g)'
  BY <1>3 DEF EntryInv
<1> QED
  BY <1>5, <1>6, <1>7 DEF IInv

\* A step of the worker of g changes nothing of the other graphs.
LEMMA GraphStep ==
  ASSUME IInv, NEW g \in Graphs, UNCHANGED <<source, driver>>,
         NEW w \in WorkerOf(g), worker' = [worker EXCEPT ![g] = w],
         NEW r \in ELFs \cup {None}, retained' = [retained EXCEPT ![g] = r],
         NEW p \in ELFs \cup {None}, published' = [published EXCEPT ![g] = p],
         record' \in [Graphs -> Entries \cup {None}],
         lock' \in Graphs \cup {None}, \A h \in Graphs \ {g} : lock' = h <=> lock = h,
         GraphInv(g)', NoRaise' => \A h \in Graphs : EntryInv(h)'
  PROVE  IInv'
<1>1. \A h \in Graphs : worker[h] \in WorkerOf(h)
  BY DEF IInv, TypeOK, WorkerOf
<1>2. DOMAIN worker' = Graphs
  BY DEF IInv, TypeOK
<1>3. \A h \in Graphs : worker'[h] \in WorkerOf(h)
  BY <1>1 DEF IInv, TypeOK
<1>4. retained' \in [Graphs -> ELFs \cup {None}] /\ published' \in [Graphs -> ELFs \cup {None}]
  BY DEF IInv, TypeOK
<1>5. TypeOK'
  BY <1>2, <1>3, <1>4 DEF IInv, TypeOK, WorkerOf
<1>6. ASSUME NEW h \in Graphs, h # g PROVE GraphInv(h)'
  <2>1. worker'[h] = worker[h]
    BY <1>6 DEF IInv, TypeOK
  <2>2. retained'[h] = retained[h] /\ published'[h] = published[h]
    BY <1>6 DEF IInv, TypeOK
  <2>3. Elf(h)' = Elf(h)
    BY <2>1 DEF Elf
  <2> QED
    BY <1>6, <2>1, <2>2, <2>3 DEF IInv, GraphInv
<1> QED
  BY <1>5, <1>6 DEF IInv

\* A step that is not part of _record leaves every entry where it is.
LEMMA EntriesStay ==
  ASSUME IInv, NEW g \in Graphs, UNCHANGED <<source, record, lock>>,
         worker[g].step \in {"wait"} \cup Working,
         NEW w \in WorkerOf(g), worker' = [worker EXCEPT ![g] = w],
         w.step \notin {"compiled"} \cup Writing
  PROVE  NoRaise' => \A h \in Graphs : EntryInv(h)'
<1> SUFFICES ASSUME NoRaise', NEW h \in Graphs, worker'[h].step = "compiled" PROVE EntryInv(h)'
  BY DEF EntryInv
<1>1. DOMAIN worker = Graphs
  BY DEF IInv, TypeOK
<1>2. worker'[g] = w /\ \A k \in Graphs \ {g} : worker'[k] = worker[k]
  BY <1>1
<1>3. NoRaise
  BY <1>2 DEF NoRaise, Working
<1>4. h # g
  BY <1>2
<1>5. EntryInv(h) /\ worker[h].step = "compiled"
  BY <1>2, <1>3, <1>4 DEF IInv
<1>6. Entry(h)' = Entry(h)
  BY <1>2, <1>4 DEF Entry
<1>7. \A k \in Graphs : worker'[k].step \in Writing => worker'[k] = worker[k]
  BY <1>2
<1> QED
  BY <1>5, <1>6, <1>7 DEF EntryInv

\* What is known of the worker that steps.
LEMMA WorkerHere ==
  ASSUME IInv, NEW g \in Graphs
  PROVE  /\ worker[g] \in WorkerOf(g) /\ GraphInv(g)
         /\ retained[g] \in ELFs \cup {None} /\ published[g] \in ELFs \cup {None}
         /\ retained = [retained EXCEPT ![g] = retained[g]]
         /\ published = [published EXCEPT ![g] = published[g]]
         /\ record \in [Graphs -> Entries \cup {None}] /\ lock \in Graphs \cup {None}
BY DEF IInv, TypeOK, WorkerOf

\* compile_graph begins: missing input, reuse or a first attempt.
LEMMA StartKeeps == ASSUME IInv, NEW g \in Graphs, Start(g) PROVE IInv'
<1> DEFINE s == IF source[g] = None THEN "failed" ELSE IF Reusable(g) THEN "reuse" ELSE "attempt"
           w == [worker[g] EXCEPT !.step = s]
<1>1. worker[g].step = "wait" /\ worker' = [worker EXCEPT ![g] = w]
      /\ UNCHANGED <<source, record, retained, published, driver, lock>>
  BY DEF Start, MayStart, Goto, tree, IInv, TypeOK
<1>2. s \in {"failed", "reuse", "attempt"}
  OBVIOUS
<1>3. w \in WorkerOf(g) /\ w.step = s
  BY <1>2, WorkerHere DEF WorkerOf, Steps, Working, Failed
<1>4. GraphInv(g)'
  <2>1. worker'[g] = w
    BY <1>1 DEF IInv, TypeOK
  <2>2. lock # g /\ driver.phase \notin {"off", "pack"}
    BY <1>1, WorkerHere DEF GraphInv, Writing, Outside, Succeeded
  <2>3. s = "reuse" => ~driver.force /\ retained[g] # None
    BY DEF Reusable
  <2>4. s # "failed" => source[g] # None
    OBVIOUS
  <2> QED
    BY <1>1, <1>2, <1>3, <2>1, <2>2, <2>3, <2>4
    DEF GraphInv, Writing, Working, Succeeded, Recorded
<1>5. NoRaise' => \A h \in Graphs : EntryInv(h)'
  <2>1. w.step \notin {"compiled"} \cup Writing
    BY <1>2, <1>3 DEF Writing
  <2> HIDE DEF w
  <2> QED
    BY <1>1, <1>3, <2>1, EntriesStay
<1> HIDE DEF w
<1> QED
  BY <1>1, <1>3, <1>4, <1>5, WorkerHere, GraphStep

\* An attempt begins with the retained directory removed.
LEMMA AttemptKeeps == ASSUME IInv, NEW g \in Graphs, Attempt(g) PROVE IInv'
<1> DEFINE w == [worker[g] EXCEPT !.step = "compile"]
<1>1. worker[g].step = "attempt" /\ worker' = [worker EXCEPT ![g] = w]
      /\ retained' = [retained EXCEPT ![g] = None]
      /\ UNCHANGED <<source, record, published, driver, lock>>
  BY DEF Attempt, Goto, RetainedAtAttempt, IInv, TypeOK
<1>2. w \in WorkerOf(g) /\ w.step = "compile"
  BY WorkerHere DEF WorkerOf, Steps, Working
<1>3. GraphInv(g)'
  <2>1. worker'[g] = w /\ retained'[g] = None
    BY <1>1 DEF IInv, TypeOK
  <2>2. lock # g /\ source[g] # None /\ driver.phase \notin {"off", "pack"}
    BY <1>1, WorkerHere DEF GraphInv, Writing, Outside, Succeeded, Working
  <2> QED
    BY <1>1, <1>2, <2>1, <2>2 DEF GraphInv, Writing, Working, Succeeded, Recorded
<1>4. NoRaise' => \A h \in Graphs : EntryInv(h)'
  <2>1. w.step \notin {"compiled"} \cup Writing /\ worker[g].step \in {"wait"} \cup Working
    BY <1>1, <1>2 DEF Writing, Working
  <2> HIDE DEF w
  <2> QED
    BY <1>1, <1>2, <2>1, EntriesStay
<1> HIDE DEF w
<1> QED
  BY <1>1, <1>2, <1>3, <1>4, WorkerHere, GraphStep

\* A compiler's finished ELF goes on to be published.
LEMMA SucceedsKeeps == ASSUME IInv, NEW g \in Graphs, CompilerSucceeds(g) PROVE IInv'
<1> DEFINE w == [worker[g] EXCEPT !.step = "publish"]
<1>1. worker[g].step = "compile" /\ worker' = [worker EXCEPT ![g] = w]
      /\ retained' = [retained EXCEPT ![g] = Elf(g)]
      /\ UNCHANGED <<source, record, published, driver, lock>>
  BY DEF CompilerSucceeds, Goto, IInv, TypeOK
<1>2. w \in WorkerOf(g) /\ w.step = "publish" /\ w.attempt = worker[g].attempt
  BY WorkerHere DEF WorkerOf, Steps, Working
<1>3. lock # g /\ source[g] # None /\ driver.phase \notin {"off", "pack"}
  BY <1>1, WorkerHere DEF GraphInv, Writing, Outside, Succeeded, Working
<1>4. Elf(g) \in ELFs
  BY <1>3, ElfTyped DEF IInv
<1>5. GraphInv(g)'
  <2>1. worker'[g] = w /\ retained'[g] = Elf(g)
    BY <1>1 DEF IInv, TypeOK
  <2>2. Elf(g)' = Elf(g)
    BY <1>1, <1>2, <2>1 DEF Elf
  <2> QED
    BY <1>1, <1>2, <1>3, <2>1, <2>2 DEF GraphInv, Writing, Working, Succeeded, Recorded
<1>6. NoRaise' => \A h \in Graphs : EntryInv(h)'
  <2>1. w.step \notin {"compiled"} \cup Writing /\ worker[g].step \in {"wait"} \cup Working
    BY <1>1, <1>2 DEF Writing, Working
  <2> HIDE DEF w
  <2> QED
    BY <1>1, <1>2, <2>1, EntriesStay
<1> HIDE DEF w
<1> QED
  BY <1>1, <1>2, <1>4, <1>5, <1>6, WorkerHere, GraphStep

\* An attempt without an ELF: the next precision, or the end of the graph.
LEMMA NextAttemptKeeps ==
  ASSUME IInv, NEW g \in Graphs, worker[g].step = "compile", NextAttempt(g),
         NEW r \in ELFs \cup {None}, retained' = [retained EXCEPT ![g] = r],
         UNCHANGED <<source, record, published, driver, lock>>
  PROVE  IInv'
<1> DEFINE n == worker[g].attempt
           w == IF n < Len(Precisions[g]) THEN [worker[g] EXCEPT !.step = "attempt", !.attempt = n + 1]
                                          ELSE [worker[g] EXCEPT !.step = "failed"]
<1>1. worker' = [worker EXCEPT ![g] = w]
  BY DEF NextAttempt, IInv, TypeOK
<1>2. w \in WorkerOf(g) /\ w.step \in {"attempt", "failed"}
  <2>1. worker[g] \in WorkerOf(g) /\ Len(Precisions[g]) \in Nat
    BY WorkerHere, PlanAssumption, LenProperties
  <2>2. CASE n < Len(Precisions[g])
    <3>1. n + 1 \in 1..Len(Precisions[g])
      BY <2>1, <2>2 DEF WorkerOf
    <3> QED
      BY <2>1, <2>2, <3>1 DEF WorkerOf, Steps, Working
  <2>3. CASE ~(n < Len(Precisions[g]))
    BY <2>1, <2>3 DEF WorkerOf, Steps, Failed
  <2> QED
    BY <2>2, <2>3
<1>3. lock # g /\ source[g] # None /\ driver.phase \notin {"off", "pack"}
  BY WorkerHere DEF GraphInv, Writing, Outside, Succeeded, Working
<1> HIDE DEF w
<1>4. GraphInv(g)'
  <2>1. worker'[g] = w
    BY <1>1 DEF IInv, TypeOK
  <2> QED
    BY <1>2, <1>3, <2>1 DEF GraphInv, Writing, Working, Succeeded, Recorded
<1>5. NoRaise' => \A h \in Graphs : EntryInv(h)'
  <2>1. w.step \notin {"compiled"} \cup Writing /\ worker[g].step \in {"wait"} \cup Working
    BY <1>2 DEF Writing, Working
  <2> QED
    BY <1>1, <1>2, <2>1, EntriesStay
<1> QED
  BY <1>1, <1>2, <1>4, <1>5, WorkerHere, GraphStep

\* A failing compiler, whatever it leaves behind.
LEMMA FailsKeeps == ASSUME IInv, NEW g \in Graphs, CompilerFails(g) PROVE IInv'
<1>1. PICK left \in {retained[g], Partial(Elf(g)), Elf(g)} : retained' = [retained EXCEPT ![g] = left]
  BY DEF CompilerFails
<1>2. source[g] # None
  BY WorkerHere DEF CompilerFails, GraphInv, Working
<1>3. left \in ELFs \cup {None}
  BY <1>2, ElfTyped, WorkerHere DEF IInv
<1> QED
  BY <1>1, <1>3, NextAttemptKeeps DEF CompilerFails

\* An exit with 0 and no ELF is a failed attempt.
LEMMA ApuKeeps == ASSUME IInv, NEW g \in Graphs, CompilerPlacesOnApu(g) PROVE IInv'
<1>1. retained[g] = None
  BY WorkerHere DEF CompilerPlacesOnApu, GraphInv
<1>2. NextAttempt(g) /\ worker[g].step = "compile" /\ UNCHANGED <<source, record, retained, published, driver, lock>>
  BY <1>1 DEF CompilerPlacesOnApu, tree
<1> QED
  BY <1>2, WorkerHere, NextAttemptKeeps

\* Publishing copies the retained ELF.
LEMMA PublishKeeps == ASSUME IInv, NEW g \in Graphs, Publish(g) PROVE IInv'
<1> DEFINE s == IF worker[g].step = "reuse" THEN "reused" ELSE "record"
           w == [worker[g] EXCEPT !.step = s]
<1>1. worker[g].step \in {"publish", "reuse"} /\ worker' = [worker EXCEPT ![g] = w]
      /\ published' = [published EXCEPT ![g] = retained[g]]
      /\ UNCHANGED <<source, record, retained, driver, lock>>
  BY DEF Publish, Goto, IInv, TypeOK
<1>2. w \in WorkerOf(g) /\ w.step = s /\ w.attempt = worker[g].attempt
  BY WorkerHere DEF WorkerOf, Steps, Working, Succeeded
<1>3. lock # g /\ source[g] # None /\ driver.phase \notin {"off", "pack"}
  BY <1>1, WorkerHere DEF GraphInv, Writing, Outside, Succeeded, Working
<1>4. GraphInv(g)'
  <2>1. worker'[g] = w /\ published'[g] = retained[g]
    BY <1>1 DEF IInv, TypeOK
  <2>2. Elf(g)' = Elf(g)
    BY <1>1, <1>2, <2>1 DEF Elf
  <2>3. s = "record" => retained[g] = Elf(g)
    BY <1>1, WorkerHere DEF GraphInv
  <2>4. s = "reused" => ~driver.force
    BY <1>1, WorkerHere DEF GraphInv
  <2>5. s \in {"reused", "record"}
    OBVIOUS
  <2> HIDE DEF w, s
  <2> QED
    BY <1>1, <1>2, <1>3, <2>1, <2>2, <2>3, <2>4, <2>5 DEF GraphInv, Writing, Working, Succeeded, Recorded
<1>5. NoRaise' => \A h \in Graphs : EntryInv(h)'
  <2>1. w.step \notin {"compiled"} \cup Writing /\ worker[g].step \in {"wait"} \cup Working
    BY <1>1, <1>2 DEF Writing, Working
  <2> HIDE DEF w
  <2> QED
    BY <1>1, <1>2, <2>1, EntriesStay
<1> HIDE DEF w
<1> QED
  BY <1>1, <1>2, <1>4, <1>5, WorkerHere, GraphStep

\* _record, first step: the lock is free, and the state is read.
LEMMA ReadStateKeeps == ASSUME IInv, NEW g \in Graphs, ReadState(g) PROVE IInv'
<1> DEFINE w == [worker[g] EXCEPT !.step = "truncate", !.state = record]
<1>1. worker[g].step = "record" /\ lock = None /\ lock' = g /\ worker' = [worker EXCEPT ![g] = w]
      /\ UNCHANGED <<source, record, retained, published, driver>>
  BY DEF ReadState, Free, tree, IInv, TypeOK
<1>2. w \in WorkerOf(g) /\ w.step = "truncate" /\ w.attempt = worker[g].attempt /\ w.state = record
  BY WorkerHere DEF WorkerOf, Steps, Working
<1>3. source[g] # None /\ driver.phase \notin {"off", "pack"}
  BY <1>1, WorkerHere DEF GraphInv, Outside, Succeeded, Working
<1> HIDE DEF w
<1>4. worker'[g] = w /\ \A h \in Graphs \ {g} : worker'[h] = worker[h]
  BY <1>1 DEF IInv, TypeOK
<1>5. GraphInv(g)'
  <2>1. Elf(g)' = Elf(g)
    BY <1>1, <1>2, <1>4 DEF Elf
  <2>2. published[g] = Elf(g)
    BY <1>1, WorkerHere DEF GraphInv, Recorded
  <2> QED
    BY <1>1, <1>2, <1>3, <1>4, <2>1, <2>2 DEF GraphInv, Writing, Working, Succeeded, Recorded
<1>6. ASSUME NoRaise', NEW h \in Graphs, worker'[h].step = "compiled" PROVE EntryInv(h)'
  <2>1. NoRaise
    BY <1>1, <1>4, <1>6 DEF NoRaise
  <2>2. h # g
    BY <1>2, <1>4, <1>6
  <2>3. record[h] = Entry(h)
    BY <1>1, <1>4, <1>6, <2>1, <2>2 DEF IInv, EntryInv
  <2>4. \A k \in Graphs \ {g} : worker'[k].step \notin Writing
    BY <1>1, <1>4, PlanAssumption DEF IInv, GraphInv
  <2>5. Entry(h)' = Entry(h)
    BY <1>1, <1>4, <2>2 DEF Entry
  <2> QED
    BY <1>1, <1>2, <1>4, <2>3, <2>4, <2>5, PlanAssumption DEF EntryInv
<1>7. NoRaise' => \A h \in Graphs : EntryInv(h)'
  BY <1>6 DEF EntryInv
<1>8. \A h \in Graphs \ {g} : lock' = h <=> lock = h
  BY <1>1, PlanAssumption
<1> QED
  BY <1>1, <1>2, <1>5, <1>7, <1>8, WorkerHere, GraphStep

\* _record, second step: the file is empty, and the entries are in the copy.
LEMMA TruncateKeeps == ASSUME IInv, NEW g \in Graphs, Truncate(g) PROVE IInv'
<1> DEFINE w == [worker[g] EXCEPT !.step = "write"]
<1>1. worker[g].step = "truncate" /\ record' = NoEntries /\ worker' = [worker EXCEPT ![g] = w]
      /\ UNCHANGED <<source, retained, published, driver, lock>>
  BY DEF Truncate, Goto, IInv, TypeOK
<1>2. w \in WorkerOf(g) /\ w.step = "write" /\ w.attempt = worker[g].attempt /\ w.state = worker[g].state
  BY WorkerHere DEF WorkerOf, Steps, Working
<1>3. source[g] # None /\ driver.phase \notin {"off", "pack"} /\ lock = g
  BY <1>1, WorkerHere DEF GraphInv, Outside, Succeeded, Working, Writing
<1> HIDE DEF w
<1>4. worker'[g] = w /\ \A h \in Graphs \ {g} : worker'[h] = worker[h]
  BY <1>1 DEF IInv, TypeOK
<1>5. GraphInv(g)'
  <2>1. Elf(g)' = Elf(g)
    BY <1>1, <1>2, <1>4 DEF Elf
  <2>2. published[g] = Elf(g)
    BY <1>1, WorkerHere DEF GraphInv, Recorded
  <2> QED
    BY <1>1, <1>2, <1>3, <1>4, <2>1, <2>2 DEF GraphInv, Writing, Working, Succeeded, Recorded
<1>6. ASSUME NoRaise', NEW h \in Graphs, worker'[h].step = "compiled" PROVE EntryInv(h)'
  <2>1. NoRaise
    BY <1>1, <1>4, <1>6 DEF NoRaise
  <2>2. h # g
    BY <1>2, <1>4, <1>6
  <2>3. EntryInv(h) /\ worker[h].step = "compiled"
    BY <1>4, <1>6, <2>1, <2>2 DEF IInv
  <2>4. \A k \in Graphs : worker'[k].step \in Writing =>
          worker[k].step \in Writing /\ worker'[k].state = worker[k].state
    BY <1>1, <1>2, <1>4 DEF Writing
  <2>5. Entry(h)' = Entry(h)
    BY <1>1, <1>4, <2>2 DEF Entry
  <2> QED
    BY <1>1, <1>3, <2>3, <2>4, <2>5, PlanAssumption DEF EntryInv
<1>7. NoRaise' => \A h \in Graphs : EntryInv(h)'
  BY <1>6 DEF EntryInv
<1>8. record' \in [Graphs -> Entries \cup {None}]
  BY <1>1 DEF NoEntries
<1> QED
  BY <1>1, <1>2, <1>5, <1>7, <1>8, WorkerHere, GraphStep

\* _record, third step: the copy and the new entry are in the file.
LEMMA WriteStateKeeps == ASSUME IInv, NEW g \in Graphs, WriteState(g) PROVE IInv'
<1> DEFINE w == [worker[g] EXCEPT !.step = "compiled", !.state = NoEntries]
<1>1. worker[g].step = "write" /\ record' = [worker[g].state EXCEPT ![g] = Entry(g)] /\ lock' = None
      /\ worker' = [worker EXCEPT ![g] = w] /\ UNCHANGED <<source, retained, published, driver>>
  BY DEF WriteState, IInv, TypeOK
<1>2. w \in WorkerOf(g) /\ w.step = "compiled" /\ w.attempt = worker[g].attempt
  <2>1. NoEntries \in [Graphs -> Entries \cup {None}]
    BY DEF NoEntries
  <2> QED
    BY <2>1, WorkerHere DEF WorkerOf, Steps, Succeeded
<1>3. source[g] # None /\ driver.phase \notin {"off", "pack"} /\ lock = g
  BY <1>1, WorkerHere DEF GraphInv, Outside, Succeeded, Working, Writing
<1> HIDE DEF w
<1>4. worker'[g] = w /\ \A h \in Graphs \ {g} : worker'[h] = worker[h]
  BY <1>1 DEF IInv, TypeOK
<1>5. worker[g].state \in [Graphs -> Entries \cup {None}] /\ Entry(g) \in Entries
  BY <1>3, WorkerHere, ElfTyped DEF WorkerOf, IInv
<1>6. record' \in [Graphs -> Entries \cup {None}] /\ record'[g] = Entry(g)
      /\ \A h \in Graphs \ {g} : record'[h] = worker[g].state[h]
  BY <1>1, <1>5
<1>7. GraphInv(g)'
  <2>1. Elf(g)' = Elf(g)
    BY <1>1, <1>2, <1>4 DEF Elf
  <2>2. published[g] = Elf(g)
    BY <1>1, WorkerHere DEF GraphInv, Recorded
  <2> QED
    BY <1>1, <1>2, <1>3, <1>4, <2>1, <2>2, PlanAssumption DEF GraphInv, Writing, Working, Succeeded, Recorded
<1>8. \A k \in Graphs : worker'[k].step \notin Writing
  BY <1>2, <1>3, <1>4 DEF IInv, GraphInv, Writing
<1>9. ASSUME NoRaise', NEW h \in Graphs, worker'[h].step = "compiled" PROVE record'[h] = Entry(h)'
  <2>1. NoRaise
    BY <1>1, <1>4, <1>9 DEF NoRaise
  <2>2. Entry(h)' = Entry(h)
    BY <1>1, <1>2, <1>4 DEF Entry
  <2>3. h # g => worker[g].state[h] = Entry(h)
    BY <1>1, <1>4, <1>9, <2>1 DEF IInv, EntryInv, Writing
  <2> QED
    BY <1>6, <2>2, <2>3
<1>10. NoRaise' => \A h \in Graphs : EntryInv(h)'
  BY <1>8, <1>9 DEF EntryInv
<1>11. \A h \in Graphs \ {g} : lock' = h <=> lock = h
  BY <1>1, <1>3, PlanAssumption
<1> QED
  BY <1>1, <1>2, <1>6, <1>7, <1>10, <1>11, WorkerHere, GraphStep

\* A worker of a pool that raises gives the lock back.
LEMMA RaiseKeeps == ASSUME IInv, NEW g \in Graphs, Raise(g) PROVE IInv'
<1> DEFINE w == [worker[g] EXCEPT !.step = "raised", !.state = NoEntries]
<1>1. PICK torn \in TornCopy(g) : published' = [published EXCEPT ![g] = torn]
  BY DEF Raise
<1>2. worker[g].step \in {"attempt", "publish", "reuse", "truncate", "write"}
      /\ lock' = (IF lock = g THEN None ELSE lock)
      /\ worker' = [worker EXCEPT ![g] = w] /\ UNCHANGED <<source, record, retained, driver>>
  BY DEF Raise, Released, IInv, TypeOK
<1>3. w \in WorkerOf(g) /\ w.step = "raised"
  <2>1. NoEntries \in [Graphs -> Entries \cup {None}]
    BY DEF NoEntries
  <2> QED
    BY <2>1, WorkerHere DEF WorkerOf, Steps, Failed
<1>4. source[g] # None /\ driver.phase \notin {"off", "pack"}
  BY <1>2, WorkerHere DEF GraphInv, Outside, Succeeded, Working
<1>5. torn \in ELFs \cup {None}
  <2>1. CASE worker[g].step \in {"publish", "reuse"}
    <3>1. retained[g] \in ELFs
      BY <1>4, <2>1, WorkerHere, ElfTyped DEF GraphInv, IInv
    <3> QED
      BY <2>1, <3>1, WorkerHere, PartialTyped DEF TornCopy
  <2>2. CASE worker[g].step \notin {"publish", "reuse"}
    BY <2>2, WorkerHere DEF TornCopy
  <2> QED
    BY <2>1, <2>2
<1> HIDE DEF w
<1>6. worker'[g] = w
  BY <1>2 DEF IInv, TypeOK
<1>7. lock' \in Graphs \cup {None} /\ lock' # g /\ \A h \in Graphs \ {g} : lock' = h <=> lock = h
  BY <1>2, WorkerHere, PlanAssumption
<1>8. GraphInv(g)'
  BY <1>2, <1>3, <1>4, <1>6, <1>7 DEF GraphInv, Writing, Working, Succeeded, Recorded
<1>9. ~NoRaise'
  BY <1>3, <1>6 DEF NoRaise
<1> QED
  BY <1>1, <1>2, <1>3, <1>5, <1>7, <1>8, <1>9, WorkerHere, GraphStep

\* Ctrl-C on a pool changes no worker.
LEMMA InterruptKeeps == ASSUME IInv, Interrupt PROVE IInv'
<1>1. /\ driver' = [driver EXCEPT !.interrupted = TRUE] /\ driver.phase = "run"
      /\ UNCHANGED <<source, record, retained, published, worker, lock>>
  BY DEF Interrupt, tree
<1>2. driver' \in [phase : {"off", "run", "pack"}, force : BOOLEAN, workers : Nat \ {0}, interrupted : BOOLEAN]
      /\ driver'.phase = "run" /\ driver'.force = driver.force
  BY <1>1 DEF IInv, TypeOK
<1>3. TypeOK'
  BY <1>1, <1>2 DEF IInv, TypeOK
<1>4. \A g \in Graphs : GraphInv(g)'
  BY <1>1, <1>2 DEF IInv, GraphInv, Elf
<1>5. NoRaise' => \A g \in Graphs : EntryInv(g)'
  BY <1>1 DEF IInv, EntryInv, NoRaise, Entry
<1> QED
  BY <1>3, <1>4, <1>5 DEF IInv

\* A killed run leaves files of the right kind, some of them cut short.
LEMMA KilledKeeps == ASSUME IInv, Killed PROVE IInv'
<1>1. PICK left \in [InStep({"compile"}) -> {"nothing", "partial", "whole"}] :
       retained' = [g \in Graphs |->
         IF g \notin DOMAIN left \/ left[g] = "nothing" THEN retained[g]
         ELSE IF left[g] = "whole" THEN Elf(g) ELSE Partial(Elf(g))]
  BY DEF Killed
<1>2. PICK torn \in SUBSET InStep({"publish", "reuse"}) :
       published' = [g \in Graphs |-> IF g \in torn THEN Partial(retained[g]) ELSE published[g]]
  BY DEF Killed
<1>3. \A g \in Graphs : retained'[g] \in ELFs \cup {None}
  <2> TAKE g \in Graphs
  <2>1. CASE g \in DOMAIN left
    <3>1. worker[g].step = "compile"
      BY <2>1 DEF InStep
    <3>2. source[g] # None
      BY <3>1, WorkerHere DEF GraphInv, Working
    <3> QED
      BY <1>1, <3>2, ElfTyped, WorkerHere DEF IInv
  <2>2. CASE g \notin DOMAIN left
    BY <1>1, <2>2, WorkerHere
  <2> QED
    BY <2>1, <2>2
<1>4. \A g \in Graphs : published'[g] \in ELFs \cup {None}
  <2> TAKE g \in Graphs
  <2>1. CASE g \in torn
    <3>1. worker[g].step \in {"publish", "reuse"}
      BY <1>2, <2>1 DEF InStep
    <3>2. retained[g] \in ELFs
      BY <3>1, WorkerHere, ElfTyped DEF GraphInv, Working, IInv
    <3> QED
      BY <1>2, <2>1, <3>2, PartialTyped
  <2>2. CASE g \notin torn
    BY <1>2, <2>2, WorkerHere
  <2> QED
    BY <2>1, <2>2
<1>5. retained' \in [Graphs -> ELFs \cup {None}] /\ published' \in [Graphs -> ELFs \cup {None}]
  BY <1>1, <1>2, <1>3, <1>4
<1>6. source' \in [Graphs -> AllInputs \cup {None}] /\ record' \in [Graphs -> Entries \cup {None}] /\ Over
  BY DEF Killed, IInv, TypeOK
<1> QED
  BY <1>5, <1>6, OverKeeps

\* A run ends, or goes on to pack when every graph of it succeeded.
LEMMA FinishKeeps == ASSUME IInv, Finish PROVE IInv'
<1>1. UNCHANGED <<source, record, retained, published>>
  BY DEF Finish, tree
<1>2. CASE Over
  BY <1>1, <1>2, OverKeeps DEF IInv, TypeOK
<1>3. CASE Packs /\ driver' = [driver EXCEPT !.phase = "pack"] /\ UNCHANGED <<worker, lock>>
  <2>1. driver' \in [phase : {"off", "run", "pack"}, force : BOOLEAN, workers : Nat \ {0}, interrupted : BOOLEAN]
        /\ driver'.phase = "pack" /\ driver'.force = driver.force
    BY <1>3 DEF IInv, TypeOK
  <2>2. TypeOK'
    BY <1>1, <1>3, <2>1 DEF IInv, TypeOK
  <2>3. \A g \in Graphs : worker[g].step \in {"out"} \cup Succeeded
    <3> TAKE g \in Graphs
    <3>1. worker[g].step \in Steps
      BY DEF IInv, TypeOK
    <3>2. worker[g].step \notin Working \cup Failed \cup {"wait"}
      BY <1>3 DEF Finish, AllDone, Packs, InStep
    <3> QED
      BY <3>1, <3>2 DEF Steps
  <2>4. \A g \in Graphs : GraphInv(g)'
    BY <1>1, <1>3, <2>1, <2>3 DEF IInv, GraphInv, Elf
  <2>5. NoRaise' => \A g \in Graphs : EntryInv(g)'
    BY <1>1, <1>3 DEF IInv, EntryInv, NoRaise, Entry
  <2> QED
    BY <2>2, <2>4, <2>5 DEF IInv
<1> QED
  BY <1>2, <1>3 DEF Finish

\* The invariant is inductive: one case for each action.
LEMMA Inductive == IInv /\ [Next]_vars => IInv'
<1> SUFFICES ASSUME IInv, [Next]_vars PROVE IInv'
  OBVIOUS
<1>1. ASSUME NEW g \in Graphs, Export(g) PROVE IInv'
  <2>1. PICK i \in Inputs[g] : source' = [source EXCEPT ![g] = i]
    BY <1>1 DEF Export
  <2>2. source' \in [Graphs -> AllInputs \cup {None}]
    BY <2>1 DEF IInv, TypeOK, AllInputs
  <2> QED
    BY <1>1, <2>2, OffKeeps DEF Export, IInv, TypeOK
<1>2. ASSUME CleanAll PROVE IInv'
  <2>1. /\ source' \in [Graphs -> AllInputs \cup {None}] /\ record' \in [Graphs -> Entries \cup {None}]
        /\ retained' \in [Graphs -> ELFs \cup {None}] /\ published' \in [Graphs -> ELFs \cup {None}]
    BY <1>2 DEF CleanAll, NoEntries
  <2> QED
    BY <1>2, <2>1, OffKeeps DEF CleanAll
<1>3. ASSUME NEW g \in Graphs, CompileGraph(g) PROVE IInv'
  BY <1>3, StartKeeps, AttemptKeeps, SucceedsKeeps, FailsKeeps, ApuKeeps, PublishKeeps,
     ReadStateKeeps, TruncateKeeps, WriteStateKeeps, RaiseKeeps DEF CompileGraph
<1>4. ASSUME Pack PROVE IInv'
  BY <1>4, OverKeeps DEF Pack, tree, IInv, TypeOK
<1>5. ASSUME UNCHANGED vars PROVE IInv'
  <2>1. UNCHANGED <<source, record, retained, published, driver, worker, lock>>
    BY <1>5 DEF vars
  <2>2. TypeOK'
    BY <2>1 DEF IInv, TypeOK
  <2>3. \A g \in Graphs : GraphInv(g)'
    BY <2>1 DEF IInv, GraphInv, Elf
  <2>4. NoRaise' => \A g \in Graphs : EntryInv(g)'
    BY <2>1 DEF IInv, EntryInv, NoRaise, Entry
  <2> QED
    BY <2>2, <2>3, <2>4 DEF IInv
<1> QED
  BY <1>1, <1>2, <1>3, <1>4, <1>5, RunKeeps, InterruptKeeps, KilledKeeps, FinishKeeps DEF Next

\* The invariant holds in every reachable state.
LEMMA Always == Spec => []IInv
BY Initially, Inductive, PTL DEF Spec

\* Every reachable state is well typed, for every plan and every set of inputs.
THEOREM CompileTyped == Spec => []TypeOK
<1>1. IInv => TypeOK
  BY DEF IInv
<1> QED
  BY <1>1, Always, PTL

\* A graph reported as built is published as the finished ELF of the input and
\* the precision of this run, whatever earlier runs left in the tree.
THEOREM CompiledFresh == Spec => []CompiledIsFresh
<1>1. IInv => CompiledIsFresh
  BY DEF IInv, GraphInv, CompiledIsFresh, InStep, Recorded
<1> QED
  BY <1>1, Always, PTL

\* However many workers record at a time, the state file keeps the entry of
\* every graph the run built, unless a worker raised.
THEOREM RecordsKept == Spec => []NoLostRecord
<1>1. IInv => NoLostRecord
  <2> SUFFICES ASSUME IInv, lock = None, InStep({"raised"}) = {}, NEW g \in InStep({"compiled"})
               PROVE record[g] = Entry(g)
    BY DEF NoLostRecord
  <2>1. NoRaise
    BY DEF NoRaise, InStep
  <2>2. g \in Graphs /\ worker[g].step = "compiled"
    BY DEF InStep
  <2> QED
    BY <2>1, <2>2 DEF IInv, EntryInv
<1> QED
  BY <1>1, Always, PTL

\* A run that recompiled every graph packs the finished ELFs of the exported
\* inputs and nothing else.
THEOREM PackCurrent == Spec => []PackedIsCurrent
<1>1. IInv => PackedIsCurrent
  <2> SUFFICES ASSUME IInv, driver.phase = "pack", driver.force, Selected = Graphs, NEW g \in Graphs
               PROVE Packed(g) = Elf(g)
    BY DEF PackedIsCurrent
  <2>1. worker[g].step = "compiled"
    BY WorkerHere DEF GraphInv, Selected, Succeeded
  <2>2. published[g] = Elf(g) /\ source[g] # None
    BY <2>1, WorkerHere DEF GraphInv, Recorded, Succeeded
  <2>3. Elf(g) # None
    BY <2>2, ElfTyped DEF IInv
  <2> QED
    BY <2>2, <2>3 DEF Packed
<1> QED
  BY <1>1, Always, PTL
=============================================================================
