------------------------------ MODULE Portfolio ------------------------------
(***************************************************************************)
(* The multi-threaded solver portfolio of the general solver: the waiting  *)
(* loops of SygusDispatcher.runAlgorithm (numCore > 1) and the run()       *)
(* methods of the worker threads they start, coordinated by one CEGISEnv   *)
(* (a Java monitor and the AtomicInteger runningThreads) and a Producer1D  *)
(* that hands out search heights.                                          *)
(*                                                                         *)
(* What a worker searches is abstracted to the outcomes of one call of     *)
(* cegis(), cegisGeneral(), search() or solve(): a verified result, a      *)
(* height given up, the iteration limit, a stop request, an exception.     *)
(* Every access to shared state is a step of its own.                      *)
(*                                                                         *)
(* Kinds of worker: "cegis" Cegis.run (CLIA or general track), "fh"        *)
(* Cegis.run under enforceFHCEGIS, "it" ITCegis.run, "at" AT.run and       *)
(* "invdnc" InvDnC.run (thread 0 only, the others being fallback CEGIS).   *)
(* A Cegis.run that calls EUSolver is not among them: initAlgorithm then   *)
(* runs on one core.                                                       *)
(***************************************************************************)
EXTENDS Integers, FiniteSets

CONSTANTS
  NumCore,          \* number of worker threads
  Requests,         \* number of functions to synthesise (length of results)
  Options,          \* the configurations a run may be started in
  SpuriousWakeups,  \* whether Object.wait may return without a notify
  MaxHeight         \* bound: past it a search no longer gives up its height

Threads == 0 .. NumCore - 1
Leads == {"at", "invdnc"}        \* run() calls one solver once
Kinds == {"cegis", "it", "fh"} \cup Leads

\* A configuration: the run() method of each thread; iterLimit > 0; a general
\* problem; all requested functions Boolean; and what the dispatcher is asked
\* for: a solution, only a report (heightsOnly, or methodOnly in the AT and
\* INVDNC loops), or only whether a template applies (env.checkITOnly, which
\* checkTmplt sets when all threads are ITCegis).
Configs ==
  {o \in [kind : [Threads -> Kinds], iterLimited : BOOLEAN,
          isGeneral : BOOLEAN, isINV : BOOLEAN,
          mode : {"solve", "report", "checkIT"}] :
     /\ \A t \in Threads : o.kind[t] \in Leads => t = 0
     /\ o.isGeneral => \A t \in Threads : o.kind[t] # "fh"
     /\ o.mode = "checkIT" => \A t \in Threads : o.kind[t] = "it"}

ASSUME PortfolioAssumption ==
  /\ NumCore \in Nat \ {0, 1}
  /\ Requests \in Nat \ {0}
  /\ Options \subseteq Configs
  /\ SpuriousWakeups \in BOOLEAN
  /\ MaxHeight \in Nat

Null == -1          \* a null reference: no results array, no thread chosen

VARIABLES
  opts,             \* the configuration of this run
  pc,               \* where each worker is in its run()
  results,          \* Cegis.results: Null, or how many elements are assigned
  running,          \* Cegis.running
  nosolution,       \* Cegis.nosolution
  fixedHeight,      \* the height each worker searches (0: none yet)
  height,           \* Producer1D.height
  runningThreads,   \* CEGISEnv.runningThreads
  tmpltApplied,     \* CEGISEnv.tmpltApplied
  main,             \* where the dispatcher's thread is
  next,             \* the loop index of its start and scan loops
  answer,           \* its local results: the thread whose array it refers to
  noAnswer          \* SygusDispatcher.nosolution

workerVars == <<pc, results, running, nosolution, fixedHeight>>
envVars == <<opts, height, runningThreads, tmpltApplied>>
mainVars == <<main, next, answer, noAnswer>>
vars == <<workerVars, envVars, mainVars>>

\* Positions at which a worker is counted by runningThreads. A "leaked"
\* worker has left run() without decrementing it.
Counted == {"get", "loop", "search", "fill", "extend", "notify", "dec", "leaked"}
PCs == {"created", "started", "done"} \cup Counted
MainPCs == {"start", "wait", "waiting", "scan", "check", "returned"}

TypeOK ==
  /\ opts \in Options
  /\ pc \in [Threads -> PCs]
  /\ results \in [Threads -> {Null} \cup 0 .. Requests]
  /\ running \in [Threads -> BOOLEAN]
  /\ nosolution \in [Threads -> BOOLEAN]
  /\ fixedHeight \in [Threads -> Nat]
  /\ height \in Nat \ {0}
  /\ runningThreads \in Int
  /\ tmpltApplied \in BOOLEAN
  /\ main \in MainPCs
  /\ next \in 0 .. NumCore
  /\ answer \in {Null} \cup Threads
  /\ noAnswer \in BOOLEAN

\* initAlgorithm has created the threads; runAlgorithm is about to start them.
Init ==
  /\ opts \in Options
  /\ pc = [t \in Threads |-> "created"]
  /\ results = [t \in Threads |-> Null]
  /\ running = [t \in Threads |-> TRUE]
  /\ nosolution = [t \in Threads |-> FALSE]
  /\ fixedHeight = [t \in Threads |-> 0]
  /\ height = 1
  /\ runningThreads = 0
  /\ tmpltApplied = FALSE
  /\ main = "start"
  /\ next = 0
  /\ answer = Null
  /\ noAnswer = FALSE

-----------------------------------------------------------------------------
(***************************************************************************)
(* The dispatcher's thread.                                                *)
(***************************************************************************)

Goto(t, l) == pc' = [pc EXCEPT ![t] = l]

\* threads[i].start()
StartThread ==
  /\ main = "start"
  /\ Goto(next, "started")
  /\ next' = IF next + 1 = NumCore THEN 0 ELSE next + 1
  /\ main' = IF next + 1 = NumCore THEN "wait" ELSE "start"
  /\ UNCHANGED <<results, running, nosolution, fixedHeight, envVars, answer,
                 noAnswer>>

\* synchronized(env) { env.wait(); }: nothing is tested before the wait.
EnterWait ==
  /\ main = "wait"
  /\ main' = "waiting"
  /\ UNCHANGED <<workerVars, envVars, next, answer, noAnswer>>

SpuriousWake ==
  /\ SpuriousWakeups
  /\ main = "waiting"
  /\ main' = "scan"
  /\ UNCHANGED <<workerVars, envVars, next, answer, noAnswer>>

\* Mutant: the array is taken without the test for null.
ScanUnguarded ==
  /\ main = "scan"
  /\ next' = IF next + 1 = NumCore THEN 0 ELSE next + 1
  /\ main' = IF next + 1 = NumCore THEN "check" ELSE "scan"
  /\ answer' = next
  /\ UNCHANGED <<workerVars, envVars, noAnswer>>

\* Mutant: a later thread without results erases an earlier thread's.
ScanErases ==
  /\ main = "scan"
  /\ next' = IF next + 1 = NumCore THEN 0 ELSE next + 1
  /\ main' = IF next + 1 = NumCore THEN "check" ELSE "scan"
  /\ answer' = IF results[next] # Null THEN next ELSE Null
  /\ UNCHANGED <<workerVars, envVars, noAnswer>>

\* One iteration of the loop over the threads: a later thread's results
\* replace an earlier one's, and nosolution is looked at only beside results.
ScanThread ==
  /\ main = "scan"
  /\ next' = IF next + 1 = NumCore THEN 0 ELSE next + 1
  /\ main' = IF next + 1 = NumCore THEN "check" ELSE "scan"
  /\ answer' = IF results[next] # Null THEN next ELSE answer
  /\ noAnswer' = (noAnswer \/ (results[next] # Null /\ nosolution[next]))
  /\ UNCHANGED <<workerVars, envVars>>

\* runningThreads.get() == 0: return results, whatever they are.
ReturnIdle ==
  /\ main = "check"
  /\ runningThreads = 0
  /\ main' = "returned"
  /\ UNCHANGED <<workerVars, envVars, next, answer, noAnswer>>

\* Mutant: only the first thread is told to stop.
StopOneAndReturn ==
  /\ main = "check"
  /\ runningThreads # 0
  /\ opts.mode = "checkIT"
  /\ running' = [running EXCEPT ![0] = FALSE]
  /\ main' = "returned"
  /\ UNCHANGED <<pc, results, nosolution, fixedHeight, envVars, next, answer,
                 noAnswer>>

\* env.checkITOnly: clear running on every Cegis thread, return results.
StopAndReturn ==
  /\ main = "check"
  /\ runningThreads # 0
  /\ opts.mode = "checkIT"
  /\ running' = [t \in Threads |-> running[t] /\ opts.kind[t] \in Leads]
  /\ main' = "returned"
  /\ UNCHANGED <<pc, results, nosolution, fixedHeight, envVars, next, answer,
                 noAnswer>>

\* heightsOnly / methodOnly: the wake-up is enough, null is returned.
ReturnReport ==
  /\ main = "check"
  /\ runningThreads # 0
  /\ opts.mode = "report"
  /\ answer' = Null
  /\ main' = "returned"
  /\ UNCHANGED <<workerVars, envVars, next, noAnswer>>

\* while (results == null)
LoopOrReturn ==
  /\ main = "check"
  /\ runningThreads # 0
  /\ opts.mode = "solve"
  /\ main' = IF answer = Null THEN "wait" ELSE "returned"
  /\ UNCHANGED <<workerVars, envVars, next, answer, noAnswer>>

Main ==
  \/ StartThread \/ EnterWait \/ ScanThread
  \/ ReturnIdle \/ StopAndReturn \/ ReturnReport \/ LoopOrReturn

-----------------------------------------------------------------------------
(***************************************************************************)
(* The workers.                                                            *)
(***************************************************************************)

\* The branches of run() that precede its loop. ITCegis.run returns at once
\* on a general problem.
Entry(t) ==
  IF opts.kind[t] \in Leads THEN "search"
  ELSE IF opts.kind[t] # "it" THEN "loop"
  ELSE IF opts.isGeneral THEN "leaked" ELSE "get"

\* Mutant: AT.run and InvDnC.run do not count themselves in.
BeginUncounted(t) ==
  /\ pc[t] = "started"
  /\ runningThreads' = runningThreads + (IF opts.kind[t] \in Leads THEN 0 ELSE 1)
  /\ Goto(t, Entry(t))
  /\ UNCHANGED <<results, running, nosolution, fixedHeight, height,
                 tmpltApplied, opts, mainVars>>

\* env.runningThreads.incrementAndGet() is the first statement of run().
Begin(t) ==
  /\ pc[t] = "started"
  /\ runningThreads' = runningThreads + 1
  /\ Goto(t, Entry(t))
  /\ UNCHANGED <<results, running, nosolution, fixedHeight, height,
                 tmpltApplied, opts, mainVars>>

\* Mutant: the increment of an unsynchronised get() is lost.
TakeHeightLost(t, l) ==
  /\ fixedHeight' = [fixedHeight EXCEPT ![t] = height]
  /\ height' \in {height, height + 1}
  /\ Goto(t, l)
  /\ UNCHANGED <<results, running, nosolution, runningThreads, tmpltApplied,
                 opts, mainVars>>

\* Producer1D.get(), atomic under its own lock.
TakeHeight(t, l) ==
  /\ fixedHeight' = [fixedHeight EXCEPT ![t] = height]
  /\ height' = height + 1
  /\ Goto(t, l)
  /\ UNCHANGED <<results, running, nosolution, runningThreads, tmpltApplied,
                 opts, mainVars>>

\* while (results == null && running) { fixedHeight = pdc1D.get(); ...
NextHeight(t) ==
  /\ pc[t] = "loop"
  /\ opts.kind[t] # "it"
  /\ results[t] = Null
  /\ running[t]
  /\ TakeHeight(t, "search")

\* Mutant: the worker drops its results on the way out of its loop.
LeaveLoopClearing(t) ==
  /\ pc[t] = "loop"
  /\ opts.kind[t] # "it"
  /\ results[t] # Null \/ ~running[t]
  /\ results' = [results EXCEPT ![t] = Null]
  /\ Goto(t, "notify")
  /\ UNCHANGED <<running, nosolution, fixedHeight, envVars, mainVars>>

\* The loop ends; Cegis.run goes on to notify.
LeaveLoop(t) ==
  /\ pc[t] = "loop"
  /\ opts.kind[t] # "it"
  /\ results[t] # Null \/ ~running[t]
  /\ Goto(t, "notify")
  /\ UNCHANGED <<results, running, nosolution, fixedHeight, envVars, mainVars>>

\* ITCegis.run fetches a height before its loop and when no template was
\* found, and tests running only.
ITNextHeight(t) ==
  /\ pc[t] = "get"
  /\ TakeHeight(t, "loop")

ITLoop(t) ==
  /\ pc[t] = "loop"
  /\ opts.kind[t] = "it"
  /\ Goto(t, IF running[t] THEN "search" ELSE "dec")
  /\ UNCHANGED <<results, running, nosolution, fixedHeight, envVars, mainVars>>

\* After cegis() has come back without a result.
AfterCegis(t) == IF opts.kind[t] = "it" THEN "extend" ELSE "loop"

\* The verifier accepts: results = new DefinedFunc[n], published unfilled.
Publish(t) ==
  /\ pc[t] = "search"
  /\ opts.kind[t] \in {"cegis", "it"}
  /\ results' = [results EXCEPT ![t] = 0]
  /\ Goto(t, "fill")
  /\ UNCHANGED <<running, nosolution, fixedHeight, envVars, mainVars>>

\* Mutant: ITCegis.run does not leave its loop when it has results.
AfterFillStay(t) == "loop"

\* After cegis() has come back with one.
AfterFill(t) == IF opts.kind[t] = "it" THEN "notify" ELSE "loop"

\* Mutant: the loop over the requested functions ends one too early.
FillShort(t) ==
  /\ pc[t] = "fill"
  /\ results' = [results EXCEPT ![t] = @ + 1]
  /\ Goto(t, IF results[t] + 2 < Requests THEN "fill" ELSE AfterFill(t))
  /\ UNCHANGED <<running, nosolution, fixedHeight, envVars, mainVars>>

\* results[i] = new DefinedFunc(...), then cegis() returns.
Fill(t) ==
  /\ pc[t] = "fill"
  /\ results' = [results EXCEPT ![t] = @ + 1]
  /\ Goto(t, IF results[t] + 1 < Requests THEN "fill" ELSE AfterFill(t))
  /\ UNCHANGED <<running, nosolution, fixedHeight, envVars, mainVars>>

\* UNSAT in the last region, a timeout or an unknown verdict: the height (or
\* vector length) is given up.
GiveUpHeight(t) ==
  /\ pc[t] = "search"
  /\ opts.kind[t] \in {"cegis", "it", "fh"}
  /\ height <= MaxHeight
  /\ Goto(t, AfterCegis(t))
  /\ UNCHANGED <<results, running, nosolution, fixedHeight, envVars, mainVars>>

\* iterCount > iterLimit: cegis() returns and run() leaves its loop. The
\* check is commented out in the fixed-height loop.
HitIterLimit(t) ==
  /\ pc[t] = "search"
  /\ opts.kind[t] \in {"cegis", "it"}
  /\ opts.iterLimited
  /\ Goto(t, "notify")
  /\ UNCHANGED <<results, running, nosolution, fixedHeight, envVars, mainVars>>

\* while (running) in cegis() sees the stop request.
StopSearch(t) ==
  /\ pc[t] = "search"
  /\ opts.kind[t] \in {"cegis", "it"}
  /\ ~running[t]
  /\ Goto(t, AfterCegis(t))
  /\ UNCHANGED <<results, running, nosolution, fixedHeight, envVars, mainVars>>

\* Fixed-height search: a combined solution is taken, unless the final check
\* of an invariant fails, which means there is none.
FHSolve(t) ==
  /\ pc[t] = "search"
  /\ opts.kind[t] = "fh"
  /\ \/ /\ results' = [results EXCEPT ![t] = Requests]
        /\ UNCHANGED nosolution
     \/ /\ opts.isINV
        /\ nosolution' = [nosolution EXCEPT ![t] = TRUE]
        /\ UNCHANGED results
  /\ Goto(t, "notify")
  /\ UNCHANGED <<running, fixedHeight, envVars, mainVars>>

\* AT.solve or InvDnC.solve comes back, with or without results.
LeadSolve(t) ==
  /\ pc[t] = "search"
  /\ opts.kind[t] \in Leads
  /\ \E r \in {Null, Requests} : results' = [results EXCEPT ![t] = r]
  /\ Goto(t, "notify")
  /\ UNCHANGED <<running, nosolution, fixedHeight, envVars, mainVars>>

\* InvDnC.solve: subresults.get(0) throws when no subproblem was solved, and
\* the thread dies between the increment and the decrement.
LeadThrow(t) ==
  /\ pc[t] = "search"
  /\ opts.kind[t] = "invdnc"
  /\ Goto(t, "leaked")
  /\ UNCHANGED <<results, running, nosolution, fixedHeight, envVars, mainVars>>

\* findExtension over the requested functions: a template keeps the height,
\* no template moves on, and the mode check ends at the first template. If the
\* first search gave up without any candidate, lastCands is still null, and the
\* thread dies of the exception; lastCands itself is not kept here.
Extend(t) ==
  /\ pc[t] = "extend"
  /\ \/ /\ Goto(t, IF opts.mode = "checkIT" THEN "notify" ELSE "loop")
        /\ tmpltApplied' = TRUE
     \/ /\ Goto(t, "get") \/ Goto(t, "leaked")
        /\ UNCHANGED tmpltApplied
  /\ UNCHANGED <<results, running, nosolution, fixedHeight, height,
                 runningThreads, opts, mainVars>>

\* synchronized(env) { env.notify(); }: wakes the dispatcher if it waits.
Notify(t) ==
  /\ pc[t] = "notify"
  /\ Goto(t, "dec")
  /\ main' = IF main = "waiting" THEN "scan" ELSE main
  /\ UNCHANGED <<results, running, nosolution, fixedHeight, envVars, next,
                 answer, noAnswer>>

\* env.runningThreads.decrementAndGet(), and run() returns.
Decrement(t) ==
  /\ pc[t] = "dec"
  /\ runningThreads' = runningThreads - 1
  /\ Goto(t, "done")
  /\ UNCHANGED <<results, running, nosolution, fixedHeight, height,
                 tmpltApplied, opts, mainVars>>

\* Steps a worker takes without calling a solver.
Control(t) ==
  \/ Begin(t) \/ NextHeight(t) \/ LeaveLoop(t) \/ ITNextHeight(t) \/ ITLoop(t)
  \/ Fill(t) \/ Extend(t) \/ Notify(t) \/ Decrement(t)

\* The ways in which a search ends.
Search(t) ==
  \/ Publish(t) \/ GiveUpHeight(t) \/ HitIterLimit(t) \/ StopSearch(t)
  \/ FHSolve(t) \/ LeadSolve(t) \/ LeadThrow(t)

Next ==
  \/ Main \/ SpuriousWake
  \/ \E t \in Threads : Control(t) \/ Search(t)

Spec == Init /\ [][Next]_vars

\* The JVM schedules every runnable thread; a solver call may run for ever.
FairSpec ==
  /\ Spec
  /\ WF_vars(Main)
  /\ \A t \in Threads : WF_vars(Control(t))

\* ... or returns at last, so that a search sees a stop request.
FairSolverSpec == FairSpec /\ \A t \in Threads : WF_vars(StopSearch(t))

-----------------------------------------------------------------------------
(***************************************************************************)
(* Properties.                                                             *)
(***************************************************************************)

\* Accounting: runningThreads is the number of workers that have incremented
\* it and not decremented it, so the dispatcher's test against 0 means what
\* it is meant to: no worker is inside run().
RunningThreadsExact ==
  runningThreads = Cardinality({t \in Threads : pc[t] \in Counted})

\* Producer1D: two workers never search the same height, and no height
\* that was handed out is handed out again.
HeightsDistinct ==
  /\ \A t \in Threads : fixedHeight[t] < height
  /\ \A t, u \in Threads :
       t # u /\ fixedHeight[t] # 0 => fixedHeight[t] # fixedHeight[u]

\* What runAlgorithm returns, if not null, is a results array some worker
\* has published after verification; it is complete unless that worker is
\* between the assignment of the array and that of its last element.
AnswerCompleteOrFilling ==
  answer # Null =>
    /\ results[answer] # Null
    /\ results[answer] = Requests \/ pc[answer] = "fill"

\* The phases of a worker and its results agree: nothing is published before
\* a search succeeds, an array is incomplete only while it is being filled,
\* and a worker that notifies holds a complete array or none.
ResultsMatchPhase ==
  \A t \in Threads :
    /\ pc[t] = "fill" => results[t] \in 0 .. Requests - 1
    /\ pc[t] # "fill" => results[t] \in {Null, Requests}
    /\ pc[t] \in {"created", "started", "get", "search", "extend", "leaked"}
         => results[t] = Null
    /\ pc[t] = "loop" /\ opts.kind[t] = "it" => results[t] = Null

\* A published array is never withdrawn and never loses an element: the
\* dispatcher may keep a reference to it across its scan.
ResultsMonotone ==
  [][\A t \in Threads : results'[t] >= results[t]]_vars

\* The dispatcher, once awake after a result was published, returns, and with
\* a result unless only a report was asked for: scanning never misses what was
\* there before it began.
PublishedBeforeScanIsReturned ==
  (main = "scan" /\ next = 0 /\ \E t \in Threads : results[t] # Null)
    ~> (main = "returned" /\ (answer # Null \/ opts.mode = "report"))

\* A mode check that stops its workers gets rid of all of them, so that the
\* JVM can exit.
StoppedWorkersEnd ==
  (\E t \in Threads : ~running[t])
    ~> (\A t \in Threads : pc[t] \in {"done", "leaked"})

\* Claim of the command line's help, "Limit of iterations per thread": the
\* portfolio gives up only when every thread has used up its own limit.
GivesUpOnlyWhenAllEnded ==
  (main = "returned" /\ answer = Null) =>
    \A t \in Threads : pc[t] = "done" /\ results[t] = Null

\* Claim of Cegis.cegis, "Iteration Limit Hit, returning without a result":
\* when the limit has ended every thread, runAlgorithm returns.
AllEndedReturns ==
  (\A t \in Threads : pc[t] = "done") ~> (main = "returned")

\* Claim of Cegis.run, "There is no invariant for this benchmark": when a
\* worker tells the waiting dispatcher so, the run ends with that verdict, or
\* at least with some answer.
NoSolutionReported ==
  (main = "waiting" /\ \E t \in Threads : pc[t] = "notify" /\ nosolution[t])
    ~> (main = "returned" /\ (noAnswer \/ answer # Null))

\* The dispatcher's loop index, and the threads it has not started yet.
MainIndex ==
  /\ main \in {"start", "scan"} => next < NumCore
  /\ main \notin {"start", "scan"} => next = 0
  /\ main = "start" =>
       /\ answer = Null
       /\ \A t \in Threads : t >= next => pc[t] = "created"
  /\ main \in {"wait", "waiting"} => answer = Null

\* The inductive invariant the proofs use.
IndInv ==
  /\ TypeOK
  /\ MainIndex
  /\ ResultsMatchPhase
  /\ HeightsDistinct
  /\ AnswerCompleteOrFilling
  /\ RunningThreadsExact

-----------------------------------------------------------------------------
(***************************************************************************)
(* What runAlgorithm promises, and the mapping under which it keeps it.    *)
(***************************************************************************)
Task == INSTANCE SynthTask WITH
          Solvers   <- Threads,
          published <- {t \in Threads : results[t] # Null},
          decided   <- main = "returned",
          verdict   <- IF main = "returned" /\ answer # Null
                       THEN {answer} ELSE {}

\* The portfolio implements the abstract synthesis task: solutions are only
\* added, the verdict is reached once and is one of them or none.
RefinesTask == Task!Spec
=============================================================================
