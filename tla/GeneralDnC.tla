----------------------------- MODULE GeneralDnC -----------------------------
(***************************************************************************)
(* Divide and conquer on the general track: the GENERALDNC loop of         *)
(* SygusDispatcher.runAlgorithm and the DnCegis threads it starts. A       *)
(* thread solves the main problem and, in between, subproblems made from   *)
(* the specification's ite terms (DnCEnv.scanSubExprs). The solution of a  *)
(* subproblem becomes a function that every later grammar offers           *)
(* (addSubSolutionToAll), and a thread that has solved the main problem    *)
(* replaces these functions by their bodies before it reports.             *)
(*                                                                         *)
(* Data: a solution is the problem it solves and the set of intermediate   *)
(* functions its AST applies. A search yields any solution over its        *)
(* grammar, or none; the array of results is taken to be filled when it is *)
(* published (Portfolio has the gap). The heights the threads take from    *)
(* Producer1D are left out, and a variable that is set before it is next   *)
(* read is reset when it was last read. A single thread, which is what     *)
(* EUSolver is always given, runs in the dispatcher's own and is not here. *)
(***************************************************************************)
EXTENDS Integers, Sequences, FiniteSets

CONSTANTS
  NumCore,    \* the number of threads
  NumSubs,    \* the number of subproblems
  Configs,    \* the configurations
  Spurious,   \* whether Object.wait may return without a notify
  Null        \* a null reference

Threads == 0 .. NumCore - 1
\* The subproblems in the order of dncPblms.keySet(), the same for all.
Subs == 1 .. NumSubs
Main == 0

\* nullary: the functions, which all have the main one's arguments, have none.
\* limited: iterLimit > 0.
Config == [nullary : BOOLEAN, limited : BOOLEAN]

\* A results array: the problem solved and the intermediate functions applied.
Result == [of : {Main} \cup Subs, uses : SUBSET Subs]

ASSUME DnCAssumption ==
  /\ NumCore \in Nat \ {0, 1} /\ NumSubs \in Nat
  /\ Configs \subseteq Config /\ Spurious \in BOOLEAN
  /\ Null \notin Result

VARIABLES
  cfg,              \* the configuration
  pc,               \* where each thread is in run()
  pos,              \* the subproblem it is at
  gram,             \* the intermediate functions in its copy of the grammar
  newInter,         \* DnCegis.run's newInter
  results,          \* Cegis.results
  defAST,           \* the functions left in the AST it is filling in
  seen,             \* interResults.size() when it began to list them
  interResults,     \* the solutions of subproblems, as they were stored
  runningThreads,   \* CEGISEnv.runningThreads
  main,             \* where the dispatcher is
  next,             \* the index of its loops
  answer            \* its results: [by, res], or Null

local == <<pos, gram, newInter, defAST, seen>>
mainVars == <<main, next, answer>>
vars == <<cfg, pc, local, results, interResults, runningThreads, mainVars>>

\* Inside run(). A "leaked" thread has left it without the decrement.
Inside == {"head", "main", "pick", "sub", "store", "again", "gather", "list",
           "fill", "notify", "dec", "leaked"}
PCs == {"created", "started", "ended"} \cup Inside
MainPCs == {"start", "wait", "waiting", "scan", "read", "test", "returned"}

TypeOK ==
  /\ cfg \in Configs
  /\ pc \in [Threads -> PCs]
  /\ pos \in [Threads -> 1 .. NumSubs + 1]
  /\ gram \in [Threads -> SUBSET Subs]
  /\ newInter \in [Threads -> BOOLEAN]
  /\ results \in [Threads -> Result \cup {Null}]
  /\ defAST \in [Threads -> SUBSET Subs]
  /\ seen \in [Threads -> Nat]
  /\ interResults \in Seq([name : Subs, uses : SUBSET Subs])
  /\ runningThreads \in Int
  /\ main \in MainPCs /\ next \in Threads
  /\ answer \in [by : Threads, res : Result] \cup {Null}

Init ==
  /\ cfg \in Configs
  /\ pc = [t \in Threads |-> "created"]
  /\ pos = [t \in Threads |-> 1]
  /\ gram = [t \in Threads |-> {}]
  /\ newInter = [t \in Threads |-> FALSE]
  /\ results = [t \in Threads |-> Null]
  /\ defAST = [t \in Threads |-> {}]
  /\ seen = [t \in Threads |-> 0]
  /\ interResults = <<>>
  /\ runningThreads = 0
  /\ main = "start" /\ next = 0 /\ answer = Null

Goto(t, l) == pc' = [pc EXCEPT ![t] = l]

\* The keys of interResults.
Stored == {interResults[i].name : i \in DOMAIN interResults}

-----------------------------------------------------------------------------
(* The dispatcher.                                                         *)

StartThread ==
  /\ main = "start"
  /\ Goto(next, "started")
  /\ next' = IF next + 1 = NumCore THEN 0 ELSE next + 1
  /\ main' = IF next + 1 = NumCore THEN "wait" ELSE "start"
  /\ UNCHANGED <<cfg, local, results, interResults, runningThreads, answer>>

EnterWait ==
  /\ main = "wait"
  /\ main' = "waiting"
  /\ UNCHANGED <<cfg, pc, local, results, interResults, runningThreads, next, answer>>

SpuriousWake ==
  /\ Spurious /\ main = "waiting"
  /\ main' = "scan"
  /\ UNCHANGED <<cfg, pc, local, results, interResults, runningThreads, next, answer>>

\* The next thread, or the test after the loop over the threads.
Advance ==
  /\ next' = IF next + 1 = NumCore THEN 0 ELSE next + 1
  /\ main' = IF next + 1 = NumCore THEN "test" ELSE "scan"

\* cegis.results != null
ScanCheck ==
  /\ main = "scan"
  /\ IF results[next] = Null THEN Advance
     ELSE main' = "read" /\ UNCHANGED next
  /\ UNCHANGED <<cfg, pc, local, results, interResults, runningThreads, answer>>

\* results = cegis.results, which is read anew; later threads go first.
ScanRead ==
  /\ main = "read"
  /\ answer' = IF results[next] = Null THEN Null
               ELSE [by |-> next, res |-> results[next]]
  /\ Advance
  /\ UNCHANGED <<cfg, pc, local, results, interResults, runningThreads>>

\* runningThreads == 0, or the loop ends with results.
Test ==
  /\ main = "test"
  /\ main' = IF runningThreads = 0 \/ answer # Null THEN "returned" ELSE "wait"
  /\ UNCHANGED <<cfg, pc, local, results, interResults, runningThreads, next, answer>>

-----------------------------------------------------------------------------
(* A thread.                                                               *)

\* The main problem was translated when the thread was created.
Begin(t) ==
  /\ pc[t] = "started"
  /\ runningThreads' = runningThreads + 1
  /\ Goto(t, "head")
  /\ UNCHANGED <<cfg, local, results, interResults, mainVars>>

\* The loop head: results = null, before the main problem is tried.
LoopHead(t) ==
  /\ pc[t] = "head"
  /\ results' = [results EXCEPT ![t] = Null]
  /\ Goto(t, "main")
  /\ UNCHANGED <<cfg, local, interResults, runningThreads, mainVars>>

\* The searches end with the program.
Searching(t, L) == pc[t] \in L /\ main # "returned"

\* This copy of the problem is not used again.
Drop(t) == gram' = [gram EXCEPT ![t] = {}]

\* A solution of problem p is published; all results of a search go there.
Publish(t, p) ==
  \E U \in SUBSET gram[t] : results' = [results EXCEPT ![t] = [of |-> p, uses |-> U]]

SolveMain(t) ==
  /\ Searching(t, {"main", "again"})
  /\ Publish(t, Main)
  /\ Drop(t)
  /\ Goto(t, "gather")
  /\ UNCHANGED <<cfg, pos, newInter, defAST, seen, interResults, runningThreads, mainVars>>

\* No solution of the main problem: on to the subproblems or to the next height.
FailMain(t) ==
  /\ Searching(t, {"main", "again"})
  /\ IF pc[t] = "main" THEN Goto(t, "pick") /\ Drop(t)
     ELSE Goto(t, "head") /\ UNCHANGED gram
  /\ UNCHANGED <<cfg, pos, newInter, defAST, seen, results, interResults,
                 runningThreads, mainVars>>

\* iterCount > iterLimit: notify, decrement, return.
HitLimit(t) ==
  /\ Searching(t, {"main", "sub", "again"})
  /\ cfg.limited
  /\ Drop(t)
  /\ Goto(t, "notify")
  /\ UNCHANGED <<cfg, pos, newInter, defAST, seen, results, interResults, runningThreads, mainVars>>

\* Mutant: a grammar offers the functions of all subproblems, solved or not.
TranslateAll(t) == gram' = [gram EXCEPT ![t] = Subs]

\* problem.translate, under the lock: the copy has the functions stored so far.
Translate(t) == gram' = [gram EXCEPT ![t] = Stored]

\* The next subproblem, unless another thread has solved it.
PickSub(t) ==
  /\ pc[t] = "pick" /\ pos[t] <= NumSubs
  /\ IF pos[t] \in Stored
     THEN /\ pos' = [pos EXCEPT ![t] = @ + 1]
          /\ UNCHANGED <<gram, results, pc>>
     ELSE /\ Translate(t)
          /\ results' = [results EXCEPT ![t] = Null]
          /\ Goto(t, "sub")
          /\ UNCHANGED pos
  /\ UNCHANGED <<cfg, newInter, defAST, seen, interResults, runningThreads, mainVars>>

SolveSub(t) ==
  /\ Searching(t, {"sub"})
  /\ Publish(t, pos[t])
  /\ Drop(t)
  /\ Goto(t, "store")
  /\ UNCHANGED <<cfg, pos, newInter, defAST, seen, interResults, runningThreads, mainVars>>

FailSub(t) ==
  /\ Searching(t, {"sub"})
  /\ pos' = [pos EXCEPT ![t] = @ + 1]
  /\ Drop(t)
  /\ Goto(t, "pick")
  /\ UNCHANGED <<cfg, newInter, defAST, seen, results, interResults,
                 runningThreads, mainVars>>

\* Mutant: the solution replaces one stored meanwhile.
StoreUnchecked(t) ==
  /\ pc[t] = "store"
  /\ LET e == [name |-> pos[t], uses |-> results[t].uses]
     IN  interResults' = IF pos[t] \in Stored
                         THEN [i \in DOMAIN interResults |->
                                 IF interResults[i].name = pos[t] THEN e ELSE interResults[i]]
                         ELSE Append(interResults, e)
  /\ newInter' = [newInter EXCEPT ![t] = TRUE]
  /\ pos' = [pos EXCEPT ![t] = @ + 1]
  /\ Goto(t, "pick")
  /\ UNCHANGED <<cfg, gram, defAST, seen, results, runningThreads, mainVars>>

\* addSubSolutionToAll and interResults.put, under the lock, unless another
\* thread was first.
Store(t) ==
  /\ pc[t] = "store"
  /\ IF pos[t] \in Stored THEN UNCHANGED <<interResults, newInter>>
     ELSE /\ interResults' = Append(interResults, [name |-> pos[t], uses |-> results[t].uses])
          /\ newInter' = [newInter EXCEPT ![t] = TRUE]
  /\ pos' = [pos EXCEPT ![t] = @ + 1]
  /\ Goto(t, "pick")
  /\ UNCHANGED <<cfg, gram, defAST, seen, results, runningThreads, mainVars>>

\* Mutant: results is not reset, and the test for null finds a subproblem's.
AllPickedStale(t) ==
  /\ pc[t] = "pick" /\ pos[t] > NumSubs
  /\ Translate(t)
  /\ UNCHANGED results
  /\ Goto(t, IF results[t] # Null THEN "gather"
             ELSE IF newInter[t] THEN "again" ELSE "head")
  /\ pos' = [pos EXCEPT ![t] = 1]
  /\ newInter' = [newInter EXCEPT ![t] = FALSE]
  /\ UNCHANGED <<cfg, defAST, seen, interResults, runningThreads, mainVars>>

\* The main problem once more, if its grammar has grown by this thread's work.
AllPicked(t) ==
  /\ pc[t] = "pick" /\ pos[t] > NumSubs
  /\ Translate(t)
  /\ IF newInter[t]
     THEN results' = [results EXCEPT ![t] = Null] /\ Goto(t, "again")
     ELSE UNCHANGED results /\ Goto(t, "head")
  /\ pos' = [pos EXCEPT ![t] = 1]
  /\ newInter' = [newInter EXCEPT ![t] = FALSE]
  /\ UNCHANGED <<cfg, defAST, seen, interResults, runningThreads, mainVars>>

\* The listing of interResults begins, without the lock.
Gather(t) ==
  /\ pc[t] = "gather"
  /\ seen' = [seen EXCEPT ![t] = Len(interResults)]
  /\ defAST' = [defAST EXCEPT ![t] = results[t].uses]
  /\ Goto(t, "list")
  /\ UNCHANGED <<cfg, pos, gram, newInter, results, interResults, runningThreads, mainVars>>

\* It ends well, or with a ConcurrentModificationException if the map grew.
ListAll(t) ==
  /\ pc[t] = "list"
  /\ \/ Goto(t, "fill")
     \/ Len(interResults) # seen[t] /\ Goto(t, "leaked")
  /\ seen' = [seen EXCEPT ![t] = 0]
  /\ UNCHANGED <<cfg, pos, gram, newInter, defAST, results, interResults, runningThreads, mainVars>>

\* Mutant: the body that is put in place of a function keeps the call.
BodyKeepsCall(t, f) == defAST[t] \cup UNION {interResults[i].uses :
                         i \in {j \in DOMAIN interResults : interResults[j].name = f}}

\* rewrite: the applications of f are replaced by f's body; one without
\* arguments is a leaf, and leaves are copied.
Body(t, f) ==
  IF cfg.nullary THEN defAST[t]
  ELSE (defAST[t] \ {f}) \cup UNION {interResults[i].uses :
          i \in {j \in DOMAIN interResults : interResults[j].name = f}}

\* scanInterResults has found f. The map is read without the lock: while
\* another thread is storing, get may miss f, and a null is dereferenced.
Rewrite(t) ==
  /\ pc[t] = "fill"
  /\ \E f \in defAST[t] :
       \/ /\ f \in Stored
          /\ defAST' = [defAST EXCEPT ![t] = Body(t, f)]
          /\ UNCHANGED pc
       \/ /\ f \notin Stored \/ \E u \in Threads \ {t} : pc[u] = "store" /\ pos[u] \notin Stored
          /\ Goto(t, "leaked")
          /\ UNCHANGED defAST
  /\ UNCHANGED <<cfg, pos, gram, newInter, seen, results, interResults,
                 runningThreads, mainVars>>

\* setAST, in the array the dispatcher may already hold.
Filled(t) ==
  /\ pc[t] = "fill" /\ defAST[t] = {}
  /\ results' = [results EXCEPT ![t].uses = {}]
  /\ answer' = IF answer # Null /\ answer = [by |-> t, res |-> results[t]]
               THEN [by |-> t, res |-> results'[t]] ELSE answer
  /\ Goto(t, "notify")
  /\ UNCHANGED <<cfg, local, interResults, runningThreads, main, next>>

\* Mutant: the notify at the end is left out.
NotifyNot(t) ==
  /\ pc[t] = "notify"
  /\ Goto(t, "dec")
  /\ UNCHANGED <<cfg, local, results, interResults, runningThreads, mainVars>>

Notify(t) ==
  /\ pc[t] = "notify"
  /\ main' = IF main = "waiting" THEN "scan" ELSE main
  /\ Goto(t, "dec")
  /\ UNCHANGED <<cfg, local, results, interResults, runningThreads, next, answer>>

Decrement(t) ==
  /\ pc[t] = "dec"
  /\ runningThreads' = runningThreads - 1
  /\ Goto(t, "ended")
  /\ UNCHANGED <<cfg, local, results, interResults, mainVars>>

\* What a thread does without a solver.
Control(t) ==
  \/ Begin(t) \/ LoopHead(t) \/ PickSub(t) \/ Store(t) \/ AllPicked(t) \/ Gather(t)
  \/ ListAll(t) \/ Rewrite(t) \/ Filled(t) \/ Notify(t) \/ Decrement(t)

Search(t) == SolveMain(t) \/ FailMain(t) \/ HitLimit(t) \/ SolveSub(t) \/ FailSub(t)

Dispatch == StartThread \/ EnterWait \/ ScanCheck \/ ScanRead \/ Test

Next == Dispatch \/ SpuriousWake \/ \E t \in Threads : Control(t) \/ Search(t)

Spec == Init /\ [][Next]_vars

\* Threads are scheduled; of the searches, which may take for ever, nothing.
FairSpec == Spec /\ WF_vars(Dispatch) /\ \A t \in Threads : WF_vars(Control(t))

-----------------------------------------------------------------------------
(***************************************************************************)
(* Properties.                                                             *)
(***************************************************************************)

\* runningThreads counts the threads inside run(), leaked ones for ever.
CountExact == runningThreads = Cardinality({t \in Threads : pc[t] \in Inside})

\* No intermediate function is stored twice, and its body applies functions
\* stored before it: whatever the threads' order, the calls have no cycle.
UsesEarlier ==
  \A i \in DOMAIN interResults :
    /\ \A j \in DOMAIN interResults : interResults[i].name = interResults[j].name => i = j
    /\ \A f \in interResults[i].uses : \E j \in 1 .. i - 1 : interResults[j].name = f

\* Every function a grammar, a result or an AST mentions has a definition.
UsesStored ==
  /\ \A t \in Threads :
       /\ gram[t] \subseteq Stored /\ defAST[t] \subseteq Stored
       /\ results[t] # Null => results[t].uses \subseteq Stored
  /\ answer # Null => answer.res.uses \subseteq Stored

\* Where a thread's result is the main problem's, a subproblem's or gone.
ResultOf ==
  \A t \in Threads :
    /\ pc[t] = "sub" => pos[t] \in Subs
    /\ pc[t] = "store" => pos[t] \in Subs /\ results[t] # Null /\ results[t].of = pos[t]
    /\ pc[t] \in {"gather", "list", "fill"} => results[t] # Null
    /\ pc[t] \in {"main", "sub", "again"} => results[t] = Null
    /\ pc[t] \in {"gather", "list", "fill", "notify", "dec", "ended"} /\ results[t] # Null
         => results[t].of = Main
    /\ pc[t] \in {"notify", "dec", "ended"} /\ results[t] # Null => results[t].uses = {}
    /\ pc[t] \in {"created", "started"} => results[t] = Null

\* The threads that the dispatcher has still to start.
NotStarted == main = "start" => \A t \in Threads : t >= next => pc[t] = "created"

\* The inductive invariant the proofs use.
IndInv == TypeOK /\ NotStarted /\ CountExact /\ UsesEarlier /\ UsesStored /\ ResultOf

\* A thread that has ended, by the limit or with a solution, leaves no result
\* but a solution of the main problem without intermediate functions, although
\* results held those of subproblems on the way.
EndedIsFinal ==
  \A t \in Threads : pc[t] \in {"notify", "dec", "ended"} /\ results[t] # Null =>
    results[t] = [of |-> Main, uses |-> {}]

\* The solution of a subproblem is stored once: two threads may solve it, and
\* the later one does not replace a body that others have seen and inlined.
WriteOnce ==
  [][\A i \in DOMAIN interResults :
       i \in DOMAIN interResults' /\ interResults'[i] = interResults[i]]_vars

\* Each round of filling in removes a function for good, as far as the ones
\* stored after it go: the calls that a body brings in are to functions stored
\* earlier, so that the AST, read as a binary number over the order of storing,
\* falls. What other threads store meanwhile does not change that order.
FillDescends ==
  [][\A t \in Threads : pc[t] = "fill" /\ defAST'[t] # defAST[t] =>
       \E i \in DOMAIN interResults :
         /\ interResults[i].name \in defAST[t] \ defAST'[t]
         /\ \A j \in DOMAIN interResults : j > i =>
              (interResults[j].name \in defAST'[t] <=> interResults[j].name \in defAST[t])]_vars

\* Filling in the intermediate results ends, even though the bodies that are
\* put in apply such functions again and others are stored all the time. Without
\* arguments an application is never replaced, and the loop goes on for ever.
FillingEnds ==
  \A t \in Threads : ~cfg.nullary /\ pc[t] = "gather" ~> pc[t] \in {"ended", "leaked"}

\* "We should have results at this point, we need to fill in all intermediate
\* results": what the dispatcher returns is a solution of the main problem in
\* which they are filled in.
AnswerFinal ==
  main = "returned" /\ answer # Null => answer.res = [of |-> Main, uses |-> {}]

\* The result of the last thread, once it notifies the waiting dispatcher, is
\* returned. For the others this fails: a later thread's results may be seen
\* by the test for null and be gone when they are read.
LastThreadReturned ==
  (main = "waiting" /\ pc[NumCore - 1] = "notify" /\ results[NumCore - 1] # Null)
    ~> main = "returned"
=============================================================================
