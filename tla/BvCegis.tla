------------------------------- MODULE BvCegis -------------------------------
(***************************************************************************)
(* main_inner of the bit-vector solver: the counterexample loop            *)
(* (SearchConfig::cegis_loop with CegisState::verify) and, when there is a *)
(* key and a description, its race with a thread that asks ChatGPT. Both   *)
(* threads send into one mpsc channel and main takes the first message.    *)
(*                                                                         *)
(* Data: an expression has the inputs on which it equals the reference in  *)
(* the solver's logic (right) and those on which eval gives the output of  *)
(* the example there (fits). The two differ: eval shifts a negative number *)
(* right by 64 or more to 0 and the logic to -1. On some inputs the        *)
(* reference divides by zero, which the logic defines and eval refuses. A  *)
(* search yields any expression that fits the examples it looks at (see    *)
(* BvSearch and TreeLearning), or it panics.                               *)
(***************************************************************************)
EXTENDS Integers, Sequences, FiniteSets, Functions

CONSTANTS
  Inputs,       \* the arguments
  Evaluable,    \* those on which ref_impl.eval succeeds
  Exprs,        \* the expressions
  Problems,     \* the problems considered: right and fits
  Given,        \* the input-output examples a problem may have, by their inputs
  Configs,      \* the configurations
  Replies,      \* what ChatGPT may answer: sequences of expressions
  CheckAfter,   \* more examples than this bring additional_check in, 8 in the code
  WordBits,     \* the examples in one word of a bit set, 128 in the code
  None          \* no expression

\* mode: what main_inner does. limited: limited_ite. check: additional_check
\* is not 0. random: random_example. bad: Config::from_problem fails. divides:
\* the grammar has a defined function that divides. maxExamples: a bound of the
\* model, on the examples of a loop that goes round for ever.
Config == [mode : {"pbe", "refimpl", "chat"}, limited : BOOLEAN, check : BOOLEAN,
           random : Nat, bad : BOOLEAN, divides : BOOLEAN, maxExamples : Nat]

Problem == [right : [Exprs -> SUBSET Inputs], fits : [Exprs -> SUBSET Inputs]]

ASSUME BvCegisAssumption ==
  /\ IsFiniteSet(Inputs)
  /\ Evaluable \subseteq Inputs
  /\ Problems \subseteq Problem
  /\ Given \subseteq Seq(Inputs) \ {<<>>}
  /\ Configs \subseteq Config
  /\ Replies \subseteq Seq(Exprs)
  /\ CheckAfter \in Nat
  /\ WordBits \in Nat \ {0, 1}
  /\ None \notin Exprs

\* The thread that runs cegis_loop (main itself, without a race), and the one
\* that asks ChatGPT and may then run it as well.
Threads == {"loop", "chat"}

VARIABLES
  cfg,        \* the configuration
  right,      \* the problem: where each expression equals the reference, and
  fits,       \*   where it passes the test of an example
  pc,         \* where each thread is
  examples,   \* the inputs of cegis.examples (for "chat", first of its own pbe)
  checks,     \* the inputs in additional_check
  replies,    \* the replies left to try
  result,     \* the expression found or replied
  blocked,    \* the inputs excluded in this call of verify
  unsure,     \* the solver did not answer, and verify said true
  refuted,    \* how often verify said false in cegis_loop
  conds,      \* the condition threads that have not ended
  channel,    \* the messages sent: a thread and whether it has a result
  main,       \* "recv", then "ok", "err" or "panicked"
  answer      \* the thread whose message was taken, as a set of at most one

given == <<cfg, right, fits>>
local == <<examples, checks, replies, blocked, refuted>>
vars == <<given, pc, local, result, unsure, conds, channel, main, answer>>

PCs == {"start", "search", "searching", "verify", "send", "fail", "ask", "try",
        "test", "ended", "panicked"}
Over == {"ended", "panicked"}

Message == [from : Threads, ok : BOOLEAN]

TypeOK ==
  /\ cfg \in Configs
  /\ right \in [Exprs -> SUBSET Inputs] /\ fits \in [Exprs -> SUBSET Inputs]
  /\ pc \in [Threads -> PCs]
  /\ examples \in [Threads -> Seq(Inputs)]
  /\ checks \in [Threads -> SUBSET Inputs]
  /\ replies \in Seq(Exprs)
  /\ result \in [Threads -> Exprs \cup {None}]
  /\ blocked \in [Threads -> SUBSET Inputs]
  /\ unsure \in [Threads -> BOOLEAN]
  /\ refuted \in [Threads -> Nat]
  /\ conds \in [Threads -> Nat]
  /\ channel \in Seq(Message)
  /\ main \in {"recv", "ok", "err", "panicked"}
  /\ answer \subseteq Threads

Init ==
  /\ cfg \in Configs
  /\ \E p \in Problems : right = p.right /\ fits = p.fits
  /\ pc = [t \in Threads |-> IF t = "loop" THEN "start"
                             ELSE IF cfg.mode = "chat" THEN "ask" ELSE "ended"]
  /\ examples = [t \in Threads |-> <<>>]
  /\ checks = [t \in Threads |-> {}]
  /\ replies = <<>>
  /\ result = [t \in Threads |-> None]
  /\ blocked = [t \in Threads |-> {}]
  /\ unsure = [t \in Threads |-> FALSE]
  /\ refuted = [t \in Threads |-> 0]
  /\ conds = [t \in Threads |-> 0]
  /\ channel = <<>>
  /\ main = "recv"
  /\ answer = {}

\* main has not returned: then the process ends, and every thread with it.
Live == main = "recv"

At(t, l) == Live /\ pc[t] = l
Goto(t, l) == pc' = [pc EXCEPT ![t] = l]

-----------------------------------------------------------------------------
(* The counterexample loop.                                                *)

Larger(m, n) == IF m > n THEN m ELSE n

\* cegis_loop: random examples, drawn until the reference can be evaluated;
\* with input-output constraints the examples are given.
Start(t) ==
  /\ At(t, "start")
  /\ \E E \in IF cfg.mode = "pbe" THEN Given
             ELSE [1 .. Larger(cfg.random, 1) -> Evaluable],
        K \in SUBSET Evaluable :
       /\ (K # {}) <=> (cfg.check /\ cfg.mode # "pbe")
       /\ examples' = [examples EXCEPT ![t] = E]
       /\ checks' = [checks EXCEPT ![t] = K]
  /\ Goto(t, "search")
  /\ UNCHANGED <<given, replies, blocked, refuted, result, unsure, conds,
                 channel, main, answer>>

\* search spawns the condition thread, which nobody joins.
Spawn(t) ==
  /\ At(t, "search")
  /\ conds' = [conds EXCEPT ![t] = @ + 1]
  /\ Goto(t, "searching")
  /\ UNCHANGED <<given, local, result, unsure, channel, main, answer>>

\* Evaluating a defined function, or an expression that ChatGPT gave for the
\* guided loop, unwraps the result of a division.
MayDivide(t) == cfg.divides \/ t = "chat"

\* It ends by itself only with limited_ite (count_limit = 10000), at once if
\* the grammar is refused, and by a division.
CondEnd(t) ==
  /\ Live /\ conds[t] > 0
  /\ cfg.limited \/ cfg.bad \/ MayDivide(t)
  /\ conds' = [conds EXCEPT ![t] = @ - 1]
  /\ UNCHANGED <<given, pc, local, result, unsure, channel, main, answer>>

\* Mutant: the search is not given the counterexamples.
ConsistentUnconstrained(t) == Exprs

\* boxed_ones: the examples a tree is learned for. The mask of the last word is
\* 0 when the examples fill it.
Covered(n) == IF n % WordBits = 0 THEN n - WordBits ELSE n
Seen(s) == {s[i] : i \in 1 .. Covered(Len(s))}

\* What search may return: an expression that fits all examples, or a tree that
\* fits those it was learned for. additional_check counts in later rounds only.
Consistent(t) ==
  {e \in Exprs : /\ Seen(examples[t]) \subseteq fits[e]
                 /\ refuted[t] > 0 /\ Len(examples[t]) > CheckAfter
                      => checks[t] \subseteq fits[e]}

SearchOk(t) ==
  /\ At(t, "searching") /\ ~cfg.bad
  /\ \E e \in Consistent(t) : result' = [result EXCEPT ![t] = e]
  /\ Goto(t, IF cfg.mode = "pbe" THEN "send" ELSE "verify")
  /\ UNCHANGED <<given, local, unsure, conds, channel, main, answer>>

\* The ? after each search: the loop returns the error.
SearchErr(t) ==
  /\ At(t, "searching") /\ cfg.bad
  /\ Goto(t, "fail")
  /\ UNCHANGED <<given, local, result, unsure, conds, channel, main, answer>>

\* get_tree panics (see BvSearch), or a division does: the thread dies and drops
\* its sender.
SearchPanic(t) ==
  /\ At(t, "searching") /\ ~cfg.bad
  /\ cfg.limited \/ MayDivide(t)
  /\ Goto(t, "panicked")
  /\ UNCHANGED <<given, local, result, unsure, conds, channel, main, answer>>

-----------------------------------------------------------------------------
(* verify, called by the loop ("verify") and for a reply ("test").         *)

Verifying(t) == At(t, "verify") \/ At(t, "test")

\* What follows a refutation: another search, or the next reply.
AfterFalse(t) == IF pc[t] = "test" THEN "try" ELSE "search"

\* Mutant: a solver reused from the last call keeps its exclusions.
FreshSolverNot(t) == UNCHANGED blocked

\* verify returns: its solver goes, and the exclusions with it.
FreshSolver(t) == blocked' = [blocked EXCEPT ![t] = {}]

\* The models of ref_impl # expr that have not been excluded.
Models(t) == Inputs \ (right[result[t]] \cup blocked[t])

\* Mutant: an input that is an example is not recorded again.
RecordedOnce(s, i) == IF i \in Range(s) THEN s ELSE Append(s, i)

\* add_example does not look whether it has the input.
Recorded(s, i) == Append(s, i)

\* check_sat: a model on which the reference can be evaluated. A reply is
\* verified with a CegisState of its own, which goes.
Refute(t) ==
  /\ Verifying(t)
  /\ \E i \in Models(t) \cap Evaluable :
       IF pc[t] = "test" THEN UNCHANGED <<examples, refuted>>
       ELSE /\ Len(examples[t]) < cfg.maxExamples
            /\ examples' = [examples EXCEPT ![t] = Recorded(@, i)]
            /\ refuted' = [refuted EXCEPT ![t] = @ + 1]
  /\ FreshSolver(t)
  /\ Goto(t, AfterFalse(t))
  /\ UNCHANGED <<given, checks, replies, result, unsure, conds, channel,
                 main, answer>>

\* Mutant: only the last model that was refused is excluded.
ExcludeLast(t) ==
  /\ Verifying(t)
  /\ \E i \in Models(t) \ Evaluable : blocked' = [blocked EXCEPT ![t] = {i}]
  /\ UNCHANGED <<given, pc, examples, checks, replies, refuted, result,
                 unsure, conds, channel, main, answer>>

\* check_sat: a model on which the reference divides by zero is excluded.
Exclude(t) ==
  /\ Verifying(t)
  /\ \E i \in Models(t) \ Evaluable : blocked' = [blocked EXCEPT ![t] = @ \cup {i}]
  /\ UNCHANGED <<given, pc, examples, checks, replies, refuted, result,
                 unsure, conds, channel, main, answer>>

\* Mutant: a model that eval refuses ends the loop with true.
UnsatAtRefused(t) == Models(t) = {} \/ blocked[t] # {}

\* check_sat: unsat.
Unsat(t) == Models(t) = {}

\* unsat, or no answer within 10 seconds, or an error: verify returns true.
Accept(t) ==
  /\ Verifying(t)
  /\ \/ /\ Unsat(t)
        /\ UNCHANGED unsure
     \/ unsure' = [unsure EXCEPT ![t] = TRUE]
  /\ FreshSolver(t)
  /\ Goto(t, "send")
  /\ UNCHANGED <<given, examples, checks, replies, refuted, result, conds,
                 channel, main, answer>>

-----------------------------------------------------------------------------
(* The thread that asks ChatGPT.                                           *)

\* generate_pbe(3), then ask: it repeats the request until it succeeds.
Ask ==
  /\ At("chat", "ask")
  /\ \E E \in [1 .. 3 -> Evaluable], r \in Replies :
       /\ examples' = [examples EXCEPT !["chat"] = E]
       /\ replies' = r
  /\ Goto("chat", "try")
  /\ UNCHANGED <<given, checks, blocked, refuted, result, unsure, conds,
                 channel, main, answer>>

\* The next reply: verified if it fits the three examples.
Try ==
  /\ At("chat", "try") /\ replies # <<>>
  /\ replies' = Tail(replies)
  /\ result' = [result EXCEPT !["chat"] = Head(replies)]
  /\ Goto("chat", IF Range(examples["chat"]) \subseteq fits[Head(replies)]
                  THEN "test" ELSE "try")
  /\ UNCHANGED <<given, examples, checks, blocked, refuted, unsure, conds,
                 channel, main, answer>>

\* No reply was right: a guided loop if some subexpression is common to enough
\* of them, and otherwise the thread ends without a message. The guided loop
\* starts with examples of its own.
NoReply ==
  /\ At("chat", "try") /\ replies = <<>>
  /\ \E l \in {"start", "ended"} : Goto("chat", l)
  /\ examples' = [examples EXCEPT !["chat"] = <<>>]
  /\ result' = [result EXCEPT !["chat"] = None]
  /\ UNCHANGED <<given, checks, replies, blocked, refuted, unsure, conds, channel,
                 main, answer>>

-----------------------------------------------------------------------------
(* The channel.                                                            *)

Send(t) ==
  /\ At(t, "send") \/ At(t, "fail")
  /\ channel' = Append(channel, [from |-> t, ok |-> pc[t] = "send"])
  /\ Goto(t, "ended")
  /\ UNCHANGED <<given, local, result, unsure, conds, main, answer>>

\* Mutant: main goes on receiving.
RecvAgain ==
  /\ channel # <<>>
  /\ main' = IF Head(channel).ok THEN "ok" ELSE "err"
  /\ answer' = IF Head(channel).ok THEN {Head(channel).from} ELSE {}
  /\ channel' = Tail(channel)
  /\ UNCHANGED <<given, pc, local, result, unsure, conds>>

\* The first message decides, an error too.
Recv ==
  /\ Live /\ channel # <<>>
  /\ main' = IF Head(channel).ok THEN "ok" ELSE "err"
  /\ answer' = IF Head(channel).ok THEN {Head(channel).from} ELSE {}
  /\ channel' = Tail(channel)
  /\ UNCHANGED <<given, pc, local, result, unsure, conds>>

\* Both senders are gone and nothing was sent: recv fails and unwrap panics.
RecvFails ==
  /\ Live /\ channel = <<>>
  /\ \A t \in Threads : pc[t] \in Over
  /\ main' = "panicked"
  /\ UNCHANGED <<given, pc, local, result, unsure, conds, channel, answer>>

\* What a thread does but for the end of a search.
Step(t) ==
  \/ Start(t) \/ Spawn(t) \/ SearchErr(t)
  \/ Refute(t) \/ Exclude(t) \/ Accept(t) \/ Send(t)

SearchEnd(t) == SearchOk(t) \/ SearchPanic(t)

Next ==
  \/ \E t \in Threads : Step(t) \/ SearchEnd(t) \/ CondEnd(t)
  \/ Ask \/ Try \/ NoReply \/ Recv \/ RecvFails

Spec == Init /\ [][Next]_vars

\* Threads are scheduled, and in limited mode without additional checks a search
\* that can succeed ends (the loop on remaining(), see LeavesExpr of BvSearch). Of
\* other searches nothing is assumed, since improve_search may go round for ever,
\* nor of ChatGPT, whose client repeats a failing request for ever.
FairSpec ==
  /\ Spec
  /\ \A t \in Threads :
       WF_vars(Step(t)) /\ WF_vars(cfg.limited /\ ~cfg.check /\ SearchEnd(t))
  /\ WF_vars(Try) /\ WF_vars(NoReply) /\ WF_vars(Recv) /\ WF_vars(RecvFails)

-----------------------------------------------------------------------------
(***************************************************************************)
(* Properties.                                                             *)
(***************************************************************************)

\* The threads whose result was sent.
Sent == {t \in Threads : \E i \in DOMAIN channel : channel[i] = [from |-> t, ok |-> TRUE]}
Delivered == Sent \cup answer

\* What eval says of an input, the solver's logic says as well.
Agree == \A e \in Exprs : fits[e] \cap Evaluable \subseteq right[e]

\* The examples that search passed over so far, one word each time they fill it.
Distinct(t) == Cardinality(Range(examples[t]))
WordsFilled(t) == (Len(examples[t]) - 1) \div WordBits

\* Which thread is where, and what has not happened yet there.
Phases ==
  /\ pc["loop"] \notin {"ask", "try", "test"}
  /\ cfg.mode # "chat" => pc["chat"] = "ended"
  /\ cfg.mode = "pbe" => pc["loop"] \notin {"verify", "test"}
  /\ \A t \in Threads :
       /\ pc[t] \in {"start", "ask", "try", "test"} => refuted[t] = 0 /\ conds[t] = 0
       /\ pc[t] \in {"search", "searching", "verify"} => examples[t] # <<>>
       /\ unsure[t] => pc[t] \in {"send", "ended"}
  /\ main = "recv" => answer = {}

\* A candidate fits the examples that search looked at; exclusions hide no input
\* that could be an example, and last no longer than a call of verify.
Candidates ==
  \A t \in Threads :
    /\ pc[t] \in {"verify", "test", "send"} =>
         result[t] \in Exprs /\ Seen(examples[t]) \subseteq fits[result[t]]
    /\ blocked[t] \cap Evaluable = {}
    /\ blocked[t] # {} => pc[t] \in {"verify", "test"}

\* Each refutation adds an example, which is a new input unless eval and logic
\* differ or search passed over the last word; each search leaves one thread.
Counts ==
  \A t \in Threads :
    /\ refuted[t] > 0 \/ conds[t] > 0 => refuted[t] < Len(examples[t])
    /\ Agree /\ (refuted[t] > 0 \/ conds[t] > 0) =>
         refuted[t] < Distinct(t) + WordsFilled(t)
    /\ conds[t] <= IF pc[t] = "search" THEN refuted[t] ELSE refuted[t] + 1
    /\ cfg.mode # "pbe" /\ (refuted[t] > 0 \/ pc[t] \in {"search", "searching", "verify"}) =>
         Len(examples[t]) = Larger(cfg.random, 1) + refuted[t]

\* A result that is about to be sent, was sent or was taken.
Right(t) ==
  /\ Seen(examples[t]) \subseteq fits[result[t]]
  /\ cfg.mode # "pbe" /\ ~unsure[t] => Evaluable \subseteq right[result[t]]

Results ==
  \A t \in Threads :
    /\ t \in Delivered => pc[t] = "ended" /\ result[t] \in Exprs
    /\ t \in Delivered \/ pc[t] = "send" => Right(t)

\* The inductive invariant the proofs use.
IndInv == TypeOK /\ Phases /\ Candidates /\ Counts /\ Results

\* The answer main returns equals the reference, in the solver's logic, wherever
\* that can be evaluated, unless the solver gave no answer: neither the models
\* excluded on the way nor what eval makes of a shift hides a counterexample.
\* Without a verifier or its answer, it fits the examples, except those of a
\* last word that they fill.
AnswerRight == \A t \in answer : Right(t)

\* The condition threads that nobody joins pile up, one for each search, but
\* never more than the examples recorded, although verify may return the same
\* input for ever; where eval and logic agree, never more than the distinct
\* inputs among them and the words they have filled.
CondThreadsBounded ==
  \A t \in Threads : conds[t] > 0 =>
    /\ conds[t] <= Len(examples[t])
    /\ Agree => conds[t] <= Distinct(t) + WordsFilled(t)

\* An example that the loop draws or is given by the solver is one the
\* reference can be evaluated on; with given examples nothing is refuted.
ExamplesEvaluable ==
  \A t \in Threads :
    IF cfg.mode = "pbe" THEN refuted[t] = 0 ELSE Range(examples[t]) \subseteq Evaluable

\* Where eval and the logic agree, cegis_loop goes round a bounded number of
\* times: an input refutes a second candidate only when the examples fill a word,
\* every WordBits rounds, and a model that eval refuses refutes none.
RoundsBounded ==
  Agree => \A t \in Threads :
    refuted[t] > 0 =>
      refuted[t] * (WordBits - 1) < WordBits * (Cardinality(Evaluable) - 1) + Larger(cfg.random, 1)

\* In limited mode without additional checks (the default with a reference)
\* cegis_loop ends if the grammar has an expression that is right and fits
\* everywhere: no excluded model and, where eval and logic agree, no
\* counterexample comes back for ever. A panic of the search thread is an
\* exception, for recv then depends on ChatGPT.
Decides ==
  (/\ cfg.limited /\ ~cfg.check /\ ~cfg.bad /\ Agree
   /\ \E e \in Exprs : right[e] = Inputs /\ fits[e] = Inputs)
    ~> (main # "recv" \/ pc["loop"] = "panicked")

\* The abstract task: a thread publishes by sending a result.
Task == INSTANCE SynthTask WITH
  Solvers <- Threads,
  published <- Delivered,
  decided <- main # "recv",
  verdict <- answer

\* The race implements the abstract synthesis task: main returns once, and
\* only an expression that one of the threads has sent.
RefinesTask == Task!Spec
=============================================================================
