------------------------------ MODULE SynthTask ------------------------------
(***************************************************************************)
(* What a run of several solvers on one synthesis problem promises: each   *)
(* solver may publish one verified solution, which is never withdrawn, and *)
(* at some point the run is decided, once and for ever, in favour of one   *)
(* published solution or of none.                                          *)
(***************************************************************************)
CONSTANT Solvers

VARIABLES
  published,    \* the solvers that have published a solution
  decided,      \* whether the run has returned
  verdict       \* the solver whose solution it returned, as a set of at most one

vars == <<published, decided, verdict>>

TypeOK ==
  /\ published \subseteq Solvers
  /\ decided \in BOOLEAN
  /\ verdict \subseteq published

Init ==
  /\ published = {}
  /\ decided = FALSE
  /\ verdict = {}

Publish(s) ==
  /\ s \notin published
  /\ published' = published \cup {s}
  /\ UNCHANGED <<decided, verdict>>

Return ==
  /\ ~decided
  /\ decided' = TRUE
  /\ verdict' \in {{}} \cup {{s} : s \in published}
  /\ UNCHANGED published

Next == Return \/ \E s \in Solvers : Publish(s)

Spec == Init /\ [][Next]_vars
=============================================================================
