----------------------------- MODULE MCPortfolio -----------------------------
(* Instances of Portfolio for TLC. *)
EXTENDS Portfolio

Config(lead, rest, limited, general, inv, mode) ==
  [kind |-> [t \in Threads |-> IF t = 0 THEN lead ELSE rest],
   iterLimited |-> limited, isGeneral |-> general, isINV |-> inv, mode |-> mode]

\* The portfolios the dispatcher builds, with every mode it runs them in.
MCAll ==
  {Config("cegis", "cegis", FALSE, TRUE, FALSE, "solve"),
   Config("at", "cegis", TRUE, FALSE, TRUE, "solve"),
   Config("at", "it", TRUE, FALSE, TRUE, "report"),
   Config("invdnc", "fh", TRUE, FALSE, TRUE, "solve"),
   Config("it", "it", FALSE, FALSE, FALSE, "checkIT"),
   Config("it", "it", FALSE, TRUE, FALSE, "solve")}

\* CLIA threads under an iteration limit, and invariant threads under -F.
MCLimited == {Config("cegis", "cegis", TRUE, FALSE, FALSE, "solve")}
MCFixedHeight == {Config("fh", "fh", FALSE, FALSE, TRUE, "solve")}
=============================================================================
