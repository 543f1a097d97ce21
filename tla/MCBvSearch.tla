----------------------------- MODULE MCBvSearch -----------------------------
(* Three examples; samples of two, or of four and so of all three. A word   *)
(* of four is not filled by them; words of one are, and the last is lost.   *)
EXTENDS BvSearch

MCExprs == {{0}, {1}, {1, 2}, {0, 2}, {0, 1, 2}}
MCConds == {{0}, {1, 2}, {0, 1}}

C(limited, check, n, cover, word) ==
  [limited |-> limited, check |-> check, n |-> n, cover |-> cover,
   condn |-> 2, condcover |-> 1, word |-> word]

MCConfigs ==
  {C(FALSE, FALSE, 2, 0, 4), C(FALSE, FALSE, 2, 2, 1), C(FALSE, FALSE, 4, 0, 4),
   C(TRUE, FALSE, 4, 1, 4), C(TRUE, FALSE, 4, 1, 1), C(TRUE, TRUE, 4, 1, 4)}

MCLimited == {C(TRUE, FALSE, 2, 1, 4)}
=============================================================================
