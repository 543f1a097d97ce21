---------------------------- MODULE MCGeneralDnC ----------------------------
(* Two threads and two subproblems, with every kind of search.              *)
EXTENDS GeneralDnC

C(nullary, limited) == [nullary |-> nullary, limited |-> limited]
MCConfigs == {C(FALSE, TRUE), C(TRUE, FALSE)}
=============================================================================
