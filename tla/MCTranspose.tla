---------------------------- MODULE MCTranspose ----------------------------
(***************************************************************************)
(* Instances of Transpose.                                                  *)
(***************************************************************************)
EXTENDS Transpose

\* The three sizes that driver.py evaluates, the other one that trans.c treats
\* on its own, and a small one of all the rest.
EvaluatedSizes == {<<32, 32>>, <<64, 64>>, <<61, 67>>, <<61, 168>>, <<3, 5>>}

\* The one with which trans.c does not finish.
Size61x168 == {<<61, 168>>}
=============================================================================
