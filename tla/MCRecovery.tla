------------------------------ MODULE MCRecovery ------------------------------
(***************************************************************************)
(* Two reads, 1 and 2, of every pair of methods; which of the two is which  *)
(* makes no difference.                                                     *)
(***************************************************************************)
EXTENDS Recovery, Sequences

Order == <<"screen", "size", "marker", "point">>

MCCasts ==
  {[r \in Reads |-> Order[IF r = 1 THEN i ELSE j]] : <<i, j>> \in
     {pair \in (1 .. 4) \X (1 .. 4) : pair[1] <= pair[2]}}
================================================================================
