----------------------------- MODULE MCCompanions -----------------------------
(***************************************************************************)
(* TLC instances of Companions.  A reader spawns at most twice and a writer *)
(* once, so with the largest cast's 2 |readers| + |writers| as the bound on *)
(* generations it is never the reason a spawn does not start.               *)
(***************************************************************************)
EXTENDS Companions, FiniteSetsExt

CONSTANT Casts   \* sets of actors; those outside the cast have made their call before

ASSUME CastsAssumption == Casts \subseteq SUBSET Actors

Spawns(cast) == 2 * Cardinality(cast \cap Readers) + Cardinality(cast \cap Writers)
MCMaxGeneration == Max({Spawns(cast) : cast \in Casts})

\* Calls are only ever made by the cast: one run covers several small casts where
\* one cast of everybody would be out of reach.
CastInit ==
  /\ Fresh
  /\ \E cast \in Casts : pc = [a \in Actors |-> IF a \in cast THEN "idle" ELSE "ok"]

CastSpec == CastInit /\ [][Next]_vars /\ Fairness
================================================================================
