------------------------------ MODULE MCSessions ------------------------------
(***************************************************************************)
(* TLC instances of Sessions.  Ids, callers and the simulators of each kind *)
(* are interchangeable; no liveness is checked here.                        *)
(***************************************************************************)
EXTENDS Sessions, TLC

Symmetry == Permutations(Ids) \cup Permutations(Callers) \cup Permutations(Own)

\* No simulator comes back that is gone, and no property asks after its history: states
\* that differ only in that are one.
Remaining(sims) == {s \in sims : dev[s] # "gone"}
View == <<dev, sessions, starting, call, server, toClean, outside, overlapped,
          Remaining(atExit), Remaining(excused), Remaining(lost)>>
================================================================================
