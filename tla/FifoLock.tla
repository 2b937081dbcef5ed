------------------------------- MODULE FifoLock -------------------------------
(***************************************************************************)
(* What exclusive access to a simulator promises: calls run one at a time,  *)
(* in the order they arrived, whether earlier ones succeeded or failed.     *)
(* Calls are numbered in order of arrival.                                  *)
(***************************************************************************)
EXTENDS Naturals

CONSTANT MaxCalls   \* bound on the number of calls

Tickets == 1 .. MaxCalls

VARIABLES arrived,  \* how many calls have been made
          status    \* of each call

vars == <<arrived, status>>

Settled == {"ok", "err"}

Init == arrived = 0 /\ status = [t \in Tickets |-> "none"]

Arrive ==
  /\ arrived < MaxCalls
  /\ arrived' = arrived + 1
  /\ status' = [status EXCEPT ![arrived + 1] = "waiting"]

Run(t) ==
  /\ status[t] = "waiting"
  /\ \A u \in Tickets : u < t => status[u] \in Settled
  /\ status' = [status EXCEPT ![t] = "running"]
  /\ UNCHANGED arrived

Settle(t) ==
  /\ status[t] = "running"
  /\ \E outcome \in Settled : status' = [status EXCEPT ![t] = outcome]
  /\ UNCHANGED arrived

Next == Arrive \/ \E t \in Tickets : Run(t) \/ Settle(t)

Spec == Init /\ [][Next]_vars
================================================================================
