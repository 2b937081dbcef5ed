---------------------------- MODULE ExclusiveChain ----------------------------
(***************************************************************************)
(* CompanionManager.exclusively: a lock made of a chain of promises.  The   *)
(* manager keeps only the tail of the chain; a call remembers the promise   *)
(* it was chained behind.  The module shows that this implements FifoLock,  *)
(* which is what the queue of module Companions stands for.                 *)
(***************************************************************************)
EXTENDS Naturals

CONSTANT MaxCalls   \* bound on the number of exclusive calls

ASSUME MaxCallsAssumption == MaxCalls \in Nat

Tickets == 1 .. MaxCalls
NoTicket == 0

VARIABLES
  arrived,   \* how many calls have been made
  status,    \* of each call's fn
  previous,  \* the call whose tail promise it was chained behind, or NoTicket
  tail,      \* locks.get(udid): the call whose tail is stored, or NoTicket
  cleaned    \* calls whose tail.then(...) callback has run

chainVars == <<arrived, status, previous, tail, cleaned>>

Settled == {"ok", "err"}

ChainInit ==
  /\ arrived = 0
  /\ status = [t \in Tickets |-> "none"]
  /\ previous = [t \in Tickets |-> NoTicket]
  /\ tail = NoTicket
  /\ cleaned = {}

\* exclusively(udid, fn): chain behind the stored tail, and become the tail.
Exclusively ==
  /\ arrived < MaxCalls
  /\ arrived' = arrived + 1
  /\ previous' = [previous EXCEPT ![arrived + 1] = tail]
  /\ tail' = arrived + 1
  /\ status' = [status EXCEPT ![arrived + 1] = "waiting"]
  /\ UNCHANGED cleaned

\* Fault: a call does not wait.
TailIgnored(t) == TRUE

\* The tail a call waits for is next.catch(...): it resolves either way.
TailResolved(t) == t # NoTicket => status[t] \in Settled

\* previous.then(fn, fn) calls fn.
StartFn(t) ==
  /\ status[t] = "waiting"
  /\ TailResolved(previous[t])
  /\ status' = [status EXCEPT ![t] = "running"]
  /\ UNCHANGED <<arrived, previous, tail, cleaned>>

FnSettles(t) ==
  /\ status[t] = "running"
  /\ \E outcome \in Settled : status' = [status EXCEPT ![t] = outcome]
  /\ UNCHANGED <<arrived, previous, tail, cleaned>>

\* tail.then(...): forget the chain unless somebody has joined it since.
DropTail(t) ==
  /\ status[t] \in Settled
  /\ t \notin cleaned
  /\ cleaned' = cleaned \cup {t}
  /\ tail' = IF tail = t THEN NoTicket ELSE tail
  /\ UNCHANGED <<arrived, status, previous>>

ChainNext == Exclusively \/ \E t \in Tickets : StartFn(t) \/ FnSettles(t) \/ DropTail(t)

ChainSpec == ChainInit /\ [][ChainNext]_chainVars

--------------------------------------------------------------------------------
\* The shape of the state.
ChainTypeOK ==
  /\ arrived \in 0 .. MaxCalls
  /\ status \in [Tickets -> {"none", "waiting", "running"} \cup Settled]
  /\ previous \in [Tickets -> Tickets \cup {NoTicket}]
  /\ tail \in Tickets \cup {NoTicket}
  /\ cleaned \subseteq Tickets

\* The chain implements the FIFO lock: one exclusive call at a time, in order of
\* arrival, whatever became of the earlier ones.
Lock == INSTANCE FifoLock WITH
          MaxCalls <- MaxCalls, arrived <- arrived, status <- status
ImplementsFifoLock == Lock!Spec

\* A call is chained behind its predecessor, or behind nothing when all earlier
\* calls have settled; the stored tail is that of the last call.
ChainInv ==
  /\ \A t \in Tickets :
       /\ status[t] = "none" <=> t > arrived
       /\ status[t] \notin Settled => t \notin cleaned
       /\ t <= arrived =>
            \/ previous[t] = t - 1
            \/ previous[t] = NoTicket /\ \A u \in Tickets : u < t => status[u] \in Settled
       /\ status[t] \notin {"none", "waiting"} =>
            \A u \in Tickets : u < t => status[u] \in Settled
  /\ \/ tail = arrived
     \/ tail = NoTicket /\ \A u \in Tickets : u <= arrived => status[u] \in Settled

\* The inductive invariant.
ChainIInv == ChainTypeOK /\ ChainInv
================================================================================
