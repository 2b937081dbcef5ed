----------------------------- MODULE SessionsProofs -----------------------------
(***************************************************************************)
(* The session registry keeps its promises for any number of ids, of calls  *)
(* in progress and of simulators, whatever others do to the simulators.     *)
(***************************************************************************)
EXTENDS Sessions, TLAPS

USE SimsAssumption DEF Sims, Sessions, NoSession, IdleCall, Of, OwnSession, exitVars, Places

Calls == [pc : Places, id : Ids \cup {None}, session : Sessions \cup {NoSession}]
DevStates == {"none", "shutdown", "booted", "gone"}

LEMMA InitIInv == Init => IInv
<1> SUFFICES ASSUME Init PROVE IInv
  OBVIOUS
<1> USE DEF Init
<1>1. TypeOK
  <2>1. dev \in [Sims -> DevStates]
    BY DEF DevStates
  <2>2. sessions \in [Ids -> Sessions \cup {NoSession}] /\ starting \in SUBSET Ids
    OBVIOUS
  <2>3. IdleCall \in Calls
    BY DEF Calls
  <2>4. call \in [Callers -> Calls]
    BY <2>3
  <2>5. outside \in 0 .. MaxOutside
    OBVIOUS
  <2> QED
    BY <2>1, <2>2, <2>4, <2>5 DEF TypeOK, Calls, DevStates
<1>2. OneCreationPerId /\ OwnersOwn
  BY DEF OneCreationPerId, Creating, OwnersOwn
<1>3. CallsHoldSessions /\ CreatedOnce /\ UnderOneId
  BY DEF CallsHoldSessions, CreatedOnce, UnderOneId
<1>4. CallsAreUpToDate /\ RefusedForExit
  BY DEF CallsAreUpToDate, RefusedForExit
<1>5. LostOnlyToOverlaps /\ CleanedAreGone
  BY DEF LostOnlyToOverlaps, CleanedAreGone
<1> QED
  BY <1>1, <1>2, <1>3, <1>4, <1>5 DEF IInv, RegistryOK

(***************************************************************************)
(* What a call leaves of the others: whoever shares an id that is not       *)
(* overlapped with the call that moved is a use, as is that call.           *)
(***************************************************************************)
LEMMA OthersStayUpToDate ==
  ASSUME IInv, NEW c \in Callers, NEW a \in Callers, a # c,
         call[a].pc # "idle", call[a].id \notin overlapped,
         \A d \in Callers : d # c => call'[d] = call[d],
         call'[c].id = call[a].id => {call[a].pc, call'[c].pc} \subseteq Using,
         \/ sessions'[call[a].id] = sessions[call[a].id]
         \/ call[a].pc \in Using /\ sessions'[call[a].id] = NoSession
  PROVE  UpToDate(a)'
<1>1. UpToDate(a)
  BY DEF IInv, CallsAreUpToDate
<1>2. call'[a] = call[a]
  OBVIOUS
<1>3. \A d \in Callers : call'[d].id = call'[a].id => d = a \/ {call'[a].pc, call'[d].pc} \subseteq Using
  BY <1>1, <1>2 DEF UpToDate
<1>4. /\ call'[a].pc \in {"asking", "destroying"} => sessions'[call'[a].id] = call'[a].session
      /\ call'[a].pc \in {"creating", "booting", "attaching"} => sessions'[call'[a].id] = NoSession
      /\ call'[a].pc \in Using => sessions'[call'[a].id] \in {call'[a].session, NoSession}
  BY <1>1, <1>2 DEF UpToDate, Using
<1> QED
  BY <1>3, <1>4 DEF UpToDate

\* Two calls for one id that is not overlapped are both uses.
LEMMA SharingIsUsing ==
  ASSUME IInv, NEW c \in Callers, NEW a \in Callers, a # c, call[c].pc # "idle",
         call[a].id = call[c].id, call[c].id \notin overlapped
  PROVE  {call[a].pc, call[c].pc} \subseteq Using
BY DEF IInv, CallsAreUpToDate, UpToDate

\* The end of a call is the end of an overlap only where nobody is left.
LEMMA EndOfOverlap ==
  ASSUME IInv, NEW c \in Callers, End(c)
  PROVE  /\ call'[c] = IdleCall /\ \A d \in Callers : d # c => call'[d] = call[d]
         /\ overlapped' \subseteq overlapped
         /\ \A a \in Callers : a # c /\ call[a].id \notin overlapped' => call[a].id \notin overlapped
BY DEF IInv, RegistryOK, TypeOK, End

\* Whoever was refused stays so for the same reason.
LEMMA RefusedStays ==
  ASSUME IInv, NEW a \in Callers, call[a].pc = "refused", call'[a] = call[a],
         call[a].id \notin overlapped,
         Of(a).owned /\ dev'[Of(a).sim] = "booted" => dev[Of(a).sim] = "booted",
         excused \subseteq excused', server' = server, toClean' = toClean
  PROVE  (/\ call[a].pc = "refused" /\ Of(a).owned =>
            dev[Of(a).sim] # "booted" \/ Of(a).sim \in excused \/ Cleaning(Of(a).sim))'
BY DEF IInv, RefusedForExit, Cleaning

\* An owner stays one, unless it is the call that moved.
LEMMA AccountedStays ==
  ASSUME IInv, NEW s \in Own, server # "exited", dev[s] = "booted",
         \A j \in Ids : sessions[j] = [sim |-> s, owned |-> TRUE] =>
           sessions'[j] = sessions[j] \/ s \in lost' \/ Accounted(s)',
         \A d \in Callers : call[d].pc = "booting" /\ Of(d).sim = s => call'[d] = call[d],
         excused \subseteq excused', lost \subseteq lost', server' = server, toClean' = toClean
  PROVE  (Accounted(s) \/ s \in lost)'
BY DEF IInv, LostOnlyToOverlaps, Accounted, Cleaning

(***************************************************************************)
(* A call that creates nothing comes to its end.                            *)
(***************************************************************************)
LEMMA EndStep ==
  ASSUME IInv, NEW c \in Callers, End(c),
         call[c].pc \notin {"creating", "booting"},
         dev' \in [Sims -> DevStates],
         \A s \in Sims : dev'[s] = dev[s] \/ (dev[s] = "booted" /\ dev'[s] = "shutdown"),
         UNCHANGED <<sessions, lost, starting, exitVars, excused>>
  PROVE  IInv'
<1> USE DEF IInv, RegistryOK, DevStates
<1>1. TypeOK'
  BY DEF TypeOK, End
<1>2. /\ call'[c] = IdleCall /\ \A d \in Callers : d # c => call'[d] = call[d]
      /\ overlapped' \subseteq overlapped
      /\ \A a \in Callers : a # c /\ call[a].id \notin overlapped' => call[a].id \notin overlapped
  BY EndOfOverlap
<1>3. \A d \in Callers : Creating(d)' <=> Creating(d)
  BY <1>2 DEF Creating
<1>4. OneCreationPerId'
  BY <1>2, <1>3 DEF OneCreationPerId, Creating
<1>5. OwnersOwn'
  BY DEF OwnersOwn
<1>6. CallsHoldSessions' /\ UnderOneId'
  BY <1>2 DEF CallsHoldSessions, UnderOneId
<1>7. CreatedOnce'
  BY <1>2 DEF CreatedOnce, CallsHoldSessions, OwnersOwn, TypeOK
<1>8. CallsAreUpToDate'
  <2> SUFFICES ASSUME NEW a \in Callers, call'[a].pc # "idle", call'[a].id \notin overlapped'
               PROVE  UpToDate(a)'
    BY DEF CallsAreUpToDate
  <2>1. a # c /\ call[a].pc # "idle" /\ call[a].id \notin overlapped /\ call'[c].id # call[a].id
    BY <1>2 DEF CallsHoldSessions
  <2> QED
    BY <1>2, <2>1, OthersStayUpToDate
<1>9. RefusedForExit'
  BY <1>2, RefusedStays DEF RefusedForExit, CallsHoldSessions
<1>10. LostOnlyToOverlaps'
  BY <1>2, AccountedStays DEF LostOnlyToOverlaps
<1>11. CleanedAreGone'
  BY DEF CleanedAreGone, TypeOK
<1> QED
  BY <1>1, <1>4, <1>5, <1>6, <1>7, <1>8, <1>9, <1>10, <1>11

(***************************************************************************)
(* A call begins that captures a session, or adopts a simulator.            *)
(***************************************************************************)
LEMMA BeginStep ==
  ASSUME IInv, NEW c \in Callers, NEW i \in Ids, NEW session \in Sessions,
         NEW place \in {"asking", "attaching", "destroying", "using"},
         Begin(c, i, place, session),
         place = "attaching" => sessions[i] = NoSession /\ ~session.owned,
         place # "attaching" => sessions[i] = session,
         UNCHANGED <<dev, sessions, lost, starting, exitVars, excused>>
  PROVE  IInv'
<1> USE DEF IInv, RegistryOK
<1>1. TypeOK'
  BY DEF TypeOK, Begin, At
<1>2. /\ call[c].pc = "idle" /\ call'[c] = [pc |-> place, id |-> i, session |-> session]
      /\ \A d \in Callers : d # c => call'[d] = call[d]
  BY DEF TypeOK, Begin, At
<1>3. /\ overlapped \subseteq overlapped'
      /\ i \notin overlapped' => \A d \in Callers : call[d].id = i => {place, call[d].pc} \subseteq Using
  BY DEF TypeOK, Begin
<1>4. \A d \in Callers : Creating(d)' <=> Creating(d)
  BY <1>2 DEF Creating
<1>5. OneCreationPerId'
  BY <1>2, <1>4 DEF OneCreationPerId, Creating
<1>6. OwnersOwn'
  BY DEF OwnersOwn
<1>7. CallsHoldSessions'
  BY <1>2 DEF CallsHoldSessions, OwnersOwn
<1>8. CreatedOnce'
  <2>1. session.owned => sessions[i] = session /\ dev[session.sim] # "none"
    BY DEF CreatedOnce
  <2>2. \A d \in Callers : call[d].pc = "booting" => Of(d) # session
    BY <2>1 DEF CreatedOnce, CallsHoldSessions
  <2> QED
    BY <1>2, <2>1, <2>2 DEF CreatedOnce
<1>9. UnderOneId'
  <2>1. session.owned => \A j \in Ids : sessions[j] = session => j = i
    BY DEF OwnersOwn
  <2>2. session.owned => \A d \in Callers : Of(d) = session => call[d].id = i
    BY DEF UnderOneId
  <2> QED
    BY <1>2, <2>1, <2>2 DEF UnderOneId
<1>10. CallsAreUpToDate'
  <2> SUFFICES ASSUME NEW a \in Callers, call'[a].pc # "idle", call'[a].id \notin overlapped'
               PROVE  UpToDate(a)'
    BY DEF CallsAreUpToDate
  <2>1. CASE a = c
    BY <1>2, <1>3, <2>1 DEF UpToDate, Using
  <2>2. CASE a # c
    BY <1>2, <1>3, <2>2, OthersStayUpToDate
  <2> QED
    BY <2>1, <2>2
<1>11. RefusedForExit'
  BY <1>2, <1>3, RefusedStays DEF RefusedForExit, CallsHoldSessions
<1>12. LostOnlyToOverlaps'
  BY <1>2, AccountedStays DEF LostOnlyToOverlaps
<1>13. CleanedAreGone'
  BY DEF CleanedAreGone
<1> QED
  BY <1>1, <1>5, <1>6, <1>7, <1>8, <1>9, <1>10, <1>11, <1>12, <1>13

(***************************************************************************)
(* A use is refused.  A destroy that it could be refused for would be a     *)
(* destroy of its own session, which overlaps it: only the exit path is     *)
(* left.                                                                   *)
(***************************************************************************)
LEMMA UseRefusedStep ==
  ASSUME IInv, NEW c \in Callers, UseRefused(c)
  PROVE  IInv'
<1> USE DEF IInv, RegistryOK
<1>0. /\ UNCHANGED <<dev, sessions, lost, starting, exitVars, excused, overlapped>>
      /\ call[c].pc = "using" /\ BeingDeleted(Of(c).sim)
  BY DEF UseRefused, Goto, At
<1>1. TypeOK'
  BY <1>0 DEF TypeOK, UseRefused, Goto
<1>2. /\ call'[c] = [pc |-> "refused", id |-> call[c].id, session |-> Of(c)]
      /\ \A d \in Callers : d # c => call'[d] = call[d]
  BY DEF TypeOK, UseRefused, Goto
<1>3. call'[c].pc = "refused" /\ call'[c].id = call[c].id /\ call'[c].session = Of(c)
  BY <1>2 DEF TypeOK
<1>4. \A d \in Callers : Creating(d)' <=> Creating(d)
  BY <1>0, <1>2, <1>3 DEF Creating
<1>a. \A d \in Callers : /\ call'[d].session = call[d].session /\ call'[d].id = call[d].id
                         /\ d # c => call'[d].pc = call[d].pc
  BY <1>2, <1>3
<1>5. OneCreationPerId'
  BY <1>0, <1>2, <1>4, <1>3 DEF OneCreationPerId, Creating
<1>6. OwnersOwn'
  BY <1>0 DEF OwnersOwn
<1>7. CallsHoldSessions'
  BY <1>0, <1>3, <1>a DEF CallsHoldSessions
<1>8. CreatedOnce'
  BY <1>0, <1>3, <1>a DEF CreatedOnce
<1>9. UnderOneId'
  BY <1>0, <1>a DEF UnderOneId
<1>10. CallsAreUpToDate'
  <2> SUFFICES ASSUME NEW a \in Callers, call'[a].pc # "idle", call'[a].id \notin overlapped'
               PROVE  UpToDate(a)'
    BY DEF CallsAreUpToDate
  <2>1. CASE a = c
    <3>1. UpToDate(c)
      BY <1>0, <1>3, <2>1 DEF CallsAreUpToDate
    <3> QED
      BY <1>0, <1>2, <1>3, <2>1, <3>1 DEF UpToDate, Using
  <2>2. CASE a # c
    <3>1. call'[c].id = call[a].id => {call[a].pc, call'[c].pc} \subseteq Using
      BY <1>0, <1>2, <1>3, <2>2, SharingIsUsing DEF Using
    <3> QED
      BY <1>0, <1>2, <2>2, <3>1, OthersStayUpToDate
  <2> QED
    BY <2>1, <2>2
<1>11. RefusedForExit'
  <2>1. ASSUME Of(c).owned, call[c].id \notin overlapped
        PROVE  Cleaning(Of(c).sim)
    <3>1. ASSUME NEW d \in Callers, call[d].pc = "destroying",
                 Of(d) = [sim |-> Of(c).sim, owned |-> TRUE]
          PROVE  FALSE
      <4>1. Of(d) = Of(c)
        BY <1>0, <2>1, <3>1 DEF CallsHoldSessions
      <4>2. call[d].id = call[c].id /\ d # c
        BY <1>0, <2>1, <3>1, <4>1 DEF UnderOneId
      <4> QED
        BY <1>0, <2>1, <3>1, <4>2, SharingIsUsing DEF Using
    <3> QED
      BY <1>0, <3>1 DEF BeingDeleted
  <2>2. ASSUME NEW a \in Callers, a # c, call[a].pc = "refused", Of(a).owned,
               call[a].id \notin overlapped
        PROVE  dev[Of(a).sim] # "booted" \/ Of(a).sim \in excused \/ Cleaning(Of(a).sim)
    BY <2>2 DEF RefusedForExit
  <2> QED
    BY <1>0, <1>2, <1>3, <2>1, <2>2 DEF RefusedForExit, Cleaning
<1>12. LostOnlyToOverlaps'
  BY <1>0, <1>2, AccountedStays DEF LostOnlyToOverlaps
<1>13. CleanedAreGone'
  BY <1>0 DEF CleanedAreGone
<1> QED
  BY <1>1, <1>5, <1>6, <1>7, <1>8, <1>9, <1>10, <1>11, <1>12, <1>13

(***************************************************************************)
(* A call drops the session of its id and ends: what it captured is gone,   *)
(* not running, not ours, or was refused to it.                             *)
(***************************************************************************)
LEMMA DropStep ==
  ASSUME IInv, NEW c \in Callers, End(c), Put(call[c].id, NoSession),
         call[c].pc \in {"asking", "destroying", "using", "refused"},
         dev' = dev \/ (Of(c).owned /\ dev' = [dev EXCEPT ![Of(c).sim] = "gone"]),
         call[c].pc = "refused" => dev' = dev,
         Of(c).owned => dev'[Of(c).sim] # "booted" \/ call[c].pc = "refused",
         UNCHANGED <<starting, exitVars, excused>>
  PROVE  IInv'
<1> USE DEF IInv, RegistryOK
<1>0. Of(c) \in Sessions /\ call[c].id \in Ids /\ call[c].pc # "idle"
  BY DEF CallsHoldSessions, TypeOK
<1>1. TypeOK'
  BY <1>0 DEF TypeOK, End, Put
<1>2. /\ call'[c] = IdleCall /\ \A d \in Callers : d # c => call'[d] = call[d]
      /\ overlapped' \subseteq overlapped
      /\ \A a \in Callers : a # c /\ call[a].id \notin overlapped' => call[a].id \notin overlapped
  BY EndOfOverlap
<1>3. \A d \in Callers : Creating(d)' <=> Creating(d)
  BY <1>2 DEF Creating
<1>4. OneCreationPerId'
  BY <1>2, <1>3 DEF OneCreationPerId, Creating
<1>5. \A j \in Ids : sessions'[j] = IF j = call[c].id THEN NoSession ELSE sessions[j]
  BY <1>0 DEF TypeOK, Put
<1>6. OwnersOwn'
  BY <1>5 DEF OwnersOwn
<1>7. CallsHoldSessions'
  BY <1>2 DEF CallsHoldSessions
<1>8. \A s \in Sims : dev'[s] = dev[s] \/ dev'[s] = "gone"
  BY <1>0 DEF TypeOK
<1>9. CreatedOnce'
  <2>1. \A j \in Ids : sessions'[j].owned => dev'[sessions'[j].sim] # "none"
    BY <1>5, <1>8 DEF CreatedOnce, OwnersOwn
  <2>2. \A d \in Callers : call'[d].session.owned => dev'[call'[d].session.sim] # "none"
    BY <1>2, <1>8 DEF CreatedOnce, CallsHoldSessions
  <2>3. ASSUME NEW d \in Callers, call'[d].pc = "booting"
        PROVE  d # c /\ call'[d] = call[d] /\ Of(d) \in Sessions
    BY <2>3, <1>2 DEF CallsHoldSessions
  <2> QED
    BY <2>1, <2>2, <2>3, <1>2, <1>5 DEF CreatedOnce, CallsHoldSessions
<1>10. UnderOneId'
  BY <1>2, <1>5 DEF UnderOneId
<1>11. CallsAreUpToDate'
  <2> SUFFICES ASSUME NEW a \in Callers, call'[a].pc # "idle", call'[a].id \notin overlapped'
               PROVE  UpToDate(a)'
    BY DEF CallsAreUpToDate
  <2>1. /\ a # c /\ call[a].pc # "idle" /\ call[a].id \notin overlapped
        /\ call[a].id \in Ids /\ call'[c].id # call[a].id
    BY <1>2 DEF CallsHoldSessions, TypeOK
  <2>2. call[a].id = call[c].id => call[a].pc \in Using
    BY <1>0, <2>1, SharingIsUsing
  <2> QED
    BY <1>2, <1>5, <2>1, <2>2, OthersStayUpToDate
<1>12. RefusedForExit'
  BY <1>2, <1>8, RefusedStays DEF RefusedForExit, CallsHoldSessions
<1>13. LostOnlyToOverlaps'
  <2> SUFFICES ASSUME server # "exited", NEW s \in Own, dev'[s] = "booted"
               PROVE  (Accounted(s) \/ s \in lost)'
    BY DEF LostOnlyToOverlaps
  <2>1. dev[s] = "booted"
    BY <1>8
  <2>2. ASSUME NEW j \in Ids, sessions[j] = [sim |-> s, owned |-> TRUE], sessions'[j] # sessions[j]
        PROVE  s \in lost' \/ Accounted(s)'
    <3>1. j = call[c].id
      BY <1>5, <2>2
    <3>2. CASE call[c].id \in overlapped
      BY <2>1, <2>2, <3>1, <3>2 DEF Put
    <3>3. CASE call[c].id \notin overlapped
      <4>1. sessions[call[c].id] \in {Of(c), NoSession}
        BY <1>0, <3>3 DEF CallsAreUpToDate, UpToDate, Using
      <4>2. Of(c) = [sim |-> s, owned |-> TRUE]
        BY <2>2, <3>1, <4>1
      <4>3. call[c].pc = "refused"
        BY <4>2
      <4> QED
        BY <2>1, <3>3, <4>2, <4>3 DEF RefusedForExit, Accounted, Cleaning
    <3> QED
      BY <3>2, <3>3
  <2>3. \A d \in Callers : call[d].pc = "booting" /\ Of(d).sim = s => call'[d] = call[d]
    BY <1>2
  <2>4. lost \subseteq lost'
    BY DEF Put
  <2> QED
    BY <2>1, <2>2, <2>3, <2>4, AccountedStays
<1>14. CleanedAreGone'
  BY <1>8 DEF CleanedAreGone, TypeOK
<1> QED
  BY <1>1, <1>4, <1>6, <1>7, <1>9, <1>10, <1>11, <1>12, <1>13, <1>14

(***************************************************************************)
(* start_simulator reserves its id, by a first call or after a stale        *)
(* session was dropped.                                                     *)
(***************************************************************************)
LEMMA StartNewStep ==
  ASSUME IInv, NEW c \in Callers, NEW i \in Ids, StartNew(c, i)
  PROVE  IInv'
<1> USE DEF IInv, RegistryOK
<1>0. /\ UNCHANGED <<dev, sessions, lost, exitVars, excused>>
      /\ sessions[i] = NoSession /\ i \notin starting /\ starting' = starting \cup {i}
      /\ Begin(c, i, "creating", NoSession)
  BY DEF StartNew
<1>1. TypeOK'
  BY <1>0 DEF TypeOK, Begin, At
<1>2. /\ call[c].pc = "idle" /\ call'[c] = [pc |-> "creating", id |-> i, session |-> NoSession]
      /\ \A d \in Callers : d # c => call'[d] = call[d]
  BY <1>0 DEF TypeOK, Begin, At
<1>3. /\ overlapped \subseteq overlapped'
      /\ i \notin overlapped' => \A d \in Callers : call[d].id # i
  BY <1>0 DEF TypeOK, Begin, Using
<1>4. Creating(c)' /\ ~Creating(c) /\ \A d \in Callers : d # c => (Creating(d)' <=> Creating(d))
  BY <1>2 DEF Creating
<1>5. OneCreationPerId'
  BY <1>0, <1>2, <1>4 DEF OneCreationPerId
<1>6. OwnersOwn'
  BY <1>0 DEF OwnersOwn
<1>7. CallsHoldSessions'
  BY <1>2 DEF CallsHoldSessions
<1>8. CreatedOnce'
  BY <1>0, <1>2 DEF CreatedOnce, CallsHoldSessions
<1>9. UnderOneId'
  BY <1>0, <1>2 DEF UnderOneId
<1>10. CallsAreUpToDate'
  <2> SUFFICES ASSUME NEW a \in Callers, call'[a].pc # "idle", call'[a].id \notin overlapped'
               PROVE  UpToDate(a)'
    BY DEF CallsAreUpToDate
  <2>1. CASE a = c
    BY <1>0, <1>2, <1>3, <2>1 DEF UpToDate, Using
  <2>2. CASE a # c
    BY <1>0, <1>2, <1>3, <2>2, OthersStayUpToDate
  <2> QED
    BY <2>1, <2>2
<1>11. RefusedForExit'
  BY <1>0, <1>2, <1>3, RefusedStays DEF RefusedForExit, CallsHoldSessions
<1>12. LostOnlyToOverlaps'
  BY <1>0, <1>2, AccountedStays DEF LostOnlyToOverlaps
<1>13. CleanedAreGone'
  BY <1>0 DEF CleanedAreGone
<1> QED
  BY <1>1, <1>5, <1>6, <1>7, <1>8, <1>9, <1>10, <1>11, <1>12, <1>13

LEMMA FoundStaleStep ==
  ASSUME IInv, NEW c \in Callers, FoundStale(c)
  PROVE  IInv'
<1> USE DEF IInv, RegistryOK
<1>0. /\ call[c].pc = "asking" /\ dev[Of(c).sim] # "booted" /\ Put(call[c].id, NoSession)
      /\ UNCHANGED <<dev, exitVars, excused>>
      /\ Of(c) \in Sessions /\ call[c].id \in Ids
  BY DEF FoundStale, At, CallsHoldSessions, TypeOK
<1>1. CASE call[c].id \in starting
  BY <1>0, <1>1, DropStep DEF FoundStale
<1>2. CASE call[c].id \notin starting
  <2>0. /\ starting' = starting \cup {call[c].id} /\ overlapped' = overlapped
        /\ Goto(c, "creating", NoSession)
    BY <1>2 DEF FoundStale, Goto
  <2>1. TypeOK'
    BY <1>0, <2>0 DEF TypeOK, Put, Goto
  <2>2. call'[c] = [pc |-> "creating", id |-> call[c].id, session |-> NoSession]
        /\ \A d \in Callers : d # c => call'[d] = call[d]
    BY <2>0 DEF TypeOK, Goto
  <2>3. Creating(c)' /\ ~Creating(c)
        /\ \A d \in Callers : d # c => (Creating(d)' <=> Creating(d))
    BY <1>0, <2>2 DEF Creating
  <2>4. OneCreationPerId'
    BY <1>2, <2>0, <2>2, <2>3 DEF OneCreationPerId
  <2>5. \A j \in Ids : sessions'[j] = IF j = call[c].id THEN NoSession ELSE sessions[j]
    BY <1>0 DEF TypeOK, Put
  <2>6. OwnersOwn'
    BY <2>5 DEF OwnersOwn
  <2>7. CallsHoldSessions'
    BY <1>0, <2>2 DEF CallsHoldSessions
  <2>8. CreatedOnce'
    BY <1>0, <2>2, <2>5 DEF CreatedOnce, CallsHoldSessions
  <2>9. UnderOneId'
    BY <2>2, <2>5 DEF UnderOneId
  <2>10. CallsAreUpToDate'
    <3> SUFFICES ASSUME NEW a \in Callers, call'[a].pc # "idle", call'[a].id \notin overlapped'
                 PROVE  UpToDate(a)'
      BY DEF CallsAreUpToDate
    <3>1. \A d \in Callers : d # c /\ call[c].id \notin overlapped => call[d].id # call[c].id
      BY <1>0, SharingIsUsing DEF Using
    <3>2. CASE a = c
      <4>1. call'[c].pc = "creating" /\ call'[c].id = call[c].id
        BY <2>2
      <4>2. \A d \in Callers : d # c => call'[d].id = call[d].id
        BY <2>2
      <4>3. sessions'[call[c].id] = NoSession
        BY <1>0, <2>5
      <4> QED
        BY <2>0, <3>1, <3>2, <4>1, <4>2, <4>3 DEF UpToDate, Using
    <3>3. CASE a # c
      <4>1. /\ call[a].pc # "idle" /\ call[a].id \notin overlapped /\ call[a].id \in Ids
            /\ call[a].id # call[c].id /\ call'[c].id = call[c].id
        BY <2>0, <2>2, <3>1, <3>3 DEF CallsHoldSessions, TypeOK
      <4> QED
        BY <2>2, <2>5, <3>3, <4>1, OthersStayUpToDate
    <3> QED
      BY <3>2, <3>3
  <2>11. RefusedForExit'
    BY <1>0, <2>0, <2>2, RefusedStays DEF RefusedForExit, CallsHoldSessions
  <2>12. LostOnlyToOverlaps'
    <3> SUFFICES ASSUME server # "exited", NEW s \in Own, dev[s] = "booted"
                 PROVE  (Accounted(s) \/ s \in lost)'
      BY <1>0 DEF LostOnlyToOverlaps
    <3>1. ASSUME NEW j \in Ids, sessions[j] = [sim |-> s, owned |-> TRUE], sessions'[j] # sessions[j]
          PROVE  s \in lost'
      <4>1. j = call[c].id
        BY <2>5, <3>1
      <4>2. CASE call[c].id \in overlapped
        BY <1>0, <3>1, <4>1, <4>2 DEF Put
      <4>3. CASE call[c].id \notin overlapped
        BY <1>0, <3>1, <4>1, <4>3 DEF CallsAreUpToDate, UpToDate
      <4> QED
        BY <4>2, <4>3
    <3>2. \A d \in Callers : call[d].pc = "booting" /\ Of(d).sim = s => call'[d] = call[d]
      BY <1>0, <2>2
    <3>3. lost \subseteq lost'
      BY <1>0 DEF Put
    <3> QED
      BY <1>0, <3>1, <3>2, <3>3, AccountedStays
  <2>13. CleanedAreGone'
    BY <1>0 DEF CleanedAreGone
  <2> QED
    BY <2>1, <2>4, <2>6, <2>7, <2>8, <2>9, <2>10, <2>11, <2>12, <2>13
<1> QED
  BY <1>1, <1>2

LEMMA CreatedStep ==
  ASSUME IInv, NEW c \in Callers, Created(c)
  PROVE  IInv'
<1> USE DEF IInv, RegistryOK
<1>p. PICK s \in Own : /\ dev[s] = "none"
                       /\ dev' = [dev EXCEPT ![s] = "shutdown"]
                       /\ Goto(c, "booting", [sim |-> s, owned |-> TRUE])
  BY DEF Created
<1>0. /\ call[c].pc = "creating"
      /\ UNCHANGED <<sessions, lost, starting, exitVars, excused, overlapped>>
  BY <1>p DEF Created, At, Goto
<1>2. call'[c] = [pc |-> "booting", id |-> call[c].id, session |-> [sim |-> s, owned |-> TRUE]]
      /\ \A d \in Callers : d # c => call'[d] = call[d]
  BY <1>p DEF TypeOK, Goto
<1>1. TypeOK'
  <2>1. call'[c] \in Calls
    BY <1>2 DEF Calls, TypeOK
  <2>2. call' \in [Callers -> Calls]
    BY <1>p, <1>2, <2>1 DEF Calls, TypeOK, Goto
  <2>3. dev' \in [Sims -> DevStates]
    BY <1>p DEF DevStates, TypeOK
  <2> QED
    BY <1>0, <2>2, <2>3 DEF TypeOK, Calls, DevStates
<1>3. \A d \in Callers : Creating(d)' <=> Creating(d)
  BY <1>0, <1>2 DEF Creating
<1>4. OneCreationPerId'
  BY <1>0, <1>2, <1>3 DEF OneCreationPerId
<1>5. OwnersOwn'
  BY <1>0 DEF OwnersOwn
<1>s. call'[c].session = [sim |-> s, owned |-> TRUE]
  BY <1>2
<1>i. call'[c].id = call[c].id /\ call'[c].pc = "booting"
  BY <1>2
<1>o. \A d \in Callers : d # c => call'[d] = call[d]
  BY <1>2
<1>6. CallsHoldSessions'
  <2> SUFFICES ASSUME NEW a \in Callers
               PROVE  (/\ call[a].pc = "idle" <=> call[a].id = None
                       /\ call[a].pc \notin {"idle", "creating"} => Of(a) \in Sessions
                       /\ Of(a).owned => Of(a).sim \in Own
                       /\ call[a].pc = "booting" => OwnSession(Of(a))
                       /\ call[a].pc = "attaching" => ~Of(a).owned)'
    BY DEF CallsHoldSessions
  <2>1. CASE a = c
    <3>1. call[c].id # None
      BY <1>0 DEF CallsHoldSessions
    <3>2. call'[c].session \in Sessions /\ OwnSession(call'[c].session)
      BY <1>s
    <3> QED
      BY <1>i, <2>1, <3>1, <3>2
  <2>2. CASE a # c
    BY <1>o, <2>2 DEF CallsHoldSessions
  <2> QED
    BY <2>1, <2>2
<1>7. \A t \in Sims : dev'[t] = IF t = s THEN "shutdown" ELSE dev[t]
  BY <1>p DEF TypeOK
\* Nobody has the new simulator.
<1>8. /\ \A j \in Ids : sessions[j] # [sim |-> s, owned |-> TRUE]
      /\ \A d \in Callers : Of(d) # [sim |-> s, owned |-> TRUE]
  BY <1>p DEF CreatedOnce
<1>9. CreatedOnce'
  <2>1. \A j \in Ids : sessions'[j].owned => dev'[sessions'[j].sim] # "none"
    BY <1>0, <1>7 DEF CreatedOnce, OwnersOwn
  <2>2. \A d \in Callers : call'[d].session.owned => dev'[call'[d].session.sim] # "none"
    BY <1>2, <1>7 DEF CreatedOnce, CallsHoldSessions
  <2>3. ASSUME NEW d \in Callers, call'[d].pc = "booting"
        PROVE  /\ \A j \in Ids : sessions'[j] # call'[d].session
               /\ \A e \in Callers : call'[e].session = call'[d].session => e = d
    <3>1. CASE d = c
      BY <1>0, <1>s, <1>o, <1>8, <3>1
    <3>2. CASE d # c
      <4>1. call'[d] = call[d] /\ Of(d) # call'[c].session
        BY <1>o, <1>s, <1>8, <3>2
      <4>2. /\ \A j \in Ids : sessions[j] # Of(d)
            /\ \A e \in Callers : Of(e) = Of(d) => e = d
        BY <2>3, <4>1 DEF CreatedOnce
      <4> QED
        BY <1>0, <1>o, <4>1, <4>2
    <3> QED
      BY <3>1, <3>2
  <2> QED
    BY <2>1, <2>2, <2>3 DEF CreatedOnce
<1>10. UnderOneId'
  <2> SUFFICES ASSUME NEW a \in Callers, call'[a].session.owned
               PROVE  /\ \A i \in Ids : sessions'[i] = call'[a].session => i = call'[a].id
                      /\ \A d \in Callers : call'[d].session = call'[a].session => call'[d].id = call'[a].id
    BY DEF UnderOneId
  <2>1. CASE a = c
    BY <1>0, <1>s, <1>o, <1>8, <2>1
  <2>2. CASE a # c
    <3>1. call'[a] = call[a] /\ Of(a) # call'[c].session
      BY <1>o, <1>s, <1>8, <2>2
    <3>2. /\ \A i \in Ids : sessions[i] = Of(a) => i = call[a].id
          /\ \A d \in Callers : Of(d) = Of(a) => call[d].id = call[a].id
      BY <3>1 DEF UnderOneId
    <3> QED
      BY <1>0, <1>o, <3>1, <3>2
  <2> QED
    BY <2>1, <2>2
<1>11. CallsAreUpToDate'
  <2> SUFFICES ASSUME NEW a \in Callers, call'[a].pc # "idle", call'[a].id \notin overlapped'
               PROVE  UpToDate(a)'
    BY DEF CallsAreUpToDate
  <2>1. call[a].pc # "idle" /\ call[a].id \notin overlapped /\ call'[a].id = call[a].id
    BY <1>0, <1>2
  <2>2. \A d \in Callers : d # c /\ call[c].id \notin overlapped => call[d].id # call[c].id
    BY <1>0, SharingIsUsing DEF Using
  <2>3. CASE a = c
    <3>1. sessions[call[c].id] = NoSession
      BY <1>0, <2>1, <2>3 DEF CallsAreUpToDate, UpToDate
    <3>2. call'[c].pc = "booting" /\ \A d \in Callers : call'[d].id = call[d].id
      BY <1>2
    <3> QED
      BY <1>0, <2>1, <2>2, <2>3, <3>1, <3>2 DEF UpToDate, Using
  <2>4. CASE a # c
    <3>1. call'[c].id = call[c].id
      BY <1>2
    <3> QED
      BY <1>0, <1>2, <2>1, <2>2, <2>4, <3>1, OthersStayUpToDate
  <2> QED
    BY <2>3, <2>4
<1>12. RefusedForExit'
  <2> SUFFICES ASSUME NEW a \in Callers, (call[a].pc = "refused")', (call[a].id \notin overlapped)'
               PROVE  (Of(a).owned => dev[Of(a).sim] # "booted" \/ Of(a).sim \in excused \/ Cleaning(Of(a).sim))'
    BY DEF RefusedForExit
  <2>1. call'[a] = call[a] /\ (Of(a).owned => Of(a).sim \in Sims)
    BY <1>2 DEF CallsHoldSessions
  <2> QED
    BY <1>0, <1>7, <2>1, RefusedStays
<1>13. LostOnlyToOverlaps'
  <2> SUFFICES ASSUME server # "exited", NEW t \in Own, dev'[t] = "booted"
               PROVE  (Accounted(t) \/ t \in lost)'
    BY <1>0 DEF LostOnlyToOverlaps
  <2>1. dev[t] = "booted"
    BY <1>7
  <2> QED
    BY <1>0, <1>2, <2>1, AccountedStays
<1>14. CleanedAreGone'
  BY <1>p, <1>0, <1>7 DEF CleanedAreGone, TypeOK
<1> QED
  BY <1>1, <1>4, <1>5, <1>6, <1>9, <1>10, <1>11, <1>12, <1>13, <1>14

\* A creation fails, or its boot throws.
LEMMA AbandonStep ==
  ASSUME IInv, NEW c \in Callers, End(c), call[c].pc \in {"creating", "booting"},
         starting' = starting \ {call[c].id},
         dev' \in [Sims -> DevStates],
         \A s \in Sims : \/ dev'[s] = dev[s]
                         \/ /\ call[c].pc = "booting" /\ s = Of(c).sim
                            /\ dev[s] # "gone" /\ dev'[s] = "booted",
         excused \subseteq excused', excused' \subseteq Sims,
         call[c].pc = "booting" => Of(c).sim \in excused',
         UNCHANGED <<sessions, lost, exitVars>>
  PROVE  IInv'
<1> USE DEF IInv, RegistryOK, DevStates
<1>1. TypeOK'
  BY DEF TypeOK, End
<1>2. /\ call'[c] = IdleCall /\ \A d \in Callers : d # c => call'[d] = call[d]
      /\ overlapped' \subseteq overlapped
      /\ \A a \in Callers : a # c /\ call[a].id \notin overlapped' => call[a].id \notin overlapped
  BY EndOfOverlap
<1>3. Creating(c) /\ ~Creating(c)' /\ \A d \in Callers : d # c => (Creating(d)' <=> Creating(d))
  BY <1>2 DEF Creating
<1>4. OneCreationPerId'
  BY <1>2, <1>3 DEF OneCreationPerId
<1>5. OwnersOwn'
  BY DEF OwnersOwn
<1>6. CallsHoldSessions' /\ UnderOneId'
  BY <1>2 DEF CallsHoldSessions, UnderOneId
<1>7. CreatedOnce'
  BY <1>2 DEF CreatedOnce, CallsHoldSessions, OwnersOwn, TypeOK
<1>8. CallsAreUpToDate'
  <2> SUFFICES ASSUME NEW a \in Callers, call'[a].pc # "idle", call'[a].id \notin overlapped'
               PROVE  UpToDate(a)'
    BY DEF CallsAreUpToDate
  <2>1. a # c /\ call[a].pc # "idle" /\ call[a].id \notin overlapped /\ call'[c].id # call[a].id
    BY <1>2 DEF CallsHoldSessions
  <2> QED
    BY <1>2, <2>1, OthersStayUpToDate
<1>9. RefusedForExit'
  <2> SUFFICES ASSUME NEW a \in Callers, (call[a].pc = "refused")', (call[a].id \notin overlapped)'
               PROVE  (Of(a).owned => dev[Of(a).sim] # "booted" \/ Of(a).sim \in excused \/ Cleaning(Of(a).sim))'
    BY DEF RefusedForExit
  <2>1. a # c /\ call'[a] = call[a] /\ call[a].id \notin overlapped
    BY <1>2
  <2>2. Of(a).owned /\ dev'[Of(a).sim] = "booted" =>
          dev[Of(a).sim] = "booted" \/ Of(a).sim \in excused'
    BY <2>1 DEF CallsHoldSessions
  <2> QED
    BY <1>2, <2>1, <2>2 DEF RefusedForExit, Cleaning
<1>10. LostOnlyToOverlaps'
  <2> SUFFICES ASSUME server # "exited", NEW s \in Own, dev'[s] = "booted"
               PROVE  (Accounted(s) \/ s \in lost)'
    BY DEF LostOnlyToOverlaps
  <2>1. CASE call[c].pc = "booting" /\ s = Of(c).sim
    BY <2>1 DEF Accounted
  <2>2. CASE ~(call[c].pc = "booting" /\ s = Of(c).sim)
    <3>1. dev[s] = "booted"
      BY <2>2
    <3>2. \A d \in Callers : call[d].pc = "booting" /\ Of(d).sim = s => call'[d] = call[d]
      BY <1>2, <2>2
    <3> QED
      BY <3>1, <3>2, AccountedStays
  <2> QED
    BY <2>1, <2>2
<1>11. CleanedAreGone'
  BY DEF CleanedAreGone, TypeOK
<1> QED
  BY <1>1, <1>4, <1>5, <1>6, <1>7, <1>8, <1>9, <1>10, <1>11

(***************************************************************************)
(* A simulator is registered: the one this call created and booted, or one  *)
(* it attached to.                                                          *)
(***************************************************************************)
LEMMA RegisterStep ==
  ASSUME IInv, NEW c \in Callers, End(c), Put(call[c].id, Of(c)),
         call[c].pc \in {"booting", "attaching"},
         starting' = IF call[c].pc = "booting" THEN starting \ {call[c].id} ELSE starting,
         call[c].pc = "attaching" => dev' = dev,
         dev' = [dev EXCEPT ![Of(c).sim] = IF @ = "gone" THEN @ ELSE "booted"],
         UNCHANGED <<exitVars, excused>>
  PROVE  IInv'
<1> USE DEF IInv, RegistryOK
<1>0. Of(c) \in Sessions /\ call[c].id \in Ids /\ call[c].pc # "idle"
  BY DEF CallsHoldSessions, TypeOK
<1>2. /\ call'[c] = IdleCall /\ \A d \in Callers : d # c => call'[d] = call[d]
      /\ overlapped' \subseteq overlapped
      /\ \A a \in Callers : a # c /\ call[a].id \notin overlapped' => call[a].id \notin overlapped
  BY EndOfOverlap
<1>5. \A j \in Ids : sessions'[j] = IF j = call[c].id THEN Of(c) ELSE sessions[j]
  BY <1>0 DEF TypeOK, Put
<1>6. \A s \in Sims : dev'[s] = dev[s] \/ (s = Of(c).sim /\ dev[s] # "gone" /\ dev'[s] = "booted")
  BY <1>0 DEF TypeOK
<1>1. TypeOK'
  <2>1. dev' \in [Sims -> DevStates]
    BY <1>0 DEF TypeOK, DevStates
  <2>2. sessions' \in [Ids -> Sessions \cup {NoSession}]
    BY <1>0 DEF TypeOK, Put
  <2>3. call' \in [Callers -> Calls]
    BY DEF TypeOK, End, Calls
  <2> QED
    BY <1>2, <2>1, <2>2, <2>3 DEF TypeOK, Calls, DevStates, Put
<1>3. ~Creating(c)' /\ \A d \in Callers : d # c => (Creating(d)' <=> Creating(d))
  BY <1>2 DEF Creating
<1>4. OneCreationPerId'
  BY <1>2, <1>3 DEF OneCreationPerId, Creating
\* One that is ours was booting, so it is nobody else's.
<1>b. Of(c).owned => /\ call[c].pc = "booting" /\ Of(c).sim \in Own
                     /\ \A j \in Ids : sessions[j] # Of(c)
                     /\ \A d \in Callers : Of(d) = Of(c) => d = c
  BY DEF CallsHoldSessions, CreatedOnce
<1>7. OwnersOwn'
  BY <1>5, <1>b DEF OwnersOwn
<1>8. CallsHoldSessions'
  BY <1>2 DEF CallsHoldSessions
<1>9. CreatedOnce'
  <2>1. \A j \in Ids : sessions'[j].owned => dev'[sessions'[j].sim] # "none"
    <3>1. Of(c).owned => dev[Of(c).sim] # "none"
      BY DEF CreatedOnce
    <3>2. \A j \in Ids : sessions[j].owned => sessions[j].sim \in Sims /\ dev[sessions[j].sim] # "none"
      BY DEF CreatedOnce, OwnersOwn
    <3> QED
      BY <1>0, <1>5, <1>6, <3>1, <3>2
  <2>2. \A d \in Callers : call'[d].session.owned => dev'[call'[d].session.sim] # "none"
    BY <1>2, <1>6 DEF CreatedOnce, CallsHoldSessions
  <2>3. ASSUME NEW d \in Callers, call'[d].pc = "booting"
        PROVE  /\ \A j \in Ids : sessions'[j] # call'[d].session
               /\ \A e \in Callers : call'[e].session = call'[d].session => e = d
    <3>1. d # c /\ call'[d] = call[d] /\ call[d].pc = "booting" /\ Of(d).owned
      BY <1>2, <2>3 DEF CallsHoldSessions
    <3>2. Of(d) # Of(c)
      BY <1>b, <3>1
    <3>3. /\ \A j \in Ids : sessions[j] # Of(d)
          /\ \A e \in Callers : Of(e) = Of(d) => e = d
      BY <3>1 DEF CreatedOnce
    <3>4. call'[c].session # Of(d)
      BY <1>2, <3>1
    <3> QED
      BY <1>2, <1>5, <3>1, <3>2, <3>3, <3>4
  <2> QED
    BY <2>1, <2>2, <2>3 DEF CreatedOnce
<1>10. UnderOneId'
  <2> SUFFICES ASSUME NEW a \in Callers, call'[a].session.owned
               PROVE  /\ \A i \in Ids : sessions'[i] = call'[a].session => i = call'[a].id
                      /\ \A d \in Callers : call'[d].session = call'[a].session => call'[d].id = call'[a].id
    BY DEF UnderOneId
  <2>1. a # c /\ call'[a] = call[a] /\ Of(a).owned
    BY <1>2
  <2>2. Of(a) # Of(c)
    BY <1>b, <2>1
  <2>3. /\ \A i \in Ids : sessions[i] = Of(a) => i = call[a].id
        /\ \A d \in Callers : Of(d) = Of(a) => call[d].id = call[a].id
    BY <2>1 DEF UnderOneId
  <2>4. call'[c].session # Of(a)
    BY <1>2, <2>1
  <2> QED
    BY <1>2, <1>5, <2>1, <2>2, <2>3, <2>4
<1>11. CallsAreUpToDate'
  <2> SUFFICES ASSUME NEW a \in Callers, call'[a].pc # "idle", call'[a].id \notin overlapped'
               PROVE  UpToDate(a)'
    BY DEF CallsAreUpToDate
  <2>1. /\ a # c /\ call[a].pc # "idle" /\ call[a].id \notin overlapped
        /\ call[a].id \in Ids /\ call'[c].id # call[a].id
    BY <1>2 DEF CallsHoldSessions, TypeOK
  <2>2. call[a].id # call[c].id
    BY <1>0, <2>1, SharingIsUsing DEF Using
  <2> QED
    BY <1>2, <1>5, <2>1, <2>2, OthersStayUpToDate
<1>12. RefusedForExit'
  <2> SUFFICES ASSUME NEW a \in Callers, (call[a].pc = "refused")', (call[a].id \notin overlapped)'
               PROVE  (Of(a).owned => dev[Of(a).sim] # "booted" \/ Of(a).sim \in excused \/ Cleaning(Of(a).sim))'
    BY DEF RefusedForExit
  <2>1. a # c /\ call'[a] = call[a] /\ call[a].id \notin overlapped
    BY <1>2
  <2>2. Of(a).owned => Of(a).sim \in Own /\ Of(a) # Of(c)
    BY <1>b, <2>1 DEF CallsHoldSessions
  <2>3. call[c].pc = "booting" => OwnSession(Of(c))
    BY DEF CallsHoldSessions
  <2>4. Of(a) \in Sessions
    BY <2>1 DEF CallsHoldSessions
  <2>5. Of(a).owned /\ call[c].pc = "booting" => Of(a).sim # Of(c).sim
    BY <1>0, <2>2, <2>3, <2>4
  <2>6. Of(a).owned /\ dev'[Of(a).sim] = "booted" => dev[Of(a).sim] = "booted"
    BY <1>6, <2>2, <2>5
  <2> QED
    BY <2>1, <2>6, RefusedStays
<1>13. LostOnlyToOverlaps'
  <2> SUFFICES ASSUME server # "exited", NEW s \in Own, dev'[s] = "booted"
               PROVE  (Accounted(s) \/ s \in lost)'
    BY DEF LostOnlyToOverlaps
  <2>1. CASE s = Of(c).sim /\ call[c].pc = "booting"
    <3>1. Of(c) = [sim |-> s, owned |-> TRUE]
      BY <2>1, <1>0 DEF CallsHoldSessions
    <3> QED
      BY <3>1, <1>0, <1>5 DEF Accounted
  <2>2. CASE ~(s = Of(c).sim /\ call[c].pc = "booting")
    <3>1. dev[s] = "booted"
      BY <1>6, <2>2
    <3>2. ASSUME NEW j \in Ids, sessions[j] = [sim |-> s, owned |-> TRUE], sessions'[j] # sessions[j]
          PROVE  s \in lost'
      <4>1. j = call[c].id
        BY <1>5, <3>2
      <4>2. call[c].id \notin overlapped => sessions[j] = NoSession
        BY <1>0, <4>1 DEF CallsAreUpToDate, UpToDate
      <4> QED
        BY <3>1, <3>2, <4>1, <4>2 DEF Put
    <3>3. \A d \in Callers : call[d].pc = "booting" /\ Of(d).sim = s => call'[d] = call[d]
      BY <1>2, <2>2
    <3>4. lost \subseteq lost'
      BY DEF Put
    <3> QED
      BY <3>1, <3>2, <3>3, <3>4, AccountedStays
  <2> QED
    BY <2>1, <2>2
<1>14. CleanedAreGone'
  BY <1>6 DEF CleanedAreGone, TypeOK
<1> QED
  BY <1>1, <1>4, <1>7, <1>8, <1>9, <1>10, <1>11, <1>12, <1>13, <1>14

(***************************************************************************)
(* The exit path, and what others do to the simulators.                     *)
(***************************************************************************)
LEMMA SignalStep == IInv /\ Signal => IInv'
<1> SUFFICES ASSUME IInv, Signal PROVE IInv'
  OBVIOUS
<1> USE DEF IInv, RegistryOK, Signal
<1>1. atExit' \subseteq Own /\ toClean' = atExit'
  BY DEF OwnersOwn
<1>2. TypeOK'
  BY <1>1 DEF TypeOK
<1>3. OneCreationPerId' /\ OwnersOwn'
  BY DEF OneCreationPerId, Creating, OwnersOwn
<1>4. CallsHoldSessions' /\ CreatedOnce' /\ UnderOneId'
  BY DEF CallsHoldSessions, CreatedOnce, UnderOneId
<1>5. CallsAreUpToDate'
  BY DEF CallsAreUpToDate, UpToDate
<1>6. RefusedForExit'
  BY DEF RefusedForExit, Cleaning
<1>7. LostOnlyToOverlaps'
  BY DEF LostOnlyToOverlaps, Accounted, Cleaning
<1>8. CleanedAreGone'
  BY <1>1 DEF CleanedAreGone
<1> QED
  BY <1>2, <1>3, <1>4, <1>5, <1>6, <1>7, <1>8

\* A simulator is shut down or deleted, by the exit path or by others.
LEMMA DeviceStep ==
  ASSUME IInv, server' = server, server # "exited", dev' \in [Sims -> DevStates],
         \A s \in Sims : \/ dev'[s] \in {dev[s], "gone"}
                         \/ dev[s] = "booted" /\ dev'[s] = "shutdown",
         excused \subseteq excused', excused' \subseteq Sims,
         toClean' \subseteq toClean, outside' \in 0 .. MaxOutside,
         CleanupOnExit => \A s \in toClean \ toClean' : dev'[s] = "gone" \/ s \in excused',
         UNCHANGED <<sessions, starting, call, atExit, lost, overlapped>>
  PROVE  IInv'
<1> USE DEF IInv, RegistryOK, DevStates
<1>1. TypeOK'
  BY DEF TypeOK
<1>2. OneCreationPerId' /\ OwnersOwn'
  BY DEF OneCreationPerId, Creating, OwnersOwn
<1>3. CallsHoldSessions' /\ UnderOneId'
  BY DEF CallsHoldSessions, UnderOneId
<1>4. CreatedOnce'
  BY DEF CreatedOnce, CallsHoldSessions, OwnersOwn, TypeOK
<1>5. CallsAreUpToDate'
  BY DEF CallsAreUpToDate, UpToDate
<1>6. \A s \in Own : dev'[s] = "booted" =>
         dev[s] = "booted" /\ (Cleaning(s) => Cleaning(s)' \/ s \in excused')
  BY DEF Cleaning, TypeOK
<1>7. RefusedForExit'
  BY <1>6 DEF RefusedForExit, CallsHoldSessions
<1>8. LostOnlyToOverlaps'
  BY <1>6 DEF LostOnlyToOverlaps, Accounted
<1>9. CleanedAreGone'
  BY DEF CleanedAreGone, TypeOK
<1> QED
  BY <1>1, <1>2, <1>3, <1>4, <1>5, <1>7, <1>8, <1>9

LEMMA GoneStep == IInv /\ server = "cleaning" /\ Gone => IInv'
<1> SUFFICES ASSUME IInv, server = "cleaning", Gone PROVE IInv'
  OBVIOUS
<1> USE DEF IInv, RegistryOK, Gone
<1>1. IdleCall \in Calls
  BY DEF Calls
<1>2. TypeOK'
  BY <1>1 DEF TypeOK, Calls
<1>3. OneCreationPerId' /\ OwnersOwn'
  BY DEF OneCreationPerId, Creating, OwnersOwn
<1>4. CallsHoldSessions' /\ CreatedOnce' /\ UnderOneId'
  BY DEF CallsHoldSessions, CreatedOnce, UnderOneId
<1>5. CallsAreUpToDate' /\ RefusedForExit'
  BY DEF CallsAreUpToDate, RefusedForExit
<1>6. LostOnlyToOverlaps' /\ CleanedAreGone'
  BY DEF LostOnlyToOverlaps, CleanedAreGone
<1> QED
  BY <1>2, <1>3, <1>4, <1>5, <1>6

LEMMA StutterStep == IInv /\ UNCHANGED vars => IInv'
<1> SUFFICES ASSUME IInv, UNCHANGED vars PROVE IInv'
  OBVIOUS
<1> USE DEF IInv, RegistryOK, vars
<1>1. TypeOK'
  BY DEF TypeOK
<1>2. OneCreationPerId' /\ OwnersOwn' /\ CallsHoldSessions'
  BY DEF OneCreationPerId, Creating, OwnersOwn, CallsHoldSessions
<1>3. CreatedOnce' /\ UnderOneId'
  BY DEF CreatedOnce, UnderOneId
<1>4. CallsAreUpToDate' /\ RefusedForExit'
  BY DEF CallsAreUpToDate, UpToDate, RefusedForExit, Cleaning
<1>5. LostOnlyToOverlaps' /\ CleanedAreGone'
  BY DEF LostOnlyToOverlaps, Accounted, Cleaning, CleanedAreGone
<1> QED
  BY <1>1, <1>2, <1>3, <1>4, <1>5

(***************************************************************************)
(* Every step preserves the invariant.                                      *)
(***************************************************************************)
LEMMA BeginsIInv ==
  ASSUME IInv, NEW c \in Callers, CallBegins(c)
  PROVE  IInv'
<1> PICK i \in Ids : \/ StartNew(c, i) \/ StartKnown(c, i)
                     \/ DestroyBegins(c, i) \/ UseBegins(c, i)
                     \/ \E s \in Sims : AttachBegins(c, i, s)
  BY DEF CallBegins
<1>0. sessions[i] # NoSession => sessions[i] \in Sessions
  BY DEF IInv, RegistryOK, TypeOK
<1>1. CASE StartNew(c, i)
  BY <1>1, StartNewStep
<1>2. CASE StartKnown(c, i)
  BY <1>0, <1>2, BeginStep DEF StartKnown
<1>3. CASE DestroyBegins(c, i)
  BY <1>0, <1>3, BeginStep DEF DestroyBegins
<1>4. CASE UseBegins(c, i)
  BY <1>0, <1>4, BeginStep DEF UseBegins
<1>5. CASE \E s \in Sims : AttachBegins(c, i, s)
  <2> PICK s \in Sims : AttachBegins(c, i, s)
    BY <1>5
  <2>1. [sim |-> s, owned |-> FALSE] \in Sessions
    OBVIOUS
  <2> QED
    BY <2>1, BeginStep DEF AttachBegins
<1> QED
  BY <1>1, <1>2, <1>3, <1>4, <1>5

LEMMA CreateStepIInv ==
  ASSUME IInv, NEW c \in Callers, CreateStep(c)
  PROVE  IInv'
<1> USE DEF At
<1>0. /\ dev \in [Sims -> DevStates]
      /\ excused \subseteq Sims
      /\ call[c].pc = "booting" => Of(c).sim \in Sims
  BY DEF IInv, RegistryOK, TypeOK, CallsHoldSessions, DevStates
<1>1. CASE Created(c)
  BY <1>1, CreatedStep
<1>2. CASE CreateFails(c)
  BY <1>0, <1>2, AbandonStep DEF CreateFails
<1>3. CASE Started(c)
  BY <1>3, RegisterStep DEF Started
<1>4. CASE BootThrows(c)
  <2> USE DEF BootThrows
  <2>1. call[c].pc = "booting" /\ Of(c).sim \in Sims
    BY <1>0, <1>4
  <2>2. dev' \in [Sims -> DevStates]
    BY <1>0, <1>4 DEF DevStates
  <2>3. \A s \in Sims : \/ dev'[s] = dev[s]
                        \/ /\ call[c].pc = "booting" /\ s = Of(c).sim
                           /\ dev[s] # "gone" /\ dev'[s] = "booted"
    BY <1>0, <1>4, <2>1
  <2> QED
    BY <1>0, <1>4, <2>1, <2>2, <2>3, AbandonStep
<1> QED
  BY <1>1, <1>2, <1>3, <1>4 DEF CreateStep

LEMMA CallStepIInv ==
  ASSUME IInv, NEW c \in Callers, CallStep(c)
  PROVE  IInv'
<1> USE DEF At
<1>0. /\ dev \in [Sims -> DevStates]
      /\ call[c].pc \notin {"idle", "creating"} => Of(c).sim \in Sims
      /\ call[c].pc \notin {"idle", "creating"} => Of(c).owned \in BOOLEAN
  BY DEF IInv, RegistryOK, TypeOK, CallsHoldSessions, DevStates
<1>1. CASE Resumed(c)
  BY <1>0, <1>1, EndStep DEF Resumed
<1>2. CASE FoundStale(c)
  BY <1>2, FoundStaleStep
<1>3. CASE CreateStep(c)
  BY <1>3, CreateStepIInv
<1>4. CASE Attached(c)
  <2>1. dev' = [dev EXCEPT ![Of(c).sim] = IF @ = "gone" THEN @ ELSE "booted"]
    BY <1>0, <1>4 DEF Attached
  <2> QED
    BY <1>4, <2>1, RegisterStep DEF Attached
<1>5. CASE AttachRefused(c)
  BY <1>0, <1>5, EndStep DEF AttachRefused
<1>6. CASE Destroyed(c)
  <2>1. dev' = dev \/ (Of(c).owned /\ dev' = [dev EXCEPT ![Of(c).sim] = "gone"])
    BY <1>6 DEF Destroyed
  <2>2. Of(c).owned => dev'[Of(c).sim] # "booted"
    BY <1>0, <1>6 DEF Destroyed
  <2> QED
    BY <1>6, <2>1, <2>2, DropStep DEF Destroyed
<1>7. CASE DestroyFails(c)
  <2>1. dev' \in [Sims -> DevStates]
    BY <1>0, <1>7 DEF DestroyFails, LeftBehind, DevStates
  <2>2. \A s \in Sims : dev'[s] = dev[s] \/ (dev[s] = "booted" /\ dev'[s] = "shutdown")
    BY <1>0, <1>7 DEF DestroyFails, LeftBehind
  <2> QED
    BY <1>7, <2>1, <2>2, EndStep DEF DestroyFails
<1>8. CASE UseEnds(c)
  BY <1>0, <1>8, EndStep DEF UseEnds
<1>9. CASE UseFindsNone(c)
  <2>1. dev' = dev /\ End(c) /\ Put(call[c].id, NoSession) /\ UNCHANGED <<starting, exitVars, excused>>
    BY <1>9 DEF UseFindsNone
  <2>2. \/ call[c].pc = "using" /\ dev[Of(c).sim] = "gone"
        \/ call[c].pc = "refused"
    BY <1>9 DEF UseFindsNone
  <2> QED
    BY <2>1, <2>2, DropStep
<1>10. CASE UseRefused(c)
  BY <1>10, UseRefusedStep
<1> QED
  BY <1>1, <1>2, <1>3, <1>4, <1>5, <1>6, <1>7, <1>8, <1>9, <1>10 DEF CallStep

LEMMA CleanOneStep ==
  ASSUME IInv, NEW s \in Own, CleanOne(s)
  PROVE  IInv'
<1> USE DEF CleanOne
<1>1. /\ dev \in [Sims -> DevStates]
      /\ excused \subseteq Sims /\ outside \in 0 .. MaxOutside
  BY DEF IInv, RegistryOK, TypeOK, DevStates
<1>2. \/ dev' = dev
      \/ dev' = [dev EXCEPT ![s] = "gone"]
      \/ dev' = [dev EXCEPT ![s] = IF @ = "booted" THEN "shutdown" ELSE @]
  BY DEF LeftBehind
<1>3. dev' \in [Sims -> DevStates]
  BY <1>1, <1>2 DEF DevStates
<1>4. \A r \in Sims : dev'[r] \in {dev[r], "gone"} \/ (dev[r] = "booted" /\ dev'[r] = "shutdown")
  BY <1>1, <1>2
<1>5. CleanupOnExit => \A r \in toClean \ toClean' : dev'[r] = "gone" \/ r \in excused'
  BY <1>1
<1>6. excused \subseteq excused' /\ excused' \subseteq Sims
  BY <1>1
<1> QED
  BY <1>1, <1>3, <1>4, <1>5, <1>6, DeviceStep

LEMMA OutsideStep ==
  ASSUME IInv, NEW s \in Sims, UserShutsDown(s) \/ UserDeletes(s)
  PROVE  IInv'
<1> USE DEF UserShutsDown, UserDeletes, Outside
<1>1. dev \in [Sims -> DevStates] /\ excused \subseteq Sims /\ outside' \in 0 .. MaxOutside
  BY DEF IInv, RegistryOK, TypeOK, DevStates
<1>2. \E state \in {"shutdown", "gone"} :
        dev' = [dev EXCEPT ![s] = state] /\ (state = "shutdown" => dev[s] = "booted")
  OBVIOUS
<1>3. dev' \in [Sims -> DevStates]
  BY <1>1, <1>2 DEF DevStates
<1>4. \A r \in Sims : dev'[r] \in {dev[r], "gone"} \/ (dev[r] = "booted" /\ dev'[r] = "shutdown")
  BY <1>1, <1>2
<1> QED
  BY <1>1, <1>3, <1>4, DeviceStep

LEMMA NextIInv == IInv /\ [Next]_vars => IInv'
<1> SUFFICES ASSUME IInv, [Next]_vars PROVE IInv'
  OBVIOUS
<1>1. ASSUME NEW c \in Callers, CallBegins(c) \/ CallStep(c) PROVE IInv'
  BY <1>1, BeginsIInv, CallStepIInv
<1>2. CASE Signal
  BY <1>2, SignalStep
<1>3. CASE Exit \/ SecondSignal
  BY <1>3, GoneStep DEF Exit, SecondSignal
<1>4. ASSUME NEW s \in Own, CleanOne(s) PROVE IInv'
  BY <1>4, CleanOneStep
<1>5. ASSUME NEW s \in Sims, UserShutsDown(s) \/ UserDeletes(s) PROVE IInv'
  BY <1>5, OutsideStep
<1>6. CASE UNCHANGED vars
  BY <1>6, StutterStep
<1> QED
  BY <1>1, <1>2, <1>3, <1>4, <1>5, <1>6 DEF Next

--------------------------------------------------------------------------------
\* What the registry holds, what each call in progress captured and what has become
\* of the simulators fit together, whichever calls overlap.
THEOREM InductiveInvariant == Spec => []IInv
  BY InitIInv, NextIInv, PTL DEF Spec

\* The reservations of sessions.ts are exactly the creations in progress, one per id,
\* and a session that owns a simulator owns one this server created, alone.
THEOREM RegistryHolds == Spec => []RegistryOK
<1>1. IInv => RegistryOK
  BY DEF IInv
<1> QED
  BY <1>1, InductiveInvariant, PTL

\* A running simulator this server created is held by a session, by the call that is
\* booting it or by the exit path, unless its own boot or deletion failed or its session
\* was changed while calls for the id overlapped.  A use that is told "not found" of a
\* simulator that is still there (companionManager.ts:179) is among the calls.
THEOREM OnlyOverlapsLose == Spec => []LostOnlyToOverlaps
<1>1. IInv => LostOnlyToOverlaps
  BY DEF IInv
<1> QED
  BY <1>1, InductiveInvariant, PTL

\* With SIMGADGET_CLEANUP_ON_EXIT, the exit path (index.ts) that runs to its end
\* leaves only what its own deletion failed on.
THEOREM ExitLeavesNothing == Spec => []ExitDeletesOwned
<1>1. IInv => ExitDeletesOwned
  BY DEF IInv, CleanedAreGone, ExitDeletesOwned
<1> QED
  BY <1>1, InductiveInvariant, PTL

\* Only the user deletes a simulator this server did not create: destroy_simulator
\* and the exit path delete what a session owns, and those are simulators of ours.
THEOREM ForeignAreSafe == Spec => ForeignSurvives
<1>1. ASSUME IInv, [Next]_vars, NEW s \in Foreign, dev[s] # "gone", dev'[s] = "gone"
      PROVE  UserDeletes(s)
  <2>0. /\ dev \in [Sims -> DevStates]
        /\ \A c \in Callers : Of(c).owned => Of(c).sim # s
        /\ \A c \in Callers : call[c].pc = "booting" => Of(c).sim # s
    <3>1. dev \in [Sims -> DevStates]
      BY <1>1 DEF IInv, RegistryOK, TypeOK, DevStates
    <3>2. s \notin Own
      OBVIOUS
    <3>3. \A c \in Callers : Of(c).owned \/ call[c].pc = "booting" => Of(c).sim \in Own
      BY <1>1 DEF IInv, CallsHoldSessions
    <3> QED
      BY <3>1, <3>2, <3>3
  <2>1. ASSUME NEW c \in Callers, CallBegins(c) PROVE FALSE
    BY <1>1, <2>1 DEF CallBegins, StartNew, StartKnown, DestroyBegins, UseBegins, AttachBegins
  <2>2. ASSUME NEW c \in Callers, CreateStep(c) PROVE FALSE
    BY <1>1, <2>0, <2>2 DEF CreateStep, Created, CreateFails, Started, BootThrows, At
  <2>3. ASSUME NEW c \in Callers, CallStep(c), ~CreateStep(c) PROVE FALSE
    BY <1>1, <2>0, <2>3
    DEF CallStep, Resumed, FoundStale, Attached, AttachRefused, Destroyed, DestroyFails,
        UseEnds, UseRefused, UseFindsNone, LeftBehind, At
  <2>4. CASE Signal \/ Exit \/ SecondSignal \/ UNCHANGED vars
    BY <1>1, <2>4 DEF Signal, Exit, SecondSignal, Gone, vars
  <2>5. ASSUME NEW r \in Own, CleanOne(r) PROVE FALSE
    BY <1>1, <2>0, <2>5 DEF CleanOne, LeftBehind
  <2>6. ASSUME NEW r \in Sims, UserShutsDown(r) \/ UserDeletes(r) PROVE UserDeletes(s)
    <3>1. r = s
      BY <1>1, <2>0, <2>6 DEF UserShutsDown, UserDeletes, Outside
    <3>2. ~UserShutsDown(s)
      BY <1>1, <2>0 DEF UserShutsDown, Outside
    <3> QED
      BY <2>6, <3>1, <3>2
  <2> QED
    BY <1>1, <2>1, <2>2, <2>3, <2>4, <2>5, <2>6 DEF Next
<1>2. IInv /\ [Next]_vars =>
        [\A s \in Foreign : dev[s] # "gone" /\ dev'[s] = "gone" => UserDeletes(s)]_vars
  BY <1>1
<1> QED
  BY <1>2, InductiveInvariant, PTL DEF Spec, ForeignSurvives
================================================================================
