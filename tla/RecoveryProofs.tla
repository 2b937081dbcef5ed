---------------------------- MODULE RecoveryProofs ----------------------------
(***************************************************************************)
(* Proofs about Recovery, for any number of reads and any bounds.           *)
(***************************************************************************)
EXTENDS Recovery, TLAPS

AtAttempt(c) == c.pc \in {"restarting", "probing"}

\* What a call must satisfy by itself.
CallOK(c) ==
  /\ c \in Calls
  /\ c.pc \in {"restarting", "probing", "sharing", "notHelped"} \/ c.tries # 0 => c.joined # 0

--------------------------------------------------------------------------------
(***************************************************************************)
(* The pure steps keep a call well formed and never lead into an attempt.   *)
(***************************************************************************)
LEMMA EndOK ==
  ASSUME NEW c \in Calls, NEW result \in Ends, result = "notHelped" => c.joined # 0
  PROVE  CallOK(End(c, result)) /\ ~AtAttempt(End(c, result))
<1>1. 0 \in 0 .. PostRecoveryReadAttempts /\ {"idle", result} \subseteq Places
  BY DEF PostRecoveryReadAttempts, Places
<1>2. NewCall(c.kind) \in Calls /\ NewCall(c.kind).tries = 0
  BY <1>1 DEF NewCall, Calls
<1>3. End(c, result) \in Calls
  BY <1>1, <1>2 DEF End, Calls
<1>4. End(c, result).pc = result /\ End(c, result).tries = 0
      /\ (result = "notHelped" => End(c, result).joined = c.joined)
  BY <1>2 DEF End, Calls
<1> QED
  BY <1>3, <1>4 DEF CallOK, AtAttempt, Ends

LEMMA ToOK ==
  ASSUME NEW c \in Calls, NEW stage \in {"plain", "all", "again", "cured"}
  PROVE  CallOK(To(c, stage)) /\ ~AtAttempt(To(c, stage))
<1>1. 0 \in 0 .. PostRecoveryReadAttempts /\ "reading" \in Places
  BY DEF PostRecoveryReadAttempts, Places
<1>2. To(c, stage) \in Calls
  BY <1>1 DEF To, Calls
<1>3. To(c, stage).pc = "reading" /\ To(c, stage).tries = 0
  BY DEF To, Calls
<1> QED
  BY <1>2, <1>3 DEF CallOK, AtAttempt

LEMMA AfterEmptyOK ==
  ASSUME NEW c \in Calls, c.tries # 0 => c.joined # 0
  PROVE  CallOK(AfterEmpty(c)) /\ ~AtAttempt(AfterEmpty(c))
<1>1. CASE c.stage = "plain"
  BY <1>1, ToOK DEF AfterEmpty
<1>2. CASE c.stage \in {"all", "again"}
  BY <1>2 DEF AfterEmpty, CallOK, Calls, AtAttempt, Places
<1>3. CASE c.stage = "cured"
  BY <1>3, EndOK DEF AfterEmpty, Ends
<1> QED
  BY <1>1, <1>2, <1>3 DEF Calls

LEMMA AfterUsableOK ==
  ASSUME NEW c, CallOK(c)
  PROVE  CallOK(AfterUsable(c)) /\ ~AtAttempt(AfterUsable(c))
BY EndOK, ToOK DEF AfterUsable, CallOK, Ends

LEMMA AfterRecoveryOK ==
  ASSUME NEW c \in Calls, NEW cured \in BOOLEAN, c.tries # 0 => c.joined # 0,
         c.why = "wrapper" \/ cured => c.joined # 0
  PROVE  CallOK(AfterRecovery(c, cured)) /\ ~AtAttempt(AfterRecovery(c, cured))
<1>1. CASE c.why = "wrapper" /\ cured
  <2> DEFINE d == [c EXCEPT !.pc = "reading", !.tries = PostRecoveryReadAttempts]
  <2>1. AfterRecovery(c, cured) = d
    BY <1>1 DEF AfterRecovery
  <2>2. PostRecoveryReadAttempts \in 0 .. PostRecoveryReadAttempts /\ "reading" \in Places
    BY DEF Places, PostRecoveryReadAttempts
  <2>3. d \in Calls
    BY <2>2 DEF Calls
  <2>4. d.pc = "reading" /\ d.joined = c.joined
    BY DEF Calls
  <2> QED
    BY <1>1, <2>1, <2>3, <2>4 DEF CallOK, AtAttempt
<1>2. CASE c.why = "wrapper" /\ ~cured
  BY <1>2, EndOK DEF AfterRecovery, Ends
<1>3. CASE c.why = "ladder" /\ cured
  BY <1>3 DEF AfterRecovery, CallOK, Calls, AtAttempt, Places
<1>4. CASE c.why = "ladder" /\ ~cured
  <2>1. AfterRecovery(c, cured) = AfterEmpty(c)
    BY <1>4 DEF AfterRecovery
  <2> QED
    BY <2>1, AfterEmptyOK
<1>5. CASE c.why = "diagnosis" /\ cured
  BY <1>5, ToOK DEF AfterRecovery
<1>6. CASE c.why = "diagnosis" /\ ~cured
  BY <1>6, EndOK DEF AfterRecovery, Ends
<1> QED
  BY <1>1, <1>2, <1>3, <1>4, <1>5, <1>6 DEF Calls

--------------------------------------------------------------------------------
(***************************************************************************)
(* The three ways a step changes the registry and a call, and Init.         *)
(***************************************************************************)
LEMMA InitIInv == Init => IInv
<1> SUFFICES ASSUME Init PROVE IInv
  OBVIOUS
<1> USE BoundsAssumption DEF Init
<1>1. \A kind \in Kinds : NewCall(kind) \in Calls /\ NewCall(kind).pc = "idle"
                          /\ NewCall(kind).tries = 0
  BY DEF NewCall, Calls, Places, PostRecoveryReadAttempts
<1>2. call \in [Reads -> Calls]
      /\ \A r \in Reads : call[r].pc = "idle" /\ call[r].tries = 0
  BY <1>1, CastsAssumption
<1>3. TypeOK
  <2>2. bridge \in Comes \cup {"up"}
    BY DEF Comes
  <2>3. outcome \in [Attempts -> {"none", "running", "cured", "failed"}]
    OBVIOUS
  <2>4. 0 \in 0 .. MaxFaults /\ 0 \in 0 .. MaxCooldowns
    OBVIOUS
  <2> QED
    BY <1>2, <2>2, <2>3, <2>4 DEF TypeOK
<1>4. OneRestartAtATime /\ InFlightIsRunning /\ TriedMeansTried
  BY <1>2 DEF OneRestartAtATime, InFlightIsRunning, TriedMeansTried
<1>5. AttemptsAreCounted
  BY <1>2 DEF AttemptsAreCounted, Attempts
<1>6. NotAnsweredYet
  BY DEF NotAnsweredYet
<1> QED
  BY <1>3, <1>4, <1>5, <1>6 DEF IInv

\* A call moves outside of an attempt, and the registry's attempt is left alone.
LEMMA MoveOK ==
  ASSUME IInv, NEW r \in Reads, NEW new, CallOK(new), ~AtAttempt(new), ~AtAttempt(call[r]),
         call' = [call EXCEPT ![r] = new],
         UNCHANGED <<bridge, faults, cooling, inFlight, attempts, outcome, cooldowns>>,
         stale' \in BOOLEAN, answered' \in BOOLEAN, bridge \in {"booting", "gone"} => answered' = answered
  PROVE  IInv'
<1> USE DEF IInv
<1>1. call' \in [Reads -> Calls] /\ call'[r] = new
      /\ \A q \in Reads : q # r => call'[q] = call[q]
  BY DEF TypeOK, CallOK
<1>2. TypeOK'
  BY <1>1 DEF TypeOK
<1>3. \A q \in Reads : AtAttempt(call'[q]) <=> AtAttempt(call[q]) /\ q # r
  BY <1>1
<1>4. \A q \in Reads : AtAttempt(call[q]) => q # r /\ call'[q] = call[q]
  BY <1>1
<1>5. OneRestartAtATime'
  BY <1>3, <1>4 DEF OneRestartAtATime, AtAttempt
<1>6. InFlightIsRunning'
  BY <1>4 DEF InFlightIsRunning, AtAttempt
<1>7. TriedMeansTried'
  BY <1>1 DEF TriedMeansTried, CallOK
<1>8. AttemptsAreCounted'
  BY <1>1 DEF AttemptsAreCounted, CallOK
<1>9. NotAnsweredYet'
  BY DEF NotAnsweredYet
<1> QED
  BY <1>2, <1>5, <1>6, <1>7, <1>8, <1>9

\* A call orders a restart: nobody else is at one, and a cooldown was used up.
LEMMA OrderOK ==
  ASSUME IInv, NEW r \in Reads, NEW c \in Calls, inFlight = 0, ~cooling, bridge # "gone",
         attempts' = attempts + 1, inFlight' = attempts + 1,
         outcome' = [outcome EXCEPT ![attempts + 1] = "running"], cooling' = TRUE,
         call' = [call EXCEPT ![r] = [c EXCEPT !.pc = "restarting", !.joined = attempts + 1]],
         UNCHANGED <<guestVars, answered, cooldowns>>
  PROVE  IInv'
<1> USE BoundsAssumption DEF IInv, guestVars
<1> DEFINE d == [c EXCEPT !.pc = "restarting", !.joined = attempts + 1]
<1>1. attempts + 1 \in Attempts /\ attempts \in Nat
  BY DEF TypeOK, AttemptsAreCounted, Attempts
<1>2. d \in Calls /\ d.pc = "restarting" /\ d.joined = attempts + 1
  <2>1. "restarting" \in Places
    BY DEF Places
  <2> QED
    BY <1>1, <2>1 DEF Calls
<1>3. call' \in [Reads -> Calls] /\ call'[r] = d
      /\ \A q \in Reads : q # r => call'[q] = call[q]
  BY <1>2 DEF TypeOK
<1>4. \A q \in Reads : ~AtAttempt(call[q])
  BY DEF OneRestartAtATime, AttemptsAreCounted, AtAttempt
<1>5. TypeOK'
  BY <1>1, <1>3 DEF TypeOK
<1>6. OneRestartAtATime'
  BY <1>2, <1>3, <1>4 DEF OneRestartAtATime, AtAttempt
<1>7. InFlightIsRunning'
  BY <1>2, <1>3 DEF InFlightIsRunning
<1>8. TriedMeansTried'
  BY <1>2, <1>3 DEF TriedMeansTried
<1>9. AttemptsAreCounted'
  <2>1. attempts' <= cooldowns' + (IF cooling' THEN 1 ELSE 0) /\ inFlight' <= attempts'
    BY <1>1 DEF AttemptsAreCounted, TypeOK
  <2>2. \A a \in Attempts : outcome'[a] = "running" <=> inFlight' = a
    BY <1>1 DEF AttemptsAreCounted, TypeOK, Attempts
  <2>3. \A q \in Reads :
          call'[q].pc \in {"restarting", "probing", "sharing"} \/ call'[q].tries # 0 =>
            call'[q].joined # 0
    BY <1>1, <1>2, <1>3 DEF AttemptsAreCounted
  <2> QED
    BY <2>1, <2>2, <2>3 DEF AttemptsAreCounted
<1>10. NotAnsweredYet'
  BY DEF NotAnsweredYet
<1> QED
  BY <1>5, <1>6, <1>7, <1>8, <1>9, <1>10

\* The attempt settles: the call that ran it was the only one.
LEMMA SettleOK ==
  ASSUME IInv, NEW r \in Reads, NEW result \in {"cured", "failed"}, AtAttempt(call[r]),
         Settles(r, result), UNCHANGED guestVars
  PROVE  IInv'
<1> USE DEF IInv, guestVars
<1> DEFINE d == AfterRecovery(call[r], result = "cured")
<1>1. call[r] \in Calls /\ call[r].joined \in Attempts
      /\ (bridge # "gone" => call[r].joined = inFlight)
  BY DEF AtAttempt, OneRestartAtATime, AttemptsAreCounted, TypeOK, Calls
<1>2. CallOK(d) /\ ~AtAttempt(d)
  <2>1. call[r].joined # 0
    BY <1>1 DEF Attempts
  <2> QED
    BY <1>1, <2>1, AfterRecoveryOK
<1>3. call' \in [Reads -> Calls] /\ call'[r] = d
      /\ \A q \in Reads : q # r => call'[q] = call[q]
  BY <1>2 DEF TypeOK, Settles, CallOK
<1>4. \A q \in Reads : ~AtAttempt(call'[q])
  BY <1>2, <1>3 DEF OneRestartAtATime, AtAttempt
<1>5. TypeOK'
  BY <1>1, <1>3 DEF TypeOK, Settles
<1>6. OneRestartAtATime' /\ InFlightIsRunning'
  BY <1>4 DEF OneRestartAtATime, InFlightIsRunning, AtAttempt, Settles
<1>7. TriedMeansTried'
  BY <1>2, <1>3 DEF TriedMeansTried, CallOK
<1>8. AttemptsAreCounted'
  <2>1. inFlight' = 0 /\ inFlight' <= attempts' /\ \A a \in Attempts : inFlight' # a
    BY DEF TypeOK, Settles, Attempts
  <2>2. ASSUME bridge # "gone"
        PROVE  /\ attempts' <= cooldowns' + (IF cooling' THEN 1 ELSE 0)
               /\ \A a \in Attempts : outcome'[a] # "running"
    BY <1>1, <2>2 DEF AttemptsAreCounted, TypeOK, Settles, Attempts
  <2>3. \A q \in Reads :
          call'[q].pc \in {"restarting", "probing", "sharing"} \/ call'[q].tries # 0 =>
            call'[q].joined # 0
    BY <1>2, <1>3 DEF AttemptsAreCounted, CallOK
  <2> QED
    BY <2>1, <2>2, <2>3 DEF AttemptsAreCounted
<1>9. NotAnsweredYet'
  BY DEF NotAnsweredYet, Settles
<1> QED
  BY <1>5, <1>6, <1>7, <1>8, <1>9

\* recoverWedgedAccessibility, whichever of its three ways it goes.
LEMMA RecoverOK ==
  ASSUME IInv, NEW r \in Reads, NEW c \in Calls, ~AtAttempt(call[r]),
         c.tries # 0 => c.joined # 0, c.why = "wrapper" => ~cooling, bridge # "gone",
         Recover(r, c), UNCHANGED <<guestVars, answered, cooldowns>>
  PROVE  IInv'
<1>0. stale \in BOOLEAN /\ answered \in BOOLEAN /\ cooling \in BOOLEAN
      /\ inFlight \in Attempts \cup {0}
  BY DEF IInv, TypeOK
<1>1. CASE inFlight # 0
  <2> DEFINE d == [c EXCEPT !.pc = "sharing", !.joined = inFlight]
  <2>1. call' = [call EXCEPT ![r] = d] /\ UNCHANGED <<cooling, inFlight, attempts, outcome>>
    BY <1>1 DEF Recover
  <2>2. "sharing" \in Places
    BY DEF Places
  <2>3. d \in Calls /\ d.pc = "sharing" /\ d.joined = inFlight
    BY <1>0, <1>1, <2>2 DEF Calls
  <2>4. CallOK(d) /\ ~AtAttempt(d)
    BY <1>1, <2>3 DEF CallOK, AtAttempt
  <2> HIDE DEF d
  <2> QED
    BY <1>0, <2>1, <2>4, MoveOK DEF guestVars
<1>2. CASE inFlight = 0 /\ cooling
  <2> DEFINE d == AfterRecovery(c, FALSE)
  <2>1. call' = [call EXCEPT ![r] = d] /\ UNCHANGED <<cooling, inFlight, attempts, outcome>>
    BY <1>2 DEF Recover
  <2>2. CallOK(d) /\ ~AtAttempt(d)
    BY <1>2, AfterRecoveryOK
  <2> HIDE DEF d
  <2> QED
    BY <1>0, <2>1, <2>2, MoveOK DEF guestVars
<1>3. CASE inFlight = 0 /\ ~cooling
  BY <1>3, OrderOK DEF Recover
<1> QED
  BY <1>0, <1>1, <1>2, <1>3

LEMMA WedgedOK ==
  ASSUME IInv, NEW r \in Reads, ~AtAttempt(call[r]), Wedged(r),
         UNCHANGED <<guestVars, answered, cooldowns>>
  PROVE  IInv'
<1> DEFINE c == call[r]
<1>0. stale \in BOOLEAN /\ answered \in BOOLEAN /\ cooling \in BOOLEAN /\ c \in Calls
      /\ (c.tries # 0 => c.joined # 0)
  BY DEF IInv, TypeOK, AttemptsAreCounted
<1>1. CASE c.tries = 0 /\ answered /\ ~cooling
  <2> DEFINE d == [c EXCEPT !.why = "wrapper"]
  <2>1. Recover(r, d)
    BY <1>1 DEF Wedged
  <2>2. d \in Calls /\ d.tries = c.tries
    BY <1>0 DEF Calls
  <2> HIDE DEF d
  <2>3. bridge # "gone"
    BY <1>1 DEF IInv, NotAnsweredYet
  <2> QED
    BY <1>1, <2>1, <2>2, <2>3, RecoverOK
<1>2. CASE ~(c.tries = 0 /\ answered /\ ~cooling)
  <2> DEFINE d == CASE c.tries = 0 /\ ~answered -> End(c, "neverAnswered")
                    [] c.tries = 0 /\ answered -> End(c, "refused")
                    [] c.tries = 1 -> End(c, "notHelped")
                    [] OTHER -> [c EXCEPT !.pc = "reading", !.tries = @ - 1]
  <2>1. call' = [call EXCEPT ![r] = d] /\ UNCHANGED <<cooling, inFlight, attempts, outcome>>
    BY <1>2 DEF Wedged
  <2>2. CallOK(d) /\ ~AtAttempt(d)
    <3>1. CASE c.tries = 0 /\ ~answered
      BY <1>0, <3>1, EndOK DEF Ends
    <3>2. CASE c.tries = 0 /\ answered
      BY <1>0, <3>2, EndOK DEF Ends
    <3>3. CASE c.tries = 1
      BY <1>0, <3>3, EndOK DEF Ends
    <3>4. CASE c.tries # 0 /\ c.tries # 1
      <4> DEFINE e == [c EXCEPT !.pc = "reading", !.tries = @ - 1]
      <4>1. d = e
        BY <3>4
      <4>2. "reading" \in Places /\ c.tries \in 0 .. 3 /\ PostRecoveryReadAttempts = 3
        BY <1>0 DEF Places, Calls, PostRecoveryReadAttempts
      <4>3. c.tries - 1 \in 0 .. PostRecoveryReadAttempts
        BY <3>4, <4>2
      <4>4. e \in Calls /\ e.pc = "reading" /\ e.joined = c.joined
        BY <1>0, <4>2, <4>3 DEF Calls
      <4> QED
        BY <1>0, <3>4, <4>1, <4>4 DEF CallOK, AtAttempt
    <3> QED
      BY <1>0, <3>1, <3>2, <3>3, <3>4
  <2> HIDE DEF d
  <2> QED
    BY <1>0, <2>1, <2>2, MoveOK DEF guestVars
<1> QED
  BY <1>1, <1>2

--------------------------------------------------------------------------------
\* A call that only goes to another place outside of an attempt.
LEMMA GoOK ==
  ASSUME IInv, NEW r \in Reads, NEW place \in {"reading", "rereading", "asking"}, ~AtAttempt(call[r]),
         call' = [call EXCEPT ![r].pc = place], stale' \in BOOLEAN,
         UNCHANGED <<bridge, faults, registryVars>>
  PROVE  IInv'
<1> DEFINE d == [call[r] EXCEPT !.pc = place]
<1>1. call[r] \in Calls /\ answered \in BOOLEAN /\ (call[r].tries # 0 => call[r].joined # 0)
  BY DEF IInv, TypeOK, AttemptsAreCounted
<1>2. d \in Calls /\ d.pc = place /\ d.tries = call[r].tries /\ d.joined = call[r].joined
  <2>1. place \in Places
    BY DEF Places
  <2> QED
    BY <1>1, <2>1 DEF Calls
<1>3. CallOK(d) /\ ~AtAttempt(d)
  BY <1>1, <1>2 DEF CallOK, AtAttempt
<1>4. call' = [call EXCEPT ![r] = d]
  OBVIOUS
<1> HIDE DEF d
<1> QED
  BY <1>1, <1>3, <1>4, MoveOK DEF registryVars

\* A usable read comes neither from a simulator in its first boot nor from none.
LEMMA NothingUsable ==
  ASSUME bridge \in {"booting", "gone"}, NEW kind PROVE "usable" \notin ReadResults(kind)
BY DEF ReadResults, Comes

LEMMA ReadStepOK ==
  ASSUME IInv, NEW r \in Reads, ReadStep(r) PROVE IInv'
<1>0. /\ stale \in BOOLEAN /\ answered \in BOOLEAN /\ cooling \in BOOLEAN
      /\ call[r] \in Calls /\ (call[r].tries # 0 => call[r].joined # 0)
  BY DEF IInv, TypeOK, AttemptsAreCounted
<1>1. CallOK(call[r])
  BY <1>0 DEF CallOK, IInv, TriedMeansTried, AttemptsAreCounted
<1>2. ~AtAttempt(call[r])
  BY DEF ReadStep, ReadUsable, ReadOtherError, ReadWedge, EmptyPlain, EmptyFirst, EmptyAgain,
         EmptyLast, DiagnosePointsAnswer, DiagnosePointsDoNot, PointWedge, PointBlank,
         ScreenAnswers, ScreenSilent, AtRead, AtAttempt
<1>3. CASE ReadUsable(r)
  <2>1. CallOK(AfterUsable(call[r])) /\ ~AtAttempt(AfterUsable(call[r]))
    BY <1>1, AfterUsableOK
  <2>2. bridge \notin {"booting", "gone"}
    BY <1>3, NothingUsable DEF ReadUsable
  <2> QED
    BY <1>0, <1>2, <1>3, <2>1, <2>2, MoveOK DEF ReadUsable, guestVars
<1>4. CASE ReadOtherError(r)
  <2>1. CallOK(End(call[r], "failed")) /\ ~AtAttempt(End(call[r], "failed"))
    BY <1>0, EndOK DEF Ends
  <2> QED
    BY <1>0, <1>2, <1>4, <2>1, MoveOK DEF ReadOtherError, guestVars, registryVars
<1>5. CASE ReadWedge(r)
  BY <1>2, <1>5, WedgedOK DEF ReadWedge
<1>6. CallOK(AfterEmpty(call[r])) /\ ~AtAttempt(AfterEmpty(call[r]))
  BY <1>0, AfterEmptyOK
<1>7. CASE EmptyPlain(r)
  BY <1>0, <1>2, <1>6, <1>7, MoveOK DEF EmptyPlain, guestVars, registryVars
<1>8. CASE EmptyFirst(r)
  BY <1>2, <1>8, GoOK DEF EmptyFirst
<1>9. CASE EmptyAgain(r)
  <2>1. CASE answered
    <3> DEFINE d == [call[r] EXCEPT !.why = "ladder"]
    <3>1. d \in Calls /\ d.tries = call[r].tries /\ d.joined = call[r].joined /\ d.why = "ladder"
      BY <1>0 DEF Calls
    <3>2. Recover(r, d) /\ UNCHANGED <<guestVars, answered, cooldowns>>
      BY <1>9, <2>1 DEF EmptyAgain
    <3>3. bridge # "gone"
      BY <2>1 DEF IInv, NotAnsweredYet
    <3> HIDE DEF d
    <3> QED
      BY <1>0, <1>2, <3>1, <3>2, <3>3, RecoverOK
  <2>2. CASE ~answered
    BY <1>0, <1>2, <1>6, <1>9, <2>2, MoveOK DEF EmptyAgain, guestVars
  <2> QED
    BY <2>1, <2>2
<1>10. CASE EmptyLast(r)
  BY <1>0, <1>2, <1>6, <1>10, MoveOK DEF EmptyLast, guestVars, registryVars
<1>11. CASE DiagnosePointsAnswer(r)
  <2> DEFINE d == [call[r] EXCEPT !.why = "diagnosis"]
  <2>1. d \in Calls /\ d.tries = call[r].tries /\ d.joined = call[r].joined /\ d.why = "diagnosis"
    BY <1>0 DEF Calls
  <2>2. Recover(r, d) /\ UNCHANGED <<guestVars, answered, cooldowns>> /\ bridge # "gone"
    BY <1>11 DEF DiagnosePointsAnswer
  <2> HIDE DEF d
  <2> QED
    BY <1>0, <1>2, <2>1, <2>2, RecoverOK
<1>12. CASE DiagnosePointsDoNot(r)
  <2>1. CallOK(End(call[r], "stillBooting")) /\ ~AtAttempt(End(call[r], "stillBooting"))
    BY <1>0, EndOK DEF Ends
  <2> QED
    BY <1>0, <1>2, <1>12, <2>1, MoveOK DEF DiagnosePointsDoNot, guestVars, registryVars
<1>13. CASE PointWedge(r)
  <2>1. stale' \in BOOLEAN /\ UNCHANGED <<bridge, faults, registryVars>>
        /\ call' = [call EXCEPT ![r].pc = "asking"]
    BY <1>0, <1>13 DEF PointWedge, guestVars
  <2> QED
    BY <1>2, <2>1, GoOK
<1>14. CallOK(End(call[r], "ok")) /\ ~AtAttempt(End(call[r], "ok"))
  BY <1>0, EndOK DEF Ends
<1>15. CASE PointBlank(r)
  BY <1>0, <1>2, <1>14, <1>15, MoveOK DEF PointBlank, guestVars, registryVars
<1>16. CASE ScreenAnswers(r)
  <2>1. bridge \notin {"booting", "gone"}
    BY <1>16, NothingUsable DEF ScreenAnswers
  <2> QED
    BY <1>0, <1>2, <1>14, <1>16, <2>1, MoveOK DEF ScreenAnswers, guestVars
<1>17. CASE ScreenSilent(r)
  BY <1>2, <1>17, WedgedOK DEF ScreenSilent
<1> QED
  BY <1>3, <1>4, <1>5, <1>7, <1>8, <1>9, <1>10, <1>11, <1>12, <1>13, <1>15, <1>16, <1>17
  DEF ReadStep

LEMMA AttemptStepOK ==
  ASSUME IInv, NEW r \in Reads, AttemptStep(r) PROVE IInv'
<1>0. /\ stale \in BOOLEAN /\ answered \in BOOLEAN /\ cooling \in BOOLEAN
      /\ call[r] \in Calls /\ (call[r].tries # 0 => call[r].joined # 0)
  BY DEF IInv, TypeOK, AttemptsAreCounted
<1>1. CASE RestartFails(r)
  BY <1>1, SettleOK DEF RestartFails, AtAttempt
<1>2. CASE ProbeAnswers(r)
  BY <1>2, SettleOK DEF ProbeAnswers, AtAttempt
<1>3. CASE ProbeGivesUp(r)
  BY <1>3, SettleOK DEF ProbeGivesUp, AtAttempt
<1>4. CASE SharedSettles(r)
  <2> DEFINE d == AfterRecovery(call[r], outcome[call[r].joined] = "cured")
  <2>1. call[r].joined # 0
    BY <1>4 DEF SharedSettles, IInv, AttemptsAreCounted
  <2>2. CallOK(d) /\ ~AtAttempt(d)
    BY <1>0, <2>1, AfterRecoveryOK
  <2>3. call' = [call EXCEPT ![r] = d] /\ ~AtAttempt(call[r])
    BY <1>4 DEF SharedSettles, AtAttempt
  <2>4. UNCHANGED <<guestVars, registryVars>>
    BY <1>4 DEF SharedSettles
  <2> HIDE DEF d
  <2> QED
    BY <1>0, <2>2, <2>3, <2>4, MoveOK DEF guestVars, registryVars
<1>5. CASE RestartDone(r)
  <2> DEFINE d == [call[r] EXCEPT !.pc = "probing"]
  <2>1. "probing" \in Places
    BY DEF Places
  <2>2. d \in Calls /\ d.pc = "probing" /\ d.joined = call[r].joined /\ d.tries = call[r].tries
    BY <1>0, <2>1 DEF Calls
  <2>3. call' \in [Reads -> Calls] /\ call'[r] = d
        /\ \A q \in Reads : q # r => call'[q] = call[q]
    BY <1>5, <2>2 DEF RestartDone, IInv, TypeOK
  <2>4. call[r].pc = "restarting" /\ UNCHANGED <<stale, faults, registryVars>>
        /\ bridge' \in {"flaky", "wedged", bridge} /\ bridge # "gone"
    BY <1>5 DEF RestartDone
  <2>5. TypeOK'
    <3>1. TypeOK /\ UNCHANGED <<stale, faults, answered, cooling, inFlight, attempts, outcome, cooldowns>>
      BY <2>4 DEF IInv, registryVars
    <3>2. bridge' \in Comes \cup {"up", "wedged", "empty", "flaky", "gone"}
      BY <2>4, <3>1 DEF TypeOK
    <3> QED
      BY <2>3, <3>1, <3>2 DEF TypeOK
  <2>6. OneRestartAtATime' /\ InFlightIsRunning' /\ TriedMeansTried'
    <3>1. inFlight' = inFlight /\ bridge # "gone" /\ bridge' # "gone"
      BY <2>4 DEF registryVars
    <3>2. \A q \in Reads : /\ AtAttempt(call'[q]) <=> AtAttempt(call[q])
                          /\ call'[q].joined = call[q].joined
      BY <2>2, <2>3, <2>4 DEF AtAttempt
    <3>3. OneRestartAtATime' /\ InFlightIsRunning'
      BY <3>1, <3>2 DEF IInv, OneRestartAtATime, InFlightIsRunning, AtAttempt
    <3>4. TriedMeansTried'
      BY <2>2, <2>3 DEF IInv, TriedMeansTried
    <3> QED
      BY <3>3, <3>4
  <2>7. AttemptsAreCounted'
    <3>1. AttemptsAreCounted /\ UNCHANGED <<cooling, inFlight, attempts, outcome, cooldowns>>
          /\ bridge # "gone"
      BY <2>4 DEF IInv, registryVars
    <3>2. \A q \in Reads :
            call'[q].pc \in {"restarting", "probing", "sharing"} \/ call'[q].tries # 0 =>
              call'[q].joined # 0
      <4>1. call'[r].joined # 0
        BY <2>2, <2>3, <2>4, <3>1 DEF AttemptsAreCounted
      <4>2. \A q \in Reads : q # r => call'[q] = call[q]
        BY <2>3
      <4> QED
        BY <3>1, <4>1, <4>2 DEF AttemptsAreCounted
    <3> QED
      BY <3>1, <3>2 DEF AttemptsAreCounted
  <2>8. NotAnsweredYet'
    BY <2>4 DEF IInv, NotAnsweredYet, registryVars
  <2> QED
    BY <2>5, <2>6, <2>7, <2>8 DEF IInv
<1> QED
  BY <1>1, <1>2, <1>3, <1>4, <1>5 DEF AttemptStep

\* Steps of the environment and of a wait for the boot.
LEMMA EnvironmentOK ==
  ASSUME IInv, \/ WaitAnswers \/ WaitRestarts
               \/ BridgeComesUp \/ BridgeBreaks \/ CompanionGoesStale \/ CooldownPasses
  PROVE  IInv'
<1> USE BoundsAssumption DEF IInv
<1>0. call' = call /\ inFlight' = inFlight /\ attempts' = attempts /\ outcome' = outcome
      /\ (bridge' = "gone" <=> bridge = "gone")
  BY DEF WaitAnswers, WaitRestarts, BridgeComesUp, BridgeBreaks, CompanionGoesStale,
         CooldownPasses, registryVars, guestVars, Comes
<1>1. TypeOK'
  <2>1. bridge' \in Comes \cup {"up", "wedged", "empty", "flaky", "gone"} /\ stale' \in BOOLEAN
        /\ cooling' \in BOOLEAN /\ answered' \in BOOLEAN
    BY DEF TypeOK, WaitAnswers, WaitRestarts, BridgeComesUp, BridgeBreaks, CompanionGoesStale,
           CooldownPasses, registryVars, guestVars, Comes
  <2>2. faults' \in 0 .. MaxFaults /\ cooldowns' \in 0 .. MaxCooldowns
    BY DEF TypeOK, WaitAnswers, WaitRestarts, BridgeComesUp, BridgeBreaks, CompanionGoesStale,
           CooldownPasses, registryVars, guestVars
  <2> QED
    BY <1>0, <2>1, <2>2 DEF TypeOK
<1>2. OneRestartAtATime' /\ InFlightIsRunning' /\ TriedMeansTried'
  BY <1>0 DEF OneRestartAtATime, InFlightIsRunning, TriedMeansTried
<1>3. AttemptsAreCounted'
  <2>1. bridge # "gone" => attempts <= cooldowns' + (IF cooling' THEN 1 ELSE 0)
    BY DEF TypeOK, AttemptsAreCounted, WaitAnswers, WaitRestarts, BridgeComesUp, BridgeBreaks,
           CompanionGoesStale, CooldownPasses, registryVars, Attempts
  <2> QED
    BY <1>0, <2>1 DEF AttemptsAreCounted
<1>4. NotAnsweredYet'
  <2>1. CASE WaitAnswers
    BY <2>1, NothingUsable DEF WaitAnswers, guestVars, NotAnsweredYet
  <2>2. CASE ~WaitAnswers
    BY <2>2 DEF NotAnsweredYet, WaitRestarts, BridgeComesUp, BridgeBreaks,
                CompanionGoesStale, CooldownPasses, guestVars, registryVars
  <2> QED
    BY <2>1, <2>2
<1> QED
  BY <1>1, <1>2, <1>3, <1>4

\* A delete: what the registry forgets is no longer claimed of it.
LEMMA DeletesOK == ASSUME IInv, Deletes PROVE IInv'
<1> USE BoundsAssumption DEF IInv, Deletes
<1>1. TypeOK'
  BY DEF TypeOK
<1>2. OneRestartAtATime' /\ InFlightIsRunning' /\ TriedMeansTried'
  BY DEF OneRestartAtATime, InFlightIsRunning, TriedMeansTried
<1>3. AttemptsAreCounted'
  <2>1. 0 <= attempts /\ \A a \in Attempts : 0 # a
    BY DEF TypeOK, Attempts
  <2> QED
    BY <2>1 DEF AttemptsAreCounted
<1>4. NotAnsweredYet'
  BY DEF NotAnsweredYet
<1> QED
  BY <1>1, <1>2, <1>3, <1>4

LEMMA StepIInv == IInv /\ [Next]_vars => IInv'
<1> SUFFICES ASSUME IInv, [Next]_vars PROVE IInv'
  OBVIOUS
<1>1. ASSUME NEW r \in Reads, Begin(r) PROVE IInv'
  <2>1. stale' \in BOOLEAN /\ UNCHANGED <<bridge, faults, registryVars>>
    BY <1>1 DEF Begin, guestVars, IInv, TypeOK
  <2>2. ~AtAttempt(call[r]) /\ call' = [call EXCEPT ![r].pc = "reading"]
    BY <1>1 DEF Begin, AtAttempt
  <2> QED
    BY <2>1, <2>2, GoOK
<1>2. ASSUME NEW r \in Reads, ReadStep(r) PROVE IInv'
  BY <1>2, ReadStepOK
<1>3. ASSUME NEW r \in Reads, AttemptStep(r) PROVE IInv'
  BY <1>3, AttemptStepOK
<1>4. CASE \/ WaitAnswers \/ WaitRestarts
          \/ BridgeComesUp \/ BridgeBreaks \/ CompanionGoesStale \/ CooldownPasses
  BY <1>4, EnvironmentOK
<1>6. CASE Deletes
  BY <1>6, DeletesOK
<1>5. CASE UNCHANGED vars
  BY <1>5 DEF vars, IInv, TypeOK, OneRestartAtATime, InFlightIsRunning, TriedMeansTried,
              AttemptsAreCounted, NotAnsweredYet
<1> QED
  BY <1>1, <1>2, <1>3, <1>4, <1>5, <1>6 DEF Next

--------------------------------------------------------------------------------
\* Any number of reads, through any handles, and any sequence of faults: the registry,
\* the attempt in flight and the calls stay in step (recoverWedgedAccessibility).
THEOREM InductiveInvariant == Spec => []IInv
BY InitIInv, StepIInv, PTL DEF Spec

\* "They share a single restart rather than each ordering their own" (simulator.ts:976).
THEOREM RestartsAreShared == Spec => []OneRestartAtATime
<1>1. IInv => OneRestartAtATime
  BY DEF IInv
<1> QED
  BY <1>1, InductiveInvariant, PTL

\* The attempt the registry hands to others is being run by somebody: the finally of
\* recoverWedgedAccessibility never leaves one behind.
THEOREM NobodyWaitsForNothing == Spec => []InFlightIsRunning
<1>1. IInv => InFlightIsRunning
  BY DEF IInv
<1> QED
  BY <1>1, InductiveInvariant, PTL

\* A restart is only ordered by a call that knows the simulator has answered or that a
\* point on its screen does.
LEMMA OrderedWhileBooting ==
  IInv /\ [Next]_vars => (bridge = "booting" => attempts' = attempts)
<1> SUFFICES ASSUME IInv, [Next]_vars, bridge = "booting" PROVE attempts' = attempts
  OBVIOUS
<1>0. ~answered
  BY DEF IInv, NotAnsweredYet
<1>1. ASSUME NEW r \in Reads, ReadWedge(r) PROVE attempts' = attempts
  BY <1>0, <1>1 DEF ReadWedge, Wedged
<1>2. ASSUME NEW r \in Reads, EmptyAgain(r) PROVE attempts' = attempts
  BY <1>0, <1>2 DEF EmptyAgain
<1>3. ASSUME NEW r \in Reads, DiagnosePointsAnswer(r) PROVE attempts' = attempts
  BY <1>3 DEF DiagnosePointsAnswer
<1>4. ASSUME NEW r \in Reads, ScreenSilent(r) PROVE attempts' = attempts
  BY <1>0, <1>4 DEF ScreenSilent, Wedged
<1> QED
  BY <1>1, <1>2, <1>3, <1>4
  DEF Next, Begin, ReadStep, PointWedge, PointBlank, ScreenAnswers, ReadUsable, ReadOtherError, EmptyPlain, EmptyFirst, EmptyLast,
      DiagnosePointsDoNot, AttemptStep, RestartFails, RestartDone, ProbeAnswers, ProbeGivesUp,
      SharedSettles, Settles, WaitAnswers, WaitRestarts, Deletes, BridgeComesUp, BridgeBreaks, CompanionGoesStale, CooldownPasses,
      registryVars, vars

\* "A device that has never answered is booting, not broken" (ax/recovery.ts): none of the
\* three paths that can restart the bridge does so in the first boot.
THEOREM FirstBootIsLeftAlone == Spec => BootingIsLeftAlone
<1>1. IInv /\ [Next]_vars => [bridge = "booting" => attempts' = attempts]_vars
  BY OrderedWhileBooting
<1> QED
  BY <1>1, InductiveInvariant, PTL DEF Spec, BootingIsLeftAlone
================================================================================
