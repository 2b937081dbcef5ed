---------------------------- MODULE ResolverProofs -----------------------------
(***************************************************************************)
(* What the callers of the resolver are given, for any number of callers    *)
(* and whatever others do to the cache.                                    *)
(***************************************************************************)
EXTENDS Resolver, FiniteSetTheorems, TLAPS

\* What is about to be installed was verified.
Checked == \A r \in Resolutions : res[r] = "renaming" => content[r] = "good"

\* Where there is a shared promise, some caller waits for it or for none.
Unclaimed == pending # None => \E c \in Callers : on[c] \in {pending, None}

IInv == TypeOK /\ Checked /\ Unclaimed /\ NothingUnverified /\ FailureIsNotCached

LEMMA ResolutionIsSome == \A r \in Resolutions : r # None
BY CallersAssumption, FS_CardinalityType DEF Resolutions

\* Of as many resolutions as callers and one, one is not referred to: the callers
\* between them refer to no more than there are callers.
LEMMA FreeIsFree ==
  ASSUME TypeOK, Unclaimed
  PROVE  Free \in Resolutions /\ ~Awaited(Free, pending, on)
<1> DEFINE refers == [c \in Callers |-> IF on[c] # None THEN on[c] ELSE pending]
           Referred == {refers[c] : c \in Callers}
<1>1. SUFFICES \E r \in Resolutions : ~Awaited(r, pending, on)
  BY DEF Free
<1>2. SUFFICES ASSUME \A r \in Resolutions : Awaited(r, pending, on) PROVE FALSE
  OBVIOUS
<1>3. ASSUME NEW r \in Resolutions PROVE r # None
  BY ResolutionIsSome
<1>4. Resolutions \subseteq Referred
  <2> SUFFICES ASSUME NEW r \in Resolutions PROVE \E c \in Callers : refers[c] = r
    OBVIOUS
  <2>1. CASE \E c \in Callers : on[c] = r
    BY <2>1, <1>3
  <2>2. CASE pending = r
    BY <2>2, <1>3 DEF Unclaimed
  <2> QED
    BY <2>1, <2>2, <1>2 DEF Awaited
<1>5. refers \in Surjection(Callers, Referred)
  BY DEF Surjection
<1>6. IsFiniteSet(Referred) /\ Cardinality(Referred) <= Cardinality(Callers)
  BY <1>5, CallersAssumption, FS_Surjection
<1>7. Cardinality(Resolutions) <= Cardinality(Referred)
  BY <1>4, <1>6, FS_Subset
<1>8. Cardinality(Callers) \in Nat
  BY CallersAssumption, FS_CardinalityType
<1>9. Cardinality(Resolutions) = Cardinality(Callers) + 1
  BY <1>8, FS_Interval DEF Resolutions
<1>10. Cardinality(Referred) \in Nat
  BY <1>6, FS_CardinalityType
<1> QED
  BY <1>6, <1>7, <1>8, <1>9, <1>10

LEMMA InitIInv == Init => IInv
<1> SUFFICES ASSUME Init PROVE IInv
  OBVIOUS
<1>1. TypeOK
  <2>1. tampered \in 0 .. MaxTampering
    BY OverridesAssumption DEF Init
  <2>2. /\ res \in [Resolutions -> Places] /\ content \in [Resolutions -> {"good", "bad"}]
        /\ pending = None /\ cache \in {"absent", "whole", "gutted", "bad"}
        /\ override \in {"none", "usable", "unusable", "missing"}
    BY OverridesAssumption DEF Init, Places
  <2>3. \A c \in Callers : call[c] = "idle" /\ on[c] = None
    BY DEF Init
  <2>4. /\ call \in [Callers -> {"idle", "waiting", "ok", "err"}]
        /\ on \in [Callers -> Resolutions \cup {None}]
        /\ given \in [Callers -> {None, "local", "whole", "bad"}]
    BY DEF Init
  <2>5. \A c \in Callers : call[c] = "waiting" <=> on[c] # None
    BY <2>3
  <2> QED
    BY <2>1, <2>2, <2>4, <2>5 DEF TypeOK
<1>2. Checked /\ Unclaimed /\ FailureIsNotCached
  BY DEF Init, Checked, Unclaimed, FailureIsNotCached
<1>3. ASSUME NEW c \in Callers PROVE given[c] # "bad"
  <2>1. given[c] = None
    BY DEF Init
  <2> QED
    BY <2>1, CallersAssumption
<1>4. NothingUnverified
  BY <1>3 DEF Init, NothingUnverified
<1> QED
  BY <1>1, <1>2, <1>4 DEF IInv

\* What becomes of the resolutions when what refers to them changes.
LEMMA BecomeKeeps ==
  ASSUME TypeOK, Checked, NEW new \in [Resolutions -> Places], Become(new),
         \A r \in Resolutions : new[r] = "renaming" => res[r] = "renaming"
  PROVE  /\ res' \in [Resolutions -> Places]
         /\ content' \in [Resolutions -> {"good", "bad"}]
         /\ Checked'
         /\ \A r \in Resolutions : pending' = r => res'[r] = new[r]
<1>1. res' \in [Resolutions -> Places]
  BY DEF Become, Places
<1>2. \A r \in Resolutions : res'[r] = IF Awaited(r, pending', on') THEN new[r] ELSE "free"
  BY DEF Become
<1>3. content' \in [Resolutions -> {"good", "bad"}]
  BY DEF Become, TypeOK
<1>4. Checked'
  <2> SUFFICES ASSUME NEW r \in Resolutions, res'[r] = "renaming" PROVE content'[r] = "good"
    BY DEF Checked, Resolutions
  <2> QED
    BY <1>2 DEF Checked, Become
<1>5. \A r \in Resolutions : pending' = r => res'[r] = new[r]
  BY <1>2 DEF Awaited
<1> QED
  BY <1>1, <1>3, <1>4, <1>5

\* A caller joins the shared promise or begins one, which cannot have failed yet.
LEMMA ResolveKeeps ==
  ASSUME IInv, NEW c \in Callers, NEW p \in {pending, None}, ResolveFor(c, p)
  PROVE  /\ res' \in [Resolutions -> Places]
         /\ content' \in [Resolutions -> {"good", "bad"}]
         /\ pending' \in Resolutions
         /\ on' = [on EXCEPT ![c] = pending']
         /\ Checked' /\ Unclaimed' /\ FailureIsNotCached'
<1> USE DEF IInv
<1>1. ASSUME p # None
      PROVE  pending' = pending /\ pending \in Resolutions /\ on' = [on EXCEPT ![c] = pending']
             /\ Become(res)
  BY <1>1 DEF ResolveFor, TypeOK
<1>2. ASSUME p = None
      PROVE  /\ pending' = Free /\ on' = [on EXCEPT ![c] = pending']
             /\ \E first \in {"local", "rejected", "cached", "fetching"} :
                  Become([res EXCEPT ![Free] = first])
  <2>1. FirstPart \subseteq {"local", "rejected", "cached", "fetching"}
    BY DEF FirstPart, LocalCompanion, TypeOK
  <2> QED
    BY <1>2, <2>1 DEF ResolveFor
<1>3. pending' \in Resolutions /\ on' = [on EXCEPT ![c] = pending']
  <2>1. CASE p # None
    BY <2>1, <1>1
  <2>2. CASE p = None
    <3>1. Free \in Resolutions
      BY FreeIsFree
    <3> QED
      BY <3>1, <2>2, <1>2
  <2> QED
    BY <2>1, <2>2
<1>4. Unclaimed'
  <2>1. on'[c] = pending'
    BY <1>3 DEF TypeOK
  <2> QED
    BY <2>1 DEF Unclaimed
<1>5. CASE p # None
  <2>1. /\ res' \in [Resolutions -> Places] /\ content' \in [Resolutions -> {"good", "bad"}]
        /\ Checked' /\ \A r \in Resolutions : pending' = r => res'[r] = res[r]
    BY <1>1, <1>5, BecomeKeeps DEF TypeOK
  <2> QED
    BY <2>1, <1>1, <1>3, <1>4, <1>5 DEF FailureIsNotCached
<1>6. CASE p = None
  <2>1. PICK first \in {"local", "rejected", "cached", "fetching"} :
          Become([res EXCEPT ![Free] = first])
    BY <1>2, <1>6
  <2> DEFINE new == [res EXCEPT ![Free] = first]
  <2>2. new \in [Resolutions -> Places] /\ new[Free] = first
        /\ \A r \in Resolutions : new[r] = "renaming" => res[r] = "renaming"
    BY FreeIsFree DEF TypeOK, Places
  <2>3. /\ res' \in [Resolutions -> Places] /\ content' \in [Resolutions -> {"good", "bad"}]
        /\ Checked' /\ \A r \in Resolutions : pending' = r => res'[r] = new[r]
    BY <2>1, <2>2, BecomeKeeps
  <2>4. res'[pending'] = first
    BY <2>2, <2>3, <1>2, <1>3, <1>6
  <2> QED
    BY <2>3, <2>4, <1>3, <1>4 DEF FailureIsNotCached
<1> QED
  BY <1>5, <1>6

LEMMA CallerStepIInv ==
  ASSUME IInv, NEW c \in Callers, Call(c) \/ CallSettles(c)
  PROVE  IInv'
<1> USE DEF IInv
<1>1. CASE Call(c)
  <2>1. /\ res' \in [Resolutions -> Places] /\ content' \in [Resolutions -> {"good", "bad"}]
        /\ pending' \in Resolutions /\ on' = [on EXCEPT ![c] = pending']
        /\ Checked' /\ Unclaimed' /\ FailureIsNotCached'
    BY <1>1, ResolveKeeps DEF Call
  <2>2. pending' # None
    BY <2>1, ResolutionIsSome
  <2>3. TypeOK'
    BY <1>1, <2>1, <2>2 DEF Call, TypeOK
  <2> QED
    BY <1>1, <2>1, <2>3 DEF Call, NothingUnverified
<1>2. CASE AnsweredGone(c)
  <2>1. /\ res' \in [Resolutions -> Places] /\ content' \in [Resolutions -> {"good", "bad"}]
        /\ pending' \in Resolutions /\ on' = [on EXCEPT ![c] = pending']
        /\ Checked' /\ Unclaimed' /\ FailureIsNotCached'
    BY <1>2, ResolveKeeps DEF AnsweredGone
  <2>2. pending' # None
    BY <2>1, ResolutionIsSome
  <2>3. TypeOK'
    BY <1>2, <2>1, <2>2 DEF AnsweredGone, TypeOK
  <2> QED
    BY <1>2, <2>1, <2>3 DEF AnsweredGone, NothingUnverified
<1>3. CASE Answered(c) \/ Failed(c)
  <2>1. pending' = pending /\ on' = [on EXCEPT ![c] = None] /\ Become(res)
        /\ UNCHANGED <<override, cache, tampered>>
    BY <1>3 DEF Answered, Failed
  <2>2. /\ res' \in [Resolutions -> Places] /\ content' \in [Resolutions -> {"good", "bad"}]
        /\ Checked' /\ \A r \in Resolutions : pending' = r => res'[r] = res[r]
    BY <2>1, BecomeKeeps DEF TypeOK
  <2>3. call' \in [Callers -> {"idle", "waiting", "ok", "err"}] /\ call'[c] # "waiting"
        /\ \A d \in Callers \ {c} : call'[d] = call[d]
    BY <1>3 DEF Answered, Failed, TypeOK
  <2>4. given' \in [Callers -> {None, "local", "whole", "bad"}]
        /\ \A d \in Callers : given'[d] # "bad"
    <3>1. CASE Failed(c)
      BY <3>1 DEF Failed, TypeOK, NothingUnverified
    <3>2. CASE Answered(c)
      <4>1. (IF res[on[c]] = "local" THEN "local" ELSE cache) \in {"local", "whole"}
        BY <3>2 DEF Answered, Usable, NothingUnverified
      <4> QED
        BY <3>2, <4>1 DEF Answered, TypeOK, NothingUnverified
    <3> QED
      BY <1>3, <3>1, <3>2
  <2>5. TypeOK'
    BY <2>1, <2>2, <2>3, <2>4 DEF TypeOK
  <2>6. Unclaimed'
    BY <2>1 DEF Unclaimed, TypeOK
  <2>7. FailureIsNotCached'
    BY <2>1, <2>2 DEF FailureIsNotCached, TypeOK
  <2> QED
    BY <2>1, <2>2, <2>4, <2>5, <2>6, <2>7 DEF NothingUnverified
<1> QED
  BY <1>1, <1>2, <1>3 DEF CallSettles

LEMMA ResolutionStepIInv ==
  ASSUME IInv, NEW r \in Resolutions, ResolutionStep(r)
  PROVE  IInv'
<1> USE DEF IInv
<1>1. CASE Catch(r)
  <2> DEFINE new == [res EXCEPT ![r] = "failed"]
  <2>1. new \in [Resolutions -> Places]
        /\ \A q \in Resolutions : new[q] = "renaming" => res[q] = "renaming"
    BY DEF TypeOK, Places
  <2>2. Become(new)
    BY <1>1 DEF Catch
  <2>3. /\ res' \in [Resolutions -> Places] /\ content' \in [Resolutions -> {"good", "bad"}]
        /\ Checked'
    BY <2>1, <2>2, BecomeKeeps
  <2> QED
    BY <1>1, <2>3 DEF Catch, TypeOK, Unclaimed, FailureIsNotCached, NothingUnverified
<1>2. ASSUME NEW place \in Places \ {"renaming", "failed"}, To(r, place),
             content' \in [Resolutions -> {"good", "bad"}],
             \A q \in Resolutions : q # r => content'[q] = content[q],
             cache' \in {"absent", "whole", "gutted"},
             UNCHANGED <<override, pending, callVars, tampered>>
      PROVE  IInv'
  <2>1. res' \in [Resolutions -> Places] /\ res'[r] = place
        /\ \A q \in Resolutions : q # r => res'[q] = res[q]
    BY <1>2 DEF To, TypeOK
  <2>2. TypeOK'
    BY <1>2, <2>1 DEF TypeOK, callVars
  <2>3. Checked'
    BY <1>2, <2>1 DEF Checked, Resolutions
  <2>4. Unclaimed' /\ NothingUnverified'
    BY <1>2 DEF Unclaimed, NothingUnverified, callVars
  <2>5. FailureIsNotCached'
    BY <1>2, <2>1 DEF FailureIsNotCached, TypeOK
  <2> QED
    BY <2>2, <2>3, <2>4, <2>5
<1> USE DEF Places
<1>3. CASE Fetched(r)
  <2>1. content' \in [Resolutions -> {"good", "bad"}]
        /\ \A q \in Resolutions : q # r => content'[q] = content[q]
    BY <1>3 DEF Fetched, TypeOK
  <2> QED
    BY <1>2, <1>3, <2>1 DEF Fetched, TypeOK, NothingUnverified
<1>4. CASE FetchFails(r)
  BY <1>2, <1>4 DEF FetchFails, TypeOK, NothingUnverified
<1>5. CASE VerifyFails(r)
  BY <1>2, <1>5 DEF VerifyFails, TypeOK, NothingUnverified
<1>6. CASE ChecksInstalled(r)
  BY <1>2, <1>6 DEF ChecksInstalled, TypeOK, NothingUnverified
<1>7. CASE Installed(r)
  <2>1. content[r] = "good"
    BY <1>7 DEF Installed, Checked
  <2>2. cache' \in {"absent", "whole", "gutted"}
    BY <1>7, <2>1 DEF Installed, TypeOK, NothingUnverified
  <2>3. To(r, "installed") \/ To(r, "rejected")
    BY <1>7 DEF Installed
  <2> QED
    BY <1>2, <1>7, <2>2, <2>3 DEF Installed, TypeOK
<1>8. CASE Verified(r)
  <2>1. res' \in [Resolutions -> Places] /\ res'[r] = "renaming"
        /\ \A q \in Resolutions : q # r => res'[q] = res[q]
    BY <1>8 DEF Verified, To, TypeOK
  <2>2. TypeOK'
    BY <1>8, <2>1 DEF Verified, TypeOK, callVars
  <2>3. Checked'
    BY <1>8, <2>1 DEF Verified, Checked, Resolutions
  <2>4. Unclaimed' /\ NothingUnverified'
    BY <1>8 DEF Verified, Unclaimed, NothingUnverified, callVars
  <2>5. FailureIsNotCached'
    BY <1>8, <2>1 DEF Verified, FailureIsNotCached, TypeOK
  <2> QED
    BY <2>2, <2>3, <2>4, <2>5
<1> QED
  BY <1>1, <1>3, <1>4, <1>5, <1>6, <1>7, <1>8 DEF ResolutionStep

LEMMA StepIInv == IInv /\ [Next]_vars => IInv'
<1> SUFFICES ASSUME IInv, [Next]_vars PROVE IInv'
  OBVIOUS
<1> USE DEF IInv, TypeOK, Checked, Unclaimed, NothingUnverified, FailureIsNotCached
<1>1. CASE UNCHANGED vars
  BY <1>1 DEF vars, callVars, Resolutions
<1>2. CASE CacheCleared \/ BinaryRemoved \/ OtherInstalls
  <2>1. cache' \in {"absent", "whole", "gutted"} /\ tampered < MaxTampering
        /\ tampered' = tampered + 1 /\ UNCHANGED <<override, res, content, pending, callVars>>
    BY <1>2 DEF CacheCleared, BinaryRemoved, OtherInstalls, Tamper
  <2>2. tampered' \in 0 .. MaxTampering
    BY <2>1, OverridesAssumption
  <2> QED
    BY <2>1, <2>2 DEF callVars, Resolutions
<1> QED
  BY <1>1, <1>2, CallerStepIInv, ResolutionStepIInv DEF Next

LEMMA Inductive == Spec => []IInv
BY InitIInv, StepIInv, PTL DEF Spec

\* Whatever races with whatever, no caller is given a companion that was not verified
\* (downloadAndExtract and resolve of companionBinary.ts).
THEOREM OnlyVerifiedIsGiven == Spec => []NothingUnverified
<1>1. IInv => NothingUnverified
  BY DEF IInv
<1> QED
  BY <1>1, Inductive, PTL

\* The promise a new caller joins is never one that has failed already (the catch
\* handler of resolve in companionBinary.ts).
THEOREM FailuresAreNotShared == Spec => []FailureIsNotCached
<1>1. IInv => FailureIsNotCached
  BY DEF IInv
<1> QED
  BY <1>1, Inductive, PTL
================================================================================
