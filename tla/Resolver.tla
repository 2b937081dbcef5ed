------------------------------- MODULE Resolver -------------------------------
(***************************************************************************)
(* The companion resolver of one process                                    *)
(* (packages/simgadget/src/idb/companionBinary.ts): several callers share   *)
(* one resolution through the promise `pending`, which downloads, verifies  *)
(* and installs the pinned companion into a cache on disk.  The cache is    *)
(* shared with other processes and with users who clear it.                 *)
(*                                                                         *)
(* A resolution is the promise of one resolveOnce with the catch handler    *)
(* that follows it; its id is used again once nothing refers to it.         *)
(***************************************************************************)
EXTENDS FiniteSets, Integers

CONSTANTS
  Callers,      \* calls of resolveCompanion
  Overrides,    \* what SIMGADGET_COMPANION_PATH or a local build may be
  MaxTampering, \* bound on what others do to the cache
  None

ASSUME OverridesAssumption ==
  Overrides \subseteq {"none", "usable", "unusable", "missing"} /\ MaxTampering \in Nat

ASSUME CallersAssumption == IsFiniteSet(Callers) /\ None \notin Nat \cup {"bad"}

VARIABLES
  override, \* the one there is
  cache,    \* installDir: "absent", "whole", "gutted" (there, without its binary), "bad"
  res,      \* each resolution: where it is, or "free"
  content,  \* what each resolution fetched: "good" or "bad"
  pending,  \* the shared promise: a resolution, or None
  call,     \* each caller: "idle", "waiting", "ok", "err"
  on,       \* the resolution each caller waits for, or None
  given,    \* history: what each caller was given
  tampered  \* bound: what others did so far

vars == <<override, cache, res, content, pending, call, on, given, tampered>>
callVars == <<call, on, given>>

\* A resolution is always awaited by the call that began it, so one more than the
\* callers is never too few.
Resolutions == 1 .. Cardinality(Callers) + 1

Init ==
  /\ override \in Overrides
  /\ cache \in {"absent", "whole"}
  /\ res = [r \in Resolutions |-> "free"]
  /\ content = [r \in Resolutions |-> "good"]
  /\ pending = None
  /\ call = [c \in Callers |-> "idle"]
  /\ on = [c \in Callers |-> None]
  /\ given = [c \in Callers |-> None]
  /\ tampered = 0

--------------------------------------------------------------------------------
Awaited(r, p, waits) == p = r \/ \E c \in Callers : waits[c] = r
Free == CHOOSE r \in Resolutions : ~Awaited(r, pending, on)

\* A resolution nothing refers to any more is forgotten.
Become(new) ==
  /\ res' = [r \in Resolutions |-> IF Awaited(r, pending', on') THEN new[r] ELSE "free"]
  /\ content' = [r \in Resolutions |-> IF res'[r] = "free" THEN "good" ELSE content[r]]

\* An override is taken as it is, if there is a file at all.
LocalCompanion == IF override = "missing" THEN "rejected" ELSE "local"

\* The part of resolveOnce that runs at once: what this machine has, the refusals of
\* the architecture and of the lock file, and the cached tree.
FirstPart ==
  IF override # "none"
  THEN {LocalCompanion}
  ELSE {"rejected", IF cache \in {"whole", "bad"} THEN "cached" ELSE "fetching"}

\* c calls resolve(): it joins the pending resolution or begins one.
ResolveFor(c, p) ==
  IF p # None
  THEN /\ pending' = p
       /\ on' = [on EXCEPT ![c] = p]
       /\ Become(res)
  ELSE /\ pending' = Free
       /\ on' = [on EXCEPT ![c] = Free]
       /\ \E first \in FirstPart : Become([res EXCEPT ![Free] = first])

Call(c) ==
  /\ call[c] = "idle"
  /\ call' = [call EXCEPT ![c] = "waiting"]
  /\ ResolveFor(c, pending)
  /\ UNCHANGED <<override, cache, given, tampered>>

Usable(r) == IF res[r] = "local" THEN override = "usable" ELSE cache \in {"whole", "bad"}

\* pending.then: the path is handed out if there is something to run at it.
Answered(c) ==
  /\ call[c] = "waiting" /\ res[on[c]] \in {"local", "cached"}
  /\ Usable(on[c])
  /\ call' = [call EXCEPT ![c] = "ok"]
  /\ given' = [given EXCEPT ![c] = IF res[on[c]] = "local" THEN "local" ELSE cache]
  /\ on' = [on EXCEPT ![c] = None]
  /\ pending' = pending
  /\ Become(res)
  /\ UNCHANGED <<override, cache, tampered>>

\* Otherwise the promise is dropped, whichever it is by now, and resolve() is called
\* again in the same turn.
AnsweredGone(c) ==
  /\ call[c] = "waiting" /\ res[on[c]] \in {"local", "cached"}
  /\ ~Usable(on[c])
  /\ ResolveFor(c, None)
  /\ UNCHANGED <<override, cache, call, given, tampered>>

Failed(c) ==
  /\ call[c] = "waiting" /\ res[on[c]] = "failed"
  /\ call' = [call EXCEPT ![c] = "err"]
  /\ on' = [on EXCEPT ![c] = None]
  /\ pending' = pending
  /\ Become(res)
  /\ UNCHANGED <<override, cache, given, tampered>>

--------------------------------------------------------------------------------
(***************************************************************************)
(* A resolution: download, verify, install, and the catch that clears the   *)
(* shared promise of a failure.                                             *)
(***************************************************************************)
To(r, place) == res' = [res EXCEPT ![r] = place]

\* Fault: a failure stays cached.
CatchKeeps(r) ==
  /\ res[r] = "rejected"
  /\ To(r, "failed")
  /\ UNCHANGED <<override, cache, content, pending, callVars, tampered>>

Catch(r) ==
  /\ res[r] = "rejected"
  /\ pending' = None
  /\ on' = on
  /\ Become([res EXCEPT ![r] = "failed"])
  /\ UNCHANGED <<override, cache, call, given, tampered>>

Fetched(r) ==
  /\ res[r] = "fetching"
  /\ content' \in {[content EXCEPT ![r] = x] : x \in {"good", "bad"}}
  /\ To(r, "verifying")
  /\ UNCHANGED <<override, cache, pending, callVars, tampered>>

FetchFails(r) ==
  /\ res[r] = "fetching"
  /\ To(r, "rejected")
  /\ UNCHANGED <<override, cache, content, pending, callVars, tampered>>

\* Fault: the checksum and the trial run come after the rename.
VerifiedUnchecked(r) ==
  /\ res[r] = "verifying"
  /\ To(r, "renaming")
  /\ UNCHANGED <<override, cache, content, pending, callVars, tampered>>

\* The checksum, tar, the binary at its root and --version.
Verified(r) ==
  /\ res[r] = "verifying" /\ content[r] = "good"
  /\ To(r, "renaming")
  /\ UNCHANGED <<override, cache, content, pending, callVars, tampered>>

VerifyFails(r) ==
  /\ res[r] = "verifying"
  /\ To(r, "rejected")
  /\ UNCHANGED <<override, cache, content, pending, callVars, tampered>>

\* Fault: the loser of the race tries again.
InstalledOnlyFirst(r) ==
  /\ res[r] = "renaming"
  /\ IF cache = "absent"
     THEN cache' = (IF content[r] = "good" THEN "whole" ELSE "bad") /\ To(r, "installed")
     ELSE UNCHANGED cache /\ To(r, "renaming")
  /\ UNCHANGED <<override, content, pending, callVars, tampered>>

\* Onto a directory the rename fails, which is fine if what is there is usable.
Installed(r) ==
  /\ res[r] = "renaming"
  /\ IF cache = "absent"
     THEN cache' = (IF content[r] = "good" THEN "whole" ELSE "bad") /\ To(r, "installed")
     ELSE UNCHANGED cache /\ To(r, IF cache = "gutted" THEN "rejected" ELSE "installed")
  /\ UNCHANGED <<override, content, pending, callVars, tampered>>

ChecksInstalled(r) ==
  /\ res[r] = "installed"
  /\ To(r, IF cache \in {"whole", "bad"} THEN "cached" ELSE "rejected")
  /\ UNCHANGED <<override, cache, content, pending, callVars, tampered>>

--------------------------------------------------------------------------------
(***************************************************************************)
(* Others: the cache is cleared, wholly or of its binary, and another       *)
(* process installs the companion it verified.                              *)
(***************************************************************************)
Tamper(states, state) ==
  /\ cache \in states /\ tampered < MaxTampering
  /\ cache' = state
  /\ tampered' = tampered + 1
  /\ UNCHANGED <<override, res, content, pending, callVars>>

CacheCleared == Tamper({"whole", "gutted", "bad"}, "absent")
BinaryRemoved == Tamper({"whole", "bad"}, "gutted")
OtherInstalls == cache = "absent" /\ Tamper({"absent"}, "whole")

--------------------------------------------------------------------------------
CallSettles(c) == Answered(c) \/ AnsweredGone(c) \/ Failed(c)

ResolutionStep(r) ==
  \/ Catch(r) \/ Fetched(r) \/ FetchFails(r) \/ Verified(r) \/ VerifyFails(r)
  \/ Installed(r) \/ ChecksInstalled(r)

Next ==
  \/ \E c \in Callers : Call(c) \/ CallSettles(c)
  \/ \E r \in Resolutions : ResolutionStep(r)
  \/ CacheCleared \/ BinaryRemoved \/ OtherInstalls

Spec == Init /\ [][Next]_vars

\* Promise callbacks run, and every download has a timeout and every trial run one.
FairSpec ==
  /\ Spec
  /\ \A c \in Callers : WF_vars(CallSettles(c))
  /\ \A r \in Resolutions : WF_vars(ResolutionStep(r))

--------------------------------------------------------------------------------
Places ==
  {"free", "local", "cached", "fetching", "verifying", "renaming", "installed", "rejected",
   "failed"}

\* The shape of the state, and who waits.
TypeOK ==
  /\ override \in {"none", "usable", "unusable", "missing"}
  /\ cache \in {"absent", "whole", "gutted", "bad"}
  /\ res \in [Resolutions -> Places]
  /\ content \in [Resolutions -> {"good", "bad"}]
  /\ pending \in Resolutions \cup {None}
  /\ call \in [Callers -> {"idle", "waiting", "ok", "err"}]
  /\ on \in [Callers -> Resolutions \cup {None}]
  /\ given \in [Callers -> {None, "local", "whole", "bad"}]
  /\ tampered \in 0 .. MaxTampering
  /\ \A c \in Callers : call[c] = "waiting" <=> on[c] # None

\* "A half-written tree can never be mistaken for a complete one": whatever races,
\* no caller is given a companion that was not verified.
NothingUnverified == cache # "bad" /\ \A c \in Callers : given[c] # "bad"

\* A failure is told to those who waited for it and to nobody else: the promise a
\* new caller joins is never one that has failed already.
FailureIsNotCached == pending # None => res[pending] # "failed"

\* Every call is answered or fails, whatever happens to the cache, unless an override
\* is there that cannot be run: localCompanion asks whether it exists and resolve()
\* whether it is executable, so such a call drops its promise and asks again for ever.
EveryCallSettles ==
  \A c \in Callers :
    call[c] = "waiting" /\ override # "unusable" ~> call[c] \in {"ok", "err"}
================================================================================
