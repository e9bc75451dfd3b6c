------------------------------ MODULE FileLock ------------------------------
(***************************************************************************)
(* The cross-process advisory lock (src/lockfile.ts): an exclusive create, *)
(* a steal once the file looks abandoned, and a release that first checks  *)
(* whose file it is.  Each file operation is a step of its own.            *)
(*                                                                         *)
(* There is no clock: the file's age, the time waited and the time held    *)
(* are counted, and stop counting at the bound each is compared with.      *)
(***************************************************************************)
EXTENDS Integers, FiniteSets

CONSTANTS
  Process,
  Mortal,         \* the processes that may die
  None,           \* "no file", "nobody"
  Ghost,          \* the owner of a file whose creator died
  Stale,          \* LOCK_STALE_MS
  AcquireTimeout, \* LOCK_ACQUIRE_TIMEOUT_MS
  MaxHold         \* the longest legitimate hold, releasing included

ASSUME LockAssumption ==
  /\ Mortal \subseteq Process
  /\ None \notin Process /\ Ghost \notin Process /\ None # Ghost
  /\ Stale \in Nat
  /\ AcquireTimeout \in Nat
  /\ MaxHold \in Nat \ {0}

VARIABLES
  owner,        \* whose token the lock file holds; None when there is no file
  age,          \* how long ago the file was created
  pc,           \* where each process is in acquireFileLock / withFileLock
  waited,       \* how long it has been trying to acquire
  holding       \* how long ago it acquired

lockVars == <<owner, age, pc, waited, holding>>

Waiting == {"create", "stat", "steal", "pausing"}
Held == {"inside", "reading", "unlinking"}

LockTypeOK ==
  /\ owner \in Process \cup {None, Ghost}
  /\ age \in 0 .. Stale + 1
  /\ pc \in [Process -> {"idle", "dead"} \cup Waiting \cup Held]
  /\ waited \in [Process -> 0 .. AcquireTimeout]
  /\ holding \in [Process -> 0 .. MaxHold]

GoTo(p, place) == pc' = [pc EXCEPT ![p] = place]

-----------------------------------------------------------------------------
(* acquireFileLock.                                                        *)

Enter(p) ==
  /\ pc[p] = "idle"
  /\ GoTo(p, "create")
  /\ waited' = [waited EXCEPT ![p] = 0]
  /\ UNCHANGED <<owner, age, holding>>

\* Mutant: the file is overwritten instead of created exclusively.
CreateOverwriting(p) ==
  /\ pc[p] = "create"
  /\ owner' = p /\ age' = 0
  /\ holding' = [holding EXCEPT ![p] = 0]
  /\ GoTo(p, "inside")
  /\ UNCHANGED waited

\* The exclusive create either makes the file ours or finds one there.
Create(p) ==
  /\ pc[p] = "create"
  /\ IF owner = None
     THEN /\ owner' = p /\ age' = 0
          /\ holding' = [holding EXCEPT ![p] = 0]
          /\ GoTo(p, "inside")
     ELSE GoTo(p, "stat") /\ UNCHANGED <<owner, age, holding>>
  /\ UNCHANGED waited

\* Mutant: an abandoned file is waited for like any other.
StatPatient(p) ==
  /\ pc[p] = "stat"
  /\ GoTo(p, IF owner = None THEN "create"
             ELSE IF waited[p] >= AcquireTimeout THEN "idle" ELSE "pausing")
  /\ UNCHANGED <<owner, age, waited, holding>>

\* Gone: try again.  Abandoned: steal.  Waited long enough: LockTimeoutError.
Stat(p) ==
  /\ pc[p] = "stat"
  /\ GoTo(p, IF owner = None THEN "create"
             ELSE IF age > Stale THEN "steal"
             ELSE IF waited[p] >= AcquireTimeout THEN "idle" ELSE "pausing")
  /\ UNCHANGED <<owner, age, waited, holding>>

\* The rename moves whatever file is there by now.
Steal(p) ==
  /\ pc[p] = "steal"
  /\ owner' = None /\ age' = 0
  /\ GoTo(p, "create")
  /\ UNCHANGED <<waited, holding>>

Wake(p) ==
  /\ pc[p] = "pausing"
  /\ GoTo(p, "create")
  /\ UNCHANGED <<owner, age, waited, holding>>

-----------------------------------------------------------------------------
(* withFileLock's critical section and releaseFileLock.                    *)

Finish(p) ==
  /\ pc[p] = "inside"
  /\ GoTo(p, "reading")
  /\ UNCHANGED <<owner, age, waited, holding>>

\* A file that is not ours is left alone.
ReadToken(p) ==
  /\ pc[p] = "reading"
  /\ GoTo(p, IF owner = p THEN "unlinking" ELSE "idle")
  /\ UNCHANGED <<owner, age, waited, holding>>

Unlink(p) ==
  /\ pc[p] = "unlinking"
  /\ owner' = None /\ age' = 0
  /\ GoTo(p, "idle")
  /\ UNCHANGED <<waited, holding>>

-----------------------------------------------------------------------------
\* A process dies wherever it is; its file stays behind.
Die(p) ==
  /\ p \in Mortal /\ pc[p] # "dead"
  /\ GoTo(p, "dead")
  /\ owner' = IF owner = p THEN Ghost ELSE owner
  /\ UNCHANGED <<age, waited, holding>>

CountTo(n, bound) == IF n < bound THEN n + 1 ELSE bound

\* Time passes, but never beyond a live holder's longest legitimate hold.
Tick ==
  /\ \A p \in Process : pc[p] \in Held => holding[p] < MaxHold
  /\ age' = IF owner = None THEN 0 ELSE CountTo(age, Stale + 1)
  /\ waited' = [p \in Process |-> IF pc[p] \in Waiting THEN CountTo(waited[p], AcquireTimeout)
                                  ELSE 0]
  /\ holding' = [p \in Process |-> IF pc[p] \in Held THEN holding[p] + 1 ELSE 0]
  /\ UNCHANGED <<owner, pc>>

LockInit ==
  /\ owner = None
  /\ age = 0
  /\ pc = [p \in Process |-> "idle"]
  /\ waited = [p \in Process |-> 0]
  /\ holding = [p \in Process |-> 0]

LockStep(p) ==
  \/ Enter(p) \/ Create(p) \/ Stat(p) \/ Steal(p) \/ Wake(p)
  \/ Finish(p) \/ ReadToken(p) \/ Unlink(p)

LockNext == Tick \/ \E p \in Process : LockStep(p) \/ Die(p)

LockSpec == LockInit /\ [][LockNext]_lockVars

\* Time passes, and every process keeps coming back for the lock (the warm loop
\* and the keepers run for ever) and takes the next step of its call.
FairLockSpec ==
  LockSpec /\ WF_lockVars(Tick) /\ \A p \in Process : WF_lockVars(LockStep(p))

-----------------------------------------------------------------------------
(* Properties.                                                             *)

AtMostOneInside == Cardinality({p \in Process : pc[p] = "inside"}) <= 1

\* As long as no process has died, at most one is in its critical section - and
\* what it is about to unlink is its own file.
ExclusiveWhileAllLive ==
  (\A p \in Process : pc[p] # "dead") =>
    /\ AtMostOneInside
    /\ \A p \in Process : pc[p] = "unlinking" => owner = p

\* What holds at every moment of the lock.
LockInv == LockTypeOK /\ ExclusiveWhileAllLive

\* A lock whose holder died is taken over in the end.
AbandonedIsTaken == (owner = Ghost) ~> (owner # Ghost)

\* Mutual exclusion never depends on staleness or rename.
MutualExclusion == AtMostOneInside
=============================================================================
