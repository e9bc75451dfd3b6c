----------------------------- MODULE WorkerSlot -----------------------------
(* A cloud worker: the one lease in auth.json and everything that replaces it  *)
(* - the renewal loop (leaseKeeper), a session's recovery from a limit or from *)
(* a revoked token (switchStrategy) and the panel's switch, pin and un-pin.    *)
(* Each runs up to an await and the others go on from there.                   *)
EXTENDS PoolMaster

\* Disturbances: the vendor, the operator, crashes.
CONSTANTS Session,   \* sessions whose turns may fail at once
          Panel,     \* commands given in the /usage panel
          Keeper     \* the renewal loop

ASSUME WorkerAssumption ==
  Keeper \notin Session \cup Panel /\ Session \cap Panel = {} /\ MaxTrouble \in Nat

VARIABLES
  slot,      \* auth.json's anthropic entry
  recorded,  \* activeId in the account library
  heldId,    \* heldAccountId: the account the renewal loop believes it holds
  storedPin, \* the pinned account, in OpenCode's store
  sent,      \* sent[s]: the token the turn of s runs with
  proc       \* proc[p]: the lease p is getting

machine == <<slot, recorded, heldId, storedPin>>
workerVars == <<world, machine, sent, proc, trouble>>

Proc == Session \cup Panel \cup {Keeper}
Who == Account \cup {None}

IdleProc ==
  [pc |-> "idle", kind |-> "none", named |-> None, cur |-> None, prev |-> None, got |-> None]

WorkerTypeOK ==
  /\ WorldTypeOK
  /\ slot \in [acct : Account, gen : 1 .. MaxGen, age : Age] \cup {NoLease}
  /\ {recorded, heldId, storedPin} \subseteq Who
  /\ sent \in [Session -> Token \cup {NoTok}]
  /\ proc \in [Proc -> [pc : {"idle", "reporting", "calling", "recording"},
                        kind : {"none", "renew", "limit", "stale", "switch", "pin", "unpin"},
                        named : Who, cur : Who, prev : Who, got : Who]]
  /\ trouble \in 0 .. MaxTrouble

Calling(kind, named, cur) ==
  [IdleProc EXCEPT !.pc = "calling", !.kind = kind, !.named = named, !.cur = cur]

-----------------------------------------------------------------------------
(* The four ways to a lease, up to the call.                                 *)

\* Mutant: the loop asks for the ranked pick, pinned or not.
PinnedNameNever == None

\* createPinnedLease: what an automatic call names.
PinnedName == storedPin

\* tickOnce: one renewal at a time, once the lease in the file is due.
Tick ==
  /\ proc[Keeper].pc = "idle"
  /\ slot.age # "young"
  /\ proc' = [proc EXCEPT ![Keeper] = Calling("renew", PinnedName, heldId)]
  /\ UNCHANGED <<world, machine, sent, trouble>>

\* onLimit, for the account the file names: the pin is cleared before the report.
LimitHit(s) ==
  /\ proc[s].pc = "idle" /\ sent[s] # NoTok
  /\ Works(sent[s]) /\ sent[s][1] \in walled
  /\ storedPin' = None
  /\ proc' = [proc EXCEPT ![s] = [Calling("limit", None, recorded) EXCEPT !.pc = "reporting",
                                                                          !.prev = storedPin]]
  /\ sent' = [sent EXCEPT ![s] = NoTok]
  /\ UNCHANGED <<world, slot, recorded, heldId, trouble>>

\* The report is awaited, so the master has it, or lost it, before the call.
Report(s) ==
  /\ proc[s].pc = "reporting"
  /\ IF proc[s].cur = None THEN UNCHANGED cooling ELSE ReportLands(proc[s].cur)
  /\ proc' = [proc EXCEPT ![s].pc = "calling"]
  /\ UNCHANGED <<minted, revoked, walled, machine, sent, trouble>>

\* onStaleLease: a 401 reports nothing and keeps to the pin.
StaleHit(s) ==
  /\ proc[s].pc = "idle" /\ sent[s] # NoTok
  /\ ~Works(sent[s])
  /\ proc' = [proc EXCEPT ![s] = Calling("stale", PinnedName, recorded)]
  /\ sent' = [sent EXCEPT ![s] = NoTok]
  /\ UNCHANGED <<world, machine, trouble>>

\* The panel: the intent is stored before the account is asked for.
Press(o, kind, a) ==
  /\ Disturb
  /\ proc[o].pc = "idle"
  /\ kind = "unpin" => storedPin = a
  /\ storedPin' = CASE kind = "pin" -> a [] kind = "unpin" -> None [] OTHER -> storedPin
  /\ proc' = [proc EXCEPT ![o] = Calling(kind, a, None)]
  /\ UNCHANGED <<world, slot, recorded, heldId, sent>>

-----------------------------------------------------------------------------
(* The master's answers.                                                     *)

CallReason(p) == IF proc[p].kind = "limit" THEN "ratelimit" ELSE "prelease"
Automatic(p) == proc[p].kind \in {"renew", "stale"}

\* Mutant: any answer but a lease gives the pin up.
PinRefusedByAny(kind) == kind # "lease"

\* Mutant: a refusal is a failure like any other; the pin stays.
PinRefusedNever(kind) == FALSE

\* Only this gives up a pin.
PinRefused(kind) == kind = "refused"

\* createPinnedLease: the pin - whichever is stored by now - is cleared and the
\* ranked pick asked for.
FallBack(p) ==
  /\ storedPin' = None
  /\ proc' = [proc EXCEPT ![p].named = None]
  /\ UNCHANGED <<slot, recorded, heldId>>

\* The lease goes into the file; naming its account there is a second write.
WriteLease(p, a) ==
  /\ slot' = [acct |-> a, gen |-> minted[a], age |-> "young"]
  /\ proc' = [proc EXCEPT ![p].pc = "recording", ![p].got = a]
  /\ UNCHANGED <<recorded, heldId, storedPin>>

\* Nothing is written.  A pin that was just asked for is taken back.  The loop
\* sleeps its back-off before it ticks again.
Fail(p) ==
  /\ storedPin' = IF proc[p].kind = "pin" THEN None ELSE storedPin
  /\ proc' = [proc EXCEPT ![p] = IdleProc]
  /\ UNCHANGED <<slot, recorded, heldId>>

Answered(p, answer) ==
  /\ proc[p].pc = "calling"
  /\ answer \in LeaseAnswers(CallReason(p), proc[p].cur, proc[p].named, {})
  /\ IF answer.kind = "lease" THEN WriteLease(p, answer.acct)
     ELSE IF Automatic(p) /\ proc[p].named # None /\ PinRefused(answer.kind) THEN FallBack(p)
     ELSE Fail(p)
  /\ UNCHANGED <<world, sent, trouble>>

CallAnswered(p) == \E answer \in Answer : Answered(p, answer)

\* The account's id is recorded, and each path finishes: the loop and the panel
\* tell the loop what it holds; a limit that left the worker where it was puts
\* its pin back.
Record(p) ==
  /\ proc[p].pc = "recording"
  /\ recorded' = proc[p].got
  /\ heldId' = IF p \in Session THEN heldId ELSE proc[p].got
  /\ storedPin' = IF proc[p].kind = "limit" /\ proc[p].got = proc[p].cur /\ proc[p].prev # None
                  THEN proc[p].prev ELSE storedPin
  /\ proc' = [proc EXCEPT ![p] = IdleProc]
  /\ UNCHANGED <<world, slot, sent, trouble>>

-----------------------------------------------------------------------------
(* Turns, time, crashes.                                                     *)

\* A turn reads the file's token once and runs with it.
TurnStarts(s) ==
  /\ sent[s] = NoTok /\ proc[s].pc = "idle"
  /\ slot.age # "spent"
  /\ sent' = [sent EXCEPT ![s] = <<slot.acct, slot.gen>>]
  /\ UNCHANGED <<world, machine, proc, trouble>>

TurnEnds(s) ==
  /\ sent[s] # NoTok /\ Works(sent[s]) /\ sent[s][1] \notin walled
  /\ sent' = [sent EXCEPT ![s] = NoTok]
  /\ UNCHANGED <<world, machine, proc, trouble>>

SlotAges ==
  /\ slot # NoLease /\ slot.age # "spent"
  /\ slot' = [slot EXCEPT !.age = IF @ = "young" THEN "due" ELSE "spent"]
  /\ UNCHANGED <<world, recorded, heldId, storedPin, sent, proc, trouble>>

\* OpenCode ends, at any await, and starts again: the loop adopts the recorded id.
Restart ==
  /\ Disturb
  /\ proc' = [p \in Proc |-> IdleProc]
  /\ sent' = [s \in Session |-> NoTok]
  /\ heldId' = recorded
  /\ UNCHANGED <<world, slot, recorded, storedPin>>

VendorMoves ==
  /\ Disturb
  /\ \E a \in Account : RotateToken(a) \/ RevokeToken(a) \/ FillQuota(a) \/ QuotaReturns(a)
  /\ UNCHANGED <<machine, sent, proc>>

\* Another machine's report of a spent account.
OthersReport ==
  /\ \E a \in walled \ cooling : cooling' = cooling \cup {a}
  /\ UNCHANGED <<minted, revoked, walled, machine, sent, proc, trouble>>

-----------------------------------------------------------------------------
WorkerInit ==
  /\ WorldInit
  /\ slot = NoLease /\ recorded = None /\ heldId = None /\ storedPin = None
  /\ sent = [s \in Session |-> NoTok]
  /\ proc = [p \in Proc |-> IdleProc]
  /\ trouble = 0

WorkerNext ==
  \/ Tick \/ SlotAges \/ Restart \/ VendorMoves \/ OthersReport
  \/ \E p \in Proc : CallAnswered(p) \/ Record(p)
  \/ \E s \in Session : LimitHit(s) \/ Report(s) \/ StaleHit(s) \/ TurnStarts(s) \/ TurnEnds(s)
  \/ \E o \in Panel, kind \in {"switch", "pin", "unpin"}, a \in Account : Press(o, kind, a)

KeeperReached == \E answer \in Answer \ {Unreachable} : Answered(Keeper, answer)

\* The interval keeps firing, calls carry a timeout, time passes, and a master
\* asked again and again is reached again and again, whatever it answers.
WorkerFairness ==
  /\ WF_workerVars(Tick) /\ WF_workerVars(SlotAges)
  /\ \A p \in Proc : WF_workerVars(CallAnswered(p)) /\ WF_workerVars(Record(p))
  /\ SF_workerVars(KeeperReached)

WorkerSpec == WorkerInit /\ [][WorkerNext]_workerVars
FairWorkerSpec == WorkerSpec /\ WorkerFairness

-----------------------------------------------------------------------------
(* Properties.                                                               *)

\* A pin is given up by the operator, by a limit, or when an account somebody
\* named for a pin cannot be served: never over a dropped packet.
PinGivenUpRightly ==
  [][storedPin # None /\ storedPin' = None =>
       \/ \E s \in Session : proc'[s].pc = "reporting"
       \/ \E o \in Panel : proc'[o].kind = "unpin"
       \/ \E p \in Proc : proc[p].kind = "pin" /\ proc'[p].kind = "none"
       \/ \E p \in Proc : proc[p].pc = "calling" /\ proc[p].named \in cooling]_workerVars

\* A pin takes hold although a renewal that was under way when the operator
\* pressed the key may still bring another account home - or it is given up.
PinTakesHold ==
  \A a \in Account : storedPin = a ~> (slot.acct = a \/ storedPin # a \/ a \in cooling)

\* No pin, failure, crash or race leaves the worker with a lapsed lease for good
\* while the pool has an account: a lapsed lease is what makes OpenCode's own
\* provider refresh.
NotBricked == slot.age = "spent" ~> (slot.age # "spent" \/ cooling = Account)

\* A renewal names the account this machine was last recorded to hold, so that
\* the master keeps it there (the comments at heldAccountId and adoptAccount).
RenewalNamesHeld ==
  [][(heldId # None /\ proc'[Keeper] # proc[Keeper] /\ proc'[Keeper].pc = "calling")
       /\ (\A p \in Proc : proc[p].pc = "idle")
       => proc'[Keeper].cur = recorded]_workerVars
=============================================================================
