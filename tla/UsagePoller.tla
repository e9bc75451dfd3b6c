----------------------------- MODULE UsagePoller -----------------------------
(***************************************************************************)
(* The master's usage poller (src/master/usagePoller.ts) driving the       *)
(* cooldown book, against accounts whose real quota moves underneath it.   *)
(*                                                                         *)
(* A sweep reads the accounts one by one, awaiting each, and hands over    *)
(* everything it read at its end: by then a reading may be stale, and      *)
(* workers' rate-limit reports may have arrived in between.                *)
(***************************************************************************)
EXTENDS CooldownBook

CONSTANTS
  WindowName,   \* the quota windows of an account (five_hour, seven_day, ...)
  Length,       \* how long each of them lasts once it has opened
  Backoff       \* USAGE_POLL_429_COOLDOWN_MS

\* What the usage endpoint answers of an account whose windows are q: a window
\* that is not open has no reset.
Usage(q) == {[util |-> IF q[w].spent THEN "full" ELSE "ok", at |-> q[w].at] : w \in WindowName}

ASSUME PollerAssumption ==
  /\ Length \in [WindowName -> 1 .. Horizon]
  /\ Backoff \in Nat
  /\ \A q \in [WindowName -> [at : 0 .. Horizon, spent : BOOLEAN]] : Usage(q) \in Reading

VARIABLES
  quota,        \* what the vendor knows: each window's reset and whether it is spent
  flagged,      \* needsReauth of each account, in the account library
  backoff,      \* the poller's own map: no poll before this instant
  sweep,        \* the sweep under way
  owed          \* history: the deadline a truthful report gave the account

pollVars == <<quota, flagged, backoff, sweep, owed>>
pollerVars == <<bookVars, pollVars>>

-----------------------------------------------------------------------------
Idle == [on |-> FALSE, todo |-> {}, read |-> [a \in {} |-> {}]]
Closed == [at |-> 0, spent |-> FALSE]

UsageOf(a) == Usage(quota[a])

PollerTypeOK ==
  /\ TypeOK
  /\ quota \in [Account -> [WindowName -> [at : Deadline, spent : BOOLEAN]]]
  /\ flagged \in [Account -> BOOLEAN]
  /\ backoff \in [Account -> 0 .. MaxTime + 1]
  /\ sweep.on \in BOOLEAN
  /\ sweep.todo \cup DOMAIN sweep.read \subseteq Account
  /\ sweep.todo \cap DOMAIN sweep.read = {}
  /\ owed \in [Account -> Deadline]

-----------------------------------------------------------------------------
(* The poller.                                                             *)

IsPollCooling(a) == now < backoff[a]

\* tickOnce: nothing while a sweep is under way; flagged and backed-off
\* accounts are left out of it, and lapsed back-offs are forgotten.
StartSweep ==
  /\ up
  /\ ~sweep.on
  /\ sweep' = [Idle EXCEPT !.on = TRUE,
                           !.todo = {a \in Account : ~flagged[a] /\ ~IsPollCooling(a)}]
  /\ backoff' = [a \in Account |-> IF flagged[a] \/ IsPollCooling(a) THEN backoff[a] ELSE 0]
  /\ UNCHANGED <<bookVars, quota, flagged, owed>>

\* The endpoint answers for an account.
ReadUsage(a) ==
  /\ up /\ sweep.on /\ a \in sweep.todo
  /\ sweep' = [sweep EXCEPT !.todo = @ \ {a},
                            !.read = [b \in DOMAIN @ \cup {a} |->
                                        IF b = a THEN UsageOf(a) ELSE @[b]]]
  /\ UNCHANGED <<bookVars, quota, flagged, backoff, owed>>

\* It fails for any reason but a rate limit: the account is missing from the
\* snapshot.
ReadFails(a) ==
  /\ up /\ sweep.on /\ a \in sweep.todo
  /\ sweep' = [sweep EXCEPT !.todo = @ \ {a}]
  /\ UNCHANGED <<bookVars, quota, flagged, backoff, owed>>

\* It answers 429: missing as well, and this account alone is backed off.
\* MaxTime + 1 bounds the instant, since the clock stops there.
ReadLimited(a) ==
  /\ up /\ sweep.on /\ a \in sweep.todo
  /\ sweep' = [sweep EXCEPT !.todo = @ \ {a}]
  /\ backoff' = [backoff EXCEPT ![a] = IF now + Backoff <= MaxTime + 1
                                       THEN now + Backoff ELSE MaxTime + 1]
  /\ UNCHANGED <<bookVars, quota, flagged, owed>>

\* A reading that knows less than a report of `until` that came after it: taken
\* before that window opened, it dates others only; taken before the window was
\* spent, it shows others spent.
Lags(reading, until) ==
  \E x \in reading :
    /\ x.at > now
    /\ \/ \A y \in reading : y.at < until
       \/ x.util = "full" /\ \A y \in reading : y.util = "full" => y.at < until

\* It is handed over all the same, and what was reported is owed no longer.
Owes(a) ==
  IF a \in DOMAIN sweep.read /\ Lags(sweep.read[a], owed[a]) THEN 0 ELSE owed[a]

\* Mutant: the sweep is handed over and `polling` stays set.
HandOverLatched ==
  /\ sweep.on /\ sweep.todo = {}
  /\ SetUsageCache(sweep.read)
  /\ sweep' = [Idle EXCEPT !.on = TRUE]
  /\ owed' = [a \in Account |-> Owes(a)]
  /\ UNCHANGED <<quota, flagged, backoff>>

\* The one handover, once every account has been tried.
HandOver ==
  /\ sweep.on /\ sweep.todo = {}
  /\ SetUsageCache(sweep.read)
  /\ sweep' = Idle
  /\ owed' = [a \in Account |-> Owes(a)]
  /\ UNCHANGED <<quota, flagged, backoff>>

-----------------------------------------------------------------------------
(* The world around it.                                                    *)

\* Somebody uses the account, which opens a window that was closed.
Open(a, w) ==
  /\ quota[a][w] = Closed
  /\ now + Length[w] <= Horizon
  /\ quota' = [quota EXCEPT ![a][w].at = now + Length[w]]
  /\ UNCHANGED <<bookVars, flagged, backoff, sweep, owed>>

\* And may spend it.
Spend(a, w) ==
  /\ quota[a][w].at # 0 /\ ~quota[a][w].spent
  /\ quota' = [quota EXCEPT ![a][w].spent = TRUE]
  /\ UNCHANGED <<bookVars, flagged, backoff, sweep, owed>>

\* A worker runs into window w and its report carries that window's reset.
ReportSpent(a, w) ==
  /\ quota[a][w].spent
  /\ ReportTimed(a, quota[a][w].at)
  /\ owed' = [owed EXCEPT ![a] = quota[a][w].at]
  /\ UNCHANGED <<quota, flagged, backoff, sweep>>

\* A report carries a deadline that is no window's: an entitlement limit, a
\* clock that is off.  Nothing is owed to the account after that.
Misreport(a, until) ==
  /\ ReportTimed(a, until)
  /\ owed' = [owed EXCEPT ![a] = 0]
  /\ UNCHANGED <<quota, flagged, backoff, sweep>>

\* A report without a deadline, true or not.
ReportBare(a) ==
  /\ ReportUnknown(a)
  /\ UNCHANGED pollVars

\* The account's refresh chain dies, or its owner logs in again.
Flag(a, value) ==
  /\ flagged[a] # value
  /\ flagged' = [flagged EXCEPT ![a] = value]
  /\ UNCHANGED <<bookVars, quota, backoff, sweep, owed>>

\* Mutant: the recovery timer's callback forgets to persist.
RecoverAccountUnsaved(a) ==
  /\ up
  /\ book[a].timer # 0 /\ book[a].timer <= now
  /\ book' = [book EXCEPT ![a].until = 0, ![a].timer = 0]
  /\ UNCHANGED <<now, up, stored, pollVars>>

RecoverAccount(a) == Recover(a) /\ UNCHANGED pollVars

\* Polls and the back-off map die with the process.
CrashMaster ==
  /\ Crash
  /\ sweep' = Idle
  /\ backoff' = [a \in Account |-> 0]
  /\ UNCHANGED <<quota, flagged, owed>>

RestartMaster == Restart /\ UNCHANGED pollVars

\* The clock closes every window whose reset it reaches.
Pass ==
  /\ Tick
  /\ quota' = [a \in Account |-> [w \in WindowName |->
                 IF quota[a][w].at <= now' THEN Closed ELSE quota[a][w]]]
  /\ UNCHANGED <<flagged, backoff, sweep, owed>>

-----------------------------------------------------------------------------
PollerInit ==
  /\ BookInit
  /\ quota = [a \in Account |-> [w \in WindowName |-> Closed]]
  /\ flagged = [a \in Account |-> FALSE]
  /\ backoff = [a \in Account |-> 0]
  /\ sweep = Idle
  /\ owed = [a \in Account |-> 0]

PollStep(a) == ReadUsage(a) \/ ReadFails(a) \/ ReadLimited(a)

PollerNext ==
  \/ StartSweep
  \/ HandOver
  \/ \E a \in Account :
       \/ PollStep(a)
       \/ \E w \in WindowName : Open(a, w) \/ Spend(a, w) \/ ReportSpent(a, w)
       \/ \E until \in Instant : Misreport(a, until)
       \/ ReportBare(a)
       \/ \E value \in BOOLEAN : Flag(a, value)
       \/ RecoverAccount(a)
  \/ CrashMaster
  \/ RestartMaster
  \/ Pass

\* The poller's interval keeps firing and its requests end (they carry a
\* timeout); time passes; and the endpoint does not fail one account for ever.
PollerFairness ==
  /\ WF_pollerVars(StartSweep)
  /\ WF_pollerVars(HandOver)
  /\ WF_pollerVars(Pass)
  /\ \A a \in Account : WF_pollerVars(PollStep(a)) /\ SF_pollerVars(ReadUsage(a))

PollerSpec == PollerInit /\ [][PollerNext]_pollerVars
FairPollerSpec == PollerSpec /\ PollerFairness

-----------------------------------------------------------------------------
(* Properties.                                                             *)

\* Once a truthful report has said when an account's quota returns, the master
\* keeps it out of selection at least until then: no late sweep, deadline-less
\* report, crash or restart brings it back while it is spent - unless a sweep
\* hands over a reading that lags behind the report, which `owed` is cleared for.
SpentStaysOut ==
  up => \A a \in Account : owed[a] > now => book[a].until >= owed[a]

\* What holds at every moment of the poller.
PollerInv == PollerTypeOK /\ SpentStaysOut

\* A deadline-less cooldown is never permanent: while the account's chain
\* lives, some sweep resolves it.
PendingResolves ==
  \A a \in Account :
    (book[a].pending /\ ~flagged[a]) ~> (~book[a].pending \/ flagged[a])

\* A timed cooldown that a sweep clears was no quota's: no window the account
\* has, spent, resets at that deadline (clearImplausibleCooldown's comment).
ClearedIsImplausible ==
  [][\A a \in Account :
       (sweep.on /\ ~sweep'.on /\ up' /\ book[a].until > now /\ book'[a].until = 0)
         => \A w \in WindowName : ~(quota[a][w].spent /\ quota[a][w].at = book[a].until)]_pollerVars

=============================================================================
