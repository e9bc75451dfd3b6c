---------------------------- MODULE SessionSwitch ----------------------------
(* Local mode: autoswitch.ts.  A session's turn runs into its account's limit; *)
(* OpenCode says so in events, late and more than once; the plugin cools the   *)
(* account, switches to another and has the turn done again - or parks the     *)
(* session until a cooldown's timer says that an account is back.  Handlers of *)
(* different sessions, the timer's and the user interleave at every await.     *)
EXTENDS Disturbance, FiniteSets

\* Disturbances: turns sent, quotas filled and given back, switches that fail and
\* those of other sessions, timers that go off before the quota is back.
CONSTANTS
  Session,   \* the sessions followed
  Others,    \* stands for every other session
  AtOnce     \* bound: recoveries at a time

ASSUME SwitchAssumption ==
  /\ {None, Others} \cap (Session \cup Account) = {} /\ None # Others
  /\ MaxTrouble \in Nat /\ AtOnce \in Nat

VARIABLES
  turn,      \* turn[s]: the session's latest turn, as OpenCode shows it
  sent,      \* sent[s]: prompts the plugin sent that are not shown yet
  evt,       \* evt[s]: events not delivered yet
  job,       \* job[s]: the session's handler, one at a time (runExclusive)
  redo,      \* redo[s]: repromptFailedTurn under way (repromptInFlight)
  acted,     \* sessions acted for less than RECENT_SWITCH_GUARD_MS ago
  attempted, \* attempted[s]: accounts tried since the last success
  stalled,   \* stalledSessions
  active,    \* the account in auth.json
  last,      \* lastSwitch, while it is recent
  telling,   \* the account another session has switched to and not told yet
  cool,      \* cool[a]: the book
  armed,     \* accounts with a recovery timer
  rec,       \* rec[a]: the announceRecovery of a that is under way
  spent      \* accounts that are out of quota

turns  == <<turn, sent, evt>>
switch == <<active, last, telling>>
book   == <<cool, armed>>
switchVars == <<turns, job, redo, acted, attempted, stalled, switch, book, rec, spent, trouble>>

NoTurn == [st |-> "none", handled |-> FALSE]
NewTurn == [st |-> "busy", handled |-> FALSE]
IdleJob == [pc |-> "idle", saw |-> None, to |-> None, mode |-> "error"]
IdleRec == [pc |-> "idle", todo |-> {}, cur |-> None]
NoSwitch == [id |-> None, by |-> None]

SwitchTypeOK ==
  /\ turn \in [Session -> [st : {"none", "busy", "retry", "failed", "done"},
                           handled : BOOLEAN]]
  /\ sent \in [Session -> 0..2]
  /\ acted \subseteq Session
  /\ evt \in [Session -> SUBSET {"retry", "error", "idle"}]
  /\ job \in [Session ->
       [pc : {"idle", "pick", "redo"}, saw : Account \cup {None}, to : {None},
        mode : {"retry", "error"}]
       \cup [pc : {"write", "wrote"}, saw : Account \cup {None}, to : Account,
             mode : {"retry", "error"}]]
  /\ redo \in [Session -> {"idle", "wait"}]
  /\ attempted \in [Session -> SUBSET Account]
  /\ stalled \subseteq Session
  /\ active \in Account
  /\ last \in [id : Account, by : Session \cup {Others}] \cup {NoSwitch}
  /\ cool \in [Account -> {"no", "timed", "pending"}]
  /\ telling \in Account \cup {None}
  /\ armed \subseteq Account
  /\ rec \in [Account -> [pc : {"idle", "load", "switch", "resume"}, todo : SUBSET Session,
                          cur : Session \cup {None}]]
  /\ spent \subseteq Account
  /\ trouble \in 0..MaxTrouble

Idle(s) == turn[s].st \in {"none", "failed", "done"}

-----------------------------------------------------------------------------
(* OpenCode and its user.                                                    *)

UserSends(s) ==
  /\ Idle(s) /\ sent[s] = 0 /\ Disturb
  /\ turn' = [turn EXCEPT ![s] = NewTurn]
  /\ UNCHANGED <<sent, evt, job, redo, acted, attempted, stalled, switch, book, rec, spent>>

\* The prompt the plugin sent becomes the session's latest turn.
Shown(s) ==
  /\ sent[s] > 0
  /\ sent' = [sent EXCEPT ![s] = @ - 1]
  /\ turn' = [turn EXCEPT ![s] = NewTurn]
  /\ UNCHANGED <<evt, job, redo, acted, attempted, stalled, switch, book, rec, spent, trouble>>

Emit(s, st, e) ==
  /\ turn' = [turn EXCEPT ![s].st = st]
  /\ evt' = [evt EXCEPT ![s] = @ \cup {e}]
  /\ UNCHANGED <<sent, job, redo, acted, attempted, stalled, switch, book, rec, spent, trouble>>

\* The vendor's answer.  OpenCode retries a limited request by itself, with
\* whatever token auth.json holds by then, until it gives up; the first request
\* of a turn may be one made before a switch.
Verdict(s) ==
  /\ turn[s].st \in {"busy", "retry"}
  /\ \/ active \notin spent /\ Emit(s, "done", "idle")
     \/ /\ active \in spent \/ (turn[s].st = "busy" /\ last # NoSwitch /\ spent # {})
        /\ Emit(s, "retry", "retry") \/ Emit(s, "failed", "error")

Spend(a) ==
  /\ a \notin spent /\ spent' = spent \cup {a} /\ Disturb
  /\ UNCHANGED <<turns, job, redo, acted, attempted, stalled, switch, book, rec>>

QuotaReturns(a) ==
  /\ a \in spent /\ spent' = spent \ {a} /\ Disturb
  /\ UNCHANGED <<turns, job, redo, acted, attempted, stalled, switch, book, rec>>

-----------------------------------------------------------------------------
(* The cooldown book.                                                        *)

\* What is known of when a limit ends: the answer's own header or a full window
\* seen before gives a deadline; else there is none yet.
Deadlines == {"timed", "pending"}

\* markCooldown: a deadline starts the account's timer anew; without one the
\* timer of an earlier deadline stays armed.
Cool(a, c) ==
  /\ cool' = [cool EXCEPT ![a] = c]
  /\ armed' = IF c = "timed" THEN armed \cup {a} ELSE armed

\* clearCooldown.
Clear(a) == cool' = [cool EXCEPT ![a] = "no"] /\ armed' = armed \ {a}

\* setUsageCache: a fresh look at an account cooled without a deadline gives it
\* one, or - the account is fine, or was not read - lifts the cooldown.
ResolvePending(a) ==
  /\ cool[a] = "pending"
  /\ (a \in spent /\ Cool(a, "timed")) \/ Clear(a)
  /\ UNCHANGED <<turns, job, redo, acted, attempted, stalled, switch, rec, spent, trouble>>

\* RECENT_SWITCH_GUARD_MS is over for a session - and for the switch it made just
\* before it acted - or for the last switch.
GuardLapses ==
  /\ \/ \E s \in acted : /\ acted' = acted \ {s}
                         /\ last' = IF last.by = s THEN NoSwitch ELSE last
     \/ last # NoSwitch /\ last' = NoSwitch /\ UNCHANGED acted
  /\ UNCHANGED <<turns, job, redo, attempted, stalled, active, telling, book, rec, spent, trouble>>

-----------------------------------------------------------------------------
(* repromptFailedTurn, one at a time per session.                            *)

\* Starting it while it runs does nothing; a turn OpenCode is still retrying is
\* aborted first.
StartRedo(s, abort) ==
  /\ redo' = [redo EXCEPT ![s] = "wait"]
  /\ turn' = IF abort /\ redo[s] = "idle" /\ ~Idle(s)
             THEN [turn EXCEPT ![s].st = "failed"] ELSE turn

\* Mutant: nothing remembers which turn was handled.
HandledNever(s) == FALSE

\* Is the latest turn the one that was done again last?
Handled(s) == turn[s].handled

\* runExclusive: the handler that waited for it is done.
Ended(s) == [job EXCEPT ![s] = IF @.pc = "redo" THEN IdleJob ELSE @]

\* waitIdle found the session idle: no turn, or a handled one, ends it; else the
\* prompt is sent, and is accepted, or fails and may be tried again.
Reprompt(s) ==
  /\ redo[s] = "wait" /\ Idle(s)
  /\ redo' = [redo EXCEPT ![s] = "idle"]
  /\ IF turn[s].st = "none" \/ Handled(s) THEN UNCHANGED <<turn, sent>>
     ELSE \/ /\ turn' = [turn EXCEPT ![s].handled = TRUE]
             /\ sent' = [sent EXCEPT ![s] = @ + 1]
          \/ UNCHANGED <<turn, sent>>
  /\ job' = Ended(s)
  /\ UNCHANGED <<evt, acted, attempted, stalled, switch, book, rec, spent, trouble>>

\* It did not become idle in time: the user is told.
WaitTimesOut(s) ==
  /\ redo[s] = "wait" /\ ~Idle(s)
  /\ redo' = [redo EXCEPT ![s] = "idle"]
  /\ job' = Ended(s)
  /\ UNCHANGED <<turns, acted, attempted, stalled, switch, book, rec, spent, trouble>>

-----------------------------------------------------------------------------
(* handleLimit.                                                              *)

\* Another session has just switched to the account this one failed under.
ReuseFresh(s) == last.id = active /\ last.by # s

\* The turn is done again, unless that is under way: then nothing is waited for.
Go(s, mode) ==
  /\ acted' = acted \cup {s}
  /\ StartRedo(s, mode = "retry")
  /\ job' = [job EXCEPT ![s] = [IdleJob EXCEPT !.pc = IF redo[s] = "idle" THEN "redo" ELSE "idle"]]

\* decideLimit: the event is acted for when the latest turn is known to be this
\* provider's, which one without an answer yet is not.
Confirmed(s) == IF turn[s].st \in {"none", "busy"} THEN BOOLEAN ELSE {TRUE}

\* An unconfirmed event is dropped; within the guard it is one of a burst, and
\* dropped.  Else the account in the slot is reused, when another session has just
\* put it there, or cooled - until a deadline, or without one - and another is
\* looked for.
LimitEvent(s, mode) ==
  /\ mode \in evt[s] /\ job[s].pc = "idle"
  /\ evt' = [evt EXCEPT ![s] = @ \ {mode}]
  /\ \/ FALSE \in Confirmed(s) /\ UNCHANGED <<turn, job, acted, redo, book>>
     \/ s \in acted /\ UNCHANGED <<turn, job, acted, redo, book>>
     \/ s \notin acted /\ ReuseFresh(s) /\ Go(s, mode) /\ UNCHANGED book
     \/ /\ s \notin acted /\ ~ReuseFresh(s)
        /\ \E c \in Deadlines : Cool(active, c)
        /\ job' = [job EXCEPT ![s] = [pc |-> "pick", saw |-> active, to |-> None, mode |-> mode]]
        /\ UNCHANGED <<turn, acted, redo>>
  /\ UNCHANGED <<sent, attempted, stalled, switch, rec, spent, trouble>>

\* Mutant: what was tried is not remembered.
TriedNothing(s, a) == attempted[s]

Tried(s, a) == attempted[s] \cup {a}

Candidates(s) == {a \in Account \ {job[s].saw} : a \notin attempted[s] /\ cool[a] = "no"}

\* pickNext; switchToAccount is under way.
Picks(s, a) ==
  /\ job[s].pc = "pick" /\ a \in Candidates(s)
  /\ job' = [job EXCEPT ![s].pc = "write", ![s].to = a]
  /\ UNCHANGED <<turns, redo, acted, attempted, stalled, switch, book, rec, spent, trouble>>

\* The switch is on disk, for every session to read ...
SwitchWrites(s) ==
  /\ job[s].pc = "write"
  /\ active' = job[s].to
  /\ job' = [job EXCEPT ![s].pc = "wrote", ![s].saw = None]
  /\ UNCHANGED <<turns, redo, acted, attempted, stalled, last, telling, book, rec, spent, trouble>>

\* ... and its caller hears of it, and has the turn done again.
SwitchTo(s) ==
  /\ job[s].pc = "wrote"
  /\ attempted' = [attempted EXCEPT ![s] = Tried(s, job[s].to)]
  /\ last' = [id |-> job[s].to, by |-> s]
  /\ Go(s, job[s].mode)
  /\ UNCHANGED <<sent, evt, stalled, active, telling, book, rec, spent, trouble>>

\* It fails, which cools the candidate until somebody has looked.
SwitchFails(s) ==
  /\ job[s].pc = "write" /\ Disturb
  /\ attempted' = [attempted EXCEPT ![s] = Tried(s, job[s].to)]
  /\ Cool(job[s].to, "pending")
  /\ job' = [job EXCEPT ![s].pc = "pick", ![s].to = None]
  /\ UNCHANGED <<turns, redo, acted, stalled, switch, rec, spent>>

\* Nobody is left: the session is parked.
StandDown(s) ==
  /\ job[s].pc = "pick" /\ Candidates(s) = {}
  /\ stalled' = stalled \cup {s}
  /\ job' = [job EXCEPT ![s] = IdleJob]
  /\ UNCHANGED <<turns, redo, acted, attempted, switch, book, rec, spent, trouble>>

\* Another session does all this: it cools the account in the slot, switches, and
\* notes the switch once it hears that it was done.
OthersSwitch(a) ==
  /\ Disturb /\ active \in spent /\ a # active /\ cool[a] = "no" /\ telling = None
  /\ active' = a /\ telling' = a
  /\ \E c \in Deadlines : Cool(active, c)
  /\ UNCHANGED <<turns, job, redo, acted, attempted, stalled, last, rec, spent>>

OthersTold ==
  /\ telling # None
  /\ last' = [id |-> telling, by |-> Others] /\ telling' = None
  /\ UNCHANGED <<turns, job, redo, acted, attempted, stalled, active, book, rec, spent, trouble>>

\* onIdle: a turn that has not failed clears the account in the slot - its timer
\* too - and the session's own state.  OpenCode reports in order: only a limit
\* that waits for the session's handler is overtaken.
IdleEvent(s) ==
  /\ "idle" \in evt[s] /\ (evt[s] = {"idle"} \/ job[s].pc # "idle")
  /\ evt' = [evt EXCEPT ![s] = @ \ {"idle"}]
  /\ IF turn[s].st \in {"busy", "done"}
     THEN /\ Clear(active)
          /\ attempted' = [attempted EXCEPT ![s] = {}]
          /\ acted' = acted \ {s}
          /\ stalled' = stalled \ {s}
     ELSE UNCHANGED <<book, attempted, acted, stalled>>
  /\ UNCHANGED <<turn, sent, job, redo, switch, rec, spent, trouble>>

-----------------------------------------------------------------------------
(* announceRecovery, AtOnce of them, and one at a time for an account.       *)

\* A timer goes off: the deadline it was armed for has passed - an estimate, which
\* nothing verifies; a cooldown without a deadline goes on.
TimerFires(a) ==
  /\ a \in armed /\ rec[a].pc = "idle"
  /\ Cardinality({b \in Account : rec[b].pc # "idle"}) < AtOnce
  /\ IF a \in spent THEN Disturb ELSE Calm
  /\ armed' = armed \ {a}
  /\ cool' = [cool EXCEPT ![a] = IF @ = "timed" THEN "no" ELSE @]
  /\ rec' = [rec EXCEPT ![a].pc = "load"]
  /\ UNCHANGED <<turns, job, redo, acted, attempted, stalled, switch, spent>>

\* The library is read: the deadline goes, though it be a newer one.  With sessions
\* parked, the account is switched to ...
Recover(a) ==
  /\ rec[a].pc = "load"
  /\ cool' = [cool EXCEPT ![a] = IF @ = "timed" THEN "no" ELSE @]
  /\ rec' = [rec EXCEPT ![a] = IF stalled = {} THEN IdleRec ELSE [IdleRec EXCEPT !.pc = "switch"]]
  /\ UNCHANGED <<turns, job, redo, acted, attempted, stalled, switch, armed, spent, trouble>>

\* ... or cannot be; the sessions parked by then are resumed one after the other.
RecoverSwitches(a) ==
  /\ rec[a].pc = "switch"
  /\ \/ /\ active' = a
        /\ rec' = [rec EXCEPT ![a] = IF stalled = {} THEN IdleRec
                                     ELSE [IdleRec EXCEPT !.pc = "resume", !.todo = stalled]]
     \/ rec' = [rec EXCEPT ![a] = IdleRec] /\ UNCHANGED active
  /\ UNCHANGED <<turns, job, redo, acted, attempted, stalled, last, telling, book, spent, trouble>>

Resume(s, a) ==
  /\ rec[a].pc = "resume" /\ s \in rec[a].todo
  /\ \A r \in Session : rec[a].cur = r => redo[r] = "idle"
  /\ stalled' = stalled \ {s}
  /\ attempted' = [attempted EXCEPT ![s] = {}]
  /\ acted' = acted \ {s}
  /\ StartRedo(s, FALSE)
  /\ rec' = [rec EXCEPT ![a] = IF @.todo = {s} THEN IdleRec
                               ELSE [pc |-> "resume", todo |-> @.todo \ {s},
                                     cur |-> IF redo[s] = "idle" THEN s ELSE None]]
  /\ UNCHANGED <<sent, evt, job, switch, book, spent, trouble>>

-----------------------------------------------------------------------------
SwitchInit ==
  /\ turn = [s \in Session |-> NoTurn]
  /\ sent = [s \in Session |-> 0]
  /\ evt = [s \in Session |-> {}]
  /\ job = [s \in Session |-> IdleJob]
  /\ redo = [s \in Session |-> "idle"]
  /\ acted = {} /\ stalled = {}
  /\ attempted = [s \in Session |-> {}]
  /\ active \in Account
  /\ last = NoSwitch /\ telling = None
  /\ cool = [a \in Account |-> "no"] /\ armed = {}
  /\ rec = [a \in Account |-> IdleRec]
  /\ spent \in {{}, Account}  \* quota everywhere, or nowhere
  /\ trouble = 0

Handle(s) ==
  \/ Reprompt(s) \/ WaitTimesOut(s)
  \/ StandDown(s) \/ \E a \in Account : Picks(s, a)
  \/ SwitchWrites(s) \/ SwitchTo(s) \/ SwitchFails(s)

SwitchNext ==
  \/ \E s \in Session :
       \/ UserSends(s) \/ Shown(s) \/ Verdict(s)
       \/ \E mode \in {"retry", "error"} : LimitEvent(s, mode)
       \/ IdleEvent(s) \/ Handle(s)
       \/ \E a \in Account : Resume(s, a)
  \/ \E a \in Account :
       \/ Spend(a) \/ QuotaReturns(a) \/ OthersSwitch(a)
       \/ ResolvePending(a)
       \/ TimerFires(a) \/ Recover(a) \/ RecoverSwitches(a)
  \/ OthersTold \/ GuardLapses

SwitchSpec == SwitchInit /\ [][SwitchNext]_switchVars

-----------------------------------------------------------------------------
(* Properties.                                                               *)

\* However many events report one failed turn, and whoever acts on them - the
\* session's handler, a recovery - it is done again once.
RedoneOnce == \A s \in Session : sent[s] <= 1

\* What holds at every moment of the switching.
SwitchInv == SwitchTypeOK /\ RedoneOnce

\* When every account is out of quota the plugin comes to rest: it does not go
\* round the accounts for ever, though pending cooldowns are lifted meanwhile.  That
\* timers do not keep going off too early is part of the bound on disturbances.
ComesToRest == <>[](spent = Account) => <>[][UNCHANGED active]_switchVars

\* Recovery never does a turn again that did not fail (onIdle's comment: a turn
\* the user has resumed is dropped, so that recovery will not re-continue it).
OnlyFailedRedone ==
  [][\A s \in Session :
       sent'[s] > sent[s] /\ job[s].pc # "redo" /\ evt[s] = {} => turn[s].st = "failed"]_switchVars
=============================================================================
