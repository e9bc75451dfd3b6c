---------------------------- MODULE CooldownBook ----------------------------
(***************************************************************************)
(* The master scheduler's cooldown book (src/master/scheduler.ts): which   *)
(* accounts are out of selection, until when, which recovery timer will    *)
(* bring each one back, and what a restarted master finds in its key-value *)
(* store.  An account cools with a KNOWN deadline (`cooldown`), which has  *)
(* a timer and is persisted, or with an UNKNOWN one (`cooldownPending`),   *)
(* which has neither.                                                      *)
(*                                                                         *)
(* Other modules extend this one and use its handlers; BookSpec alone is   *)
(* the book under arbitrary reports, sweeps, crashes and restarts.         *)
(***************************************************************************)
EXTENDS Integers, KvRecord

CONSTANTS
  Account,      \* the anthropic accounts of the pool
  MaxTime,      \* bound: the clock stops here
  Horizon,      \* bound: no deadline or window reset lies beyond this instant
  Slack,        \* IMPLAUSIBLE_COOLDOWN_SLACK_MS
  MaxDelay,     \* longest delay a timer can carry (2^31 - 1 ms in the runtime)
  Reading       \* the sets of usage windows a sweep may read for an account

ASSUME BookAssumption ==
  /\ MaxTime \in Nat
  /\ Horizon \in Nat
  /\ Slack \in Nat
  /\ MaxDelay \in Nat
  /\ \A windows \in Reading : \A w \in windows :
       w.util \in {"ok", "near", "full"} /\ w.at \in 0 .. Horizon

VARIABLES
  now,          \* the master's clock
  up,           \* is the master process running?
  book,         \* the in-memory maps: cooldown, cooldownPending, recoveryTimers
  stored        \* the cooldown record in api.kv

bookVars == <<now, up, book, stored>>

-----------------------------------------------------------------------------
\* 0 stands for "no entry" wherever an instant is optional.
Instant == 1 .. Horizon
Deadline == 0 .. Horizon

\* until: the account's entry in `cooldown`; pending: membership of
\* `cooldownPending`; timer: the instant at which its recovery timer is due.
Entry == [until : Deadline, pending : BOOLEAN, timer : Nat]
NoEntry == [until |-> 0, pending |-> FALSE, timer |-> 0]

\* A window of a reading is a record: util is "ok", "near" (within half a point
\* below the limit) or "full"; at = 0 is a reset that is missing or unparseable.

TypeOK ==
  /\ now \in 1 .. MaxTime + 1
  /\ up \in BOOLEAN
  /\ book \in [Account -> Entry]
  /\ stored \in [Account -> Deadline]

-----------------------------------------------------------------------------
(* Reading usage windows (src/providers.ts).                               *)

\* The latest of a set of instants, 0 when there is none.
Latest(T) ==
  LET top == {t \in T : \A u \in T : u <= t}
  IN  IF top = {} THEN 0 ELSE CHOOSE t \in top : TRUE

LatestWindowReset(windows, at) == Latest({w.at : w \in {x \in windows : x.at > at}})

\* Windows that cannot say when they clear are dropped before the limit is
\* looked for; a window tied with the full one postpones the deadline.
LatestMaxedReset(windows, at) ==
  LET future == {w \in windows : w.at > at}
      tied   == {w \in future : w.util \in {"near", "full"}}
  IN  IF \E w \in future : w.util = "full" THEN Latest({w.at : w \in tied}) ELSE 0

-----------------------------------------------------------------------------
(* Persistence.                                                            *)

\* persistCooldown, when the step called it at all.
PersistCooldown(persists, newBook) ==
  IF persists
  THEN stored' = WriteKvRecord(stored, [a \in Account |->
                   IF newBook[a].until > now THEN newBook[a].until ELSE 0], 0)
  ELSE UNCHANGED stored

-----------------------------------------------------------------------------
(* The book's own helpers, one account at a time.                          *)

\* setTimeout(..., max(0, until - now)): a delay it cannot carry fires at once.
TimerDue(until) ==
  IF until <= now \/ until - now > MaxDelay THEN now ELSE until

\* markCooldown with a deadline.
Marked(until) == [until |-> until, pending |-> FALSE, timer |-> TimerDue(until)]

\* markCooldown without one: a known deadline still ahead wins; the timer of
\* an expired entry is left running.
MarkedUnknown(e) ==
  IF e.until > now THEN e ELSE [until |-> 0, pending |-> TRUE, timer |-> e.timer]

\* clearCooldown.
Cleared(e) == NoEntry

\* clearImplausibleCooldown's judgement: active, and beyond every window.
Implausible(e, windows) ==
  LET reset == LatestWindowReset(windows, now)
  IN  e.until > now /\ reset # 0 /\ e.until > reset + Slack

\* Mutant: a snapshot that shows nothing maxed clears a timed cooldown too.
JudgedTrusting(e, windows) ==
  IF LatestMaxedReset(windows, now) # 0 THEN Marked(LatestMaxedReset(windows, now))
  ELSE Cleared(e)

\* What a sweep's entry for one account does to its cooldown.
Judged(e, windows) ==
  LET maxed == LatestMaxedReset(windows, now)
  IN  IF maxed # 0 THEN Marked(maxed)
      ELSE IF e.pending \/ Implausible(e, windows) THEN Cleared(e) ELSE e

-----------------------------------------------------------------------------
(* Handlers.                                                               *)

ReportWith(a, e, persists) ==
  /\ up
  /\ book' = [book EXCEPT ![a] = e]
  /\ PersistCooldown(persists, book')
  /\ UNCHANGED <<now, up>>

\* A believed rate-limit report carrying an authoritative reset, which may
\* already lie in the past.
ReportTimed(a, until) == ReportWith(a, Marked(until), TRUE)

\* A believed report that carries none.
ReportUnknown(a) ==
  LET e == MarkedUnknown(book[a])
  IN  ReportWith(a, e, e.until # book[a].until)

\* setUsageCache: `snapshot` maps each account the sweep could read to its
\* windows; an account missing from it is left alone.
SetUsageCache(snapshot) ==
  /\ up
  /\ book' = [a \in Account |-> IF a \in DOMAIN snapshot
                                THEN Judged(book[a], snapshot[a]) ELSE book[a]]
  /\ PersistCooldown(\E a \in DOMAIN snapshot :
                        \/ LatestMaxedReset(snapshot[a], now) # 0
                        \/ book'[a].until # book[a].until, book')
  /\ UNCHANGED <<now, up>>

\* The recovery timer's callback.  It runs at its instant or any time later.
Recover(a) ==
  /\ up
  /\ book[a].timer # 0 /\ book[a].timer <= now
  /\ book' = [book EXCEPT ![a].until = 0, ![a].timer = 0]
  /\ PersistCooldown(TRUE, book')
  /\ UNCHANGED <<now, up>>

\* The process dies: only the store survives.
Crash ==
  /\ up
  /\ up' = FALSE
  /\ book' = [a \in Account |-> NoEntry]
  /\ UNCHANGED <<now, stored>>

\* createScheduler: deadlines still ahead come back with a timer, the others
\* are dropped; nothing is written.
Restart ==
  /\ ~up
  /\ up' = TRUE
  /\ book' = [a \in Account |-> IF stored[a] > now THEN Marked(stored[a]) ELSE NoEntry]
  /\ UNCHANGED <<now, stored>>

\* Time passes, for a process that is down as well.
Tick ==
  /\ now <= MaxTime
  /\ now' = now + 1
  /\ UNCHANGED <<up, book, stored>>

-----------------------------------------------------------------------------
BookInit ==
  /\ now = 1
  /\ up = TRUE
  /\ book = [a \in Account |-> NoEntry]
  /\ stored = [a \in Account |-> 0]

BookNext ==
  \/ \E a \in Account :
       \/ \E until \in Instant : ReportTimed(a, until)
       \/ ReportUnknown(a)
       \/ Recover(a)
  \/ \E S \in SUBSET Account :
       \E snapshot \in [S -> Reading] : SetUsageCache(snapshot)
  \/ Crash
  \/ Restart
  \/ Tick

BookSpec == BookInit /\ [][BookNext]_bookVars

-----------------------------------------------------------------------------
(* Properties.                                                             *)

\* At most one of the two encodings of "cooling" holds for an account, so an
\* unknown deadline never shadows a known one (INV-M2).
OneEncoding == \A a \in Account : book[a].pending => book[a].until = 0

\* Every timed cooldown has a recovery timer, due no earlier than its deadline
\* and no later than the deadline or the present: an account neither rejoins
\* while its quota is spent nor stays out for want of a timer.
TimersMatch ==
  \A a \in Account : book[a].until # 0 =>
    /\ book[a].timer >= book[a].until
    /\ book[a].timer <= book[a].until \/ book[a].timer <= now

\* What a restarted master would restore is exactly what this one believes:
\* a crash forgets no deadline still ahead and revives none that was cleared.
StoreAgrees ==
  up => \A a \in Account :
          book[a].until > now \/ stored[a] > now => stored[a] = book[a].until

\* All three: what selection, the timers and a restart rely on at every instant.
BookSound == OneEncoding /\ TimersMatch /\ StoreAgrees

\* A running master never trades a deadline still ahead for an unknown one.
NoDowngrade ==
  [][\A a \in Account :
       (up /\ up' /\ book[a].until > now) => ~book'[a].pending]_bookVars
=============================================================================
