-------------------------- MODULE UsagePollerProofs --------------------------
(***************************************************************************)
(* Theorems about CooldownBook and about UsagePoller, which drives it, for *)
(* any accounts, readings and bounds: first about the book by itself.      *)
(***************************************************************************)
EXTENDS UsagePoller, WellFoundedInduction, TLAPS

USE BookAssumption

\* Writing a record over another leaves exactly the record (src/kvRecord.ts),
\* although the store itself only ever merges.
LEMMA WriteReplaces ==
  ASSUME NEW prev, NEW snapshot, NEW none, NEW k \in DOMAIN prev
  PROVE  WriteKvRecord(prev, snapshot, none)[k] = snapshot[k]
<1>1. CASE snapshot[k] # none
  BY <1>1 DEF WriteKvRecord, KvMerge, Put, Keep, Drop
<1>2. CASE snapshot[k] = none /\ prev[k] # none
  BY <1>2 DEF WriteKvRecord, KvMerge, Put, Keep, Drop
<1>3. CASE snapshot[k] = none /\ prev[k] = none
  BY <1>3 DEF WriteKvRecord, KvMerge, Put, Keep, Drop
<1> QED
  BY <1>1, <1>2, <1>3

\* And the outcome is a record over the same keys.
LEMMA WriteShape ==
  ASSUME NEW prev, NEW snapshot, NEW none
  PROVE  LET next == WriteKvRecord(prev, snapshot, none)
         IN  DOMAIN next = DOMAIN prev /\ next = [k \in DOMAIN prev |-> next[k]]
BY Zenon DEF WriteKvRecord, KvMerge

\* The latest of a set of instants is one of them, or 0.
LEMMA LatestMember ==
  ASSUME NEW T
  PROVE  Latest(T) \in T \cup {0}
<1> DEFINE top == {t \in T : \A u \in T : u <= t}
<1>1. CASE top = {}
  BY <1>1 DEF Latest
<1>2. CASE top # {}
  <2>1. (CHOOSE t \in top : TRUE) \in top
    BY <1>2
  <2> QED
    BY <1>2, <2>1 DEF Latest
<1> QED
  BY <1>1, <1>2

\* A deadline read off a window is within the horizon.
LEMMA MaxedResetType ==
  ASSUME NEW windows \in Reading, NEW at
  PROVE  LatestMaxedReset(windows, at) \in Deadline
<1> DEFINE future == {w \in windows : w.at > at}
           tied == {w \in future : w.util \in {"near", "full"}}
<1>1. \A w \in tied : w.at \in Deadline
  BY DEF Deadline
<1>2. Latest({w.at : w \in tied}) \in Deadline
  <2>1. Latest({w.at : w \in tied}) \in {w.at : w \in tied} \cup {0}
    BY LatestMember
  <2> QED
    BY <1>1, <2>1 DEF Deadline
<1>3. 0 \in Deadline
  BY DEF Deadline
<1> QED
  BY <1>2, <1>3 DEF LatestMaxedReset

\* What each helper makes of an entry is an entry.
LEMMA EntryOps ==
  ASSUME TypeOK, NEW e \in Entry
  PROVE  /\ NoEntry \in Entry
         /\ \A until \in Deadline : Marked(until) \in Entry
         /\ MarkedUnknown(e) \in Entry
         /\ \A windows \in Reading : Judged(e, windows) \in Entry
<1>1. NoEntry \in Entry
  BY DEF NoEntry, Entry, Deadline
<1>2. \A until \in Deadline : Marked(until) \in Entry
  <2> TAKE until \in Deadline
  <2>1. TimerDue(until) \in Nat
    BY DEF TimerDue, TypeOK, Deadline
  <2> QED
    BY <2>1 DEF Marked, Entry
<1>3. MarkedUnknown(e) \in Entry
  BY DEF MarkedUnknown, Entry, Deadline
<1>4. \A windows \in Reading : Judged(e, windows) \in Entry
  BY <1>1, <1>2, MaxedResetType DEF Judged, Cleared
<1> QED
  BY <1>1, <1>2, <1>3, <1>4

\* What a write leaves in the store is the deadlines still ahead.
LEMMA PersistedSnapshot ==
  ASSUME TypeOK, NEW newBook \in [Account -> Entry], PersistCooldown(TRUE, newBook)
  PROVE  /\ stored' \in [Account -> Deadline]
         /\ \A a \in Account :
              stored'[a] = IF newBook[a].until > now THEN newBook[a].until ELSE 0
<1> DEFINE snapshot == [a \in Account |-> IF newBook[a].until > now THEN newBook[a].until ELSE 0]
<1>1. stored' = WriteKvRecord(stored, snapshot, 0)
  BY DEF PersistCooldown
<1>2. DOMAIN stored = Account
  BY DEF TypeOK
<1>3. \A a \in Account : stored'[a] = snapshot[a]
  BY <1>1, <1>2, WriteReplaces
<1>4. DOMAIN stored' = Account /\ stored' = [a \in Account |-> stored'[a]]
  BY <1>1, <1>2, WriteShape
<1>5. \A a \in Account : snapshot[a] \in Deadline
  BY DEF Entry, Deadline
<1> QED
  BY <1>3, <1>4, <1>5
-----------------------------------------------------------------------------
\* A step of BookNext with a given kind, for use by the invariance proofs below:
\* every step leaves the book well typed.
LEMMA StepType ==
  ASSUME TypeOK, [BookNext]_bookVars
  PROVE  TypeOK'
<1>0. \A a \in Account : book[a] \in Entry
  BY DEF TypeOK
<1>1. ASSUME NEW a \in Account, NEW until \in Instant, ReportTimed(a, until)
      PROVE  TypeOK'
  <2>1. Marked(until) \in Entry
    BY <1>0, EntryOps DEF Instant, Deadline
  <2>2. book' \in [Account -> Entry]
    BY <1>1, <2>1 DEF ReportTimed, ReportWith, TypeOK
  <2>3. stored' \in [Account -> Deadline]
    BY <1>1, <2>2, PersistedSnapshot DEF ReportTimed, ReportWith
  <2> QED
    BY <1>1, <2>2, <2>3 DEF ReportTimed, ReportWith, TypeOK
<1>2. ASSUME NEW a \in Account, ReportUnknown(a)
      PROVE  TypeOK'
  <2>1. MarkedUnknown(book[a]) \in Entry
    BY <1>0, EntryOps
  <2>2. book' \in [Account -> Entry]
    BY <1>2, <2>1 DEF ReportUnknown, ReportWith, TypeOK
  <2>3. CASE MarkedUnknown(book[a]).until # book[a].until
    BY <1>2, <2>2, <2>3, PersistedSnapshot DEF ReportUnknown, ReportWith, TypeOK
  <2>4. CASE MarkedUnknown(book[a]).until = book[a].until
    BY <1>2, <2>2, <2>4 DEF ReportUnknown, ReportWith, PersistCooldown, TypeOK
  <2> QED
    BY <2>3, <2>4
<1>3. ASSUME NEW a \in Account, Recover(a)
      PROVE  TypeOK'
  <2>1. book' \in [Account -> Entry]
    BY <1>0, <1>3 DEF Recover, TypeOK, Entry, Deadline
  <2>2. stored' \in [Account -> Deadline]
    BY <1>3, <2>1, PersistedSnapshot DEF Recover
  <2> QED
    BY <1>3, <2>1, <2>2 DEF Recover, TypeOK
<1>4. ASSUME NEW S \in SUBSET Account, NEW snapshot \in [S -> Reading], SetUsageCache(snapshot)
      PROVE  TypeOK'
  <2>1. \A a \in S : Judged(book[a], snapshot[a]) \in Entry
    BY <1>0, EntryOps
  <2>2. book' \in [Account -> Entry]
    BY <1>0, <1>4, <2>1 DEF SetUsageCache
  <2> DEFINE persists == \E a \in DOMAIN snapshot :
                            \/ LatestMaxedReset(snapshot[a], now) # 0
                            \/ book'[a].until # book[a].until
  <2>3. PersistCooldown(persists, book') /\ UNCHANGED <<now, up>>
    BY <1>4 DEF SetUsageCache
  <2> HIDE DEF persists
  <2>4. CASE persists
    <3>1. PersistCooldown(TRUE, book')
      BY <2>3, <2>4 DEF PersistCooldown
    <3> QED
      BY <2>2, <2>3, <3>1, PersistedSnapshot DEF TypeOK
  <2>5. CASE ~persists
    BY <2>2, <2>3, <2>5 DEF PersistCooldown, TypeOK
  <2> QED
    BY <2>4, <2>5
<1>5. CASE Crash
  BY <1>0, <1>5, EntryOps DEF Crash, TypeOK
<1>6. CASE Restart
  <2>1. \A a \in Account : Marked(stored[a]) \in Entry /\ NoEntry \in Entry
    BY <1>0, EntryOps DEF TypeOK
  <2> QED
    BY <1>6, <2>1 DEF Restart, TypeOK
<1>7. CASE Tick
  BY <1>7 DEF Tick, TypeOK
<1>8. CASE UNCHANGED bookVars
  BY <1>8 DEF bookVars, TypeOK
<1> QED
  BY <1>1, <1>2, <1>3, <1>4, <1>5, <1>6, <1>7, <1>8 DEF BookNext

\* Type correctness of the book.
THEOREM TypeCorrect == BookSpec => []TypeOK
<1>1. BookInit => TypeOK
  BY DEF BookInit, TypeOK, NoEntry, Entry, Deadline
<1>2. TypeOK /\ [BookNext]_bookVars => TypeOK'
  BY StepType
<1> QED
  BY <1>1, <1>2, PTL DEF BookSpec
-----------------------------------------------------------------------------
(* The timers, entry by entry.                                             *)

\* At instant `at`, one entry's timer is the one its deadline needs.
EntryOK(e, at) ==
  e.until # 0 => /\ e.timer >= e.until
                 /\ e.timer <= e.until \/ e.timer <= at

\* When no deadline is too far for a timer, each helper keeps the discipline.
LEMMA EntryOpsOK ==
  ASSUME TypeOK, MaxDelay >= Horizon, NEW e \in Entry, EntryOK(e, now)
  PROVE  /\ EntryOK(NoEntry, now)
         /\ \A until \in Deadline : EntryOK(Marked(until), now)
         /\ EntryOK(MarkedUnknown(e), now)
         /\ \A windows \in Reading : EntryOK(Judged(e, windows), now)
<1>1. EntryOK(NoEntry, now)
  BY DEF EntryOK, NoEntry
<1>2. \A until \in Deadline : EntryOK(Marked(until), now)
  <2> TAKE until \in Deadline
  <2>1. TimerDue(until) = IF until <= now THEN now ELSE until
    BY DEF TimerDue, TypeOK, Deadline
  <2> QED
    BY <2>1 DEF EntryOK, Marked, TypeOK, Deadline
<1>3. EntryOK(MarkedUnknown(e), now)
  BY DEF EntryOK, MarkedUnknown
<1>4. \A windows \in Reading : EntryOK(Judged(e, windows), now)
  BY <1>1, <1>2, MaxedResetType DEF Judged, Cleared
<1> QED
  BY <1>1, <1>2, <1>3, <1>4

\* Every step keeps them for every account.
LEMMA StepEntries ==
  ASSUME TypeOK, MaxDelay >= Horizon, \A a \in Account : EntryOK(book[a], now),
         [BookNext]_bookVars
  PROVE  \A a \in Account : EntryOK(book'[a], now')
<1>0. \A a \in Account : book[a] \in Entry
  BY DEF TypeOK
<1> USE DEF TypeOK
<1>1. ASSUME NEW a \in Account, NEW until \in Instant, ReportTimed(a, until)
      PROVE  \A b \in Account : EntryOK(book'[b], now')
  <2>1. EntryOK(Marked(until), now)
    BY <1>0, EntryOpsOK DEF Instant, Deadline
  <2> QED
    BY <1>1, <2>1 DEF ReportTimed, ReportWith
<1>2. ASSUME NEW a \in Account, ReportUnknown(a)
      PROVE  \A b \in Account : EntryOK(book'[b], now')
  <2>1. EntryOK(MarkedUnknown(book[a]), now)
    BY <1>0, EntryOpsOK
  <2> QED
    BY <1>2, <2>1 DEF ReportUnknown, ReportWith
<1>3. ASSUME NEW a \in Account, Recover(a)
      PROVE  \A b \in Account : EntryOK(book'[b], now')
  BY <1>0, <1>3 DEF Recover, EntryOK, Entry
<1>4. ASSUME NEW S \in SUBSET Account, NEW snapshot \in [S -> Reading], SetUsageCache(snapshot)
      PROVE  \A b \in Account : EntryOK(book'[b], now')
  <2>1. \A b \in S : EntryOK(Judged(book[b], snapshot[b]), now)
    BY <1>0, EntryOpsOK
  <2> QED
    BY <1>4, <2>1 DEF SetUsageCache
<1>5. CASE Crash
  BY <1>5 DEF Crash, EntryOK, NoEntry
<1>6. CASE Restart
  <2>1. \A b \in Account : EntryOK(Marked(stored[b]), now) /\ EntryOK(NoEntry, now)
    BY <1>0, EntryOpsOK
  <2> QED
    BY <1>6, <2>1 DEF Restart
<1>7. CASE Tick
  BY <1>0, <1>7 DEF Tick, EntryOK, Entry, Deadline
<1>8. CASE UNCHANGED bookVars
  BY <1>8 DEF bookVars
<1> QED
  BY <1>1, <1>2, <1>3, <1>4, <1>5, <1>6, <1>7, <1>8 DEF BookNext

\* A timed cooldown never lacks a timer, nor has one that fires early, provided
\* that every deadline the pool can be given is within the reach of a timer
\* (scheduleRecovery).
THEOREM TimersAlwaysMatch ==
  ASSUME MaxDelay >= Horizon
  PROVE  BookSpec => []TimersMatch
<1> DEFINE Inv == TypeOK /\ \A a \in Account : EntryOK(book[a], now)
<1>1. BookInit => Inv
  BY DEF BookInit, TypeOK, NoEntry, Entry, Deadline, EntryOK
<1>2. Inv /\ [BookNext]_bookVars => Inv'
  BY StepType, StepEntries
<1>3. Inv => TimersMatch
  BY DEF EntryOK, TimersMatch
<1> QED
  BY <1>1, <1>2, <1>3, PTL DEF BookSpec

-----------------------------------------------------------------------------
(* The store.                                                              *)

\* A write makes the store agree with the book it was given.
LEMMA WriteAgrees ==
  ASSUME TypeOK, UNCHANGED now, book' \in [Account -> Entry], PersistCooldown(TRUE, book')
  PROVE  StoreAgrees'
<1>1. \A a \in Account : stored'[a] = IF book'[a].until > now THEN book'[a].until ELSE 0
  BY PersistedSnapshot
<1>2. \A a \in Account : book'[a].until \in Deadline
  BY DEF Entry
<1> QED
  BY <1>1, <1>2 DEF StoreAgrees, TypeOK, Deadline

\* Every step keeps the store in agreement.
LEMMA StepStore ==
  ASSUME TypeOK, StoreAgrees, [BookNext]_bookVars
  PROVE  StoreAgrees'
<1>0. \A a \in Account : book[a] \in Entry
  BY DEF TypeOK
<1>t. book' \in [Account -> Entry]
  BY StepType DEF TypeOK
<1>1. ASSUME NEW a \in Account, NEW until \in Instant, ReportTimed(a, until)
      PROVE  StoreAgrees'
  BY <1>1, <1>t, WriteAgrees DEF ReportTimed, ReportWith
<1>2. ASSUME NEW a \in Account, ReportUnknown(a)
      PROVE  StoreAgrees'
  <2> DEFINE e == MarkedUnknown(book[a])
  <2>1. CASE e.until # book[a].until
    BY <1>2, <1>t, <2>1, WriteAgrees DEF ReportUnknown, ReportWith
  <2>2. CASE e.until = book[a].until
    <3>1. stored' = stored /\ now' = now /\ up' = up
      BY <1>2, <2>2 DEF ReportUnknown, ReportWith, PersistCooldown
    <3>2. \A b \in Account : book'[b].until = book[b].until
      BY <1>0, <1>2, <2>2 DEF ReportUnknown, ReportWith, TypeOK
    <3> QED
      BY <3>1, <3>2 DEF StoreAgrees
  <2> QED
    BY <2>1, <2>2
<1>3. ASSUME NEW a \in Account, Recover(a)
      PROVE  StoreAgrees'
  BY <1>3, <1>t, WriteAgrees DEF Recover
<1>4. ASSUME NEW S \in SUBSET Account, NEW snapshot \in [S -> Reading], SetUsageCache(snapshot)
      PROVE  StoreAgrees'
  <2> DEFINE persists == \E a \in DOMAIN snapshot :
                            \/ LatestMaxedReset(snapshot[a], now) # 0
                            \/ book'[a].until # book[a].until
  <2>1. PersistCooldown(persists, book') /\ UNCHANGED <<now, up>>
    BY <1>4 DEF SetUsageCache
  <2>2. ~persists => \A b \in Account : book'[b].until = book[b].until
    BY <1>4 DEF SetUsageCache, TypeOK
  <2> HIDE DEF persists
  <2>3. CASE persists
    <3>1. PersistCooldown(TRUE, book')
      BY <2>1, <2>3 DEF PersistCooldown
    <3> QED
      BY <1>t, <2>1, <3>1, WriteAgrees
  <2>4. CASE ~persists
    <3>1. stored' = stored
      BY <2>1, <2>4 DEF PersistCooldown
    <3> QED
      BY <2>1, <2>2, <2>4, <3>1 DEF StoreAgrees
  <2> QED
    BY <2>3, <2>4
<1>5. CASE Crash
  BY <1>5 DEF Crash, StoreAgrees
<1>6. CASE Restart
  <2>1. \A a \in Account : /\ stored[a] > now => book'[a].until = stored[a]
                           /\ ~(stored[a] > now) => book'[a].until = 0
    BY <1>6 DEF Restart, Marked, NoEntry
  <2> QED
    BY <1>6, <2>1 DEF Restart, StoreAgrees, TypeOK, Deadline
<1>7. CASE Tick
  BY <1>0, <1>7 DEF Tick, StoreAgrees, TypeOK, Entry, Deadline
<1>8. CASE UNCHANGED bookVars
  BY <1>8 DEF bookVars, StoreAgrees
<1> QED
  BY <1>1, <1>2, <1>3, <1>4, <1>5, <1>6, <1>7, <1>8 DEF BookNext

\* What a restarted master would restore is what the running one believes, at
\* every moment.
THEOREM StoreAlwaysAgrees == BookSpec => []StoreAgrees
<1> DEFINE Inv == TypeOK /\ StoreAgrees
<1>1. BookInit => Inv
  BY DEF BookInit, TypeOK, NoEntry, Entry, Deadline, StoreAgrees
<1>2. Inv /\ [BookNext]_bookVars => Inv'
  BY StepType, StepStore
<1> QED
  BY <1>1, <1>2, PTL DEF BookSpec

-----------------------------------------------------------------------------
(* The two encodings.                                                      *)

\* No entry is pending and timed at once; one whose deadline is ahead is left
\* unpending by every step of a running master.
Single(e) == e.pending => e.until = 0
Undowngraded(e, f) == e.until > now => ~f.pending

LEMMA SingleOps ==
  ASSUME NEW e \in Entry, Single(e)
  PROVE  /\ Single(NoEntry) /\ Undowngraded(e, NoEntry)
         /\ \A until \in Deadline : Single(Marked(until)) /\ Undowngraded(e, Marked(until))
         /\ Single(MarkedUnknown(e))
         /\ now \in Nat => Undowngraded(e, MarkedUnknown(e)) /\ Undowngraded(e, e)
<1>1. Single(NoEntry) /\ Undowngraded(e, NoEntry)
  BY DEF Single, Undowngraded, NoEntry
<1>2. \A until \in Deadline : Single(Marked(until)) /\ Undowngraded(e, Marked(until))
  BY DEF Single, Undowngraded, Marked
<1>3. Single(MarkedUnknown(e))
  BY DEF Single, MarkedUnknown
<1>4. now \in Nat => Undowngraded(e, e)
  BY DEF Single, Undowngraded, Entry, Deadline
<1>5. now \in Nat => Undowngraded(e, MarkedUnknown(e))
  BY <1>4 DEF Undowngraded, MarkedUnknown
<1> QED
  BY <1>1, <1>2, <1>3, <1>4, <1>5

\* Every step keeps the encodings apart and downgrades nothing.
LEMMA StepEncodings ==
  ASSUME TypeOK, OneEncoding, [BookNext]_bookVars
  PROVE  /\ OneEncoding'
         /\ up /\ up' => \A a \in Account : Undowngraded(book[a], book'[a])
<1>0. /\ now \in Nat
      /\ \A a \in Account : book[a] \in Entry /\ Single(book[a])
  BY DEF TypeOK, OneEncoding, Single
<1>u. \A a \in Account : Undowngraded(book[a], book[a])
  BY <1>0, SingleOps
<1>s. SUFFICES \A a \in Account : /\ Single(book'[a])
                                  /\ up /\ up' => Undowngraded(book[a], book'[a])
  BY DEF OneEncoding, Single
<1> DEFINE Goal == \A a \in Account : /\ Single(book'[a])
                                      /\ up /\ up' => Undowngraded(book[a], book'[a])
<1>1. ASSUME NEW a \in Account, NEW until \in Instant, ReportTimed(a, until)
      PROVE  Goal
  <2>1. Single(Marked(until)) /\ Undowngraded(book[a], Marked(until))
    BY <1>0, SingleOps DEF Instant, Deadline
  <2> QED
    BY <1>0, <1>u, <1>1, <2>1 DEF ReportTimed, ReportWith, TypeOK
<1>2. ASSUME NEW a \in Account, ReportUnknown(a)
      PROVE  Goal
  <2>1. Single(MarkedUnknown(book[a])) /\ Undowngraded(book[a], MarkedUnknown(book[a]))
    BY <1>0, SingleOps
  <2> QED
    BY <1>0, <1>u, <1>2, <2>1 DEF ReportUnknown, ReportWith, TypeOK
<1>3. ASSUME NEW a \in Account, Recover(a)
      PROVE  Goal
  <2>1. \A b \in Account : book'[b].pending = book[b].pending
    BY <1>0, <1>3 DEF Recover, TypeOK, Entry
  <2>2. \A b \in Account : book'[b].until \in {0, book[b].until}
    BY <1>0, <1>3 DEF Recover, TypeOK, Entry
  <2> QED
    BY <1>0, <1>u, <2>1, <2>2 DEF Single, Undowngraded
<1>4. ASSUME NEW S \in SUBSET Account, NEW snapshot \in [S -> Reading], SetUsageCache(snapshot)
      PROVE  Goal
  <2>1. ASSUME NEW b \in S
        PROVE  /\ Single(Judged(book[b], snapshot[b]))
               /\ Undowngraded(book[b], Judged(book[b], snapshot[b]))
    <3>1. LatestMaxedReset(snapshot[b], now) \in Deadline
      BY <1>0, MaxedResetType
    <3> QED
      BY <1>0, <1>u, <3>1, SingleOps DEF Judged, Cleared
  <2> QED
    BY <1>0, <1>u, <1>4, <2>1 DEF SetUsageCache
<1>5. CASE Crash
  BY <1>0, <1>5, SingleOps DEF Crash
<1>6. CASE Restart
  <2>1. \A b \in Account : Single(Marked(stored[b])) /\ Single(NoEntry)
    BY DEF Single, Marked, NoEntry
  <2> QED
    BY <1>6, <2>1 DEF Restart
<1>7. CASE Tick
  BY <1>0, <1>u, <1>7 DEF Tick
<1>8. CASE UNCHANGED bookVars
  BY <1>0, <1>u, <1>8 DEF bookVars
<1> QED
  BY <1>1, <1>2, <1>3, <1>4, <1>5, <1>6, <1>7, <1>8 DEF BookNext

\* An account is never cooling in both encodings at once (INV-M2).
THEOREM EncodingsStayApart == BookSpec => []OneEncoding
<1> DEFINE Inv == TypeOK /\ OneEncoding
<1>1. BookInit => Inv
  BY DEF BookInit, TypeOK, NoEntry, Entry, Deadline, OneEncoding
<1>2. Inv /\ [BookNext]_bookVars => Inv'
  BY StepType, StepEncodings
<1> QED
  BY <1>1, <1>2, PTL DEF BookSpec

\* A running master never trades a deadline still ahead for an unknown one
\* (markCooldown's guard, and every other writer of the book).
THEOREM DeadlinesAreNotDowngraded == BookSpec => NoDowngrade
<1> DEFINE Kept == \A a \in Account : (up /\ up' /\ book[a].until > now) => ~book'[a].pending
<1>1. TypeOK /\ OneEncoding /\ [BookNext]_bookVars => [Kept]_bookVars
  BY StepEncodings DEF Undowngraded
<1> QED
  BY <1>1, TypeCorrect, EncodingsStayApart, PTL DEF BookSpec, NoDowngrade

-----------------------------------------------------------------------------
(***************************************************************************)
(* The poller drives the book through the book's own handlers: whatever is *)
(* proved of the book holds while sweeps, reports and the vendor's windows *)
(* interleave.  With one quota window an account is moreover never back    *)
(* before its reset.                                                       *)
(***************************************************************************)

\* Only a window that is open can be spent.
Window == {q \in [at : Deadline, spent : BOOLEAN] : q.spent => q.at # 0}
Quota == [WindowName -> Window]
Sweep == [on : BOOLEAN, todo : SUBSET Account,
          read : UNION {[S -> Reading] : S \in SUBSET Account}]

\* What a step of the poller needs to know to be one of the book's.
PollTypes == quota \in [Account -> Quota] /\ sweep \in Sweep

-----------------------------------------------------------------------------
\* A reading joins the ones a sweep has: still readings of accounts.
LEMMA ReadingAdded ==
  ASSUME PollTypes, NEW a \in Account
  PROVE  [sweep EXCEPT !.todo = @ \ {a},
                       !.read = [b \in DOMAIN @ \cup {a} |-> IF b = a THEN UsageOf(a) ELSE @[b]]]
           \in Sweep
<1> DEFINE r == sweep.read
           f == [b \in DOMAIN r \cup {a} |-> IF b = a THEN UsageOf(a) ELSE r[b]]
<1>1. UsageOf(a) \in Reading
  BY PollerAssumption DEF PollTypes, Quota, Window, UsageOf, Deadline
<1>2. PICK S \in SUBSET Account : r \in [S -> Reading]
  BY DEF PollTypes, Sweep
<1>3. f \in [S \cup {a} -> Reading]
  BY <1>1, <1>2
<1>4. S \cup {a} \in SUBSET Account
  OBVIOUS
<1>5. f \in UNION {[T -> Reading] : T \in SUBSET Account}
  BY <1>3, <1>4
<1> HIDE DEF f
<1>6. [sweep EXCEPT !.todo = @ \ {a}, !.read = f] \in Sweep
  BY <1>5 DEF PollTypes, Sweep
<1> QED
  BY <1>6 DEF f

\* An empty sweep is a sweep.
LEMMA IdleIsSweep == Idle \in Sweep
<1>1. [a \in {} |-> {}] \in [{} -> Reading]
  OBVIOUS
<1>2. {} \in SUBSET Account
  OBVIOUS
<1>3. [a \in {} |-> {}] \in UNION {[S -> Reading] : S \in SUBSET Account}
  BY <1>1, <1>2
<1> QED
  BY <1>3 DEF Idle, Sweep

\* An open window may be spent.
LEMMA SpentIsWindow ==
  ASSUME NEW q \in Window, q.at # 0
  PROVE  [q EXCEPT !.spent = TRUE] \in Window
BY DEF Window

\* The windows keep their type, whatever opens, fills and closes them.
LEMMA PollTypesStep ==
  ASSUME TypeOK, PollTypes, [PollerNext]_pollerVars
  PROVE  PollTypes'
<1>0. now \in Nat /\ quota \in [Account -> Quota] /\ sweep \in Sweep
  BY DEF TypeOK, PollTypes
<1>1. CASE StartSweep
  <2>1. sweep' \in Sweep
    BY <1>1, IdleIsSweep DEF StartSweep, Sweep
  <2> QED
    BY <1>0, <1>1, <2>1 DEF StartSweep, PollTypes
<1>2. CASE HandOver
  BY <1>0, <1>2, IdleIsSweep DEF HandOver, PollTypes
<1>3. ASSUME NEW a \in Account, PollStep(a)
      PROVE  PollTypes'
  <2>1. CASE ReadUsage(a)
    <3>1. sweep' \in Sweep
      BY <2>1, ReadingAdded DEF ReadUsage
    <3> QED
      BY <1>0, <2>1, <3>1 DEF ReadUsage, PollTypes
  <2>2. CASE ReadFails(a)
    <3>1. sweep' \in Sweep
      BY <1>0, <2>2 DEF ReadFails, Sweep
    <3> QED
      BY <1>0, <2>2, <3>1 DEF ReadFails, PollTypes
  <2>3. CASE ReadLimited(a)
    <3>1. sweep' \in Sweep
      BY <1>0, <2>3 DEF ReadLimited, Sweep
    <3> QED
      BY <1>0, <2>3, <3>1 DEF ReadLimited, PollTypes
  <2> QED
    BY <1>3, <2>1, <2>2, <2>3 DEF PollStep
<1>4. ASSUME NEW a \in Account, NEW w \in WindowName, Open(a, w)
      PROVE  PollTypes'
  <2>1. now + Length[w] \in Deadline
    BY <1>0, <1>4, PollerAssumption, BookAssumption DEF Open, Deadline
  <2>2. [quota[a][w] EXCEPT !.at = now + Length[w]] \in Window
    <3>1. now + Length[w] # 0
      BY <1>0, PollerAssumption, BookAssumption
    <3> QED
      BY <1>0, <1>4, <2>1, <3>1 DEF Open, Closed, Quota, Window
  <2>3. [quota EXCEPT ![a][w] = [quota[a][w] EXCEPT !.at = now + Length[w]]] \in [Account -> Quota]
    BY <1>0, <2>2 DEF Quota
  <2> QED
    BY <1>0, <1>4, <2>3 DEF Open, PollTypes
<1>5. ASSUME NEW a \in Account, NEW w \in WindowName, Spend(a, w)
      PROVE  PollTypes'
  <2>1. [quota[a][w] EXCEPT !.spent = TRUE] \in Window
    <3>1. quota[a][w] \in Window /\ quota[a][w].at # 0
      BY <1>0, <1>5 DEF Spend, Quota
    <3> QED
      BY <3>1, SpentIsWindow
  <2>2. [quota EXCEPT ![a][w] = [quota[a][w] EXCEPT !.spent = TRUE]] \in [Account -> Quota]
    BY <1>0, <2>1 DEF Quota
  <2> QED
    BY <1>0, <1>5, <2>2 DEF Spend, PollTypes
<1>6. ASSUME NEW a \in Account, NEW w \in WindowName, ReportSpent(a, w)
      PROVE  PollTypes'
  BY <1>0, <1>6 DEF ReportSpent, PollTypes
<1>7. ASSUME NEW a \in Account, NEW until \in Instant, Misreport(a, until)
      PROVE  PollTypes'
  BY <1>0, <1>7 DEF Misreport, PollTypes
<1>8. ASSUME NEW a \in Account, ReportBare(a) \/ RecoverAccount(a)
      PROVE  PollTypes'
  BY <1>0, <1>8 DEF ReportBare, RecoverAccount, pollVars, PollTypes
<1>9. ASSUME NEW a \in Account, NEW value \in BOOLEAN, Flag(a, value)
      PROVE  PollTypes'
  BY <1>0, <1>9 DEF Flag, PollTypes
<1>10. CASE CrashMaster
  BY <1>0, <1>10, IdleIsSweep DEF CrashMaster, PollTypes
<1>11. CASE RestartMaster
  BY <1>0, <1>11 DEF RestartMaster, pollVars, PollTypes
<1>12. CASE Pass
  <2>1. Closed \in Window
    BY BookAssumption DEF Closed, Deadline, Window
  <2>2. \A a \in Account, w \in WindowName : quota[a][w] \in Window
    BY <1>0 DEF Quota
  <2>3. quota' \in [Account -> Quota]
    BY <1>12, <2>1, <2>2 DEF Pass, Quota
  <2> QED
    BY <1>0, <1>12, <2>3 DEF Pass, PollTypes
<1>13. CASE UNCHANGED pollerVars
  BY <1>0, <1>13 DEF pollerVars, pollVars, PollTypes
<1> QED
  BY <1>1, <1>2, <1>3, <1>4, <1>5, <1>6, <1>7, <1>8, <1>9, <1>10, <1>11, <1>12, <1>13
     DEF PollerNext

\* Every step of the poller is a step of the book, or none of its business.
LEMMA PollerStepIsBookStep ==
  ASSUME TypeOK, PollTypes, [PollerNext]_pollerVars
  PROVE  [BookNext]_bookVars
<1>1. CASE HandOver
  <2>1. PICK S \in SUBSET Account : sweep.read \in [S -> Reading]
    BY DEF PollTypes, Sweep
  <2> QED
    BY <1>1, <2>1 DEF HandOver, BookNext
<1>2. CASE StartSweep \/ \E a \in Account : PollStep(a)
  BY <1>2 DEF StartSweep, PollStep, ReadUsage, ReadFails, ReadLimited
<1>3. ASSUME NEW a \in Account, NEW w \in WindowName, Open(a, w) \/ Spend(a, w)
      PROVE  [BookNext]_bookVars
  BY <1>3 DEF Open, Spend
<1>4. ASSUME NEW a \in Account, NEW w \in WindowName, ReportSpent(a, w)
      PROVE  [BookNext]_bookVars
  <2>1. quota[a][w] \in Window
    BY DEF PollTypes, Quota
  <2>2. quota[a][w].at \in Instant
    BY <1>4, <2>1, BookAssumption DEF ReportSpent, Window, Instant, Deadline
  <2> QED
    BY <1>4, <2>2 DEF ReportSpent, BookNext
<1>5. ASSUME NEW a \in Account, NEW until \in Instant, Misreport(a, until)
      PROVE  [BookNext]_bookVars
  BY <1>5 DEF Misreport, BookNext
<1>6. ASSUME NEW a \in Account, ReportBare(a) \/ RecoverAccount(a)
      PROVE  [BookNext]_bookVars
  BY <1>6 DEF ReportBare, RecoverAccount, BookNext
<1>7. ASSUME NEW a \in Account, NEW value \in BOOLEAN, Flag(a, value)
      PROVE  [BookNext]_bookVars
  BY <1>7 DEF Flag
<1>8. CASE CrashMaster \/ RestartMaster \/ Pass
  BY <1>8 DEF CrashMaster, RestartMaster, Pass, BookNext
<1>9. CASE UNCHANGED pollerVars
  BY <1>9 DEF pollerVars
<1> QED
  BY <1>1, <1>2, <1>3, <1>4, <1>5, <1>6, <1>7, <1>8, <1>9 DEF PollerNext

LEMMA PollTypesInit == PollerInit => PollTypes
<1> SUFFICES ASSUME PollerInit PROVE PollTypes
  OBVIOUS
<1>1. Closed \in Window
  BY BookAssumption DEF Closed, Deadline, Window
<1>2. quota \in [Account -> Quota]
  BY <1>1 DEF PollerInit, Quota
<1> QED
  BY <1>2, IdleIsSweep DEF PollerInit, PollTypes

\* What the sweep has read are readings of accounts, and every step of the
\* poller is one the book allows: the poller implements the book.
THEOREM PollerImplementsBook == PollerSpec => BookSpec
<1>1. PollerInit => BookInit
  BY DEF PollerInit
<1>2. BookInit => TypeOK
  BY BookAssumption DEF BookInit, TypeOK, NoEntry, Entry, Deadline
<1>3. TypeOK /\ PollTypes /\ [PollerNext]_pollerVars => TypeOK' /\ PollTypes' /\ [BookNext]_bookVars
  BY PollerStepIsBookStep, PollTypesStep, StepType
<1> QED
  BY <1>1, <1>2, <1>3, PollTypesInit, PTL DEF PollerSpec, BookSpec

\* So everything the book promises holds under polling, reports and crashes, for
\* any accounts, windows and bounds - provided a timer can carry every delay.
THEOREM BookSoundUnderPolling ==
  ASSUME MaxDelay >= Horizon
  PROVE  PollerSpec => []BookSound
<1>1. BookSpec => []TimersMatch
  BY TimersAlwaysMatch
<1>2. OneEncoding /\ TimersMatch /\ StoreAgrees => BookSound
  BY DEF BookSound
<1> QED
  BY <1>1, <1>2, PollerImplementsBook, EncodingsStayApart, StoreAlwaysAgrees, PTL

\* A sweep or a deadline-less report never trades a deadline still ahead for an
\* unknown one.
THEOREM NoDowngradeUnderPolling == PollerSpec => NoDowngrade
  BY PollerImplementsBook, DeadlinesAreNotDowngraded, PTL
-----------------------------------------------------------------------------
(* What an account is owed.                                                *)

\* What PollerTypeOK says beyond the types the refinement needs.
RestOfTypes ==
  /\ flagged \in [Account -> BOOLEAN]
  /\ backoff \in [Account -> 0 .. MaxTime + 1]
  /\ sweep.todo \cap DOMAIN sweep.read = {}
  /\ owed \in [Account -> Deadline]

LEMMA TypesTogether ==
  ASSUME TypeOK, PollTypes, RestOfTypes
  PROVE  PollerTypeOK
<1>1. quota \in [Account -> [WindowName -> [at : Deadline, spent : BOOLEAN]]]
  BY DEF PollTypes, Quota, Window
<1>2. sweep.on \in BOOLEAN /\ sweep.todo \subseteq Account
  BY DEF PollTypes, Sweep
<1>3. PICK S \in SUBSET Account : sweep.read \in [S -> Reading]
  BY DEF PollTypes, Sweep
<1>4. DOMAIN sweep.read \subseteq Account
  BY <1>3
<1> QED
  BY <1>1, <1>2, <1>4 DEF RestOfTypes, PollerTypeOK

LEMMA RestOfTypesStep ==
  ASSUME TypeOK, PollTypes, RestOfTypes, [PollerNext]_pollerVars
  PROVE  RestOfTypes'
<1> USE BookAssumption DEF RestOfTypes
<1>0. now \in 1 .. MaxTime + 1 /\ sweep \in Sweep
  BY DEF TypeOK, PollTypes
<1>1. CASE StartSweep
  BY <1>1 DEF StartSweep, Idle
<1>2. CASE HandOver
  <2>1. owed' \in [Account -> Deadline]
    BY <1>2 DEF HandOver, Owes, Deadline
  <2> QED
    BY <1>2, <2>1 DEF HandOver, Idle
<1>3. ASSUME NEW a \in Account, ReadUsage(a)
      PROVE  RestOfTypes'
  <2>1. sweep'.todo = sweep.todo \ {a} /\ DOMAIN sweep'.read = DOMAIN sweep.read \cup {a}
    BY <1>0, <1>3 DEF ReadUsage, Sweep
  <2> QED
    BY <1>3, <2>1 DEF ReadUsage
<1>4. ASSUME NEW a \in Account, ReadFails(a)
      PROVE  RestOfTypes'
  BY <1>0, <1>4 DEF ReadFails, Sweep
<1>5. ASSUME NEW a \in Account, ReadLimited(a)
      PROVE  RestOfTypes'
  <2>1. backoff' \in [Account -> 0 .. MaxTime + 1]
    BY <1>0, <1>5, PollerAssumption DEF ReadLimited
  <2> QED
    BY <1>0, <1>5, <2>1 DEF ReadLimited, Sweep
<1>6. ASSUME NEW a \in Account, NEW w \in WindowName, Open(a, w) \/ Spend(a, w)
      PROVE  RestOfTypes'
  BY <1>6 DEF Open, Spend
<1>7. ASSUME NEW a \in Account, NEW w \in WindowName, ReportSpent(a, w)
      PROVE  RestOfTypes'
  <2>1. quota[a][w].at \in Deadline
    BY DEF PollTypes, Quota, Window
  <2> QED
    BY <1>7, <2>1 DEF ReportSpent
<1>8. ASSUME NEW a \in Account, NEW until \in Instant, Misreport(a, until)
      PROVE  RestOfTypes'
  BY <1>8 DEF Misreport, Deadline
<1>9. ASSUME NEW a \in Account, NEW value \in BOOLEAN, Flag(a, value)
      PROVE  RestOfTypes'
  BY <1>9 DEF Flag
<1>10. CASE CrashMaster
  BY <1>10 DEF CrashMaster, Idle
<1>11. ASSUME NEW a \in Account, ReportBare(a) \/ RecoverAccount(a)
       PROVE  RestOfTypes'
  BY <1>11 DEF ReportBare, RecoverAccount, pollVars
<1>12. CASE RestartMaster \/ Pass \/ UNCHANGED pollerVars
  BY <1>12 DEF RestartMaster, Pass, pollerVars, pollVars
<1> QED
  BY <1>1, <1>2, <1>3, <1>4, <1>5, <1>6, <1>7, <1>8, <1>9, <1>10, <1>11, <1>12
     DEF PollerNext, PollStep

\* The deadline that keeps the account out - of a stopped master, the store's.
Due(a) == IF up THEN book[a].until ELSE stored[a]

\* A reading of an account shows nothing spent but what still is.
ReadingTrue(a) ==
  a \in DOMAIN sweep.read =>
    \A x \in sweep.read[a] : x.util = "full" /\ x.at > now =>
      \E w \in WindowName : quota[a][w].spent /\ quota[a][w].at = x.at

\* A deadline that is the end of a window known to be spent, to the sweep as well if
\* it has read the account.
Known(a, until) ==
  /\ \E w \in WindowName : quota[a][w].spent /\ quota[a][w].at = until
  /\ a \in DOMAIN sweep.read => \E x \in sweep.read[a] : x.util = "full" /\ x.at = until

\* What the account is owed is what keeps it out, or less than a spent window does.
Paid(a) ==
  owed[a] > now =>
    /\ Due(a) >= owed[a]
    /\ Due(a) = owed[a] \/ Known(a, Due(a))

Follows(a) ==
  /\ \A x \in (IF a \in DOMAIN sweep.read THEN sweep.read[a] ELSE {}) :
       x.util \in {"ok", "full"} /\ x.at \in Deadline
  /\ ReadingTrue(a)
  /\ Paid(a)

AllFollow == \A a \in Account : Follows(a)

\* The latest of a set of deadlines is after none of them.
LEMMA LatestIsLast ==
  ASSUME NEW T \in SUBSET Deadline, NEW t \in T
  PROVE  t <= Latest(T)
<1> DEFINE Ahead == {Horizon - u : u \in T}
           top == {u \in T : \A v \in T : v <= u}
<1>1. T \subseteq Nat /\ Horizon \in Nat /\ \A u \in T : Horizon - u \in Nat
  BY BookAssumption DEF Deadline
<1>2. Ahead \in SUBSET Nat /\ Horizon - t \in Ahead
  BY <1>1
<1>3. PICK n \in Ahead : \A m \in Ahead : n <= m
  <2> DEFINE Less == {ss \in Nat \X Nat : ss[1] < ss[2]}
  <2>1. IsWellFoundedOn(Less, Nat)
    BY NatLessThanWellFounded DEF OpToRel
  <2>2. Ahead \subseteq Nat /\ Ahead # {}
    BY <1>2
  <2> HIDE DEF Ahead
  <2>3. PICK n \in Ahead : \A m \in Ahead : <<m, n>> \notin Less
    <3> HIDE DEF Less
    <3> QED
      BY <2>1, <2>2, WFMin
  <2>4. \A m \in Ahead : ~(m < n)
    BY <2>2, <2>3
  <2> QED
    BY <2>2, <2>3, <2>4
<1>4. PICK u \in T : n = Horizon - u
  BY <1>3
<1>5. u \in top
  <2>1. ASSUME NEW v \in T PROVE v <= u
    <3>1. Horizon - v \in Ahead
      OBVIOUS
    <3>2. n <= Horizon - v
      BY <1>3, <3>1
    <3>3. v \in Nat /\ u \in Nat /\ Horizon \in Nat
      BY <1>1
    <3> QED
      BY <1>4, <3>2, <3>3
  <2> QED
    BY <2>1
<1>6. (CHOOSE v \in top : TRUE) \in top
  BY <1>5
<1> QED
  BY <1>5, <1>6 DEF Latest

\* What a sweep makes of a deadline that its reading does not lag behind: nothing, or
\* a later one that the reading shows.
LEMMA JudgedKeeps ==
  ASSUME TypeOK, NEW e \in Entry, NEW windows \in Reading, NEW until \in Deadline,
         until > now, e.until >= until, ~e.pending,
         \A x \in windows : x.util \in {"ok", "full"},
         ~Lags(windows, until),
         e.until = until \/ \E x \in windows : x.util = "full" /\ x.at = e.until
  PROVE  LET kept == Judged(e, windows).until
         IN  /\ kept >= until
             /\ kept = until \/ \E x \in windows : x.util = "full" /\ x.at = kept
<1> DEFINE future == {x \in windows : x.at > now}
           tied == {x \in future : x.util \in {"near", "full"}}
           maxed == LatestMaxedReset(windows, now)
           reset == LatestWindowReset(windows, now)
           kept == Judged(e, windows).until
<1>0. /\ \A x \in windows : x.at \in Deadline /\ x.at \in Nat
      /\ now \in Nat /\ until \in Nat /\ e.until \in Nat /\ Slack \in Nat
  BY BookAssumption DEF Deadline, TypeOK, Entry
<1>1. {x.at : x \in future} \in SUBSET Deadline /\ {x.at : x \in tied} \in SUBSET Deadline
  BY <1>0
<1>2. CASE \E x \in future : x.util = "full"
  <2>1. PICK x \in future : x.util = "full"
    BY <1>2
  <2>2. PICK y \in windows : y.util = "full" /\ y.at >= until
    BY <1>0, <2>1 DEF Lags
  <2>3. y \in tied
    BY <1>0, <2>2
  <2>4. maxed = Latest({z.at : z \in tied})
    BY <1>2 DEF LatestMaxedReset
  <2>5. maxed >= y.at
    BY <1>1, <2>3, <2>4, LatestIsLast
  <2>6. maxed \in {z.at : z \in tied} \cup {0}
    BY <2>4, LatestMember
  <2>7. maxed \in Nat /\ maxed >= until /\ maxed # 0
    BY <1>0, <2>2, <2>5, <2>6
  <2>8. PICK z \in tied : z.at = maxed
    BY <2>6, <2>7
  <2>9. z \in windows /\ z.util = "full"
    BY <2>8
  <2>10. kept = maxed
    BY <2>7 DEF Judged, Marked
  <2> QED
    BY <2>7, <2>8, <2>9, <2>10
<1>3. CASE ~\E x \in future : x.util = "full"
  <2>1. maxed = 0
    BY <1>3 DEF LatestMaxedReset
  <2>2. e.until = until
    BY <1>0, <1>3
  <2>3. ~Implausible(e, windows)
    <3>1. SUFFICES ASSUME reset # 0, e.until > reset + Slack PROVE FALSE
      BY DEF Implausible
    <3>2. reset \in {z.at : z \in future}
      BY <3>1, LatestMember DEF LatestWindowReset
    <3>3. PICK z \in windows : z.at > now
      BY <3>2
    <3>4. PICK y \in windows : y.at >= until
      BY <1>0, <3>3 DEF Lags
    <3>5. y \in future
      BY <1>0, <3>4
    <3>6. y.at <= reset
      BY <1>1, <3>5, LatestIsLast DEF LatestWindowReset
    <3> QED
      BY <1>0, <2>2, <3>1, <3>2, <3>4, <3>6
  <2>4. Judged(e, windows) = e
    BY <2>1, <2>3 DEF Judged
  <2> QED
    BY <2>2, <2>4
<1> QED
  BY <1>2, <1>3

\* Every step of the poller keeps what is owed: the ways a deadline could get lost -
\* a stale sweep, a timer that fires early, a write that is skipped - are excluded by
\* what the reading knows, by TimersMatch and by StoreAgrees.
LEMMA FollowStep ==
  ASSUME TypeOK, PollTypes, RestOfTypes, BookSound, BookSound', AllFollow,
         [PollerNext]_pollerVars
  PROVE  AllFollow'
<1>0. /\ now \in Nat /\ now' \in Nat /\ now <= now'
      /\ \A a \in Account : book[a] \in Entry
      /\ \A a \in Account : quota[a] \in Quota
      /\ \A a \in Account : \A w \in WindowName : quota[a][w] \in Window /\ quota[a][w].at \in Deadline
      /\ \A a \in Account : owed[a] \in Deadline /\ stored[a] \in Deadline
      /\ \A a \in Account : Due(a) \in Deadline
      /\ up \in BOOLEAN
      /\ \A d \in Deadline : d \in Nat
  <2>1. TypeOK'
    BY StepType, PollerStepIsBookStep
  <2>2. now' = now \/ now' = now + 1
    BY PollerStepIsBookStep
       DEF BookNext, bookVars, SetUsageCache, ReportTimed, ReportUnknown, ReportWith, Recover,
           Crash, Restart, Tick
  <2>3. now \in Nat /\ now' \in Nat
    BY <2>1, BookAssumption DEF TypeOK
  <2>4. \A a \in Account : quota[a] \in Quota
    BY DEF PollTypes
  <2>5. \A a \in Account : \A w \in WindowName : quota[a][w] \in Window /\ quota[a][w].at \in Deadline
    BY <2>4 DEF Quota, Window
  <2>6. \A a \in Account : book[a] \in Entry /\ owed[a] \in Deadline /\ stored[a] \in Deadline
    BY DEF TypeOK, RestOfTypes
  <2>7. \A a \in Account : Due(a) \in Deadline
    BY <2>6 DEF Due, Entry
  <2>8. \A d \in Deadline : d \in Nat
    BY BookAssumption DEF Deadline
  <2> QED
    BY <2>2, <2>3, <2>4, <2>5, <2>6, <2>7, <2>8 DEF TypeOK
<1>f. \A a \in Account : Follows(a)
  BY DEF AllFollow
<1> SUFFICES ASSUME NEW a \in Account PROVE Follows(a)'
  BY DEF AllFollow
<1>a. Follows(a)
  BY <1>f
\* A step that leaves the account's part of all this as it is.
<1>u. ASSUME now' = now, Due(a)' = Due(a), sweep'.read = sweep.read, quota'[a] = quota[a],
             owed'[a] = owed[a]
      PROVE  Follows(a)'
  BY <1>a, <1>u DEF Follows, ReadingTrue, Paid, Known
\* A step that forgets what a sweep has read.
<1>e. ASSUME now' = now, Due(a)' = Due(a), DOMAIN sweep'.read = {}, quota'[a] = quota[a],
             owed'[a] = owed[a]
      PROVE  Follows(a)'
  BY <1>a, <1>e DEF Follows, ReadingTrue, Paid, Known
<1>1. CASE StartSweep
  <2>1. DOMAIN sweep'.read = {} /\ UNCHANGED <<now, up, book, stored, quota, owed>>
    BY <1>1 DEF StartSweep, Idle, bookVars
  <2> QED
    BY <1>e, <2>1 DEF Due
<1>2. CASE HandOver
  <2>1. DOMAIN sweep'.read = {} /\ up /\ up' /\ now' = now /\ quota' = quota
    BY <1>2 DEF HandOver, Idle, SetUsageCache
  <2>2. owed'[a] = Owes(a)
    BY <1>2 DEF HandOver
  <2>3. CASE a \notin DOMAIN sweep.read
    <3>1. owed'[a] = owed[a] /\ book'[a] = book[a]
      BY <1>2, <2>2, <2>3 DEF Owes, HandOver, SetUsageCache
    <3> QED
      BY <1>e, <2>1, <3>1 DEF Due
  <2>4. CASE a \in DOMAIN sweep.read
    <3> DEFINE windows == sweep.read[a]
               kept == Judged(book[a], windows).until
    <3>1. Due(a) = book[a].until /\ Due(a)' = kept
      BY <1>2, <2>1, <2>4 DEF Due, HandOver, SetUsageCache
    <3>2. ASSUME owed'[a] > now
          PROVE  Due(a)' >= owed'[a] /\ (Due(a)' = owed'[a] \/ Known(a, Due(a))')
      <4>1. owed'[a] = owed[a] /\ owed[a] > now /\ ~Lags(windows, owed[a])
        BY <1>0, <2>2, <2>4, <3>2 DEF Owes
      <4>2. /\ book[a].until >= owed[a]
            /\ book[a].until = owed[a] \/ Known(a, book[a].until)
        BY <1>a, <3>1, <4>1 DEF Follows, Paid
      <4>3. windows \in Reading
        <5>1. PICK S \in SUBSET Account : sweep.read \in [S -> Reading]
          BY DEF PollTypes, Sweep
        <5> QED
          BY <2>4, <5>1
      <4>4. ~book[a].pending
        BY <1>0, <4>1, <4>2 DEF BookSound, OneEncoding, Entry
      <4>5. \A x \in windows : x.util \in {"ok", "full"}
        BY <1>a, <2>4 DEF Follows
      <4>6. book[a].until = owed[a] \/ \E x \in windows : x.util = "full" /\ x.at = book[a].until
        BY <2>4, <4>2 DEF Known
      <4>7. kept >= owed[a] /\ (kept = owed[a] \/ \E x \in windows : x.util = "full" /\ x.at = kept)
        <5> HIDE DEF windows
        <5>1. book[a] \in Entry /\ owed[a] \in Deadline
          BY <1>0
        <5> QED
          BY <4>1, <4>2, <4>3, <4>4, <4>5, <4>6, <5>1, JudgedKeeps
      <4>8. ASSUME NEW x \in windows, x.util = "full", x.at = kept
            PROVE  \E w \in WindowName : quota[a][w].spent /\ quota[a][w].at = kept
        <5>1. x.at \in Nat /\ x.at > now
          BY <1>0, <1>a, <2>4, <4>1, <4>7, <4>8 DEF Follows
        <5> QED
          BY <1>a, <2>4, <4>8, <5>1 DEF Follows, ReadingTrue
      <4> QED
        BY <2>1, <3>1, <4>1, <4>7, <4>8 DEF Known
    <3> QED
      BY <2>1, <3>2 DEF Follows, ReadingTrue, Paid
  <2> QED
    BY <2>3, <2>4
<1>3. ASSUME NEW b \in Account, ReadUsage(b)
      PROVE  Follows(a)'
  <2>1. sweep'.read = [c \in DOMAIN sweep.read \cup {b} |->
                         IF c = b THEN UsageOf(b) ELSE sweep.read[c]]
    BY <1>3 DEF ReadUsage, PollTypes, Sweep
  <2>2. UNCHANGED <<now, up, book, stored, quota, owed>>
    BY <1>3 DEF ReadUsage, bookVars
  <2>3. CASE a # b
    <3>1. /\ a \in DOMAIN sweep'.read <=> a \in DOMAIN sweep.read
          /\ a \in DOMAIN sweep.read => sweep'.read[a] = sweep.read[a]
      BY <2>1, <2>3
    <3> QED
      BY <1>a, <2>2, <3>1 DEF Follows, ReadingTrue, Paid, Known, Due
  <2>4. CASE a = b
    <3>1. a \in DOMAIN sweep'.read /\ sweep'.read[a] = UsageOf(a)
      BY <2>1, <2>4
    <3>2. \A x \in UsageOf(a) : x.util \in {"ok", "full"} /\ x.at \in Deadline
      BY <1>0 DEF UsageOf, Usage
    <3>3. \A x \in UsageOf(a) : x.util = "full" =>
            \E w \in WindowName : quota[a][w].spent /\ quota[a][w].at = x.at
      BY DEF UsageOf, Usage
    <3>4. ASSUME NEW w \in WindowName, quota[a][w].spent
          PROVE  \E x \in UsageOf(a) : x.util = "full" /\ x.at = quota[a][w].at
      <4>1. [util |-> IF quota[a][w].spent THEN "full" ELSE "ok", at |-> quota[a][w].at] \in UsageOf(a)
        BY DEF UsageOf, Usage
      <4> QED
        BY <3>4, <4>1
    <3>5. ASSUME Known(a, Due(a)) PROVE Known(a, Due(a))'
      <4>1. PICK w \in WindowName : quota[a][w].spent /\ quota[a][w].at = Due(a)
        BY <3>5 DEF Known
      <4>2. Due(a)' = Due(a) /\ quota'[a] = quota[a]
        BY <2>2 DEF Due
      <4> QED
        BY <3>1, <3>4, <4>1, <4>2 DEF Known
    <3>6. Paid(a) /\ Due(a)' = Due(a)
      BY <1>a, <2>2 DEF Follows, Due
    <3>7. Paid(a)'
      BY <2>2, <3>5, <3>6 DEF Paid
    <3> QED
      BY <2>2, <3>1, <3>2, <3>3, <3>7 DEF Follows, ReadingTrue
  <2> QED
    BY <2>3, <2>4
<1>4. ASSUME NEW b \in Account, ReadFails(b) \/ ReadLimited(b)
      PROVE  Follows(a)'
  <2>1. sweep'.read = sweep.read /\ UNCHANGED <<now, up, book, stored, quota, owed>>
    BY <1>4 DEF ReadFails, ReadLimited, bookVars, PollTypes, Sweep
  <2> QED
    BY <1>u, <2>1 DEF Due
\* Windows that are spent stay as they are while others open or are spent.
<1>5. ASSUME NEW b \in Account, NEW v \in WindowName, Open(b, v) \/ Spend(b, v)
      PROVE  Follows(a)'
  <2>1. UNCHANGED <<now, up, book, stored, sweep, owed>>
    BY <1>5 DEF Open, Spend, bookVars
  <2>2. \A w \in WindowName : quota[a][w].spent => quota'[a][w].spent /\ quota'[a][w].at = quota[a][w].at
    <3>1. SUFFICES ASSUME NEW w \in WindowName, quota[a][w].spent
                   PROVE  quota'[a][w].spent /\ quota'[a][w].at = quota[a][w].at
      OBVIOUS
    <3>2. CASE Open(b, v)
      <4>1. ~(a = b /\ w = v)
        BY <3>1, <3>2 DEF Open, Closed
      <4> QED
        BY <3>1, <3>2, <4>1 DEF Open, PollTypes, Quota
    <3>3. CASE Spend(b, v)
      BY <1>0, <3>1, <3>3 DEF Spend, PollTypes, Quota, Window
    <3> QED
      BY <1>5, <3>2, <3>3
  <2> QED
    BY <1>a, <2>1, <2>2 DEF Follows, ReadingTrue, Paid, Known, Due
<1>7. ASSUME NEW b \in Account, NEW v \in WindowName, ReportSpent(b, v)
      PROVE  Follows(a)'
  <2>1. UNCHANGED <<now, up, quota, sweep>> /\ up
    BY <1>7 DEF ReportSpent, ReportTimed, ReportWith
  <2>2. CASE a # b
    <3>1. book'[a] = book[a] /\ owed'[a] = owed[a]
      BY <1>7, <2>2 DEF ReportSpent, ReportTimed, ReportWith, TypeOK, RestOfTypes
    <3> QED
      BY <1>u, <2>1, <3>1 DEF Due
  <2>3. CASE a = b
    <3>1. book'[a].until = quota[a][v].at
      BY <1>7, <2>3 DEF ReportSpent, ReportTimed, ReportWith, Marked, TypeOK
    <3>2. owed'[a] = quota[a][v].at
      BY <1>7, <2>3 DEF ReportSpent, RestOfTypes
    <3>3. Due(a)' = owed'[a] /\ owed'[a] \in Nat
      BY <1>0, <2>1, <3>1, <3>2 DEF Due
    <3> QED
      BY <1>a, <2>1, <3>3 DEF Follows, ReadingTrue, Paid
  <2> QED
    BY <2>2, <2>3
<1>8. ASSUME NEW b \in Account, NEW until \in Instant, Misreport(b, until)
      PROVE  Follows(a)'
  <2>1. UNCHANGED <<now, up, quota, sweep>> /\ up
    BY <1>8 DEF Misreport, ReportTimed, ReportWith
  <2>2. IF a = b THEN owed'[a] = 0 ELSE book'[a] = book[a] /\ owed'[a] = owed[a]
    BY <1>8 DEF Misreport, ReportTimed, ReportWith, TypeOK, RestOfTypes
  <2>3. ~(0 > now)
    BY <1>0
  <2>4. CASE a = b
    BY <1>a, <2>1, <2>2, <2>3, <2>4 DEF Follows, ReadingTrue, Paid
  <2>5. CASE a # b
    BY <1>u, <2>1, <2>2, <2>5 DEF Due
  <2> QED
    BY <2>4, <2>5
<1>9. ASSUME NEW b \in Account, ReportBare(b)
      PROVE  Follows(a)'
  <2>1. UNCHANGED <<now, up, quota, sweep, owed>> /\ up
    BY <1>9 DEF ReportBare, ReportUnknown, ReportWith, pollVars
  <2>2. book'[a].until = book[a].until \/ ~(book[a].until > now)
    BY <1>0, <1>9 DEF ReportBare, ReportUnknown, ReportWith, MarkedUnknown, TypeOK
  <2>3. Due(a)' = Due(a) \/ ~(Due(a) > now)
    BY <2>1, <2>2 DEF Due
  <2>4. ~(Due(a) > now) => ~(owed[a] > now)
    BY <1>0, <1>a DEF Follows, Paid
  <2>5. CASE ~(owed[a] > now)
    BY <1>a, <2>1, <2>5 DEF Follows, ReadingTrue, Paid
  <2> QED
    BY <1>u, <2>1, <2>3, <2>4, <2>5
<1>10. ASSUME NEW b \in Account, NEW value \in BOOLEAN, Flag(b, value)
       PROVE  Follows(a)'
  BY <1>u, <1>10 DEF Flag, bookVars, Due
<1>11. ASSUME NEW b \in Account, RecoverAccount(b)
       PROVE  Follows(a)'
  <2>1. UNCHANGED <<now, up, quota, sweep, owed>> /\ up
    BY <1>11 DEF RecoverAccount, Recover, pollVars
  <2>2. ASSUME owed[a] > now, a = b PROVE FALSE
    <3>1. book[a].until >= owed[a] /\ book[a].timer <= now
      BY <1>a, <1>11, <2>1, <2>2 DEF Follows, Paid, Due, RecoverAccount, Recover
    <3>2. book[a].until > 0 /\ book[a].until > now
      BY <1>0, <2>2, <3>1 DEF Entry
    <3>3. book[a].timer >= book[a].until
      BY <1>0, <3>2, <3>1 DEF BookSound, TimersMatch, Deadline
    <3> QED
      BY <1>0, <3>1, <3>2, <3>3 DEF Entry
  <2>3. a # b => book'[a] = book[a]
    BY <1>11 DEF RecoverAccount, Recover, TypeOK
  <2>4. CASE owed[a] > now
    BY <1>u, <2>1, <2>2, <2>3, <2>4 DEF Due
  <2>5. CASE ~(owed[a] > now)
    BY <1>a, <2>1, <2>5 DEF Follows, ReadingTrue, Paid
  <2> QED
    BY <2>4, <2>5
<1>12. CASE CrashMaster
  <2>1. UNCHANGED <<now, stored, quota, owed>> /\ up /\ ~up' /\ DOMAIN sweep'.read = {}
    BY <1>12 DEF CrashMaster, Crash, Idle
  <2>2. Due(a) > now => Due(a)' = Due(a)
    BY <1>0, <2>1 DEF Due, BookSound, StoreAgrees, Entry
  <2>3. ~(Due(a) > now) => ~(owed[a] > now)
    BY <1>0, <1>a DEF Follows, Paid
  <2>4. CASE ~(owed[a] > now)
    BY <2>1, <2>4 DEF Follows, ReadingTrue, Paid
  <2> QED
    BY <1>e, <2>1, <2>2, <2>3, <2>4
<1>13. CASE RestartMaster
  <2>1. UNCHANGED <<now, stored, quota, owed, sweep>> /\ ~up /\ up'
    BY <1>13 DEF RestartMaster, Restart, pollVars
  <2>2. stored[a] > now => book'[a].until = stored[a]
    BY <1>13 DEF RestartMaster, Restart, Marked
  <2>3. Due(a) > now => Due(a)' = Due(a)
    BY <2>1, <2>2 DEF Due
  <2>4. ~(Due(a) > now) => ~(owed[a] > now)
    BY <1>0, <1>a DEF Follows, Paid
  <2>5. CASE ~(owed[a] > now)
    BY <1>a, <2>1, <2>5 DEF Follows, ReadingTrue, Paid
  <2> QED
    BY <1>u, <2>1, <2>3, <2>4, <2>5
<1>14. CASE Pass
  <2>1. UNCHANGED <<up, book, stored, sweep, owed>> /\ now' = now + 1
    BY <1>14 DEF Pass, Tick
  <2>2. \A w \in WindowName :
          quota'[a][w] = IF quota[a][w].at <= now' THEN Closed ELSE quota[a][w]
    BY <1>14 DEF Pass
  <2>3. \A w \in WindowName : quota[a][w].at > now' => quota'[a][w] = quota[a][w]
    BY <1>0, <2>2
  <2>4. \A d \in Nat : d > now' => d > now
    BY <1>0, <2>1
  <2>5. ASSUME a \in DOMAIN sweep.read, NEW x \in sweep.read[a], x.util = "full", x.at > now'
        PROVE  \E w \in WindowName : quota'[a][w].spent /\ quota'[a][w].at = x.at
    <3>1. x.at \in Nat /\ x.at > now
      BY <1>0, <1>a, <2>4, <2>5 DEF Follows
    <3>2. PICK w \in WindowName : quota[a][w].spent /\ quota[a][w].at = x.at
      BY <1>a, <2>5, <3>1 DEF Follows, ReadingTrue
    <3> QED
      BY <2>3, <2>5, <3>2
  <2>6. ReadingTrue(a)'
    BY <2>1, <2>5 DEF ReadingTrue
  <2>7. Due(a)' = Due(a)
    BY <2>1 DEF Due
  <2>8. ASSUME owed[a] > now'
        PROVE  Due(a) >= owed[a] /\ (Due(a) = owed[a] \/ Known(a, Due(a))')
    <3>1. owed[a] > now /\ Due(a) >= owed[a] /\ (Due(a) = owed[a] \/ Known(a, Due(a)))
      BY <1>0, <1>a, <2>4, <2>8 DEF Follows, Paid
    <3>2. Due(a) > now'
      BY <1>0, <2>8, <3>1
    <3>3. Known(a, Due(a)) => Known(a, Due(a))'
      BY <2>1, <2>3, <2>7, <3>2 DEF Known
    <3> QED
      BY <3>1, <3>3
  <2>9. Paid(a)'
    BY <2>1, <2>7, <2>8 DEF Paid, Known
  <2> QED
    BY <1>a, <2>1, <2>6, <2>9 DEF Follows
<1>15. CASE UNCHANGED pollerVars
  BY <1>u, <1>15 DEF pollerVars, bookVars, pollVars, Due
<1> QED
  BY <1>1, <1>2, <1>3, <1>4, <1>5, <1>7, <1>8, <1>9, <1>10, <1>11, <1>12, <1>13, <1>14, <1>15
     DEF PollerNext, PollStep

\* A spent account stays out of selection as long as its last truthful report said,
\* however many windows it has and whatever sweeps, reports, timers, crashes and
\* restarts there are - unless a sweep hands over a reading that lags behind that
\* report - if a timer can carry every delay.
THEOREM SpentAccountsStayOut ==
  ASSUME MaxDelay >= Horizon
  PROVE  PollerSpec => []PollerInv
<1>1. PollerSpec => []BookSound
  BY BookSoundUnderPolling
<1>2. PollerInit => TypeOK /\ PollTypes /\ RestOfTypes /\ AllFollow
  <2> SUFFICES ASSUME PollerInit PROVE TypeOK /\ PollTypes /\ RestOfTypes /\ AllFollow
    OBVIOUS
  <2>1. TypeOK
    BY BookAssumption DEF PollerInit, BookInit, TypeOK, NoEntry, Entry, Deadline
  <2>2. RestOfTypes
    BY BookAssumption DEF PollerInit, RestOfTypes, Idle, Deadline
  <2>3. \A a \in Account : a \notin DOMAIN sweep.read /\ ~(owed[a] > now)
    BY BookAssumption DEF PollerInit, BookInit, Idle
  <2>4. AllFollow
    BY <2>3 DEF AllFollow, Follows, ReadingTrue, Paid
  <2> QED
    BY <2>1, <2>2, <2>4, PollTypesInit
<1>3. TypeOK /\ PollTypes /\ RestOfTypes /\ AllFollow /\ BookSound /\ BookSound' /\ [PollerNext]_pollerVars
        => TypeOK' /\ PollTypes' /\ RestOfTypes' /\ AllFollow'
  BY PollerStepIsBookStep, StepType, PollTypesStep, RestOfTypesStep, FollowStep
<1>4. TypeOK /\ PollTypes /\ RestOfTypes /\ AllFollow => PollerInv
  <2> SUFFICES ASSUME TypeOK, PollTypes, RestOfTypes, AllFollow PROVE SpentStaysOut
    BY TypesTogether DEF PollerInv
  <2> QED
    BY DEF SpentStaysOut, AllFollow, Follows, Paid, Due
<1> QED
  BY <1>1, <1>2, <1>3, <1>4, PTL DEF PollerSpec
=============================================================================
