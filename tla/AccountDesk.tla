---------------------------- MODULE AccountDesk ----------------------------
(***************************************************************************)
(* How accounts enter and leave the master's pool                          *)
(* (src/master/accountOnboard.ts, accountRemove.ts, the onboarding capture *)
(* of master/keeper.ts, the library operations of accounts.ts they end in  *)
(* and the routes of leaseServer.ts that carry them).                      *)
(*                                                                         *)
(* A browser asks for an authorization URL, hands a code back, or deletes  *)
(* an account; every handler awaits, so several requests are in flight at  *)
(* once. Beside them the refresher rotates the tips on record, the keeper  *)
(* absorbs what a login on this box put in auth.json, and the master dies  *)
(* and restarts. A token is an account and a generation: a rotation kills  *)
(* the tip it spends, and its access token with it; a login starts one     *)
(* more chain beside those that are alive. A restarted master may find its *)
(* address not there yet and tries to listen until it is (bindRetry.ts).   *)
(***************************************************************************)
EXTENDS Naturals, SequencesExt

CONSTANTS
    Account,        \* accounts of the subscription vendor
    Prefix,         \* the short ids the page shows
    PrefixOf,       \* [Account -> Prefix]
    Req,            \* names of the requests a browser may send, each once
    MaxPending,     \* ONBOARD_MAX_PENDING
    MaxAttempts,    \* ONBOARD_MAX_ATTEMPTS
    MaxSession,     \* bound: authorization sessions ever started
    MaxEvents       \* bound: requests, rotations, logins, sweeps and accidents

ASSUME DeskAssumption ==
    /\ PrefixOf \in [Account -> Prefix]
    /\ {MaxPending, MaxAttempts, MaxSession} \subseteq Nat \ {0}
    /\ MaxEvents \in Nat

VARIABLES
    library,    \* [Account -> the tip on record, 0 when there is no record]
    alive,      \* [Account -> tips the vendor still accepts]
    minted,     \* [Account -> the newest tip ever minted]
    flight,     \* [Account -> a rotated tip that awaits persistToken, or 0]
    backups,    \* copies of deleted records: pairs of an account and a tip
    slot,       \* auth.json's entry: <<account, tip>>, or <<>>
    keeper,     \* the capture: where it is, what it saw, what it absorbed last
    pendings,   \* live PKCE sessions, the oldest first
    issued,     \* sessions begun, numbered as their URLs are minted
    attempts,   \* [session -> exchanges begun on it]
    stale,      \* sessions past their time to live
    bound,      \* the lease server listens
    recent,     \* the last exchange began less than the minimum interval ago
    request,    \* [Req -> where the request is and what it carries]
    excused,    \* ghost: accounts never on record, or whose chain an accident broke
    posts,      \* ghost: [session -> exchanges the vendor got]
    burst,      \* ghost: exchanges begun in the current interval
    events      \* what happened so far, against the bound

deskVars == <<library, alive, minted, flight, backups, slot, keeper, pendings,
              issued, bound, attempts, stale, recent, request, excused, posts, burst, events>>

pool == <<library, alive, minted, flight, backups, excused>>
desk == <<pendings, issued, bound, attempts, stale, recent, posts, burst>>

Session == 1..MaxSession

NoRequest == [kind |-> "none", at |-> "idle", session |-> 0, acct |-> {}, gen |-> 0, result |-> "none"]

Unsent == {r \in Req : request[r].kind = "none"}

Fresh == [at |-> "idle", seen |-> <<>>, tip |-> <<>>, absorbed |-> <<>>]

Event ==
    /\ events < MaxEvents
    /\ events' = events + 1

\* A request leaves the browser.
Send(r, kind, session, acct) ==
    /\ Event
    /\ bound
    /\ r \in Unsent
    /\ r = CHOOSE u \in Unsent : TRUE
    /\ request' = [request EXCEPT ![r] = [NoRequest EXCEPT !.kind = kind, !.at = "sent",
                                                          !.session = session, !.acct = acct]]

Answered(r, result) == [request EXCEPT ![r].at = "answered", ![r].result = result]
Moves(r, at) == [request EXCEPT ![r].at = at]
Is(r, kind, at) == request[r].kind = kind /\ request[r].at = at

-----------------------------------------------------------------------------
(* The browser's sessions (accountOnboard.ts).                             *)

Pruned(s) == SelectSeq(s, LAMBDA x : x \notin stale)

\* The oldest go until one more fits.
Evicted(s) ==
    IF Len(s) < MaxPending THEN s ELSE SubSeq(s, Len(s) - MaxPending + 2, Len(s))

\* start(), up to the await of authorize().
Start(r) ==
    /\ Is(r, "authorize", "sent")
    /\ pendings' = Evicted(Pruned(pendings))
    /\ request' = Moves(r, "minting")
    /\ UNCHANGED <<issued, bound, pool, slot, keeper, attempts, stale, recent, posts, burst, events>>


\* start(), from there on.
Authorized(r) ==
    /\ Is(r, "authorize", "minting")
    /\ \E s \in Session :
          /\ s = issued + 1
          /\ issued' = s
          /\ pendings' = Append(pendings, s)
          /\ request' = [Answered(r, "ok") EXCEPT ![r].session = s]
    /\ UNCHANGED <<bound, pool, slot, keeper, attempts, stale, recent, posts, burst, events>>

Without(s) == SelectSeq(pendings, LAMBDA x : x # s)

\* add() refuses: no such session, too old, used up, or too soon.
AddRefused(r) ==
    /\ Is(r, "add", "sent")
    /\ LET s == request[r].session
           known == s \in ToSet(pendings)
       IN \/ /\ ~known
             /\ pendings' = Pruned(pendings)
             /\ request' = Answered(r, "gone")
          \/ /\ known /\ (s \in stale \/ attempts[s] >= MaxAttempts)
             /\ pendings' = SelectSeq(Without(s), LAMBDA x : x \notin stale)
             /\ request' = Answered(r, "gone")
          \/ /\ known /\ s \notin stale /\ attempts[s] < MaxAttempts /\ recent
             /\ pendings' = Pruned(pendings)
             /\ request' = Answered(r, "throttled")
    /\ UNCHANGED <<issued, bound, pool, slot, keeper, attempts, stale, recent, posts, burst, events>>

ExchangeAllowed(s) == s \in ToSet(pendings) \ stale /\ attempts[s] < MaxAttempts /\ ~recent

\* Mutant: the instant of the attempt is not stamped before the await.
ExchangeUnstamped(r) ==
    /\ Is(r, "add", "sent")
    /\ LET s == request[r].session
       IN /\ ExchangeAllowed(s)
          /\ attempts' = [attempts EXCEPT ![s] = @ + 1]
          /\ posts' = [posts EXCEPT ![s] = @ + 1]
    /\ burst' = burst + 1
    /\ pendings' = Pruned(pendings)
    /\ request' = Moves(r, "exchanging")
    /\ UNCHANGED <<issued, bound, pool, slot, keeper, stale, recent, events>>

\* add() begins an exchange: counted and stamped before the await.
Exchange(r) ==
    /\ Is(r, "add", "sent")
    /\ LET s == request[r].session
       IN /\ ExchangeAllowed(s)
          /\ attempts' = [attempts EXCEPT ![s] = @ + 1]
          /\ posts' = [posts EXCEPT ![s] = @ + 1]
    /\ recent' = TRUE
    /\ burst' = burst + 1
    /\ pendings' = Pruned(pendings)
    /\ request' = Moves(r, "exchanging")
    /\ UNCHANGED <<issued, bound, pool, slot, keeper, stale, events>>

\* The vendor refuses the code; the last attempt retires the session.
ExchangeFails(r) ==
    /\ Is(r, "add", "exchanging")
    /\ LET s == request[r].session
       IN IF attempts[s] >= MaxAttempts
          THEN /\ pendings' = Without(s)
               /\ request' = Answered(r, "gone")
          ELSE /\ request' = Answered(r, "rejected")
               /\ UNCHANGED pendings
    /\ UNCHANGED <<issued, bound, pool, slot, keeper, attempts, stale, recent, posts, burst, events>>

NewTip(a) == minted[a] + 1

\* The vendor mints a chain for whichever account the operator logged in to.
ExchangeWorks(r) ==
    /\ Is(r, "add", "exchanging")
    /\ pendings' = Without(request[r].session)
    /\ \E a \in Account :
          /\ minted' = [minted EXCEPT ![a] = NewTip(a)]
          /\ alive' = [alive EXCEPT ![a] = @ \cup {NewTip(a)}]
          /\ request' = [Moves(r, "filing") EXCEPT ![r].acct = {a}, ![r].gen = NewTip(a)]
    /\ UNCHANGED <<issued, bound, library, flight, backups, excused, slot, keeper, attempts, stale, recent, posts, burst, events>>

\* fetchProfile fails: the chain is real and dropped.
ProfileFails(r) ==
    /\ Is(r, "add", "filing")
    /\ request' = Answered(r, "profile")
    /\ UNCHANGED <<pool, slot, keeper, desk, events>>

\* The capture holds the cross-process lock from its profile lookup on.
LockFree == keeper.at # "looked"

Deleting(a) == \E r \in Req : /\ request[r].kind = "delete"
                              /\ request[r].at \in {"resolved", "copied"}
                              /\ a \in request[r].acct

\* A login heals an account, but not the copy a running deletion has taken.
Cleared(a) == IF Deleting(a) THEN excused ELSE excused \ {a}

\* absorbOnboarded, under the lock.
Absorb(r) ==
    /\ Is(r, "add", "filing")
    /\ LockFree
    /\ \E a \in request[r].acct :
          /\ library' = [library EXCEPT ![a] = request[r].gen]
          /\ excused' = Cleared(a)
    /\ request' = Answered(r, "ok")
    /\ UNCHANGED <<alive, minted, flight, backups, slot, keeper, desk, events>>

-----------------------------------------------------------------------------
(* Removal (accountRemove.ts).                                             *)

Matching(p) == {a \in Account : library[a] # 0 /\ PrefixOf[a] = p}

\* The roster is read and the prefix and the retyped label are looked up.
Resolve(r) ==
    /\ Is(r, "delete", "sent")
    /\ \E picked \in request[r].acct :
          LET match == Matching(PrefixOf[picked])
          IN request' = IF match = {picked}
                        THEN [Moves(r, "resolved") EXCEPT ![r].gen = library[picked]]
                        ELSE Answered(r, "refused")
    /\ UNCHANGED <<pool, slot, keeper, desk, events>>

\* Mutant: a backup that cannot be written is skipped.
BackupFailsQuietly(r) ==
    /\ Is(r, "delete", "resolved")
    /\ request' = Moves(r, "copied")
    /\ UNCHANGED <<pool, slot, keeper, desk, events>>

\* The copy cannot be written: nothing is deleted.
BackupFails(r) ==
    /\ Is(r, "delete", "resolved")
    /\ request' = Answered(r, "failed")
    /\ UNCHANGED <<pool, slot, keeper, desk, events>>

\* The copy is the record as it was read, outside the lock.
Backup(r) ==
    /\ Is(r, "delete", "resolved")
    /\ backups' = backups \cup {<<a, request[r].gen>> : a \in request[r].acct}
    /\ request' = Moves(r, "copied")
    /\ UNCHANGED <<library, alive, minted, flight, excused, slot, keeper, desk, events>>

\* removeAccount, under the lock.
RemoveRecord(r) ==
    /\ Is(r, "delete", "copied")
    /\ LockFree
    /\ \E a \in request[r].acct :
          /\ library' = [library EXCEPT ![a] = 0]
          /\ excused' = IF flight[a] # 0 THEN excused \cup {a} ELSE excused
          /\ request' = Answered(r, IF library[a] = 0 THEN "refused" ELSE "ok")
    /\ UNCHANGED <<alive, minted, flight, backups, slot, keeper, desk, events>>

-----------------------------------------------------------------------------
(* The refresher and the keeper's capture.                                 *)

\* A rotation spends the tip on record. One that overlaps a deletion leaves
\* the deletion's copy dead: the account is excused.
Rotate(a) ==
    /\ Event
    /\ library[a] \in alive[a]
    /\ flight[a] = 0
    /\ minted' = [minted EXCEPT ![a] = NewTip(a)]
    /\ alive' = [alive EXCEPT ![a] = (@ \ {library[a]}) \cup {NewTip(a)}]
    /\ flight' = [flight EXCEPT ![a] = NewTip(a)]
    /\ excused' = IF Deleting(a) THEN excused \cup {a} ELSE excused
    /\ UNCHANGED <<library, backups, slot, keeper, desk, request>>

\* persistToken, under the lock: a deleted record is not written again.
PersistRotated(a) ==
    /\ flight[a] # 0
    /\ LockFree
    /\ library' = [library EXCEPT ![a] = IF @ = 0 THEN 0 ELSE flight[a]]
    /\ flight' = [flight EXCEPT ![a] = 0]
    /\ excused' = IF library[a] = 0 \/ Deleting(a) THEN excused \cup {a} ELSE excused
    /\ UNCHANGED <<alive, minted, backups, slot, keeper, desk, request, events>>

\* capture() sees news in auth.json.
CaptureSees ==
    /\ keeper.at = "idle"
    /\ slot # <<>> /\ slot # keeper.absorbed
    /\ keeper' = [keeper EXCEPT !.at = "seen", !.seen = slot]
    /\ UNCHANGED <<pool, slot, desk, request, events>>

Accepted(tip) == tip # <<>> /\ tip[2] \in alive[tip[1]]

\* Mutant: what autoCapture files is not looked up at the vendor first.
CaptureLooksNowhere ==
    /\ keeper.at = "seen"
    /\ keeper' = [keeper EXCEPT !.at = "looked", !.tip = slot]
    /\ UNCHANGED <<pool, slot, desk, request, events>>

\* autoCapture has the lock, reads auth.json again and asks for the profile:
\* the access token of a tip that was rotated no longer gets an answer.  An entry
\* that has expired since it was seen is left alone without a word, and stamped.
CaptureLooks ==
    /\ keeper.at = "seen"
    /\ \/ /\ Accepted(slot)
          /\ keeper' = [keeper EXCEPT !.at = "looked", !.tip = slot]
       \/ /\ ~Accepted(slot)
          /\ keeper' = [keeper EXCEPT !.at = "idle"]
       \/ keeper' = [keeper EXCEPT !.at = "idle", !.absorbed = keeper.seen]
    /\ UNCHANGED <<pool, slot, desk, request, events>>

\* upsertAccount, still under the lock; what was seen first is stamped.
CaptureAbsorbs ==
    /\ keeper.at = "looked"
    /\ LET a == keeper.tip[1]
       IN /\ library' = [library EXCEPT ![a] = keeper.tip[2]]
          /\ excused' = Cleared(a)
    /\ keeper' = [keeper EXCEPT !.at = "idle", !.absorbed = keeper.seen]
    /\ UNCHANGED <<alive, minted, flight, backups, slot, desk, request, events>>

\* An operator logs in on this box: auth.json has a chain of its own.
LocalLogin(a) ==
    /\ Event
    /\ minted' = [minted EXCEPT ![a] = NewTip(a)]
    /\ alive' = [alive EXCEPT ![a] = @ \cup {NewTip(a)}]
    /\ slot' = <<a, NewTip(a)>>
    /\ UNCHANGED <<library, flight, backups, excused, keeper, desk, request>>

\* A session outlives its time to live.
SessionAges(s) ==
    /\ Event
    /\ s \in ToSet(pendings) \ stale
    /\ stale' = stale \cup {s}
    /\ UNCHANGED <<issued, bound, pool, slot, keeper, pendings, attempts, recent, posts, burst, request>>

IntervalEnds ==
    /\ recent \/ burst > 0
    /\ recent' = FALSE
    /\ burst' = 0
    /\ UNCHANGED <<issued, bound, pool, slot, keeper, pendings, attempts, stale, posts, request, events>>

\* The master dies and comes back: what it held in memory is gone, a rotated
\* tip it had not written included, and its browsers get no answer. The first
\* attempt to listen may fail: the rest of the master runs meanwhile.
Restart ==
    /\ Event
    /\ excused' = excused \cup {a \in Account : flight[a] # 0}
    /\ flight' = [a \in Account |-> 0]
    /\ keeper' = Fresh
    /\ bound' \in BOOLEAN
    /\ pendings' = <<>>
    /\ recent' = FALSE
    /\ burst' = 0
    /\ request' = [r \in Req |-> IF request[r].at \in {"idle", "answered", "landed"}
                                 THEN request[r]
                                 ELSE [request[r] EXCEPT !.at = "answered", !.result = "failed"]]
    /\ UNCHANGED <<issued, library, alive, minted, backups, slot, attempts, stale, posts>>

\* startWithBindRetry: a later attempt works (one that fails changes nothing).
Bind ==
    /\ ~bound
    /\ bound' = TRUE
    /\ UNCHANGED <<pool, slot, keeper, pendings, issued, attempts, stale, recent, posts, burst, request, events>>

-----------------------------------------------------------------------------
DeskInit ==
    /\ library \in [Account -> {0, 1}]
    /\ alive = [a \in Account |-> {library[a]} \ {0}]
    /\ minted = library
    /\ flight = [a \in Account |-> 0]
    /\ backups = {} /\ slot = <<>> /\ keeper = Fresh
    /\ stale = {} /\ recent = FALSE
    /\ bound = TRUE
    /\ issued \in {0, 1} /\ pendings = [s \in 1..issued |-> s]
    /\ \E tried \in 0..(MaxAttempts - 1) :
          attempts = [s \in Session |-> IF s = issued THEN tried ELSE 0]
    /\ posts = attempts
    /\ request = [r \in Req |-> NoRequest]
    /\ excused = {a \in Account : library[a] = 0} /\ burst = 0 /\ events = 0

Serve(r) ==
    \/ Start(r) \/ Authorized(r)
    \/ AddRefused(r) \/ Exchange(r) \/ ExchangeFails(r) \/ ExchangeWorks(r)
    \/ ProfileFails(r) \/ Absorb(r)
    \/ Resolve(r) \/ BackupFails(r) \/ Backup(r) \/ RemoveRecord(r)

DeskStep ==
    \/ \E r \in Req : Serve(r)
    \/ \E a \in Account : Rotate(a) \/ PersistRotated(a) \/ LocalLogin(a)
    \/ CaptureSees \/ CaptureLooks \/ CaptureAbsorbs
    \/ \E s \in Session : SessionAges(s)
    \/ IntervalEnds \/ Bind

-----------------------------------------------------------------------------
(* What the desk promises.                                                 *)

\* However many requests are in flight, the vendor gets at most MaxAttempts
\* exchanges for a session and at most one per interval (constants.ts: the
\* cap of attempts and the floor between two of them).  The stamp of the last one
\* is in memory: `burst` starts again with the process, as the floor does.
ExchangesCapped ==
    /\ \A s \in Session : posts[s] <= MaxAttempts
    /\ burst <= 1

\* The tip on record can be refreshed, or its successor is about to be
\* written, whatever rotations, captures, logins and deletions interleave:
\* a chain is broken only by a restart that loses a rotated tip, or by a rotation
\* that overlaps the account's deletion and puts its tip nowhere.
TipsAlive ==
    \A a \in Account :
        (library[a] # 0) => (library[a] \in alive[a] \/ flight[a] # 0 \/ a \in excused)

\* A deleted account can be had back: the copy made of it still refreshes,
\* unless a rotation overlapped the deletion (README: the mistake can be
\* undone from the backup).
Recoverable ==
    \A a \in Account :
        (library[a] = 0) => (a \in excused \/ \E g \in alive[a] : <<a, g>> \in backups)

\* What accounts.ts (removeAccount) asks of its callers, that a deleted
\* account is not re-captured: a tip that was deleted does not come back.
DeletionIsFinal ==
    [][\A a \in Account :
          (library[a] = 0 /\ library'[a] # 0) => <<a, library'[a]>> \notin backups]_library

\* What constants.ts says of the sessions: never more than the ceiling.
NeverOverfull == Len(pendings) <= MaxPending
=============================================================================
