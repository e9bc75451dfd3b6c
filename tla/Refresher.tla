------------------------------ MODULE Refresher ------------------------------
(***************************************************************************)
(* The master's token refresher (src/master/refresher.ts) with the two     *)
(* ways it writes the account library (persistToken and onRefreshRevoked   *)
(* of src/master/install.ts) and the leases cut from what it returns       *)
(* (serveLease of src/master/leaseServer.ts).                              *)
(*                                                                         *)
(* A token is the number of its generation.  The vendor accepts the        *)
(* refresh half of a token once: that kills the token, access half         *)
(* included, and mints the next generation.                                *)
(***************************************************************************)
EXTENDS Integers

CONSTANTS
  Account,
  Worker,
  Flight,       \* identities for the refresh flights of the process
  None,         \* "nobody", "no flight"
  MaxGen,       \* bound: generations the vendor can mint for an account
  MaxTime,      \* bound: the clock stops here
  Lifetimes,    \* the lifetimes (expires_in) a new token may have
  Threshold,    \* MASTER_REFRESH_THRESHOLD_MS
  Buffer,       \* LEASE_RENEW_BUFFER_MS
  MinRemaining, \* MASTER_MIN_REMAINING_MS
  CheckInterval,\* LEASE_CHECK_INTERVAL_MS
  Cooldown429,  \* MASTER_REFRESH_429_COOLDOWN_MS
  MaxAttempts   \* MAX_ATTEMPTS

ASSUME RefresherAssumption ==
  /\ None \notin Account \cup Worker \cup Flight
  /\ MaxGen \in Nat \ {0}
  /\ MaxTime \in Nat
  /\ Lifetimes \subseteq Nat \ {0}
  /\ Threshold \in Nat
  /\ Buffer \in Nat
  /\ MinRemaining \in Nat
  /\ CheckInterval \in Nat \ {0}
  /\ Cooldown429 \in Nat
  /\ MaxAttempts \in Nat \ {0}

VARIABLES
  now,          \* the clock
  \* the vendor
  minted,       \* how many generations each account has had
  expiry,       \* when the access half of each of them expires
  live,         \* the generations whose refresh half is still good
  \* the account library on disk
  library,
  sibling,      \* another process rotating an account under the auth lock
  \* the master process
  flights,
  inflight,     \* account -> its flight
  blockedUntil, \* no refresh for any account before this instant
  \* the workers
  want,         \* the flight a worker's lease request is waiting for
  held,         \* the lease a worker holds
  \* history
  excused       \* accounts whose newest token something outside the code lost

vendor == <<minted, expiry, live>>
process == <<flights, inflight, blockedUntil>>
workers == <<want, held>>
vars == <<now, vendor, library, sibling, process, workers, excused>>

-----------------------------------------------------------------------------
Gen == 1 .. MaxGen
Instant == Nat

\* 0 stands for "no generation".
Absent == [present |-> FALSE, gen |-> 0, flagged |-> FALSE]
Record == [present : {TRUE}, gen : Gen, flagged : BOOLEAN]

NoFlight == [acct |-> None, phase |-> "none", horizon |-> 0, tip |-> 0, attempt |-> 0, fresh |-> 0]
FlightState ==
  [acct : Account, phase : {"loading", "posting", "pausing", "revoked", "persisting"},
   horizon : {0, Buffer}, tip : 0 .. MaxGen, attempt : 0 .. MaxAttempts, fresh : 0 .. MaxGen]

NewFlight(a, horizon) ==
  [acct |-> a, phase |-> "loading", horizon |-> horizon, tip |-> 0, attempt |-> 0, fresh |-> 0]

NoSibling == [acct |-> None, fresh |-> 0]
NoLease == [acct |-> None, gen |-> 0, expires |-> 0]

TypeOK ==
  /\ now \in 1 .. MaxTime + 1
  /\ minted \in [Account -> 0 .. MaxGen]
  /\ expiry \in [Account -> [Gen -> Instant]]
  /\ live \in [Account -> SUBSET Gen]
  /\ library \in [Account -> Record \cup {Absent}]
  /\ sibling \in [acct : Account, fresh : Gen] \cup {NoSibling}
  /\ flights \in [Flight -> FlightState \cup {NoFlight}]
  /\ inflight \in [Account -> Flight \cup {None}]
  /\ blockedUntil \in Nat
  /\ want \in [Worker -> Flight \cup {None}]
  /\ held \in [Worker -> [acct : Account, gen : Gen, expires : Int] \cup {NoLease}]
  /\ excused \subseteq Account

-----------------------------------------------------------------------------
(* The vendor's token endpoint.                                            *)

\* A new generation for account a, minted by spending tip (0 for a login).
Rotate(a, tip) ==
  /\ minted[a] < MaxGen
  /\ minted' = [minted EXCEPT ![a] = @ + 1]
  /\ \E lifetime \in Lifetimes :
       expiry' = [expiry EXCEPT ![a][minted[a] + 1] = now + lifetime]
  /\ live' = [live EXCEPT ![a] = (@ \ {tip}) \cup {minted[a] + 1}]

Newest(a) == minted'[a]

LockFree == sibling = NoSibling

-----------------------------------------------------------------------------
(* Flights.                                                                *)

\* getFreshAccess with no flight for the account: register one.
Start(f, a, horizon) ==
  /\ inflight[a] = None
  /\ flights[f] = NoFlight
  /\ flights' = [flights EXCEPT ![f] = NewFlight(a, horizon)]
  /\ inflight' = [inflight EXCEPT ![a] = f]

\* A lease request for account a, by a worker that has none outstanding, starts
\* a flight or joins the one there is.
RequestLease(w, a) ==
  /\ want[w] = None
  /\ \/ \E f \in Flight : Start(f, a, Buffer) /\ want' = [want EXCEPT ![w] = f]
     \/ /\ inflight[a] # None
        /\ want' = [want EXCEPT ![w] = inflight[a]]
        /\ UNCHANGED <<flights, inflight>>
  /\ UNCHANGED <<now, vendor, library, sibling, blockedUntil, held, excused>>

\* The warm loop and the usage poller ask for no headroom; joining a flight
\* changes nothing.
Warm(a) ==
  /\ \E f \in Flight : Start(f, a, 0)
  /\ UNCHANGED <<now, vendor, library, sibling, blockedUntil, workers, excused>>

\* Mutant: the horizon a worker is told reaches to the token's own end.
HorizonToExpiry(a, gen) == expiry[a][gen] - MinRemaining

\* serveLease: the lease ends when the master would rotate the token.
LeaseEnd(a, gen) == expiry[a][gen] - Threshold

\* What the waiting workers get from the flight: a lease, unless its horizon is
\* already spent.
Serve(f, gen) ==
  LET a == flights[f].acct
  IN  held' = [w \in Worker |->
                 IF want[w] = f /\ LeaseEnd(a, gen) - now >= CheckInterval
                 THEN [acct |-> a, gen |-> gen, expires |-> LeaseEnd(a, gen)]
                 ELSE held[w]]

\* Mutant: a failed flight stays registered.
CloseKept(f) ==
  /\ flights' = [flights EXCEPT ![f] = NoFlight]
  /\ want' = [w \in Worker |-> IF want[w] = f THEN None ELSE want[w]]
  /\ UNCHANGED inflight

\* The flight's promise settles: it is unregistered and nobody waits any more.
Close(f) ==
  /\ flights' = [flights EXCEPT ![f] = NoFlight]
  /\ inflight' = [inflight EXCEPT ![flights[f].acct] = None]
  /\ want' = [w \in Worker |-> IF want[w] = f THEN None ELSE want[w]]

Grant(f, gen) == Close(f) /\ Serve(f, gen)
Reject(f) == Close(f) /\ UNCHANGED held

\* leasableAccess.
Leasable(a, gen) == expiry[a][gen] - now > MinRemaining

\* Is it time to rotate the token, for a caller that needs this much headroom?
Due(a, gen, horizon) == expiry[a][gen] - now <= Threshold + horizon

\* resolve, up to its POST.
Load(f) ==
  LET a == flights[f].acct
      r == library[a]
  IN  /\ flights[f].phase = "loading"
      /\ \/ /\ ~r.present \/ r.flagged
            /\ Reject(f)
         \/ /\ r.present /\ ~r.flagged /\ ~Due(a, r.gen, flights[f].horizon)
            /\ Grant(f, r.gen)
         \/ /\ r.present /\ ~r.flagged /\ Due(a, r.gen, flights[f].horizon)
            /\ now < blockedUntil
            /\ IF Leasable(a, r.gen) THEN Grant(f, r.gen) ELSE Reject(f)
         \/ /\ r.present /\ ~r.flagged /\ Due(a, r.gen, flights[f].horizon)
            /\ now >= blockedUntil
            /\ flights' = [flights EXCEPT ![f].phase = "posting", ![f].tip = r.gen,
                                          ![f].attempt = 1]
            /\ UNCHANGED <<inflight, workers>>
      /\ UNCHANGED <<now, vendor, library, sibling, blockedUntil, excused>>

-----------------------------------------------------------------------------
(* The POST: what it meets at the vendor and how the answer comes back.    *)

Posting(f) == flights[f].phase = "posting"
Good(f) == flights[f].tip \in live[flights[f].acct]

\* Mutant: the access token is handed out first and the tip written later.
PostSucceedsEarly(f) ==
  /\ Posting(f) /\ Good(f)
  /\ Rotate(flights[f].acct, flights[f].tip)
  /\ flights' = [flights EXCEPT ![f].phase = "persisting", ![f].fresh = Newest(flights[f].acct)]
  /\ held' = [w \in Worker |-> IF want[w] = f
                               THEN [acct |-> flights[f].acct, gen |-> Newest(flights[f].acct),
                                     expires |-> expiry'[flights[f].acct][Newest(flights[f].acct)] - Threshold]
                               ELSE held[w]]
  /\ UNCHANGED <<now, library, sibling, inflight, blockedUntil, want, excused>>

\* The new token arrives.
PostSucceeds(f) ==
  /\ Posting(f) /\ Good(f)
  /\ Rotate(flights[f].acct, flights[f].tip)
  /\ flights' = [flights EXCEPT ![f].phase = "persisting", ![f].fresh = Newest(flights[f].acct)]
  /\ UNCHANGED <<now, library, sibling, inflight, blockedUntil, workers, excused>>

\* The vendor rotates, and the answer is lost on the way or unusable: timeout,
\* dropped connection, a 200 without tokens or without a lifetime.  No retry.
PostLost(f) ==
  /\ Posting(f) /\ Good(f)
  /\ Rotate(flights[f].acct, flights[f].tip)
  /\ Reject(f)
  /\ excused' = excused \cup {flights[f].acct}
  /\ UNCHANGED <<now, library, sibling, blockedUntil>>

\* invalid_grant: the tip is spent, or its chain dead.
PostRevoked(f) ==
  /\ Posting(f) /\ ~Good(f)
  /\ flights' = [flights EXCEPT ![f].phase = "revoked"]
  /\ UNCHANGED <<now, vendor, library, sibling, inflight, blockedUntil, workers, excused>>

\* Failures that leave the tip unspent, and after which a retry is allowed: a
\* 5xx, or a POST that never left the machine.
PostRetryable(f) ==
  /\ Posting(f)
  /\ IF flights[f].attempt >= MaxAttempts THEN Reject(f)
     ELSE flights' = [flights EXCEPT ![f].phase = "pausing"] /\ UNCHANGED <<inflight, workers>>
  /\ UNCHANGED <<now, vendor, library, sibling, blockedUntil, excused>>

\* Failures that are final for this flight although the tip is unspent: another
\* 4xx, or a timeout before the vendor saw the request.
PostRefused(f) ==
  /\ Posting(f)
  /\ Reject(f)
  /\ UNCHANGED <<now, vendor, library, sibling, blockedUntil, excused>>

\* 429: this host is to leave the endpoint alone.
PostLimited(f) ==
  /\ Posting(f)
  /\ blockedUntil' = now + Cooldown429
  /\ Reject(f)
  /\ UNCHANGED <<now, vendor, library, sibling, excused>>

\* After the retry delay the same tip is sent again.
Retry(f) ==
  /\ flights[f].phase = "pausing"
  /\ flights' = [flights EXCEPT ![f].phase = "posting", ![f].attempt = @ + 1]
  /\ UNCHANGED <<now, vendor, library, sibling, inflight, blockedUntil, workers, excused>>

-----------------------------------------------------------------------------
(* The account library, under the auth lock.                               *)

\* Mutant: writes the record whether or not it is still there.
PersistRecreating(f) ==
  LET a == flights[f].acct
  IN  /\ flights[f].phase = "persisting"
      /\ LockFree
      /\ library' = [library EXCEPT ![a] = [present |-> TRUE, gen |-> flights[f].fresh,
                                            flagged |-> FALSE]]
      /\ Grant(f, flights[f].fresh)
      /\ UNCHANGED <<now, vendor, sibling, blockedUntil, excused>>

\* Mutant: the access half is saved, the refresh half on record stays the spent one.
PersistAccessOnly(f) ==
  LET a == flights[f].acct
  IN  /\ flights[f].phase = "persisting"
      /\ LockFree
      /\ library' = IF library[a].present THEN [library EXCEPT ![a].flagged = FALSE] ELSE library
      /\ Grant(f, flights[f].fresh)
      /\ UNCHANGED <<now, vendor, sibling, blockedUntil, excused>>

\* persistToken, then the answer.  A record deleted meanwhile stays deleted.
Persist(f) ==
  LET a == flights[f].acct
  IN  /\ flights[f].phase = "persisting"
      /\ LockFree
      /\ library' = IF library[a].present
                    THEN [library EXCEPT ![a].gen = flights[f].fresh, ![a].flagged = FALSE]
                    ELSE library
      /\ Grant(f, flights[f].fresh)
      /\ UNCHANGED <<now, vendor, sibling, blockedUntil, excused>>

\* The lock is not had in time, or the write fails: the new token is gone.
PersistFails(f) ==
  /\ flights[f].phase = "persisting"
  /\ Reject(f)
  /\ excused' = excused \cup {flights[f].acct}
  /\ UNCHANGED <<now, vendor, library, sibling, blockedUntil>>

\* Mutant: brands the account without looking who holds its tip now.
JudgeRevokedBlindly(f) ==
  LET a == flights[f].acct
  IN  /\ flights[f].phase = "revoked"
      /\ LockFree
      /\ library' = IF library[a].present THEN [library EXCEPT ![a].flagged = TRUE] ELSE library
      /\ Reject(f)
      /\ UNCHANGED <<now, vendor, sibling, blockedUntil, excused>>

\* onRefreshRevoked: a record whose tip is no longer the dead one was rotated by
\* somebody else and is adopted; otherwise the account is flagged.
JudgeRevoked(f) ==
  LET a == flights[f].acct
      r == library[a]
  IN  /\ flights[f].phase = "revoked"
      /\ LockFree
      /\ \/ /\ ~r.present \/ r.flagged
            /\ Reject(f)
            /\ UNCHANGED library
         \/ /\ r.present /\ ~r.flagged /\ r.gen # flights[f].tip
            /\ IF Leasable(a, r.gen) THEN Grant(f, r.gen) ELSE Reject(f)
            /\ UNCHANGED library
         \/ /\ r.present /\ ~r.flagged /\ r.gen = flights[f].tip
            /\ library' = [library EXCEPT ![a].flagged = TRUE]
            /\ Reject(f)
      /\ UNCHANGED <<now, vendor, sibling, blockedUntil, excused>>

\* Its lock times out: no verdict.
JudgeFails(f) ==
  /\ flights[f].phase = "revoked"
  /\ Reject(f)
  /\ UNCHANGED <<now, vendor, library, sibling, blockedUntil, excused>>

-----------------------------------------------------------------------------
(* The world around the master.                                            *)

\* Another process on this machine refreshes the account, holding the auth lock
\* from before its POST until its write.
SiblingPosts(a) ==
  /\ LockFree
  /\ library[a].present /\ library[a].gen \in live[a]
  /\ Rotate(a, library[a].gen)
  /\ sibling' = [acct |-> a, fresh |-> Newest(a)]
  /\ UNCHANGED <<now, library, process, workers, excused>>

SiblingSaves ==
  /\ sibling # NoSibling
  /\ library' = [library EXCEPT ![sibling.acct].gen = sibling.fresh,
                                ![sibling.acct].flagged = FALSE]
  /\ sibling' = NoSibling
  /\ UNCHANGED <<now, vendor, process, workers, excused>>

\* Or dies holding it; the lock is stolen once it is stale.
SiblingDies ==
  /\ sibling # NoSibling
  /\ sibling' = NoSibling
  /\ excused' = excused \cup {sibling.acct}
  /\ UNCHANGED <<now, vendor, library, process, workers>>

\* It is told invalid_grant for the tip on record, and flags the account before
\* it lets the lock go.
SiblingJudges(a) ==
  /\ LockFree
  /\ library[a].present /\ ~library[a].flagged /\ library[a].gen \notin live[a]
  /\ library' = [library EXCEPT ![a].flagged = TRUE]
  /\ UNCHANGED <<now, vendor, sibling, process, workers, excused>>

\* The chain dies at the vendor: revoked, or rotated by another machine.
ChainDies(a, gen) ==
  /\ gen \in live[a]
  /\ live' = [live EXCEPT ![a] = @ \ {gen}]
  /\ excused' = excused \cup {a}
  /\ UNCHANGED <<now, minted, expiry, library, sibling, process, workers>>

\* A login puts a new chain in the record, creating it if need be.  What was
\* lost of the old chain no longer matters, unless a flight is about to write
\* the old chain over the new one.
Login(a) ==
  /\ LockFree
  /\ Rotate(a, 0)
  /\ library' = [library EXCEPT ![a] = [present |-> TRUE, gen |-> Newest(a), flagged |-> FALSE]]
  /\ excused' = IF \E f \in Flight : flights[f].acct = a /\ flights[f].phase = "persisting"
                THEN excused ELSE excused \ {a}
  /\ UNCHANGED <<now, sibling, process, workers>>

\* The operator deletes the account.
Remove(a) ==
  /\ LockFree
  /\ library[a].present
  /\ library' = [library EXCEPT ![a] = Absent]
  /\ UNCHANGED <<now, vendor, sibling, process, workers, excused>>

\* The master dies and comes back; a token it had not written is lost, and the
\* workers keep their leases.
Crash ==
  /\ flights' = [f \in Flight |-> NoFlight]
  /\ inflight' = [a \in Account |-> None]
  /\ blockedUntil' = 0
  /\ want' = [w \in Worker |-> None]
  /\ excused' = excused \cup {flights[f].acct : f \in {g \in Flight : flights[g].phase = "persisting"}}
  /\ UNCHANGED <<now, vendor, library, sibling, held>>

Tick ==
  /\ now <= MaxTime
  /\ now' = now + 1
  /\ UNCHANGED <<vendor, library, sibling, process, workers, excused>>

-----------------------------------------------------------------------------
Init ==
  /\ now = 1
  /\ minted = [a \in Account |-> 1]
  /\ \E lifetime \in Lifetimes :
       expiry = [a \in Account |-> [g \in Gen |-> IF g = 1 THEN 1 + lifetime ELSE 0]]
  /\ live = [a \in Account |-> {1}]
  /\ library = [a \in Account |-> [present |-> TRUE, gen |-> 1, flagged |-> FALSE]]
  /\ sibling = NoSibling
  /\ flights = [f \in Flight |-> NoFlight]
  /\ inflight = [a \in Account |-> None]
  /\ blockedUntil = 0
  /\ want = [w \in Worker |-> None]
  /\ held = [w \in Worker |-> NoLease]
  /\ excused = {}

\* A flight's own steps: each of its awaits ends, one way or another.
FlightStep(f) ==
  \/ Load(f)
  \/ PostSucceeds(f) \/ PostLost(f) \/ PostRevoked(f)
  \/ PostRetryable(f) \/ PostRefused(f) \/ PostLimited(f)
  \/ Retry(f)
  \/ Persist(f) \/ PersistFails(f)
  \/ JudgeRevoked(f) \/ JudgeFails(f)

Next ==
  \/ \E w \in Worker, a \in Account : RequestLease(w, a)
  \/ \E a \in Account : Warm(a)
  \/ \E f \in Flight : FlightStep(f)
  \/ \E a \in Account :
       \/ SiblingPosts(a)
       \/ SiblingJudges(a)
       \/ \E gen \in Gen : ChainDies(a, gen)
       \/ Login(a)
       \/ Remove(a)
  \/ SiblingSaves
  \/ SiblingDies
  \/ Crash
  \/ Tick

Spec == Init /\ [][Next]_vars

\* Requests carry a timeout, lock waits a deadline: a flight always moves on.
FairSpec == Spec /\ \A f \in Flight : WF_vars(FlightStep(f))

-----------------------------------------------------------------------------
(* The chain of tokens behind it all.                                      *)

\* A good token of the account is on its way to the library.
Carried(a) ==
  \/ \E f \in Flight : /\ flights[f].acct = a
                       /\ flights[f].phase = "persisting"
                       /\ flights[f].fresh \in live[a]
  \/ sibling.acct = a /\ sibling.fresh \in live[a]

\* Where the account's good token is.
TipOf(a) ==
  IF ~library[a].present THEN "deleted"
  ELSE IF library[a].gen \in live[a] THEN "recorded"
  ELSE IF Carried(a) THEN "moving" ELSE "lost"

Chain == INSTANCE TokenChain WITH
  tip <- [a \in Account |-> TipOf(a)],
  branded <- [a \in Account |-> library[a].flagged]

-----------------------------------------------------------------------------
(* Properties.                                                             *)

\* Whatever interleaves, the master, the other processes and the operator move
\* an account's one good token as TokenChain says: every step is a spending, a
\* recording, a loss by the world, a verdict on a dead record, a login or a
\* deletion.
ImplementsChain == Chain!ChainSpec

\* needsReauth is never a false accusation: the tip on record can never again
\* be refreshed, whoever raced with the refresh that failed.
FlaggedMeansDead ==
  \A a \in Account : library[a].flagged => library[a].gen \notin live[a]

\* The master never strands an account by itself: unless a chain died, an answer
\* or a write was lost or a process died, the tip on record is good - or its
\* successor is in the hands of whoever is about to write it.
NeverStranded ==
  \A a \in Account : (library[a].present /\ a \notin excused) =>
    \/ library[a].gen \in live[a]
    \/ \E f \in Flight : /\ flights[f].acct = a
                         /\ flights[f].phase = "persisting"
                         /\ flights[f].fresh \in live[a]
    \/ sibling.acct = a /\ sibling.fresh \in live[a]

\* Whoever gets an access token gets one whose refresh half is already on
\* record, or whose record the operator deleted.
HandedOutIsDurable ==
  [][\A w \in Worker : held'[w] # held[w] =>
       LET a == held'[w].acct
       IN  ~library'[a].present \/ library'[a].gen = held'[w].gen]_vars

\* No refresh undoes a deletion: whatever the master's flights and the sibling's
\* refresh write or judge when they end, a record deleted meanwhile stays as it
\* is (persistToken writes inside a record or not at all).  The keeper's capture,
\* which does bring one back, is AccountDesk's.
RefreshesRespectDeletion ==
  [][(\E f \in Flight : FlightStep(f)) \/ SiblingSaves \/ (\E b \in Account : SiblingJudges(b))
       => \A a \in Account : ~library[a].present => library'[a] = library[a]]_vars

\* When the master's own refresh kills the token under a lease, that lease is
\* already due for renewal: its worker is about to come back anyway.
RotationHitsOnlyDueLeases ==
  [][\A f \in Flight, w \in Worker :
       (Posting(f) /\ flights'[f].phase = "persisting"
          /\ held[w].acct = flights[f].acct /\ held[w].gen = flights[f].tip)
         => now >= held[w].expires - Buffer]_vars

\* Every lease request is answered, one way or another.
RequestsSettle == \A w \in Worker : (want[w] # None) ~> (want[w] = None)

\* A lease never outlives the master's own refresh point (INV-CLOUD-4): when
\* the master's refresh kills the token under a lease, the lease is over.
LeaseNeverOutlives ==
  [][\A f \in Flight, w \in Worker :
       (Posting(f) /\ flights'[f].phase = "persisting"
          /\ held[w].acct = flights[f].acct /\ held[w].gen = flights[f].tip)
         => now >= held[w].expires]_vars
=============================================================================
