---------------------------- MODULE LeaseService ----------------------------
(***************************************************************************)
(* The master's lease endpoint: src/master/leaseServer.ts choosing an      *)
(* account through src/master/scheduler.ts, awaiting a fresh token for it  *)
(* and only then booking the lease.                                        *)
(*                                                                         *)
(* Requests interleave between the choice and the booking; reading the     *)
(* roster and choosing from it are one step.                               *)
(*                                                                         *)
(* The cooldown book is seen through its interface: `cooling` holds the    *)
(* accounts for which isCoolingDown holds.  Which of several equally held  *)
(* accounts an election takes depends on utilization and on a rotation     *)
(* cursor; here it is any of them.                                         *)
(***************************************************************************)
EXTENDS Integers, FiniteSets, KvRecord

CONSTANTS
  Account,      \* the anthropic accounts of the pool
  Worker,       \* worker labels
  Request,      \* identities for the lease requests awaiting their token
  None,         \* "no account"
  MaxTime,      \* bound: the clock stops here
  MaxHolders,   \* MAX_ACCOUNT_HOLDERS
  Grace,        \* RATELIMIT_ADOPTION_GRACE_MS
  Ttl,          \* AFFINITY_TTL_MS
  MaxLease      \* the longest horizon a lease can have

ASSUME LeaseAssumption ==
  /\ None \notin Account
  /\ MaxTime \in Nat
  /\ MaxHolders \in Nat \ {0}
  /\ Grace \in Nat
  /\ Ttl \in Nat
  /\ MaxLease \in 1 .. Ttl

VARIABLES
  now,          \* the master's clock
  up,           \* is the master running?
  library,      \* the flags of each account in the account library
  cooling,      \* the accounts the cooldown book keeps out
  leases,       \* who holds what, in memory only
  affinity,     \* worker -> where it was last served
  storedAffinity, \* the same record in api.kv
  serving,      \* lease requests between their pick and their booking
  served,       \* history: the last lease each worker was given
  doubt         \* history: the disbelieved reports about a worker's present hold

memory == <<leases, affinity, serving>>
history == <<served, doubt>>
leaseVars == <<now, up, library, cooling, memory, storedAffinity, history>>

-----------------------------------------------------------------------------
Instant == 1 .. MaxTime + 1 + MaxLease

\* An account is drained by its owner ("excluded") or broken ("needs-reauth");
\* one that is both is refused exactly where a broken one is.
Flag == {"ok", "excluded", "needs-reauth"}

NoHold == [acct |-> None, expires |-> 0, pinned |-> FALSE, adopted |-> 0]
Hold == [acct : Account, expires : Instant, pinned : BOOLEAN, adopted : Instant]

Unbound == [acct |-> None, at |-> 0]
Binding == [acct : Account, at : Instant]

NoRequest == [worker |-> None, acct |-> None, pinned |-> FALSE]
Minting == [worker : Worker, acct : Account, pinned : BOOLEAN]

\* What the endpoint accepts: a pin comes with the account it is about, a
\* request without a name with the reason it was sent for.
NamedRequest == [worker : Worker, named : Account, pinned : BOOLEAN]
PlainRequest == [worker : Worker, reason : {"prelease", "ratelimit"},
                 claim : Account \cup {None}, avoid : SUBSET Account]

\* A report names its account; what its headers say of quota is evidence.
QuotaVerdict == {"quota", "not-quota", "unknown"}
RateLimitReport == [worker : Worker, acct : Account, verdict : QuotaVerdict]

NoDoubt == [first |-> 0, last |-> 0]

LeaseTypeOK ==
  /\ now \in 1 .. MaxTime + 1
  /\ up \in BOOLEAN
  /\ library \in [Account -> Flag]
  /\ cooling \subseteq Account
  /\ leases \in [Worker -> Hold \cup {NoHold}]
  /\ affinity \in [Worker -> Binding \cup {Unbound}]
  /\ storedAffinity \in [Worker -> Binding \cup {Unbound}]
  /\ serving \in [Request -> Minting \cup {NoRequest}]
  /\ served \in [Worker -> Binding \cup {Unbound}]
  /\ doubt \in [Worker -> [first : 0 .. MaxTime + 1, last : 0 .. MaxTime + 1]]

-----------------------------------------------------------------------------
(* The scheduler's reading of its books.                                   *)

Active(w) == leases[w].acct # None /\ leases[w].expires > now

\* activeLeases drops the lapsed holds it comes across.
SweptLeases == [w \in Worker |-> IF Active(w) THEN leases[w] ELSE NoHold]

Holders(a, asker) == {w \in Worker \ {asker} : Active(w) /\ leases[w].acct = a}

JustAdopted(w, a) ==
  /\ Active(w)
  /\ leases[w].acct = a
  /\ now - leases[w].adopted < Grace

Lapsed(b) == b.acct # None /\ now - b.at > Ttl

\* persistAffinity: lapsed bindings leave on the way out.
PersistAffinity(newAffinity) ==
  /\ affinity' = [w \in Worker |-> IF Lapsed(newAffinity[w]) THEN Unbound ELSE newAffinity[w]]
  /\ storedAffinity' = WriteKvRecord(storedAffinity, affinity', Unbound)

\* recallAffinity's answer.
RecallAffinity(w) == IF Lapsed(affinity[w]) THEN None ELSE affinity[w].acct

\* Mutant: recalling a binding uses it up.
RecallConsumes(w) == PersistAffinity([affinity EXCEPT ![w] = Unbound])

\* Its effect: a lapsed binding is dropped and the record written.
RecallEffect(w) ==
  IF Lapsed(affinity[w]) THEN PersistAffinity([affinity EXCEPT ![w] = Unbound])
  ELSE UNCHANGED <<affinity, storedAffinity>>

-----------------------------------------------------------------------------
(* Selection.                                                              *)

\* What an election asks of an account before it counts its holders.
Electable(a, avoid) == a \notin avoid /\ a \notin cooling /\ library[a] = "ok"

Candidates(w, avoid) ==
  {a \in Account : Electable(a, avoid) /\ Cardinality(Holders(a, w)) < MaxHolders}

FewestHolders(accounts, w) ==
  {a \in accounts : \A b \in accounts :
     Cardinality(Holders(a, w)) <= Cardinality(Holders(b, w))}

UnpinnedFirst(accounts, w) ==
  LET free == {a \in accounts : \A v \in Holders(a, w) : ~leases[v].pinned}
  IN  IF free # {} THEN free ELSE accounts

\* The accounts pickAccount may return.
Electees(w, avoid) == UnpinnedFirst(FewestHolders(Candidates(w, avoid), w), w)

\* Mutant: the incumbent is not asked whether it is cooling.
KeepableCooling(a, avoid) == a \in Account /\ library[a] = "ok" /\ a \notin avoid

\* pickIncumbent.
Keepable(a, avoid) == a \in Account /\ library[a] = "ok" /\ a \notin cooling /\ a \notin avoid

\* pickPreferred: a drained account may be named, a full one may not.
Nameable(a, w) ==
  /\ library[a] # "needs-reauth" /\ a \notin cooling
  /\ Cardinality(Holders(a, w)) < MaxHolders

-----------------------------------------------------------------------------
(* The endpoint.                                                           *)

\* serveLease up to its await: the token is being minted.
Mint(r, w, a, pinned) ==
  serving' = [serving EXCEPT ![r] = [worker |-> w, acct |-> a, pinned |-> pinned]]

\* Holds that lapsed take the history of their doubted reports with them.
DropLapsed(swept) ==
  /\ leases' = swept
  /\ doubt' = [w \in Worker |-> IF swept[w] = NoHold THEN NoDoubt ELSE doubt[w]]

\* The ranked pick, or 503 when no account qualifies.  Holders are counted, and
\* so lapsed holds dropped, once some account passes the cheaper tests.
Elect(r, w, avoid) ==
  /\ IF \E a \in Account : Electable(a, avoid) THEN DropLapsed(SweptLeases)
     ELSE UNCHANGED <<leases, doubt>>
  /\ IF Candidates(w, avoid) = {} THEN UNCHANGED serving
     ELSE \E a \in Electees(w, avoid) : Mint(r, w, a, FALSE)

CanServe(r) == up /\ serving[r] = NoRequest

\* A request that names one account, served.  Its refusals leave the state
\* alone, but for lapsed holds, which UsageView drops as well.
LeasePreferred(r, q) ==
  /\ Nameable(q.named, q.worker)
  /\ DropLapsed(SweptLeases)
  /\ Mint(r, q.worker, q.named, q.pinned)
  /\ UNCHANGED <<now, up, library, cooling, affinity, storedAffinity, served>>

\* A `ratelimit` request leaving account `current` (None when it names none):
\* handed straight back while the master disbelieves this worker about it.
LeaseRateLimit(r, w, current, avoid) ==
  /\ IF /\ current # None
        /\ JustAdopted(w, current)
        /\ library[current] # "needs-reauth"
        /\ current \notin cooling
     THEN Mint(r, w, current, FALSE) /\ UNCHANGED <<leases, doubt>>
     ELSE Elect(r, w, avoid \cup ({current} \ {None}))
  /\ UNCHANGED <<now, up, library, cooling, affinity, storedAffinity, served>>

\* A `prelease`: the account the worker claims, or else the one the master
\* remembers, is kept if it can be; only then is there an election.
LeasePrelease(r, w, claim, avoid) ==
  LET remembered == IF claim # None THEN claim ELSE RecallAffinity(w)
  IN  /\ IF claim # None THEN UNCHANGED <<affinity, storedAffinity>> ELSE RecallEffect(w)
      /\ IF Keepable(remembered, avoid)
         THEN Mint(r, w, remembered, FALSE) /\ UNCHANGED <<leases, doubt>>
         ELSE Elect(r, w, avoid)
      /\ UNCHANGED <<now, up, library, cooling, served>>

\* A lease request comes in.
HandleLease(r) ==
  /\ CanServe(r)
  /\ \/ \E q \in NamedRequest : LeasePreferred(r, q)
     \/ \E q \in PlainRequest :
          \/ q.reason = "ratelimit" /\ LeaseRateLimit(r, q.worker, q.claim, q.avoid)
          \/ q.reason = "prelease" /\ LeasePrelease(r, q.worker, q.claim, q.avoid)

\* Mutant: every booking counts as a move.
AdoptedAtServe(w, a) == now

\* The worker moved here now, unless its entry - swept or not - says earlier.
AdoptedAt(w, a) == IF leases[w].acct = a THEN leases[w].adopted ELSE now

\* recordLease, when the token comes back with horizon `expires`.
Book(r, expires) ==
  LET w == serving[r].worker
      a == serving[r].acct
  IN  /\ up /\ serving[r] # NoRequest
      /\ leases' = [leases EXCEPT ![w] = [acct |-> a, expires |-> expires,
                      pinned |-> serving[r].pinned, adopted |-> AdoptedAt(w, a)]]
      /\ PersistAffinity([affinity EXCEPT ![w] = [acct |-> a, at |-> now]])
      /\ serving' = [serving EXCEPT ![r] = NoRequest]
      /\ served' = [served EXCEPT ![w] = [acct |-> a, at |-> now]]
      /\ doubt' = [doubt EXCEPT ![w] = IF leases[w].acct = a THEN @ ELSE NoDoubt]
      /\ UNCHANGED <<now, up, library, cooling>>

\* The mint fails, or its horizon is already spent: 503, nothing booked.
MintFails(r) ==
  /\ up /\ serving[r] # NoRequest
  /\ serving' = [serving EXCEPT ![r] = NoRequest]
  /\ UNCHANGED <<now, up, library, cooling, leases, affinity, storedAffinity, history>>

\* A report whose headers deny quota is set aside before the scheduler sees it.
SetAside(p) == p.verdict = "not-quota"

\* A rate-limit report, believed or discarded (reportRateLimit).
ReportRateLimit(p) ==
  LET w == p.worker
      a == p.acct
  IN
  /\ up
  /\ ~SetAside(p)
  /\ IF JustAdopted(w, a)
     THEN /\ doubt' = [doubt EXCEPT ![w] = [first |-> IF @.first = 0 THEN now ELSE @.first,
                                            last |-> now]]
          /\ UNCHANGED cooling
     ELSE /\ cooling' = cooling \cup {a}
          /\ UNCHANGED doubt
  /\ UNCHANGED <<now, up, library, memory, storedAffinity, served>>

\* GET /usage names the holders, and drops lapsed holds while counting them.
UsageView ==
  /\ up
  /\ DropLapsed(SweptLeases)
  /\ UNCHANGED <<now, up, library, cooling, affinity, serving, storedAffinity, served>>

-----------------------------------------------------------------------------
(* The rest of the master, and time.                                       *)

\* A recovery timer or a sweep moves an account in or out of the cooldown book.
CooldownMoves(a) ==
  /\ up
  /\ cooling' = IF a \in cooling THEN cooling \ {a} ELSE cooling \cup {a}
  /\ UNCHANGED <<now, up, library, memory, storedAffinity, history>>

\* The account library is edited, by the refresher or by an operator.
SetFlag(a, flag) ==
  /\ library[a] # flag
  /\ library' = [library EXCEPT ![a] = flag]
  /\ UNCHANGED <<now, up, cooling, memory, storedAffinity, history>>

\* The lease book dies with the process; deadline-less cooldowns do too.
Crash ==
  /\ up
  /\ up' = FALSE
  /\ leases' = [w \in Worker |-> NoHold]
  /\ affinity' = [w \in Worker |-> Unbound]
  /\ serving' = [r \in Request |-> NoRequest]
  /\ doubt' = [w \in Worker |-> NoDoubt]
  /\ cooling' \in SUBSET cooling
  /\ UNCHANGED <<now, library, storedAffinity, served>>

\* Mutant: a binding exactly at its age limit is dropped on restart.
RestartImpatient ==
  /\ ~up
  /\ up' = TRUE
  /\ affinity' = [w \in Worker |-> IF now - storedAffinity[w].at >= Ttl THEN Unbound
                                   ELSE storedAffinity[w]]
  /\ UNCHANGED <<now, library, cooling, leases, serving, storedAffinity, history>>

\* createScheduler restores the bindings that have not lapsed.
Restart ==
  /\ ~up
  /\ up' = TRUE
  /\ affinity' = [w \in Worker |-> IF Lapsed(storedAffinity[w]) THEN Unbound
                                   ELSE storedAffinity[w]]
  /\ UNCHANGED <<now, library, cooling, leases, serving, storedAffinity, history>>

Tick ==
  /\ now <= MaxTime
  /\ now' = now + 1
  /\ UNCHANGED <<up, library, cooling, memory, storedAffinity, history>>

-----------------------------------------------------------------------------
LeaseInit ==
  /\ now = 1
  /\ up = TRUE
  /\ library = [a \in Account |-> "ok"]
  /\ cooling = {}
  /\ leases = [w \in Worker |-> NoHold]
  /\ affinity = [w \in Worker |-> Unbound]
  /\ storedAffinity = [w \in Worker |-> Unbound]
  /\ serving = [r \in Request |-> NoRequest]
  /\ served = [w \in Worker |-> Unbound]
  /\ doubt = [w \in Worker |-> NoDoubt]

LeaseNext ==
  \/ \E r \in Request : HandleLease(r)
  \/ \E r \in Request :
       \/ \E expires \in now + 1 .. now + MaxLease : Book(r, expires)
       \/ MintFails(r)
  \/ \E p \in RateLimitReport : ReportRateLimit(p)
  \/ UsageView
  \/ \E a \in Account : CooldownMoves(a) \/ \E flag \in Flag : SetFlag(a, flag)
  \/ Crash
  \/ Restart
  \/ Tick

LeaseSpec == LeaseInit /\ [][LeaseNext]_leaseVars

-----------------------------------------------------------------------------
(* Properties.                                                             *)

\* The master remembers where it last served a worker for as long as it
\* promises to - in its store even while it is down - whatever restarts, lapsed
\* neighbours and interleaved requests there were since.
Remembers ==
  \A w \in Worker : (served[w].acct # None /\ ~Lapsed(served[w])) =>
    /\ up => affinity[w] = served[w]
    /\ storedAffinity[w] = served[w]

\* What holds of the master's memory at every moment.
LeaseInv == LeaseTypeOK /\ Remembers

\* The affinity record never disagrees with the lease book about a live hold.
BooksAgree ==
  \A w \in Worker : Active(w) => affinity[w].acct = leases[w].acct

\* A worker whose account really is spent is not disbelieved for ever: reports
\* about one uninterrupted hold are discarded for less than the grace period,
\* however often the account is served back in between.
NoDisbeliefLoop ==
  \A w \in Worker : doubt[w].first # 0 => doubt[w].last - doubt[w].first < Grace

\* No request is ever started on an account whose quota is known to be spent,
\* whichever of the endpoint's ways to an account it takes: named, handed back,
\* kept, remembered or elected.
NeverPicksSpent ==
  [][\A r \in Request :
       (serving[r] = NoRequest /\ serving'[r] # NoRequest) =>
         serving'[r].acct \notin cooling]_leaseVars

\* MAX_ACCOUNT_HOLDERS is a hard ceiling on the workers let onto one account.
HardCeiling ==
  \A a \in Account : Cardinality(Holders(a, None)) <= MaxHolders
=============================================================================
