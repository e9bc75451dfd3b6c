----------------------------- MODULE LeaseProofs -----------------------------
(***************************************************************************)
(* Theorems about LeaseService, for any accounts, workers, requests and    *)
(* bounds.                                                                 *)
(***************************************************************************)
EXTENDS LeaseService, TLAPS

USE LeaseAssumption

Bindings == [Worker -> Binding \cup {Unbound}]

\* A binding outlives the hold it was made for: the hold's horizon is set when
\* the binding is, and no horizon is longer than AFFINITY_TTL_MS.
BindingsOutlive ==
  \A w \in Worker : Active(w) =>
    /\ affinity[w].acct = leases[w].acct
    /\ leases[w].expires <= affinity[w].at + MaxLease

\* Disbelieved reports fall between the adoption and the end of its grace.
DoubtsInGrace ==
  \A w \in Worker :
    /\ leases[w].adopted <= now
    /\ doubt[w].first # 0 => doubt[w].last - doubt[w].first < Grace
    /\ doubt[w].first # 0 => leases[w].adopted <= doubt[w].first

\* A stopped master holds nothing.
DownIsEmpty == up \/ leases = [w \in Worker |-> NoHold]

\* The inductive invariant.
LeaseIInv ==
  LeaseTypeOK /\ Remembers /\ BindingsOutlive /\ DoubtsInGrace /\ DownIsEmpty

-----------------------------------------------------------------------------
(* The records.                                                            *)

\* Writing a record over another leaves exactly the record (src/kvRecord.ts).
LEMMA WriteReplaces ==
  ASSUME NEW prev \in Bindings, NEW snapshot \in Bindings
  PROVE  WriteKvRecord(prev, snapshot, Unbound) = snapshot
<1>1. ASSUME NEW w \in Worker
      PROVE  WriteKvRecord(prev, snapshot, Unbound)[w] = snapshot[w]
  <2>1. CASE snapshot[w] # Unbound
    BY <2>1 DEF WriteKvRecord, KvMerge, Put, Keep, Drop, Bindings
  <2>2. CASE snapshot[w] = Unbound /\ prev[w] # Unbound
    BY <2>2 DEF WriteKvRecord, KvMerge, Put, Keep, Drop, Bindings
  <2>3. CASE snapshot[w] = Unbound /\ prev[w] = Unbound
    BY <2>3 DEF WriteKvRecord, KvMerge, Put, Keep, Drop, Bindings
  <2> QED
    BY <2>1, <2>2, <2>3
<1> DEFINE next == WriteKvRecord(prev, snapshot, Unbound)
<1>2. DOMAIN prev = Worker /\ snapshot = [w \in Worker |-> snapshot[w]]
  BY DEF Bindings
<1>3. next = [k \in DOMAIN prev |-> next[k]]
  BY Zenon DEF WriteKvRecord, KvMerge
<1> QED
  BY <1>1, <1>2, <1>3

\* persistAffinity drops what lapsed and leaves the store with the rest.
LEMMA PersistEffect ==
  ASSUME LeaseTypeOK, NEW new \in Bindings, PersistAffinity(new)
  PROVE  /\ affinity' \in Bindings
         /\ storedAffinity' = affinity'
         /\ \A w \in Worker : affinity'[w] = IF Lapsed(new[w]) THEN Unbound ELSE new[w]
<1>1. affinity' \in Bindings
  BY DEF PersistAffinity, Bindings
<1>2. storedAffinity \in Bindings
  BY DEF LeaseTypeOK, Bindings
<1> QED
  BY <1>1, <1>2, WriteReplaces DEF PersistAffinity

\* recallAffinity forgets nothing that has not lapsed.
LEMMA RecallKeeps ==
  ASSUME LeaseTypeOK, NEW w \in Worker, RecallEffect(w)
  PROVE  /\ affinity' \in Bindings /\ storedAffinity' \in Bindings
         /\ \A v \in Worker : ~Lapsed(affinity[v]) => affinity'[v] = affinity[v]
         /\ \A v \in Worker : storedAffinity'[v] \in {affinity'[v], storedAffinity[v]}
         /\ \A v \in Worker : ~Lapsed(affinity[v]) /\ storedAffinity[v] = affinity[v]
                                => storedAffinity'[v] = storedAffinity[v]
<1>1. CASE Lapsed(affinity[w])
  <2> DEFINE new == [affinity EXCEPT ![w] = Unbound]
  <2>1. new \in Bindings /\ \A v \in Worker \ {w} : new[v] = affinity[v]
    BY DEF LeaseTypeOK, Bindings
  <2>2. PersistAffinity(new)
    BY <1>1 DEF RecallEffect
  <2> HIDE DEF new
  <2> QED
    BY <1>1, <2>1, <2>2, PersistEffect
<1>2. CASE ~Lapsed(affinity[w])
  BY <1>2 DEF RecallEffect, LeaseTypeOK, Bindings
<1> QED
  BY <1>1, <1>2

-----------------------------------------------------------------------------
(* A request that comes in.                                                *)

\* What happens to the books when a request is taken in.
Taken(r) ==
  /\ UNCHANGED <<now, up, library, cooling, served>>
  /\ \/ UNCHANGED <<leases, doubt>>
     \/ DropLapsed(SweptLeases)
  /\ \/ UNCHANGED <<affinity, storedAffinity>>
     \/ \E w \in Worker : RecallEffect(w)
  /\ \/ UNCHANGED serving
     \/ \E w \in Worker, a \in Account \ cooling, pinned \in BOOLEAN : Mint(r, w, a, pinned)

\* An elected account passed every test an election makes.
LEMMA ElecteesElectable ==
  ASSUME NEW w \in Worker, NEW avoid, NEW a \in Electees(w, avoid)
  PROVE  a \in Account /\ Electable(a, avoid)
BY DEF Electees, UnpinnedFirst, FewestHolders, Candidates

LEMMA ElectIsTaken ==
  ASSUME NEW r \in Request, NEW w \in Worker, NEW avoid, Elect(r, w, avoid)
  PROVE  /\ UNCHANGED <<leases, doubt>> \/ DropLapsed(SweptLeases)
         /\ \/ UNCHANGED serving
            \/ \E a \in Account \ cooling : Mint(r, w, a, FALSE)
<1>1. UNCHANGED <<leases, doubt>> \/ DropLapsed(SweptLeases)
  BY DEF Elect
<1>2. CASE Candidates(w, avoid) = {}
  BY <1>1, <1>2 DEF Elect
<1>3. CASE Candidates(w, avoid) # {}
  <2>1. PICK a \in Electees(w, avoid) : Mint(r, w, a, FALSE)
    BY <1>3 DEF Elect
  <2> QED
    BY <1>1, <2>1, ElecteesElectable DEF Electable
<1> QED
  BY <1>2, <1>3

\* Whichever way to an account the endpoint takes, the account is not cooling.
LEMMA HandleIsTaken ==
  ASSUME LeaseTypeOK, NEW r \in Request, HandleLease(r)
  PROVE  Taken(r)
<1>1. ASSUME NEW q \in NamedRequest, LeasePreferred(r, q) PROVE Taken(r)
  BY <1>1 DEF LeasePreferred, Nameable, NamedRequest, Taken
<1>2. ASSUME NEW q \in PlainRequest, LeaseRateLimit(r, q.worker, q.claim, q.avoid)
      PROVE  Taken(r)
  <2>1. q.worker \in Worker /\ q.claim \in Account \cup {None}
    BY DEF PlainRequest
  <2>2. CASE Elect(r, q.worker, q.avoid \cup ({q.claim} \ {None}))
    BY <1>2, <2>1, <2>2, ElectIsTaken DEF LeaseRateLimit, Taken
  <2>3. CASE /\ q.claim \notin cooling /\ q.claim # None
             /\ Mint(r, q.worker, q.claim, FALSE) /\ UNCHANGED <<leases, doubt>>
    BY <1>2, <2>1, <2>3 DEF LeaseRateLimit, Taken
  <2> QED
    BY <1>2, <2>2, <2>3 DEF LeaseRateLimit
<1>3. ASSUME NEW q \in PlainRequest, LeasePrelease(r, q.worker, q.claim, q.avoid)
      PROVE  Taken(r)
  <2> DEFINE remembered == IF q.claim # None THEN q.claim ELSE RecallAffinity(q.worker)
  <2>1. q.worker \in Worker
    BY DEF PlainRequest
  <2>2. UNCHANGED <<affinity, storedAffinity>> \/ \E w \in Worker : RecallEffect(w)
    BY <1>3, <2>1 DEF LeasePrelease
  <2>3. CASE Elect(r, q.worker, q.avoid)
    BY <1>3, <2>1, <2>2, <2>3, ElectIsTaken DEF LeasePrelease, Taken
  <2>4. CASE /\ Keepable(remembered, q.avoid)
             /\ Mint(r, q.worker, remembered, FALSE) /\ UNCHANGED <<leases, doubt>>
    <3>1. remembered \in Account \ cooling
      BY <2>4 DEF Keepable
    <3> QED
      BY <1>3, <2>1, <2>2, <2>4, <3>1 DEF LeasePrelease, Taken
  <2> QED
    BY <1>3, <2>3, <2>4 DEF LeasePrelease
<1> QED
  BY <1>1, <1>2, <1>3 DEF HandleLease

\* No request is started on an account whose quota is known to be spent.
LEMMA PickStep ==
  ASSUME LeaseTypeOK, [LeaseNext]_leaseVars, NEW r \in Request,
         serving[r] = NoRequest, serving'[r] # NoRequest
  PROVE  serving'[r].acct \notin cooling
<1>1. ASSUME NEW q \in Request, HandleLease(q) PROVE serving'[r].acct \notin cooling
  BY <1>1, HandleIsTaken DEF Taken, Mint, LeaseTypeOK
<1>2. ASSUME NEW q \in Request,
             (\E expires \in now + 1 .. now + MaxLease : Book(q, expires)) \/ MintFails(q)
      PROVE  FALSE
  BY <1>2 DEF Book, MintFails, LeaseTypeOK
<1>3. CASE Crash
  BY <1>3 DEF Crash
<1>4. CASE UNCHANGED serving
  BY <1>4
<1> QED
  BY <1>1, <1>2, <1>3, <1>4 DEF LeaseNext, ReportRateLimit, UsageView, CooldownMoves,
       SetFlag, Restart, Tick, leaseVars, memory

-----------------------------------------------------------------------------
(* Each action keeps the inductive invariant.                              *)

\* Dropping lapsed holds changes no live one.
LEMMA SweepEffect ==
  ASSUME LeaseTypeOK, UNCHANGED <<leases, doubt>> \/ DropLapsed(SweptLeases)
  PROVE  /\ leases' \in [Worker -> Hold \cup {NoHold}]
         /\ doubt' \in [Worker -> [first : 0 .. MaxTime + 1, last : 0 .. MaxTime + 1]]
         /\ \A w \in Worker : \/ leases'[w] = leases[w] /\ doubt'[w] = doubt[w]
                              \/ leases'[w] = NoHold /\ doubt'[w] = NoDoubt
<1>1. CASE UNCHANGED <<leases, doubt>>
  BY <1>1 DEF LeaseTypeOK
<1>2. CASE DropLapsed(SweptLeases)
  <2>1. leases' \in [Worker -> Hold \cup {NoHold}]
    BY <1>2 DEF LeaseTypeOK, DropLapsed, SweptLeases
  <2>2. NoDoubt \in [first : 0 .. MaxTime + 1, last : 0 .. MaxTime + 1]
    BY DEF NoDoubt
  <2>3. doubt' \in [Worker -> [first : 0 .. MaxTime + 1, last : 0 .. MaxTime + 1]]
    BY <1>2, <2>2 DEF LeaseTypeOK, DropLapsed
  <2>4. ASSUME NEW w \in Worker
        PROVE  \/ leases'[w] = leases[w] /\ doubt'[w] = doubt[w]
               \/ leases'[w] = NoHold /\ doubt'[w] = NoDoubt
    <3>1. leases'[w] = SweptLeases[w]
      BY <1>2 DEF DropLapsed
    <3>2. SweptLeases[w] \in {leases[w], NoHold}
      BY DEF SweptLeases
    <3>3. doubt'[w] = IF SweptLeases[w] = NoHold THEN NoDoubt ELSE doubt[w]
      BY <1>2 DEF DropLapsed
    <3> QED
      BY <3>1, <3>2, <3>3
  <2> QED
    BY <2>1, <2>3, <2>4
<1> QED
  BY <1>1, <1>2

\* A live hold keeps its binding when only lapsed things are dropped.
LEMMA SweepKeeps ==
  ASSUME LeaseIInv, up, now' = now, up' = up, UNCHANGED <<library, cooling, served>>,
         UNCHANGED <<leases, doubt>> \/ DropLapsed(SweptLeases),
         UNCHANGED <<affinity, storedAffinity>> \/ \E w \in Worker : RecallEffect(w),
         serving' \in [Request -> Minting \cup {NoRequest}]
  PROVE  LeaseIInv'
<1>1. /\ affinity' \in Bindings /\ storedAffinity' \in Bindings
      /\ \A v \in Worker : ~Lapsed(affinity[v]) => affinity'[v] = affinity[v]
      /\ \A v \in Worker : ~Lapsed(affinity[v]) /\ storedAffinity[v] = affinity[v]
                             => storedAffinity'[v] = storedAffinity[v]
  <2>1. CASE UNCHANGED <<affinity, storedAffinity>>
    BY <2>1 DEF LeaseIInv, LeaseTypeOK, Bindings
  <2>2. ASSUME NEW w \in Worker, RecallEffect(w)
        PROVE  /\ affinity' \in Bindings /\ storedAffinity' \in Bindings
               /\ \A v \in Worker : ~Lapsed(affinity[v]) => affinity'[v] = affinity[v]
               /\ \A v \in Worker : ~Lapsed(affinity[v]) /\ storedAffinity[v] = affinity[v]
                                      => storedAffinity'[v] = storedAffinity[v]
    BY <2>2, RecallKeeps DEF LeaseIInv
  <2> QED
    BY <2>1, <2>2
<1>2. LeaseTypeOK
  BY DEF LeaseIInv
<1>3. LeaseTypeOK'
  BY <1>1, <1>2, SweepEffect DEF LeaseTypeOK, Bindings
<1>4. Remembers'
  BY <1>1 DEF LeaseIInv, Remembers, Lapsed
<1>5. BindingsOutlive'
  <2> SUFFICES ASSUME NEW w \in Worker, Active(w)'
               PROVE  /\ affinity'[w].acct = leases'[w].acct
                      /\ leases'[w].expires <= affinity'[w].at + MaxLease
    BY DEF BindingsOutlive
  <2>1. leases'[w] = leases[w]
    BY <1>2, SweepEffect DEF Active, NoHold
  <2>2. Active(w)
    BY <2>1 DEF Active
  <2>3. ~Lapsed(affinity[w])
    <3>1. leases[w].expires <= affinity[w].at + MaxLease /\ leases[w].expires > now
      BY <2>2 DEF Active, LeaseIInv, BindingsOutlive
    <3>2. leases[w].expires \in Int /\ affinity[w].at \in Int /\ now \in Int
      BY <1>2 DEF LeaseTypeOK, Hold, NoHold, Binding, Unbound, Instant
    <3> QED
      BY <3>1, <3>2 DEF Lapsed
  <2> QED
    BY <1>1, <2>1, <2>2, <2>3 DEF LeaseIInv, BindingsOutlive
<1>6. DoubtsInGrace'
  <2>1. NoHold.adopted <= now /\ NoDoubt.first = 0
    BY <1>2 DEF NoHold, NoDoubt, LeaseTypeOK
  <2> QED
    BY <1>2, <2>1, SweepEffect DEF LeaseIInv, DoubtsInGrace
<1>7. DownIsEmpty'
  BY DEF DownIsEmpty
<1> QED
  BY <1>3, <1>4, <1>5, <1>6, <1>7 DEF LeaseIInv

LEMMA HandleKeeps ==
  ASSUME LeaseIInv, NEW r \in Request, HandleLease(r)
  PROVE  LeaseIInv'
<1>1. Taken(r) /\ up
  BY HandleIsTaken DEF LeaseIInv, HandleLease, CanServe
<1>2. serving' \in [Request -> Minting \cup {NoRequest}]
  BY <1>1 DEF Taken, Mint, Minting, LeaseIInv, LeaseTypeOK
<1> QED
  BY <1>1, <1>2, SweepKeeps DEF Taken

LEMMA BookKeeps ==
  ASSUME LeaseIInv, NEW r \in Request, NEW expires \in now + 1 .. now + MaxLease, Book(r, expires)
  PROVE  LeaseIInv'
<1> DEFINE w == serving[r].worker
           a == serving[r].acct
           hold == [acct |-> a, expires |-> expires,
                    pinned |-> serving[r].pinned, adopted |-> AdoptedAt(w, a)]
           bind == [acct |-> a, at |-> now]
           new == [affinity EXCEPT ![w] = bind]
<1>1. LeaseTypeOK /\ now \in 1 .. MaxTime + 1 /\ up
  BY DEF LeaseIInv, LeaseTypeOK, Book
<1>2. w \in Worker /\ a \in Account /\ serving[r].pinned \in BOOLEAN
  BY DEF LeaseIInv, LeaseTypeOK, Book, Minting
<1>3. AdoptedAt(w, a) \in Instant /\ AdoptedAt(w, a) <= now
  <2>1. leases[w].acct = a => leases[w] \in Hold /\ leases[w].adopted <= now
    BY <1>1, <1>2 DEF LeaseIInv, LeaseTypeOK, NoHold, DoubtsInGrace
  <2> QED
    BY <1>1, <2>1 DEF AdoptedAt, Hold, Instant
<1>4. hold \in Hold /\ bind \in Binding /\ ~Lapsed(bind)
  BY <1>1, <1>2, <1>3 DEF Hold, Binding, Instant, Lapsed
<1>5. /\ new \in Bindings
      /\ new[w] = bind
      /\ \A v \in Worker \ {w} : new[v] = affinity[v]
  BY <1>1, <1>2, <1>4 DEF Bindings, LeaseTypeOK
<1>6. /\ affinity' \in Bindings /\ storedAffinity' = affinity'
      /\ \A v \in Worker : affinity'[v] = IF Lapsed(new[v]) THEN Unbound ELSE new[v]
  <2>1. PersistAffinity(new)
    BY DEF Book
  <2> HIDE DEF new
  <2> QED
    BY <1>1, <1>5, <2>1, PersistEffect
<1>7. /\ leases' = [leases EXCEPT ![w] = hold]
      /\ served' = [served EXCEPT ![w] = bind]
      /\ serving' = [serving EXCEPT ![r] = NoRequest]
      /\ doubt' = [doubt EXCEPT ![w] = IF leases[w].acct = a THEN @ ELSE NoDoubt]
      /\ UNCHANGED <<now, up, library, cooling>>
  BY DEF Book
<1> HIDE DEF new, hold, bind
<1>8. LeaseTypeOK'
  <2>1. NoDoubt \in [first : 0 .. MaxTime + 1, last : 0 .. MaxTime + 1]
    BY DEF NoDoubt
  <2> QED
    BY <1>1, <1>2, <1>4, <1>6, <1>7, <2>1 DEF LeaseTypeOK, Bindings
<1>9. Remembers'
  <2> SUFFICES ASSUME NEW v \in Worker, served'[v].acct # None, ~Lapsed(served'[v])
               PROVE  affinity'[v] = served'[v]
    BY <1>6, <1>7 DEF Remembers, Lapsed
  <2>1. CASE v = w
    BY <1>2, <1>4, <1>5, <1>6, <1>7, <2>1 DEF LeaseIInv, LeaseTypeOK
  <2>2. CASE v # w
    BY <1>1, <1>5, <1>6, <1>7, <2>2 DEF LeaseIInv, LeaseTypeOK, Remembers
  <2> QED
    BY <2>1, <2>2
<1>10. BindingsOutlive'
  <2> SUFFICES ASSUME NEW v \in Worker, Active(v)'
               PROVE  /\ affinity'[v].acct = leases'[v].acct
                      /\ leases'[v].expires <= affinity'[v].at + MaxLease
    BY DEF BindingsOutlive
  <2>1. CASE v = w
    <3>1. affinity'[w] = bind /\ leases'[w] = hold
      BY <1>1, <1>2, <1>4, <1>5, <1>6, <1>7 DEF LeaseTypeOK
    <3> QED
      BY <1>1, <2>1, <3>1 DEF hold, bind
  <2>2. CASE v # w
    <3>1. leases'[v] = leases[v] /\ Active(v)
      BY <1>1, <1>7, <2>2 DEF LeaseTypeOK, Active
    <3>2. leases[v].expires <= affinity[v].at + MaxLease /\ leases[v].expires > now
      BY <3>1 DEF Active, LeaseIInv, BindingsOutlive
    <3>3. leases[v].expires \in Int /\ affinity[v].at \in Int /\ now \in Int
      BY <1>1 DEF LeaseTypeOK, Hold, NoHold, Binding, Unbound, Instant
    <3>4. affinity'[v] = affinity[v]
      BY <1>5, <1>6, <2>2, <3>2, <3>3 DEF Lapsed
    <3> QED
      BY <3>1, <3>4 DEF LeaseIInv, BindingsOutlive
  <2> QED
    BY <2>1, <2>2
<1>11. DoubtsInGrace'
  <2>1. \A v \in Worker \ {w} : leases'[v] = leases[v] /\ doubt'[v] = doubt[v]
    BY <1>1, <1>7 DEF LeaseTypeOK
  <2>2. leases'[w] = hold /\ doubt'[w] = IF leases[w].acct = a THEN doubt[w] ELSE NoDoubt
    BY <1>1, <1>2, <1>7 DEF LeaseTypeOK
  <2>3. hold.adopted = AdoptedAt(w, a)
    BY DEF hold
  <2> QED
    BY <1>1, <1>2, <1>3, <1>7, <2>1, <2>2, <2>3 DEF LeaseIInv, DoubtsInGrace, AdoptedAt, NoDoubt
<1>12. DownIsEmpty'
  BY <1>1, <1>7 DEF DownIsEmpty
<1> QED
  BY <1>8, <1>9, <1>10, <1>11, <1>12 DEF LeaseIInv

LEMMA ReportKeeps ==
  ASSUME LeaseIInv, NEW p \in RateLimitReport, ReportRateLimit(p)
  PROVE  LeaseIInv'
<1> DEFINE w == p.worker
           a == p.acct
<1>1. LeaseTypeOK /\ w \in Worker /\ a \in Account
  BY DEF LeaseIInv, RateLimitReport
<1>2. UNCHANGED <<now, up, library, memory, storedAffinity, served>>
  BY DEF ReportRateLimit
<1>3. CASE JustAdopted(w, a)
  <2>1. /\ doubt' = [doubt EXCEPT ![w] = [first |-> IF @.first = 0 THEN now ELSE @.first,
                                          last |-> now]]
        /\ cooling' = cooling
    BY <1>3 DEF ReportRateLimit
  <2>2. LeaseTypeOK'
    BY <1>1, <1>2, <2>1 DEF LeaseTypeOK, memory
  <2>3. DoubtsInGrace'
    <3>1. \A v \in Worker \ {w} : doubt'[v] = doubt[v]
      BY <1>1, <2>1 DEF LeaseTypeOK
    <3>2. doubt'[w] = [first |-> IF doubt[w].first = 0 THEN now ELSE doubt[w].first, last |-> now]
      BY <1>1, <2>1 DEF LeaseTypeOK
    <3>3. leases[w].adopted \in Int /\ now \in Int /\ doubt[w].first \in Int
      BY <1>1 DEF LeaseTypeOK, Hold, NoHold, Instant
    <3>4. now - leases[w].adopted < Grace
      BY <1>3 DEF JustAdopted
    <3> QED
      BY <1>1, <1>2, <3>1, <3>2, <3>3, <3>4 DEF LeaseIInv, DoubtsInGrace, memory
  <2> QED
    BY <1>2, <2>2, <2>3 DEF LeaseIInv, Remembers, BindingsOutlive, DownIsEmpty, Active, Lapsed, memory
<1>4. CASE ~JustAdopted(w, a)
  <2>1. cooling' = cooling \cup {a} /\ doubt' = doubt
    BY <1>4 DEF ReportRateLimit
  <2> QED
    BY <1>1, <1>2, <2>1 DEF LeaseIInv, LeaseTypeOK, Remembers, BindingsOutlive, DoubtsInGrace,
         DownIsEmpty, Active, Lapsed, memory
<1> QED
  BY <1>3, <1>4

LEMMA CrashKeeps ==
  ASSUME LeaseIInv, Crash
  PROVE  LeaseIInv'
<1>1. LeaseTypeOK /\ now \in Nat
  BY DEF LeaseIInv, LeaseTypeOK
<1>2. LeaseTypeOK'
  <2>1. NoDoubt \in [first : 0 .. MaxTime + 1, last : 0 .. MaxTime + 1]
    BY DEF NoDoubt
  <2> QED
    BY <1>1, <2>1 DEF LeaseTypeOK, Crash
<1>3. \A w \in Worker : leases'[w] = NoHold /\ doubt'[w] = NoDoubt
  BY DEF Crash
<1>4. Remembers'
  BY DEF LeaseIInv, Remembers, Crash, Lapsed
<1>5. BindingsOutlive' /\ DoubtsInGrace' /\ DownIsEmpty'
  BY <1>1, <1>3 DEF BindingsOutlive, DoubtsInGrace, DownIsEmpty, Active, NoHold, NoDoubt, Crash
<1> QED
  BY <1>2, <1>4, <1>5 DEF LeaseIInv

LEMMA RestartKeeps ==
  ASSUME LeaseIInv, Restart
  PROVE  LeaseIInv'
<1>1. LeaseTypeOK'
  BY DEF LeaseIInv, LeaseTypeOK, Restart, history
<1>2. Remembers'
  BY DEF LeaseIInv, LeaseTypeOK, Remembers, Restart, Lapsed, history
<1>3. \A w \in Worker : leases'[w] = NoHold
  BY DEF LeaseIInv, DownIsEmpty, Restart
<1>4. BindingsOutlive' /\ DownIsEmpty'
  BY <1>3 DEF BindingsOutlive, DownIsEmpty, Active, NoHold, Restart
<1>5. DoubtsInGrace'
  BY DEF LeaseIInv, DoubtsInGrace, Restart, history
<1> QED
  BY <1>1, <1>2, <1>4, <1>5 DEF LeaseIInv

LEMMA TickKeeps ==
  ASSUME LeaseIInv, Tick
  PROVE  LeaseIInv'
<1>1. LeaseTypeOK /\ now' = now + 1 /\ now \in 1 .. MaxTime
      /\ UNCHANGED <<up, library, cooling, memory, storedAffinity, history>>
  BY DEF LeaseIInv, LeaseTypeOK, Tick
<1>2. LeaseTypeOK'
  BY <1>1 DEF LeaseTypeOK, memory, history
<1>3. Remembers'
  <2>1. \A v \in Worker : served[v].at \in Int
    BY <1>1 DEF LeaseTypeOK, Binding, Unbound, Instant
  <2>2. \A v \in Worker : Lapsed(served[v]) => Lapsed(served[v])'
    BY <1>1, <2>1 DEF Lapsed, history
  <2> QED
    BY <1>1, <2>2 DEF LeaseIInv, Remembers, memory, history
<1>4. BindingsOutlive'
  <2>1. \A v \in Worker : leases[v].expires \in Int
    BY <1>1 DEF LeaseTypeOK, Hold, NoHold, Instant
  <2>2. \A v \in Worker : Active(v)' => Active(v)
    BY <1>1, <2>1 DEF Active, memory
  <2> QED
    BY <1>1, <2>2 DEF LeaseIInv, BindingsOutlive, memory
<1>5. DoubtsInGrace'
  <2>1. \A v \in Worker : leases[v].adopted \in Int
    BY <1>1 DEF LeaseTypeOK, Hold, NoHold, Instant
  <2> QED
    BY <1>1, <2>1 DEF LeaseIInv, DoubtsInGrace, memory, history
<1> QED
  BY <1>1, <1>2, <1>3, <1>4, <1>5 DEF LeaseIInv, DownIsEmpty, memory

\* Steps that touch neither the holds nor the bindings.
LEMMA RestKeeps ==
  ASSUME LeaseIInv, UNCHANGED <<now, up, leases, affinity, storedAffinity, served, doubt>>,
         library' \in [Account -> Flag], cooling' \subseteq Account,
         serving' \in [Request -> Minting \cup {NoRequest}]
  PROVE  LeaseIInv'
BY DEF LeaseIInv, LeaseTypeOK, Remembers, BindingsOutlive, DoubtsInGrace, DownIsEmpty, Active, Lapsed

LEMMA LeaseStep ==
  ASSUME LeaseIInv, [LeaseNext]_leaseVars
  PROVE  LeaseIInv'
<1>1. LeaseTypeOK
  BY DEF LeaseIInv
<1>2. ASSUME NEW r \in Request, HandleLease(r) PROVE LeaseIInv'
  BY <1>2, HandleKeeps
<1>3. ASSUME NEW r \in Request, NEW expires \in now + 1 .. now + MaxLease, Book(r, expires)
      PROVE  LeaseIInv'
  BY <1>3, BookKeeps
<1>4. ASSUME NEW r \in Request, MintFails(r) PROVE LeaseIInv'
  <2>1. serving' \in [Request -> Minting \cup {NoRequest}]
    BY <1>1, <1>4 DEF MintFails, LeaseTypeOK
  <2> QED
    BY <1>1, <1>4, <2>1, RestKeeps DEF MintFails, LeaseTypeOK, history
<1>5. ASSUME NEW p \in RateLimitReport, ReportRateLimit(p) PROVE LeaseIInv'
  BY <1>5, ReportKeeps
<1>6. CASE UsageView
  BY <1>1, <1>6, SweepKeeps DEF UsageView, LeaseTypeOK
<1>7. ASSUME NEW a \in Account, CooldownMoves(a) PROVE LeaseIInv'
  BY <1>1, <1>7, RestKeeps DEF CooldownMoves, LeaseTypeOK, memory, history
<1>8. ASSUME NEW a \in Account, NEW flag \in Flag, SetFlag(a, flag) PROVE LeaseIInv'
  <2>1. library' \in [Account -> Flag]
    BY <1>1, <1>8 DEF SetFlag, LeaseTypeOK
  <2> QED
    BY <1>1, <1>8, <2>1, RestKeeps DEF SetFlag, LeaseTypeOK, memory, history
<1>9. CASE Crash \/ Restart \/ Tick
  BY <1>9, CrashKeeps, RestartKeeps, TickKeeps
<1>10. CASE UNCHANGED leaseVars
  BY <1>1, <1>10, RestKeeps DEF leaseVars, memory, history, LeaseTypeOK
<1> QED
  BY <1>2, <1>3, <1>4, <1>5, <1>6, <1>7, <1>8, <1>9, <1>10 DEF LeaseNext

-----------------------------------------------------------------------------
(* The theorems.                                                           *)

LEMMA LeaseStart == LeaseInit => LeaseIInv
<1> SUFFICES ASSUME LeaseInit PROVE LeaseIInv
  OBVIOUS
<1>1. LeaseTypeOK
  BY DEF LeaseInit, LeaseTypeOK, NoDoubt, Flag
<1>2. Remembers
  BY DEF LeaseInit, Remembers, Unbound
<1> QED
  BY <1>1, <1>2 DEF LeaseInit, LeaseIInv, BindingsOutlive, DoubtsInGrace, DownIsEmpty,
       Active, NoHold, NoDoubt

LEMMA LeaseInductive == LeaseSpec => []LeaseIInv
<1>1. LeaseIInv /\ [LeaseNext]_leaseVars => LeaseIInv'
  BY LeaseStep
<1> QED
  BY <1>1, LeaseStart, PTL DEF LeaseSpec

\* The master remembers where it last served a worker for as long as it
\* promises, through restarts, lapsed neighbours and interleaved requests.
THEOREM MasterRemembers == LeaseSpec => []LeaseInv
<1>1. LeaseIInv => LeaseInv
  BY DEF LeaseIInv, LeaseInv
<1> QED
  BY <1>1, LeaseInductive, PTL

\* The affinity record never disagrees with the lease book about a live hold.
THEOREM RecordsAgree == LeaseSpec => []BooksAgree
<1>1. LeaseIInv => BooksAgree
  BY DEF LeaseIInv, BindingsOutlive, BooksAgree
<1> QED
  BY <1>1, LeaseInductive, PTL

\* Reports about one uninterrupted hold are disbelieved for less than the
\* grace period, however often the account is served back in between.
THEOREM DisbeliefEnds == LeaseSpec => []NoDisbeliefLoop
<1>1. LeaseIInv => NoDisbeliefLoop
  BY DEF LeaseIInv, DoubtsInGrace, NoDisbeliefLoop
<1> QED
  BY <1>1, LeaseInductive, PTL

\* No request is ever started on an account whose quota is known to be spent,
\* by whichever of the endpoint's ways to an account.
THEOREM SpentIsNeverPicked == LeaseSpec => NeverPicksSpent
<1>1. LeaseIInv /\ [LeaseNext]_leaseVars =>
        [\A r \in Request :
           (serving[r] = NoRequest /\ serving'[r] # NoRequest) =>
             serving'[r].acct \notin cooling]_leaseVars
  BY PickStep DEF LeaseIInv
<1> QED
  BY <1>1, LeaseInductive, PTL DEF LeaseSpec, NeverPicksSpent
=============================================================================
