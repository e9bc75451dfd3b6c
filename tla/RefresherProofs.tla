--------------------------- MODULE RefresherProofs ---------------------------
(***************************************************************************)
(* Theorems about Refresher, for any accounts, workers and time constants. *)
(* First what holds of every generation of a token (IInv); then that the   *)
(* master strands no account by itself (CInv); then that Refresher         *)
(* implements TokenChain.                                                  *)
(*                                                                         *)
(* The inductive invariant IInv follows one generation of an account       *)
(* through every place that remembers it: the vendor, the account library, *)
(* a flight, another process and a lease.                                  *)
(***************************************************************************)
EXTENDS Refresher, TLAPS

USE RefresherAssumption

\* A record names a generation that was minted; a flagged one, a dead one.
RecordOK(r, a, m, l) ==
  r.present => /\ r.gen <= m[a]
               /\ r.flagged => r.gen \notin l[a]

\* A flight that posts or is about to post again holds a token which is due for
\* rotation; one that was told invalid_grant, a dead one.
FlightOK(x, m, e, l, t) ==
  /\ x.phase \in {"posting", "pausing", "revoked"} => x.tip \in Gen /\ x.tip <= m[x.acct]
  /\ x.phase \in {"posting", "pausing"} => e[x.acct][x.tip] - t <= Threshold + Buffer
  /\ x.phase = "pausing" => x.attempt < MaxAttempts
  /\ x.phase = "revoked" => x.tip \notin l[x.acct]
  /\ x.phase = "persisting" => x.fresh \in Gen /\ x.fresh <= m[x.acct]

\* A lease ends a rotation threshold before its token does.
LeaseOK(h, m, e) ==
  h # NoLease => h.gen <= m[h.acct] /\ h.expires = e[h.acct][h.gen] - Threshold

VendorInv == \A a \in Account : \A g \in live[a] : g <= minted[a]
LibraryInv == \A a \in Account : RecordOK(library[a], a, minted, live)
SiblingInv ==
  sibling # NoSibling => /\ library[sibling.acct].present
                         /\ sibling.fresh <= minted[sibling.acct]
FlightInv ==
  \A f \in Flight : flights[f] # NoFlight => FlightOK(flights[f], minted, expiry, live, now)
LeaseInv == \A w \in Worker : LeaseOK(held[w], minted, expiry)

IInv == TypeOK /\ VendorInv /\ LibraryInv /\ SiblingInv /\ FlightInv /\ LeaseInv

(***************************************************************************)
(* What the vendor does to generations it has already minted: nothing,     *)
(* except that it stops accepting them.                                    *)
(***************************************************************************)
VendorStep ==
  /\ minted' \in [Account -> 0 .. MaxGen]
  /\ expiry' \in [Account -> [Gen -> Instant]]
  /\ live' \in [Account -> SUBSET Gen]
  /\ \A a \in Account :
       /\ minted[a] <= minted'[a]
       /\ \A g \in live'[a] : g <= minted'[a]
       /\ \A g \in Gen : g <= minted[a] => /\ expiry'[a][g] = expiry[a][g]
                                           /\ g \in live'[a] => g \in live[a]

\* A rotation mints one new generation and leaves the others as they are.
LEMMA RotateStep ==
  ASSUME TypeOK, VendorInv, NEW a \in Account, NEW tip \in 0 .. MaxGen, Rotate(a, tip)
  PROVE  /\ VendorStep
         /\ Newest(a) \in Gen
         /\ Newest(a) = minted[a] + 1
         /\ Newest(a) \in live'[a]
<1>1. PICK lifetime \in Lifetimes :
        expiry' = [expiry EXCEPT ![a][minted[a] + 1] = now + lifetime]
  BY DEF Rotate
<1>2. /\ minted[a] \in 0 .. MaxGen /\ minted[a] < MaxGen
      /\ minted' = [minted EXCEPT ![a] = minted[a] + 1]
      /\ live' = [live EXCEPT ![a] = (live[a] \ {tip}) \cup {minted[a] + 1}]
      /\ minted \in [Account -> 0 .. MaxGen]
      /\ expiry \in [Account -> [Gen -> Nat]]
      /\ live \in [Account -> SUBSET Gen]
      /\ now + lifetime \in Nat
  BY DEF Rotate, TypeOK, Instant
<1>3. minted[a] + 1 \in Gen
  BY <1>2 DEF Gen
<1>4. /\ minted' \in [Account -> 0 .. MaxGen]
      /\ live' \in [Account -> SUBSET Gen]
  BY <1>2, <1>3 DEF Gen
<1>5. expiry' \in [Account -> [Gen -> Nat]]
  BY <1>1, <1>2, <1>3
<1>6. ASSUME NEW b \in Account
      PROVE  /\ minted[b] <= minted'[b]
             /\ \A g \in live'[b] : g <= minted'[b]
             /\ \A g \in Gen : g <= minted[b] => /\ expiry'[b][g] = expiry[b][g]
                                                 /\ g \in live'[b] => g \in live[b]
  <2>1. minted[b] \in 0 .. MaxGen /\ minted[b] <= minted'[b]
    BY <1>2
  <2>2. \A g \in live'[b] : g <= minted'[b]
    BY <1>2 DEF VendorInv, Gen
  <2>3. \A g \in Gen : g <= minted[b] => expiry'[b][g] = expiry[b][g]
    BY <1>1, <1>2, <1>3 DEF Gen
  <2>4. \A g \in Gen : g <= minted[b] => (g \in live'[b] => g \in live[b])
    BY <1>2 DEF Gen
  <2>. QED  BY <2>1, <2>2, <2>3, <2>4
<1>. QED  BY <1>2, <1>3, <1>4, <1>5, <1>6 DEF VendorStep, Newest, Instant

\* So is a chain that dies at the vendor, and a step the vendor has no part in.
LEMMA OtherVendorSteps ==
  ASSUME TypeOK, VendorInv
  PROVE  /\ UNCHANGED vendor => VendorStep
         /\ \A a \in Account : \A gen \in Gen : ChainDies(a, gen) => VendorStep
<1>1. UNCHANGED vendor => VendorStep
  BY DEF TypeOK, VendorInv, VendorStep, vendor
<1>2. ASSUME NEW a \in Account, NEW gen \in Gen, ChainDies(a, gen)
      PROVE  VendorStep
  BY <1>2 DEF ChainDies, TypeOK, VendorInv, VendorStep, Gen
<1>. QED  BY <1>1, <1>2

\* What is remembered of minted generations stays true.
LEMMA MemoriesKeep ==
  ASSUME TypeOK, VendorStep, now' \in Nat, now' >= now
  PROVE  /\ \A a \in Account : \A r \in Record \cup {Absent} :
              RecordOK(r, a, minted, live) => RecordOK(r, a, minted', live')
         /\ \A x \in FlightState :
              FlightOK(x, minted, expiry, live, now) => FlightOK(x, minted', expiry', live', now')
         /\ \A h \in [acct : Account, gen : Gen, expires : Int] \cup {NoLease} :
              LeaseOK(h, minted, expiry) => LeaseOK(h, minted', expiry')
<1>. USE DEF Gen
<1>1. \A a \in Account : minted[a] \in Nat /\ minted'[a] \in Nat /\ minted[a] <= minted'[a]
  BY DEF TypeOK, VendorStep
<1>2. \A a \in Account : \A g \in Gen : g <= minted[a] =>
        /\ expiry'[a][g] = expiry[a][g] /\ expiry[a][g] \in Nat
        /\ g \notin live[a] => g \notin live'[a]
  BY DEF TypeOK, VendorStep, Instant
<1>3. ASSUME NEW a \in Account, NEW r \in Record \cup {Absent}, RecordOK(r, a, minted, live)
      PROVE  RecordOK(r, a, minted', live')
  <2>1. CASE r \in Record
    <3>1. r.present = TRUE /\ r.gen \in Gen /\ r.flagged \in BOOLEAN
      BY <2>1 DEF Record
    <3>2. r.gen <= minted[a] /\ (r.flagged => r.gen \notin live[a])
      BY <1>3, <3>1 DEF RecordOK
    <3>. QED  BY <1>1, <1>2, <3>1, <3>2 DEF RecordOK
  <2>2. CASE r = Absent
    BY <2>2 DEF RecordOK, Absent
  <2>. QED  BY <2>1, <2>2
<1>4. ASSUME NEW x \in FlightState, FlightOK(x, minted, expiry, live, now)
      PROVE  FlightOK(x, minted', expiry', live', now')
  <2>1. x.acct \in Account /\ now \in Nat
    BY DEF FlightState, TypeOK
  <2>2. x.phase \in {"posting", "pausing", "revoked"} =>
          x.tip <= minted'[x.acct] /\ expiry'[x.acct][x.tip] = expiry[x.acct][x.tip]
    BY <1>1, <1>2, <1>4, <2>1 DEF FlightOK
  <2>3. x.phase \in {"posting", "pausing"} => expiry[x.acct][x.tip] - now' <= Threshold + Buffer
    <3>1. SUFFICES ASSUME x.phase \in {"posting", "pausing"}
                   PROVE  expiry[x.acct][x.tip] - now' <= Threshold + Buffer
      OBVIOUS
    <3>2. x.tip \in Gen /\ x.tip <= minted[x.acct]
      BY <1>4, <3>1 DEF FlightOK
    <3>3. expiry[x.acct][x.tip] \in Nat /\ expiry[x.acct][x.tip] - now <= Threshold + Buffer
      BY <1>2, <1>4, <2>1, <3>1, <3>2 DEF FlightOK
    <3>. QED  BY <2>1, <3>3
  <2>4. x.phase = "revoked" => x.tip \notin live'[x.acct]
    BY <1>2, <1>4, <2>1 DEF FlightOK
  <2>5. x.phase = "persisting" => x.fresh \in Gen /\ x.fresh <= minted'[x.acct]
    BY <1>1, <1>4, <2>1 DEF FlightOK
  <2>. QED  BY <1>4, <2>2, <2>3, <2>4, <2>5 DEF FlightOK
<1>5. ASSUME NEW h \in [acct : Account, gen : Gen, expires : Int] \cup {NoLease},
             LeaseOK(h, minted, expiry)
      PROVE  LeaseOK(h, minted', expiry')
  BY <1>1, <1>2, <1>5 DEF LeaseOK
<1>. QED  BY <1>3, <1>4, <1>5

(***************************************************************************)
(* The parts of the state a step writes, and what it must write there.     *)
(***************************************************************************)
LibraryStep ==
  /\ library' \in [Account -> Record \cup {Absent}]
  /\ \A a \in Account :
       library'[a] = library[a] \/ RecordOK(library'[a], a, minted', live')

ProcessStep ==
  /\ flights' \in [Flight -> FlightState \cup {NoFlight}]
  /\ \A f \in Flight :
       \/ flights'[f] \in {flights[f], NoFlight}
       \/ FlightOK(flights'[f], minted', expiry', live', now')
  /\ inflight' \in [Account -> Flight \cup {None}]
  /\ want' \in [Worker -> Flight \cup {None}]

HeldStep ==
  /\ held' \in [Worker -> [acct : Account, gen : Gen, expires : Int] \cup {NoLease}]
  /\ \A w \in Worker : held'[w] = held[w] \/ LeaseOK(held'[w], minted', expiry')

\* A step that writes only such things preserves the invariant.
LEMMA StepsPreserve ==
  ASSUME IInv, VendorStep, LibraryStep, ProcessStep, HeldStep,
         now' \in 1 .. MaxTime + 1, now' >= now,
         sibling' \in [acct : Account, fresh : Gen] \cup {NoSibling}, SiblingInv',
         blockedUntil' \in Nat, excused' \subseteq Account
  PROVE  IInv'
<1>1. TypeOK /\ now' \in Nat
  BY DEF IInv
<1>2. TypeOK'
  BY DEF TypeOK, VendorStep, LibraryStep, ProcessStep, HeldStep
<1>3. VendorInv'
  BY DEF VendorStep, VendorInv
<1>4. LibraryInv'
  <2>1. SUFFICES ASSUME NEW a \in Account
                 PROVE  RecordOK(library'[a], a, minted', live')
    BY DEF LibraryInv
  <2>2. library[a] \in Record \cup {Absent} /\ RecordOK(library[a], a, minted, live)
    BY DEF IInv, TypeOK, LibraryInv
  <2>. QED  BY <1>1, <2>2, MemoriesKeep DEF LibraryStep
<1>5. FlightInv'
  <2>1. SUFFICES ASSUME NEW f \in Flight, flights'[f] # NoFlight
                 PROVE  FlightOK(flights'[f], minted', expiry', live', now')
    BY DEF FlightInv
  <2>2. CASE flights'[f] = flights[f]
    <3>1. flights[f] \in FlightState /\ FlightOK(flights[f], minted, expiry, live, now)
      BY <2>1, <2>2 DEF IInv, TypeOK, FlightInv
    <3>. QED  BY <1>1, <2>2, <3>1, MemoriesKeep
  <2>. QED  BY <2>1, <2>2 DEF ProcessStep
<1>6. LeaseInv'
  <2>1. SUFFICES ASSUME NEW w \in Worker
                 PROVE  LeaseOK(held'[w], minted', expiry')
    BY DEF LeaseInv
  <2>2. /\ held[w] \in [acct : Account, gen : Gen, expires : Int] \cup {NoLease}
        /\ LeaseOK(held[w], minted, expiry)
    BY DEF IInv, TypeOK, LeaseInv
  <2>. QED  BY <1>1, <2>2, MemoriesKeep DEF HeldStep
<1>. QED  BY <1>2, <1>3, <1>4, <1>5, <1>6 DEF IInv

\* A part a step leaves alone is written well.
LEMMA PartsLeftAlone ==
  ASSUME IInv
  PROVE  /\ UNCHANGED library => LibraryStep
         /\ UNCHANGED <<flights, inflight, want>> => ProcessStep
         /\ UNCHANGED held => HeldStep
         /\ UNCHANGED sibling => sibling' \in [acct : Account, fresh : Gen] \cup {NoSibling}
         /\ UNCHANGED <<sibling, library, minted>> => SiblingInv'
         /\ sibling' = NoSibling => SiblingInv'
         /\ blockedUntil \in Nat /\ excused \subseteq Account /\ now \in 1 .. MaxTime + 1
BY DEF IInv, TypeOK, LibraryStep, ProcessStep, HeldStep, SiblingInv

\* A flight that settles, serving its workers a minted generation or nothing.
LEMMA SettleStep ==
  ASSUME IInv, NEW f \in Flight, flights[f] # NoFlight, Close(f)
  PROVE  /\ ProcessStep
         /\ UNCHANGED held => HeldStep
         /\ \A gen \in Gen :
              (gen <= minted[flights[f].acct] /\ UNCHANGED vendor /\ Serve(f, gen)) => HeldStep
<1>1. flights[f] \in FlightState /\ flights[f].acct \in Account
  BY DEF IInv, TypeOK, FlightState
<1>2. ProcessStep
  BY <1>1 DEF IInv, TypeOK, Close, ProcessStep
<1>3. ASSUME NEW gen \in Gen, gen <= minted[flights[f].acct], UNCHANGED vendor, Serve(f, gen)
      PROVE  HeldStep
  <2>. DEFINE a == flights[f].acct
              lease == [acct |-> a, gen |-> gen, expires |-> LeaseEnd(a, gen)]
  <2>1. lease \in [acct : Account, gen : Gen, expires : Int]
    BY <1>1 DEF IInv, TypeOK, LeaseEnd, Instant
  <2>2. LeaseOK(lease, minted', expiry')
    BY <1>1, <1>3 DEF LeaseOK, LeaseEnd, vendor
  <2>3. held' = [w \in Worker |->
                   IF want[w] = f /\ LeaseEnd(a, gen) - now >= CheckInterval
                   THEN lease ELSE held[w]]
    BY <1>3 DEF Serve
  <2>4. held \in [Worker -> [acct : Account, gen : Gen, expires : Int] \cup {NoLease}]
    BY DEF IInv, TypeOK
  <2>. HIDE DEF lease
  <2>. QED  BY <2>1, <2>2, <2>3, <2>4 DEF HeldStep
<1>. QED  BY <1>2, <1>3, PartsLeftAlone

\* A flight that moves to another phase.
LEMMA PhaseStep ==
  ASSUME IInv, NEW f \in Flight, NEW x \in FlightState,
         flights' = [flights EXCEPT ![f] = x], UNCHANGED <<inflight, want>>,
         FlightOK(x, minted', expiry', live', now')
  PROVE  ProcessStep
BY DEF IInv, TypeOK, ProcessStep

-----------------------------------------------------------------------------
(* The invariant is inductive: first the steps of a flight.                *)

LEMMA InitEstablishes == Init => IInv
<1>. SUFFICES ASSUME Init PROVE IInv
  OBVIOUS
<1>. USE DEF Init
<1>1. PICK lifetime \in Lifetimes :
        expiry = [a \in Account |-> [g \in Gen |-> IF g = 1 THEN 1 + lifetime ELSE 0]]
  OBVIOUS
<1>2. 1 \in Gen /\ 1 + lifetime \in Nat
  BY DEF Gen
<1>3. expiry \in [Account -> [Gen -> Instant]]
  BY <1>1, <1>2 DEF Instant
<1>4. /\ minted \in [Account -> 0 .. MaxGen]
      /\ live \in [Account -> SUBSET Gen]
      /\ library \in [Account -> Record \cup {Absent}]
  BY <1>2 DEF Gen, Record
<1>5. TypeOK
  BY <1>3, <1>4 DEF TypeOK
<1>6. LibraryInv /\ VendorInv
  BY DEF LibraryInv, VendorInv, RecordOK
<1>7. SiblingInv /\ FlightInv /\ LeaseInv
  BY DEF SiblingInv, FlightInv, LeaseInv, LeaseOK
<1>. QED  BY <1>5, <1>6, <1>7 DEF IInv

LEMMA FlightFacts ==
  ASSUME IInv, NEW f \in Flight, flights[f].phase # "none"
  PROVE  /\ flights[f] \in FlightState
         /\ flights[f] # NoFlight
         /\ flights[f].acct \in Account
         /\ flights[f].tip \in 0 .. MaxGen
         /\ FlightOK(flights[f], minted, expiry, live, now)
         /\ library[flights[f].acct] \in Record \cup {Absent}
         /\ RecordOK(library[flights[f].acct], flights[f].acct, minted, live)
<1>1. flights[f] \in FlightState /\ flights[f] # NoFlight
  BY DEF IInv, TypeOK, NoFlight
<1>2. flights[f].acct \in Account /\ flights[f].tip \in 0 .. MaxGen
  BY <1>1 DEF FlightState
<1>. QED  BY <1>1, <1>2 DEF IInv, TypeOK, FlightInv, LibraryInv

\* A flight's record may take any phase, tip, attempt and fresh generation.
LEMMA FlightMoves ==
  ASSUME NEW x \in FlightState,
         NEW phase \in {"loading", "posting", "pausing", "revoked", "persisting"}
  PROVE  /\ \A tip \in 0 .. MaxGen, attempt \in 0 .. MaxAttempts :
              [x EXCEPT !.phase = phase, !.tip = tip, !.attempt = attempt] \in FlightState
         /\ \A attempt \in 0 .. MaxAttempts :
              [x EXCEPT !.phase = phase, !.attempt = attempt] \in FlightState
         /\ \A fresh \in 0 .. MaxGen :
              [x EXCEPT !.phase = phase, !.fresh = fresh] \in FlightState
BY DEF FlightState

LEMMA LoadPreserves ==
  ASSUME IInv, NEW f \in Flight, Load(f)
  PROVE  IInv'
<1>. DEFINE a == flights[f].acct
            r == library[a]
<1>1. flights[f].phase = "loading"
  BY DEF Load
<1>2. UNCHANGED <<now, vendor, library, sibling, blockedUntil, excused>>
  BY DEF Load
<1>3. VendorStep
  BY <1>2, OtherVendorSteps DEF IInv
<1>4. r.present => r \in Record /\ r.gen \in Gen /\ r.gen <= minted[a]
  <2>1. r \in Record \cup {Absent} /\ RecordOK(r, a, minted, live)
    BY <1>1, FlightFacts
  <2>2. r.present => r \in Record
    BY <2>1 DEF Absent
  <2>. QED  BY <2>1, <2>2 DEF RecordOK, Record
<1>5. ProcessStep /\ HeldStep
  <2>1. CASE Reject(f)
    BY <1>1, <2>1, FlightFacts, SettleStep DEF Reject
  <2>2. CASE r.present /\ Grant(f, r.gen)
    BY <1>1, <1>2, <1>4, <2>2, FlightFacts, SettleStep DEF Grant
  <2>3. CASE /\ r.present /\ Due(a, r.gen, flights[f].horizon)
             /\ flights' = [flights EXCEPT ![f].phase = "posting", ![f].tip = r.gen,
                                           ![f].attempt = 1]
             /\ UNCHANGED <<inflight, workers>>
    <3>. DEFINE x == [flights[f] EXCEPT !.phase = "posting", !.tip = r.gen, !.attempt = 1]
    <3>1. flights[f] \in FlightState /\ a \in Account
      BY <1>1, FlightFacts
    <3>2. x \in FlightState
      <4>1. r.gen \in 0 .. MaxGen /\ 1 \in 0 .. MaxAttempts
        BY <1>4, <2>3 DEF Gen
      <4>. QED  BY <3>1, <4>1, FlightMoves
    <3>3. /\ x.phase = "posting" /\ x.tip = r.gen /\ x.acct = a
          /\ flights[f].horizon \in {0, Buffer}
      BY <3>1 DEF FlightState
    <3>4. expiry[a][r.gen] \in Nat /\ now \in Nat
      BY <1>4, <2>3, <3>1 DEF IInv, TypeOK, Instant
    <3>5. expiry[a][r.gen] - now <= Threshold + Buffer
      BY <2>3, <3>3, <3>4 DEF Due
    <3>6. FlightOK(x, minted', expiry', live', now')
      BY <1>2, <1>4, <2>3, <3>3, <3>5 DEF FlightOK, vendor
    <3>7. flights' = [flights EXCEPT ![f] = x]
      BY <2>3, <3>1 DEF IInv, TypeOK
    <3>. HIDE DEF x
    <3>. QED  BY <2>3, <3>2, <3>6, <3>7, PhaseStep, PartsLeftAlone DEF workers
  <2>. QED  BY <2>1, <2>2, <2>3 DEF Load
<1>. QED  BY <1>2, <1>3, <1>5, StepsPreserve, PartsLeftAlone DEF vendor

LEMMA PostSucceedsPreserves ==
  ASSUME IInv, NEW f \in Flight, PostSucceeds(f)
  PROVE  IInv'
<1>. DEFINE a == flights[f].acct
            x == [flights[f] EXCEPT !.phase = "persisting", !.fresh = Newest(a)]
<1>1. flights[f] \in FlightState /\ a \in Account /\ flights[f].tip \in 0 .. MaxGen
  BY FlightFacts DEF PostSucceeds, Posting
<1>2. VendorStep /\ Newest(a) \in Gen
  BY <1>1, RotateStep DEF PostSucceeds, IInv
<1>3. x \in FlightState
  <2>1. Newest(a) \in 0 .. MaxGen
    BY <1>2 DEF Gen
  <2>. HIDE DEF Newest
  <2>. QED  BY <1>1, <2>1, FlightMoves
<1>4. x.phase = "persisting" /\ x.fresh = Newest(a) /\ x.acct = a
  BY <1>1 DEF FlightState
<1>5. Newest(a) <= minted'[a]
  BY <1>1, <1>2 DEF Newest, Gen
<1>6. FlightOK(x, minted', expiry', live', now')
  BY <1>2, <1>4, <1>5 DEF FlightOK
<1>7. flights' = [flights EXCEPT ![f] = x]
  BY <1>1 DEF PostSucceeds, IInv, TypeOK
<1>8. ProcessStep
  <2>. HIDE DEF x
  <2>. QED  BY <1>3, <1>6, <1>7, PhaseStep DEF PostSucceeds, workers
<1>9. SiblingInv'
  BY <1>2 DEF PostSucceeds, SiblingInv, VendorStep, IInv, TypeOK, Gen, NoSibling
<1>. QED
  BY <1>2, <1>8, <1>9, StepsPreserve, PartsLeftAlone DEF PostSucceeds, workers

LEMMA PostLostPreserves ==
  ASSUME IInv, NEW f \in Flight, PostLost(f)
  PROVE  IInv'
<1>1. /\ flights[f].acct \in Account /\ flights[f].tip \in 0 .. MaxGen
      /\ flights[f] # NoFlight
  BY FlightFacts DEF PostLost, Posting
<1>2. VendorStep
  BY <1>1, RotateStep DEF PostLost, IInv
<1>3. ProcessStep /\ HeldStep
  BY <1>1, SettleStep DEF PostLost, Reject
<1>4. SiblingInv'
  BY <1>2 DEF PostLost, SiblingInv, VendorStep, IInv, TypeOK, Gen, NoSibling
<1>5. excused' \subseteq Account
  BY <1>1, PartsLeftAlone DEF PostLost
<1>. QED
  BY <1>2, <1>3, <1>4, <1>5, StepsPreserve, PartsLeftAlone DEF PostLost

\* The answers that leave the vendor alone.
LEMMA PostAnswersPreserve ==
  ASSUME IInv, NEW f \in Flight,
         PostRevoked(f) \/ PostRetryable(f) \/ PostRefused(f) \/ PostLimited(f)
  PROVE  IInv'
<1>1. /\ UNCHANGED <<now, vendor, library, sibling, excused>>
      /\ flights[f].phase = "posting"
  BY DEF PostRevoked, PostRetryable, PostRefused, PostLimited, Posting
<1>2. VendorStep
  BY <1>1, OtherVendorSteps DEF IInv
<1>3. /\ flights[f] \in FlightState /\ flights[f] # NoFlight
      /\ FlightOK(flights[f], minted', expiry', live', now')
  BY <1>1, FlightFacts DEF vendor
<1>4. ASSUME NEW phase \in {"pausing", "revoked"}, UNCHANGED <<inflight, workers>>,
             flights' = [flights EXCEPT ![f].phase = phase],
             phase = "revoked" => ~Good(f),
             phase = "pausing" => flights[f].attempt < MaxAttempts
      PROVE  ProcessStep /\ HeldStep
  <2>. DEFINE x == [flights[f] EXCEPT !.phase = phase]
  <2>1. x \in FlightState
    BY <1>3 DEF FlightState
  <2>2. /\ x.phase = phase /\ x.tip = flights[f].tip /\ x.acct = flights[f].acct
        /\ x.attempt = flights[f].attempt
    BY <1>3 DEF FlightState
  <2>3. FlightOK(x, minted', expiry', live', now')
    BY <1>1, <1>3, <1>4, <2>2 DEF FlightOK, Good, vendor
  <2>4. flights' = [flights EXCEPT ![f] = x]
    BY <1>3, <1>4 DEF IInv, TypeOK
  <2>. HIDE DEF x
  <2>. QED  BY <1>4, <2>1, <2>3, <2>4, PhaseStep, PartsLeftAlone DEF workers
<1>5. ProcessStep /\ HeldStep
  <2>1. Reject(f) => ProcessStep /\ HeldStep
    BY <1>3, SettleStep DEF Reject
  <2>2. flights[f].attempt \in 0 .. MaxAttempts
    BY <1>3 DEF FlightState
  <2>. QED
    BY <1>4, <2>1, <2>2 DEF PostRevoked, PostRetryable, PostRefused, PostLimited
<1>6. blockedUntil' \in Nat
  BY PartsLeftAlone DEF PostRevoked, PostRetryable, PostRefused, PostLimited
<1>. QED  BY <1>1, <1>2, <1>5, <1>6, StepsPreserve, PartsLeftAlone DEF vendor

LEMMA RetryPreserves ==
  ASSUME IInv, NEW f \in Flight, Retry(f)
  PROVE  IInv'
<1>. DEFINE x == [flights[f] EXCEPT !.phase = "posting", !.attempt = flights[f].attempt + 1]
<1>1. /\ flights[f] \in FlightState /\ flights[f].phase = "pausing"
      /\ FlightOK(flights[f], minted', expiry', live', now')
  BY FlightFacts DEF Retry, vendor
<1>2. flights[f].attempt \in 0 .. MaxAttempts /\ flights[f].attempt < MaxAttempts
  BY <1>1 DEF FlightState, FlightOK
<1>3. x \in FlightState
  <2>1. flights[f].attempt + 1 \in 0 .. MaxAttempts
    BY <1>2
  <2>. QED  BY <1>1, <2>1, FlightMoves
<1>4. x.phase = "posting" /\ x.tip = flights[f].tip /\ x.acct = flights[f].acct
  BY <1>1 DEF FlightState
<1>5. FlightOK(x, minted', expiry', live', now')
  BY <1>1, <1>4 DEF FlightOK
<1>6. flights' = [flights EXCEPT ![f] = x]
  BY <1>1 DEF Retry, IInv, TypeOK
<1>7. ProcessStep
  <2>. HIDE DEF x
  <2>. QED  BY <1>3, <1>5, <1>6, PhaseStep DEF Retry, workers
<1>8. VendorStep
  BY OtherVendorSteps DEF Retry, IInv
<1>. QED  BY <1>7, <1>8, StepsPreserve, PartsLeftAlone DEF Retry, vendor, workers

LEMMA PersistPreserves ==
  ASSUME IInv, NEW f \in Flight, Persist(f)
  PROVE  IInv'
<1>. DEFINE a == flights[f].acct
            r == [library[a] EXCEPT !.gen = flights[f].fresh, !.flagged = FALSE]
<1>1. /\ UNCHANGED <<now, vendor, sibling, blockedUntil, excused>>
      /\ flights[f].phase = "persisting" /\ sibling = NoSibling
  BY DEF Persist, LockFree
<1>2. /\ a \in Account /\ flights[f] # NoFlight
      /\ flights[f].fresh \in Gen /\ flights[f].fresh <= minted[a]
      /\ library[a] \in Record \cup {Absent}
  BY <1>1, FlightFacts DEF FlightOK
<1>3. VendorStep
  BY <1>1, OtherVendorSteps DEF IInv
<1>4. ProcessStep /\ HeldStep
  BY <1>1, <1>2, SettleStep DEF Persist, Grant
<1>5. LibraryStep
  <2>1. CASE library[a].present
    <3>1. library[a] \in Record
      BY <1>2, <2>1 DEF Absent
    <3>2. r \in Record /\ r.gen = flights[f].fresh /\ r.flagged = FALSE
      BY <1>2, <3>1 DEF Record
    <3>3. RecordOK(r, a, minted', live')
      BY <1>1, <1>2, <3>2 DEF RecordOK, vendor
    <3>4. library' = [library EXCEPT ![a] = r]
      BY <1>2, <2>1 DEF Persist, IInv, TypeOK
    <3>. HIDE DEF r
    <3>. QED  BY <1>2, <3>2, <3>3, <3>4 DEF LibraryStep, IInv, TypeOK
  <2>2. CASE ~library[a].present
    BY <2>2, PartsLeftAlone DEF Persist
  <2>. QED  BY <2>1, <2>2
<1>. QED  BY <1>1, <1>3, <1>4, <1>5, StepsPreserve, PartsLeftAlone

LEMMA JudgeRevokedPreserves ==
  ASSUME IInv, NEW f \in Flight, JudgeRevoked(f)
  PROVE  IInv'
<1>. DEFINE a == flights[f].acct
            r == library[a]
<1>1. /\ UNCHANGED <<now, vendor, sibling, blockedUntil, excused>>
      /\ flights[f].phase = "revoked" /\ sibling = NoSibling
  BY DEF JudgeRevoked, LockFree
<1>2. /\ a \in Account /\ flights[f] # NoFlight
      /\ flights[f].tip \notin live[a]
      /\ r \in Record \cup {Absent} /\ RecordOK(r, a, minted, live)
  BY <1>1, FlightFacts DEF FlightOK
<1>3. VendorStep
  BY <1>1, OtherVendorSteps DEF IInv
<1>4. r.present => r \in Record /\ r.gen \in Gen /\ r.gen <= minted[a]
  <2>1. r.present => r \in Record
    BY <1>2 DEF Absent
  <2>. QED  BY <1>2, <2>1 DEF RecordOK, Record
<1>5. ProcessStep /\ HeldStep
  <2>1. CASE Reject(f)
    BY <1>2, <2>1, SettleStep DEF Reject
  <2>2. CASE r.present /\ Grant(f, r.gen)
    BY <1>1, <1>2, <1>4, <2>2, SettleStep DEF Grant
  <2>. QED  BY <2>1, <2>2 DEF JudgeRevoked
<1>6. LibraryStep
  <2>1. CASE UNCHANGED library
    BY <2>1, PartsLeftAlone
  <2>2. CASE /\ r.present /\ r.gen = flights[f].tip
             /\ library' = [library EXCEPT ![a].flagged = TRUE]
    <3>. DEFINE s == [r EXCEPT !.flagged = TRUE]
    <3>1. s \in Record /\ s.gen = flights[f].tip
      BY <1>4, <2>2 DEF Record
    <3>2. RecordOK(s, a, minted', live')
      BY <1>1, <1>2, <1>4, <2>2, <3>1 DEF RecordOK, vendor
    <3>3. library' = [library EXCEPT ![a] = s]
      BY <1>2, <2>2 DEF IInv, TypeOK
    <3>. HIDE DEF s
    <3>. QED  BY <1>2, <3>1, <3>2, <3>3 DEF LibraryStep, IInv, TypeOK
  <2>. QED  BY <2>1, <2>2 DEF JudgeRevoked
<1>. QED  BY <1>1, <1>3, <1>5, <1>6, StepsPreserve, PartsLeftAlone

\* A flight that fails without a verdict.
LEMMA FailuresPreserve ==
  ASSUME IInv, NEW f \in Flight, PersistFails(f) \/ JudgeFails(f)
  PROVE  IInv'
<1>1. /\ UNCHANGED <<now, vendor, library, sibling, blockedUntil>>
      /\ flights[f].phase \in {"persisting", "revoked"}
      /\ Reject(f)
  BY DEF PersistFails, JudgeFails
<1>2. flights[f].acct \in Account /\ flights[f] # NoFlight
  BY <1>1, FlightFacts
<1>3. VendorStep
  BY <1>1, OtherVendorSteps DEF IInv
<1>4. ProcessStep /\ HeldStep
  BY <1>1, <1>2, SettleStep DEF Reject
<1>5. excused' \subseteq Account
  BY <1>2, PartsLeftAlone DEF PersistFails, JudgeFails
<1>. QED  BY <1>1, <1>3, <1>4, <1>5, StepsPreserve, PartsLeftAlone DEF vendor

-----------------------------------------------------------------------------
(* Then the steps of everyone else.                                        *)

LEMMA RequestsPreserve ==
  ASSUME IInv, NEW a \in Account,
         Warm(a) \/ \E w \in Worker : RequestLease(w, a)
  PROVE  IInv'
<1>1. UNCHANGED <<now, vendor, library, sibling, blockedUntil, held, excused>>
  BY DEF Warm, RequestLease, workers
<1>2. VendorStep
  BY <1>1, OtherVendorSteps DEF IInv
<1>3. ASSUME NEW f \in Flight, NEW horizon \in {0, Buffer}, Start(f, a, horizon)
      PROVE  /\ flights' \in [Flight -> FlightState \cup {NoFlight}]
             /\ inflight' \in [Account -> Flight \cup {None}]
             /\ \A g \in Flight : \/ flights'[g] = flights[g]
                                  \/ FlightOK(flights'[g], minted', expiry', live', now')
  <2>. DEFINE x == NewFlight(a, horizon)
  <2>1. x \in FlightState /\ x.phase = "loading"
    BY DEF NewFlight, FlightState
  <2>2. FlightOK(x, minted', expiry', live', now')
    BY <2>1 DEF FlightOK
  <2>3. flights' = [flights EXCEPT ![f] = x] /\ inflight' = [inflight EXCEPT ![a] = f]
    BY <1>3 DEF Start
  <2>. HIDE DEF x
  <2>. QED  BY <2>1, <2>2, <2>3 DEF IInv, TypeOK
<1>4. ProcessStep
  <2>1. CASE Warm(a)
    BY <1>3, <2>1 DEF Warm, workers, ProcessStep, IInv, TypeOK
  <2>2. ASSUME NEW w \in Worker, RequestLease(w, a)
        PROVE  ProcessStep
    <3>1. CASE \E f \in Flight : Start(f, a, Buffer) /\ want' = [want EXCEPT ![w] = f]
      BY <1>3, <3>1 DEF ProcessStep, IInv, TypeOK
    <3>2. CASE /\ want' = [want EXCEPT ![w] = inflight[a]]
               /\ UNCHANGED <<flights, inflight>>
      BY <3>2 DEF ProcessStep, IInv, TypeOK
    <3>. QED  BY <2>2, <3>1, <3>2 DEF RequestLease
  <2>. QED  BY <2>1, <2>2
<1>. QED  BY <1>1, <1>2, <1>4, StepsPreserve, PartsLeftAlone DEF vendor

LEMMA SiblingPreserves ==
  ASSUME IInv,
         \/ \E a \in Account : SiblingPosts(a) \/ SiblingJudges(a)
         \/ SiblingSaves
         \/ SiblingDies
  PROVE  IInv'
<1>1. ASSUME NEW a \in Account, SiblingPosts(a)
      PROVE  IInv'
  <2>1. library[a].present /\ library[a].gen \in 0 .. MaxGen
    BY <1>1 DEF SiblingPosts, IInv, TypeOK, Gen
  <2>2. VendorStep /\ Newest(a) \in Gen
    BY <1>1, <2>1, RotateStep DEF SiblingPosts, IInv
  <2>3. sibling' \in [acct : Account, fresh : Gen] \cup {NoSibling}
    BY <1>1, <2>2 DEF SiblingPosts
  <2>4. SiblingInv'
    BY <1>1, <2>1, <2>2 DEF SiblingPosts, SiblingInv, Newest, Gen
  <2>. QED
    BY <1>1, <2>2, <2>3, <2>4, StepsPreserve, PartsLeftAlone DEF SiblingPosts, process, workers
<1>2. ASSUME SiblingSaves
      PROVE  IInv'
  <2>. DEFINE a == sibling.acct
              r == [library[a] EXCEPT !.gen = sibling.fresh, !.flagged = FALSE]
  <2>1. /\ a \in Account /\ sibling.fresh \in Gen /\ sibling.fresh <= minted[a]
        /\ library[a] \in Record
    BY <1>2 DEF SiblingSaves, IInv, TypeOK, SiblingInv, Absent
  <2>2. VendorStep
    BY <1>2, OtherVendorSteps DEF SiblingSaves, IInv
  <2>3. r \in Record /\ r.gen = sibling.fresh /\ r.flagged = FALSE
    BY <2>1 DEF Record
  <2>4. RecordOK(r, a, minted', live')
    BY <1>2, <2>1, <2>3 DEF SiblingSaves, RecordOK, vendor
  <2>5. library' = [library EXCEPT ![a] = r]
    BY <1>2, <2>1 DEF SiblingSaves, IInv, TypeOK
  <2>6. LibraryStep
    <3>. HIDE DEF r
    <3>. QED  BY <2>1, <2>3, <2>4, <2>5 DEF LibraryStep, IInv, TypeOK
  <2>. QED
    BY <1>2, <2>2, <2>6, StepsPreserve, PartsLeftAlone DEF SiblingSaves, process, workers
<1>3. ASSUME SiblingDies
      PROVE  IInv'
  <2>1. VendorStep
    BY <1>3, OtherVendorSteps DEF SiblingDies, IInv
  <2>2. excused' \subseteq Account
    BY <1>3 DEF SiblingDies, IInv, TypeOK
  <2>. QED
    BY <1>3, <2>1, <2>2, StepsPreserve, PartsLeftAlone DEF SiblingDies, process, workers
<1>4. ASSUME NEW a \in Account, SiblingJudges(a)
      PROVE  IInv'
  <2>. DEFINE r == [library[a] EXCEPT !.flagged = TRUE]
  <2>1. VendorStep
    BY <1>4, OtherVendorSteps DEF SiblingJudges, IInv
  <2>2. library[a] \in Record /\ RecordOK(library[a], a, minted, live)
    BY <1>4 DEF SiblingJudges, IInv, TypeOK, LibraryInv, Absent
  <2>3. r \in Record /\ r.gen = library[a].gen
    BY <2>2 DEF Record
  <2>4. RecordOK(r, a, minted', live')
    BY <1>4, <2>2, <2>3 DEF SiblingJudges, RecordOK, Record, vendor
  <2>5. library' = [library EXCEPT ![a] = r]
    BY <1>4 DEF SiblingJudges, IInv, TypeOK
  <2>6. LibraryStep
    <3>. HIDE DEF r
    <3>. QED  BY <2>3, <2>4, <2>5 DEF LibraryStep, IInv, TypeOK
  <2>7. SiblingInv'
    BY <1>4 DEF SiblingJudges, LockFree, SiblingInv
  <2>. QED
    BY <1>4, <2>1, <2>6, <2>7, StepsPreserve, PartsLeftAlone DEF SiblingJudges, process, workers
<1>. QED  BY <1>1, <1>2, <1>3, <1>4

\* The operator's login and deletion.
LEMMA OperatorPreserves ==
  ASSUME IInv, NEW a \in Account, Login(a) \/ Remove(a)
  PROVE  IInv'
<1>1. ASSUME Login(a)
      PROVE  IInv'
  <2>. DEFINE r == [present |-> TRUE, gen |-> Newest(a), flagged |-> FALSE]
  <2>1. VendorStep /\ Newest(a) \in Gen
    <3>1. 0 \in 0 .. MaxGen
      OBVIOUS
    <3>. QED  BY <1>1, <3>1, RotateStep DEF Login, IInv
  <2>2. r \in Record
    BY <2>1 DEF Record
  <2>3. RecordOK(r, a, minted', live')
    BY <2>1 DEF RecordOK, Newest, Gen
  <2>4. library' = [library EXCEPT ![a] = r]
    BY <1>1 DEF Login
  <2>5. LibraryStep
    <3>. HIDE DEF r
    <3>. QED  BY <2>2, <2>3, <2>4 DEF LibraryStep, IInv, TypeOK
  <2>6. SiblingInv' /\ excused' \subseteq Account
    BY <1>1 DEF Login, LockFree, SiblingInv, IInv, TypeOK
  <2>. QED
    BY <1>1, <2>1, <2>5, <2>6, StepsPreserve, PartsLeftAlone DEF Login, process, workers
<1>2. ASSUME Remove(a)
      PROVE  IInv'
  <2>1. VendorStep
    BY <1>2, OtherVendorSteps DEF Remove, IInv
  <2>2. LibraryStep
    BY <1>2 DEF Remove, LibraryStep, RecordOK, Absent, IInv, TypeOK
  <2>3. SiblingInv'
    BY <1>2 DEF Remove, LockFree, SiblingInv
  <2>. QED
    BY <1>2, <2>1, <2>2, <2>3, StepsPreserve, PartsLeftAlone DEF Remove, process, workers
<1>. QED  BY <1>1, <1>2

\* A chain that dies, a crash of the master, and time.
LEMMA WorldPreserves ==
  ASSUME IInv, (\E a \in Account : \E gen \in Gen : ChainDies(a, gen)) \/ Crash \/ Tick
  PROVE  IInv'
<1>1. ASSUME NEW a \in Account, NEW gen \in Gen, ChainDies(a, gen)
      PROVE  IInv'
  <2>1. VendorStep
    BY <1>1, OtherVendorSteps DEF IInv
  <2>2. excused' \subseteq Account
    BY <1>1 DEF ChainDies, IInv, TypeOK
  <2>. QED
    BY <1>1, <2>1, <2>2, StepsPreserve, PartsLeftAlone DEF ChainDies, process, workers
<1>2. ASSUME Crash
      PROVE  IInv'
  <2>1. VendorStep
    BY <1>2, OtherVendorSteps DEF Crash, IInv
  <2>2. ProcessStep
    BY <1>2 DEF Crash, ProcessStep
  <2>3. \A f \in Flight : flights[f].phase = "persisting" => flights[f].acct \in Account
    BY FlightFacts
  <2>4. excused' \subseteq Account
    BY <1>2, <2>3 DEF Crash, IInv, TypeOK
  <2>. QED
    BY <1>2, <2>1, <2>2, <2>4, StepsPreserve, PartsLeftAlone DEF Crash, vendor
<1>3. ASSUME Tick
      PROVE  IInv'
  <2>1. VendorStep
    BY <1>3, OtherVendorSteps DEF Tick, IInv
  <2>2. now' \in 1 .. MaxTime + 1 /\ now' >= now
    BY <1>3, PartsLeftAlone DEF Tick
  <2>. QED
    BY <1>3, <2>1, <2>2, StepsPreserve, PartsLeftAlone DEF Tick, process, workers, vendor
<1>. QED  BY <1>1, <1>2, <1>3

LEMMA NextPreserves == IInv /\ [Next]_vars => IInv'
<1>. SUFFICES ASSUME IInv, [Next]_vars PROVE IInv'
  OBVIOUS
<1>1. CASE UNCHANGED vars
  <2>1. VendorStep
    BY <1>1, OtherVendorSteps DEF IInv, vars
  <2>. QED
    BY <1>1, <2>1, StepsPreserve, PartsLeftAlone DEF vars, process, workers, vendor
<1>2. ASSUME NEW f \in Flight, FlightStep(f)
      PROVE  IInv'
  BY <1>2, LoadPreserves, PostSucceedsPreserves, PostLostPreserves, PostAnswersPreserve,
     RetryPreserves, PersistPreserves, JudgeRevokedPreserves, FailuresPreserve
     DEF FlightStep
<1>. QED
  BY <1>1, <1>2, RequestsPreserve, SiblingPreserves, OperatorPreserves, WorldPreserves DEF Next

-----------------------------------------------------------------------------
(* What follows from the invariant.                                        *)

THEOREM Inductive == Spec => []IInv
BY InitEstablishes, NextPreserves, PTL DEF Spec

\* Every variable keeps its type, a lease and a record naming only generations
\* that exist.
THEOREM TypeCorrect == Spec => []TypeOK
<1>1. IInv => TypeOK
  BY DEF IInv
<1>. QED  BY Inductive, <1>1, PTL

\* needsReauth is never a false accusation, whichever flight, process or
\* operator raced with the refresh that failed (onRefreshRevoked).
THEOREM AccusationsAreTrue == Spec => []FlaggedMeansDead
<1>1. IInv => FlaggedMeansDead
  <2>1. SUFFICES ASSUME IInv, NEW a \in Account, library[a].flagged
                 PROVE  library[a].gen \notin live[a]
    BY DEF FlaggedMeansDead
  <2>2. library[a] \in Record \cup {Absent} /\ RecordOK(library[a], a, minted, live)
    BY <2>1 DEF IInv, TypeOK, LibraryInv
  <2>3. library[a] \in Record
    BY <2>1, <2>2 DEF Absent
  <2>. QED  BY <2>1, <2>2, <2>3 DEF RecordOK, Record
<1>. QED  BY Inductive, <1>1, PTL

\* A refresh of the master kills the token of a lease only once the lease is
\* within the renewal buffer of its end (serveLease's horizon, resolve's test).
THEOREM RotationsAreTimely == Spec => RotationHitsOnlyDueLeases
<1>. DEFINE Timely == \A f \in Flight, w \in Worker :
       (Posting(f) /\ flights'[f].phase = "persisting"
          /\ held[w].acct = flights[f].acct /\ held[w].gen = flights[f].tip)
         => now >= held[w].expires - Buffer
<1>1. IInv => Timely
  <2>1. SUFFICES ASSUME IInv, NEW f \in Flight, NEW w \in Worker, Posting(f),
                        held[w].acct = flights[f].acct, held[w].gen = flights[f].tip
                 PROVE  now >= held[w].expires - Buffer
    OBVIOUS
  <2>2. /\ flights[f].acct \in Account /\ flights[f].tip \in Gen
        /\ expiry[flights[f].acct][flights[f].tip] - now <= Threshold + Buffer
    BY <2>1, FlightFacts DEF Posting, FlightOK
  <2>3. held[w] # NoLease
    BY <2>1, <2>2 DEF NoLease, Gen
  <2>4. held[w].expires = expiry[held[w].acct][held[w].gen] - Threshold
    BY <2>1, <2>3 DEF IInv, LeaseInv, LeaseOK
  <2>5. now \in Nat /\ expiry[flights[f].acct][flights[f].tip] \in Nat
    BY <2>1, <2>2 DEF IInv, TypeOK, Instant
  <2>. QED  BY <2>1, <2>2, <2>4, <2>5
<1>2. IInv => [Timely]_vars
  BY <1>1
<1>. QED  BY Inductive, <1>2, PTL DEF RotationHitsOnlyDueLeases

\* A refresh that was under way when its account was deleted, the master's or
\* the sibling's, ends without writing the record: what it was given for the tip
\* is dropped and its verdict flags nobody (persistToken).
THEOREM NoRefreshRevives == Spec => RefreshesRespectDeletion
<1>. DEFINE Ends == (\E f \in Flight : FlightStep(f)) \/ SiblingSaves
                      \/ (\E b \in Account : SiblingJudges(b))
            Respects == Ends => \A a \in Account : ~library[a].present => library'[a] = library[a]
<1>1. ASSUME IInv, Next
      PROVE  Respects
  <2>. SUFFICES ASSUME Ends, NEW a \in Account, ~library[a].present
                PROVE  library'[a] = library[a]
    OBVIOUS
  <2>1. library \in [Account -> Record \cup {Absent}]
    BY <1>1 DEF IInv, TypeOK
  <2>2. ASSUME NEW f \in Flight, FlightStep(f)
        PROVE  library'[a] = library[a]
    <3>1. CASE Persist(f)
      <4>1. CASE library[flights[f].acct].present
        <5>1. flights[f].acct # a
          BY <4>1
        <5>. QED  BY <2>1, <3>1, <4>1, <5>1 DEF Persist
      <4>2. CASE ~library[flights[f].acct].present
        BY <3>1, <4>2 DEF Persist
      <4>. QED  BY <4>1, <4>2
    <3>2. CASE JudgeRevoked(f)
      <4>1. CASE library[flights[f].acct].present
        <5>1. flights[f].acct # a
          BY <4>1
        <5>. QED  BY <2>1, <3>2, <5>1 DEF JudgeRevoked
      <4>2. CASE ~library[flights[f].acct].present
        BY <3>2, <4>2 DEF JudgeRevoked
      <4>. QED  BY <4>1, <4>2
    <3>. QED
      BY <2>2, <3>1, <3>2 DEF FlightStep, Load, PostSucceeds, PostLost, PostRevoked,
         PostRetryable, PostRefused, PostLimited, Retry, PersistFails, JudgeFails
  <2>3. CASE SiblingSaves
    <3>1. library[sibling.acct].present
      BY <1>1, <2>3 DEF SiblingSaves, IInv, SiblingInv
    <3>2. sibling.acct # a
      BY <3>1
    <3>. QED  BY <2>1, <2>3, <3>2 DEF SiblingSaves
  <2>4. ASSUME NEW b \in Account, SiblingJudges(b)
        PROVE  library'[a] = library[a]
    <3>1. b # a
      BY <2>4 DEF SiblingJudges
    <3>. QED  BY <2>1, <2>4, <3>1 DEF SiblingJudges
  <2>. QED
    BY <2>2, <2>3, <2>4
<1>2. IInv /\ [Next]_vars => [Respects]_vars
  BY <1>1
<1>. QED  BY Inductive, <1>2, PTL DEF Spec, RefreshesRespectDeletion

\* Whoever is handed an access token can be sure its refresh half is on record
\* already, or that the operator deleted the record (resolve awaits its write).
THEOREM TokensAreDurable == Spec => HandedOutIsDurable
<1>. DEFINE Durable == \A w \in Worker : held'[w] # held[w] =>
       LET a == held'[w].acct
       IN  ~library'[a].present \/ library'[a].gen = held'[w].gen
<1>1. ASSUME IInv, Next
      PROVE  Durable
  <2>. SUFFICES ASSUME NEW w \in Worker, held'[w] # held[w]
                PROVE  \/ ~library'[held'[w].acct].present
                       \/ library'[held'[w].acct].gen = held'[w].gen
    OBVIOUS
  <2>1. library \in [Account -> Record \cup {Absent}]
    BY <1>1 DEF IInv, TypeOK
  <2>2. PICK f \in Flight : FlightStep(f)
    BY <1>1 DEF Next, RequestLease, Warm, SiblingPosts, SiblingJudges, SiblingSaves,
       SiblingDies, ChainDies, Login, Remove, Crash, Tick, workers
  <2>3. \A gen : Serve(f, gen) => held'[w].acct = flights[f].acct /\ held'[w].gen = gen
    BY DEF Serve
  <2>4. CASE Load(f)
    BY <2>3, <2>4 DEF Load, Grant, Reject, workers
  <2>5. CASE JudgeRevoked(f)
    BY <2>3, <2>5 DEF JudgeRevoked, Grant, Reject
  <2>6. CASE Persist(f)
    <3>1. held'[w].acct = flights[f].acct /\ held'[w].gen = flights[f].fresh
      BY <2>3, <2>6 DEF Persist, Grant
    <3>2. flights[f].acct \in Account
      BY <1>1, <2>6, FlightFacts DEF Persist
    <3>. QED  BY <2>1, <2>6, <3>1, <3>2 DEF Persist, Record, Absent
  <2>. QED
    BY <2>2, <2>4, <2>5, <2>6 DEF FlightStep, PostSucceeds, PostLost, PostRevoked,
       PostRetryable, PostRefused, PostLimited, Retry, PersistFails, JudgeFails, Reject, workers
<1>2. IInv /\ [Next]_vars => [Durable]_vars
  BY <1>1
<1>. QED  BY Inductive, <1>2, PTL DEF Spec, HandedOutIsDurable

-----------------------------------------------------------------------------
(***************************************************************************)
(* The master never strands an account by itself (NeverStranded), for any  *)
(* accounts, workers and time constants.  The argument follows the newest  *)
(* generation of an account from the POST that mints it to the write that  *)
(* records it: nobody else spends it, and nobody overwrites it, on the way.*)
(***************************************************************************)

\* An account has at most one flight, the registered one (InFlight).
SingleFlight == \A f \in Flight : flights[f] # NoFlight => inflight[flights[f].acct] = f

\* A flight that carries a new generation towards the library, one that may
\* still spend the tip it holds.
Carrying(f) == flights[f].phase = "persisting"
Spending(f) == flights[f].phase \in {"posting", "pausing"}

\* What a flight carries is good, and neither on record nor in other hands.
FlightCarries ==
  \A f \in Flight : Carrying(f) =>
    /\ flights[f].acct \notin excused => flights[f].fresh \in live[flights[f].acct]
    /\ flights[f].fresh # library[flights[f].acct].gen
    /\ sibling.acct = flights[f].acct => sibling.fresh # flights[f].fresh

\* What another process carries is good, not on record, and no flight's tip.
SiblingCarries ==
  sibling # NoSibling =>
    /\ sibling.acct \notin excused => sibling.fresh \in live[sibling.acct]
    /\ sibling.fresh # library[sibling.acct].gen
    /\ \A f \in Flight : (Spending(f) /\ flights[f].acct = sibling.acct) =>
         flights[f].tip # sibling.fresh

CInv == IInv /\ SingleFlight /\ FlightCarries /\ SiblingCarries /\ NeverStranded

(***************************************************************************)
(* One flight per account.                                                 *)
(***************************************************************************)

\* A flight that settles leaves the others registered.
LEMMA CloseKeepsSingle ==
  ASSUME IInv, SingleFlight, NEW f \in Flight, flights[f].phase # "none", Close(f)
  PROVE  /\ SingleFlight'
         /\ flights'[f] = NoFlight
         /\ \A g \in Flight \ {f} : flights'[g] = flights[g]
<1>1. /\ flights' = [flights EXCEPT ![f] = NoFlight]
      /\ inflight' = [inflight EXCEPT ![flights[f].acct] = None]
  BY DEF Close
<1>2. /\ flights \in [Flight -> FlightState \cup {NoFlight}]
      /\ inflight \in [Account -> Flight \cup {None}]
  BY DEF IInv, TypeOK
<1>3. flights[f] # NoFlight /\ flights[f].acct \in Account
  BY FlightFacts
<1>4. inflight[flights[f].acct] = f
  BY <1>3 DEF SingleFlight
<1>5. ASSUME NEW g \in Flight, flights'[g] # NoFlight
      PROVE  inflight'[flights'[g].acct] = g
  <2>1. g # f /\ flights'[g] = flights[g]
    BY <1>1, <1>2, <1>5
  <2>2. inflight[flights[g].acct] = g
    BY <1>5, <2>1 DEF SingleFlight
  <2>3. flights[g] \in FlightState
    BY <1>2, <1>5, <2>1
  <2>4. flights[g].acct \in Account
    BY <2>3 DEF FlightState
  <2>. QED  BY <1>1, <1>2, <1>4, <2>1, <2>2, <2>4
<1>. QED  BY <1>1, <1>2, <1>5 DEF SingleFlight

\* So does one that only moves to another phase.
LEMMA MoveKeepsSingle ==
  ASSUME IInv, SingleFlight, NEW f \in Flight, flights[f].phase # "none",
         NEW x, x.acct = flights[f].acct,
         flights' = [flights EXCEPT ![f] = x], UNCHANGED inflight
  PROVE  /\ SingleFlight'
         /\ flights'[f] = x
         /\ \A g \in Flight \ {f} : flights'[g] = flights[g]
<1>1. flights \in [Flight -> FlightState \cup {NoFlight}]
  BY DEF IInv, TypeOK
<1>2. flights[f] # NoFlight
  BY FlightFacts
<1>3. inflight[x.acct] = f
  BY <1>2 DEF SingleFlight
<1>. QED  BY <1>1, <1>3 DEF SingleFlight

\* A new flight starts only for an account that has none.
LEMMA StartKeepsSingle ==
  ASSUME IInv, SingleFlight, NEW f \in Flight, NEW a \in Account, NEW h, Start(f, a, h)
  PROVE  /\ SingleFlight'
         /\ flights'[f].phase = "loading"
         /\ \A g \in Flight \ {f} : flights'[g] = flights[g]
         /\ flights[f] = NoFlight
<1>1. /\ inflight[a] = None /\ flights[f] = NoFlight
      /\ flights' = [flights EXCEPT ![f] = NewFlight(a, h)]
      /\ inflight' = [inflight EXCEPT ![a] = f]
  BY DEF Start
<1>2. /\ flights \in [Flight -> FlightState \cup {NoFlight}]
      /\ inflight \in [Account -> Flight \cup {None}]
  BY DEF IInv, TypeOK
<1>3. NewFlight(a, h).acct = a /\ NewFlight(a, h).phase = "loading"
  BY DEF NewFlight
<1>4. ASSUME NEW g \in Flight, flights'[g] # NoFlight
      PROVE  inflight'[flights'[g].acct] = g
  <2>1. CASE g = f
    <3>. HIDE DEF NewFlight
    <3>. QED  BY <1>1, <1>2, <1>3, <2>1
  <2>2. CASE g # f
    <3>1. flights'[g] = flights[g]
      BY <1>1, <1>2, <2>2
    <3>2. inflight[flights[g].acct] = g /\ g # None
      BY <1>4, <3>1, RefresherAssumption DEF SingleFlight
    <3>. QED  BY <1>1, <1>2, <3>1, <3>2
  <2>. QED  BY <2>1, <2>2
<1>. QED  BY <1>1, <1>2, <1>3, <1>4 DEF SingleFlight

(***************************************************************************)
(* Most steps move no token: the vendor and the record keep the generation *)
(* they have, and whoever carries one goes on carrying it - or the account *)
(* is excused.                                                             *)
(***************************************************************************)
TokensRest ==
  /\ excused \subseteq excused'
  /\ \A a \in Account : a \notin excused' => live'[a] = live[a]
  /\ \A a \in Account :
       \/ library'[a] = Absent
       \/ library'[a].gen = library[a].gen /\ library'[a].present = library[a].present
  /\ \/ sibling' = sibling
     \/ sibling' = NoSibling /\ sibling.acct \in excused'

FlightsRest ==
  \A f \in Flight :
    /\ Carrying(f)' => flights'[f] = flights[f]
    /\ Carrying(f) => flights'[f] = flights[f] \/ flights[f].acct \in excused'
    /\ Spending(f)' =>
         /\ flights[f].phase # "none"
         /\ flights'[f].acct = flights[f].acct
         /\ \/ Spending(f) /\ flights'[f].tip = flights[f].tip
            \/ flights'[f].tip = library[flights[f].acct].gen

LEMMA RestKeeps ==
  ASSUME CInv, TokensRest, FlightsRest
  PROVE  FlightCarries' /\ SiblingCarries' /\ NeverStranded'
<1>1. \A f \in Flight : Carrying(f) => /\ flights[f].acct \in Account
                                       /\ flights[f].fresh \in Gen
  <2>1. SUFFICES ASSUME NEW f \in Flight, Carrying(f)
                 PROVE  flights[f].acct \in Account /\ flights[f].fresh \in Gen
    OBVIOUS
  <2>2. flights[f].phase # "none" /\ flights[f].phase = "persisting"
    BY <2>1 DEF Carrying
  <2>. QED  BY <2>2, FlightFacts DEF CInv, FlightOK
<1>2. 0 \notin Gen /\ Absent.gen = 0 /\ Absent.present = FALSE
  BY DEF Gen, Absent
<1>3. sibling # NoSibling => sibling.acct \in Account /\ sibling.fresh \in Gen
  BY DEF CInv, IInv, TypeOK
<1>4. None \notin Account /\ NoSibling.acct = None
  BY RefresherAssumption DEF NoSibling
<1>5. FlightCarries'
  <2>1. SUFFICES ASSUME NEW f \in Flight, Carrying(f)'
                 PROVE  /\ flights'[f].acct \notin excused' =>
                             flights'[f].fresh \in live'[flights'[f].acct]
                        /\ flights'[f].fresh # library'[flights'[f].acct].gen
                        /\ sibling'.acct = flights'[f].acct => sibling'.fresh # flights'[f].fresh
    BY DEF FlightCarries
  <2>2. flights'[f] = flights[f]
    BY <2>1 DEF FlightsRest
  <2>3. Carrying(f)
    BY <2>1, <2>2 DEF Carrying
  <2>4. /\ flights[f].acct \notin excused => flights[f].fresh \in live[flights[f].acct]
        /\ flights[f].fresh # library[flights[f].acct].gen
        /\ sibling.acct = flights[f].acct => sibling.fresh # flights[f].fresh
    BY <2>3 DEF CInv, FlightCarries
  <2>. QED  BY <1>1, <1>2, <1>4, <2>2, <2>3, <2>4 DEF TokensRest
<1>6. SiblingCarries'
  <2>1. SUFFICES ASSUME sibling' # NoSibling
                 PROVE  /\ sibling'.acct \notin excused' => sibling'.fresh \in live'[sibling'.acct]
                        /\ sibling'.fresh # library'[sibling'.acct].gen
                        /\ \A f \in Flight : (Spending(f)' /\ flights'[f].acct = sibling'.acct) =>
                             flights'[f].tip # sibling'.fresh
    BY DEF SiblingCarries
  <2>2. sibling' = sibling
    BY <2>1 DEF TokensRest
  <2>3. /\ sibling.acct \notin excused => sibling.fresh \in live[sibling.acct]
        /\ sibling.fresh # library[sibling.acct].gen
        /\ \A f \in Flight : (Spending(f) /\ flights[f].acct = sibling.acct) =>
             flights[f].tip # sibling.fresh
    BY <2>1, <2>2 DEF CInv, SiblingCarries
  <2>4. /\ sibling.acct \notin excused' => sibling.fresh \in live'[sibling.acct]
        /\ sibling.fresh # library'[sibling.acct].gen
    BY <1>2, <1>3, <2>1, <2>2, <2>3 DEF TokensRest
  <2>5. \A f \in Flight : (Spending(f)' /\ flights'[f].acct = sibling.acct) =>
             flights'[f].tip # sibling.fresh
    BY <2>3 DEF FlightsRest
  <2>. QED  BY <2>2, <2>4, <2>5
<1>7. NeverStranded'
  <2>1. SUFFICES ASSUME NEW a \in Account, library'[a].present, a \notin excused'
                 PROVE  \/ library'[a].gen \in live'[a]
                        \/ \E f \in Flight : /\ flights'[f].acct = a
                                             /\ flights'[f].phase = "persisting"
                                             /\ flights'[f].fresh \in live'[a]
                        \/ sibling'.acct = a /\ sibling'.fresh \in live'[a]
    BY DEF NeverStranded
  <2>2. /\ live'[a] = live[a] /\ a \notin excused
        /\ library'[a].gen = library[a].gen /\ library[a].present
    BY <1>2, <2>1 DEF TokensRest
  <2>3. CASE library[a].gen \in live[a]
    BY <2>2, <2>3
  <2>4. CASE \E f \in Flight : /\ flights[f].acct = a
                               /\ flights[f].phase = "persisting"
                               /\ flights[f].fresh \in live[a]
    BY <2>1, <2>2, <2>4 DEF FlightsRest, Carrying
  <2>5. CASE sibling.acct = a /\ sibling.fresh \in live[a]
    BY <2>1, <2>2, <2>5 DEF TokensRest
  <2>. QED  BY <2>2, <2>3, <2>4, <2>5 DEF CInv, NeverStranded
<1>. QED  BY <1>5, <1>6, <1>7

-----------------------------------------------------------------------------
(* The steps that move no token.                                           *)

\* A flight that settles carrying nothing, or excused.
LEMMA QuietClose ==
  ASSUME CInv, NEW f \in Flight, flights[f].phase # "none", Close(f),
         ~Carrying(f) \/ flights[f].acct \in excused'
  PROVE  SingleFlight' /\ FlightsRest
<1>1. /\ SingleFlight' /\ flights'[f] = NoFlight
      /\ \A g \in Flight \ {f} : flights'[g] = flights[g]
  BY CloseKeepsSingle DEF CInv
<1>2. NoFlight.phase = "none"
  BY DEF NoFlight
<1>. QED  BY <1>1, <1>2 DEF FlightsRest, Carrying, Spending

\* A flight that moves on to spend the tip it holds or has just read, or to have
\* it judged.
LEMMA QuietMove ==
  ASSUME CInv, NEW f \in Flight, flights[f].phase # "none", ~Carrying(f), NEW x,
         flights' = [flights EXCEPT ![f] = x], UNCHANGED inflight,
         x.acct = flights[f].acct, x.phase # "persisting",
         x.phase \in {"posting", "pausing"} =>
           \/ Spending(f) /\ x.tip = flights[f].tip
           \/ x.tip = library[flights[f].acct].gen
  PROVE  SingleFlight' /\ FlightsRest
<1>1. /\ SingleFlight' /\ flights'[f] = x
      /\ \A g \in Flight \ {f} : flights'[g] = flights[g]
  BY MoveKeepsSingle DEF CInv
<1>. QED  BY <1>1 DEF FlightsRest, Carrying, Spending

\* A step that leaves the flights alone.
LEMMA QuietFlights ==
  ASSUME CInv, UNCHANGED <<flights, inflight>>
  PROVE  SingleFlight' /\ FlightsRest
BY DEF CInv, SingleFlight, FlightsRest, Carrying, Spending

LEMMA LoadRests ==
  ASSUME CInv, NEW f \in Flight, Load(f)
  PROVE  SingleFlight' /\ FlightsRest /\ TokensRest
<1>1. flights[f].phase = "loading" /\ ~Carrying(f)
  BY DEF Load, Carrying
<1>2. TokensRest
  BY DEF Load, TokensRest, vendor
<1>3. CASE Close(f)
  BY <1>1, <1>2, <1>3, QuietClose
<1>4. CASE /\ flights' = [flights EXCEPT ![f].phase = "posting",
                                        ![f].tip = library[flights[f].acct].gen,
                                        ![f].attempt = 1]
           /\ UNCHANGED inflight
  <2>. DEFINE x == [flights[f] EXCEPT !.phase = "posting",
                                      !.tip = library[flights[f].acct].gen, !.attempt = 1]
  <2>1. flights[f] \in FlightState /\ flights \in [Flight -> FlightState \cup {NoFlight}]
    BY <1>1, FlightFacts DEF CInv, IInv, TypeOK
  <2>2. /\ x.acct = flights[f].acct /\ x.phase = "posting"
        /\ x.tip = library[flights[f].acct].gen
    BY <2>1 DEF FlightState
  <2>3. flights' = [flights EXCEPT ![f] = x]
    BY <1>4, <2>1 DEF FlightState
  <2>. HIDE DEF x
  <2>. QED  BY <1>1, <1>2, <1>4, <2>2, <2>3, QuietMove
<1>. QED  BY <1>3, <1>4 DEF Load, Grant, Reject

LEMMA AnswersRest ==
  ASSUME CInv, NEW f \in Flight,
         \/ PostRevoked(f) \/ PostRetryable(f) \/ PostRefused(f) \/ PostLimited(f) \/ Retry(f)
  PROVE  SingleFlight' /\ FlightsRest /\ TokensRest
<1>. USE DEF PostRevoked, PostRetryable, PostRefused, PostLimited, Retry
<1>1. Spending(f) /\ flights[f].phase # "none" /\ ~Carrying(f)
  BY DEF Posting, Spending, Carrying
<1>2. TokensRest
  BY DEF TokensRest, vendor
<1>3. CASE Close(f)
  BY <1>1, <1>2, <1>3, QuietClose
<1>4. CASE ~Close(f)
  <2>1. flights[f] \in FlightState /\ flights \in [Flight -> FlightState \cup {NoFlight}]
    BY <1>1, FlightFacts DEF CInv, IInv, TypeOK
  <2>2. UNCHANGED inflight
    BY <1>4 DEF Reject
  <2>3. PICK x : /\ flights' = [flights EXCEPT ![f] = x]
                 /\ x.acct = flights[f].acct /\ x.tip = flights[f].tip
                 /\ x.phase \in {"posting", "pausing", "revoked"}
    <3>1. CASE flights' = [flights EXCEPT ![f].phase = "revoked"]
      <4>. WITNESS [flights[f] EXCEPT !.phase = "revoked"]
      <4>. QED  BY <2>1, <3>1 DEF FlightState
    <3>2. CASE flights' = [flights EXCEPT ![f].phase = "pausing"]
      <4>. WITNESS [flights[f] EXCEPT !.phase = "pausing"]
      <4>. QED  BY <2>1, <3>2 DEF FlightState
    <3>3. CASE flights' = [flights EXCEPT ![f].phase = "posting", ![f].attempt = @ + 1]
      <4>. WITNESS [flights[f] EXCEPT !.phase = "posting", !.attempt = @ + 1]
      <4>. QED  BY <2>1, <3>3 DEF FlightState
    <3>. QED  BY <1>4, <3>1, <3>2, <3>3 DEF Reject
  <2>. QED  BY <1>1, <1>2, <2>2, <2>3, QuietMove
<1>. QED  BY <1>3, <1>4

\* The new token is lost with the answer, or with the write.
LEMMA LossesRest ==
  ASSUME CInv, NEW f \in Flight, PostLost(f) \/ PersistFails(f)
  PROVE  SingleFlight' /\ FlightsRest /\ TokensRest
<1>1. /\ flights[f].phase # "none" /\ Close(f)
      /\ excused' = excused \cup {flights[f].acct}
      /\ UNCHANGED <<library, sibling>>
  BY DEF PostLost, PersistFails, Posting, Reject
<1>2. flights[f].acct \in Account
  BY <1>1, FlightFacts DEF CInv
<1>3. \A a \in Account : a # flights[f].acct => live'[a] = live[a]
  BY DEF PostLost, PersistFails, Rotate, vendor, CInv, IInv, TypeOK
<1>4. TokensRest
  BY <1>1, <1>3 DEF TokensRest
<1>. QED  BY <1>1, <1>4, QuietClose

\* Flagging a record moves no token.
LEMMA FlagKeeps ==
  ASSUME CInv, NEW b \in Account, library[b].present,
         library' = [library EXCEPT ![b].flagged = TRUE]
  PROVE  \A a \in Account :
           library'[a].gen = library[a].gen /\ library'[a].present = library[a].present
<1>1. library \in [Account -> Record \cup {Absent}]
  BY DEF CInv, IInv, TypeOK
<1>2. library[b] \in Record
  BY <1>1 DEF Absent
<1>. DEFINE r == [library[b] EXCEPT !.flagged = TRUE]
<1>3. library' = [library EXCEPT ![b] = r]
  BY <1>1
<1>4. r.gen = library[b].gen /\ r.present = library[b].present
  BY <1>2 DEF Record
<1>. HIDE DEF r
<1>. QED  BY <1>1, <1>3, <1>4

LEMMA JudgementsRest ==
  ASSUME CInv, NEW f \in Flight, JudgeRevoked(f) \/ JudgeFails(f)
  PROVE  SingleFlight' /\ FlightsRest /\ TokensRest
<1>1. flights[f].phase # "none" /\ ~Carrying(f) /\ Close(f)
  BY DEF JudgeRevoked, JudgeFails, Carrying, Grant, Reject
<1>2. UNCHANGED <<vendor, sibling, excused>>
  BY DEF JudgeRevoked, JudgeFails
<1>3. \A a \in Account :
        library'[a].gen = library[a].gen /\ library'[a].present = library[a].present
  <2>1. flights[f].acct \in Account
    BY <1>1, FlightFacts DEF CInv
  <2>. QED  BY <2>1, FlagKeeps DEF JudgeRevoked, JudgeFails
<1>4. TokensRest
  BY <1>2, <1>3 DEF TokensRest, vendor
<1>. QED  BY <1>1, <1>4, QuietClose

LEMMA OthersRest ==
  ASSUME CInv,
         \/ \E a \in Account : \/ Warm(a) \/ \E w \in Worker : RequestLease(w, a)
                               \/ SiblingJudges(a) \/ Remove(a)
                               \/ \E gen \in Gen : ChainDies(a, gen)
         \/ SiblingDies \/ Crash \/ Tick
  PROVE  SingleFlight' /\ FlightsRest /\ TokensRest
<1>1. ASSUME NEW a \in Account, Warm(a) \/ \E w \in Worker : RequestLease(w, a)
      PROVE  SingleFlight' /\ FlightsRest /\ TokensRest
  <2>1. TokensRest
    BY <1>1 DEF Warm, RequestLease, TokensRest, vendor
  <2>2. CASE UNCHANGED <<flights, inflight>>
    BY <2>1, <2>2, QuietFlights
  <2>3. ASSUME NEW f \in Flight, NEW h, Start(f, a, h)
        PROVE  SingleFlight' /\ FlightsRest
    <3>1. /\ SingleFlight' /\ flights'[f].phase = "loading" /\ flights[f] = NoFlight
          /\ \A g \in Flight \ {f} : flights'[g] = flights[g]
      BY <2>3, StartKeepsSingle DEF CInv
    <3>. QED  BY <3>1 DEF FlightsRest, Carrying, Spending, NoFlight
  <2>. QED  BY <1>1, <2>1, <2>2, <2>3 DEF Warm, RequestLease
<1>2. ASSUME NEW a \in Account, SiblingJudges(a) \/ Remove(a)
      PROVE  SingleFlight' /\ FlightsRest /\ TokensRest
  <2>1. library \in [Account -> Record \cup {Absent}]
    BY DEF CInv, IInv, TypeOK
  <2>2. CASE SiblingJudges(a)
    <3>1. TokensRest
      BY <2>2, FlagKeeps DEF SiblingJudges, TokensRest, vendor
    <3>. QED  BY <2>2, <3>1, QuietFlights DEF SiblingJudges, process
  <2>3. CASE Remove(a)
    <3>1. TokensRest
      BY <2>1, <2>3 DEF Remove, TokensRest, vendor
    <3>. QED  BY <2>3, <3>1, QuietFlights DEF Remove, process
  <2>. QED  BY <1>2, <2>2, <2>3
<1>3. ASSUME NEW a \in Account, NEW gen \in Gen, ChainDies(a, gen)
      PROVE  SingleFlight' /\ FlightsRest /\ TokensRest
  <2>1. TokensRest
    BY <1>3 DEF ChainDies, TokensRest, CInv, IInv, TypeOK
  <2>. QED  BY <1>3, <2>1, QuietFlights DEF ChainDies, process
<1>4. CASE SiblingDies
  <2>1. TokensRest
    BY <1>4 DEF SiblingDies, TokensRest, vendor
  <2>. QED  BY <1>4, <2>1, QuietFlights DEF SiblingDies, process
<1>5. CASE Crash
  <2>1. \A f \in Flight : flights'[f] = NoFlight /\ NoFlight.phase = "none"
    BY <1>5 DEF Crash, NoFlight
  <2>2. \A f \in Flight : Carrying(f) => flights[f].acct \in excused'
    BY <1>5 DEF Crash, Carrying
  <2>3. TokensRest
    BY <1>5 DEF Crash, TokensRest, vendor
  <2>. QED  BY <2>1, <2>2, <2>3 DEF SingleFlight, FlightsRest, Carrying, Spending
<1>6. CASE Tick
  <2>1. TokensRest
    BY <1>6 DEF Tick, TokensRest, vendor
  <2>. QED  BY <1>6, <2>1, QuietFlights DEF Tick, process
<1>. QED  BY <1>1, <1>2, <1>3, <1>4, <1>5, <1>6

-----------------------------------------------------------------------------
(* The steps that do.                                                      *)

\* What the invariant says of the generations that are about: nobody has one
\* that is yet to be minted.
LEMMA KnownOnRecord ==
  ASSUME CInv, NEW a \in Account
  PROVE  /\ minted[a] \in Nat
         /\ library[a].gen \in Nat
         /\ library[a].gen <= minted[a]
<1>1. library[a] \in Record \cup {Absent} /\ RecordOK(library[a], a, minted, live)
  BY DEF CInv, IInv, TypeOK, LibraryInv
<1>2. minted[a] \in Nat
  BY DEF CInv, IInv, TypeOK
<1>3. CASE library[a] \in Record
  <2>1. library[a].present = TRUE /\ library[a].gen \in Gen
    BY <1>3 DEF Record
  <2>. QED  BY <1>1, <1>2, <2>1 DEF RecordOK, Gen
<1>4. CASE library[a] = Absent
  BY <1>2, <1>4 DEF Absent
<1>. QED  BY <1>1, <1>2, <1>3, <1>4

LEMMA Known ==
  ASSUME CInv
  PROVE  /\ \A a \in Account : minted[a] \in Nat
         /\ sibling # NoSibling => /\ sibling.acct \in Account
                                   /\ sibling.fresh \in Nat
                                   /\ sibling.fresh <= minted[sibling.acct]
         /\ \A f \in Flight : Carrying(f) =>
              /\ flights[f].phase # "none" /\ flights[f].acct \in Account
              /\ flights[f].fresh \in Nat /\ flights[f].fresh <= minted[flights[f].acct]
         /\ \A f \in Flight : Spending(f) =>
              /\ flights[f].phase # "none" /\ flights[f].acct \in Account
              /\ flights[f].tip \in Nat /\ flights[f].tip <= minted[flights[f].acct]
<1>. USE DEF CInv
<1>1. \A a \in Account : minted[a] \in Nat
  BY DEF IInv, TypeOK
<1>2. sibling # NoSibling => /\ sibling.acct \in Account /\ sibling.fresh \in Nat
                             /\ sibling.fresh <= minted[sibling.acct]
  BY DEF IInv, TypeOK, SiblingInv, Gen
<1>3. ASSUME NEW f \in Flight, Carrying(f) \/ Spending(f)
      PROVE  /\ flights[f].phase # "none" /\ flights[f].acct \in Account
             /\ Carrying(f) => /\ flights[f].fresh \in Nat
                               /\ flights[f].fresh <= minted[flights[f].acct]
             /\ Spending(f) => /\ flights[f].tip \in Nat
                               /\ flights[f].tip <= minted[flights[f].acct]
  <2>1. flights[f].phase # "none"
    BY <1>3 DEF Carrying, Spending
  <2>2. flights[f].acct \in Account /\ FlightOK(flights[f], minted, expiry, live, now)
    BY <2>1, FlightFacts
  <2>. QED  BY <2>1, <2>2 DEF Carrying, Spending, FlightOK, Gen
<1>. QED  BY <1>1, <1>2, <1>3

\* Two flights are of two accounts.
LEMMA FlightsDiffer ==
  ASSUME CInv, NEW f \in Flight, NEW g \in Flight, f # g,
         flights[f].phase # "none", flights[g].phase # "none"
  PROVE  flights[f].acct # flights[g].acct
<1>1. flights[f] # NoFlight /\ flights[g] # NoFlight
  BY FlightFacts DEF CInv
<1>. QED  BY <1>1 DEF CInv, SingleFlight

\* What a rotation does to the generations that are good.
LEMMA RotateLive ==
  ASSUME CInv, NEW a \in Account, NEW tip \in 0 .. MaxGen, Rotate(a, tip)
  PROVE  /\ Newest(a) \in Nat /\ Newest(a) > minted[a]
         /\ Newest(a) \in live'[a]
         /\ \A g \in live[a] \ {tip} : g \in live'[a]
         /\ \A b \in Account \ {a} : live'[b] = live[b]
<1>1. Newest(a) = minted[a] + 1 /\ Newest(a) \in live'[a]
  BY RotateStep DEF CInv, IInv
<1>2. /\ live' = [live EXCEPT ![a] = (@ \ {tip}) \cup {minted[a] + 1}]
      /\ live \in [Account -> SUBSET Gen]
  BY DEF Rotate, CInv, IInv, TypeOK
<1>. QED  BY <1>1, <1>2, Known

\* The minted generation is on its way from its flight to the library.
LEMMA PostSucceedsCarries ==
  ASSUME CInv, NEW f \in Flight, PostSucceeds(f)
  PROVE  SingleFlight' /\ FlightCarries' /\ SiblingCarries' /\ NeverStranded'
<1>. DEFINE a == flights[f].acct
            n == Newest(a)
            x == [flights[f] EXCEPT !.phase = "persisting", !.fresh = n]
<1>1. /\ flights[f].phase # "none" /\ Spending(f) /\ ~Carrying(f)
      /\ Rotate(a, flights[f].tip)
      /\ UNCHANGED <<library, sibling, inflight, excused>>
  BY DEF PostSucceeds, Posting, Spending, Carrying
<1>2. /\ a \in Account /\ flights[f].tip \in 0 .. MaxGen
      /\ flights[f] \in FlightState /\ flights \in [Flight -> FlightState \cup {NoFlight}]
  BY <1>1, FlightFacts DEF CInv, IInv, TypeOK
<1>3. /\ n \in Nat /\ n > minted[a] /\ n \in live'[a]
      /\ \A g \in live[a] \ {flights[f].tip} : g \in live'[a]
      /\ \A b \in Account \ {a} : live'[b] = live[b]
  BY <1>1, <1>2, RotateLive
<1>4. x.acct = a /\ x.phase = "persisting" /\ x.fresh = n
  BY <1>2 DEF FlightState
<1>5. flights' = [flights EXCEPT ![f] = x]
  BY <1>2 DEF PostSucceeds, FlightState
<1>. HIDE DEF x, n
<1>6. /\ SingleFlight' /\ flights'[f] = x
      /\ \A g \in Flight \ {f} : flights'[g] = flights[g]
  BY <1>1, <1>4, <1>5, MoveKeepsSingle DEF CInv
<1>7. FlightCarries'
  <2>1. SUFFICES ASSUME NEW g \in Flight, Carrying(g)'
                 PROVE  /\ flights'[g].acct \notin excused =>
                             flights'[g].fresh \in live'[flights'[g].acct]
                        /\ flights'[g].fresh # library[flights'[g].acct].gen
                        /\ sibling.acct = flights'[g].acct => sibling.fresh # flights'[g].fresh
    BY <1>1 DEF FlightCarries
  <2>2. CASE g = f
    <3>1. n # library[a].gen /\ (sibling.acct = a => sibling.fresh # n)
      <4>1. sibling.acct = a => sibling # NoSibling
        BY <1>2, RefresherAssumption DEF NoSibling
      <4>2. minted[a] \in Nat /\ library[a].gen \in Nat /\ library[a].gen <= minted[a]
        BY <1>2, KnownOnRecord
      <4>3. sibling.acct = a => sibling.fresh \in Nat /\ sibling.fresh <= minted[a]
        BY <4>1, Known
      <4>. QED  BY <1>3, <4>2, <4>3
    <3>. QED  BY <1>3, <1>4, <1>6, <2>2, <3>1
  <2>3. CASE g # f
    <3>1. flights'[g] = flights[g] /\ Carrying(g)
      BY <1>6, <2>1, <2>3 DEF Carrying
    <3>2. flights[g].acct \in Account \ {a}
      BY <1>1, <2>3, <3>1, Known, FlightsDiffer
    <3>. QED  BY <1>3, <3>1, <3>2 DEF CInv, FlightCarries
  <2>. QED  BY <2>2, <2>3
<1>8. SiblingCarries'
  <2>1. SUFFICES ASSUME sibling # NoSibling
                 PROVE  /\ sibling.acct \notin excused => sibling.fresh \in live'[sibling.acct]
                        /\ sibling.fresh # library[sibling.acct].gen
                        /\ \A g \in Flight : (Spending(g)' /\ flights'[g].acct = sibling.acct) =>
                             flights'[g].tip # sibling.fresh
    BY <1>1 DEF SiblingCarries
  <2>2. \A g \in Flight : Spending(g)' => Spending(g) /\ flights'[g] = flights[g]
    BY <1>4, <1>6 DEF Spending
  <2>3. sibling.acct = a => sibling.fresh # flights[f].tip
    BY <1>1, <2>1 DEF CInv, SiblingCarries
  <2>4. sibling.acct \in Account
    BY <2>1, Known
  <2>. QED  BY <1>3, <2>1, <2>2, <2>3, <2>4 DEF CInv, SiblingCarries
<1>9. NeverStranded'
  <2>1. SUFFICES ASSUME NEW b \in Account, library[b].present, b \notin excused
                 PROVE  \/ library[b].gen \in live'[b]
                        \/ \E g \in Flight : /\ flights'[g].acct = b
                                             /\ flights'[g].phase = "persisting"
                                             /\ flights'[g].fresh \in live'[b]
                        \/ sibling.acct = b /\ sibling.fresh \in live'[b]
    BY <1>1 DEF NeverStranded
  <2>2. CASE b = a
    BY <1>3, <1>4, <1>6, <2>2
  <2>3. CASE b # a
    <3>1. live'[b] = live[b]
      BY <1>3, <2>3
    <3>. QED  BY <1>1, <1>6, <2>1, <3>1 DEF CInv, NeverStranded, Carrying
  <2>. QED  BY <2>2, <2>3
<1>. QED  BY <1>6, <1>7, <1>8, <1>9

\* The carried generation arrives.
LEMMA PersistArrives ==
  ASSUME CInv, NEW f \in Flight, Persist(f)
  PROVE  SingleFlight' /\ FlightCarries' /\ SiblingCarries' /\ NeverStranded'
<1>. DEFINE a == flights[f].acct
<1>1. /\ Carrying(f) /\ flights[f].phase # "none" /\ Close(f)
      /\ UNCHANGED <<live, sibling, excused>>
      /\ sibling = NoSibling
  BY DEF Persist, Carrying, Grant, LockFree, vendor
<1>2. a \in Account /\ library \in [Account -> Record \cup {Absent}]
  BY <1>1, FlightFacts DEF CInv, IInv, TypeOK
<1>3. /\ SingleFlight' /\ flights'[f] = NoFlight
      /\ \A g \in Flight \ {f} : flights'[g] = flights[g]
  BY <1>1, CloseKeepsSingle DEF CInv
<1>4. \A b \in Account \ {a} : library'[b] = library[b]
  BY <1>2 DEF Persist
<1>5. library'[a].present => library'[a].gen = flights[f].fresh
  <2>1. CASE library[a].present
    <3>1. library[a] \in Record
      BY <1>2, <2>1 DEF Absent
    <3>. QED  BY <1>2, <2>1, <3>1 DEF Persist, Record
  <2>2. CASE ~library[a].present
    BY <2>2 DEF Persist
  <2>. QED  BY <2>1, <2>2
<1>6. a \notin excused => flights[f].fresh \in live[a]
  BY <1>1 DEF CInv, FlightCarries
<1>7. NoFlight.phase = "none" /\ NoSibling.acct = None /\ None \notin Account
  BY RefresherAssumption DEF NoFlight, NoSibling
<1>8. FlightCarries'
  <2>1. SUFFICES ASSUME NEW g \in Flight, Carrying(g)'
                 PROVE  /\ flights'[g].acct \notin excused =>
                             flights'[g].fresh \in live[flights'[g].acct]
                        /\ flights'[g].fresh # library'[flights'[g].acct].gen
                        /\ sibling.acct = flights'[g].acct => sibling.fresh # flights'[g].fresh
    BY <1>1 DEF FlightCarries
  <2>2. g # f /\ flights'[g] = flights[g] /\ Carrying(g)
    BY <1>3, <1>7, <2>1 DEF Carrying
  <2>3. flights[g].acct \in Account \ {a}
    BY <1>1, <2>2, Known, FlightsDiffer
  <2>. QED  BY <1>4, <2>2, <2>3 DEF CInv, FlightCarries
<1>9. SiblingCarries'
  BY <1>1 DEF SiblingCarries
<1>10. NeverStranded'
  <2>1. SUFFICES ASSUME NEW b \in Account, library'[b].present, b \notin excused
                 PROVE  \/ library'[b].gen \in live[b]
                        \/ \E g \in Flight : /\ flights'[g].acct = b
                                             /\ flights'[g].phase = "persisting"
                                             /\ flights'[g].fresh \in live[b]
    BY <1>1 DEF NeverStranded
  <2>2. CASE b = a
    BY <1>5, <1>6, <2>1, <2>2
  <2>3. CASE b # a
    <3>1. \/ library[b].gen \in live[b]
          \/ \E g \in Flight : /\ flights[g].acct = b
                               /\ flights[g].phase = "persisting"
                               /\ flights[g].fresh \in live[b]
      BY <1>1, <1>4, <1>7, <2>1, <2>3 DEF CInv, NeverStranded
    <3>. QED  BY <1>3, <1>4, <2>3, <3>1
  <2>. QED  BY <2>2, <2>3
<1>. QED  BY <1>3, <1>8, <1>9, <1>10

\* Another process mints the next generation, from the tip on record.
LEMMA SiblingPostsCarries ==
  ASSUME CInv, NEW a \in Account, SiblingPosts(a)
  PROVE  SingleFlight' /\ FlightCarries' /\ SiblingCarries' /\ NeverStranded'
<1>. DEFINE n == Newest(a)
<1>1. /\ sibling = NoSibling /\ sibling' = [acct |-> a, fresh |-> n]
      /\ Rotate(a, library[a].gen)
      /\ UNCHANGED <<library, flights, inflight, excused>>
  BY DEF SiblingPosts, LockFree, process
<1>2. library[a].gen \in 0 .. MaxGen
  BY DEF SiblingPosts, CInv, IInv, TypeOK, Record, Absent, Gen
<1>3. /\ n \in Nat /\ n > minted[a] /\ n \in live'[a]
      /\ \A g \in live[a] \ {library[a].gen} : g \in live'[a]
      /\ \A b \in Account \ {a} : live'[b] = live[b]
  BY <1>1, <1>2, RotateLive
<1>. HIDE DEF n
<1>4. SingleFlight'
  BY <1>1 DEF CInv, SingleFlight
<1>5. sibling' # NoSibling /\ sibling'.acct = a /\ sibling'.fresh = n
  BY <1>1, RefresherAssumption DEF NoSibling
<1>6. ASSUME NEW f \in Flight, Carrying(f)
      PROVE  flights[f].acct \notin excused => flights[f].fresh \in live'[flights[f].acct]
  BY <1>3, <1>6, Known DEF CInv, FlightCarries
<1>7. FlightCarries'
  <2>1. SUFFICES ASSUME NEW f \in Flight, Carrying(f)
                 PROVE  /\ flights[f].acct \notin excused =>
                             flights[f].fresh \in live'[flights[f].acct]
                        /\ flights[f].fresh # library[flights[f].acct].gen
                        /\ a = flights[f].acct => n # flights[f].fresh
    BY <1>1, <1>5 DEF FlightCarries, Carrying
  <2>2. minted[a] \in Nat /\ flights[f].fresh \in Nat
        /\ (a = flights[f].acct => flights[f].fresh <= minted[a])
    BY <2>1, Known
  <2>. QED  BY <1>3, <1>6, <2>1, <2>2 DEF CInv, FlightCarries
<1>8. SiblingCarries'
  <2>1. n # library[a].gen
    BY <1>3, KnownOnRecord
  <2>2. ASSUME NEW f \in Flight, Spending(f), flights[f].acct = a
        PROVE  flights[f].tip # n
    BY <1>3, <2>2, Known
  <2>. QED  BY <1>1, <1>3, <1>5, <2>1, <2>2 DEF SiblingCarries, Spending
<1>9. NeverStranded'
  <2>1. SUFFICES ASSUME NEW b \in Account, library[b].present, b \notin excused
                 PROVE  \/ library[b].gen \in live'[b]
                        \/ \E f \in Flight : /\ flights[f].acct = b
                                             /\ flights[f].phase = "persisting"
                                             /\ flights[f].fresh \in live'[b]
                        \/ a = b /\ n \in live'[b]
    BY <1>1, <1>5 DEF NeverStranded
  <2>2. CASE b = a
    BY <1>3, <2>2
  <2>3. CASE b # a
    BY <1>1, <1>3, <2>1, <2>3, RefresherAssumption DEF CInv, NeverStranded, NoSibling
  <2>. QED  BY <2>2, <2>3
<1>. QED  BY <1>4, <1>7, <1>8, <1>9

\* And records it.
LEMMA SiblingSavesArrives ==
  ASSUME CInv, SiblingSaves
  PROVE  SingleFlight' /\ FlightCarries' /\ SiblingCarries' /\ NeverStranded'
<1>. DEFINE a == sibling.acct
            r == [library[a] EXCEPT !.gen = sibling.fresh, !.flagged = FALSE]
<1>1. /\ sibling # NoSibling /\ sibling' = NoSibling
      /\ UNCHANGED <<live, flights, inflight, excused>>
  BY DEF SiblingSaves, vendor, process
<1>2. a \in Account /\ library \in [Account -> Record \cup {Absent}] /\ library[a] \in Record
  BY <1>1 DEF CInv, IInv, TypeOK, SiblingInv, Absent
<1>3. library' = [library EXCEPT ![a] = r]
  BY <1>2 DEF SiblingSaves
<1>4. r.gen = sibling.fresh
  BY <1>2 DEF Record
<1>. HIDE DEF r
<1>5. library'[a].gen = sibling.fresh /\ \A b \in Account \ {a} : library'[b] = library[b]
  BY <1>2, <1>3, <1>4
<1>6. /\ a \notin excused => sibling.fresh \in live[a]
      /\ \A f \in Flight : Carrying(f) =>
           /\ flights[f].acct \notin excused => flights[f].fresh \in live[flights[f].acct]
           /\ flights[f].fresh # library[flights[f].acct].gen
           /\ a = flights[f].acct => sibling.fresh # flights[f].fresh
  BY <1>1 DEF CInv, FlightCarries, SiblingCarries
<1>7. NoSibling.acct = None /\ None \notin Account
  BY RefresherAssumption DEF NoSibling
<1>8. FlightCarries'
  <2>1. SUFFICES ASSUME NEW f \in Flight, Carrying(f)
                 PROVE  /\ flights[f].acct \notin excused =>
                             flights[f].fresh \in live[flights[f].acct]
                        /\ flights[f].fresh # library'[flights[f].acct].gen
                        /\ flights[f].acct # None
    BY <1>1, <1>7 DEF FlightCarries, Carrying
  <2>2. flights[f].acct \in Account
    BY <2>1, Known
  <2>. QED  BY <1>5, <1>6, <1>7, <2>1, <2>2
<1>9. SingleFlight' /\ SiblingCarries'
  BY <1>1 DEF CInv, SingleFlight, SiblingCarries
<1>10. NeverStranded'
  <2>1. SUFFICES ASSUME NEW b \in Account, library'[b].present, b \notin excused
                 PROVE  \/ library'[b].gen \in live[b]
                        \/ \E f \in Flight : /\ flights[f].acct = b
                                             /\ flights[f].phase = "persisting"
                                             /\ flights[f].fresh \in live[b]
    BY <1>1 DEF NeverStranded
  <2>2. CASE b = a
    BY <1>5, <1>6, <2>1, <2>2
  <2>3. CASE b # a
    BY <1>5, <2>1, <2>3 DEF CInv, NeverStranded
  <2>. QED  BY <2>2, <2>3
<1>. QED  BY <1>8, <1>9, <1>10

\* A login puts a good chain on record, and leaves a flight what it carries.
LEMMA LoginRecords ==
  ASSUME CInv, NEW a \in Account, Login(a)
  PROVE  SingleFlight' /\ FlightCarries' /\ SiblingCarries' /\ NeverStranded'
<1>. DEFINE n == Newest(a)
            r == [present |-> TRUE, gen |-> n, flagged |-> FALSE]
<1>1. /\ sibling = NoSibling /\ Rotate(a, 0)
      /\ library' = [library EXCEPT ![a] = r]
      /\ UNCHANGED <<sibling, flights, inflight>>
  BY DEF Login, LockFree, process
<1>2. 0 \in 0 .. MaxGen /\ 0 \notin live[a]
  <2>1. live[a] \subseteq Gen
    BY DEF CInv, IInv, TypeOK
  <2>2. 0 \notin Gen
    BY DEF Gen
  <2>3. 0 \in 0 .. MaxGen
    BY RefresherAssumption
  <2>. QED  BY <2>1, <2>2, <2>3
<1>3. /\ n \in Nat /\ n > minted[a] /\ n \in live'[a]
      /\ \A b \in Account : \A g \in live[b] : g \in live'[b]
  BY <1>1, <1>2, RotateLive
<1>4. r.gen = n
  OBVIOUS
<1>. HIDE DEF n, r
<1>5. library'[a].gen = n /\ \A b \in Account \ {a} : library'[b] = library[b]
  BY <1>1, <1>4 DEF CInv, IInv, TypeOK
<1>6. \A b \in Account \ {a} : b \in excused <=> b \in excused'
  BY DEF Login
<1>7. \A f \in Flight : Carrying(f) =>
        (flights[f].acct \in excused <=> flights[f].acct \in excused')
  BY DEF Login, Carrying
<1>8. SingleFlight' /\ SiblingCarries'
  BY <1>1 DEF CInv, SingleFlight, SiblingCarries
<1>9. FlightCarries'
  <2>1. SUFFICES ASSUME NEW f \in Flight, Carrying(f)
                 PROVE  /\ flights[f].acct \notin excused' =>
                             flights[f].fresh \in live'[flights[f].acct]
                        /\ flights[f].fresh # library'[flights[f].acct].gen
                        /\ sibling.acct = flights[f].acct => sibling.fresh # flights[f].fresh
    BY <1>1 DEF FlightCarries, Carrying
  <2>2. /\ flights[f].acct \in Account /\ flights[f].fresh \in Nat
        /\ flights[f].fresh <= minted[flights[f].acct] /\ minted[flights[f].acct] \in Nat
    BY <2>1, Known
  <2>3. /\ flights[f].acct \notin excused => flights[f].fresh \in live[flights[f].acct]
        /\ flights[f].fresh # library[flights[f].acct].gen
        /\ sibling.acct = flights[f].acct => sibling.fresh # flights[f].fresh
    BY <2>1 DEF CInv, FlightCarries
  <2>4. flights[f].fresh # library'[flights[f].acct].gen
    BY <1>3, <1>5, <2>2, <2>3
  <2>. QED  BY <1>3, <1>7, <2>1, <2>2, <2>3, <2>4
<1>10. NeverStranded'
  <2>1. SUFFICES ASSUME NEW b \in Account, library'[b].present, b \notin excused'
                 PROVE  \/ library'[b].gen \in live'[b]
                        \/ \E f \in Flight : /\ flights[f].acct = b
                                             /\ flights[f].phase = "persisting"
                                             /\ flights[f].fresh \in live'[b]
    BY <1>1 DEF NeverStranded
  <2>2. CASE b = a
    BY <1>3, <1>5, <2>2
  <2>3. CASE b # a
    BY <1>1, <1>3, <1>5, <1>6, <2>1, <2>3, RefresherAssumption DEF CInv, NeverStranded, NoSibling
  <2>. QED  BY <2>2, <2>3
<1>. QED  BY <1>8, <1>9, <1>10

-----------------------------------------------------------------------------
LEMMA CarryingInit == Init => CInv
<1>. SUFFICES ASSUME Init PROVE CInv
  OBVIOUS
<1>1. IInv
  BY InitEstablishes
<1>2. SingleFlight /\ FlightCarries /\ SiblingCarries
  BY DEF Init, SingleFlight, FlightCarries, SiblingCarries, Carrying, NoFlight
<1>3. NeverStranded
  BY DEF Init, NeverStranded
<1>. QED  BY <1>1, <1>2, <1>3 DEF CInv

LEMMA CarryingPreserved == CInv /\ [Next]_vars => CInv'
<1>. SUFFICES ASSUME CInv, [Next]_vars PROVE CInv'
  OBVIOUS
<1>1. IInv'
  BY NextPreserves DEF CInv
<1>2. ASSUME SingleFlight' /\ FlightsRest /\ TokensRest
      PROVE  CInv'
  BY <1>1, <1>2, RestKeeps DEF CInv
<1>3. CASE UNCHANGED vars
  BY <1>1, <1>3 DEF CInv, vars, vendor, process, SingleFlight, FlightCarries, SiblingCarries,
     NeverStranded, Carrying, Spending
<1>4. ASSUME NEW f \in Flight, FlightStep(f)
      PROVE  CInv'
  <2>1. CASE PostSucceeds(f) \/ Persist(f)
    BY <1>1, <2>1, PostSucceedsCarries, PersistArrives DEF CInv
  <2>2. CASE ~(PostSucceeds(f) \/ Persist(f))
    BY <1>2, <1>4, <2>2, LoadRests, AnswersRest, LossesRest, JudgementsRest DEF FlightStep
  <2>. QED  BY <2>1, <2>2
<1>5. ASSUME \/ \E a \in Account : SiblingPosts(a) \/ Login(a)
             \/ SiblingSaves
      PROVE  CInv'
  BY <1>1, <1>5, SiblingPostsCarries, SiblingSavesArrives, LoginRecords DEF CInv
<1>. QED  BY <1>2, <1>3, <1>4, <1>5, OthersRest DEF Next

\* Unless a chain died, an answer or a write was lost or a process died, the tip
\* on record is good, or its successor is in the hands of whoever is about to
\* write it (the in-flight map, the auth lock and persistToken together).
THEOREM AccountsAreNotStranded == Spec => []NeverStranded
<1>1. CInv => NeverStranded
  BY DEF CInv
<1>. QED  BY CarryingInit, CarryingPreserved, <1>1, PTL DEF Spec

-----------------------------------------------------------------------------
(***************************************************************************)
(* Refresher implements TokenChain, for any accounts, workers and time     *)
(* constants: each of its steps spends, records, loses, condemns, renews   *)
(* or deletes an account's one good token as the abstract chain may, or    *)
(* leaves it where it is.                                                  *)
(***************************************************************************)

\* An account's place depends on its record, the generations that are good, and
\* who carries one of them.
LEMMA SamePlace ==
  ASSUME NEW a \in Account,
         library'[a].present = library[a].present,
         library'[a].present => /\ library'[a].gen \in live'[a] <=> library[a].gen \in live[a]
                                /\ Carried(a)' <=> Carried(a)
  PROVE  TipOf(a)' = TipOf(a)
BY DEF TipOf

\* The carriers of an account that a step leaves alone.
LEMMA SameCarriers ==
  ASSUME NEW a \in Account, live'[a] = live[a], sibling' = sibling,
         \A f \in Flight : /\ Carrying(f) /\ flights[f].acct = a => flights'[f] = flights[f]
                           /\ Carrying(f)' /\ flights'[f].acct = a => flights'[f] = flights[f]
  PROVE  Carried(a)' <=> Carried(a)
BY DEF Carried, Carrying

-----------------------------------------------------------------------------
(* Steps that move no token, or lose one.                                  *)

\* The verdicts stay, and no generation that was minted becomes good again.
VerdictsRest ==
  /\ \A a \in Account : library'[a].flagged = library[a].flagged
  /\ \A a \in Account : library'[a].present = library[a].present
  /\ excused' \subseteq Account
  /\ \A a \in Account :
       /\ minted'[a] >= minted[a]
       /\ a \notin excused' => minted'[a] = minted[a]
       /\ \A g \in live'[a] : g <= minted[a] => g \in live[a]

LEMMA RestLoses ==
  ASSUME CInv, CInv', TokensRest, FlightsRest, VerdictsRest
  PROVE  Chain!Lose
<1>1. /\ None \notin Account /\ NoSibling.acct = None
      /\ Absent.present = FALSE
  BY RefresherAssumption DEF NoSibling, Absent
<1>2. ASSUME NEW a \in Account, a \notin excused'
      PROVE  TipOf(a)' = TipOf(a)
  <2>1. live'[a] = live[a] /\ a \notin excused
    BY <1>2 DEF TokensRest
  <2>2. library'[a].present => library'[a].gen = library[a].gen
    BY <1>1 DEF TokensRest
  <2>3. Carried(a)' <=> Carried(a)
    <3>1. sibling'.acct = a \/ sibling.acct = a => sibling' = sibling
      BY <1>1, <1>2 DEF TokensRest
    <3>2. ASSUME Carried(a) PROVE Carried(a)'
      BY <1>2, <2>1, <3>1, <3>2 DEF Carried, Carrying, FlightsRest
    <3>3. ASSUME Carried(a)' PROVE Carried(a)
      BY <1>2, <2>1, <3>1, <3>3 DEF Carried, Carrying, FlightsRest
    <3>. QED  BY <3>2, <3>3
  <2>. QED  BY <2>1, <2>2, <2>3, SamePlace DEF VerdictsRest
<1>3. ASSUME NEW a \in Account
      PROVE  TipOf(a)' \in Chain!Worse(TipOf(a))
  <2>1. library'[a].present = library[a].present
    BY DEF VerdictsRest
  <2>2. library'[a].present /\ library'[a].gen \in live'[a] => library[a].gen \in live[a]
    <3>1. library'[a].present => library'[a].gen = library[a].gen
      BY <1>1 DEF TokensRest
    <3>. QED  BY <3>1, KnownOnRecord DEF VerdictsRest
  <2>3. Carried(a)' => Carried(a)
    <3>1. ASSUME NEW f \in Flight, flights'[f].acct = a, flights'[f].phase = "persisting",
                 flights'[f].fresh \in live'[a]
          PROVE  Carried(a)
      <4>1. flights'[f] = flights[f] /\ Carrying(f)
        BY <3>1 DEF FlightsRest, Carrying
      <4>2. flights[f].fresh \in Nat /\ flights[f].fresh <= minted[a]
        BY <3>1, <4>1, Known
      <4>3. flights[f].fresh \in live[a]
        BY <3>1, <4>1, <4>2 DEF VerdictsRest
      <4>. QED  BY <3>1, <4>1, <4>3 DEF Carried, Carrying
    <3>2. ASSUME sibling'.acct = a, sibling'.fresh \in live'[a]
          PROVE  Carried(a)
      <4>1. sibling' = sibling /\ sibling # NoSibling
        BY <1>1, <3>2 DEF TokensRest
      <4>2. sibling.fresh \in Nat /\ sibling.fresh <= minted[a]
        BY <3>2, <4>1, Known
      <4>3. sibling.fresh \in live[a]
        BY <3>2, <4>1, <4>2 DEF VerdictsRest
      <4>. QED  BY <3>2, <4>1, <4>3 DEF Carried
    <3>. QED  BY <3>1, <3>2 DEF Carried
  <2>. QED  BY <2>1, <2>2, <2>3 DEF TipOf, Chain!Worse
<1>4. \A a \in Account : TipOf(a)' \in Chain!Place
  BY DEF TipOf, Chain!Place
<1>5. minted' \in [Account -> Nat]
  BY DEF CInv, IInv, TypeOK
<1>6. excused \subseteq excused' /\ excused' \subseteq Account
  BY DEF TokensRest, VerdictsRest
<1>7. [a \in Account |-> library[a].flagged]' = [a \in Account |-> library[a].flagged]
  BY DEF VerdictsRest
<1>. QED  BY <1>2, <1>3, <1>4, <1>5, <1>6, <1>7 DEF Chain!Lose, VerdictsRest

-----------------------------------------------------------------------------
(* Which steps those are.                                                  *)

\* The steps of a flight that leave the vendor's generations alone.
LEMMA FlightsLose ==
  ASSUME CInv, CInv', NEW f \in Flight,
         \/ Load(f) \/ PostRevoked(f) \/ PostRetryable(f) \/ PostRefused(f) \/ PostLimited(f)
         \/ Retry(f) \/ PersistFails(f) \/ JudgeFails(f)
  PROVE  Chain!Lose
<1>1. SingleFlight' /\ FlightsRest /\ TokensRest
  BY LoadRests, AnswersRest, LossesRest, JudgementsRest
<1>2. UNCHANGED <<minted, live, library>>
  BY DEF Load, PostRevoked, PostRetryable, PostRefused, PostLimited, Retry, PersistFails,
         JudgeFails, vendor
<1>3. excused' \subseteq Account /\ \A a \in Account : minted[a] \in Nat
  BY DEF CInv, IInv, TypeOK
<1>4. VerdictsRest
  BY <1>2, <1>3 DEF VerdictsRest
<1>. QED  BY <1>1, <1>4, RestLoses

\* A rotation whose answer is lost.
LEMMA PostLostLoses ==
  ASSUME CInv, CInv', NEW f \in Flight, PostLost(f)
  PROVE  Chain!Lose
<1>. DEFINE a == flights[f].acct
<1>1. /\ flights[f].phase # "none" /\ Rotate(a, flights[f].tip)
      /\ UNCHANGED library /\ excused' = excused \cup {a}
  BY DEF PostLost, Posting
<1>2. SingleFlight' /\ FlightsRest /\ TokensRest
  BY LossesRest
<1>3. /\ excused' \subseteq Account /\ a \in Account
      /\ minted \in [Account -> 0 .. MaxGen] /\ live \in [Account -> SUBSET Gen]
  BY <1>1, FlightFacts DEF CInv, IInv, TypeOK
<1>4. /\ minted' = [minted EXCEPT ![a] = @ + 1]
      /\ live' = [live EXCEPT ![a] = (@ \ {flights[f].tip}) \cup {minted[a] + 1}]
  BY <1>1 DEF Rotate
<1>5. \A b \in Account : /\ minted[b] \in Nat
                         /\ b = a => minted'[b] = minted[b] + 1
                         /\ b # a => minted'[b] = minted[b] /\ live'[b] = live[b]
  BY <1>3, <1>4
<1>6. \A g \in live'[a] : g <= minted[a] => g \in live[a]
  <2>1. minted[a] \in Nat
    BY <1>3
  <2>2. live'[a] = (live[a] \ {flights[f].tip}) \cup {minted[a] + 1}
    BY <1>3, <1>4
  <2>. QED  BY <2>1, <2>2
<1>7. VerdictsRest
  <2>1. \A b \in Account : minted'[b] >= minted[b] /\ (b \notin excused' => minted'[b] = minted[b])
    BY <1>1, <1>5
  <2>2. \A b \in Account : \A g \in live'[b] : g <= minted[b] => g \in live[b]
    BY <1>5, <1>6
  <2>. QED  BY <1>1, <1>3, <2>1, <2>2 DEF VerdictsRest
<1>. QED  BY <1>2, <1>7, RestLoses

\* Requests, deaths, the clock, and a chain that the vendor gives up.
LEMMA WorldLoses ==
  ASSUME CInv, CInv',
         \/ \E a \in Account : \/ Warm(a) \/ \E w \in Worker : RequestLease(w, a)
                               \/ \E gen \in Gen : ChainDies(a, gen)
         \/ SiblingDies \/ Crash \/ Tick
  PROVE  Chain!Lose
<1>1. SingleFlight' /\ FlightsRest /\ TokensRest
  BY OthersRest
<1>2. UNCHANGED <<minted, library>>
  BY DEF Warm, RequestLease, ChainDies, SiblingDies, Crash, Tick, vendor
<1>3. excused' \subseteq Account /\ \A a \in Account : minted[a] \in Nat
  BY DEF CInv, IInv, TypeOK
<1>4. \A a \in Account : live'[a] \subseteq live[a]
  <2>1. live \in [Account -> SUBSET Gen]
    BY DEF CInv, IInv, TypeOK
  <2>. QED  BY <2>1 DEF Warm, RequestLease, ChainDies, SiblingDies, Crash, Tick, vendor
<1>5. VerdictsRest
  BY <1>2, <1>3, <1>4 DEF VerdictsRest
<1>. QED  BY <1>1, <1>5, RestLoses

-----------------------------------------------------------------------------
(* Verdicts.                                                               *)

\* A record that is marked while nothing else moves: its account is condemned.
LEMMA FlaggedBrands ==
  ASSUME CInv, NEW b \in Account, library[b].present, library[b].gen \notin live[b],
         library' = [library EXCEPT ![b].flagged = TRUE],
         UNCHANGED <<minted, live, sibling, excused>>,
         \A f \in Flight : /\ Carrying(f) => flights'[f] = flights[f]
                           /\ Carrying(f)' => flights'[f] = flights[f]
  PROVE  Chain!Brand(b)
<1>1. library \in [Account -> Record \cup {Absent}]
  BY DEF CInv, IInv, TypeOK
<1>2. library[b] \in Record
  BY <1>1 DEF Absent
<1>3. \A a \in Account : /\ library'[a].gen = library[a].gen
                         /\ library'[a].present = library[a].present
  BY FlagKeeps
<1>4. \A a \in Account : Carried(a)' <=> Carried(a)
  BY SameCarriers
<1>5. \A a \in Account : TipOf(a)' = TipOf(a)
  BY <1>3, <1>4, SamePlace
<1>6. TipOf(b) \in {"moving", "lost"}
  BY DEF TipOf
<1>7. \A a \in Account : library'[a].flagged = IF a = b THEN TRUE ELSE library[a].flagged
  BY <1>1, <1>2 DEF Record
<1>. QED  BY <1>5, <1>6, <1>7 DEF Chain!Brand

LEMMA JudgementBrands ==
  ASSUME CInv, CInv', NEW f \in Flight, JudgeRevoked(f)
  PROVE  Chain!Lose \/ \E a \in Account : Chain!Brand(a)
<1>1. SingleFlight' /\ FlightsRest /\ TokensRest
  BY JudgementsRest
<1>2. /\ flights[f].phase = "revoked" /\ Close(f)
      /\ UNCHANGED <<minted, live, sibling, excused>>
  BY DEF JudgeRevoked, Grant, Reject, vendor
<1>3. PICK a \in Account : a = flights[f].acct /\ flights[f].tip \notin live[a]
  BY <1>2, FlightFacts DEF CInv, FlightOK
<1>4. CASE UNCHANGED library
  <2>1. excused' \subseteq Account /\ \A b \in Account : minted[b] \in Nat
    BY DEF CInv, IInv, TypeOK
  <2>2. VerdictsRest
    BY <1>2, <1>4, <2>1 DEF VerdictsRest
  <2>. QED  BY <1>1, <2>2, RestLoses
<1>5. CASE ~UNCHANGED library
  <2>1. /\ library[a].present /\ library[a].gen \notin live[a]
        /\ library' = [library EXCEPT ![a].flagged = TRUE]
    BY <1>3, <1>5 DEF JudgeRevoked
  <2>2. \A g \in Flight : /\ Carrying(g) => flights'[g] = flights[g]
                          /\ Carrying(g)' => flights'[g] = flights[g]
    BY <1>1, <1>2, CloseKeepsSingle DEF FlightsRest, Carrying, CInv
  <2>3. Chain!Brand(a)
    BY <1>2, <1>3, <2>1, <2>2, FlaggedBrands
  <2>. QED  BY <1>3, <2>3
<1>. QED  BY <1>4, <1>5

LEMMA SiblingBrands ==
  ASSUME CInv, NEW a \in Account, SiblingJudges(a)
  PROVE  Chain!Brand(a)
BY FlaggedBrands DEF SiblingJudges, vendor, process

-----------------------------------------------------------------------------
(* Steps that move a token.                                                *)

\* A flight's POST mints the next generation: the good token is in its hands,
\* unless a login has put another chain on record meanwhile.
LEMMA PostSpends ==
  ASSUME CInv, CInv', NEW f \in Flight, PostSucceeds(f)
  PROVE  \E a \in Account : Chain!Spend(a)
<1>1. PICK a \in Account : a = flights[f].acct
  BY FlightFacts DEF CInv, PostSucceeds, Posting
<1>2. /\ flights[f].phase = "posting" /\ Rotate(a, flights[f].tip)
      /\ UNCHANGED <<library, sibling, inflight, excused>>
  BY <1>1 DEF PostSucceeds, Posting
<1>3. /\ flights[f].tip \in 0 .. MaxGen /\ flights[f] \in FlightState
      /\ flights \in [Flight -> FlightState \cup {NoFlight}]
      /\ minted \in [Account -> 0 .. MaxGen] /\ live \in [Account -> SUBSET Gen]
  BY <1>2, FlightFacts DEF CInv, IInv, TypeOK
<1>4. /\ minted' = [minted EXCEPT ![a] = @ + 1]
      /\ live' = [live EXCEPT ![a] = (@ \ {flights[f].tip}) \cup {minted[a] + 1}]
  BY <1>2 DEF Rotate
<1>5. Newest(a) = minted[a] + 1 /\ Newest(a) \in live'[a]
  BY <1>3, <1>4, RotateLive, <1>2 DEF Newest
<1>6. /\ flights'[f].acct = a /\ flights'[f].phase = "persisting"
      /\ flights'[f].fresh = Newest(a)
      /\ \A g \in Flight \ {f} : flights'[g] = flights[g]
  BY <1>1, <1>3 DEF PostSucceeds, FlightState
<1>7. Carried(a)'
  BY <1>5, <1>6 DEF Carried
<1>8. \A b \in Account \ {a} : TipOf(b)' = TipOf(b)
  <2>1. SUFFICES ASSUME NEW b \in Account \ {a} PROVE TipOf(b)' = TipOf(b)
    OBVIOUS
  <2>2. live'[b] = live[b]
    BY <1>3, <1>4
  <2>3. Carried(b)' <=> Carried(b)
    BY <1>1, <1>2, <1>6, <2>2, SameCarriers
  <2>. QED  BY <1>2, <2>2, <2>3, SamePlace
<1>9. TipOf(a)' = TipOf(a) \/ (TipOf(a) # "deleted" /\ TipOf(a)' = "moving")
  <2>1. library[a].gen \in live'[a] => library[a].gen \in live[a]
    <3>1. library[a].gen # minted[a] + 1
      BY KnownOnRecord
    <3>. QED  BY <1>3, <1>4, <3>1
  <2>. QED  BY <1>2, <1>7, <2>1 DEF TipOf
<1>10. Chain!Spend(a)
  BY <1>2, <1>4, <1>8, <1>9 DEF Chain!Spend
<1>. QED  BY <1>10

\* So it is with another process, which starts from what is on record.
LEMMA SiblingSpends ==
  ASSUME CInv, CInv', NEW a \in Account, SiblingPosts(a)
  PROVE  Chain!Spend(a)
<1>1. /\ Rotate(a, library[a].gen) /\ library[a].present
      /\ sibling = NoSibling /\ sibling' = [acct |-> a, fresh |-> Newest(a)]
      /\ UNCHANGED <<library, flights, excused>>
  BY DEF SiblingPosts, LockFree, process
<1>2. /\ library[a].gen \in 0 .. MaxGen
      /\ minted \in [Account -> 0 .. MaxGen] /\ live \in [Account -> SUBSET Gen]
  BY DEF SiblingPosts, CInv, IInv, TypeOK, Record, Absent, Gen
<1>3. /\ minted' = [minted EXCEPT ![a] = @ + 1]
      /\ live' = [live EXCEPT ![a] = (@ \ {library[a].gen}) \cup {minted[a] + 1}]
  BY <1>1 DEF Rotate
<1>4. Newest(a) \in live'[a]
  BY <1>1, <1>2, RotateLive
<1>5. library[a].gen \notin live'[a]
  <2>1. library[a].gen # minted[a] + 1
    BY KnownOnRecord
  <2>. QED  BY <1>2, <1>3, <2>1
<1>6. TipOf(a)' = "moving" /\ TipOf(a) # "deleted"
  BY <1>1, <1>4, <1>5 DEF TipOf, Carried
<1>7. \A b \in Account \ {a} : TipOf(b)' = TipOf(b)
  <2>1. SUFFICES ASSUME NEW b \in Account \ {a} PROVE TipOf(b)' = TipOf(b)
    OBVIOUS
  <2>2. live'[b] = live[b]
    BY <1>2, <1>3
  <2>3. Carried(b)' <=> Carried(b)
    BY <1>1, <2>2, RefresherAssumption DEF Carried, NoSibling
  <2>. QED  BY <1>1, <2>2, <2>3, SamePlace
<1>. QED  BY <1>1, <1>3, <1>6, <1>7 DEF Chain!Spend

\* Writing a carried generation on record.
LEMMA WriteRecords ==
  ASSUME CInv, NEW a \in Account, NEW fresh \in Gen, library[a].present,
         library' = [library EXCEPT ![a].gen = fresh, ![a].flagged = FALSE],
         UNCHANGED <<minted, live, excused>>,
         a \in excused \/ fresh \in live[a],
         fresh \in live[a] => Carried(a),
         \A b \in Account \ {a} : Carried(b)' <=> Carried(b)
  PROVE  Chain!Record(a)
<1>1. library \in [Account -> Record \cup {Absent}]
  BY DEF CInv, IInv, TypeOK
<1>2. library[a] \in Record
  BY <1>1 DEF Absent
<1>3. /\ library'[a].gen = fresh /\ library'[a].present /\ ~library'[a].flagged
      /\ \A b \in Account \ {a} : library'[b] = library[b]
  BY <1>1, <1>2 DEF Record
<1>4. \A b \in Account \ {a} : TipOf(b)' = TipOf(b)
  BY <1>3, SamePlace
<1>5. \/ TipOf(a) # "lost" /\ TipOf(a)' = "recorded"
      \/ a \in excused /\ TipOf(a)' \in {"moving", "lost"}
  BY <1>3 DEF TipOf
<1>6. TipOf(a) # "deleted"
  BY DEF TipOf
<1>7. \A b \in Account : library'[b].flagged = IF b = a THEN FALSE ELSE library[b].flagged
  BY <1>3, <1>1, <1>2 DEF Record
<1>. QED  BY <1>4, <1>5, <1>6, <1>7 DEF Chain!Record

LEMMA PersistRecords ==
  ASSUME CInv, CInv', NEW f \in Flight, Persist(f)
  PROVE  Chain!Lose \/ \E a \in Account : Chain!Record(a)
<1>1. PICK a \in Account : a = flights[f].acct
  BY FlightFacts DEF CInv, Persist
<1>2. /\ Carrying(f) /\ flights[f].phase # "none" /\ Close(f)
      /\ UNCHANGED <<minted, live, sibling, excused>>
  BY DEF Persist, Carrying, Grant, vendor
<1>3. flights[f].fresh \in Gen
  BY <1>2, FlightFacts DEF CInv, FlightOK, Carrying
<1>4. /\ flights'[f] = NoFlight
      /\ \A g \in Flight \ {f} : flights'[g] = flights[g]
  BY <1>2, CloseKeepsSingle DEF CInv
<1>5. \A b \in Account \ {a} : Carried(b)' <=> Carried(b)
  BY <1>1, <1>2, <1>4, SameCarriers DEF Carrying, NoFlight
<1>6. CASE library[a].present
  <2>1. library' = [library EXCEPT ![a].gen = flights[f].fresh, ![a].flagged = FALSE]
    BY <1>1, <1>6 DEF Persist
  <2>2. a \in excused \/ flights[f].fresh \in live[a]
    BY <1>1, <1>2 DEF CInv, FlightCarries
  <2>3. flights[f].fresh \in live[a] => Carried(a)
    BY <1>1, <1>2 DEF Carried, Carrying
  <2>4. Chain!Record(a)
    BY <1>2, <1>3, <1>5, <1>6, <2>1, <2>2, <2>3, WriteRecords
  <2>. QED  BY <2>4
<1>7. CASE ~library[a].present
  <2>1. UNCHANGED library
    BY <1>1, <1>7 DEF Persist
  <2>2. \A b \in Account : TipOf(b)' = TipOf(b)
    BY <1>2, <1>5, <1>7, <2>1 DEF TipOf
  <2>3. /\ excused \subseteq Account /\ minted \in [Account -> Nat]
        /\ \A b \in Account : minted[b] \in Nat
    BY DEF CInv, IInv, TypeOK
  <2>4. \A b \in Account : /\ TipOf(b) \in Chain!Place
                           /\ TipOf(b) \in Chain!Worse(TipOf(b))
    BY DEF TipOf, Chain!Place, Chain!Worse
  <2>. QED  BY <1>2, <2>1, <2>2, <2>3, <2>4 DEF Chain!Lose
<1>. QED  BY <1>6, <1>7

LEMMA SiblingRecords ==
  ASSUME CInv, SiblingSaves
  PROVE  \E a \in Account : Chain!Record(a)
<1>1. /\ sibling # NoSibling /\ sibling' = NoSibling
      /\ UNCHANGED <<minted, live, flights, excused>>
  BY DEF SiblingSaves, vendor, process
<1>2. PICK a \in Account : a = sibling.acct /\ library[a].present /\ sibling.fresh \in Gen
  BY <1>1 DEF CInv, IInv, TypeOK, SiblingInv
<1>3. library' = [library EXCEPT ![a].gen = sibling.fresh, ![a].flagged = FALSE]
  BY <1>2 DEF SiblingSaves
<1>4. a \in excused \/ sibling.fresh \in live[a]
  BY <1>1, <1>2 DEF CInv, SiblingCarries
<1>5. sibling.fresh \in live[a] => Carried(a)
  BY <1>2 DEF Carried
<1>6. \A b \in Account \ {a} : Carried(b)' <=> Carried(b)
  BY <1>1, <1>2, RefresherAssumption DEF Carried, NoSibling
<1>7. Chain!Record(a)
  BY <1>1, <1>2, <1>3, <1>4, <1>5, <1>6, WriteRecords
<1>. QED  BY <1>7

-----------------------------------------------------------------------------
(* The operator.                                                           *)

LEMMA LoginRenews ==
  ASSUME CInv, NEW a \in Account, Login(a)
  PROVE  Chain!Login(a)
<1>1. /\ Rotate(a, 0)
      /\ library' = [library EXCEPT ![a] = [present |-> TRUE, gen |-> Newest(a), flagged |-> FALSE]]
      /\ excused' \in {excused, excused \ {a}}
      /\ UNCHANGED <<sibling, flights>>
  BY DEF Login, process
<1>2. /\ library \in [Account -> Record \cup {Absent}]
      /\ minted \in [Account -> 0 .. MaxGen] /\ live \in [Account -> SUBSET Gen]
      /\ 0 \in 0 .. MaxGen
  BY RefresherAssumption DEF CInv, IInv, TypeOK
<1>3. /\ minted' = [minted EXCEPT ![a] = @ + 1]
      /\ \A b \in Account \ {a} : live'[b] = live[b]
      /\ Newest(a) \in live'[a]
  BY <1>1, <1>2, RotateLive DEF Rotate
<1>4. /\ library'[a].present /\ library'[a].gen = Newest(a) /\ ~library'[a].flagged
      /\ \A b \in Account \ {a} : library'[b] = library[b]
  BY <1>1, <1>2
<1>5. TipOf(a)' = "recorded"
  BY <1>3, <1>4 DEF TipOf
<1>6. \A b \in Account \ {a} : TipOf(b)' = TipOf(b)
  <2>1. SUFFICES ASSUME NEW b \in Account \ {a} PROVE TipOf(b)' = TipOf(b)
    OBVIOUS
  <2>2. Carried(b)' <=> Carried(b)
    BY <1>1, <1>3, SameCarriers
  <2>. QED  BY <1>3, <1>4, <2>2, SamePlace
<1>7. \A b \in Account : library'[b].flagged = IF b = a THEN FALSE ELSE library[b].flagged
  BY <1>4, <1>1, <1>2
<1>. QED  BY <1>1, <1>3, <1>5, <1>6, <1>7 DEF Chain!Login

LEMMA RemoveDeletes ==
  ASSUME CInv, NEW a \in Account, Remove(a)
  PROVE  Chain!Delete(a)
<1>1. /\ library[a].present /\ library' = [library EXCEPT ![a] = Absent]
      /\ UNCHANGED <<minted, live, sibling, flights, excused>>
  BY DEF Remove, vendor, process
<1>2. library \in [Account -> Record \cup {Absent}]
  BY DEF CInv, IInv, TypeOK
<1>3. /\ library'[a] = Absent /\ ~Absent.present /\ Absent.flagged = FALSE
      /\ \A b \in Account \ {a} : library'[b] = library[b]
  BY <1>1, <1>2 DEF Absent
<1>4. \A b \in Account : Carried(b)' <=> Carried(b)
  BY <1>1 DEF Carried
<1>5. \A b \in Account \ {a} : TipOf(b)' = TipOf(b)
  BY <1>1, <1>3, <1>4, SamePlace
<1>6. TipOf(a) # "deleted" /\ TipOf(a)' = "deleted"
  BY <1>1, <1>3 DEF TipOf
<1>7. \A b \in Account : library'[b].flagged = IF b = a THEN FALSE ELSE library[b].flagged
  BY <1>3
<1>. QED  BY <1>1, <1>5, <1>6, <1>7 DEF Chain!Delete

-----------------------------------------------------------------------------
(* The implementation.                                                     *)

LEMMA StepIsChainStep ==
  CInv /\ CInv' /\ [Next]_vars => [Chain!ChainNext]_(Chain!chainVars)
<1>. SUFFICES ASSUME CInv, CInv', [Next]_vars
              PROVE  [Chain!ChainNext]_(Chain!chainVars)
  OBVIOUS
<1>1. ASSUME NEW f \in Flight, FlightStep(f)
      PROVE  Chain!ChainNext
  BY <1>1, FlightsLose, PostLostLoses, JudgementBrands, PostSpends, PersistRecords
     DEF FlightStep, Chain!ChainNext
<1>2. ASSUME NEW a \in Account,
             SiblingPosts(a) \/ SiblingJudges(a) \/ Login(a) \/ Remove(a)
      PROVE  Chain!ChainNext
  BY <1>2, SiblingSpends, SiblingBrands, LoginRenews, RemoveDeletes DEF Chain!ChainNext
<1>3. CASE SiblingSaves
  BY <1>3, SiblingRecords DEF Chain!ChainNext
<1>4. CASE \/ \E a \in Account : \/ Warm(a) \/ \E w \in Worker : RequestLease(w, a)
                                 \/ \E gen \in Gen : ChainDies(a, gen)
           \/ SiblingDies \/ Crash \/ Tick
  BY <1>4, WorldLoses DEF Chain!ChainNext
<1>5. CASE UNCHANGED vars
  <2>1. \A a \in Account : TipOf(a)' = TipOf(a)
    BY <1>5 DEF vars, vendor, process, TipOf, Carried
  <2>. QED  BY <1>5, <2>1 DEF vars, vendor, Chain!chainVars
<1>. QED  BY <1>1, <1>2, <1>3, <1>4, <1>5 DEF Next

LEMMA InitIsChainInit == Init => Chain!ChainInit
<1>. SUFFICES ASSUME Init PROVE Chain!ChainInit
  OBVIOUS
<1>1. \A a \in Account : TipOf(a) = "recorded" /\ library[a].flagged = FALSE
  BY DEF Init, TipOf
<1>. QED  BY <1>1 DEF Init, Chain!ChainInit

\* The refresher, the processes and people around it implement the abstract
\* chain of tokens: so whatever TokenChain promises of an account holds here.
THEOREM ChainIsImplemented == Spec => ImplementsChain
BY InitIsChainInit, StepIsChainStep, CarryingInit, CarryingPreserved, PTL
   DEF Spec, ImplementsChain, Chain!ChainSpec

\* In particular no account of the master's is lost or condemned without cause.
COROLLARY ChainStaysSound == Spec => []Chain!ChainSound
BY ChainIsImplemented, Chain!SpecIsSound, PTL DEF ImplementsChain
=============================================================================
