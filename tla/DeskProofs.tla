----------------------------- MODULE DeskProofs -----------------------------
(***************************************************************************)
(* Theorems about the pool's desk (AccountDesk) behind the dashboard's     *)
(* page (DashboardPage), for any accounts, requests and bounds. The        *)
(* invariant says which tips are in whose hands: a chain that awaits its   *)
(* profile is nobody else's, a rotated tip is alive until it is written,   *)
(* and a deletion's copy is of a chain that still works or that is         *)
(* excused.  The last part is about the lock (FileLock) that the processes *)
(* sharing one account file take before they write it.                     *)
(***************************************************************************)
EXTENDS DashboardPage, FileLock, FiniteSetTheorems, TLAPS

USE DeskAssumption

Tip == (Account \X (Nat \ {0})) \cup {<<>>}

Request ==
    [kind : {"none", "authorize", "add", "delete", "register"},
     at : {"idle", "sent", "minting", "exchanging", "filing", "resolved", "copied", "answered"},
     session : Nat, acct : SUBSET (Account \cup Worker), gen : Nat,
     result : {"none", "ok", "gone", "throttled", "rejected", "profile", "refused", "failed"}]

Dialog ==
    [open : BOOLEAN, flow : {"add", "del", "reg"},
     stage : {"loading", "ready", "del", "reg", "fatal", "done"},
     pending : Nat, pick : SUBSET Account,
     submitting : BOOLEAN, deleting : BOOLEAN, registering : BOOLEAN]

\* The types of the state: what the pool holds, the capture, the browsers'
\* requests and the page's dialog.
DeskTypeOK ==
    /\ library \in [Account -> Nat] /\ minted \in [Account -> Nat]
    /\ flight \in [Account -> Nat]
    /\ alive \in [Account -> SUBSET (Nat \ {0})]
    /\ backups \subseteq Account \X Nat
    /\ excused \subseteq Account
    /\ slot \in Tip
    /\ keeper \in [at : {"idle", "seen", "looked"}, seen : Tip, tip : Tip, absorbed : Tip]
    /\ request \in [Req -> Request]
    /\ dialog \in Dialog

-----------------------------------------------------------------------------
(* The browser's sessions.                                                 *)

\* An exchange is counted and stamped before it is sent.
CountedFirst ==
    /\ attempts \in [Session -> 0 .. MaxAttempts]
    /\ posts = attempts
    /\ recent \in BOOLEAN
    /\ burst \in IF recent THEN {0, 1} ELSE {0}

-----------------------------------------------------------------------------
(* Whose a tip is.                                                         *)

\* No tip is newer than the newest.
NoneNewer ==
    \A a \in Account :
        /\ library[a] <= minted[a] /\ flight[a] <= minted[a]
        /\ \A g \in alive[a] : g <= minted[a]

\* A rotated tip is alive until it is written: what could spend it waits.
FlightAlive == \A a \in Account : flight[a] # 0 => flight[a] \in alive[a]

Filing(r) == Is(r, "add", "filing")

\* The chain a browser's code was exchanged for is in no other hands.
FiledAlone ==
    \A r \in Req : Filing(r) => \A a \in request[r].acct :
        /\ a \in Account
        /\ request[r].gen \in alive[a] \ {library[a], flight[a]}
        /\ slot # <<a, request[r].gen>> /\ keeper.tip # <<a, request[r].gen>>
        /\ \A q \in Req \ {r} :
             Filing(q) => a \notin request[q].acct \/ request[q].gen # request[r].gen

\* What a capture is about to file was alive when the vendor was asked, and
\* dies meanwhile only of a rotation that has still to be written.
CaptureSound ==
    /\ slot # <<>> => slot[2] <= minted[slot[1]]
    /\ keeper.tip # <<>> => keeper.tip[2] <= minted[keeper.tip[1]]
    /\ keeper.at = "looked" =>
         /\ keeper.tip # <<>>
         /\ keeper.tip[2] \in alive[keeper.tip[1]] \/ flight[keeper.tip[1]] # 0

\* A deletion is of one account; until the record goes, what was read of it
\* still works, is being replaced, or is excused; and its copy is made.
Single(set) == \A a, b \in set : a = b

DeletionSound ==
    /\ Single(dialog.pick)
    /\ \A r \in Req : request[r].kind = "delete" =>
         /\ request[r].acct \subseteq Account /\ Single(request[r].acct)
         /\ \A a \in request[r].acct :
              /\ request[r].at \in {"resolved", "copied"} =>
                   request[r].gen \in alive[a] \/ flight[a] # 0 \/ a \in excused
              /\ request[r].at = "copied" => <<a, request[r].gen>> \in backups

-----------------------------------------------------------------------------
\* The inductive invariant: the browser's sessions, and the tips.
Hands ==
    /\ DeskTypeOK /\ NoneNewer /\ FlightAlive /\ FiledAlone /\ CaptureSound
    /\ DeletionSound /\ TipsAlive /\ Recoverable

DeskIInv == CountedFirst /\ Hands

-----------------------------------------------------------------------------
(* The browser's sessions.                                                 *)

LEMMA ServeCounts ==
    ASSUME CountedFirst, NEW r \in Req, Serve(r)
    PROVE  CountedFirst'
<1>1. CASE Exchange(r)
  <2>1. ~recent /\ recent' /\ burst' = burst + 1
    BY <1>1 DEF Exchange, ExchangeAllowed
  <2>2. PICK s : /\ attempts[s] < MaxAttempts
                 /\ attempts' = [attempts EXCEPT ![s] = @ + 1]
                 /\ posts' = [posts EXCEPT ![s] = @ + 1]
    BY <1>1 DEF Exchange, ExchangeAllowed
  <2>3. MaxAttempts \in Nat
    OBVIOUS
  <2>4. attempts' \in [Session -> 0 .. MaxAttempts]
    <3>1. s \in Session => attempts[s] + 1 \in 0 .. MaxAttempts
      BY <2>2, <2>3 DEF CountedFirst
    <3> QED
      BY <2>2, <3>1 DEF CountedFirst
  <2>5. posts' = attempts'
    BY <2>2 DEF CountedFirst
  <2>6. recent' = TRUE /\ burst' \in {0, 1}
    BY <1>1, <2>1 DEF CountedFirst, Exchange
  <2> QED
    BY <2>4, <2>5, <2>6 DEF CountedFirst
<1>2. CASE UNCHANGED <<attempts, posts, recent, burst>>
  BY <1>2 DEF CountedFirst
<1>3. CASE Start(r) \/ Authorized(r) \/ AddRefused(r) \/ ExchangeFails(r) \/ ExchangeWorks(r)
  BY <1>2, <1>3 DEF Start, Authorized, AddRefused, ExchangeFails, ExchangeWorks
<1>4. CASE ProfileFails(r) \/ Absorb(r) \/ Resolve(r) \/ BackupFails(r) \/ Backup(r) \/ RemoveRecord(r)
  BY <1>2, <1>4
     DEF ProfileFails, Absorb, Resolve, BackupFails, Backup, RemoveRecord, desk
<1> QED
  BY <1>1, <1>3, <1>4 DEF Serve

LEMMA NextCounts == CountedFirst /\ [Next]_vars => CountedFirst'
<1> SUFFICES ASSUME CountedFirst, [Next]_vars PROVE CountedFirst'
  OBVIOUS
<1>1. CASE UNCHANGED <<attempts, posts, recent, burst>>
  BY <1>1 DEF CountedFirst
<1>2. CASE IntervalEnds \/ Restart
  <2>1. UNCHANGED <<attempts, posts>> /\ recent' = FALSE /\ burst' = 0
    BY <1>2 DEF IntervalEnds, Restart
  <2> QED
    BY <2>1 DEF CountedFirst
<1>3. CASE DeskStep
  <2>1. ASSUME NEW a \in Account, Rotate(a) \/ PersistRotated(a) \/ LocalLogin(a)
        PROVE  UNCHANGED <<attempts, posts, recent, burst>>
    BY <2>1 DEF Rotate, PersistRotated, LocalLogin, desk
  <2>2. CASE CaptureSees \/ CaptureLooks \/ CaptureAbsorbs
    BY <1>1, <2>2 DEF CaptureSees, CaptureLooks, CaptureAbsorbs, desk
  <2>3. ASSUME NEW s \in Session, SessionAges(s)
        PROVE  UNCHANGED <<attempts, posts, recent, burst>>
    BY <2>3 DEF SessionAges
  <2>4. CASE Bind
    BY <1>1, <2>4 DEF Bind
  <2> QED
    BY <1>1, <1>2, <1>3, <2>1, <2>2, <2>3, <2>4, ServeCounts DEF DeskStep
<1>4. CASE Presses
  BY <1>1, <1>4
     DEF Presses, BeginAdd, SubmitCode, SubmitDelete, SubmitRegister, BeginDelete,
     BeginRegister, CloseDialog, desk, deskVars
<1>5. CASE \E r \in Req : Register(r) \/ AnswerLands(r) \/ OthersPress(r)
  <2>1. UNCHANGED <<attempts, posts, recent, burst>>
    BY <1>5, Zenon DEF Register, AnswerLands, OthersPress, desk, deskVars
  <2> QED
    BY <1>1, <2>1
<1>6. CASE Polls \/ Sweep \/ Refresh \/ RefreshLands \/ RefreshFails \/ QuietEnds
  BY <1>1, <1>6 DEF Polls, Load, LoadLands, LoadFails, Sweep, Refresh, RefreshLands,
     RefreshFails, QuietEnds, desk, deskVars
<1>7. CASE UNCHANGED vars
  BY <1>1, <1>7 DEF vars, deskVars
<1> QED
  BY <1>2, <1>3, <1>4, <1>5, <1>6, <1>7 DEF Next, MasterRestarts

-----------------------------------------------------------------------------
(* Requests and dialogs that move, and no tip with them.                   *)

\* The request r is now at `at`, and about what it was about.
Changes(new, r, at) ==
    /\ new \in [Req -> Request]
    /\ \A q \in Req \ {r} : new[q] = request[q]
    /\ new[r].at = at /\ new[r].kind = request[r].kind
    /\ new[r].acct = request[r].acct /\ new[r].gen = request[r].gen

Places == {"idle", "sent", "minting", "exchanging", "filing", "resolved", "copied", "answered"}

Results == {"none", "ok", "gone", "throttled", "rejected", "profile", "refused", "failed"}

LEMMA MovesChanges ==
    ASSUME DeskTypeOK, NEW r \in Req, NEW at \in Places
    PROVE  Changes(Moves(r, at), r, at)
<1>1. request[r] \in Request /\ DOMAIN request = Req
  BY DEF DeskTypeOK
<1>2. [request[r] EXCEPT !.at = at] \in Request
  BY <1>1 DEF Request, Places
<1> DEFINE next == [request EXCEPT ![r].at = at]
<1>3. next \in [Req -> Request] /\ next[r] = [request[r] EXCEPT !.at = at]
  BY <1>1, <1>2 DEF DeskTypeOK
<1>4. \A q \in Req \ {r} : next[q] = request[q]
  BY <1>1
<1>5. /\ next[r].at = at /\ next[r].kind = request[r].kind
      /\ next[r].acct = request[r].acct /\ next[r].gen = request[r].gen
  BY <1>1, <1>3 DEF Request
<1> HIDE DEF next
<1>6. Changes(next, r, at)
  BY <1>3, <1>4, <1>5 DEF Changes
<1> QED
  BY <1>6 DEF next, Moves

LEMMA AnsweredChanges ==
    ASSUME DeskTypeOK, NEW r \in Req, NEW result \in Results
    PROVE  Changes(Answered(r, result), r, "answered")
<1>1. request[r] \in Request /\ DOMAIN request = Req
  BY DEF DeskTypeOK
<1> DEFINE rec == [[request[r] EXCEPT !.at = "answered"] EXCEPT !.result = result]
           next == [request EXCEPT ![r].at = "answered", ![r].result = result]
<1>2. rec \in Request
  BY <1>1 DEF Request, Results
<1>3. /\ rec.at = "answered" /\ rec.kind = request[r].kind
      /\ rec.acct = request[r].acct /\ rec.gen = request[r].gen
  BY <1>1 DEF Request
<1>4. next[r] = rec /\ \A q \in Req \ {r} : next[q] = request[q]
  BY <1>1
<1>5. next \in [Req -> Request]
  BY <1>1, <1>2, <1>4 DEF DeskTypeOK
<1> HIDE DEF next, rec
<1>6. Changes(next, r, "answered")
  BY <1>3, <1>4, <1>5 DEF Changes
<1> QED
  BY <1>6 DEF next, Answered

\* A request that holds no tip and asks for no deletion but of one account.
Harmless(request_) ==
    /\ request_.at \notin {"filing", "resolved", "copied"}
    /\ request_.kind = "delete" => request_.acct \subseteq Account /\ Single(request_.acct)

LEMMA QuietStep ==
    ASSUME Hands, UNCHANGED <<pool, slot, keeper>>,
           request' \in [Req -> Request], dialog' \in Dialog, Single(dialog'.pick),
           \A q \in Req : request'[q] = request[q] \/ Harmless(request'[q])
    PROVE  Hands'
<1>1. UNCHANGED <<library, alive, minted, flight, backups, excused, slot, keeper>>
  BY DEF pool
<1>2. DeskTypeOK'
  BY <1>1 DEF Hands, DeskTypeOK
<1>3. NoneNewer' /\ FlightAlive' /\ CaptureSound' /\ TipsAlive' /\ Recoverable'
  BY <1>1 DEF Hands, NoneNewer, FlightAlive, CaptureSound, TipsAlive, Recoverable
<1>4. \A q \in Req : Filing(q)' => Filing(q) /\ request'[q] = request[q]
  BY DEF Filing, Is, Harmless
<1>5. FiledAlone'
  BY <1>1, <1>4 DEF Hands, FiledAlone
<1>6. DeletionSound'
  BY <1>1 DEF Hands, DeletionSound, Harmless
<1> QED
  BY <1>2, <1>3, <1>5, <1>6 DEF Hands

LEMMA QuietChange ==
    ASSUME Hands, UNCHANGED <<pool, slot, keeper, dialog>>, NEW r \in Req,
           NEW at \in Places \ {"filing", "resolved", "copied"}, Changes(request', r, at)
    PROVE  Hands'
<1>1. dialog' \in Dialog /\ Single(dialog'.pick)
  BY DEF Hands, DeskTypeOK, DeletionSound
<1>2. \A q \in Req : request'[q] = request[q] \/ Harmless(request'[q])
  BY DEF Hands, DeletionSound, Changes, Harmless
<1> QED
  BY <1>1, <1>2, QuietStep DEF Changes

-----------------------------------------------------------------------------
(* Tips that move.                                                         *)

\* A new chain is in the hands of the request it answers, and of nobody else.
LEMMA ExchangeWorksStep ==
    ASSUME Hands, NEW r \in Req, ExchangeWorks(r), UNCHANGED dialog
    PROVE  Hands'
<1>1. PICK a \in Account :
        /\ minted' = [minted EXCEPT ![a] = minted[a] + 1]
        /\ alive' = [alive EXCEPT ![a] = @ \cup {minted[a] + 1}]
        /\ request' = [Moves(r, "filing") EXCEPT ![r].acct = {a}, ![r].gen = minted[a] + 1]
  BY DEF ExchangeWorks, NewTip
<1>2. UNCHANGED <<library, flight, backups, excused, slot, keeper, dialog>>
      /\ request[r].kind = "add"
  BY DEF ExchangeWorks, Is
<1>3. minted[a] + 1 \in Nat \ {0}
  BY DEF Hands, DeskTypeOK
<1>4. /\ request' \in [Req -> Request] /\ \A q \in Req \ {r} : request'[q] = request[q]
      /\ request'[r].kind = "add" /\ request'[r].at = "filing"
      /\ request'[r].acct = {a} /\ request'[r].gen = minted[a] + 1
  <2> DEFINE new == Moves(r, "filing")
  <2>1. Changes(new, r, "filing")
    BY MovesChanges DEF Places, Hands
  <2> HIDE DEF new
  <2>2. new \in [Req -> Request] /\ new[r] \in Request
    BY <2>1 DEF Changes
  <2> DEFINE rec == [[new[r] EXCEPT !.acct = {a}] EXCEPT !.gen = minted[a] + 1]
  <2>3. rec \in Request /\ rec.kind = new[r].kind /\ rec.at = new[r].at /\ rec.acct = {a} /\ rec.gen = minted[a] + 1
    BY <2>2, <1>3 DEF Request
  <2>4. request' = [new EXCEPT ![r].acct = {a}, ![r].gen = minted[a] + 1]
    BY <1>1 DEF new
  <2>5. request'[r] = rec /\ \A q \in Req \ {r} : request'[q] = new[q]
    BY <2>2, <2>4
  <2> HIDE DEF rec
  <2>6. request' \in [Req -> Request]
    BY <2>2, <2>3, <2>4, <2>5
  <2> QED
    BY <1>2, <2>1, <2>3, <2>5, <2>6 DEF Changes
<1>5. DeskTypeOK'
  BY <1>1, <1>2, <1>3, <1>4 DEF Hands, DeskTypeOK
<1>6. NoneNewer'
  BY <1>1, <1>2, <1>3, <1>4 DEF Hands, NoneNewer, DeskTypeOK
<1>7. FlightAlive'
  BY <1>1, <1>2, <1>3, <1>4 DEF Hands, FlightAlive, DeskTypeOK, NoneNewer
<1>8. FiledAlone'
  <2>1. slot # <<a, minted[a] + 1>> /\ keeper.tip # <<a, minted[a] + 1>>
    <3> DEFINE new == <<a, minted[a] + 1>>
    <3>1. new # <<>> /\ new[1] = a /\ new[2] = minted[a] + 1 /\ minted[a] \in Nat
      BY DEF Hands, DeskTypeOK
    <3> HIDE DEF new
    <3>2. slot # new
      BY <3>1 DEF Hands, CaptureSound
    <3>3. keeper.tip # new
      BY <3>1 DEF Hands, CaptureSound
    <3> QED
      BY <3>2, <3>3 DEF new
  <2>2. minted[a] + 1 \notin {library[a], flight[a]} \cup alive[a]
    BY DEF Hands, NoneNewer, DeskTypeOK
  <2>3. \A q \in Req \ {r} : Filing(q)' <=> Filing(q)
    BY <1>4 DEF Filing, Is
  <2>4. \A b \in Account : alive[b] \subseteq alive'[b] /\ (b = a => minted[a] + 1 \in alive'[b])
    BY <1>1 DEF Hands, DeskTypeOK
  <2>5. \A q \in Req \ {r} : Filing(q) => \A b \in request[q].acct : b = a => request[q].gen # minted[a] + 1
    BY <2>2 DEF Hands, FiledAlone
  <2> QED
    BY <1>2, <1>4, <2>1, <2>2, <2>3, <2>4, <2>5 DEF Hands, FiledAlone
<1>9. CaptureSound'
  BY <1>1, <1>2, <1>3, <1>4 DEF Hands, CaptureSound, DeskTypeOK, NoneNewer, Tip
<1>10. DeletionSound'
  BY <1>1, <1>2, <1>3, <1>4 DEF Hands, DeletionSound
<1>11. TipsAlive'
  BY <1>1, <1>2, <1>3, <1>4 DEF Hands, TipsAlive, DeskTypeOK, FlightAlive
<1>12. Recoverable'
  BY <1>1, <1>2, <1>3, <1>4 DEF Hands, Recoverable, DeskTypeOK
<1> QED
  BY <1>5, <1>6, <1>7, <1>8, <1>9, <1>10, <1>11, <1>12 DEF Hands

\* A chain that was nobody else's is on record.
LEMMA AbsorbStep ==
    ASSUME Hands, NEW r \in Req, Absorb(r), UNCHANGED dialog
    PROVE  Hands'
<1>1. PICK a \in request[r].acct :
        library' = [library EXCEPT ![a] = request[r].gen] /\ excused' = Cleared(a)
  BY DEF Absorb
<1>2. UNCHANGED <<alive, minted, flight, backups, slot, keeper, dialog>> /\ Filing(r)
  BY DEF Absorb, Filing
<1>3. a \in Account /\ request[r].gen \in alive[a] /\ request[r].gen # 0
  BY <1>2 DEF Hands, FiledAlone, DeskTypeOK
<1>4. Changes(request', r, "answered")
  BY AnsweredChanges DEF Absorb, Results, Hands
<1>5. /\ \A b \in Account \ {a} : b \in excused' <=> b \in excused
      /\ a \in excused \ excused' => ~Deleting(a)
      /\ excused' \subseteq excused
  BY <1>1 DEF Cleared
<1>6. DeskTypeOK'
  BY <1>1, <1>2, <1>3, <1>4, <1>5 DEF Hands, DeskTypeOK, Changes, Request
<1>7. NoneNewer'
  BY <1>1, <1>2, <1>3, <1>4, <1>5 DEF Hands, NoneNewer, DeskTypeOK
<1>8. FlightAlive'
  BY <1>1, <1>2, <1>3, <1>4, <1>5 DEF Hands, FlightAlive, DeskTypeOK, NoneNewer
<1>9. FiledAlone'
  BY <1>1, <1>2, <1>3, <1>4, <1>5
     DEF Hands, FiledAlone, DeskTypeOK, NoneNewer, Filing, Is, Changes
<1>10. CaptureSound'
  BY <1>1, <1>2, <1>3, <1>4, <1>5
     DEF Hands, CaptureSound, DeskTypeOK, NoneNewer, Tip
<1>11. DeletionSound'
  BY <1>1, <1>2, <1>3, <1>4, <1>5 DEF Hands, DeletionSound, Changes, Deleting
<1>12. TipsAlive'
  BY <1>1, <1>2, <1>3, <1>4, <1>5 DEF Hands, TipsAlive, DeskTypeOK, FlightAlive
<1>13. Recoverable'
  BY <1>1, <1>2, <1>3, <1>4, <1>5 DEF Hands, Recoverable, DeskTypeOK
<1> QED
  BY <1>6, <1>7, <1>8, <1>9, <1>10, <1>11, <1>12, <1>13 DEF Hands

\* What is read of a record still works, is being replaced, or is excused.
LEMMA ResolveStep ==
    ASSUME Hands, NEW r \in Req, Resolve(r), UNCHANGED dialog
    PROVE  Hands'
<1>1. UNCHANGED <<library, alive, minted, flight, backups, excused, slot, keeper, dialog>>
      /\ request[r].kind = "delete"
  BY DEF Resolve, pool, Is
<1>2. PICK picked \in request[r].acct :
        /\ Changes(request', r, "answered")
           \/ /\ picked \in Account /\ library[picked] # 0
              /\ request' = [Moves(r, "resolved") EXCEPT ![r].gen = library[picked]]
  BY AnsweredChanges DEF Resolve, Results, Hands, Matching
<1>3. /\ request' \in [Req -> Request] /\ \A q \in Req \ {r} : request'[q] = request[q]
      /\ request'[r].kind = "delete" /\ request'[r].at \in {"answered", "resolved"}
      /\ request'[r].acct = request[r].acct
      /\ request'[r].at = "resolved" =>
           picked \in Account /\ library[picked] # 0 /\ request'[r].gen = library[picked]
  <2>1. CASE Changes(request', r, "answered")
    BY <1>1, <2>1 DEF Changes
  <2>2. CASE /\ picked \in Account /\ library[picked] # 0
             /\ request' = [Moves(r, "resolved") EXCEPT ![r].gen = library[picked]]
    <3> DEFINE new == Moves(r, "resolved")
               rec == [new[r] EXCEPT !.gen = library[picked]]
    <3>1. Changes(new, r, "resolved")
      BY MovesChanges DEF Places, Hands
    <3>2. request' = [new EXCEPT ![r].gen = library[picked]]
      BY <2>2
    <3> HIDE DEF new
    <3>3. new \in [Req -> Request] /\ new[r] \in Request /\ library[picked] \in Nat
      BY <2>2, <3>1 DEF Changes, Hands, DeskTypeOK
    <3>4. /\ rec \in Request /\ rec.kind = new[r].kind /\ rec.at = new[r].at
          /\ rec.acct = new[r].acct /\ rec.gen = library[picked]
      BY <3>3 DEF Request
    <3>5. request'[r] = rec /\ \A q \in Req \ {r} : request'[q] = new[q]
      BY <3>2, <3>3
    <3> HIDE DEF rec
    <3>6. request' \in [Req -> Request]
      BY <3>2, <3>3, <3>4, <3>5
    <3> QED
      BY <1>1, <2>2, <3>1, <3>4, <3>5, <3>6 DEF Changes
  <2> QED
    BY <1>2, <2>1, <2>2
<1>4. DeskTypeOK'
  BY <1>1, <1>2, <1>3 DEF Hands, DeskTypeOK
<1>5. NoneNewer'
  BY <1>1, <1>2, <1>3 DEF Hands, NoneNewer, DeskTypeOK
<1>6. FlightAlive'
  BY <1>1, <1>2, <1>3 DEF Hands, FlightAlive, DeskTypeOK, NoneNewer
<1>7. FiledAlone'
  BY <1>1, <1>2, <1>3 DEF Hands, FiledAlone, DeskTypeOK, NoneNewer, Filing, Is
<1>8. CaptureSound'
  BY <1>1, <1>2, <1>3 DEF Hands, CaptureSound, DeskTypeOK, NoneNewer, Tip
<1>9. DeletionSound'
  BY <1>1, <1>2, <1>3 DEF Hands, DeletionSound, TipsAlive, Single
<1>10. TipsAlive'
  BY <1>1, <1>2, <1>3 DEF Hands, TipsAlive, DeskTypeOK, FlightAlive
<1>11. Recoverable'
  BY <1>1, <1>2, <1>3 DEF Hands, Recoverable, DeskTypeOK
<1> QED
  BY <1>4, <1>5, <1>6, <1>7, <1>8, <1>9, <1>10, <1>11 DEF Hands

\* The copy is of what was read.
LEMMA BackupStep ==
    ASSUME Hands, NEW r \in Req, Backup(r), UNCHANGED dialog
    PROVE  Hands'
<1>1. UNCHANGED <<library, alive, minted, flight, excused, slot, keeper, dialog>>
  BY DEF Backup
<1>2. request[r].kind = "delete" /\ request[r].at = "resolved"
  BY DEF Backup, Is
<1>3. backups' = backups \cup {<<a, request[r].gen>> : a \in request[r].acct}
  BY DEF Backup
<1>4. Changes(request', r, "copied")
  BY MovesChanges DEF Backup, Places, Hands
<1>5. request[r].acct \subseteq Account /\ request[r].gen \in Nat
  BY <1>2 DEF Hands, DeletionSound, DeskTypeOK, Request
<1>6. DeskTypeOK'
  BY <1>1, <1>2, <1>3, <1>4, <1>5 DEF Hands, DeskTypeOK, Changes
<1>7. NoneNewer'
  BY <1>1, <1>2, <1>3, <1>4, <1>5 DEF Hands, NoneNewer, DeskTypeOK
<1>8. FlightAlive'
  BY <1>1, <1>2, <1>3, <1>4, <1>5 DEF Hands, FlightAlive, DeskTypeOK, NoneNewer
<1>9. FiledAlone'
  BY <1>1, <1>2, <1>3, <1>4, <1>5
     DEF Hands, FiledAlone, DeskTypeOK, NoneNewer, Filing, Is, Changes
<1>10. CaptureSound'
  BY <1>1, <1>2, <1>3, <1>4, <1>5
     DEF Hands, CaptureSound, DeskTypeOK, NoneNewer, Tip
<1>11. DeletionSound'
  BY <1>1, <1>2, <1>3, <1>4, <1>5 DEF Hands, DeletionSound, Changes
<1>12. TipsAlive'
  BY <1>1, <1>2, <1>3, <1>4, <1>5 DEF Hands, TipsAlive, DeskTypeOK, FlightAlive
<1>13. Recoverable'
  BY <1>1, <1>2, <1>3, <1>4, <1>5 DEF Hands, Recoverable, DeskTypeOK
<1> QED
  BY <1>6, <1>7, <1>8, <1>9, <1>10, <1>11, <1>12, <1>13 DEF Hands

\* A record that goes leaves a copy of a chain that works, or one that is
\* excused.
LEMMA RemoveRecordStep ==
    ASSUME Hands, NEW r \in Req, RemoveRecord(r), UNCHANGED dialog
    PROVE  Hands'
<1>1. PICK a \in request[r].acct :
        /\ library' = [library EXCEPT ![a] = 0]
        /\ excused' = IF flight[a] # 0 THEN excused \cup {a} ELSE excused
  BY DEF RemoveRecord
<1>2. UNCHANGED <<alive, minted, flight, backups, slot, keeper, dialog>>
  BY DEF RemoveRecord
<1>3. request[r].kind = "delete" /\ request[r].at = "copied"
  BY DEF RemoveRecord, Is
<1>4. Changes(request', r, "answered")
  BY AnsweredChanges DEF RemoveRecord, Results, Hands
<1>5. /\ a \in Account /\ <<a, request[r].gen>> \in backups
      /\ request[r].gen \in alive[a] \/ flight[a] # 0 \/ a \in excused
  BY <1>3 DEF Hands, DeletionSound
<1>6. excused \subseteq excused' /\ excused' \subseteq excused \cup {a} /\ (flight[a] # 0 => a \in excused')
  BY <1>1
<1>7. DeskTypeOK'
  BY <1>1, <1>2, <1>3, <1>4, <1>5, <1>6 DEF Hands, DeskTypeOK, Changes
<1>8. NoneNewer'
  BY <1>1, <1>2, <1>3, <1>4, <1>5, <1>6 DEF Hands, NoneNewer, DeskTypeOK
<1>9. FlightAlive'
  BY <1>1, <1>2, <1>3, <1>4, <1>5, <1>6
     DEF Hands, FlightAlive, DeskTypeOK, NoneNewer
<1>10. FiledAlone'
  BY <1>1, <1>2, <1>3, <1>4, <1>5, <1>6
     DEF Hands, FiledAlone, DeskTypeOK, NoneNewer, Filing, Is, Changes
<1>11. CaptureSound'
  BY <1>1, <1>2, <1>3, <1>4, <1>5, <1>6
     DEF Hands, CaptureSound, DeskTypeOK, NoneNewer, Tip
<1>12. DeletionSound'
  BY <1>1, <1>2, <1>3, <1>4, <1>5, <1>6 DEF Hands, DeletionSound, Changes
<1>13. TipsAlive'
  BY <1>1, <1>2, <1>3, <1>4, <1>5, <1>6
     DEF Hands, TipsAlive, DeskTypeOK, FlightAlive
<1>14. Recoverable'
  BY <1>1, <1>2, <1>3, <1>4, <1>5, <1>6 DEF Hands, Recoverable, DeskTypeOK
<1> QED
  BY <1>7, <1>8, <1>9, <1>10, <1>11, <1>12, <1>13, <1>14 DEF Hands

\* Only the tip on record is spent, and what a running deletion read of it is
\* excused.
LEMMA RotateStep ==
    ASSUME Hands, NEW a \in Account, Rotate(a), UNCHANGED dialog
    PROVE  Hands'
<1>1. library[a] \in alive[a] /\ flight[a] = 0 /\ minted[a] + 1 \in Nat \ {0}
  BY DEF Rotate, Hands, DeskTypeOK
<1>2. /\ minted' = [minted EXCEPT ![a] = minted[a] + 1]
      /\ alive' = [alive EXCEPT ![a] = (@ \ {library[a]}) \cup {minted[a] + 1}]
      /\ flight' = [flight EXCEPT ![a] = minted[a] + 1]
  BY DEF Rotate, NewTip
<1>3. excused' = IF Deleting(a) THEN excused \cup {a} ELSE excused
  BY DEF Rotate
<1>4. UNCHANGED <<library, backups, slot, keeper, request, dialog>>
  BY DEF Rotate
<1>5. DeskTypeOK'
  BY <1>1, <1>2, <1>3, <1>4 DEF Hands, DeskTypeOK
<1>6. NoneNewer'
  BY <1>1, <1>2, <1>3, <1>4 DEF Hands, NoneNewer, DeskTypeOK
<1>7. FlightAlive'
  BY <1>1, <1>2, <1>3, <1>4 DEF Hands, FlightAlive, DeskTypeOK, NoneNewer
<1>8. FiledAlone'
  BY <1>1, <1>2, <1>3, <1>4 DEF Hands, FiledAlone, DeskTypeOK, NoneNewer, Filing, Is
<1>9. CaptureSound'
  BY <1>1, <1>2, <1>3, <1>4 DEF Hands, CaptureSound, DeskTypeOK, NoneNewer, Tip
<1>10. DeletionSound'
  BY <1>1, <1>2, <1>3, <1>4 DEF Hands, DeletionSound, Deleting, DeskTypeOK
<1>11. TipsAlive'
  BY <1>1, <1>2, <1>3, <1>4 DEF Hands, TipsAlive, DeskTypeOK, FlightAlive
<1>12. Recoverable'
  BY <1>1, <1>2, <1>3, <1>4 DEF Hands, Recoverable, DeskTypeOK
<1> QED
  BY <1>5, <1>6, <1>7, <1>8, <1>9, <1>10, <1>11, <1>12 DEF Hands

\* The tip that is written is alive; a deletion it overtook is excused.
LEMMA PersistRotatedStep ==
    ASSUME Hands, NEW a \in Account, PersistRotated(a), UNCHANGED dialog
    PROVE  Hands'
<1>1. flight[a] # 0 /\ keeper.at # "looked"
  BY DEF PersistRotated, LockFree
<1>2. /\ library' = [library EXCEPT ![a] = IF @ = 0 THEN 0 ELSE flight[a]]
      /\ flight' = [flight EXCEPT ![a] = 0]
      /\ excused' = IF library[a] = 0 \/ Deleting(a) THEN excused \cup {a} ELSE excused
  BY DEF PersistRotated
<1>3. UNCHANGED <<alive, minted, backups, slot, keeper, request, dialog>>
  BY DEF PersistRotated
<1>4. DeskTypeOK'
  BY <1>1, <1>2, <1>3 DEF Hands, DeskTypeOK
<1>5. NoneNewer'
  BY <1>1, <1>2, <1>3 DEF Hands, NoneNewer, DeskTypeOK
<1>6. FlightAlive'
  BY <1>1, <1>2, <1>3 DEF Hands, FlightAlive, DeskTypeOK, NoneNewer
<1>7. FiledAlone'
  BY <1>1, <1>2, <1>3 DEF Hands, FiledAlone, DeskTypeOK, NoneNewer, Filing, Is
<1>8. CaptureSound'
  BY <1>1, <1>2, <1>3 DEF Hands, CaptureSound, DeskTypeOK, NoneNewer, Tip
<1>9. DeletionSound'
  BY <1>1, <1>2, <1>3 DEF Hands, DeletionSound, Deleting, DeskTypeOK
<1>10. TipsAlive'
  BY <1>1, <1>2, <1>3 DEF Hands, TipsAlive, DeskTypeOK, FlightAlive
<1>11. Recoverable'
  BY <1>1, <1>2, <1>3 DEF Hands, Recoverable, DeskTypeOK
<1> QED
  BY <1>4, <1>5, <1>6, <1>7, <1>8, <1>9, <1>10, <1>11 DEF Hands

\* The capture has seen an entry.
LEMMA CaptureSeesStep ==
    ASSUME Hands, CaptureSees, UNCHANGED dialog
    PROVE  Hands'
<1>1. UNCHANGED <<library, alive, minted, flight, backups, excused, slot, request, dialog>>
  BY DEF CaptureSees, pool
<1>2. keeper' = [keeper EXCEPT !.at = "seen", !.seen = slot]
  BY DEF CaptureSees
<1>3. keeper'.at = "seen" /\ keeper'.tip = keeper.tip
  BY <1>2 DEF Hands, DeskTypeOK
<1>4. DeskTypeOK'
  BY <1>1, <1>2, <1>3 DEF Hands, DeskTypeOK
<1>5. NoneNewer'
  BY <1>1, <1>2, <1>3 DEF Hands, NoneNewer, DeskTypeOK
<1>6. FlightAlive'
  BY <1>1, <1>2, <1>3 DEF Hands, FlightAlive, DeskTypeOK, NoneNewer
<1>7. FiledAlone'
  BY <1>1, <1>2, <1>3 DEF Hands, FiledAlone, DeskTypeOK, NoneNewer, Filing, Is
<1>8. CaptureSound'
  BY <1>1, <1>2, <1>3 DEF Hands, CaptureSound, DeskTypeOK, NoneNewer, Tip
<1>9. DeletionSound'
  BY <1>1, <1>2, <1>3 DEF Hands, DeletionSound
<1>10. TipsAlive'
  BY <1>1, <1>2, <1>3 DEF Hands, TipsAlive, DeskTypeOK, FlightAlive
<1>11. Recoverable'
  BY <1>1, <1>2, <1>3 DEF Hands, Recoverable, DeskTypeOK
<1> QED
  BY <1>4, <1>5, <1>6, <1>7, <1>8, <1>9, <1>10, <1>11 DEF Hands

\* It takes the entry as it is now, and the vendor honours it now.
LEMMA CaptureLooksStep ==
    ASSUME Hands, CaptureLooks, UNCHANGED dialog
    PROVE  Hands'
<1>1. UNCHANGED <<library, alive, minted, flight, backups, excused, slot, request, dialog>>
  BY DEF CaptureLooks, pool
<1>2. \/ /\ Accepted(slot) /\ keeper' = [keeper EXCEPT !.at = "looked", !.tip = slot]
      \/ keeper' = [keeper EXCEPT !.at = "idle"]
      \/ keeper' = [keeper EXCEPT !.at = "idle", !.absorbed = keeper.seen]
  BY DEF CaptureLooks
<1>3. \/ slot # <<>> /\ slot[2] \in alive[slot[1]] /\ keeper'.at = "looked" /\ keeper'.tip = slot
      \/ keeper'.at = "idle" /\ keeper'.tip = keeper.tip
  BY <1>2 DEF Hands, DeskTypeOK, Accepted
<1>4. DeskTypeOK'
  <2>1. keeper' \in [at : {"idle", "seen", "looked"}, seen : Tip, tip : Tip, absorbed : Tip]
    BY <1>2 DEF Hands, DeskTypeOK
  <2> QED
    BY <1>1, <2>1 DEF Hands, DeskTypeOK
<1>5. NoneNewer'
  BY <1>1, <1>2, <1>3 DEF Hands, NoneNewer, DeskTypeOK
<1>6. FlightAlive'
  BY <1>1, <1>2, <1>3 DEF Hands, FlightAlive, DeskTypeOK, NoneNewer
<1>7. FiledAlone'
  BY <1>1, <1>2, <1>3 DEF Hands, FiledAlone, DeskTypeOK, NoneNewer, Filing, Is
<1>8. CaptureSound'
  BY <1>1, <1>2, <1>3 DEF Hands, CaptureSound, DeskTypeOK, NoneNewer, Tip
<1>9. DeletionSound'
  BY <1>1, <1>2, <1>3 DEF Hands, DeletionSound
<1>10. TipsAlive'
  BY <1>1, <1>2, <1>3 DEF Hands, TipsAlive, DeskTypeOK, FlightAlive
<1>11. Recoverable'
  BY <1>1, <1>2, <1>3 DEF Hands, Recoverable, DeskTypeOK
<1> QED
  BY <1>4, <1>5, <1>6, <1>7, <1>8, <1>9, <1>10, <1>11 DEF Hands

\* What is filed is alive, or has a successor that has still to be written.
LEMMA CaptureAbsorbsStep ==
    ASSUME Hands, CaptureAbsorbs, UNCHANGED dialog
    PROVE  Hands'
<1>1. UNCHANGED <<alive, minted, flight, backups, slot, request, dialog>> /\ keeper.at = "looked"
  BY DEF CaptureAbsorbs
<1>2. /\ library' = [library EXCEPT ![keeper.tip[1]] = keeper.tip[2]]
      /\ excused' = Cleared(keeper.tip[1])
  BY DEF CaptureAbsorbs
<1>3. keeper' = [keeper EXCEPT !.at = "idle", !.absorbed = keeper.seen]
  BY DEF CaptureAbsorbs
<1>4. keeper'.at = "idle" /\ keeper'.tip = keeper.tip
  BY <1>3 DEF Hands, DeskTypeOK
<1>5. PICK a \in Account, g \in Nat \ {0} : keeper.tip = <<a, g>>
  BY <1>1 DEF Hands, DeskTypeOK, CaptureSound, Tip
<1>6. library' = [library EXCEPT ![a] = g] /\ g <= minted[a] /\ (g \in alive[a] \/ flight[a] # 0)
  BY <1>1, <1>2, <1>5 DEF Hands, CaptureSound
<1>7. /\ \A b \in Account \ {a} : b \in excused' <=> b \in excused
      /\ a \in excused \ excused' => ~Deleting(a)
      /\ excused' \subseteq excused
  BY <1>2, <1>5 DEF Cleared
<1>8. DeskTypeOK'
  <2>1. library' \in [Account -> Nat] /\ excused' \subseteq Account
    BY <1>1, <1>2, <1>3, <1>4, <1>5, <1>6, <1>7 DEF Hands, DeskTypeOK
  <2>2. keeper' \in [at : {"idle", "seen", "looked"}, seen : Tip, tip : Tip, absorbed : Tip]
    BY <1>3 DEF Hands, DeskTypeOK
  <2> QED
    BY <2>1, <2>2, <1>1, <1>2, <1>3, <1>4, <1>5, <1>6, <1>7 DEF Hands, DeskTypeOK
<1>9. NoneNewer'
  BY <1>1, <1>2, <1>3, <1>4, <1>5, <1>6, <1>7 DEF Hands, NoneNewer, DeskTypeOK
<1>10. FlightAlive'
  BY <1>1, <1>2, <1>3, <1>4, <1>5, <1>6, <1>7
     DEF Hands, FlightAlive, DeskTypeOK, NoneNewer
<1>11. FiledAlone'
  BY <1>1, <1>2, <1>3, <1>4, <1>5, <1>6, <1>7
     DEF Hands, FiledAlone, DeskTypeOK, NoneNewer, Filing, Is
<1>12. CaptureSound'
  BY <1>1, <1>2, <1>3, <1>4, <1>5, <1>6, <1>7
     DEF Hands, CaptureSound, DeskTypeOK, NoneNewer, Tip
<1>13. DeletionSound'
  BY <1>1, <1>2, <1>3, <1>4, <1>5, <1>6, <1>7 DEF Hands, DeletionSound, Deleting
<1>14. TipsAlive'
  BY <1>1, <1>2, <1>3, <1>4, <1>5, <1>6, <1>7
     DEF Hands, TipsAlive, DeskTypeOK, FlightAlive
<1>15. Recoverable'
  BY <1>1, <1>2, <1>3, <1>4, <1>5, <1>6, <1>7 DEF Hands, Recoverable, DeskTypeOK
<1> QED
  BY <1>8, <1>9, <1>10, <1>11, <1>12, <1>13, <1>14, <1>15 DEF Hands

\* A login's chain is in auth.json only.
LEMMA LocalLoginStep ==
    ASSUME Hands, NEW a \in Account, LocalLogin(a), UNCHANGED dialog
    PROVE  Hands'
<1>1. /\ minted' = [minted EXCEPT ![a] = minted[a] + 1]
      /\ alive' = [alive EXCEPT ![a] = @ \cup {minted[a] + 1}]
      /\ slot' = <<a, minted[a] + 1>>
  BY DEF LocalLogin, NewTip
<1>2. minted[a] + 1 \in Nat \ {0}
  BY DEF Hands, DeskTypeOK
<1>3. UNCHANGED <<library, flight, backups, excused, keeper, request, dialog>>
  BY DEF LocalLogin
<1>4. DeskTypeOK'
  BY <1>1, <1>2, <1>3 DEF Hands, DeskTypeOK, Tip
<1>5. NoneNewer'
  BY <1>1, <1>2, <1>3 DEF Hands, NoneNewer, DeskTypeOK
<1>6. FlightAlive'
  BY <1>1, <1>2, <1>3 DEF Hands, FlightAlive, DeskTypeOK, NoneNewer
<1>7. FiledAlone'
  BY <1>1, <1>2, <1>3 DEF Hands, FiledAlone, DeskTypeOK, NoneNewer, Filing, Is
<1>8. CaptureSound'
  BY <1>1, <1>2, <1>3 DEF Hands, CaptureSound, DeskTypeOK, NoneNewer, Tip
<1>9. DeletionSound'
  BY <1>1, <1>2, <1>3 DEF Hands, DeletionSound
<1>10. TipsAlive'
  BY <1>1, <1>2, <1>3 DEF Hands, TipsAlive, DeskTypeOK, FlightAlive
<1>11. Recoverable'
  BY <1>1, <1>2, <1>3 DEF Hands, Recoverable, DeskTypeOK
<1> QED
  BY <1>4, <1>5, <1>6, <1>7, <1>8, <1>9, <1>10, <1>11 DEF Hands

\* Rotated tips that were not written are lost, and excused; requests are
\* answered.
LEMMA RestartStep ==
    ASSUME Hands, Restart, UNCHANGED dialog
    PROVE  Hands'
<1>1. UNCHANGED <<library, alive, minted, backups, slot, dialog>>
  BY DEF Restart
<1>2. /\ excused' = excused \cup {a \in Account : flight[a] # 0}
      /\ flight' = [a \in Account |-> 0]
  BY DEF Restart
<1>3. keeper' = Fresh /\ keeper'.at = "idle" /\ keeper'.tip = <<>>
  BY DEF Restart, Fresh
<1>4. \A q \in Req : /\ request'[q] \in Request
                     /\ request'[q].at \in {"idle", "answered"}
                     /\ request'[q].kind = request[q].kind /\ request'[q].acct = request[q].acct
  <2> SUFFICES ASSUME NEW q \in Req
               PROVE  /\ request'[q] \in Request
                      /\ request'[q].at \in {"idle", "answered"}
                      /\ request'[q].kind = request[q].kind
                      /\ request'[q].acct = request[q].acct
    OBVIOUS
  <2>1. request[q] \in Request
    BY DEF Hands, DeskTypeOK
  <2>2. request'[q] = IF request[q].at \in {"idle", "answered", "landed"} THEN request[q]
                      ELSE [request[q] EXCEPT !.at = "answered", !.result = "failed"]
    BY DEF Restart
  <2> QED
    BY <2>1, <2>2 DEF Request
<1>5. request' \in [Req -> Request]
  BY <1>4 DEF Restart
<1>6. DeskTypeOK'
  BY <1>1, <1>2, <1>3, <1>4, <1>5 DEF Hands, DeskTypeOK, Tip, Fresh
<1>7. NoneNewer'
  BY <1>1, <1>2, <1>3, <1>4, <1>5 DEF Hands, NoneNewer, DeskTypeOK
<1>8. FlightAlive'
  BY <1>1, <1>2, <1>3, <1>4, <1>5 DEF Hands, FlightAlive, DeskTypeOK, NoneNewer
<1>9. FiledAlone'
  BY <1>1, <1>2, <1>3, <1>4, <1>5
     DEF Hands, FiledAlone, DeskTypeOK, NoneNewer, Filing, Is
<1>10. CaptureSound'
  BY <1>1, <1>2, <1>3, <1>4, <1>5
     DEF Hands, CaptureSound, DeskTypeOK, NoneNewer, Tip
<1>11. DeletionSound'
  BY <1>1, <1>2, <1>3, <1>4, <1>5 DEF Hands, DeletionSound
<1>12. TipsAlive'
  BY <1>1, <1>2, <1>3, <1>4, <1>5 DEF Hands, TipsAlive, DeskTypeOK, FlightAlive
<1>13. Recoverable'
  BY <1>1, <1>2, <1>3, <1>4, <1>5 DEF Hands, Recoverable, DeskTypeOK
<1> QED
  BY <1>6, <1>7, <1>8, <1>9, <1>10, <1>11, <1>12, <1>13 DEF Hands

-----------------------------------------------------------------------------
(* The desk's other steps, and the page's.                                 *)

LEMMA ServeKeeps ==
    ASSUME Hands, NEW r \in Req, Serve(r), UNCHANGED dialog
    PROVE  Hands'
<1>1. DeskTypeOK
  BY DEF Hands
<1>2. CASE Start(r)
  <2>1. Changes(request', r, "minting") /\ UNCHANGED <<pool, slot, keeper>>
    BY <1>1, <1>2, MovesChanges DEF Start, Places
  <2> QED
    BY <2>1, QuietChange DEF Places
<1>3. CASE Authorized(r)
  <2> DEFINE new == Answered(r, "ok")
  <2>1. PICK s \in Session : request' = [new EXCEPT ![r].session = s]
    BY <1>3 DEF Authorized
  <2>2. Changes(new, r, "answered")
    BY <1>1, AnsweredChanges DEF Results
  <2> HIDE DEF new
  <2>3. new \in [Req -> Request] /\ new[r] \in Request /\ s \in Nat
    BY <2>2 DEF Changes, Session
  <2> DEFINE rec == [new[r] EXCEPT !.session = s]
  <2>4. /\ rec \in Request /\ rec.kind = new[r].kind /\ rec.at = new[r].at
        /\ rec.acct = new[r].acct /\ rec.gen = new[r].gen
    BY <2>3 DEF Request
  <2>5. request'[r] = rec /\ \A q \in Req \ {r} : request'[q] = new[q]
    BY <2>1, <2>3
  <2> HIDE DEF rec
  <2>6. request' \in [Req -> Request]
    BY <2>1, <2>3, <2>4, <2>5
  <2>7. Changes(request', r, "answered")
    BY <2>2, <2>4, <2>5, <2>6 DEF Changes
  <2> QED
    BY <1>3, <2>7, QuietChange DEF Authorized, Places
<1>4. CASE AddRefused(r)
  <2>1. \E result \in Results : request' = Answered(r, result)
    BY <1>4 DEF AddRefused, Results
  <2>2. Changes(request', r, "answered")
    BY <1>1, <2>1, AnsweredChanges
  <2> QED
    BY <1>4, <2>2, QuietChange DEF AddRefused, Places
<1>5. CASE Exchange(r)
  <2>1. Changes(request', r, "exchanging") /\ UNCHANGED <<pool, slot, keeper>>
    BY <1>1, <1>5, MovesChanges DEF Exchange, Places
  <2> QED
    BY <2>1, QuietChange DEF Places
<1>6. CASE ExchangeFails(r)
  <2>1. \E result \in Results : request' = Answered(r, result)
    BY <1>6 DEF ExchangeFails, Results
  <2>2. Changes(request', r, "answered")
    BY <1>1, <2>1, AnsweredChanges
  <2> QED
    BY <1>6, <2>2, QuietChange DEF ExchangeFails, Places
<1>7. CASE ProfileFails(r) \/ BackupFails(r)
  <2>1. Changes(request', r, "answered") /\ UNCHANGED <<pool, slot, keeper>>
    BY <1>1, <1>7, AnsweredChanges DEF ProfileFails, BackupFails, Results
  <2> QED
    BY <2>1, QuietChange DEF Places
<1> QED
  BY <1>2, <1>3, <1>4, <1>5, <1>6, <1>7, ExchangeWorksStep, AbsorbStep, ResolveStep,
     BackupStep, RemoveRecordStep DEF Serve

\* Nothing but a request, the page and its dialog moves.
LEMMA PageMoves ==
    ASSUME Hands, UNCHANGED <<pool, slot, keeper, request>>, dialog' \in Dialog,
           Single(dialog'.pick)
    PROVE  Hands'
<1>1. request' \in [Req -> Request] /\ \A q \in Req : request'[q] = request[q]
  BY DEF Hands, DeskTypeOK
<1> QED
  BY <1>1, QuietStep

LEMMA SendKeeps ==
    ASSUME Hands, UNCHANGED <<pool, slot, keeper>>, dialog' \in Dialog, Single(dialog'.pick),
           NEW r \in Req, NEW kind \in {"authorize", "add", "delete", "register"},
           NEW session \in Nat, NEW acct \in SUBSET (Account \cup Worker),
           Send(r, kind, session, acct),
           kind = "delete" => acct \subseteq Account /\ Single(acct)
    PROVE  Hands'
<1> DEFINE rec == [NoRequest EXCEPT !.kind = kind, !.at = "sent", !.session = session, !.acct = acct]
<1>1. rec \in Request /\ rec.kind = kind /\ rec.at = "sent" /\ rec.acct = acct
  BY DEF NoRequest, Request
<1>2. request' = [request EXCEPT ![r] = rec]
  BY DEF Send
<1> HIDE DEF rec
<1>3. request' \in [Req -> Request] /\ request'[r] = rec /\ \A q \in Req \ {r} : request'[q] = request[q]
  BY <1>1, <1>2 DEF Hands, DeskTypeOK
<1>4. Harmless(request'[r])
  BY <1>1, <1>3 DEF Harmless
<1> QED
  BY <1>3, <1>4, QuietStep

\* A dialog that opens, changes what it shows or closes; its pick is one account.
Flows == {"add", "del", "reg"}
Stages == {"loading", "ready", "del", "reg", "fatal", "done"}

LEMMA DialogFacts ==
    ASSUME DeskTypeOK
    PROVE  /\ Closed \in Dialog /\ Single(Closed.pick)
           /\ \A f \in Flows, t \in Stages : Shows(f, t) \in Dialog /\ Shows(f, t).pick = dialog.pick
<1>1. dialog \in Dialog
  BY DEF DeskTypeOK
<1>2. Closed \in Dialog /\ Single(Closed.pick)
  BY DEF Closed, Dialog, Single
<1>3. \A f \in Flows, t \in Stages : Shows(f, t) \in Dialog /\ Shows(f, t).pick = dialog.pick
  BY <1>1 DEF Dialog, Shows, Flows, Stages
<1> QED
  BY <1>2, <1>3

\* Setting a field, or two, keeps the type; only the pick changes the pick.
LEMMA DialogFields ==
    ASSUME NEW d \in Dialog
    PROVE  /\ \A b \in BOOLEAN :
                /\ [d EXCEPT !.submitting = b] \in Dialog /\ [d EXCEPT !.submitting = b].pick = d.pick
                /\ [d EXCEPT !.deleting = b] \in Dialog /\ [d EXCEPT !.deleting = b].pick = d.pick
                /\ [d EXCEPT !.registering = b] \in Dialog /\ [d EXCEPT !.registering = b].pick = d.pick
           /\ \A t \in Stages : [d EXCEPT !.stage = t] \in Dialog /\ [d EXCEPT !.stage = t].pick = d.pick
           /\ \A n \in Nat : [d EXCEPT !.pending = n] \in Dialog /\ [d EXCEPT !.pending = n].pick = d.pick
           /\ \A p \in SUBSET Account : [d EXCEPT !.pick = p] \in Dialog /\ [d EXCEPT !.pick = p].pick = p
<1>1. \A b \in BOOLEAN :
        /\ [d EXCEPT !.submitting = b] \in Dialog /\ [d EXCEPT !.submitting = b].pick = d.pick
        /\ [d EXCEPT !.deleting = b] \in Dialog /\ [d EXCEPT !.deleting = b].pick = d.pick
        /\ [d EXCEPT !.registering = b] \in Dialog /\ [d EXCEPT !.registering = b].pick = d.pick
  BY DEF Dialog
<1>2. \A t \in Stages : [d EXCEPT !.stage = t] \in Dialog /\ [d EXCEPT !.stage = t].pick = d.pick
  BY DEF Dialog, Stages
<1>3. \A n \in Nat : [d EXCEPT !.pending = n] \in Dialog /\ [d EXCEPT !.pending = n].pick = d.pick
  BY DEF Dialog
<1>4. \A p \in SUBSET Account : [d EXCEPT !.pick = p] \in Dialog /\ [d EXCEPT !.pick = p].pick = p
  BY DEF Dialog
<1> QED
  BY <1>1, <1>2, <1>3, <1>4

LEMMA AnswersKeep ==
    ASSUME Hands, NEW r \in Req, AnswerLands(r)
    PROVE  Hands'
<1>1. /\ DeskTypeOK /\ Single(dialog.pick) /\ dialog \in Dialog
      /\ request[r].session \in Nat /\ request[r] \in Request
  BY DEF Hands, DeletionSound, DeskTypeOK, Request
<1> DEFINE Fine(d) == d \in Dialog /\ d.pick = dialog.pick
<1>2. Succeeds \in Dialog /\ Succeeds.pick = dialog.pick
  BY <1>1, DialogFields DEF Succeeds, Stages
<1>3. Fine(AuthorizeAnswer(r))
  <2>1. CASE request[r].result = "ok"
    <3> DEFINE ready == [dialog EXCEPT !.stage = "ready"]
    <3>1. ready \in Dialog /\ ready.pick = dialog.pick
      BY <1>1, DialogFields DEF Stages
    <3>2. AuthorizeAnswer(r) = [ready EXCEPT !.pending = request[r].session]
      BY <2>1 DEF AuthorizeAnswer
    <3> HIDE DEF ready
    <3> QED
      BY <1>1, <3>1, <3>2, DialogFields
  <2>2. CASE request[r].result # "ok"
    BY <1>1, <2>2, DialogFields DEF AuthorizeAnswer, Stages
  <2> QED
    BY <2>1, <2>2
<1>4. Fine(AddAnswer(r))
  <2> DEFINE fatal == [dialog EXCEPT !.stage = "fatal"]
  <2>1. fatal \in Dialog /\ fatal.pick = dialog.pick
    BY <1>1, DialogFields DEF Stages
  <2>2. PICK d \in {Succeeds, fatal, dialog} : AddAnswer(r) = [d EXCEPT !.submitting = FALSE]
    BY DEF AddAnswer
  <2> HIDE DEF fatal
  <2>3. d \in Dialog /\ d.pick = dialog.pick
    BY <1>1, <1>2, <2>1
  <2> QED
    BY <2>2, <2>3, DialogFields
<1>5. Fine(DeleteAnswer(r))
  <2>1. PICK d \in {Succeeds, dialog} : DeleteAnswer(r) = [d EXCEPT !.deleting = FALSE]
    BY DEF DeleteAnswer
  <2>2. d \in Dialog /\ d.pick = dialog.pick
    BY <1>1, <1>2
  <2> QED
    BY <2>1, <2>2, DialogFields
<1>6. Fine(RegisterAnswer(r))
  <2>1. PICK d \in {Succeeds, dialog} : RegisterAnswer(r) = [d EXCEPT !.registering = FALSE]
    BY DEF RegisterAnswer
  <2>2. d \in Dialog /\ d.pick = dialog.pick
    BY <1>1, <1>2
  <2> QED
    BY <2>1, <2>2, DialogFields
<1>7. dialog' \in Dialog /\ Single(dialog'.pick)
  <2>1. dialog' = Closed \/ dialog' = Answer(r)
    BY DEF AnswerLands
  <2>2. CASE dialog' = Closed
    BY <1>1, <2>2, DialogFacts
  <2>3. CASE dialog' = Answer(r)
    <3>1. \/ Answer(r) = AuthorizeAnswer(r) \/ Answer(r) = AddAnswer(r)
          \/ Answer(r) = DeleteAnswer(r) \/ Answer(r) = RegisterAnswer(r)
      BY DEF Answer
    <3>2. Fine(Answer(r))
      BY <1>3, <1>4, <1>5, <1>6, <3>1
    <3> QED
      BY <1>1, <2>3, <3>2
  <2> QED
    BY <2>1, <2>2, <2>3
<1>8. UNCHANGED <<pool, slot, keeper, request>>
  BY Zenon DEF AnswerLands, deskVars, pool
<1> QED
  BY <1>7, <1>8, PageMoves

LEMMA PressesKeep ==
    ASSUME Hands, Presses
    PROVE  Hands'
<1>1. /\ DeskTypeOK /\ Single(dialog.pick) /\ dialog \in Dialog /\ dialog.pending \in Nat
      /\ dialog.pick \subseteq Account
  BY DEF Hands, DeletionSound, DeskTypeOK, Dialog
<1>2. ASSUME NEW r \in Req, BeginAdd(r) PROVE Hands'
  <2>1. dialog' \in Dialog /\ Single(dialog'.pick)
    <3> DEFINE shown == Shows("add", "loading")
               fresh == [shown EXCEPT !.pending = 0]
    <3>1. shown \in Dialog /\ shown.pick = dialog.pick
      BY <1>1, DialogFacts DEF Flows, Stages
    <3>2. dialog' = [fresh EXCEPT !.submitting = FALSE]
      BY <1>2 DEF BeginAdd
    <3> HIDE DEF shown
    <3>3. fresh \in Dialog /\ fresh.pick = dialog.pick
      BY <3>1, DialogFields
    <3> HIDE DEF fresh
    <3> QED
      BY <1>1, <3>2, <3>3, DialogFields
  <2>2. UNCHANGED <<pool, slot, keeper>> /\ Send(r, "authorize", 0, {})
    BY <1>2 DEF BeginAdd, Press
  <2> QED
    BY <2>1, <2>2, SendKeeps
<1>3. ASSUME NEW r \in Req, SubmitCode(r) PROVE Hands'
  <2>1. dialog' \in Dialog /\ Single(dialog'.pick)
    BY <1>1, <1>3, DialogFields DEF SubmitCode
  <2>2. UNCHANGED <<pool, slot, keeper>> /\ Send(r, "add", dialog.pending, {})
    BY <1>3 DEF SubmitCode, Press
  <2> QED
    BY <1>1, <2>1, <2>2, SendKeeps
<1>4. ASSUME NEW r \in Req, SubmitDelete(r) PROVE Hands'
  <2>1. dialog' \in Dialog /\ Single(dialog'.pick)
    BY <1>1, <1>4, DialogFields DEF SubmitDelete
  <2>2. UNCHANGED <<pool, slot, keeper>> /\ Send(r, "delete", 0, dialog.pick)
    BY <1>4 DEF SubmitDelete, Press
  <2> QED
    BY <1>1, <2>1, <2>2, SendKeeps
<1>5. ASSUME NEW r \in Req, SubmitRegister(r) PROVE Hands'
  <2>1. dialog' \in Dialog /\ Single(dialog'.pick)
    BY <1>1, <1>5, DialogFields DEF SubmitRegister
  <2>2. UNCHANGED <<pool, slot, keeper>> /\ \E w \in Worker : Send(r, "register", 0, {w})
    BY <1>5 DEF SubmitRegister, Press
  <2> QED
    BY <2>1, <2>2, SendKeeps
<1>6. ASSUME NEW a \in Account, BeginDelete(a) PROVE Hands'
  <2> DEFINE shown == Shows("del", "del")
             picked == [shown EXCEPT !.pick = {a}]
  <2>1. shown \in Dialog
    BY <1>1, DialogFacts DEF Flows, Stages
  <2>2. dialog' = [picked EXCEPT !.deleting = FALSE]
    BY <1>6 DEF BeginDelete
  <2> HIDE DEF shown
  <2>3. picked \in Dialog /\ picked.pick = {a}
    BY <2>1, DialogFields
  <2> HIDE DEF picked
  <2>4. dialog' \in Dialog /\ dialog'.pick = {a}
    BY <2>2, <2>3, DialogFields
  <2> QED
    BY <1>6, <2>4, PageMoves DEF BeginDelete, Single
<1>7. CASE BeginRegister
  <2>1. dialog' \in Dialog /\ Single(dialog'.pick)
    <3> DEFINE shown == Shows("reg", "reg")
    <3>1. shown \in Dialog /\ shown.pick = dialog.pick
      BY <1>1, DialogFacts DEF Flows, Stages
    <3>2. dialog' = [shown EXCEPT !.registering = FALSE]
      BY <1>7 DEF BeginRegister
    <3> HIDE DEF shown
    <3> QED
      BY <1>1, <3>1, <3>2, DialogFields
  <2> QED
    BY <1>7, <2>1, PageMoves DEF BeginRegister
<1>8. CASE CloseDialog
  <2>1. dialog' \in Dialog /\ Single(dialog'.pick)
    BY <1>1, <1>8, DialogFacts DEF CloseDialog
  <2> QED
    BY <1>8, <2>1, PageMoves DEF CloseDialog, deskVars, pool
<1> QED
  BY <1>2, <1>3, <1>4, <1>5, <1>6, <1>7, <1>8 DEF Presses

-----------------------------------------------------------------------------
(* The invariant.                                                          *)

LEMMA DeskStepKeeps ==
    ASSUME Hands, DeskStep, UNCHANGED pageVars
    PROVE  Hands'
<1>1. UNCHANGED dialog /\ dialog' \in Dialog /\ Single(dialog'.pick)
  BY DEF pageVars, Hands, DeskTypeOK, DeletionSound
<1>2. ASSUME NEW r \in Req, Serve(r) PROVE Hands'
  BY <1>1, <1>2, ServeKeeps
<1>3. ASSUME NEW a \in Account, Rotate(a) \/ PersistRotated(a) \/ LocalLogin(a) PROVE Hands'
  BY <1>1, <1>3, RotateStep, PersistRotatedStep, LocalLoginStep
<1>4. CASE CaptureSees \/ CaptureLooks \/ CaptureAbsorbs
  BY <1>1, <1>4, CaptureSeesStep, CaptureLooksStep, CaptureAbsorbsStep
<1>5. ASSUME NEW s \in Session, SessionAges(s) PROVE Hands'
  BY <1>1, <1>5, PageMoves DEF SessionAges
<1>6. CASE IntervalEnds \/ Bind
  BY <1>1, <1>6, PageMoves DEF IntervalEnds, Bind
<1> QED
  BY <1>2, <1>3, <1>4, <1>5, <1>6 DEF DeskStep

LEMMA NextKeeps == Hands /\ [Next]_vars => Hands'
<1> SUFFICES ASSUME Hands, [Next]_vars PROVE Hands'
  OBVIOUS
<1>1. /\ dialog \in Dialog /\ Single(dialog.pick)
      /\ DeskTypeOK
  BY DEF Hands, DeskTypeOK, DeletionSound
<1>2. CASE DeskStep /\ UNCHANGED pageVars
  BY <1>2, DeskStepKeeps
<1>3. CASE MasterRestarts
  BY <1>3, RestartStep DEF MasterRestarts
<1>4. CASE Presses
  BY <1>4, PressesKeep
<1>5. ASSUME NEW r \in Req, Register(r) PROVE Hands'
  <2>1. Changes(request', r, "answered") /\ UNCHANGED <<pool, slot, keeper, dialog>>
    BY <1>1, <1>5, AnsweredChanges DEF Register, Results
  <2> QED
    BY <2>1, QuietChange DEF Places
<1>6. ASSUME NEW r \in Req, AnswerLands(r) PROVE Hands'
  BY <1>6, AnswersKeep
<1>7. ASSUME NEW r \in Req, OthersPress(r) PROVE Hands'
  <2>1. UNCHANGED <<pool, slot, keeper>> /\ dialog' \in Dialog /\ Single(dialog'.pick)
    BY <1>1, <1>7 DEF OthersPress, pageVars
  <2>2. CASE Send(r, "authorize", 0, {})
    BY <2>1, <2>2, SendKeeps
  <2>3. ASSUME NEW s \in Session, Send(r, "add", s, {}) PROVE Hands'
    BY <2>1, <2>3, SendKeeps DEF Session
  <2>4. ASSUME NEW a \in Account, Send(r, "delete", 0, {a}) PROVE Hands'
    BY <2>1, <2>4, SendKeeps DEF Single
  <2> QED
    BY <1>7, <2>2, <2>3, <2>4 DEF OthersPress
<1>8. CASE Polls \/ Sweep \/ Refresh \/ RefreshLands \/ RefreshFails \/ QuietEnds
  <2>1. UNCHANGED <<pool, slot, keeper, request, dialog>>
    BY <1>8 DEF Polls, Load, LoadLands, LoadFails, Sweep, Refresh, RefreshLands,
       RefreshFails, QuietEnds, deskVars, pool
  <2> QED
    BY <1>1, <2>1, PageMoves
<1>9. CASE UNCHANGED vars
  <2>1. UNCHANGED <<pool, slot, keeper, request, dialog>>
    BY <1>9 DEF vars, deskVars, pageVars, pool
  <2> QED
    BY <1>1, <2>1, PageMoves
<1> QED
  BY <1>2, <1>3, <1>4, <1>5, <1>6, <1>7, <1>8, <1>9 DEF Next

LEMMA InitEstablishes == Init => DeskIInv
<1> SUFFICES ASSUME Init PROVE DeskIInv
  OBVIOUS
<1>1. CountedFirst
  <2>1. PICK tried \in 0 .. (MaxAttempts - 1) :
          attempts = [s \in Session |-> IF s = issued THEN tried ELSE 0]
    BY DEF Init, DeskInit
  <2>2. MaxAttempts \in Nat /\ tried \in 0 .. MaxAttempts /\ 0 \in 0 .. MaxAttempts
    OBVIOUS
  <2>3. attempts \in [Session -> 0 .. MaxAttempts]
    BY <2>1, <2>2
  <2> QED
    BY <2>3 DEF Init, DeskInit, CountedFirst
<1>2. /\ library \in [Account -> {0, 1}] /\ minted = library
      /\ alive = [a \in Account |-> {library[a]} \ {0}]
      /\ flight = [a \in Account |-> 0]
      /\ backups = {} /\ slot = <<>> /\ keeper = Fresh
      /\ request = [r \in Req |-> NoRequest]
      /\ excused = {a \in Account : library[a] = 0} /\ dialog = Closed
  BY DEF Init, DeskInit
<1>3. NoRequest \in Request /\ NoRequest.kind = "none"
  BY DEF NoRequest, Request
<1>4. Closed \in Dialog /\ Closed.pick = {}
  BY DEF Closed, Dialog
<1>5. Fresh.at = "idle" /\ Fresh.tip = <<>>
      /\ Fresh \in [at : {"idle", "seen", "looked"}, seen : Tip, tip : Tip, absorbed : Tip]
  BY DEF Fresh, Tip
<1>6. DeskTypeOK
  BY <1>2, <1>3, <1>4, <1>5 DEF DeskTypeOK, Tip
<1>7. NoneNewer /\ FlightAlive /\ TipsAlive /\ Recoverable
  BY <1>2 DEF NoneNewer, FlightAlive, TipsAlive, Recoverable
<1>8. FiledAlone /\ DeletionSound
  BY <1>2, <1>3, <1>4 DEF FiledAlone, Filing, Is, DeletionSound, Single
<1>9. CaptureSound
  BY <1>2, <1>5 DEF CaptureSound
<1> QED
  BY <1>1, <1>6, <1>7, <1>8, <1>9 DEF DeskIInv, Hands

\* The inductive invariant holds in every state of the desk and its page.
THEOREM DeskInvariant == Spec => []DeskIInv
<1>1. DeskIInv /\ [Next]_vars => DeskIInv'
  BY NextCounts, NextKeeps DEF DeskIInv
<1> QED
  BY <1>1, InitEstablishes, PTL DEF Spec

\* Every state of the pool, the desk and the dialog is of its type.
THEOREM DeskTypes == Spec => []DeskTypeOK
<1>1. DeskIInv => DeskTypeOK
  BY DEF DeskIInv, Hands
<1> QED
  BY <1>1, DeskInvariant, PTL

\* However many requests are in flight, no session has more exchanges than the
\* cap and no interval more than one.
THEOREM DeskCapsExchanges == Spec => []ExchangesCapped
<1>1. DeskIInv => ExchangesCapped
  BY DEF DeskIInv, CountedFirst, ExchangesCapped
<1> QED
  BY <1>1, DeskInvariant, PTL

\* Rotations, captures and logins break no chain of the pool, and neither does a
\* deletion that no rotation overlaps.
THEOREM DeskTipsAlive == Spec => []TipsAlive
<1>1. DeskIInv => TipsAlive
  BY DEF DeskIInv, Hands
<1> QED
  BY <1>1, DeskInvariant, PTL

\* The copy of a deleted account still works, unless a rotation overlapped
\* the deletion.
THEOREM DeskRecoverable == Spec => []Recoverable
<1>1. DeskIInv => Recoverable
  BY DEF DeskIInv, Hands
<1> QED
  BY <1>1, DeskInvariant, PTL

-----------------------------------------------------------------------------
(* The lock (FileLock).  While nobody dies it excludes, however many          *)
(* processes there are: a legitimate hold is shorter than the age at which a  *)
(* file counts as abandoned, so nobody ever comes to steal a file.            *)

AllLive == \A p \in Process : pc[p] # "dead"

\* The file is its holder's, and exactly as old as the hold.
FileIsHeld ==
  /\ owner # Ghost
  /\ owner # None => pc[owner] \in Held /\ age = holding[owner]
  /\ \A p \in Process : pc[p] \in Held => owner = p

NobodySteals == \A p \in Process : pc[p] # "steal"

\* The inductive invariant.
LockIInv == LockTypeOK /\ (AllLive => FileIsHeld /\ NobodySteals)

\* A property of every step: the dead stay dead.
LEMMA DeadStayDead ==
  ASSUME LockTypeOK, [LockNext]_lockVars, AllLive'
  PROVE  AllLive
<1> SUFFICES ASSUME NEW q \in Process, pc[q] = "dead" PROVE FALSE
  BY DEF AllLive
<1>1. pc'[q] = "dead"
  <2>1. ASSUME NEW p \in Process, LockStep(p) PROVE pc'[q] = "dead"
    BY <2>1 DEF LockStep, Enter, Create, Stat, Steal, Wake, Finish, ReadToken, Unlink, GoTo, LockTypeOK
  <2>2. ASSUME NEW p \in Process, Die(p) PROVE pc'[q] = "dead"
    BY <2>2 DEF Die, GoTo, LockTypeOK
  <2>3. Tick \/ UNCHANGED lockVars => pc'[q] = "dead"
    BY DEF Tick, lockVars
  <2> QED
    BY <2>1, <2>2, <2>3 DEF LockNext
<1> QED
  BY <1>1 DEF AllLive

\* Types are kept by every step.
LEMMA LockTypeStep ==
  ASSUME LockTypeOK, [LockNext]_lockVars
  PROVE  LockTypeOK'
<1> USE LockAssumption DEF LockTypeOK, GoTo, Waiting, Held
<1>1. ASSUME NEW p \in Process, Enter(p) PROVE LockTypeOK'
  BY <1>1 DEF Enter
<1>2. ASSUME NEW p \in Process, Create(p) PROVE LockTypeOK'
  BY <1>2 DEF Create
<1>3. ASSUME NEW p \in Process, Stat(p) PROVE LockTypeOK'
  BY <1>3 DEF Stat
<1>4. ASSUME NEW p \in Process, Steal(p) \/ Unlink(p) PROVE LockTypeOK'
  BY <1>4 DEF Steal, Unlink
<1>5. ASSUME NEW p \in Process, Wake(p) \/ Finish(p) \/ ReadToken(p) PROVE LockTypeOK'
  BY <1>5 DEF Wake, Finish, ReadToken
<1>6. ASSUME NEW p \in Process, Die(p) PROVE LockTypeOK'
  BY <1>6 DEF Die
<1>7. CASE Tick
  <2>1. age' \in 0 .. Stale + 1
    BY <1>7 DEF Tick, CountTo
  <2>2. waited' \in [Process -> 0 .. AcquireTimeout]
    BY <1>7 DEF Tick, CountTo
  <2>3. holding' \in [Process -> 0 .. MaxHold]
    BY <1>7 DEF Tick
  <2> QED
    BY <1>7, <2>1, <2>2, <2>3 DEF Tick
<1>8. CASE UNCHANGED lockVars
  BY <1>8 DEF lockVars
<1> QED
  BY <1>1, <1>2, <1>3, <1>4, <1>5, <1>6, <1>7, <1>8 DEF LockNext, LockStep

\* While everybody lives a file is younger than its holder's longest hold, so
\* no waiter finds it abandoned and every holder finds it his own.
LEMMA HoldingStep ==
  ASSUME MaxHold <= Stale, LockIInv, [LockNext]_lockVars, AllLive'
  PROVE  (FileIsHeld /\ NobodySteals)'
<1>1. LockTypeOK /\ AllLive /\ FileIsHeld /\ NobodySteals
  BY DeadStayDead DEF LockIInv
<1> USE <1>1, LockAssumption DEF LockTypeOK, FileIsHeld, NobodySteals, GoTo, Held, Waiting
<1>2. ASSUME NEW p \in Process, Enter(p) \/ Wake(p) \/ Finish(p) \/ ReadToken(p)
      PROVE  (FileIsHeld /\ NobodySteals)'
  BY <1>2 DEF Enter, Wake, Finish, ReadToken
<1>3. ASSUME NEW p \in Process, Create(p) PROVE (FileIsHeld /\ NobodySteals)'
  BY <1>3 DEF Create
<1>4. ASSUME NEW p \in Process, Stat(p) PROVE (FileIsHeld /\ NobodySteals)'
  <2>1. owner # None => age <= Stale
    OBVIOUS
  <2> QED
    BY <1>4, <2>1 DEF Stat
<1>5. ASSUME NEW p \in Process, Steal(p) PROVE FALSE
  BY <1>5 DEF Steal
<1>6. ASSUME NEW p \in Process, Unlink(p) PROVE (FileIsHeld /\ NobodySteals)'
  BY <1>6 DEF Unlink
<1>7. ASSUME NEW p \in Process, Die(p) PROVE FALSE
  BY <1>7 DEF Die, AllLive
<1>8. CASE Tick
  <2>1. owner # None => age' = holding'[owner]
    BY <1>8 DEF Tick, CountTo
  <2> QED
    BY <1>8, <2>1 DEF Tick
<1>9. CASE UNCHANGED lockVars
  BY <1>9 DEF lockVars
<1> QED
  BY <1>2, <1>3, <1>4, <1>5, <1>6, <1>7, <1>8, <1>9 DEF LockNext, LockStep

\* What the inductive invariant says of the critical sections.
LEMMA HeldExcludes ==
  ASSUME LockIInv
  PROVE  LockInv
<1> SUFFICES ASSUME AllLive
             PROVE  /\ AtMostOneInside
                    /\ \A p \in Process : pc[p] = "unlinking" => owner = p
  BY DEF LockIInv, LockInv, ExclusiveWhileAllLive, AllLive
<1>1. \A p \in Process : pc[p] \in {"inside", "unlinking"} => owner = p
  BY DEF LockIInv, FileIsHeld, Held
<1>2. {p \in Process : pc[p] = "inside"} \subseteq {owner}
  BY <1>1
<1>3. Cardinality({p \in Process : pc[p] = "inside"}) <= Cardinality({owner})
  BY <1>2, FS_Subset, FS_Singleton
<1> QED
  BY <1>1, <1>3, FS_Singleton DEF AtMostOneInside

\* Mutual exclusion, and a release that unlinks only its own file, for any
\* number of processes that live - if no legitimate hold outlasts LOCK_STALE_MS
\* (15 s of critical section against 45 s).
THEOREM LockExcludes ==
  ASSUME MaxHold <= Stale
  PROVE  LockSpec => []LockInv
<1>1. LockInit => LockIInv
  BY LockAssumption DEF LockInit, LockIInv, LockTypeOK, FileIsHeld, NobodySteals, Held, Waiting
<1>2. LockIInv /\ [LockNext]_lockVars => LockIInv'
  BY LockTypeStep, HoldingStep DEF LockIInv
<1>3. LockIInv => LockInv
  BY HeldExcludes
<1> QED
  BY <1>1, <1>2, <1>3, PTL DEF LockSpec
=============================================================================
