----------------------------- MODULE SharedLease -----------------------------
(* The Claude Code relay: one lease for all sessions of a machine, and the    *)
(* requests forwarded with it.  Every change of the lease goes through one    *)
(* queue of jobs (serialize); a job is one step between two awaits.           *)
EXTENDS PoolMaster, Sequences

\* Disturbances: time, the vendor, the operator.
CONSTANTS Request,   \* requests the relay may be forwarding at once
          Operator   \* launchers and panels, each running one command

ASSUME RelayAssumption == Request \cap Operator = {} /\ MaxTrouble \in Nat

VARIABLES
  held,        \* the machine's lease
  deadAccess,  \* tokens this process has seen answered 401
  switchHold,  \* the account whose switch is not to be tried again yet
  backoff,     \* a renewal failed less than RENEW_RETRY_MS ago (renewFailed)
  reported,    \* accounts reported less than REPEAT_SWITCH_MS ago (reportedAt)
  pin,         \* the pinned account, in a file of its own
  queue,       \* jobs, the one under way first
  at,          \* where that one is: "queued" or the await it is in
  asked,       \* the account the call under way names
  shunned,     \* the account it excludes
  req,         \* req[r]: a request being forwarded
  op           \* op[o]: a command of the operator

lease == <<held, deadAccess, switchHold, backoff, reported>>
task  == <<queue, at, asked, shunned>>
relayVars == <<world, lease, pin, task, req, op, trouble>>

HeldLease == [acct : Account, gen : 1 .. MaxGen, age : Age]

Tok(l) == <<l.acct, l.gen>>

JobsOf(kind, what) == [kind : {kind}, by : Request, what : what]
Job == JobsOf("ensure", {None}) \cup JobsOf("quota", Account) \cup JobsOf("unauthorized", Token)
         \cup [kind : {"name"}, by : Operator, what : Account]

IdleReq == [pc |-> "idle", tok |-> NoTok]
IdleOp  == [pc |-> "idle", prefix |-> None, pinned |-> FALSE, prev |-> None]

RelayTypeOK ==
  /\ WorldTypeOK
  /\ trouble \in 0 .. MaxTrouble
  /\ held \in HeldLease \cup {NoLease}
  /\ deadAccess \subseteq Token
  /\ {switchHold, pin, asked, shunned} \subseteq Account \cup {None}
  /\ backoff \in BOOLEAN
  /\ reported \subseteq Account
  /\ \A i \in 1 .. Len(queue) : queue[i] \in Job
  /\ at \in {"queued", "report", "naming", "calling", "excluding"}
  /\ \A r \in Request :
       /\ req[r].pc \in {"idle", "asking", "sent", "walled", "denied", "resent"}
       /\ req[r].tok \in Token \cup {NoTok}
  /\ op \in [Operator -> [pc : {"idle", "pinning", "naming", "ok", "failed"},
                          prefix : Account \cup {None}, pinned : BOOLEAN,
                          prev : Account \cup {None}]]

-----------------------------------------------------------------------------
(* Answering a job.                                                          *)

Usable(l) == l # NoLease /\ l.age # "spent" /\ Tok(l) \notin deadAccess

Got(l) == [ok |-> TRUE, lease |-> l]
Failed == [ok |-> FALSE, lease |-> NoLease]

\* forward's reaction: the first lease is sent; after a 429 only another
\* account's, after a 401 only another token is sent again.
Suits(q, l) ==
  \/ q.pc = "asking"
  \/ q.pc = "walled" /\ l.acct # q.tok[1]
  \/ q.pc = "denied" /\ Tok(l) # q.tok

Onwards(q, result) ==
  IF result.ok /\ Suits(q, result.lease)
  THEN [pc |-> IF q.pc = "asking" THEN "sent" ELSE "resent", tok |-> Tok(result.lease)]
  ELSE IdleReq

\* Mutant: a job that fails leaves the queue's promise rejected.
ReplyRejecting(result) ==
  LET who == Head(queue).by
  IN  IF result.ok
      THEN /\ queue' = Tail(queue)
           /\ at' = "queued" /\ asked' = None /\ shunned' = None
           /\ req' = [r \in Request |-> IF r = who THEN Onwards(req[r], result) ELSE req[r]]
           /\ op' = [o \in Operator |-> IF o = who THEN [op[o] EXCEPT !.pc = "ok"] ELSE op[o]]
      ELSE UNCHANGED <<task, req, op>>

\* The job at the head ends and its caller goes on.
Reply(result) ==
  LET who == Head(queue).by
  IN  /\ queue' = Tail(queue)
      /\ at' = "queued" /\ asked' = None /\ shunned' = None
      /\ req' = [r \in Request |-> IF r = who THEN Onwards(req[r], result) ELSE req[r]]
      /\ op' = [o \in Operator |->
                  IF o = who THEN [op[o] EXCEPT !.pc = IF result.ok THEN "ok" ELSE "failed"]
                  ELSE op[o]]

\* A job starts its call to the master, reading the pin first (autoLease).
StartCall ==
  /\ at' = "calling" /\ asked' = pin /\ shunned' = None
  /\ UNCHANGED <<queue, req, op>>

Running(kind) == queue # <<>> /\ at = "queued" /\ Head(queue).kind = kind

-----------------------------------------------------------------------------
(* The jobs up to their first await.                                         *)

\* renew: shortly after a failure the master is left alone.
Renew ==
  IF backoff
  THEN /\ Reply(IF Usable(held) THEN Got(held) ELSE Failed)
  ELSE StartCall

BeginEnsure ==
  /\ Running("ensure")
  /\ IF Usable(held) /\ held.age = "young" THEN Reply(Got(held)) ELSE Renew
  /\ UNCHANGED <<world, lease, pin>>

\* The operator's choice: held already, or asked for by name.
BeginName ==
  /\ Running("name")
  /\ IF held.acct = Head(queue).what /\ Usable(held) /\ held.age = "young"
     THEN Reply(Got(held))
     ELSE /\ at' = "naming" /\ asked' = Head(queue).what
          /\ UNCHANGED <<queue, shunned, req, op>>
  /\ UNCHANGED <<world, lease, pin>>

\* Mutant: no comparison, every failed request switches.
MovedNever(failed) == FALSE

\* Somebody switched already: the failed account is not the one held.
Moved(failed) == held # NoLease /\ held.acct # failed

\* After the report: the lease others switched to, or a switch.
AfterReport == IF Moved(Head(queue).what) THEN Reply(Got(held)) ELSE StartCall

\* The account a limit is reported for: the one the request was sent with.
Culprit == Head(queue).what

BeginQuota ==
  /\ Running("quota")
  /\ IF ~Moved(Head(queue).what) /\ switchHold = Head(queue).what
     THEN Reply(Failed) /\ UNCHANGED reported
     ELSE IF Culprit \in reported THEN AfterReport /\ UNCHANGED reported
     ELSE /\ reported' = reported \cup {Culprit}
          /\ at' = "report" /\ UNCHANGED <<queue, asked, shunned, req, op>>
  /\ UNCHANGED <<world, held, deadAccess, switchHold, backoff, pin>>

\* The master has the report, or lost it, before the next lease is asked for.
ReportQuota ==
  /\ at = "report"
  /\ ReportLands(Culprit)
  /\ AfterReport
  /\ UNCHANGED <<minted, revoked, walled, lease, pin>>

BeginUnauthorized ==
  /\ Running("unauthorized")
  /\ IF held # NoLease /\ Tok(held) # Head(queue).what
     THEN Reply(Got(held)) /\ UNCHANGED deadAccess
     ELSE /\ deadAccess' = deadAccess \cup {Head(queue).what}
          /\ IF backoff THEN Reply(Failed) ELSE StartCall
  /\ UNCHANGED <<world, held, switchHold, backoff, reported, pin>>

-----------------------------------------------------------------------------
(* The answers of the master.                                                *)

IsQuota == Head(queue).kind = "quota"
Reason == IF IsQuota THEN "ratelimit" ELSE "prelease"

Leased(answer) == [acct |-> answer.acct, gen |-> minted[answer.acct], age |-> "young"]

\* A lease: held from now on.  An account handed straight back is not asked
\* about again for a while.
Adopt(l) ==
  /\ held' = l
  /\ switchHold' = IF ~IsQuota THEN switchHold
                   ELSE IF l.acct = Head(queue).what THEN l.acct ELSE None
  /\ backoff' = (IsQuota /\ backoff)
  /\ Reply(Got(l))

\* No lease: a renewal goes on with the one held while that is usable.
GiveUp ==
  /\ IF IsQuota
     THEN /\ switchHold' = Head(queue).what
          /\ Reply(Failed) /\ UNCHANGED backoff
     ELSE /\ backoff' = TRUE
          /\ Reply(IF Usable(held) THEN Got(held) ELSE Failed)
          /\ UNCHANGED switchHold
  /\ UNCHANGED held

\* Only the pin that was refused is given back.
DropPin == pin' = IF pin = asked THEN None ELSE pin

\* Mutant: the answer is not compared with what was seen.
SeenDeadNever(l) == FALSE

\* Has this process seen the token fail?
SeenDead(l) == Tok(l) \in deadAccess

\* autoLease and leaseLiveAccess: a refused pin is dropped and the call made
\* again without it; a token known dead is asked around, once.
MasterAnswers ==
  /\ at = "calling"
  /\ \E answer \in LeaseAnswers(Reason, held.acct, asked, {}) :
       \/ /\ answer.kind = "refused"
          /\ DropPin
          /\ asked' = None
          /\ UNCHANGED <<lease, queue, at, shunned, req, op>>
       \/ /\ answer.kind = "lease" /\ SeenDead(Leased(answer))
          /\ at' = "excluding" /\ asked' = None /\ shunned' = answer.acct
          /\ UNCHANGED <<lease, pin, queue, req, op>>
       \/ /\ answer.kind = "lease" /\ ~SeenDead(Leased(answer))
          /\ Adopt(Leased(answer))
          /\ UNCHANGED <<deadAccess, reported, pin>>
       \/ /\ answer.kind \in {"none", "down"}
          /\ GiveUp
          /\ UNCHANGED <<deadAccess, reported, pin>>
  /\ UNCHANGED world

MasterAnswersExcluding ==
  /\ at = "excluding"
  /\ \E answer \in LeaseAnswers(Reason, held.acct, None, {shunned}) :
       /\ IF answer.kind = "lease" /\ ~SeenDead(Leased(answer)) THEN Adopt(Leased(answer))
          ELSE GiveUp
  /\ UNCHANGED <<world, deadAccess, reported, pin>>

\* A named account is taken or not: it is never exchanged for another.
MasterAnswersNamed ==
  /\ at = "naming"
  /\ \E answer \in LeaseAnswers("prelease", held.acct, asked, {}) :
       /\ IF answer.kind = "refused" THEN DropPin ELSE UNCHANGED pin
       /\ IF answer.kind = "lease" /\ ~SeenDead(Leased(answer))
          THEN held' = Leased(answer) /\ Reply(Got(Leased(answer)))
          ELSE UNCHANGED held /\ Reply(Failed)
  /\ UNCHANGED <<world, deadAccess, switchHold, backoff, reported>>

-----------------------------------------------------------------------------
(* Requests, the relay's own tick, and the operator.                         *)

\* Mutant: the newest job goes first, before the one under way.
EnqueueFirst(kind, by, what) == queue' = <<[kind |-> kind, by |-> by, what |-> what]>> \o queue

Enqueue(kind, by, what) == queue' = Append(queue, [kind |-> kind, by |-> by, what |-> what])

Forward(r) ==
  /\ req[r].pc = "idle"
  /\ req' = [req EXCEPT ![r].pc = "asking"]
  /\ Enqueue("ensure", r, None)
  /\ UNCHANGED <<world, lease, pin, at, asked, shunned, op>>

\* The vendor's verdict on the first send: 401, an exhausted quota, or neither.
Verdict(r) ==
  LET t == req[r].tok
  IN  /\ req[r].pc = "sent"
      /\ IF ~Works(t)
         THEN /\ req' = [req EXCEPT ![r].pc = "denied"]
              /\ Enqueue("unauthorized", r, t)
         ELSE IF t[1] \in walled
         THEN /\ req' = [req EXCEPT ![r].pc = "walled"]
              /\ Enqueue("quota", r, t[1])
         ELSE req' = [req EXCEPT ![r] = IdleReq] /\ UNCHANGED queue
      /\ UNCHANGED <<world, lease, pin, at, asked, shunned, op>>

\* The second send is final, whatever comes back.
Passed(r) ==
  /\ req[r].pc = "resent"
  /\ req' = [req EXCEPT ![r] = IdleReq]
  /\ UNCHANGED <<world, lease, pin, task, op>>

\* A command naming account a, to be pinned or not: the panel reads the pin it
\* would restore, and asks for the relay's health before it goes on.
Command(o, a, pinned) ==
  /\ Disturb
  /\ op[o].pc = "idle"
  /\ op' = [op EXCEPT ![o] = [pc |-> "pinning", prefix |-> a, pinned |-> pinned, prev |-> pin]]
  /\ UNCHANGED <<world, lease, pin, task, req>>

\* The intent is stored before the account is asked for.
NameAccount(o) ==
  /\ op[o].pc = "pinning"
  /\ pin' = IF op[o].pinned THEN op[o].prefix ELSE pin
  /\ op' = [op EXCEPT ![o].pc = "naming"]
  /\ Enqueue("name", o, op[o].prefix)
  /\ UNCHANGED <<world, lease, at, asked, shunned, req>>

\* On failure the panel restores the pin it had read; after an unpinned switch
\* it clears a pin that would switch back.
CommandEnds(o) ==
  /\ op[o].pc \in {"ok", "failed"}
  /\ pin' = IF op[o].pc = "failed" /\ op[o].pinned THEN op[o].prev
            ELSE IF op[o].pc = "ok" /\ ~op[o].pinned /\ op[o].prev \notin {None, op[o].prefix}
            THEN None ELSE pin
  /\ op' = [op EXCEPT ![o] = IdleOp]
  /\ UNCHANGED <<world, lease, task, req>>

Unpin ==
  /\ Disturb
  /\ pin # None
  /\ pin' = None
  /\ UNCHANGED <<world, lease, task, req, op>>

-----------------------------------------------------------------------------
(* Time.                                                                     *)

LeaseAges ==
  /\ Disturb
  /\ held # NoLease /\ held.age # "spent"
  /\ held' = [held EXCEPT !.age = IF @ = "young" THEN "due" ELSE "spent"]
  /\ UNCHANGED <<world, deadAccess, switchHold, backoff, reported, pin, task, req, op>>

\* SWITCH_RETRY_MS or REPEAT_SWITCH_MS, RENEW_RETRY_MS, REPEAT_SWITCH_MS pass.
HoldLapses ==
  /\ Disturb
  /\ \/ switchHold # None /\ switchHold' = None /\ UNCHANGED <<backoff, reported>>
     \/ backoff /\ backoff' = FALSE /\ UNCHANGED <<switchHold, reported>>
     \/ \E a \in reported : reported' = reported \ {a} /\ UNCHANGED <<switchHold, backoff>>
  /\ UNCHANGED <<world, held, deadAccess, pin, task, req, op>>

\* Nobody is about to report a: its quota returns after hours, a request's way
\* through the queue takes seconds.
Unreported(a) ==
  \A r \in Request : req[r].pc = "walled" => req[r].tok[1] # a

WorldMoves ==
  /\ Disturb
  /\ \E a \in Account : \/ RotateToken(a) \/ RevokeToken(a) \/ FillQuota(a)
                        \/ Unreported(a) /\ QuotaReturns(a)
  /\ UNCHANGED <<lease, pin, task, req, op>>

-----------------------------------------------------------------------------
RelayInit ==
  /\ WorldInit
  /\ held = NoLease /\ deadAccess = {} /\ switchHold = None
  /\ backoff = FALSE /\ reported = {} /\ pin = None
  /\ trouble = 0
  /\ queue = <<>> /\ at = "queued" /\ asked = None /\ shunned = None
  /\ req = [r \in Request |-> IdleReq]
  /\ op = [o \in Operator |-> IdleOp]

\* What the process does by itself: the job at the head of the queue.
Work ==
  \/ BeginEnsure \/ BeginName \/ BeginQuota \/ BeginUnauthorized
  \/ ReportQuota \/ MasterAnswers \/ MasterAnswersExcluding \/ MasterAnswersNamed

RelayNext ==
  \/ /\ \/ Work
        \/ \E r \in Request : Forward(r) \/ Verdict(r) \/ Passed(r)
        \/ \E o \in Operator : NameAccount(o) \/ CommandEnds(o)
     /\ UNCHANGED trouble
  \/ \E o \in Operator, a \in Account, pinned \in BOOLEAN : Command(o, a, pinned)
  \/ Unpin \/ LeaseAges \/ HoldLapses \/ WorldMoves

\* Calls to the master are bounded by their timeout and the vendor answers or
\* the connection breaks; nothing is assumed of which answer comes.
RelayFairness ==
  /\ WF_relayVars(Work /\ UNCHANGED trouble)
  /\ \A r \in Request : WF_relayVars((Verdict(r) \/ Passed(r)) /\ UNCHANGED trouble)

RelaySpec == RelayInit /\ [][RelayNext]_relayVars /\ RelayFairness

-----------------------------------------------------------------------------
(* Properties.                                                               *)

\* What the job of a waiting request is about: the account or the token it
\* failed with.
About(q) ==
  IF q.pc = "walled" THEN q.tok[1] ELSE IF q.pc = "denied" THEN q.tok ELSE None

\* Each request that waits for the relay has one job in the queue, about what
\* it failed with; the others have none.
OneJobEach ==
  \A r \in Request :
    LET waiting == {i \in 1 .. Len(queue) : queue[i].by = r}
    IN  IF req[r].pc \in {"asking", "walled", "denied"}
        THEN \E i \in waiting : waiting = {i} /\ queue[i].what = About(req[r])
        ELSE waiting = {}

\* The types, one job for each request that waits, and a job behind every call.
RelayInv ==
  /\ RelayTypeOK
  /\ OneJobEach
  /\ at # "queued" => queue # <<>>

\* However many requests run into the limit of one account, only accounts that
\* ran out are reported, and the machine is moved off an account only when it
\* ran out, when a token of it was answered 401, when the master no longer keeps
\* it, or by the operator's choice: requests that come too late move nothing.
NoStampede ==
  [][/\ cooling' \subseteq cooling \cup walled
     /\ held # NoLease /\ held'.acct # held.acct =>
          \/ held.acct \in walled \cup cooling
          \/ \E t \in deadAccess : t[1] = held.acct
          \/ asked = held'.acct]_relayVars

\* A request is never first sent with a token this relay has seen answered 401,
\* although the master goes on serving it from its cache.
NeverSendsDead ==
  [][\A r \in Request :
       req[r].pc = "asking" /\ req'[r].pc = "sent" => req'[r].tok \notin deadAccess]_relayVars

\* Every request is answered in the end, though all of them wait in one queue
\* behind each other's switches.
RequestsAnswered == \A r \in Request : req[r].pc # "idle" ~> req[r].pc = "idle"
=============================================================================
