----------------------------- MODULE LocalChain -----------------------------
(* Local mode: the refresh chains of the accounts, whose tips rotate with      *)
(* every use, between three places - auth.json's one entry, the account        *)
(* library, and the vendor.  The plugin's operations (usage.ts, keeper.ts) run *)
(* one at a time under the auth lock; OpenCode's own provider (ex-machina),    *)
(* which refreshes the entry during a session, and a login take no lock.       *)
EXTENDS Disturbance, FiniteSets

\* Disturbances: crashes, lost answers, logins.
CONSTANT MaxGen \* bound: tokens minted per account

ASSUME ChainAssumption == None \notin Account /\ MaxGen \in Nat \ {0} /\ MaxTrouble \in Nat

VARIABLES
  tip,      \* tip[a]: generation of the only refresh token the vendor honours
  auth,     \* auth.json's anthropic entry
  lib,      \* lib[a]: a's record in the library; no token, no record
  active,   \* activeId
  running,  \* a session is running
  ex,       \* the token ex-machina got and has still to write
  op,       \* the operation that holds the auth lock
  viewed,   \* the active record a collection began with
  mishap    \* history: a tip was exposed in a way the code leaves open

vars == <<tip, auth, lib, active, running, ex, op, viewed, trouble, mishap>>

Token == Account \X (1 .. MaxGen)
NoTok == <<None, 0>>
Who == Account \cup {None}

Entry == [tok : Token \cup {NoTok}, fresh : BOOLEAN]
Record == [tok : Token \cup {NoTok}, fresh : BOOLEAN, reauth : BOOLEAN]
NoRecord == [tok |-> NoTok, fresh |-> FALSE, reauth |-> FALSE]
Held(t) == [tok |-> t, fresh |-> TRUE, reauth |-> FALSE]  \* applyToken: clears the flag

Op == [kind : {"active", "capture", "inactive", "switch", "sync", "retry", "remove"}, acct : Who,
       pc : {"post", "put", "auth"}, tok : Token \cup {NoTok}, file : [Account -> Record]]
NoOp == [kind |-> "none", acct |-> None, pc |-> "idle", tok |-> NoTok, file |-> <<>>]

ChainTypeOK ==
  /\ tip \in [Account -> 1 .. MaxGen]
  /\ auth \in Entry
  /\ lib \in [Account -> Record]
  /\ {active, viewed} \subseteq Who
  /\ running \in BOOLEAN /\ mishap \in BOOLEAN
  /\ ex \in Token \cup {NoTok}
  /\ op \in Op \cup {NoOp}
  /\ trouble \in 0 .. MaxTrouble


Tip(a) == <<a, tip[a]>>
IsTip(t) == t # NoTok /\ t = Tip(t[1])

\* Does the library take auth.json's entry for another account than it is?
Drifted == auth.tok # NoTok /\ active # None /\ auth.tok[1] # active

\* The record of the active account as auth.json has it.
Synced(entry) == [tok |-> entry.tok, fresh |-> entry.fresh, reauth |-> FALSE]

Free == op = NoOp

\* An operation starts; what it read of the library is `file`.
Start(kind, a, pc, t, file) ==
  op' = [kind |-> kind, acct |-> a, pc |-> pc, tok |-> t, file |-> file]

\* Two refreshers of the entry at once, one of which takes no lock.
Races == ex # NoTok

-----------------------------------------------------------------------------
(* The operations, up to their first await.                                  *)

\* INV-1: only a positively confirmed idle counts; the unknown reads as running.
KnownIdle == ~running

\* Past its expiry, without the margin the inactive accounts are kept to.
ActiveFresh == auth.fresh

\* liveAccess: a token with that margin still ahead of it.
Live(a) == lib[a].fresh

\* keepActiveFresh and selfRefresh: only while no session runs.  The first does
\* not wait for the expiry but for the margin, which an entry that still serves
\* may have entered.
KeepActive ==
  /\ Free /\ KnownIdle
  /\ auth.tok # NoTok
  /\ Start("active", None, "post", auth.tok, lib)
  /\ mishap' = (mishap \/ Races)
  /\ Calm /\ UNCHANGED <<tip, auth, lib, active, running, ex, viewed>>

\* autoCapture reads the entry, and asks the vendor whose it is.
Capture ==
  /\ Free
  /\ auth.tok # NoTok /\ ActiveFresh
  /\ Start("capture", auth.tok[1], "put", auth.tok, lib)
  /\ Calm /\ UNCHANGED <<tip, auth, lib, active, running, ex, viewed, mishap>>

\* The chain auth.json holds is refreshed there, never from the record.
NotActive(a) == active # a

\* acquireInactiveAccess.
KeepInactive(a) ==
  /\ Free
  /\ lib[a].tok # NoTok /\ NotActive(a) /\ ~lib[a].reauth /\ ~Live(a)
  /\ Start("inactive", a, "post", lib[a].tok, lib)
  /\ Calm /\ UNCHANGED <<tip, auth, lib, active, running, ex, viewed, mishap>>

\* retryFlaggedRefresh: one explicit attempt.
RetryFlagged(a) ==
  /\ Free
  /\ lib[a].tok # NoTok /\ lib[a].reauth
  /\ Start("retry", a, "post", lib[a].tok, lib)
  /\ Calm /\ UNCHANGED <<tip, auth, lib, active, running, ex, viewed, mishap>>

\* Mutant: the outgoing account's record is left as it was.
ReverseSyncNever(a) == lib

\* The outgoing account's token goes into its record before it leaves auth.json.
ReverseSync(a) ==
  IF active \in Account \ {a} /\ auth.tok # NoTok /\ lib[active].tok # NoTok
  THEN [lib EXCEPT ![active] = Synced(auth)]
  ELSE lib

\* switchToAccount: a stale target is refreshed first, unless it is backed off.
Switch(a) ==
  /\ Free
  /\ lib[a].tok # NoTok /\ ~lib[a].reauth
  /\ \E pc \in IF Live(a) THEN {"put"} ELSE {"put", "post"} :
       Start("switch", a, pc, lib[a].tok, ReverseSync(a))
  /\ mishap' = (mishap \/ Races \/ Drifted
                  \/ (active \in {a, None} /\ auth.tok # NoTok /\ lib[auth.tok[1]].tok # auth.tok))
  /\ Calm /\ UNCHANGED <<tip, auth, lib, active, running, ex, viewed>>

\* collectAllUsage: the active record as it is when the collection begins ...
Collect ==
  /\ viewed = None /\ active # None
  /\ viewed' = active
  /\ Calm /\ UNCHANGED <<tip, auth, lib, active, running, ex, op, mishap>>

\* Mutant: the record it began with is overwritten, active or not.
StillViewedAnyway == TRUE

StillViewed == active = viewed

\* ... is overwritten with auth.json's entry at its end, if it is still active.
SyncActive ==
  /\ Free
  /\ viewed # None
  /\ viewed' = None
  /\ IF StillViewed /\ lib[viewed].tok # NoTok /\ auth.tok # NoTok
     THEN /\ Start("sync", viewed, "put", auth.tok, [lib EXCEPT ![viewed] = Synced(auth)])
          /\ mishap' = (mishap \/ Drifted)
     ELSE UNCHANGED <<op, mishap>>
  /\ Calm /\ UNCHANGED <<tip, auth, lib, active, running, ex>>

\* removeAccount, of a row that is not the active one (the panel blocks that).
Remove(a) ==
  /\ Free /\ Disturb
  /\ lib[a].tok # NoTok /\ active # a
  /\ Start("remove", a, "put", NoTok, [lib EXCEPT ![a] = NoRecord])
  /\ mishap' = (mishap \/ (auth.tok # NoTok /\ auth.tok[1] = a))
  /\ UNCHANGED <<tip, auth, lib, active, running, ex, viewed>>

-----------------------------------------------------------------------------
(* The vendor's answer to the operation's refresh.                           *)

RefreshOk ==
  /\ op.pc = "post" /\ IsTip(op.tok) /\ tip[op.tok[1]] < MaxGen
  /\ tip' = [tip EXCEPT ![op.tok[1]] = @ + 1]
  /\ op' = [op EXCEPT !.pc = "put", !.tok = <<op.tok[1], tip[op.tok[1]] + 1>>,
                      !.file = IF op.kind = "active" THEN @
                               ELSE [@ EXCEPT ![op.acct] = Held(<<op.tok[1], tip[op.tok[1]] + 1>>)]]
  /\ Calm /\ UNCHANGED <<auth, lib, active, running, ex, viewed, mishap>>

\* Mutant: whatever goes wrong, the account is branded.
BrandedByAny == TRUE

\* invalid_grant, after a second look at the record: only a token nobody has
\* rotated in the meantime brands its account.
Branded == ~IsTip(op.tok) /\ lib[op.acct].tok = op.tok

\* The vendor refuses the token, or does not answer.
RefreshFails ==
  /\ op.pc = "post"
  /\ lib' = IF op.kind \in {"inactive", "switch"} /\ Branded
            THEN [lib EXCEPT ![op.acct].reauth = TRUE] ELSE lib
  /\ op' = NoOp
  /\ Calm /\ UNCHANGED <<tip, auth, active, running, ex, viewed, mishap>>

\* It answers, and the answer is lost on the way: the tip is nowhere.
AnswerLost ==
  /\ Disturb
  /\ op.pc = "post" /\ IsTip(op.tok) /\ tip[op.tok[1]] < MaxGen
  /\ tip' = [tip EXCEPT ![op.tok[1]] = @ + 1]
  /\ op' = NoOp
  /\ mishap' = TRUE
  /\ UNCHANGED <<auth, lib, active, running, ex, viewed>>

-----------------------------------------------------------------------------
(* What the operation writes.                                                *)

WriteActive ==
  /\ op.kind = "active" /\ op.pc = "put"
  /\ auth' = [tok |-> op.tok, fresh |-> TRUE]
  /\ op' = NoOp
  /\ Calm /\ UNCHANGED <<tip, lib, active, running, ex, viewed, mishap>>

\* upsertAccount: the token as it was read, in its owner's record; active.  The
\* vendor tells whose it is only while it honours the token: a refresh revokes
\* the access token before it.
WriteCapture ==
  /\ op.kind = "capture"
  /\ IF IsTip(op.tok)
     THEN lib' = [lib EXCEPT ![op.acct] = Held(op.tok)] /\ active' = op.acct
     ELSE UNCHANGED <<lib, active>>
  /\ op' = NoOp
  /\ Calm /\ UNCHANGED <<tip, auth, running, ex, viewed, mishap>>

\* saveAccounts writes the whole file as it was read, changed.
WriteLibrary ==
  /\ op.kind \in {"inactive", "retry", "sync", "remove"} /\ op.pc = "put"
  /\ lib' = op.file
  /\ op' = NoOp
  /\ Calm /\ UNCHANGED <<tip, auth, active, running, ex, viewed, mishap>>

\* A switch writes the library, and then auth.json.
WriteSwitch ==
  /\ op.kind = "switch" /\ op.pc = "put"
  /\ lib' = op.file
  /\ active' = op.acct
  /\ op' = [op EXCEPT !.pc = "auth"]
  /\ Calm /\ UNCHANGED <<tip, auth, running, ex, viewed, mishap>>

WriteAuth ==
  /\ op.kind = "switch" /\ op.pc = "auth"
  /\ auth' = [tok |-> op.file[op.acct].tok, fresh |-> op.file[op.acct].fresh]
  /\ op' = NoOp
  /\ Calm /\ UNCHANGED <<tip, lib, active, running, ex, viewed, mishap>>

-----------------------------------------------------------------------------
(* Sessions, ex-machina, logins, time and crashes.                           *)

Session ==
  /\ running' = ~running
  /\ running => ex = NoTok
  /\ Calm /\ UNCHANGED <<tip, auth, lib, active, ex, op, viewed, mishap>>

\* ex-machina refreshes an expired entry during a request.
ExRefresh ==
  /\ running /\ ex = NoTok
  /\ ~auth.fresh /\ IsTip(auth.tok) /\ tip[auth.tok[1]] < MaxGen
  /\ tip' = [tip EXCEPT ![auth.tok[1]] = @ + 1]
  /\ ex' = <<auth.tok[1], tip[auth.tok[1]] + 1>>
  /\ mishap' = (mishap \/ op.kind \in {"active", "switch"})
  /\ Calm /\ UNCHANGED <<auth, lib, active, running, op, viewed>>

ExWrite ==
  /\ ex # NoTok
  /\ auth' = [tok |-> ex, fresh |-> TRUE]
  /\ ex' = NoTok
  /\ Calm /\ UNCHANGED <<tip, lib, active, running, op, viewed, mishap>>

\* `opencode auth login`: a new chain for a, and out goes the entry there was.
Login(a) ==
  /\ Disturb
  /\ tip[a] < MaxGen
  /\ tip' = [tip EXCEPT ![a] = @ + 1]
  /\ auth' = [tok |-> <<a, tip[a] + 1>>, fresh |-> TRUE]
  /\ mishap' = (mishap \/ Races \/ op.kind \in {"active", "switch"}
                  \/ (auth.tok # NoTok /\ auth.tok[1] # a /\ lib[auth.tok[1]].tok # auth.tok))
  /\ UNCHANGED <<lib, active, running, ex, op, viewed>>

Expire ==
  /\ \/ auth.fresh /\ auth' = [auth EXCEPT !.fresh = FALSE] /\ UNCHANGED lib
     \/ \E a \in Account : lib[a].fresh /\ lib' = [lib EXCEPT ![a].fresh = FALSE] /\ UNCHANGED auth
  /\ Calm /\ UNCHANGED <<tip, active, running, ex, op, viewed, mishap>>

\* The process dies at an await.  A token minted and not written is lost; after
\* a switch half written the library and auth.json name different tokens.
Crash ==
  /\ Disturb
  /\ ~Free
  /\ op' = NoOp /\ viewed' = None
  /\ mishap' = (mishap \/ op.pc = "auth"
                  \/ (op.pc = "put" /\ IsTip(op.tok) /\ op.tok # auth.tok
                      /\ \A a \in Account : lib[a].tok # op.tok))
  /\ UNCHANGED <<tip, auth, lib, active, running, ex>>

-----------------------------------------------------------------------------
\* Every account has been captured; one of them is in auth.json.
ChainInit ==
  /\ tip = [a \in Account |-> 1]
  /\ lib = [a \in Account |-> Held(<<a, 1>>)]
  /\ active \in Account
  /\ auth = [tok |-> <<active, 1>>, fresh |-> TRUE]
  /\ running = FALSE /\ ex = NoTok /\ op = NoOp /\ viewed = None
  /\ trouble = 0 /\ mishap = FALSE

Write == WriteActive \/ WriteCapture \/ WriteLibrary \/ WriteSwitch \/ WriteAuth

ChainNext ==
  \/ KeepActive \/ Capture \/ Collect \/ SyncActive
  \/ \E a \in Account :
       KeepInactive(a) \/ RetryFlagged(a) \/ Switch(a) \/ Remove(a) \/ Login(a)
  \/ RefreshOk \/ RefreshFails \/ AnswerLost
  \/ Write
  \/ Session \/ ExRefresh \/ ExWrite \/ Expire \/ Crash

ChainSpec == ChainInit /\ [][ChainNext]_vars

-----------------------------------------------------------------------------
(* Properties.                                                               *)

\* The places a tip may be.
Kept(t) ==
  \/ auth.tok = t \/ ex = t
  \/ \E a \in Account : lib[a].tok = t
  \/ op.tok = t

\* No account of the library is lost: the one token the vendor still honours is
\* somewhere the plugin or OpenCode will use it from, whatever switches, renewals,
\* collections, sessions and logins do - but for the exposures `mishap` names.
TipKept == mishap \/ \A a \in Account : lib[a].tok # NoTok => Kept(Tip(a))

\* No account's token is ever filed under another account.
NoForeignToken == mishap \/ \A a \in Account : lib[a].tok[1] \in {a, None}

\* An account is branded as needing a login only when its record's token is dead.
BrandedTruly == \A a \in Account : lib[a].reauth => ~IsTip(lib[a].tok)
=============================================================================
