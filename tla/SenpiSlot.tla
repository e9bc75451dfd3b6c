------------------------------ MODULE SenpiSlot ------------------------------
(* The senpi lane, seen from one host of a machine that runs several: each    *)
(* publishes a lease for the same slot in its own environment.  They share    *)
(* the lease cache, the pin, the slot's lock and senpi's auth.json, where a   *)
(* refused request leaves a block on the slot - never on the account whose    *)
(* token was in it.  The other hosts are an environment.                      *)
EXTENDS PoolMaster

\* Disturbances: time, the vendor, the operator, the other hosts.
CONSTANT MaxConsecutive \* MAX_CONSECUTIVE_RESUMES

ASSUME SenpiAssumption == MaxConsecutive \in Nat /\ MaxTrouble \in Nat

VARIABLES
  cache,     \* the slot's entry in senpi-lease-cache.json
  block,     \* the slot's block in senpi's auth.json; `of`, `by`: whose fault, stamped where
  lock,      \* who has the slot's lock
  slotPin,   \* the slot's pinned account
  env,       \* token in the environment
  written,   \* a lease is remembered (createEnvSlot's `written`)
  due,       \* it is inside its renewal window
  occupant,  \* the account last published (`live`, heldAccountId)
  fresh,     \* that account moved in less than SLOT_ADOPTION_GRACE_MS ago
  dead,      \* deadAccess
  throttled, \* throttledUntil, the entries not lapsed
  tick,      \* the keeper's tick
  turn,      \* the session's turn, and autoResume's counter
  panel      \* the panel's switch under way

shared    == <<cache, block, lock, slotPin>>
published == <<env, written, due, occupant, fresh>>
books     == <<dead, throttled>>
work      == <<tick, turn, panel>>
senpiVars == <<world, shared, published, books, work, trouble>>

NoCache == [tok |-> NoTok, due |-> FALSE]
NoBlock == [why |-> "none", of |-> None, by |-> "here", over |-> FALSE]
NoTick  == [at |-> "none", joined |-> FALSE, named |-> None, avoid |-> {}]
NoPanel == [acct |-> None, pinned |-> FALSE]
Lease(t) == [tok |-> t, due |-> FALSE]

SlotTypeOK ==
  /\ WorldTypeOK
  /\ trouble \in 0 .. MaxTrouble
  /\ cache \in [tok : Token \cup {NoTok}, due : BOOLEAN]
  /\ block \in [why : {"none", "auth_error", "rate_limit"}, of : Account \cup {None},
                by : {"here", "elsewhere"}, over : BOOLEAN]
  /\ lock \in {"free", "tick", "panel", "elsewhere"} /\ slotPin \in Account \cup {None}
  /\ env \in Token \cup {NoTok}
  /\ {written, due, fresh} \subseteq BOOLEAN
  /\ occupant \in Account \cup {None}
  /\ dead \subseteq Token /\ throttled \subseteq Account
  /\ tick \in [at : {"none", "asking", "excluding", "sleep"}, joined : BOOLEAN,
               named : Account \cup {None}, avoid : SUBSET Account]
  /\ turn \in [pc : {"rest", "prelude", "following", "audit", "lease", "sending", "sent",
                     "failed", "relet"},
               tok : Token \cup {NoTok}, to : [tok : Token \cup {NoTok}, due : BOOLEAN],
               before : Account \cup {None}, consecutive : 0 .. MaxConsecutive, injected : Nat]
  /\ panel \in [acct : Account \cup {None}, pinned : BOOLEAN]

\* A cold start: nothing cached, and the startup lease is a tick like any other.
SlotInit ==
  /\ WorldInit
  /\ cache = NoCache /\ block = NoBlock /\ lock = "free" /\ slotPin = None
  /\ env = NoTok /\ written = FALSE /\ due = FALSE /\ occupant = None /\ fresh = FALSE
  /\ dead = {} /\ throttled = {}
  /\ tick = NoTick /\ panel = NoPanel /\ trouble = 0
  /\ turn = [pc |-> "rest", tok |-> NoTok, to |-> NoCache, before |-> None,
             consecutive |-> 0, injected |-> 0]

TurnAt(pc) == turn.pc = pc
Goto(pc)   == turn' = [turn EXCEPT !.pc = pc]
Rests      == turn' = [turn EXCEPT !.pc = "rest", !.tok = NoTok, !.consecutive = 0]

-----------------------------------------------------------------------------
(* Publishing a lease: the environment, the cache, and a block it may drop.  *)

\* blockClearScope: a sticky auth_error always, any other if the account changes.
ClearScope(a) == {"auth_error"} \cup (IF occupant # a THEN {"rate_limit"} ELSE {})

Unblocked(a) == IF block.why \in ClearScope(a) THEN NoBlock ELSE block

\* envSlot.writeLease: a renewal of the same account does not move it in again.
WriteEnv(l) ==
  /\ env' = l.tok /\ written' = TRUE /\ due' = l.due
  /\ occupant' = l.tok[1]
  /\ fresh' = (fresh \/ occupant # l.tok[1])

WriteCache(l) == cache' = l

Publish(l) == WriteEnv(l) /\ WriteCache(l) /\ block' = Unblocked(l.tok[1])

SetPin(p) == slotPin' = p

-----------------------------------------------------------------------------
(* The renewal tick: declined while somebody else has the slot; otherwise the *)
(* cached lease is adopted or the master asked.                               *)

RenewalDue == ~written \/ due

AdoptableWhileThrottled(pin) ==
  cache.tok # NoTok /\ ~cache.due /\ pin \in {None, cache.tok[1]} /\ cache.tok \notin dead

\* adoptableLease, for a request that names `pin` or nobody.
Adoptable(pin) ==
  /\ cache.tok # NoTok /\ ~cache.due
  /\ pin \in {None, cache.tok[1]}
  /\ cache.tok \notin dead
  /\ cache.tok[1] \notin throttled

Waiting == TurnAt("lease") \/ TurnAt("relet")

\* Where a turn that waited for a tick goes on: to the request, or, after a
\* failed one, to be resumed if the slot has moved to another account.
TurnGoesOn ==
  IF TurnAt("lease") THEN Goto("sending")
  ELSE IF occupant' # turn.before
       THEN turn' = [turn EXCEPT !.pc = "prelude", !.before = None,
                                 !.consecutive = @ + 1, !.injected = @ + 1]
       ELSE turn' = [turn EXCEPT !.pc = "rest", !.before = None, !.consecutive = 0]

TickDone(joined) == IF joined THEN TurnGoesOn ELSE UNCHANGED turn

\* The interval ticks, or a turn does and joins its own tick.
Starts(joined) == tick.at = "none" /\ RenewalDue /\ lock = "free" /\ (joined => Waiting)

AdoptCached(joined) ==
  /\ Starts(joined) /\ Adoptable(slotPin)
  /\ Publish(cache)
  /\ TickDone(joined)
  /\ UNCHANGED <<world, lock, slotPin, books, tick, panel, trouble>>

AskMaster(joined) ==
  /\ Starts(joined) /\ ~Adoptable(slotPin)
  /\ lock' = "tick"
  /\ tick' = [at |-> "asking", joined |-> joined, named |-> slotPin, avoid |-> throttled]
  /\ UNCHANGED <<world, cache, block, slotPin, published, books, turn, panel, trouble>>

\* Not due, declined, or the interval is ticking: the turn goes on as it is.
GoesWithout ==
  /\ Waiting
  /\ IF tick.at = "none" THEN ~RenewalDue \/ lock # "free" ELSE ~tick.joined
  /\ UNCHANGED <<world, shared, published, books, tick, panel, trouble>>
  /\ TurnGoesOn

Landed(l) ==
  /\ Publish(l)
  /\ lock' = "free" /\ tick' = NoTick
  /\ TickDone(tick.joined)

\* The backoff is slept through inside the tick, and by the turn that joined it.
TickFails ==
  /\ lock' = "free" /\ tick' = [tick EXCEPT !.at = "sleep"]
  /\ UNCHANGED <<cache, block, slotPin, published, turn>>

AskAgain(at, avoid) ==
  /\ tick' = [tick EXCEPT !.at = at, !.named = None, !.avoid = avoid]
  /\ UNCHANGED <<cache, block, lock, published, turn>>

\* A refusal gives the pin up, and the tick leases once more for anybody: the
\* throttles as they are by now, and the cached lease first.
Unpinned ==
  /\ SetPin(None)
  /\ IF Adoptable(None) THEN Landed(cache) ELSE AskAgain("asking", throttled)

TickAnswered ==
  /\ tick.at \in {"asking", "excluding"}
  /\ \E ans \in LeaseAnswers("prelease", occupant, tick.named, tick.avoid) :
       CASE ans.kind = "lease" /\ Current(ans.acct) \in dead ->
              IF tick.at = "asking"
              THEN AskAgain("excluding", tick.avoid \cup {ans.acct}) /\ SetPin(slotPin)
              ELSE TickFails
         [] ans.kind = "lease" -> Landed(Lease(Current(ans.acct))) /\ SetPin(slotPin)
         [] ans.kind = "refused" -> Unpinned
         [] OTHER -> TickFails
  /\ UNCHANGED <<world, books, panel, trouble>>

Wakes ==
  /\ tick.at = "sleep"
  /\ tick' = NoTick
  /\ UNCHANGED <<world, shared, published, books, panel, trouble>>
  /\ TickDone(tick.joined)

-----------------------------------------------------------------------------
(* A turn: follow a switch made elsewhere, audit the block, lease, send.     *)

UserTurn ==
  /\ TurnAt("rest")
  /\ turn' = [turn EXCEPT !.pc = "prelude", !.injected = 0]
  /\ UNCHANGED <<world, shared, published, books, tick, panel, trouble>>

\* detectExternalSwitches: what is to be followed is read before the lock is had.
Prelude ==
  /\ TurnAt("prelude")
  /\ IF cache.tok # NoTok /\ occupant \notin {None, cache.tok[1]}
     THEN turn' = [turn EXCEPT !.pc = "following", !.to = cache]
     ELSE Goto("audit")
  /\ UNCHANGED <<world, shared, published, books, tick, panel, trouble>>

FollowExternal ==
  /\ TurnAt("following")
  /\ IF lock = "free" THEN Publish(turn.to) ELSE UNCHANGED <<published, cache, block>>
  /\ turn' = [turn EXCEPT !.pc = "audit", !.to = NoCache]
  /\ UNCHANGED <<world, lock, slotPin, books, tick, panel, trouble>>

BelievedAtOnce == block.why # "none"

\* A block is believed unless the occupant has only just moved in.
Believed == block.why # "none" /\ ~fresh

\* Once per block and account; not waited for, and perhaps not believed.
ReportLimit(a) == ReportLands(a)

Invalidate(poison) ==
  /\ written' = FALSE
  /\ dead' = IF poison /\ written THEN dead \cup {env} ELSE dead

AuditBlocks ==
  /\ block' = IF block.why = "auth_error" \/ ~Believed THEN NoBlock ELSE block
  /\ IF Believed THEN Invalidate(block.why = "auth_error") ELSE UNCHANGED <<written, dead>>
  /\ IF Believed /\ block.why = "rate_limit" /\ occupant # None
     THEN /\ throttled' = IF block.over THEN throttled ELSE throttled \cup {occupant}
          /\ ReportLimit(occupant)
     ELSE UNCHANGED <<throttled, cooling>>
  /\ UNCHANGED <<minted, revoked, walled, cache, lock, slotPin, env, due, occupant, fresh,
                 tick, panel, trouble>>

TurnAudit == TurnAt("audit") /\ AuditBlocks /\ Goto("lease")

\* senpi selects the slot unless it is blocked; without a token it has none.
Send ==
  /\ TurnAt("sending")
  /\ IF env = NoTok \/ (block.why # "none" /\ ~block.over)
     THEN Goto("failed") /\ UNCHANGED block
     ELSE turn' = [turn EXCEPT !.pc = "sent", !.tok = env] /\ block' = NoBlock
  /\ UNCHANGED <<world, cache, lock, slotPin, published, books, tick, panel, trouble>>

Refusal(t) ==
  IF ~Works(t) THEN "auth_error" ELSE IF t[1] \in walled THEN "rate_limit" ELSE "none"

Stamp(t, by) == block' = [why |-> Refusal(t), of |-> t[1], by |-> by, over |-> FALSE]

\* A refused request leaves a block, though senpi may score a dead token's refusal
\* as a completed turn; a completed turn re-arms autoResume.
Result ==
  /\ TurnAt("sent")
  /\ \/ Refusal(turn.tok) # "rate_limit" /\ Rests /\ UNCHANGED block
     \/ Refusal(turn.tok) # "none" /\ Goto("failed") /\ Stamp(turn.tok, "here")
  /\ UNCHANGED <<world, cache, lock, slotPin, published, books, tick, panel, trouble>>

SettleForEver ==
  /\ TurnAt("failed")
  /\ AuditBlocks
  /\ IF block.why = "none" THEN Rests
     ELSE turn' = [turn EXCEPT !.pc = "relet", !.before = occupant, !.tok = NoTok]

\* settle: recover only from a block of the slot, and so many times in a row.
Settle ==
  /\ TurnAt("failed")
  /\ AuditBlocks
  /\ IF block.why = "none" \/ turn.consecutive >= MaxConsecutive THEN Rests
     ELSE turn' = [turn EXCEPT !.pc = "relet", !.before = occupant, !.tok = NoTok]

-----------------------------------------------------------------------------
(* The panel's switch, time, the vendor and the other hosts.                 *)

BeginSwitch(a, pinned) ==
  /\ Disturb /\ panel = NoPanel
  /\ IF lock = "free"
     THEN /\ lock' = "panel" /\ panel' = [acct |-> a, pinned |-> pinned]
          /\ SetPin(IF pinned THEN a ELSE None)
     ELSE SetPin(None) /\ UNCHANGED <<lock, panel>>
  /\ UNCHANGED <<world, cache, block, published, books, tick, turn>>

SwitchAnswered ==
  /\ panel # NoPanel
  /\ \E ans \in LeaseAnswers("prelease", None, panel.acct, {}) :
       IF ans.kind = "lease"
       THEN Publish(Lease(Current(ans.acct))) /\ SetPin(slotPin)
       ELSE /\ SetPin(IF panel.pinned THEN None ELSE slotPin)
            /\ UNCHANGED <<published, cache, block>>
  /\ lock' = "free" /\ panel' = NoPanel
  /\ UNCHANGED <<world, books, tick, turn, trouble>>

LeaseDue ==
  /\ Disturb /\ written /\ ~due
  /\ due' = TRUE
  /\ cache' = [cache EXCEPT !.due = @ \/ cache.tok = env]
  /\ UNCHANGED <<world, block, lock, slotPin, env, written, occupant, fresh, books, work>>

\* The grace is wall clock: it waits for no request.
GraceLapses ==
  /\ fresh /\ fresh' = FALSE
  /\ UNCHANGED <<world, shared, env, written, due, occupant, books, work, trouble>>

\* The deadline of a block, the vendor's reset, and of the throttles it gave rise to.
DeadlinePasses ==
  /\ (throttled \cup {block.of}) \cap walled = {}
  /\ throttled # {} \/ (block.why = "rate_limit" /\ ~block.over)
  /\ block' = IF block.why = "rate_limit" THEN [block EXCEPT !.over = TRUE] ELSE block
  /\ throttled' = {}
  /\ UNCHANGED <<world, cache, lock, slotPin, published, dead, work, trouble>>

\* A new process starts warm, from the cache; the lock of the old one is stolen.
HostRestarts ==
  /\ Disturb
  /\ env' = cache.tok /\ due' = cache.due /\ occupant' = cache.tok[1]
  /\ written' = (cache.tok # NoTok) /\ fresh' = (cache.tok # NoTok)
  /\ block' = IF block.why = "auth_error" /\ cache.tok # NoTok THEN NoBlock
              ELSE [block EXCEPT !.by = IF block.why = "none" THEN "here" ELSE "elsewhere"]
  /\ dead' = {} /\ throttled' = {}
  /\ lock' = IF lock = "elsewhere" THEN lock ELSE "free"
  /\ tick' = NoTick /\ panel' = NoPanel
  /\ turn' = [turn EXCEPT !.pc = "rest", !.tok = NoTok, !.to = NoCache, !.before = None,
                          !.consecutive = 0]
  /\ UNCHANGED <<world, cache, slotPin>>

ElsewhereStarts ==
  /\ Disturb /\ lock = "free"
  /\ lock' = "elsewhere"
  /\ UNCHANGED <<world, cache, block, slotPin, published, books, work>>

\* Another host publishes what the master gave it, pinned or not, or fails.
ElsewhereEnds ==
  /\ lock = "elsewhere" /\ lock' = "free"
  /\ \/ UNCHANGED <<cache, block>> /\ slotPin' \in {slotPin, None}
     \/ \E a \in Account \ cooling :
          /\ cache' = Lease(Current(a))
          /\ block' \in {NoBlock} \cup (IF block.why = "rate_limit" THEN {block} ELSE {})
          /\ slotPin' \in {slotPin, None, a}
  /\ UNCHANGED <<world, published, books, work, trouble>>

\* A request of another host, sent with the account that host holds, is refused.
ElsewhereRefused(a) ==
  /\ Disturb /\ Refusal(Current(a)) # "none"
  /\ Stamp(Current(a), "elsewhere")
  /\ UNCHANGED <<world, cache, lock, slotPin, published, books, work>>

\* Quota and cooldowns run out; a revoked token is replaced when it expires.
Mends(a) == QuotaReturns(a) \/ CooldownLapses(a) \/ (a \in revoked /\ RotateToken(a))

\* Bound: a token is revoked only while another may be minted.
Spoils(a) == minted[a] < MaxGen /\ RevokeToken(a)

Vendor ==
  /\ \/ Disturb /\ \E a \in Account : RotateToken(a) \/ FillQuota(a) \/ Spoils(a)
     \/ UNCHANGED trouble /\ \E a \in Account : Mends(a)
  /\ UNCHANGED <<shared, published, books, work>>

TurnStep ==
  \/ AdoptCached(TRUE) \/ AskMaster(TRUE) \/ GoesWithout
  \/ Prelude \/ FollowExternal \/ TurnAudit \/ Send \/ Result \/ Settle

TickStarts == AdoptCached(FALSE) \/ AskMaster(FALSE)

SlotNext ==
  \/ TurnStep \/ UserTurn \/ TickStarts \/ TickAnswered \/ Wakes \/ SwitchAnswered
  \/ LeaseDue \/ GraceLapses \/ DeadlinePasses \/ HostRestarts
  \/ ElsewhereStarts \/ ElsewhereEnds \/ Vendor
  \/ \E a \in Account : ElsewhereRefused(a) \/ \E pinned \in BOOLEAN : BeginSwitch(a, pinned)

SlotSpec == SlotInit /\ [][SlotNext]_senpiVars

TickReached(at) == tick.at = at /\ TickAnswered /\ tick'.at # "sleep"

FairSlotSpec ==
  /\ SlotSpec
  /\ WF_senpiVars(TurnStep) /\ WF_senpiVars(UserTurn)
  /\ WF_senpiVars(TickAnswered) /\ WF_senpiVars(Wakes) /\ SF_senpiVars(TickStarts)
  /\ SF_senpiVars(TickReached("asking")) /\ SF_senpiVars(TickReached("excluding"))
  /\ WF_senpiVars(SwitchAnswered) /\ WF_senpiVars(ElsewhereEnds)
  /\ WF_senpiVars(GraceLapses)

-----------------------------------------------------------------------------
\* A session left alone stops by itself: between two turns of the operator the
\* pool injects no more resumes than the ladder has rungs, whatever accounts fail
\* (autoResume's counter is re-armed on many paths, none of which may resume).
ResumesBounded == turn.injected <= MaxConsecutive

\* A request sent with another account's token is unanswered, or its failure is
\* unaudited, although the occupant's grace is over.
Outlived == ~fresh /\ turn.tok[1] \notin {None, occupant}

\* A limit this host ran into is held against the account that ran into it, never
\* against the one that has moved into the slot since - except by the audit of a
\* turn that has outlived the newcomer's grace (auditBlocks has only the grace to
\* tell whose a block is).
CondemnsTheGuilty ==
  [][block.by = "here" /\ ~Outlived => throttled' \ throttled \subseteq {block.of}]_senpiVars

\* Whatever was refused and wherever, the operator's turns get back to a slot that
\* is not blocked and holds an account that serves, without waiting for a deadline:
\* it is enough that the pool has one account to give, that no pin names another and
\* that senpi does not for ever score a dead token's refusals as completed turns
\* (the defect that senpi-extension.ts reports of it: no block, and the next turn
\* retries the same dead lease).
Serves == block.why = "none" /\ env # NoTok /\ Works(env) /\ env[1] \notin walled

ToGive ==
  \E a \in Account \ (walled \cup cooling \cup throttled) :
    Works(Current(a)) /\ Current(a) \notin dead

Overlooked == Result /\ ~Works(turn.tok) /\ turn'.pc = "rest"

Recovers ==
  <>[](ToGive /\ slotPin = None) /\ <>[][~Overlooked]_senpiVars => []<>Serves

=============================================================================
