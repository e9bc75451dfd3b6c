------------------------------ MODULE OpenaiSlot ------------------------------
(* The openai entry of auth.json - the slot - has two writers.  codex,          *)
(* OpenCode's own provider, refreshes whatever chain the slot holds, lazily and *)
(* without a lock; the plugin captures the slot into the account library,       *)
(* switches it (openai-slot.ts) and keeps the other chains alive                *)
(* (openai-keepalive.ts, with its flag on).  Every use of a refresh token       *)
(* rotates it, and a replayed one kills the account.                            *)
EXTENDS Disturbance, FiniteSets, TLC

\* Disturbances: slots changed by somebody else, crashes, reads that fail.
CONSTANTS
  ApiKey,     \* what the slot holds when the user pasted a key
  Unreadable, \* what a read that failed says
  Allow,      \* which of "unseen", "nobody", "nocapture" and "blind" may happen
  MaxGen      \* bound: tokens minted per account

ASSUME SlotAssumption ==
  /\ {None, ApiKey, Unreadable} \cap (Account \cup [acct : Account, gen : 1 .. MaxGen]) = {}
  /\ None # ApiKey /\ None # Unreadable /\ ApiKey # Unreadable
  /\ MaxGen \in Nat \ {0} /\ MaxTrouble \in Nat

VARIABLES
  tip,      \* tip[a]: generation of the one refresh token the vendor honours
  slot,     \* auth.json's openai entry
  codex,    \* codex[a]: its request about a's chain, the token in it or from it
  lib,      \* lib[a]: generation of the token in a's record
  reauth,   \* records that need a login
  recent,   \* records whose lastActiveAt is within OPENAI_QUARANTINE_MS
  activeId, \* openaiActiveId
  tick,     \* accounts the keeper's pass has still to look at
  op,       \* the operation that holds the auth lock
  mishap    \* history: accounts whose tip was lost in a way the code accepts

slotVars == <<tip, slot, codex, lib, reauth, recent, activeId, tick, op, trouble, mishap>>

Gen == 1 .. MaxGen
Token == [acct : Account, gen : Gen]
Tok(a, g) == [acct |-> a, gen |-> g]
Quiet == [st |-> "quiet", gen |-> 0]
NoOp == [kind |-> "none", pc |-> "idle", acct |-> None, gen |-> 0, seen |-> None]

SlotTypeOK ==
  /\ tip \in [Account -> Gen]
  /\ slot \in Token \cup {None, ApiKey}
  /\ codex \in [Account -> [st : {"sent", "answered"}, gen : Gen] \cup {Quiet}]
  /\ lib \in [Account -> Gen]
  /\ reauth \subseteq Account /\ recent \subseteq Account
  /\ tick \subseteq Account /\ mishap \subseteq Account
  /\ activeId \in Account \cup {None}
  /\ op \in [kind : {"switch"}, pc : {"commit", "write", "book"}, acct : Account, gen : Gen,
             seen : Token \cup {None, ApiKey, Unreadable}]
            \cup [kind : {"keep"}, pc : {"post", "put"}, acct : Account, gen : Gen, seen : {None}]
            \cup {NoOp}
  /\ trouble \in 0 .. MaxTrouble

Free == op = NoOp

Occupied(entry) == entry \notin {None, ApiKey, Unreadable}

Occupant(entry) == IF Occupied(entry) THEN {entry.acct} ELSE {}

\* What readOpenaiSlotState answers: the slot, or that it could not be read.
ReadsSlot(read) == (read = slot /\ Calm) \/ (read = Unreadable /\ Disturb)

\* Is a's tip kept somewhere other than in the slot?
Elsewhere(a) ==
  \/ lib[a] = tip[a]
  \/ codex[a] = [st |-> "answered", gen |-> tip[a]]
  \/ op.kind = "keep" /\ op.pc = "put" /\ op.acct = a /\ op.gen = tip[a]

\* Whose tip does overwriting the slot lose?
LostWith(entry) == {a \in Account : entry = Tok(a, tip[a]) /\ ~Elsewhere(a)}

-----------------------------------------------------------------------------
(* codex and the rest of the world, none of whom takes the lock.             *)

\* Whom the plugin believes in the slot.
Believed == IF activeId = None THEN {} ELSE {activeId}

\* Unless Allow says "unseen", no account comes and goes without a trace: the slot
\* gets back to what the plugin believes only after a capture, and an account
\* that comes during a pass of the keeper or a switch stays until it was captured.
Traced(entry) ==
  \/ "unseen" \in Allow \/ Occupant(entry) = Occupant(slot)
  \/ /\ Occupant(entry) # Believed /\ op.pc # "write"
     /\ (tick = {} /\ op.kind # "switch") \/ Occupant(slot) \subseteq recent

CodexSends(a) ==
  /\ Occupied(slot) /\ slot.acct = a /\ codex[a] = Quiet
  /\ codex' = [codex EXCEPT ![a] = [st |-> "sent", gen |-> slot.gen]]
  /\ Calm /\ UNCHANGED <<tip, slot, lib, reauth, recent, activeId, tick, op, mishap>>

CodexAnswered(a) ==
  /\ codex[a].st = "sent"
  /\ IF codex[a].gen = tip[a] /\ tip[a] < MaxGen
     THEN /\ tip' = [tip EXCEPT ![a] = @ + 1]
          /\ codex' = [codex EXCEPT ![a] = [st |-> "answered", gen |-> tip[a] + 1]]
     ELSE codex' = [codex EXCEPT ![a] = Quiet] /\ UNCHANGED tip
  /\ Calm /\ UNCHANGED <<slot, lib, reauth, recent, activeId, tick, op, mishap>>

\* Whatever the slot holds by then.
CodexWrites(a) ==
  /\ codex[a].st = "answered" /\ Traced(Tok(a, codex[a].gen))
  /\ slot' = Tok(a, codex[a].gen)
  /\ codex' = [codex EXCEPT ![a] = Quiet]
  /\ mishap' = mishap \cup (LostWith(slot) \ {a})
  /\ Calm /\ UNCHANGED <<tip, lib, reauth, recent, activeId, tick, op>>

\* Somebody else - a login, another tool - puts another account's live chain in
\* the slot, or an api key, or nothing.  It is not one the plugin is posting.
Handover(entry) ==
  /\ Disturb /\ entry # slot /\ Traced(entry)
  /\ op.kind = "keep" => op.acct \notin Occupant(entry)
  /\ slot' = entry
  /\ mishap' = mishap \cup LostWith(slot)
  /\ UNCHANGED <<tip, codex, lib, reauth, recent, activeId, tick, op>>

\* The quarantine outlasts a request of codex, an operation, a pass of the keeper.
QuarantineEnds(a) ==
  /\ a \in recent /\ codex[a] = Quiet /\ tick = {} /\ Free
  /\ recent' = recent \ {a}
  /\ Calm /\ UNCHANGED <<tip, slot, codex, lib, reauth, activeId, tick, op, mishap>>

-----------------------------------------------------------------------------
(* absorbOpenaiSlot and captureInLock.                                       *)

\* Mutant: the occupant's record keeps the token it has.
AbsorbNothing(entry) == lib

\* The occupant's token goes into its record, whose flag is cleared.
Absorb(entry) == IF Occupied(entry) THEN [lib EXCEPT ![entry.acct] = entry.gen] ELSE lib

Evicted(read) == Occupant(read) # Believed

\* Mutant: only the account believed active is quarantined.
StampBelieved(read) ==
  recent \cup Occupant(read) \cup (IF Evicted(read) THEN {activeId} \cap Account ELSE {})

\* Every record is quarantined when the occupant is not the believed one.
Stamp(read) == IF Evicted(read) THEN Account ELSE recent \cup Occupant(read)

\* The slot is the truth, when it could be read.
Adopt(read) ==
  IF Occupied(read) THEN read.acct ELSE IF read = Unreadable THEN activeId ELSE None

Captured(read) ==
  /\ lib' = Absorb(read)
  /\ reauth' = reauth \ Occupant(read)
  /\ recent' = Stamp(read)
  /\ activeId' = Adopt(read)

\* onAuthJsonChanged.
Capture ==
  /\ Free
  /\ \E read \in {slot, Unreadable} : ReadsSlot(read) /\ Captured(read)
  /\ UNCHANGED <<tip, slot, codex, tick, op, mishap>>

\* With nobody believed active, a read that failed looks like a slot that has stayed
\* empty and nobody is quarantined: what a pass or a switch then goes on from may
\* happen only with "nobody".
Told(read) == read = Unreadable => activeId # None \/ "nobody" \in Allow

\* keeperTick captures first; with "nocapture", the capture may fail and the
\* pass goes on.
Tick ==
  /\ Free /\ tick = {}
  /\ tick' = Account
  /\ \/ \E read \in {slot, Unreadable} : ReadsSlot(read) /\ Told(read) /\ Captured(read)
     \/ "nocapture" \in Allow /\ Disturb /\ UNCHANGED <<lib, reauth, recent, activeId>>
  /\ UNCHANGED <<tip, slot, codex, op, mishap>>

-----------------------------------------------------------------------------
(* switchToOpenaiAccount.                                                    *)

SwitchBegins(b) ==
  /\ Free
  /\ \E read \in {slot, Unreadable} :
       /\ ReadsSlot(read) /\ Told(read) /\ Captured(read)
       /\ b \notin reauth'
       /\ op' = [kind |-> "switch", pc |-> "commit", acct |-> b, gen |-> lib'[b], seen |-> read]
  /\ UNCHANGED <<tip, slot, codex, tick, mishap>>

\* commitSlot's last read: a tip codex wrote since the capture is absorbed.
CatchUp(read) == IF read # op.seen THEN Absorb(read) ELSE lib

\* An api key is never overwritten.  With "blind", the read may fail, which
\* commitSlot takes for a file without entries.
CommitReads ==
  /\ op.kind = "switch" /\ op.pc = "commit"
  /\ \E read \in {slot, Unreadable} :
       /\ ReadsSlot(read) /\ (read = Unreadable => "blind" \in Allow)
       /\ op' = IF read = ApiKey THEN NoOp ELSE [op EXCEPT !.pc = "write", !.seen = read]
       /\ lib' = CatchUp(read)
       /\ recent' = IF read # op.seen THEN recent \cup Occupant(read) ELSE recent
       /\ reauth' = IF read # op.seen THEN reauth \ Occupant(read) ELSE reauth
  /\ UNCHANGED <<tip, slot, codex, activeId, tick, mishap>>

\* Lost for good: what codex writes between the last read and this one, which
\* the code accepts; what a read that failed did not see; and, as the next capture
\* copies the slot, the tip of a target that was rotated in the slot itself after
\* its record was read.
CommitWrites ==
  /\ op.kind = "switch" /\ op.pc = "write"
  /\ op' = [op EXCEPT !.pc = "book"]
  /\ slot' = Tok(op.acct, op.gen)
  /\ mishap' = mishap \cup (IF op.seen # slot THEN LostWith(slot) ELSE {})
                     \cup (IF op.gen # lib[op.acct] THEN {op.acct} ELSE {})
  /\ Calm /\ UNCHANGED <<tip, codex, lib, reauth, recent, activeId, tick>>

SwitchEnds ==
  /\ op.kind = "switch" /\ op.pc = "book"
  /\ op' = NoOp /\ activeId' = op.acct
  /\ Calm /\ UNCHANGED <<tip, slot, codex, lib, reauth, recent, tick, mishap>>

-----------------------------------------------------------------------------
(* keepOpenaiAccountFresh.                                                   *)

\* INV-O1.
Allowed(a, read) ==
  /\ read # Unreadable
  /\ read # Tok(a, lib[a]) /\ a \notin Occupant(read)
  /\ a \notin recent /\ a \notin reauth

KeepBegins(a) ==
  /\ Free /\ a \in tick
  /\ tick' = tick \ {a}
  /\ \E read \in {slot, Unreadable} :
       /\ ReadsSlot(read)
       /\ op' = IF Allowed(a, read)
                THEN [NoOp EXCEPT !.kind = "keep", !.pc = "post", !.acct = a, !.gen = lib[a]]
                ELSE NoOp
  /\ UNCHANGED <<tip, slot, codex, lib, reauth, recent, activeId, mishap>>

\* Rotated; dead, which flags the record; or the vendor did not say.
KeepAnswered ==
  /\ op.kind = "keep" /\ op.pc = "post"
  /\ \/ /\ op.gen = tip[op.acct] /\ tip[op.acct] < MaxGen
        /\ tip' = [tip EXCEPT ![op.acct] = @ + 1]
        /\ op' = [op EXCEPT !.pc = "put", !.gen = @ + 1]
        /\ UNCHANGED reauth
     \/ /\ op.gen # tip[op.acct]
        /\ reauth' = reauth \cup {op.acct} /\ op' = NoOp /\ UNCHANGED tip
     \/ op' = NoOp /\ UNCHANGED <<tip, reauth>>
  /\ Calm /\ UNCHANGED <<slot, codex, lib, recent, activeId, tick, mishap>>

KeepEnds ==
  /\ op.kind = "keep" /\ op.pc = "put"
  /\ lib' = [lib EXCEPT ![op.acct] = op.gen]
  /\ reauth' = reauth \ {op.acct}
  /\ op' = NoOp
  /\ Calm /\ UNCHANGED <<tip, slot, codex, recent, activeId, tick, mishap>>

\* The process dies, and the lock goes stale.
Crash ==
  /\ op # NoOp /\ Disturb
  /\ op' = NoOp /\ tick' = {}
  /\ mishap' = IF op.kind = "keep" /\ op.pc = "put" THEN mishap \cup {op.acct} ELSE mishap
  /\ UNCHANGED <<tip, slot, codex, lib, reauth, recent, activeId>>

-----------------------------------------------------------------------------
SlotInit ==
  /\ tip = [a \in Account |-> 1] /\ lib = tip
  /\ \E a \in Account : slot = Tok(a, 1) /\ activeId = a /\ recent = {a}
  /\ codex = [a \in Account |-> Quiet]
  /\ reauth = {} /\ tick = {} /\ mishap = {}
  /\ op = NoOp /\ trouble = 0

SlotWorks == CommitReads \/ CommitWrites \/ SwitchEnds \/ KeepAnswered \/ KeepEnds

SlotNext ==
  \/ \E a \in Account :
       \/ CodexSends(a) \/ CodexAnswered(a) \/ CodexWrites(a) \/ QuarantineEnds(a)
       \/ Handover(Tok(a, tip[a])) \/ SwitchBegins(a) \/ KeepBegins(a)
  \/ Handover(None) \/ Handover(ApiKey)
  \/ Capture \/ Tick \/ SlotWorks \/ Crash

\* The accounts are alike.
SlotSymmetry == Permutations(Account)

SlotSpec == SlotInit /\ [][SlotNext]_slotVars

-----------------------------------------------------------------------------
(* Properties.                                                               *)

\* INV-O1: the plugin never posts a chain that codex is posting, nor a token that
\* is not the chain's tip - unless that tip was lost before.
NeverTwoRefreshers ==
  [][op.kind = "none" /\ op'.kind = "keep" /\ op'.acct \notin mishap =>
       codex[op'.acct] = Quiet /\ op'.gen = tip[op'.acct]]_slotVars

\* INV-O2: the tip of every chain is kept somewhere, whoever overwrites the slot.
TipNeverLost ==
  \A a \in Account \ mishap : slot = Tok(a, tip[a]) \/ Elsewhere(a)

\* A switch puts no token in the slot that the target's record has outlived, for
\* codex to replay (switchToOpenaiAccount's comment on its order).
WritesTheNewest ==
  [][op.pc = "write" /\ op'.pc = "book" => op.gen = lib[op.acct]]_slotVars

=============================================================================
