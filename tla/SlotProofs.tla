----------------------------- MODULE SlotProofs -----------------------------
(***************************************************************************)
(* Theorems about local mode's two active parties: the openai slot         *)
(* (OpenaiSlot) and the automatic switch (SessionSwitch), for any accounts *)
(* and sessions and any number of disturbances.                            *)
(*                                                                         *)
(* The slot's argument follows each chain's tip.  An account whose tip was *)
(* not lost by a mishap has it in the slot or elsewhere, codex posts tips  *)
(* only, and an older token is in the slot only until codex has written    *)
(* the newer one.  Quarantined says why the keep-alive may post: whoever   *)
(* codex may still be posting is quarantined or in the slot, unless the    *)
(* next capture is about to see that the slot is not as it was left.       *)
(***************************************************************************)
EXTENDS OpenaiSlot, SessionSwitch, TLAPS

-----------------------------------------------------------------------------
(* The inductive invariant.                                                  *)

\* Has codex the tip of a's chain in hand?
AnsweredTip(a) == codex[a] = [st |-> "answered", gen |-> tip[a]]

\* codex posts only tips, an older token is in the slot only until codex has
\* written the newer one, and the tip is somewhere.
Safe(a) ==
  /\ slot \in Token /\ slot.acct = a => slot.gen = tip[a] \/ AnsweredTip(a)
  /\ codex[a] # Quiet => codex[a].gen = tip[a]
  /\ slot = Tok(a, tip[a]) \/ Elsewhere(a)

ChainsSafe == \A a \in Account : a \notin mishap => Safe(a)

\* While the plugin posts, or holds the answer, the account is its own.
KeepsAlone ==
  op.kind = "keep" =>
    /\ op.acct \notin Occupant(slot) /\ codex[op.acct] = Quiet
    /\ op.acct \notin mishap =>
         op.gen = tip[op.acct] /\ (op.pc = "post" => lib[op.acct] = op.gen)

\* What a switch has seen of the slot is on record and quarantined.
SeenKept ==
  op.kind = "switch" /\ op.pc \in {"commit", "write"} =>
    /\ op.seen \in Token => lib[op.seen.acct] = op.seen.gen
    /\ Occupant(op.seen) \subseteq recent
    /\ op.pc = "write" => Occupant(op.seen) = Occupant(slot)

\* An account codex may still be posting is quarantined or in the slot, or the
\* next capture will see that the slot is not as it was left.
ToBeMissed == tick = {} /\ op.kind # "switch" /\ Occupant(slot) # Believed

Quarantined ==
  ToBeMissed \/ \A a \in Account : codex[a] # Quiet => a \in recent \cup Occupant(slot)

SlotIInv == SlotTypeOK /\ ChainsSafe /\ KeepsAlone /\ SeenKept /\ Quarantined

\* The world that the properties are about: nothing that Allow names happens.
Tame == Allow = {}

-----------------------------------------------------------------------------
\* What an entry of auth.json says of its occupant.
LEMMA EntryFacts ==
  ASSUME NEW entry \in Token \cup {None, ApiKey, Unreadable}
  PROVE  /\ Occupied(entry) <=> entry \in Token
         /\ entry \in Token => entry.acct \in Account /\ entry.gen \in Gen
         /\ entry \in Token => Occupant(entry) = {entry.acct}
         /\ entry \notin Token => Occupant(entry) = {}
         /\ Occupant(entry) \subseteq Account
  BY SlotAssumption DEF Occupied, Occupant, Token, Gen

LEMMA TokFacts ==
  ASSUME NEW a \in Account, NEW g \in Gen
  PROVE  /\ Tok(a, g) \in Token
         /\ Tok(a, g).acct = a /\ Tok(a, g).gen = g
         /\ Occupant(Tok(a, g)) = {a} /\ Occupied(Tok(a, g))
         /\ \A entry \in Token : entry = Tok(a, g) <=> entry.acct = a /\ entry.gen = g
  BY SlotAssumption DEF Tok, Token, Gen, Occupant, Occupied

LEMMA CodexFacts ==
  ASSUME SlotTypeOK, NEW a \in Account
  PROVE  /\ codex[a] = Quiet \/ (codex[a].gen \in Gen /\ codex[a].st \in {"sent", "answered"})
         /\ codex[a] = Quiet => codex[a].st = "quiet"
         /\ codex[a] # Quiet /\ codex[a].st = "answered" =>
              codex[a] = [st |-> "answered", gen |-> codex[a].gen]
         /\ tip[a] \in Gen /\ lib[a] \in Gen
  BY DEF SlotTypeOK, Quiet

LEMMA OpFacts ==
  ASSUME SlotTypeOK
  PROVE  /\ op.kind \in {"none", "switch", "keep"}
         /\ op.kind = "none" <=> op = NoOp
         /\ op.kind # "none" => op.acct \in Account /\ op.gen \in Gen
         /\ op.kind = "switch" => op.pc \in {"commit", "write", "book"}
                                  /\ op.seen \in Token \cup {None, ApiKey, Unreadable}
         /\ op.kind = "keep" => op.pc \in {"post", "put"}
  BY DEF SlotTypeOK, NoOp

LEMMA InitSound == SlotInit => SlotIInv
<1> SUFFICES ASSUME SlotInit PROVE SlotIInv
  OBVIOUS
<1>1. 1 \in Gen
  BY SlotAssumption DEF Gen
<1>2. PICK a \in Account : slot = Tok(a, 1) /\ activeId = a /\ recent = {a}
  BY DEF SlotInit
<1>3. SlotTypeOK
  BY <1>1, <1>2, TokFacts, SlotAssumption DEF SlotInit, SlotTypeOK
<1>4. ChainsSafe
  BY <1>1, <1>2, TokFacts DEF SlotInit, ChainsSafe, Safe, Elsewhere
<1>5. KeepsAlone /\ SeenKept /\ Quarantined
  BY DEF SlotInit, KeepsAlone, SeenKept, Quarantined, NoOp
<1> QED
  BY <1>3, <1>4, <1>5 DEF SlotIInv

-----------------------------------------------------------------------------
(* codex and the rest of the world.                                          *)

LEMMA CodexSendsKeeps ==
  ASSUME SlotIInv, NEW a \in Account, CodexSends(a)
  PROVE  SlotIInv'
<1>1. SlotTypeOK
  BY DEF SlotIInv
<1>2. slot \in Token /\ slot.acct = a /\ slot.gen \in Gen /\ Occupant(slot) = {a}
  BY <1>1, EntryFacts DEF CodexSends, SlotTypeOK
<1>3. /\ codex[a] = Quiet
      /\ codex' = [codex EXCEPT ![a] = [st |-> "sent", gen |-> slot.gen]]
      /\ UNCHANGED <<tip, slot, lib, reauth, recent, activeId, tick, op, mishap, trouble>>
  BY DEF CodexSends, Calm
<1>4. /\ codex'[a] = [st |-> "sent", gen |-> slot.gen]
      /\ \A x \in Account : x # a => codex'[x] = codex[x]
  BY <1>1, <1>3 DEF SlotTypeOK
<1>5. SlotTypeOK'
  BY <1>1, <1>2, <1>3 DEF SlotTypeOK
<1>6. ChainsSafe'
  <2> SUFFICES ASSUME NEW x \in Account, x \notin mishap PROVE Safe(x)'
    BY <1>3 DEF ChainsSafe
  <2>1. Safe(x)
    BY DEF SlotIInv, ChainsSafe
  <2>2. x # a => Safe(x)'
    BY <2>1, <1>3, <1>4 DEF Safe, AnsweredTip, Elsewhere
  <2>3. x = a => ~AnsweredTip(a)
    BY <1>3 DEF AnsweredTip, Quiet
  <2>4. x = a => Safe(a)'
    BY <2>1, <2>3, <1>2, <1>3, <1>4 DEF Safe, Elsewhere, AnsweredTip
  <2> QED
    BY <2>2, <2>4
<1>7. KeepsAlone'
  BY <1>1, <1>2, <1>3, <1>4, OpFacts DEF SlotIInv, KeepsAlone
<1>8. SeenKept'
  BY <1>3 DEF SlotIInv, SeenKept
<1>9. Quarantined'
  BY <1>2, <1>3, <1>4 DEF SlotIInv, Quarantined, ToBeMissed, Believed
<1> QED
  BY <1>5, <1>6, <1>7, <1>8, <1>9 DEF SlotIInv

LEMMA CodexAnsweredKeeps ==
  ASSUME SlotIInv, NEW a \in Account, CodexAnswered(a)
  PROVE  SlotIInv'
<1>1. SlotTypeOK
  BY DEF SlotIInv
<1>2. codex[a].st = "sent" /\ codex[a] # Quiet /\ ~AnsweredTip(a)
  BY DEF CodexAnswered, Quiet, AnsweredTip
<1>3. UNCHANGED <<slot, lib, reauth, recent, activeId, tick, op, mishap, trouble>>
  BY DEF CodexAnswered, Calm
<1>4. \A x \in Account : x # a => tip'[x] = tip[x] /\ codex'[x] = codex[x]
  BY <1>1 DEF CodexAnswered, SlotTypeOK
<1>5. \/ tip[a] < MaxGen /\ tip'[a] = tip[a] + 1 /\ codex'[a] = [st |-> "answered", gen |-> tip'[a]]
      \/ tip'[a] = tip[a] /\ codex'[a] = Quiet
  BY <1>1 DEF CodexAnswered, SlotTypeOK
<1>6. SlotTypeOK'
  <2>1. tip'[a] \in Gen
    <3>1. tip[a] \in Gen
      BY <1>1, CodexFacts
    <3>2. tip'[a] = tip[a] \/ (tip[a] < MaxGen /\ tip'[a] = tip[a] + 1)
      BY <1>5
    <3> QED
      BY <3>1, <3>2, SlotAssumption DEF Gen
  <2>2. tip' \in [Account -> Gen]
    BY <2>1, <1>1 DEF CodexAnswered, SlotTypeOK
  <2>3. codex'[a] \in [st : {"sent", "answered"}, gen : Gen] \cup {Quiet}
    BY <2>1, <1>5
  <2>4. codex' \in [Account -> [st : {"sent", "answered"}, gen : Gen] \cup {Quiet}]
    BY <2>3, <1>1 DEF CodexAnswered, SlotTypeOK
  <2> QED
    BY <2>2, <2>4, <1>1, <1>3 DEF SlotTypeOK
<1>7. ChainsSafe'
  <2> SUFFICES ASSUME NEW x \in Account, x \notin mishap PROVE Safe(x)'
    BY <1>3 DEF ChainsSafe
  <2>1. Safe(x)
    BY DEF SlotIInv, ChainsSafe
  <2>2. x # a => Safe(x)'
    BY <2>1, <1>3, <1>4 DEF Safe, AnsweredTip, Elsewhere
  <2>3. CASE tip'[a] = tip[a] + 1 /\ codex'[a] = [st |-> "answered", gen |-> tip'[a]]
    BY <2>1, <2>2, <2>3, <1>3 DEF Safe, Elsewhere, AnsweredTip
  <2>4. CASE tip'[a] = tip[a] /\ codex'[a] = Quiet
    BY <2>1, <2>2, <2>4, <1>2, <1>3 DEF Safe, Elsewhere, AnsweredTip
  <2> QED
    BY <2>3, <2>4, <1>5
<1>8. KeepsAlone'
  BY <1>1, <1>2, <1>3, <1>4, OpFacts DEF SlotIInv, KeepsAlone
<1>9. SeenKept'
  BY <1>3 DEF SlotIInv, SeenKept
<1>10. Quarantined'
  BY <1>2, <1>3, <1>4 DEF SlotIInv, Quarantined, ToBeMissed, Believed
<1> QED
  BY <1>6, <1>7, <1>8, <1>9, <1>10 DEF SlotIInv

\* Whoever writes the slot without the lock leaves a trace for the next capture.
LEMMA TracedKeeps ==
  ASSUME SlotIInv, Tame, NEW entry, Traced(entry), slot' = entry,
         UNCHANGED <<lib, recent, activeId, tick, op>>,
         \A x \in Account : codex'[x] \in {codex[x], Quiet}
  PROVE  Quarantined' /\ SeenKept'
<1>1. CASE Occupant(entry) = Occupant(slot)
  <2>1. Quarantined'
    BY <1>1 DEF SlotIInv, Quarantined, ToBeMissed, Believed
  <2>2. SeenKept'
    BY <1>1 DEF SlotIInv, SeenKept
  <2> QED
    BY <2>1, <2>2
<1>2. CASE Occupant(entry) # Occupant(slot)
  <2>1. /\ Occupant(entry) # Believed /\ op.pc # "write"
        /\ (tick = {} /\ op.kind # "switch") \/ Occupant(slot) \subseteq recent
    BY <1>2 DEF Traced, Tame
  <2>2. Quarantined'
    BY <2>1 DEF SlotIInv, Quarantined, ToBeMissed, Believed
  <2>3. SeenKept'
    BY <2>1 DEF SlotIInv, SeenKept
  <2> QED
    BY <2>2, <2>3
<1> QED
  BY <1>1, <1>2

LEMMA CodexWritesKeeps ==
  ASSUME SlotIInv, Tame, NEW a \in Account, CodexWrites(a)
  PROVE  SlotIInv'
<1>1. SlotTypeOK
  BY DEF SlotIInv
<1> DEFINE g == codex[a].gen
<1>2. /\ codex[a].st = "answered" /\ g \in Gen /\ codex[a] # Quiet
      /\ codex[a] = [st |-> "answered", gen |-> g]
  BY <1>1, CodexFacts DEF CodexWrites, Quiet
<1>3. /\ slot' = Tok(a, g)
      /\ mishap' = mishap \cup (LostWith(slot) \ {a})
      /\ UNCHANGED <<tip, lib, reauth, recent, activeId, tick, op, trouble>>
  BY DEF CodexWrites, Calm
<1>4. /\ codex'[a] = Quiet
      /\ \A x \in Account : x # a => codex'[x] = codex[x]
  BY <1>1 DEF CodexWrites, SlotTypeOK
<1> HIDE DEF g
<1>5. /\ Tok(a, g) \in Token /\ Tok(a, g).acct = a /\ Tok(a, g).gen = g
      /\ Occupant(Tok(a, g)) = {a}
  BY <1>2, TokFacts
<1>6. SlotTypeOK'
  <2>1. codex' \in [Account -> [st : {"sent", "answered"}, gen : Gen] \cup {Quiet}]
    BY <1>1 DEF CodexWrites, SlotTypeOK
  <2>2. mishap' \subseteq Account
    BY <1>1, <1>3 DEF SlotTypeOK, LostWith
  <2> QED
    BY <2>1, <2>2, <1>1, <1>3, <1>5 DEF SlotTypeOK
<1>7. ChainsSafe'
  <2> SUFFICES ASSUME NEW x \in Account, x \notin mishap' PROVE Safe(x)'
    BY DEF ChainsSafe
  <2>1. x \notin mishap /\ Safe(x)
    BY <1>3 DEF SlotIInv, ChainsSafe
  <2>2. ASSUME x = a PROVE Safe(x)'
    <3>1. g = tip[a]
      BY <2>1, <2>2, <1>2 DEF Safe
    <3> QED
      BY <2>2, <3>1, <1>3, <1>4, <1>5 DEF Safe
  <2>3. ASSUME x # a PROVE Safe(x)'
    <3>1. slot = Tok(x, tip[x]) => Elsewhere(x)
      BY <2>3, <1>3 DEF LostWith
    <3>2. Elsewhere(x)
      BY <2>1, <3>1 DEF Safe
    <3>3. Elsewhere(x)'
      BY <2>3, <3>2, <1>3, <1>4 DEF Elsewhere
    <3> QED
      BY <2>1, <2>3, <3>3, <1>3, <1>4, <1>5 DEF Safe
  <2> QED
    BY <2>2, <2>3
<1>8. KeepsAlone'
  <2>1. op.kind = "keep" => op.acct \in Account /\ op.acct # a
    BY <1>1, <1>2, OpFacts DEF SlotIInv, KeepsAlone
  <2> QED
    BY <2>1, <1>3, <1>4, <1>5 DEF SlotIInv, KeepsAlone
<1>9. Quarantined' /\ SeenKept'
  <2>1. Traced(Tok(a, g))
    BY DEF CodexWrites, g
  <2>2. \A x \in Account : codex'[x] \in {codex[x], Quiet}
    BY <1>4
  <2> QED
    BY <2>1, <2>2, <1>3, TracedKeeps
<1> QED
  BY <1>6, <1>7, <1>8, <1>9 DEF SlotIInv

LEMMA HandoverKeeps ==
  ASSUME SlotIInv, Tame, NEW entry, Handover(entry),
         \/ entry \in {None, ApiKey}
         \/ \E a \in Account : entry = Tok(a, tip[a])
  PROVE  SlotIInv'
<1>1. SlotTypeOK
  BY DEF SlotIInv
<1>2. /\ slot' = entry /\ Traced(entry)
      /\ mishap' = mishap \cup LostWith(slot)
      /\ op.kind = "keep" => op.acct \notin Occupant(entry)
      /\ UNCHANGED <<tip, codex, lib, reauth, recent, activeId, tick, op>>
  BY DEF Handover
<1>3. /\ entry \in Token \cup {None, ApiKey}
      /\ entry \in Token => entry.gen = tip[entry.acct]
  <2>1. CASE entry \in {None, ApiKey}
    BY <2>1, SlotAssumption DEF Token, Gen
  <2>2. ASSUME NEW a \in Account, entry = Tok(a, tip[a])
        PROVE  entry \in Token /\ entry.gen = tip[entry.acct]
    <3>1. tip[a] \in Gen
      BY <1>1, CodexFacts
    <3> QED
      BY <2>2, <3>1, TokFacts
  <2> QED
    BY <2>1, <2>2
<1>4. SlotTypeOK'
  <2>1. trouble' \in 0 .. MaxTrouble
    BY <1>1, SlotAssumption DEF Handover, Disturb, SlotTypeOK
  <2>2. mishap' \subseteq Account
    BY <1>1, <1>2 DEF SlotTypeOK, LostWith
  <2> QED
    BY <2>1, <2>2, <1>1, <1>2, <1>3 DEF SlotTypeOK
<1>5. ChainsSafe'
  <2> SUFFICES ASSUME NEW x \in Account, x \notin mishap' PROVE Safe(x)'
    BY DEF ChainsSafe
  <2>1. x \notin mishap /\ Safe(x)
    BY <1>2 DEF SlotIInv, ChainsSafe
  <2>2. slot = Tok(x, tip[x]) => Elsewhere(x)
    BY <1>2 DEF LostWith
  <2>3. Elsewhere(x)'
    BY <2>1, <2>2, <1>2 DEF Safe, Elsewhere
  <2> QED
    BY <2>1, <2>3, <1>2, <1>3 DEF Safe
<1>6. KeepsAlone'
  BY <1>2 DEF SlotIInv, KeepsAlone
<1>7. Quarantined' /\ SeenKept'
  BY <1>2, TracedKeeps
<1> QED
  BY <1>4, <1>5, <1>6, <1>7 DEF SlotIInv

LEMMA QuarantineEndsKeeps ==
  ASSUME SlotIInv, NEW a \in Account, QuarantineEnds(a)
  PROVE  SlotIInv'
<1>1. /\ codex[a] = Quiet /\ op = NoOp /\ recent' = recent \ {a}
      /\ UNCHANGED <<tip, slot, codex, lib, reauth, activeId, tick, op, mishap, trouble>>
  BY DEF QuarantineEnds, Free, Calm
<1>2. SlotTypeOK'
  BY <1>1 DEF SlotIInv, SlotTypeOK
<1>3. ChainsSafe'
  BY <1>1 DEF SlotIInv, ChainsSafe, Safe, AnsweredTip, Elsewhere
<1>4. KeepsAlone' /\ SeenKept'
  BY <1>1 DEF KeepsAlone, SeenKept, NoOp
<1>5. Quarantined'
  BY <1>1 DEF SlotIInv, Quarantined, ToBeMissed, Believed
<1> QED
  BY <1>2, <1>3, <1>4, <1>5 DEF SlotIInv

-----------------------------------------------------------------------------
(* Capturing the slot.                                                       *)

\* A record that takes the slot's token over loses no tip by it: the slot holds the
\* tip, or codex has it in hand.
LEMMA AbsorbKeeps ==
  ASSUME SlotIInv, op.kind # "keep", NEW read \in {slot, Unreadable},
         lib' = Absorb(read), UNCHANGED <<tip, slot, codex>>
  PROVE  /\ lib' \in [Account -> Gen]
         /\ read \in Token => lib'[read.acct] = read.gen
         /\ \A x \in Account : read \notin Token \/ x # read.acct => lib'[x] = lib[x]
         /\ \A x \in Account : x \notin mishap => Safe(x)'
<1>1. SlotTypeOK
  BY DEF SlotIInv
<1>2. /\ read \in Token \cup {None, ApiKey, Unreadable}
      /\ Occupied(read) <=> read \in Token
      /\ read \in Token => read.acct \in Account /\ read.gen \in Gen /\ read = slot
  <2>1. read \in Token \cup {None, ApiKey, Unreadable} /\ Unreadable \notin Token
    BY <1>1, SlotAssumption DEF SlotTypeOK, Token, Gen
  <2> QED
    BY <2>1, EntryFacts
<1>3. /\ lib' \in [Account -> Gen]
      /\ read \in Token => lib'[read.acct] = read.gen
      /\ \A x \in Account : read \notin Token \/ x # read.acct => lib'[x] = lib[x]
  BY <1>1, <1>2 DEF Absorb, SlotTypeOK
<1>4. ASSUME NEW x \in Account, x \notin mishap PROVE Safe(x)'
  <2>1. Safe(x) /\ (Elsewhere(x) <=> lib[x] = tip[x] \/ AnsweredTip(x))
    BY <1>4 DEF SlotIInv, ChainsSafe, Elsewhere, AnsweredTip
  <2>2. lib'[x] = tip[x] \/ AnsweredTip(x) => Elsewhere(x)'
    BY DEF Elsewhere, AnsweredTip
  <2>3. CASE read \in Token /\ read.acct = x
    BY <2>1, <2>2, <2>3, <1>2, <1>3 DEF Safe, AnsweredTip
  <2>4. CASE read \notin Token \/ x # read.acct
    <3>1. lib'[x] = lib[x]
      BY <2>4, <1>3
    <3> QED
      BY <3>1, <2>1, <2>2 DEF Safe, AnsweredTip
  <2> QED
    BY <2>3, <2>4
<1> QED
  BY <1>3, <1>4

\* What a capture leaves behind: the occupant is on record and quarantined, and
\* so is whoever may still be posted - unless nobody was believed active and the
\* slot could not be read.
LEMMA CapturedLeaves ==
  ASSUME SlotIInv, Free, NEW read \in {slot, Unreadable}, ReadsSlot(read), Captured(read),
         UNCHANGED <<tip, slot, codex>>
  PROVE  /\ lib' \in [Account -> Gen] /\ reauth' \subseteq Account /\ recent' \subseteq Account
         /\ activeId' \in Account \cup {None} /\ trouble' \in 0 .. MaxTrouble
         /\ read \in Token \cup {None, ApiKey, Unreadable}
         /\ \A x \in Account : x \notin mishap => Safe(x)'
         /\ read \in Token => lib'[read.acct] = read.gen
         /\ Occupant(read) \subseteq recent'
         /\ \/ \A x \in Account : codex[x] # Quiet => x \in recent' \cup Occupant(slot)
            \/ read = Unreadable /\ activeId = None /\ recent' = recent /\ activeId' = activeId
<1>1. SlotTypeOK /\ op.kind = "none"
  BY DEF SlotIInv, Free, NoOp
<1>2. /\ read \in Token \cup {None, ApiKey, Unreadable} /\ Unreadable \notin Token
      /\ slot # Unreadable
  BY <1>1, SlotAssumption DEF SlotTypeOK, Token, Gen
<1>3. /\ Occupied(read) <=> read \in Token
      /\ read \in Token => read.acct \in Account /\ Occupant(read) = {read.acct}
      /\ read \notin Token => Occupant(read) = {}
      /\ Occupant(read) \subseteq Account
  BY <1>2, EntryFacts
<1>4. /\ lib' = Absorb(read) /\ reauth' = reauth \ Occupant(read)
      /\ recent' = Stamp(read) /\ activeId' = Adopt(read)
  BY DEF Captured
<1>5. /\ lib' \in [Account -> Gen]
      /\ read \in Token => lib'[read.acct] = read.gen
      /\ \A x \in Account : x \notin mishap => Safe(x)'
  BY <1>1, <1>4, AbsorbKeeps
<1>6. /\ reauth' \subseteq Account /\ activeId' \in Account \cup {None}
      /\ recent' \subseteq Account /\ Occupant(read) \subseteq recent'
  BY <1>1, <1>3, <1>4 DEF SlotTypeOK, Adopt, Stamp
<1>7. trouble' \in 0 .. MaxTrouble
  BY <1>1, SlotAssumption DEF ReadsSlot, Calm, Disturb, SlotTypeOK
<1>8. \/ \A x \in Account : codex[x] # Quiet => x \in recent' \cup Occupant(slot)
      \/ read = Unreadable /\ activeId = None /\ recent' = recent /\ activeId' = activeId
  <2>1. CASE Evicted(read)
    BY <2>1, <1>4 DEF Stamp
  <2>2. CASE ~Evicted(read) /\ read = slot
    <3>1. ~ToBeMissed
      BY <2>2 DEF ToBeMissed, Evicted
    <3>2. recent' = recent \cup Occupant(read)
      BY <2>2, <1>4 DEF Stamp
    <3> QED
      BY <3>1, <3>2 DEF SlotIInv, Quarantined
  <2>3. CASE ~Evicted(read) /\ read = Unreadable
    <3>1. Occupant(read) = {}
      BY <2>3, <1>2, <1>3
    <3>2. activeId = None
      BY <2>3, <3>1 DEF Evicted, Believed
    <3> QED
      BY <2>3, <3>1, <3>2, <1>2, <1>3, <1>4 DEF Stamp, Adopt
  <2> QED
    BY <2>1, <2>2, <2>3
<1> QED
  BY <1>2, <1>5, <1>6, <1>7, <1>8

LEMMA CaptureKeeps ==
  ASSUME SlotIInv, Capture
  PROVE  SlotIInv'
<1>1. PICK read \in {slot, Unreadable} : ReadsSlot(read) /\ Captured(read)
  BY DEF Capture
<1>2. Free /\ op = NoOp /\ op' = NoOp /\ UNCHANGED <<tip, slot, codex, tick, op, mishap>>
  BY DEF Capture, Free
<1>3. /\ lib' \in [Account -> Gen] /\ reauth' \subseteq Account /\ recent' \subseteq Account
      /\ activeId' \in Account \cup {None} /\ trouble' \in 0 .. MaxTrouble
      /\ \A x \in Account : x \notin mishap => Safe(x)'
      /\ \/ \A x \in Account : codex[x] # Quiet => x \in recent' \cup Occupant(slot)
         \/ read = Unreadable /\ activeId = None /\ recent' = recent /\ activeId' = activeId
  BY <1>1, <1>2, CapturedLeaves
<1>4. SlotTypeOK'
  BY <1>2, <1>3 DEF SlotIInv, SlotTypeOK
<1>5. ChainsSafe'
  BY <1>2, <1>3 DEF ChainsSafe
<1>6. KeepsAlone' /\ SeenKept'
  BY <1>2 DEF KeepsAlone, SeenKept, NoOp
<1>7. Quarantined'
  BY <1>2, <1>3 DEF SlotIInv, Quarantined, ToBeMissed, Believed
<1> QED
  BY <1>4, <1>5, <1>6, <1>7 DEF SlotIInv

LEMMA TickKeeps ==
  ASSUME SlotIInv, Tame, Tick
  PROVE  SlotIInv'
<1>1. PICK read \in {slot, Unreadable} : ReadsSlot(read) /\ Told(read) /\ Captured(read)
  BY DEF Tick, Tame
<1>2. /\ Free /\ op = NoOp /\ op' = NoOp /\ tick' = Account
      /\ UNCHANGED <<tip, slot, codex, op, mishap>>
  BY DEF Tick, Free
<1>3. read = Unreadable => activeId # None
  BY <1>1 DEF Told, Tame
<1>4. /\ lib' \in [Account -> Gen] /\ reauth' \subseteq Account /\ recent' \subseteq Account
      /\ activeId' \in Account \cup {None} /\ trouble' \in 0 .. MaxTrouble
      /\ \A x \in Account : x \notin mishap => Safe(x)'
      /\ \A x \in Account : codex[x] # Quiet => x \in recent' \cup Occupant(slot)
  BY <1>1, <1>2, <1>3, CapturedLeaves
<1>5. SlotTypeOK'
  BY <1>2, <1>4 DEF SlotIInv, SlotTypeOK
<1>6. ChainsSafe'
  BY <1>2, <1>4 DEF ChainsSafe
<1>7. KeepsAlone' /\ SeenKept'
  BY <1>2 DEF KeepsAlone, SeenKept, NoOp
<1>8. Quarantined'
  BY <1>2, <1>4 DEF Quarantined
<1> QED
  BY <1>5, <1>6, <1>7, <1>8 DEF SlotIInv

-----------------------------------------------------------------------------
(* A switch.                                                                 *)

LEMMA SwitchBeginsKeeps ==
  ASSUME SlotIInv, Tame, NEW b \in Account, SwitchBegins(b)
  PROVE  SlotIInv'
<1>1. PICK read \in {slot, Unreadable} :
        /\ ReadsSlot(read) /\ Told(read) /\ Captured(read)
        /\ op' = [kind |-> "switch", pc |-> "commit", acct |-> b, gen |-> lib'[b], seen |-> read]
  BY DEF SwitchBegins
<1>2. Free /\ UNCHANGED <<tip, slot, codex, tick, mishap>>
  BY DEF SwitchBegins
<1>3. read = Unreadable => activeId # None
  BY <1>1 DEF Told, Tame
<1>4. /\ lib' \in [Account -> Gen] /\ reauth' \subseteq Account /\ recent' \subseteq Account
      /\ activeId' \in Account \cup {None} /\ trouble' \in 0 .. MaxTrouble
      /\ read \in Token \cup {None, ApiKey, Unreadable}
      /\ \A x \in Account : x \notin mishap => Safe(x)'
      /\ read \in Token => lib'[read.acct] = read.gen
      /\ Occupant(read) \subseteq recent'
      /\ \A x \in Account : codex[x] # Quiet => x \in recent' \cup Occupant(slot)
  BY <1>1, <1>2, <1>3, CapturedLeaves
<1>5. /\ op'.kind = "switch" /\ op'.pc = "commit" /\ op'.seen = read
      /\ op' \in [kind : {"switch"}, pc : {"commit", "write", "book"}, acct : Account, gen : Gen,
                  seen : Token \cup {None, ApiKey, Unreadable}]
  BY <1>1, <1>4
<1>6. SlotTypeOK'
  BY <1>2, <1>4, <1>5 DEF SlotIInv, SlotTypeOK
<1>7. ChainsSafe'
  BY <1>2, <1>4 DEF ChainsSafe
<1>8. KeepsAlone' /\ SeenKept'
  BY <1>4, <1>5 DEF KeepsAlone, SeenKept
<1>9. Quarantined'
  BY <1>2, <1>4 DEF Quarantined
<1> QED
  BY <1>6, <1>7, <1>8, <1>9 DEF SlotIInv

LEMMA CommitReadsKeeps ==
  ASSUME SlotIInv, Tame, CommitReads
  PROVE  SlotIInv'
<1>1. SlotTypeOK /\ op.kind = "switch" /\ op.pc = "commit"
  BY DEF SlotIInv, CommitReads
<1>2. /\ Calm
      /\ op' = IF slot = ApiKey THEN NoOp ELSE [op EXCEPT !.pc = "write", !.seen = slot]
      /\ lib' = CatchUp(slot)
      /\ recent' = IF slot # op.seen THEN recent \cup Occupant(slot) ELSE recent
      /\ reauth' = IF slot # op.seen THEN reauth \ Occupant(slot) ELSE reauth
      /\ UNCHANGED <<tip, slot, codex, activeId, tick, mishap>>
  <2>1. PICK read \in {slot, Unreadable} :
          /\ ReadsSlot(read) /\ (read = Unreadable => "blind" \in Allow)
          /\ op' = IF read = ApiKey THEN NoOp ELSE [op EXCEPT !.pc = "write", !.seen = read]
          /\ lib' = CatchUp(read)
          /\ recent' = IF read # op.seen THEN recent \cup Occupant(read) ELSE recent
          /\ reauth' = IF read # op.seen THEN reauth \ Occupant(read) ELSE reauth
    BY DEF CommitReads
  <2>2. read = slot /\ read # Unreadable
    BY <2>1 DEF Tame
  <2> QED
    BY <2>1, <2>2 DEF CommitReads, ReadsSlot
<1>3. /\ slot \in Token \cup {None, ApiKey, Unreadable} /\ Occupant(slot) \subseteq Account
  <2>1. slot \in Token \cup {None, ApiKey, Unreadable}
    BY <1>1 DEF SlotTypeOK
  <2> QED
    BY <2>1, EntryFacts
<1>4. /\ op' = NoOp
      \/ /\ op'.kind = "switch" /\ op'.pc = "write" /\ op'.seen = slot
         /\ op' \in [kind : {"switch"}, pc : {"commit", "write", "book"}, acct : Account,
                     gen : Gen, seen : Token \cup {None, ApiKey, Unreadable}]
  <2>1. op \in [kind : {"switch"}, pc : {"commit", "write", "book"}, acct : Account,
                gen : Gen, seen : Token \cup {None, ApiKey, Unreadable}]
    BY <1>1 DEF SlotTypeOK, NoOp
  <2> QED
    BY <2>1, <1>2, <1>3
<1>5. /\ lib' \in [Account -> Gen]
      /\ slot \in Token => lib'[slot.acct] = slot.gen
      /\ \A x \in Account : x \notin mishap => Safe(x)'
  <2>1. CASE slot # op.seen
    <3>1. lib' = Absorb(slot)
      BY <2>1, <1>2 DEF CatchUp
    <3> QED
      BY <3>1, <1>1, <1>2, AbsorbKeeps
  <2>2. CASE slot = op.seen
    <3>1. lib' = lib
      BY <2>2, <1>2 DEF CatchUp
    <3>2. slot \in Token => lib[slot.acct] = slot.gen
      BY <2>2, <1>1 DEF SlotIInv, SeenKept
    <3>3. ASSUME NEW x \in Account, x \notin mishap PROVE Safe(x)'
      BY <3>1, <3>3, <1>1, <1>2
         DEF SlotIInv, ChainsSafe, Safe, AnsweredTip, Elsewhere
    <3> QED
      BY <3>1, <3>2, <3>3, <1>1 DEF SlotTypeOK
  <2> QED
    BY <2>1, <2>2
<1>6. recent' \subseteq Account /\ reauth' \subseteq Account /\ recent \subseteq recent'
  BY <1>1, <1>2, <1>3 DEF SlotTypeOK
<1>7. Occupant(slot) \subseteq recent'
  BY <1>1, <1>2 DEF SlotIInv, SeenKept
<1>8. SlotTypeOK'
  BY <1>1, <1>2, <1>4, <1>5, <1>6 DEF SlotTypeOK, Calm
<1>9. ChainsSafe'
  BY <1>2, <1>5 DEF ChainsSafe
<1>10. KeepsAlone' /\ SeenKept'
  BY <1>2, <1>4, <1>5, <1>7 DEF KeepsAlone, SeenKept, NoOp
<1>11. Quarantined'
  BY <1>1, <1>2, <1>6 DEF SlotIInv, Quarantined, ToBeMissed
<1> QED
  BY <1>8, <1>9, <1>10, <1>11 DEF SlotIInv

LEMMA CommitWritesKeeps ==
  ASSUME SlotIInv, CommitWrites
  PROVE  SlotIInv'
<1>1. SlotTypeOK /\ op.kind = "switch" /\ op.pc = "write"
  BY DEF SlotIInv, CommitWrites
<1> DEFINE b == op.acct
           g == op.gen
<1>2. /\ op \in [kind : {"switch"}, pc : {"commit", "write", "book"}, acct : Account,
                 gen : Gen, seen : Token \cup {None, ApiKey, Unreadable}]
      /\ b \in Account /\ g \in Gen
  BY <1>1 DEF SlotTypeOK, NoOp
<1>3. /\ op' = [op EXCEPT !.pc = "book"] /\ slot' = Tok(b, g)
      /\ mishap' = mishap \cup (IF op.seen # slot THEN LostWith(slot) ELSE {})
                         \cup (IF g # lib[b] THEN {b} ELSE {})
      /\ UNCHANGED <<tip, codex, lib, reauth, recent, activeId, tick, trouble>>
  BY DEF CommitWrites, Calm
<1>4. /\ op'.kind = "switch" /\ op'.pc = "book"
      /\ op' \in [kind : {"switch"}, pc : {"commit", "write", "book"}, acct : Account,
                  gen : Gen, seen : Token \cup {None, ApiKey, Unreadable}]
  BY <1>2, <1>3
<1> HIDE DEF b, g
<1>5. Tok(b, g) \in Token /\ Tok(b, g).acct = b /\ Tok(b, g).gen = g
  BY <1>2, TokFacts
<1>6. SlotTypeOK'
  <2>1. mishap' \subseteq Account
    BY <1>1, <1>2, <1>3 DEF SlotTypeOK, LostWith
  <2> QED
    BY <2>1, <1>1, <1>3, <1>4, <1>5 DEF SlotTypeOK
<1>7. ChainsSafe'
  <2> SUFFICES ASSUME NEW x \in Account, x \notin mishap' PROVE Safe(x)'
    BY DEF ChainsSafe
  <2>1. x \notin mishap /\ Safe(x)
    BY <1>3 DEF SlotIInv, ChainsSafe
  <2>2. Elsewhere(x) <=> lib[x] = tip[x] \/ AnsweredTip(x)
    BY <1>1 DEF Elsewhere, AnsweredTip
  <2>3. slot = Tok(x, tip[x]) => Elsewhere(x)
    <3>1. CASE op.seen # slot
      BY <3>1, <1>3 DEF LostWith
    <3>2. CASE op.seen = slot /\ slot = Tok(x, tip[x])
      <4>1. slot \in Token /\ slot.acct = x /\ slot.gen = tip[x]
        <5>1. tip[x] \in Gen
          BY <1>1, CodexFacts
        <5> QED
          BY <5>1, <3>2, TokFacts
      <4>2. lib[x] = tip[x]
        BY <4>1, <3>2, <1>1 DEF SlotIInv, SeenKept
      <4> QED
        BY <4>2, <2>2
    <3> QED
      BY <3>1, <3>2
  <2>4. lib[x] = tip[x] \/ AnsweredTip(x)
    BY <2>1, <2>2, <2>3 DEF Safe
  <2>5. Elsewhere(x)' /\ (AnsweredTip(x)' <=> AnsweredTip(x))
    BY <2>4, <1>3 DEF Elsewhere, AnsweredTip
  <2>6. x = b => g = lib[x]
    BY <1>3
  <2>7. slot'.acct = x => slot'.gen = tip'[x] \/ AnsweredTip(x)'
    BY <2>4, <2>5, <2>6, <1>3, <1>5
  <2>8. codex'[x] # Quiet => codex'[x].gen = tip'[x]
    BY <2>1, <1>3 DEF Safe
  <2> QED
    BY <2>5, <2>7, <2>8 DEF Safe
<1>8. KeepsAlone' /\ SeenKept'
  BY <1>4 DEF KeepsAlone, SeenKept
<1>9. Quarantined'
  <2>1. \A x \in Account : codex[x] # Quiet => x \in recent \cup Occupant(slot)
    BY <1>1 DEF SlotIInv, Quarantined, ToBeMissed
  <2>2. Occupant(slot) \subseteq recent
    BY <1>1 DEF SlotIInv, SeenKept
  <2> QED
    BY <2>1, <2>2, <1>3 DEF Quarantined
<1> QED
  BY <1>6, <1>7, <1>8, <1>9 DEF SlotIInv

LEMMA SwitchEndsKeeps ==
  ASSUME SlotIInv, SwitchEnds
  PROVE  SlotIInv'
<1>1. /\ op.kind = "switch" /\ op' = NoOp /\ activeId' = op.acct
      /\ UNCHANGED <<tip, slot, codex, lib, reauth, recent, tick, mishap, trouble>>
  BY DEF SwitchEnds, Calm
<1>2. SlotTypeOK'
  <2>1. activeId' \in Account
    BY <1>1, OpFacts DEF SlotIInv
  <2> QED
    BY <2>1, <1>1 DEF SlotIInv, SlotTypeOK
<1>3. ChainsSafe'
  BY <1>1 DEF SlotIInv, ChainsSafe, Safe, AnsweredTip, Elsewhere
<1>4. KeepsAlone' /\ SeenKept'
  BY <1>1 DEF KeepsAlone, SeenKept, NoOp
<1>5. Quarantined'
  BY <1>1 DEF SlotIInv, Quarantined, ToBeMissed
<1> QED
  BY <1>2, <1>3, <1>4, <1>5 DEF SlotIInv

-----------------------------------------------------------------------------
(* The keep-alive.                                                           *)

\* INV-O1's guard does its work: whoever is not in the slot and not quarantined is
\* not being posted, and its record holds the tip.
LEMMA KeepBeginsAlone ==
  ASSUME SlotIInv, NEW a \in Account, KeepBegins(a), op' # NoOp
  PROVE  /\ op' = [NoOp EXCEPT !.kind = "keep", !.pc = "post", !.acct = a, !.gen = lib[a]]
         /\ a \notin Occupant(slot) /\ codex[a] = Quiet
         /\ a \notin mishap => lib[a] = tip[a]
<1>1. SlotTypeOK /\ op = NoOp /\ a \in tick
  BY DEF SlotIInv, KeepBegins, Free
<1>2. /\ op' = [NoOp EXCEPT !.kind = "keep", !.pc = "post", !.acct = a, !.gen = lib[a]]
      /\ Allowed(a, slot)
  BY DEF KeepBegins, ReadsSlot, Allowed
<1>3. a \notin Occupant(slot) /\ a \notin recent
  BY <1>2 DEF Allowed
<1>4. codex[a] = Quiet
  BY <1>1, <1>3 DEF SlotIInv, Quarantined, ToBeMissed
<1>5. ASSUME a \notin mishap PROVE lib[a] = tip[a]
  <2>1. Safe(a)
    BY <1>5 DEF SlotIInv, ChainsSafe
  <2>2. slot # Tok(a, tip[a])
    <3>1. tip[a] \in Gen
      BY <1>1, CodexFacts
    <3> QED
      BY <3>1, <1>3, TokFacts
  <2>3. codex[a] # [st |-> "answered", gen |-> tip[a]]
    BY <1>4 DEF Quiet
  <2>4. op.kind # "keep"
    BY <1>1 DEF NoOp
  <2> QED
    BY <2>1, <2>2, <2>3, <2>4 DEF Safe, Elsewhere
<1> QED
  BY <1>2, <1>3, <1>4, <1>5

LEMMA KeepBeginsKeeps ==
  ASSUME SlotIInv, NEW a \in Account, KeepBegins(a)
  PROVE  SlotIInv'
<1>1. /\ op = NoOp /\ tick' = tick \ {a} /\ a \in tick
      /\ UNCHANGED <<tip, slot, codex, lib, reauth, recent, activeId, mishap>>
  BY DEF KeepBegins, Free
<1>2. \/ op' = NoOp
      \/ /\ op'.kind = "keep" /\ op'.pc = "post" /\ op'.acct = a /\ op'.gen = lib[a]
         /\ op' = [kind |-> "keep", pc |-> "post", acct |-> a, gen |-> lib[a], seen |-> None]
         /\ a \notin Occupant(slot) /\ codex[a] = Quiet
         /\ a \notin mishap => lib[a] = tip[a]
  BY KeepBeginsAlone DEF NoOp
<1>3. SlotTypeOK'
  <2>1. trouble' \in 0 .. MaxTrouble
    BY SlotAssumption DEF KeepBegins, ReadsSlot, Calm, Disturb, SlotIInv, SlotTypeOK
  <2>2. op' \in [kind : {"keep"}, pc : {"post", "put"}, acct : Account, gen : Gen, seen : {None}]
               \cup {NoOp}
    BY <1>2 DEF SlotIInv, SlotTypeOK
  <2> QED
    BY <2>1, <2>2, <1>1 DEF SlotIInv, SlotTypeOK
<1>4. ChainsSafe'
  <2>1. op.kind # "keep"
    BY <1>1 DEF NoOp
  <2> QED
    BY <2>1, <1>1 DEF SlotIInv, ChainsSafe, Safe, AnsweredTip, Elsewhere
<1>5. KeepsAlone' /\ SeenKept'
  BY <1>1, <1>2 DEF KeepsAlone, SeenKept, NoOp
<1>6. Quarantined'
  BY <1>1 DEF SlotIInv, Quarantined, ToBeMissed
<1> QED
  BY <1>3, <1>4, <1>5, <1>6 DEF SlotIInv

LEMMA KeepAnsweredKeeps ==
  ASSUME SlotIInv, KeepAnswered
  PROVE  SlotIInv'
<1> DEFINE a == op.acct
<1>1. /\ SlotTypeOK /\ op.kind = "keep" /\ op.pc = "post" /\ a \in Account /\ op.gen \in Gen
      /\ op \in [kind : {"keep"}, pc : {"post", "put"}, acct : Account, gen : Gen, seen : {None}]
  BY OpFacts DEF SlotIInv, KeepAnswered, SlotTypeOK, NoOp
<1>2. UNCHANGED <<slot, codex, lib, recent, activeId, tick, mishap, trouble>>
  BY DEF KeepAnswered, Calm
<1>3. /\ a \notin Occupant(slot) /\ codex[a] = Quiet
      /\ a \notin mishap => op.gen = tip[a] /\ lib[a] = op.gen
  BY <1>1 DEF SlotIInv, KeepsAlone
<1> HIDE DEF a
<1>4. CASE /\ op.gen = tip[a] /\ tip[a] < MaxGen
           /\ tip' = [tip EXCEPT ![a] = @ + 1]
           /\ op' = [op EXCEPT !.pc = "put", !.gen = @ + 1] /\ UNCHANGED reauth
  <2>1. /\ tip'[a] = tip[a] + 1 /\ tip'[a] \in Gen
        /\ tip' \in [Account -> Gen]
        /\ \A x \in Account : x # a => tip'[x] = tip[x]
    <3>1. tip[a] \in Gen /\ tip \in [Account -> Gen]
      BY <1>1 DEF SlotTypeOK
    <3>2. tip[a] + 1 \in Gen
      BY <3>1, <1>4, SlotAssumption DEF Gen
    <3> QED
      BY <3>1, <3>2, <1>1, <1>4
  <2>2. /\ op'.kind = "keep" /\ op'.pc = "put" /\ op'.acct = a /\ op'.gen = tip'[a]
        /\ op' \in [kind : {"keep"}, pc : {"post", "put"}, acct : Account, gen : Gen, seen : {None}]
    BY <2>1, <1>1, <1>4 DEF a
  <2>3. SlotTypeOK'
    BY <2>1, <2>2, <1>1, <1>2, <1>4 DEF SlotTypeOK
  <2>4. ChainsSafe'
    <3> SUFFICES ASSUME NEW x \in Account, x \notin mishap PROVE Safe(x)'
      BY <1>2 DEF ChainsSafe
    <3>1. Safe(x)
      BY DEF SlotIInv, ChainsSafe
    <3>2. ASSUME x = a PROVE Safe(x)'
      <4>1. Elsewhere(x)'
        BY <3>2, <2>2 DEF Elsewhere
      <4>2. ~(slot \in Token /\ slot.acct = a)
        BY <1>3, EntryFacts
      <4> QED
        BY <3>2, <4>1, <4>2, <1>2, <1>3 DEF Safe
    <3>3. ASSUME x # a PROVE Safe(x)'
      <4>1. tip'[x] = tip[x] /\ (AnsweredTip(x)' <=> AnsweredTip(x))
        BY <3>3, <2>1, <1>2 DEF AnsweredTip
      <4>2. Elsewhere(x) => Elsewhere(x)'
        BY <3>3, <4>1, <1>1, <1>2 DEF Elsewhere, a
      <4> QED
        BY <3>1, <4>1, <4>2, <1>2 DEF Safe
    <3> QED
      BY <3>2, <3>3
  <2>5. KeepsAlone' /\ SeenKept'
    BY <2>2, <1>2, <1>3 DEF KeepsAlone, SeenKept
  <2>6. Quarantined'
    BY <2>2, <1>1, <1>2 DEF SlotIInv, Quarantined, ToBeMissed, Believed
  <2> QED
    BY <2>3, <2>4, <2>5, <2>6 DEF SlotIInv
<1>5. CASE op' = NoOp /\ reauth' \in {reauth, reauth \cup {a}} /\ UNCHANGED tip
  <2>1. SlotTypeOK'
    BY <1>1, <1>2, <1>5 DEF SlotTypeOK
  <2>2. ChainsSafe'
    <3> SUFFICES ASSUME NEW x \in Account, x \notin mishap PROVE Safe(x)'
      BY <1>2 DEF ChainsSafe
    <3>1. Safe(x)
      BY DEF SlotIInv, ChainsSafe
    <3>2. Elsewhere(x) => Elsewhere(x)'
      BY <1>1, <1>2, <1>5 DEF Elsewhere
    <3> QED
      BY <3>1, <3>2, <1>2, <1>5 DEF Safe, AnsweredTip
  <2>3. KeepsAlone' /\ SeenKept'
    BY <1>5 DEF KeepsAlone, SeenKept, NoOp
  <2>4. Quarantined'
    BY <1>1, <1>2, <1>5 DEF SlotIInv, Quarantined, ToBeMissed, Believed, NoOp
  <2> QED
    BY <2>1, <2>2, <2>3, <2>4 DEF SlotIInv
<1> QED
  BY <1>4, <1>5 DEF KeepAnswered, a

LEMMA KeepEndsKeeps ==
  ASSUME SlotIInv, KeepEnds
  PROVE  SlotIInv'
<1> DEFINE a == op.acct
<1>1. /\ SlotTypeOK /\ op.kind = "keep" /\ op.pc = "put" /\ a \in Account /\ op.gen \in Gen
  BY OpFacts DEF SlotIInv, KeepEnds
<1>2. /\ op' = NoOp /\ reauth' = reauth \ {a}
      /\ UNCHANGED <<tip, slot, codex, recent, activeId, tick, mishap, trouble>>
  BY DEF KeepEnds, Calm
<1>3. /\ lib' \in [Account -> Gen] /\ lib'[a] = op.gen
      /\ \A x \in Account : x # a => lib'[x] = lib[x]
  BY <1>1 DEF KeepEnds, SlotTypeOK
<1>4. SlotTypeOK'
  BY <1>1, <1>2, <1>3 DEF SlotTypeOK
<1>5. ChainsSafe'
  <2> SUFFICES ASSUME NEW x \in Account, x \notin mishap PROVE Safe(x)'
    BY <1>2 DEF ChainsSafe
  <2>1. Safe(x) /\ (x = a => op.gen = tip[x])
    BY <1>1 DEF SlotIInv, ChainsSafe, KeepsAlone
  <2>2. Elsewhere(x) => Elsewhere(x)'
    BY <2>1, <1>2, <1>3 DEF Elsewhere
  <2> QED
    BY <2>1, <2>2, <1>2 DEF Safe, AnsweredTip
<1>6. KeepsAlone' /\ SeenKept'
  BY <1>2 DEF KeepsAlone, SeenKept, NoOp
<1>7. Quarantined'
  BY <1>1, <1>2 DEF SlotIInv, Quarantined, ToBeMissed, Believed, NoOp
<1> QED
  BY <1>4, <1>5, <1>6, <1>7 DEF SlotIInv

LEMMA CrashKeeps ==
  ASSUME SlotIInv, Crash
  PROVE  SlotIInv'
<1>1. /\ op' = NoOp /\ tick' = {}
      /\ mishap' = IF op.kind = "keep" /\ op.pc = "put" THEN mishap \cup {op.acct} ELSE mishap
      /\ UNCHANGED <<tip, slot, codex, lib, reauth, recent, activeId>>
  BY DEF Crash
<1>2. SlotTypeOK'
  <2>1. trouble' \in 0 .. MaxTrouble
    BY SlotAssumption DEF Crash, Disturb, SlotIInv, SlotTypeOK
  <2>2. mishap' \subseteq Account
    BY <1>1, OpFacts DEF SlotIInv, SlotTypeOK
  <2> QED
    BY <2>1, <2>2, <1>1 DEF SlotIInv, SlotTypeOK
<1>3. ChainsSafe'
  <2> SUFFICES ASSUME NEW x \in Account, x \notin mishap' PROVE Safe(x)'
    BY DEF ChainsSafe
  <2>1. x \notin mishap /\ Safe(x)
    BY <1>1 DEF SlotIInv, ChainsSafe
  <2>2. Elsewhere(x) => Elsewhere(x)'
    BY <1>1 DEF Elsewhere
  <2> QED
    BY <2>1, <2>2, <1>1 DEF Safe, AnsweredTip
<1>4. KeepsAlone' /\ SeenKept'
  BY <1>1 DEF KeepsAlone, SeenKept, NoOp
<1>5. Quarantined'
  BY <1>1 DEF SlotIInv, Quarantined, ToBeMissed, Believed, NoOp
<1> QED
  BY <1>2, <1>3, <1>4, <1>5 DEF SlotIInv

-----------------------------------------------------------------------------
LEMMA SlotStep ==
  ASSUME SlotIInv, Tame, [SlotNext]_slotVars
  PROVE  SlotIInv'
<1>1. ASSUME NEW a \in Account, CodexSends(a) \/ CodexAnswered(a) \/ CodexWrites(a)
                                 \/ QuarantineEnds(a) \/ SwitchBegins(a) \/ KeepBegins(a)
      PROVE  SlotIInv'
  BY <1>1, CodexSendsKeeps, CodexAnsweredKeeps, CodexWritesKeeps,
     QuarantineEndsKeeps,
     SwitchBeginsKeeps, KeepBeginsKeeps
<1>2. ASSUME NEW a \in Account, Handover(Tok(a, tip[a])) PROVE SlotIInv'
  BY <1>2, HandoverKeeps
<1>3. ASSUME Handover(None) \/ Handover(ApiKey) PROVE SlotIInv'
  BY <1>3, HandoverKeeps
<1>4. ASSUME SlotWorks \/ Capture \/ Tick \/ Crash PROVE SlotIInv'
  BY <1>4, CommitReadsKeeps, CommitWritesKeeps, SwitchEndsKeeps, KeepAnsweredKeeps,
     KeepEndsKeeps, CaptureKeeps, TickKeeps, CrashKeeps DEF SlotWorks
<1>5. ASSUME UNCHANGED slotVars PROVE SlotIInv'
  BY <1>5
     DEF slotVars, SlotIInv, SlotTypeOK, ChainsSafe, Safe, AnsweredTip, Elsewhere,
         KeepsAlone,
     SeenKept, Quarantined, ToBeMissed, Believed
<1> QED
  BY <1>1, <1>2, <1>3, <1>4, <1>5 DEF SlotNext

\* Only KeepBegins posts.
LEMMA PostsAreSafe ==
  ASSUME SlotIInv, [SlotNext]_slotVars, op.kind = "none", op'.kind = "keep",
         op'.acct \notin mishap
  PROVE  codex[op'.acct] = Quiet /\ op'.gen = tip[op'.acct]
<1>1. op = NoOp /\ op' # NoOp /\ op' # op
  BY OpFacts DEF SlotIInv, NoOp
<1>2. ASSUME NEW a \in Account, KeepBegins(a)
      PROVE  codex[op'.acct] = Quiet /\ op'.gen = tip[op'.acct]
  <2>1. /\ op' = [kind |-> "keep", pc |-> "post", acct |-> a, gen |-> lib[a], seen |-> None]
        /\ codex[a] = Quiet
        /\ a \notin mishap => lib[a] = tip[a]
    BY <1>1, <1>2, KeepBeginsAlone DEF NoOp
  <2> QED
    BY <2>1
<1>3. ASSUME NEW a \in Account, SwitchBegins(a) PROVE FALSE
  BY <1>3 DEF SwitchBegins
<1>4. ASSUME NEW a \in Account, CodexSends(a) \/ CodexAnswered(a) \/ CodexWrites(a)
                                 \/ QuarantineEnds(a) \/ Handover(Tok(a, tip[a]))
      PROVE  FALSE
  BY <1>1, <1>4 DEF CodexSends, CodexAnswered, CodexWrites, QuarantineEnds, Handover
<1>5. ~(Handover(None) \/ Handover(ApiKey) \/ Capture \/ Tick \/ UNCHANGED slotVars)
  BY <1>1 DEF Handover, Capture, Tick, slotVars
<1>6. ~(SlotWorks \/ Crash)
  BY <1>1
     DEF SlotWorks, CommitReads, CommitWrites, SwitchEnds, KeepAnswered, KeepEnds,
         Crash
<1> QED
  BY <1>2, <1>3, <1>4, <1>5, <1>6 DEF SlotNext

\* The inductive invariant of the slot, for any number of accounts, rotations and
\* disturbances, as long as nothing happens that Allow names.
THEOREM SlotInvariant ==
  ASSUME Tame
  PROVE  SlotSpec => []SlotIInv
<1>1. SlotIInv /\ [SlotNext]_slotVars => SlotIInv'
  BY SlotStep
<1> QED
  BY InitSound, <1>1, PTL DEF SlotSpec

\* INV-O2: every chain's tip is in the slot, in the library, or in the hands of
\* somebody about to write it.
THEOREM SlotKeepsTips ==
  ASSUME Tame
  PROVE  SlotSpec => []TipNeverLost
<1>1. SlotIInv => TipNeverLost
  BY DEF SlotIInv, ChainsSafe, Safe, TipNeverLost
<1> QED
  BY SlotInvariant, <1>1, PTL

\* INV-O1: what the plugin posts is the tip, and codex is not posting it.
THEOREM SlotHasOneRefresher ==
  ASSUME Tame
  PROVE  SlotSpec => NeverTwoRefreshers
<1>1. SlotIInv /\ [SlotNext]_slotVars =>
        [op.kind = "none" /\ op'.kind = "keep" /\ op'.acct \notin mishap =>
           codex[op'.acct] = Quiet /\ op'.gen = tip[op'.acct]]_slotVars
  BY PostsAreSafe
<1> QED
  BY SlotInvariant, <1>1, PTL DEF SlotSpec, NeverTwoRefreshers

-----------------------------------------------------------------------------
(* The automatic switch.                                                     *)

\* A prompt of the plugin's is on its way only for a turn that it has marked as
\* handled, and one at most.
SentIsHandled ==
  \A s \in Session : sent[s] \in {0, 1} /\ (sent[s] = 1 => turn[s].handled)

\* The inductive invariant.
SwitchIInv == SwitchTypeOK /\ SentIsHandled

TurnStates == {"none", "busy", "retry", "failed", "done"}

TurnState == [st : TurnStates, handled : BOOLEAN]

JobState == [pc : {"idle", "pick", "redo"}, saw : Account \cup {None}, to : {None},
             mode : {"retry", "error"}]
            \cup [pc : {"write", "wrote"}, saw : Account \cup {None}, to : Account,
                  mode : {"retry", "error"}]

RecState == [pc : {"idle", "load", "switch", "resume"}, todo : SUBSET Session, cur : Session \cup {None}]

LastState == [id : Account, by : Session \cup {Others}] \cup {NoSwitch}

\* The typing invariant, one conjunct each, as the steps below use it.
LEMMA SwitchTypes ==
  SwitchTypeOK <=>
    /\ turn \in [Session -> TurnState] /\ sent \in [Session -> 0 .. 2]
    /\ acted \subseteq Session /\ evt \in [Session -> SUBSET {"retry", "error", "idle"}]
    /\ job \in [Session -> JobState] /\ redo \in [Session -> {"idle", "wait"}]
    /\ attempted \in [Session -> SUBSET Account] /\ stalled \subseteq Session
    /\ active \in Account /\ last \in LastState
    /\ telling \in Account \cup {None}
    /\ cool \in [Account -> {"no", "timed", "pending"}] /\ armed \subseteq Account
    /\ rec \in [Account -> RecState]
    /\ spent \subseteq Account /\ trouble \in 0 .. MaxTrouble
BY DEF SwitchTypeOK, TurnStates, TurnState, JobState, RecState, LastState

\* The same of the next state.
LEMMA SwitchTypesNext ==
  SwitchTypeOK' <=>
    /\ turn' \in [Session -> TurnState] /\ sent' \in [Session -> 0 .. 2]
    /\ acted' \subseteq Session /\ evt' \in [Session -> SUBSET {"retry", "error", "idle"}]
    /\ job' \in [Session -> JobState] /\ redo' \in [Session -> {"idle", "wait"}]
    /\ attempted' \in [Session -> SUBSET Account] /\ stalled' \subseteq Session
    /\ active' \in Account /\ last' \in LastState
    /\ telling' \in Account \cup {None}
    /\ cool' \in [Account -> {"no", "timed", "pending"}] /\ armed' \subseteq Account
    /\ rec' \in [Account -> RecState]
    /\ spent' \subseteq Account /\ trouble' \in 0 .. MaxTrouble
BY DEF SwitchTypeOK, TurnStates, TurnState, JobState, RecState, LastState

LEMMA NewTurnTyped == NewTurn \in TurnState /\ ~NewTurn.handled
BY DEF NewTurn, TurnState, TurnStates

\* Ending the latest turn, or leaving it, does not undo that it was handled.
LEMMA TurnEnds ==
  ASSUME NEW t \in TurnState, NEW st \in TurnStates
  PROVE  [t EXCEPT !.st = st] \in TurnState /\ [t EXCEPT !.st = st].handled = t.handled
BY DEF TurnState

LEMMA TurnIsHandled ==
  ASSUME NEW t \in TurnState
  PROVE  [t EXCEPT !.handled = TRUE] \in TurnState /\ [t EXCEPT !.handled = TRUE].handled
BY DEF TurnState

LEMMA TurnEndsKeeps ==
  ASSUME SwitchIInv, NEW s \in Session, NEW st \in TurnStates,
         turn' = turn \/ turn' = [turn EXCEPT ![s].st = st], sent' = sent
  PROVE  turn' \in [Session -> TurnState] /\ SentIsHandled'
<1>1. turn \in [Session -> TurnState]
  BY SwitchTypes DEF SwitchIInv
<1> DEFINE t == [turn[s] EXCEPT !.st = st]
<1>2. t \in TurnState /\ t.handled = turn[s].handled
  <2>1. turn[s] \in TurnState
    BY <1>1
  <2> QED
    BY <2>1, TurnEnds
<1>3. turn' = turn \/ turn' = [turn EXCEPT ![s] = t]
  OBVIOUS
<1> HIDE DEF t
<1>4. turn' \in [Session -> TurnState] /\ \A x \in Session : turn'[x].handled = turn[x].handled
  BY <1>1, <1>2, <1>3
<1> QED
  BY <1>4 DEF SwitchIInv, SentIsHandled

LEMMA StartRedoKeeps ==
  ASSUME SwitchIInv, NEW s \in Session, NEW abort \in BOOLEAN, StartRedo(s, abort), sent' = sent
  PROVE  /\ turn' \in [Session -> TurnState] /\ SentIsHandled'
         /\ redo' \in [Session -> {"idle", "wait"}]
<1>1. turn' = turn \/ turn' = [turn EXCEPT ![s].st = "failed"]
  BY DEF StartRedo
<1>2. "failed" \in TurnStates
  BY DEF TurnStates
<1>3. turn' \in [Session -> TurnState] /\ SentIsHandled'
  BY <1>1, <1>2, TurnEndsKeeps
<1>4. redo' \in [Session -> {"idle", "wait"}]
  BY SwitchTypes DEF SwitchIInv, StartRedo
<1> QED
  BY <1>3, <1>4

LEMMA NothingSentKeeps ==
  ASSUME SwitchIInv, UNCHANGED <<turn, sent>>
  PROVE  SentIsHandled'
BY DEF SwitchIInv, SentIsHandled

LEMMA DisturbTyped ==
  ASSUME SwitchIInv, Disturb
  PROVE  trouble' \in 0 .. MaxTrouble
BY SwitchAssumption, SwitchTypes DEF SwitchIInv, Disturb

BookTyped == cool' \in [Account -> {"no", "timed", "pending"}] /\ armed' \subseteq Account

\* Cooling or clearing an account, or leaving the book, keeps its type.
LEMMA CoolTyped ==
  ASSUME SwitchIInv, NEW a \in Account,
         (\E c \in {"timed", "pending"} : Cool(a, c)) \/ Clear(a) \/ UNCHANGED book
  PROVE  BookTyped
BY SwitchTypes DEF SwitchIInv, Cool, Clear, book, BookTyped

LEMMA JobTyped ==
  /\ IdleJob \in JobState /\ [IdleJob EXCEPT !.pc = "redo"] \in JobState
  /\ \A a \in Account, mode \in {"retry", "error"} :
       [pc |-> "pick", saw |-> a, to |-> None, mode |-> mode] \in JobState
BY DEF IdleJob, JobState

\* A handler that moves on, or is done.
LEMMA EndedTyped ==
  ASSUME SwitchIInv, NEW s \in Session
  PROVE  Ended(s) \in [Session -> JobState]
BY SwitchTypes, JobTyped DEF SwitchIInv, Ended

LEMMA IdleRecTyped == IdleRec \in RecState
BY DEF IdleRec, RecState

-----------------------------------------------------------------------------
(* The start, and a turn that begins or is answered.                         *)

LEMMA SwitchInitSound == SwitchInit => SwitchIInv
<1> SUFFICES ASSUME SwitchInit PROVE SwitchIInv
  OBVIOUS
<1>1. NoTurn \in TurnState
  BY DEF NoTurn, TurnState, TurnStates
<1>2. SwitchTypeOK
  BY <1>1, JobTyped, IdleRecTyped, SwitchAssumption, SwitchTypes
     DEF SwitchInit, LastState
<1>3. SentIsHandled
  BY DEF SwitchInit, SentIsHandled
<1> QED
  BY <1>2, <1>3 DEF SwitchIInv

LEMMA NewTurnKeeps ==
  ASSUME SwitchIInv, NEW s \in Session, UserSends(s) \/ Shown(s)
  PROVE  SwitchIInv'
<1>1. SwitchTypeOK /\ turn \in [Session -> TurnState] /\ NewTurn \in TurnState
  BY NewTurnTyped, SwitchTypes DEF SwitchIInv
<1>2. /\ turn' = [turn EXCEPT ![s] = NewTurn]
      /\ sent'[s] = 0
      /\ \A x \in Session : x # s => sent'[x] = sent[x]
      /\ sent' \in [Session -> 0 .. 2]
      /\ UNCHANGED <<evt, job, redo, acted, attempted, stalled, switch, book, rec, spent>>
  BY <1>1, SwitchTypes DEF UserSends, Shown, SwitchIInv, SentIsHandled
<1>3. trouble' \in 0 .. MaxTrouble
  BY <1>1, DisturbTyped, SwitchTypes DEF UserSends, Shown
<1>4. turn' \in [Session -> TurnState] /\ \A x \in Session : x # s => turn'[x] = turn[x]
  BY <1>1, <1>2
<1>5. SwitchTypeOK'
  BY <1>1, <1>2, <1>3, <1>4, SwitchTypes, SwitchTypesNext
     DEF switch, book
<1>6. SentIsHandled'
  BY <1>2, <1>4 DEF SwitchIInv, SentIsHandled
<1> QED
  BY <1>5, <1>6 DEF SwitchIInv

LEMMA VerdictKeeps ==
  ASSUME SwitchIInv, NEW s \in Session, Verdict(s)
  PROVE  SwitchIInv'
<1>1. PICK st \in TurnStates, e \in {"idle", "retry", "error"} : Emit(s, st, e)
  BY DEF Verdict, TurnStates
<1>2. /\ turn' = [turn EXCEPT ![s].st = st] /\ evt' = [evt EXCEPT ![s] = @ \cup {e}]
      /\ UNCHANGED <<sent, job, redo, acted, attempted, stalled, switch, book, rec, spent, trouble>>
  BY <1>1 DEF Emit
<1>3. turn' \in [Session -> TurnState] /\ SentIsHandled'
  BY <1>2, TurnEndsKeeps
<1>4. evt' \in [Session -> SUBSET {"retry", "error", "idle"}]
  BY <1>2, SwitchTypes DEF SwitchIInv
<1>5. SwitchTypeOK'
  BY <1>2, <1>3, <1>4, SwitchTypes, SwitchTypesNext
     DEF SwitchIInv, switch, book
<1> QED
  BY <1>3, <1>5 DEF SwitchIInv

-----------------------------------------------------------------------------
(* The book.                                                                 *)

LEMMA QuotaKeeps ==
  ASSUME SwitchIInv, NEW a \in Account, Spend(a) \/ QuotaReturns(a)
  PROVE  SwitchIInv'
<1>1. /\ UNCHANGED <<turn, sent, evt, job, redo, acted, attempted, stalled, switch, book, rec>>
      /\ spent' \subseteq Account
  BY SwitchTypes DEF SwitchIInv, Spend, QuotaReturns, turns
<1>2. trouble' \in 0 .. MaxTrouble
  BY DisturbTyped DEF Spend, QuotaReturns
<1>3. SwitchTypeOK'
  BY <1>1, <1>2, SwitchTypes, SwitchTypesNext DEF SwitchIInv, switch, book
<1> QED
  BY <1>1, <1>3, NothingSentKeeps DEF SwitchIInv

LEMMA ResolvePendingKeeps ==
  ASSUME SwitchIInv, NEW a \in Account, ResolvePending(a)
  PROVE  SwitchIInv'
<1>1. UNCHANGED <<turn, sent, evt, job, redo, acted, attempted, stalled, switch, rec, spent, trouble>>
  BY DEF ResolvePending, turns
<1>2. BookTyped
  BY CoolTyped DEF ResolvePending
<1>3. SwitchTypeOK'
  BY <1>1, <1>2, SwitchTypes, SwitchTypesNext DEF SwitchIInv, switch, BookTyped
<1> QED
  BY <1>1, <1>3, NothingSentKeeps DEF SwitchIInv

LEMMA OthersKeep ==
  ASSUME SwitchIInv, (\E a \in Account : OthersSwitch(a)) \/ OthersTold
  PROVE  SwitchIInv'
<1>1. UNCHANGED <<turn, sent, evt, job, redo, acted, attempted, stalled, spent, rec>>
  BY DEF OthersSwitch, OthersTold, turns
<1>2. active \in Account /\ telling \in Account \cup {None}
  BY SwitchTypes DEF SwitchIInv
<1>3. BookTyped
  BY <1>2, CoolTyped DEF OthersSwitch, OthersTold, Deadlines
<1>4. trouble' \in 0 .. MaxTrouble
  BY DisturbTyped, SwitchTypes DEF SwitchIInv, OthersSwitch, OthersTold
<1>5. active' \in Account /\ telling' \in Account \cup {None}
  BY <1>2 DEF OthersSwitch, OthersTold
<1>6. last' \in LastState
  BY <1>2, SwitchTypes DEF SwitchIInv, OthersSwitch, OthersTold, LastState
<1>7. SwitchTypeOK'
  BY <1>1, <1>3, <1>4, <1>5, <1>6, SwitchTypes, SwitchTypesNext DEF SwitchIInv, BookTyped
<1> QED
  BY <1>1, <1>7, NothingSentKeeps DEF SwitchIInv

LEMMA GuardLapsesKeeps ==
  ASSUME SwitchIInv, GuardLapses
  PROVE  SwitchIInv'
<1>1. /\ UNCHANGED <<turn, sent, evt, job, redo, attempted, stalled, active, telling, book, rec,
                    spent, trouble>>
      /\ acted' \subseteq acted /\ last' \in {last, NoSwitch}
  BY DEF GuardLapses, turns
<1>2. SwitchTypeOK'
  BY <1>1, SwitchTypes, SwitchTypesNext DEF SwitchIInv, book, LastState
<1> QED
  BY <1>1, <1>2, NothingSentKeeps DEF SwitchIInv

-----------------------------------------------------------------------------
(* The redo.                                                                 *)

LEMMA RepromptKeeps ==
  ASSUME SwitchIInv, NEW s \in Session, Reprompt(s)
  PROVE  SwitchIInv'
<1>1. /\ UNCHANGED <<evt, acted, attempted, stalled, switch, book, rec, spent, trouble>>
      /\ redo' \in [Session -> {"idle", "wait"}] /\ job' \in [Session -> JobState]
  BY EndedTyped, SwitchTypes DEF SwitchIInv, Reprompt
<1>2. turn' \in [Session -> TurnState] /\ sent' \in [Session -> 0 .. 2] /\ SentIsHandled'
  <2>1. CASE UNCHANGED <<turn, sent>>
    BY <2>1, SwitchTypes, NothingSentKeeps DEF SwitchIInv
  <2>2. CASE /\ ~turn[s].handled
             /\ turn' = [turn EXCEPT ![s].handled = TRUE]
             /\ sent' = [sent EXCEPT ![s] = @ + 1]
    <3> DEFINE t == [turn[s] EXCEPT !.handled = TRUE]
    <3>1. turn \in [Session -> TurnState]
      BY SwitchTypes DEF SwitchIInv
    <3>2. t \in TurnState /\ t.handled
      <4>1. turn[s] \in TurnState
        BY <3>1
      <4> QED
        BY <4>1, TurnIsHandled
    <3>3. turn' = [turn EXCEPT ![s] = t]
      BY <2>2
    <3> HIDE DEF t
    <3>4. /\ turn' \in [Session -> TurnState] /\ turn'[s].handled
          /\ \A x \in Session : x # s => turn'[x] = turn[x]
      BY <3>1, <3>2, <3>3
    <3>5. sent[s] = 0 /\ sent \in [Session -> 0 .. 2]
      BY <2>2, SwitchTypes DEF SwitchIInv, SentIsHandled
    <3>6. /\ sent' \in [Session -> 0 .. 2] /\ sent'[s] = 1
          /\ \A x \in Session : x # s => sent'[x] = sent[x]
      BY <2>2, <3>5
    <3> QED
      BY <3>4, <3>6 DEF SwitchIInv, SentIsHandled
  <2> QED
    BY <2>1, <2>2 DEF Reprompt, Handled
<1>3. SwitchTypeOK'
  BY <1>1, <1>2, SwitchTypes, SwitchTypesNext DEF SwitchIInv, switch, book
<1> QED
  BY <1>2, <1>3 DEF SwitchIInv

LEMMA JobsKeep ==
  ASSUME SwitchIInv, NEW s \in Session, WaitTimesOut(s) \/ StandDown(s)
  PROVE  SwitchIInv'
<1>1. /\ UNCHANGED <<turn, sent, evt, acted, attempted, switch, book, rec, spent, trouble>>
      /\ stalled' \in {stalled, stalled \cup {s}}
  BY DEF WaitTimesOut, StandDown, turns
<1>2. redo' \in [Session -> {"idle", "wait"}] /\ job' \in [Session -> JobState]
  BY EndedTyped, SwitchTypes, JobTyped DEF SwitchIInv, WaitTimesOut, StandDown
<1>3. SwitchTypeOK'
  BY <1>1, <1>2, SwitchTypes, SwitchTypesNext DEF SwitchIInv, switch, book
<1> QED
  BY <1>1, <1>3, NothingSentKeeps DEF SwitchIInv

-----------------------------------------------------------------------------
(* The handler.                                                              *)

LEMMA GoKeeps ==
  ASSUME SwitchIInv, NEW s \in Session, NEW mode \in {"retry", "error"}, Go(s, mode), sent' = sent
  PROVE  /\ turn' \in [Session -> TurnState] /\ SentIsHandled'
         /\ redo' \in [Session -> {"idle", "wait"}]
         /\ acted' \subseteq Session /\ job' \in [Session -> JobState]
<1>1. StartRedo(s, mode = "retry") /\ (mode = "retry") \in BOOLEAN
  BY DEF Go
<1>2. acted' \subseteq Session /\ job' \in [Session -> JobState]
  <2> DEFINE j == [IdleJob EXCEPT !.pc = IF redo[s] = "idle" THEN "redo" ELSE "idle"]
  <2>1. j \in JobState
    BY DEF IdleJob, JobState
  <2>2. job' = [job EXCEPT ![s] = j] /\ acted' = acted \cup {s}
    BY DEF Go
  <2> HIDE DEF j
  <2> QED
    BY <2>1, <2>2, SwitchTypes DEF SwitchIInv
<1> QED
  BY <1>1, <1>2, StartRedoKeeps

LEMMA LimitEventKeeps ==
  ASSUME SwitchIInv, NEW s \in Session, NEW mode \in {"retry", "error"}, LimitEvent(s, mode)
  PROVE  SwitchIInv'
<1>1. /\ UNCHANGED <<sent, attempted, stalled, switch, rec, spent, trouble>>
      /\ evt' \in [Session -> SUBSET {"retry", "error", "idle"}]
  BY SwitchTypes DEF SwitchIInv, LimitEvent
<1> DEFINE Handled1 == /\ turn' \in [Session -> TurnState] /\ SentIsHandled'
                      /\ redo' \in [Session -> {"idle", "wait"}]
                      /\ acted' \subseteq Session /\ job' \in [Session -> JobState]
<1>2. active \in Account /\ job \in [Session -> JobState]
  BY SwitchTypes DEF SwitchIInv
<1>3. BookTyped
  BY <1>2, CoolTyped DEF LimitEvent, Deadlines
<1>4. Handled1
  <2>1. CASE UNCHANGED <<turn, job, acted, redo>>
    BY <1>1, <2>1, NothingSentKeeps, SwitchTypes DEF SwitchIInv
  <2>2. CASE Go(s, mode)
    BY <1>1, <2>2, GoKeeps
  <2>3. CASE /\ job' = [job EXCEPT ![s] = [pc |-> "pick", saw |-> active, to |-> None,
                                          mode |-> mode]]
             /\ UNCHANGED <<turn, acted, redo>>
    <3>1. job' \in [Session -> JobState]
      BY <1>2, <2>3, JobTyped
    <3> QED
      BY <1>1, <2>3, <3>1, NothingSentKeeps, SwitchTypes DEF SwitchIInv
  <2> QED
    BY <2>1, <2>2, <2>3 DEF LimitEvent
<1>5. SwitchTypeOK'
  BY <1>1, <1>3, <1>4, SwitchTypes, SwitchTypesNext DEF SwitchIInv, switch, BookTyped
<1> QED
  BY <1>4, <1>5 DEF SwitchIInv

\* The moves of a job to a candidate, and back when the switch to it fails.
LEMMA JobMoves ==
  ASSUME NEW j \in JobState, NEW a \in Account
  PROVE  /\ [j EXCEPT !.pc = "write", !.to = a] \in JobState
         /\ [j EXCEPT !.pc = "pick", !.to = None] \in JobState
         /\ j.pc \in {"write", "wrote"} =>
              j.to \in Account /\ [j EXCEPT !.pc = "wrote", !.saw = None] \in JobState
         /\ j.mode \in {"retry", "error"}
BY DEF JobState

LEMMA PicksKeeps ==
  ASSUME SwitchIInv, NEW s \in Session, NEW a \in Account, Picks(s, a)
  PROVE  SwitchIInv'
<1>1. UNCHANGED <<turn, sent, evt, redo, acted, attempted, stalled, switch, book, rec, spent, trouble>>
  BY DEF Picks, turns
<1> DEFINE j == [job[s] EXCEPT !.pc = "write", !.to = a]
<1>2. job \in [Session -> JobState] /\ job' = [job EXCEPT ![s] = j]
  BY SwitchTypes DEF SwitchIInv, Picks
<1>3. j \in JobState
  <2>1. job[s] \in JobState
    BY <1>2
  <2> QED
    BY <2>1, JobMoves
<1> HIDE DEF j
<1>4. job' \in [Session -> JobState]
  BY <1>2, <1>3
<1>5. SwitchTypeOK'
  BY <1>1, <1>4, SwitchTypes, SwitchTypesNext DEF SwitchIInv, switch, book
<1> QED
  BY <1>1, <1>5, NothingSentKeeps DEF SwitchIInv

LEMMA SwitchWritesKeeps ==
  ASSUME SwitchIInv, NEW s \in Session, SwitchWrites(s)
  PROVE  SwitchIInv'
<1>1. /\ UNCHANGED <<turn, sent, evt, redo, acted, attempted, stalled, last, telling, book, rec,
                    spent, trouble>>
      /\ active' = job[s].to
  BY DEF SwitchWrites, turns
<1> DEFINE j == [job[s] EXCEPT !.pc = "wrote", !.saw = None]
<1>2. /\ job \in [Session -> JobState] /\ job' = [job EXCEPT ![s] = j]
      /\ active \in Account /\ job[s].pc = "write"
  BY SwitchTypes DEF SwitchIInv, SwitchWrites
<1>3. j \in JobState /\ job[s].to \in Account
  <2>1. job[s] \in JobState
    BY <1>2
  <2> QED
    BY <1>2, <2>1, JobMoves
<1> HIDE DEF j
<1>4. job' \in [Session -> JobState]
  BY <1>2, <1>3
<1>5. SwitchTypeOK'
  BY <1>1, <1>3, <1>4, SwitchTypes, SwitchTypesNext DEF SwitchIInv, book
<1> QED
  BY <1>1, <1>5, NothingSentKeeps DEF SwitchIInv

LEMMA SwitchToKeeps ==
  ASSUME SwitchIInv, NEW s \in Session, SwitchTo(s)
  PROVE  SwitchIInv'
<1>1. /\ UNCHANGED <<sent, evt, stalled, active, telling, book, rec, spent, trouble>>
      /\ last' = [id |-> job[s].to, by |-> s]
      /\ attempted' = [attempted EXCEPT ![s] = attempted[s] \cup {job[s].to}]
  BY DEF SwitchTo, Tried
<1>2. job[s].to \in Account /\ job[s].mode \in {"retry", "error"} /\ Go(s, job[s].mode)
  <2>1. job[s] \in JobState /\ job[s].pc = "wrote" /\ active \in Account
    BY SwitchTypes DEF SwitchIInv, SwitchTo
  <2> QED
    BY <2>1, JobMoves DEF SwitchTo
<1>3. /\ turn' \in [Session -> TurnState] /\ SentIsHandled'
      /\ redo' \in [Session -> {"idle", "wait"}]
      /\ acted' \subseteq Session /\ job' \in [Session -> JobState]
  BY <1>1, <1>2, GoKeeps
<1>4. last' \in LastState /\ attempted' \in [Session -> SUBSET Account]
  BY <1>1, <1>2, SwitchTypes DEF SwitchIInv, LastState
<1>5. SwitchTypeOK'
  BY <1>1, <1>3, <1>4, SwitchTypes, SwitchTypesNext DEF SwitchIInv, book
<1> QED
  BY <1>3, <1>5 DEF SwitchIInv

LEMMA SwitchFailsKeeps ==
  ASSUME SwitchIInv, NEW s \in Session, SwitchFails(s)
  PROVE  SwitchIInv'
<1>1. /\ UNCHANGED <<turn, sent, evt, redo, acted, stalled, switch, rec, spent>>
      /\ Cool(job[s].to, "pending")
      /\ attempted' = [attempted EXCEPT ![s] = attempted[s] \cup {job[s].to}]
  BY DEF SwitchFails, Tried, turns
<1> DEFINE j == [job[s] EXCEPT !.pc = "pick", !.to = None]
<1>2. /\ job \in [Session -> JobState] /\ job' = [job EXCEPT ![s] = j]
      /\ active \in Account /\ job[s].pc = "write"
  BY SwitchTypes DEF SwitchIInv, SwitchFails
<1>3. j \in JobState /\ job[s].to \in Account
  <2>1. job[s] \in JobState
    BY <1>2
  <2> QED
    BY <1>2, <2>1, JobMoves
<1> HIDE DEF j
<1>4. job' \in [Session -> JobState]
  BY <1>2, <1>3
<1>5. BookTyped /\ trouble' \in 0 .. MaxTrouble
  BY <1>1, <1>3, CoolTyped, DisturbTyped DEF SwitchFails
<1>6. attempted' \in [Session -> SUBSET Account]
  BY <1>1, <1>3, SwitchTypes DEF SwitchIInv
<1>7. SwitchTypeOK'
  BY <1>1, <1>4, <1>5, <1>6, SwitchTypes, SwitchTypesNext DEF SwitchIInv, switch, BookTyped
<1> QED
  BY <1>1, <1>7, NothingSentKeeps DEF SwitchIInv

LEMMA IdleEventKeeps ==
  ASSUME SwitchIInv, NEW s \in Session, IdleEvent(s)
  PROVE  SwitchIInv'
<1>1. UNCHANGED <<turn, sent, job, redo, switch, spent, rec, trouble>>
  BY DEF IdleEvent
<1>2. evt' \in [Session -> SUBSET {"retry", "error", "idle"}]
  BY SwitchTypes DEF SwitchIInv, IdleEvent
<1>3. /\ Clear(active) \/ UNCHANGED book
      /\ attempted' \in {attempted, [attempted EXCEPT ![s] = {}]}
      /\ acted' \subseteq acted /\ stalled' \subseteq stalled
  BY DEF IdleEvent
<1>4. BookTyped /\ attempted' \in [Session -> SUBSET Account]
  <2>1. active \in Account
    BY SwitchTypes DEF SwitchIInv
  <2> QED
    BY <1>3, <2>1, CoolTyped, SwitchTypes DEF SwitchIInv
<1>5. SwitchTypeOK'
  BY <1>1, <1>2, <1>3, <1>4, SwitchTypes, SwitchTypesNext DEF SwitchIInv, switch, BookTyped
<1> QED
  BY <1>1, <1>5, NothingSentKeeps DEF SwitchIInv

-----------------------------------------------------------------------------
(* The recovery.                                                             *)

LEMMA RecoverKeeps ==
  ASSUME SwitchIInv, NEW a \in Account, TimerFires(a) \/ Recover(a) \/ RecoverSwitches(a)
  PROVE  SwitchIInv'
<1>1. /\ UNCHANGED <<turn, sent, evt, job, redo, acted, attempted, stalled, last, telling, spent>>
      /\ armed' \subseteq armed
      /\ cool' = [cool EXCEPT ![a] = IF @ = "timed" THEN "no" ELSE @] \/ cool' = cool
  BY DEF TimerFires, Recover, RecoverSwitches, turns, switch, book
<1>2. /\ rec \in [Account -> RecState] /\ stalled \subseteq Session /\ active \in Account
      /\ cool \in [Account -> {"no", "timed", "pending"}] /\ trouble \in 0 .. MaxTrouble
  BY SwitchTypes DEF SwitchIInv
<1>3. rec' \in [Account -> RecState]
  <2> DEFINE r == [rec[a] EXCEPT !.pc = "load"]
             p == [IdleRec EXCEPT !.pc = "switch"]
             q == [IdleRec EXCEPT !.pc = "resume", !.todo = stalled]
  <2>1. rec[a] \in RecState
    BY <1>2
  <2>2. r \in RecState
    BY <2>1 DEF RecState
  <2>3. p \in RecState /\ q \in RecState
    BY <1>2 DEF IdleRec, RecState
  <2>4. \/ rec' = [rec EXCEPT ![a] = r] \/ rec' = [rec EXCEPT ![a] = p]
        \/ rec' = [rec EXCEPT ![a] = q] \/ rec' = [rec EXCEPT ![a] = IdleRec]
    BY <1>2 DEF TimerFires, Recover, RecoverSwitches
  <2> HIDE DEF r, p, q
  <2> QED
    BY <1>2, <2>2, <2>3, <2>4, IdleRecTyped
<1>4. cool' \in [Account -> {"no", "timed", "pending"}]
  <2>1. cool[a] \in {"no", "timed", "pending"}
    BY <1>2
  <2> QED
    BY <1>1, <1>2, <2>1
<1>5. active' \in Account /\ trouble' \in 0 .. MaxTrouble
  BY <1>2, DisturbTyped DEF TimerFires, Recover, RecoverSwitches, Calm, switch
<1>6. SwitchTypeOK'
  BY <1>1, <1>3, <1>4, <1>5, SwitchTypes, SwitchTypesNext DEF SwitchIInv
<1> QED
  BY <1>1, <1>6, NothingSentKeeps DEF SwitchIInv

LEMMA ResumeKeeps ==
  ASSUME SwitchIInv, NEW s \in Session, NEW a \in Account, Resume(s, a)
  PROVE  SwitchIInv'
<1>1. /\ UNCHANGED <<sent, evt, job, switch, book, spent, trouble>>
      /\ stalled' \subseteq stalled /\ acted' \subseteq acted
      /\ attempted' = [attempted EXCEPT ![s] = {}]
      /\ StartRedo(s, FALSE)
  BY DEF Resume
<1>2. /\ turn' \in [Session -> TurnState] /\ SentIsHandled'
      /\ redo' \in [Session -> {"idle", "wait"}]
  BY <1>1, StartRedoKeeps
<1>3. rec' \in [Account -> RecState]
  <2> DEFINE r == [pc |-> "resume", todo |-> rec[a].todo \ {s},
                   cur |-> IF redo[s] = "idle" THEN s ELSE None]
  <2>1. rec \in [Account -> RecState] /\ rec[a] \in RecState
    BY SwitchTypes DEF SwitchIInv
  <2>2. r \in RecState
    BY <2>1 DEF RecState
  <2>3. rec' = [rec EXCEPT ![a] = r] \/ rec' = [rec EXCEPT ![a] = IdleRec]
    BY <2>1 DEF Resume
  <2> HIDE DEF r
  <2> QED
    BY <2>1, <2>2, <2>3, IdleRecTyped
<1>4. attempted' \in [Session -> SUBSET Account]
  BY <1>1, SwitchTypes DEF SwitchIInv
<1>5. SwitchTypeOK'
  BY <1>1, <1>2, <1>3, <1>4, SwitchTypes, SwitchTypesNext DEF SwitchIInv, switch, book
<1> QED
  BY <1>2, <1>5 DEF SwitchIInv

-----------------------------------------------------------------------------
(* Every step.                                                               *)

LEMMA SwitchStepKeeps == SwitchIInv /\ [SwitchNext]_switchVars => SwitchIInv'
<1> SUFFICES ASSUME SwitchIInv, [SwitchNext]_switchVars PROVE SwitchIInv'
  OBVIOUS
<1>1. CASE UNCHANGED switchVars
  <2>1. UNCHANGED <<turn, sent, evt, job, redo, acted, attempted, stalled, switch, book, rec,
                    spent, trouble>>
    BY <1>1 DEF switchVars, turns
  <2>2. SwitchTypeOK'
    BY <2>1, SwitchTypes, SwitchTypesNext DEF SwitchIInv, switch, book
  <2> QED
    BY <2>1, <2>2, NothingSentKeeps DEF SwitchIInv
<1>2. ASSUME NEW s \in Session, UserSends(s) \/ Shown(s) \/ Verdict(s)
      PROVE  SwitchIInv'
  BY <1>2, NewTurnKeeps, VerdictKeeps
<1>3. ASSUME NEW s \in Session, NEW mode \in {"retry", "error"}, LimitEvent(s, mode)
      PROVE  SwitchIInv'
  BY <1>3, LimitEventKeeps
<1>4. ASSUME NEW s \in Session, IdleEvent(s) \/ \E a \in Account : Resume(s, a)
      PROVE  SwitchIInv'
  BY <1>4, IdleEventKeeps, ResumeKeeps
<1>5. ASSUME NEW s \in Session, Handle(s)
      PROVE  SwitchIInv'
  BY <1>5, RepromptKeeps, JobsKeep, PicksKeeps, SwitchWritesKeeps, SwitchToKeeps, SwitchFailsKeeps
     DEF Handle
<1>6. ASSUME NEW a \in Account, Spend(a) \/ QuotaReturns(a) \/ ResolvePending(a)
      PROVE  SwitchIInv'
  BY <1>6, QuotaKeeps, ResolvePendingKeeps
<1>7. ASSUME NEW a \in Account, TimerFires(a) \/ Recover(a) \/ RecoverSwitches(a)
      PROVE  SwitchIInv'
  BY <1>7, RecoverKeeps
<1> QED
  BY <1>1, <1>2, <1>3, <1>4, <1>5, <1>6, <1>7, OthersKeep, GuardLapsesKeeps DEF SwitchNext

\* However many events report one failed turn, and whoever acts on them, at most
\* one prompt is sent for it: repromptFailedTurn's check of the handled message
\* id holds up for any number of sessions, accounts and interleavings.
THEOREM SwitchInvariant == SwitchSpec => []SwitchInv
<1>1. SwitchIInv => SwitchInv
  BY DEF SwitchIInv, SwitchInv, SentIsHandled, RedoneOnce
<1> QED
  BY <1>1, SwitchInitSound, SwitchStepKeeps, PTL DEF SwitchSpec

=============================================================================
