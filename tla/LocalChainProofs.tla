-------------------------- MODULE LocalChainProofs --------------------------
(***************************************************************************)
(* Theorems about LocalChain, for any accounts and bounds.  The invariant  *)
(* says what an operation of the plugin may rely on from its first read to *)
(* its last write, although OpenCode and logins take no lock: where the    *)
(* token it holds is kept meanwhile, and how the file it will write        *)
(* differs from the library it replaces.                                   *)
(***************************************************************************)
EXTENDS LocalChain, TLAPS

USE ChainAssumption

\* t is the newest token of a; t will never be honoured again.
Newest(t, a) == t[1] = a /\ t[2] = tip[a]
Dead(t) == t[1] \in Account => t[2] < tip[t[1]]
Issued(t) == t[1] \in Account => t[2] <= tip[t[1]]

\* Operations that end in a write of the library they read.
Rewrites == op.kind \in {"inactive", "retry", "sync", "remove", "switch"}

-----------------------------------------------------------------------------
(* What holds whatever happens.                                            *)

AllIssued ==
  /\ Issued(auth.tok) /\ Issued(ex) /\ Issued(op.tok)
  /\ \A a \in Account : Issued(lib[a].tok)
  /\ Rewrites => \A a \in Account : Issued(op.file[a].tok)

\* A brand is true on record and in the file about to replace it.
BrandsTrue ==
  /\ \A a \in Account : lib[a].reauth => Dead(lib[a].tok)
  /\ Rewrites => \A a \in Account : op.file[a].reauth => Dead(op.file[a].tok)

\* The active account has a record, which no operation removes.
ActiveOnRecord ==
  /\ active \in Account /\ lib[active].tok # NoTok
  /\ op.kind \in {"inactive", "remove"} => op.acct # active
  /\ op.kind = "sync" => op.acct = active
  /\ op.pc = "auth" => op.kind = "switch" /\ op.acct = active
  /\ Rewrites => \A a \in Account :
       op.file[a].tok # NoTok <=> lib[a].tok # NoTok /\ ~(op.kind = "remove" /\ a = op.acct)

\* What an operation posts stays on record until the answer; what it will file,
\* it holds.
OpShape ==
  /\ op.kind \in {"capture", "inactive", "retry", "sync", "remove", "switch"} => op.acct \in Account
  /\ op.kind \in {"inactive", "retry", "switch"} /\ op.pc = "post" => lib[op.acct].tok = op.tok
  /\ op.kind \in {"inactive", "retry", "sync", "switch"} => op.file[op.acct].tok = op.tok
  /\ op.kind \in {"active", "capture", "inactive", "retry", "sync", "switch"} => op.tok # NoTok
  /\ op.kind = "retry" => op.pc = "post" /\ Dead(op.tok)
  /\ op.kind = "active" => op.pc \in {"post", "put"}
  /\ op.kind = "inactive" => op.pc \in {"post", "put"}
  /\ op.kind \in {"capture", "sync", "remove"} => op.pc = "put"
  /\ op.kind = "remove" => op.tok = NoTok

-----------------------------------------------------------------------------
(* What holds but for the exposures the code leaves open.                  *)

\* A record is its account's, and so is what an operation holds for it.
OwnTokens ==
  /\ \A a \in Account : lib[a].tok # NoTok => lib[a].tok[1] = a
  /\ Rewrites => \A a \in Account : op.file[a].tok # NoTok => op.file[a].tok[1] = a
  /\ op.kind \in {"capture", "inactive", "retry", "sync", "switch"} => op.tok[1] = op.acct

\* The file changes no record but those the operation is about, and none for
\* an older token.
FileAhead ==
  /\ Rewrites => \A a \in Account :
       (a # op.acct /\ ~(op.kind = "switch" /\ a = active)) => op.file[a].tok = lib[a].tok
  /\ Rewrites /\ op.kind # "remove" => \A a \in Account : lib[a].tok[2] <= op.file[a].tok[2]
  /\ op.pc = "auth" => \A a \in Account : op.file[a].tok = lib[a].tok

\* The entry of auth.json is no older than its account's record, unless a switch
\* is between its two writes; and only the active account's record is level.
EntryAhead ==
  (auth.tok # NoTok /\ op.pc # "auth") =>
    /\ lib[auth.tok[1]].tok[2] <= auth.tok[2]
    /\ lib[auth.tok[1]].tok[2] = auth.tok[2] => active = auth.tok[1]

\* What the session's provider has got replaces the entry it came from.
ExSucceeds ==
  ex # NoTok => /\ auth.tok # NoTok /\ auth.tok[1] = ex[1] /\ auth.tok[2] < ex[2]
                /\ op.kind \notin {"active", "switch"}

\* While an operation runs, auth.json's entry ...
EntryMeanwhile ==
  \* is the one being refreshed,
  /\ op.kind = "active" => /\ auth.tok # NoTok /\ auth.tok[1] = op.tok[1]
                           /\ op.pc = "post" => auth.tok[2] = op.tok[2]
                           /\ op.pc = "put" => auth.tok[2] < op.tok[2]
  \* is the one read, or newer,
  /\ op.kind \in {"capture", "sync"} /\ auth.tok[1] = op.acct => auth.tok[2] >= op.tok[2]
  \* or that of a login, not on record yet,
  /\ op.kind = "capture" /\ auth.tok # NoTok /\ auth.tok[1] # op.acct =>
       lib[auth.tok[1]].tok[2] < auth.tok[2]
  /\ op.kind = "inactive" /\ op.pc = "put" /\ auth.tok[1] = op.acct => auth.tok[2] > op.tok[2]
  \* or is in the file a switch writes first, or dead.
  /\ op.kind = "switch" /\ auth.tok # NoTok =>
       op.file[auth.tok[1]].tok = auth.tok \/ Dead(auth.tok)

KeptSomewhere(a) ==
  Newest(auth.tok, a) \/ Newest(ex, a) \/ Newest(lib[a].tok, a) \/ Newest(op.tok, a)

AllKept == \A a \in Account : lib[a].tok # NoTok => KeptSomewhere(a)

\* The inductive invariant.
Always == ChainTypeOK /\ AllIssued /\ BrandsTrue /\ ActiveOnRecord /\ OpShape
Unexposed == OwnTokens /\ FileAhead /\ EntryAhead /\ ExSucceeds /\ EntryMeanwhile /\ AllKept

LocalIInv == Always /\ (mishap \/ Unexposed)
-----------------------------------------------------------------------------
(* Tokens, as the state holds them.                                        *)

Slot == Token \cup {NoTok}

LEMMA TokenFacts ==
  /\ NoTok \in Slot /\ NoTok[1] = None /\ NoTok[2] = 0
  /\ \A t \in Slot : /\ t[1] \in Who /\ t[2] \in 0 .. MaxGen
                     /\ t # NoTok => t[1] \in Account /\ t[2] \in 1 .. MaxGen
                     /\ t[1] = None => t = NoTok
                     /\ IsTip(t) <=> t # NoTok /\ t[2] = tip[t[1]]
  /\ \A t, u \in Slot : t[1] = u[1] /\ t[2] = u[2] => t = u
  /\ \A a \in Account, n \in 1 .. MaxGen :
       <<a, n>> \in Slot /\ <<a, n>> # NoTok /\ <<a, n>>[1] = a /\ <<a, n>>[2] = n
<1>1. \A t \in Token : t = <<t[1], t[2]>> /\ t[1] \in Account /\ t[2] \in 1 .. MaxGen
  BY DEF Token
<1>2. None \notin Account
  OBVIOUS
<1>3. \A a \in Account, n \in 1 .. MaxGen : <<a, n>> \in Token /\ <<a, n>> # NoTok
  BY DEF Token, NoTok
<1>4. NoTok[1] = None /\ NoTok[2] = 0 /\ NoTok = <<NoTok[1], NoTok[2]>>
  BY DEF NoTok
<1>5. \A t \in Slot : t = <<t[1], t[2]>>
  BY <1>1, <1>4 DEF Slot
<1>6. \A t \in Slot : t # NoTok => t \in Token
  BY DEF Slot
<1>7. \A t \in Slot : IsTip(t) <=> t # NoTok /\ t[2] = tip[t[1]]
  BY <1>5 DEF IsTip, Tip
<1>8. MaxGen \in Nat
  OBVIOUS
<1>9. \A t, u \in Slot : t[1] = u[1] /\ t[2] = u[2] => t = u
  BY <1>5
<1>10. \A t \in Slot : t[1] \in Who /\ t[2] \in 0 .. MaxGen
  BY <1>1, <1>4, <1>6, <1>8 DEF Who
<1>11. \A t \in Slot : t[1] = None => t = NoTok
  BY <1>1, <1>2, <1>6
<1> QED
  BY <1>1, <1>3, <1>4, <1>6, <1>7, <1>9, <1>10, <1>11 DEF Slot

\* What the type invariant says of the tokens and of the operation.
Tokens ==
  /\ auth.tok \in Slot /\ ex \in Slot /\ op.tok \in Slot
  /\ \A a \in Account : tip[a] \in 1 .. MaxGen /\ lib[a].tok \in Slot
  /\ op = NoOp => op.kind = "none" /\ op.pc = "idle" /\ op.tok = NoTok
  /\ op # NoOp => /\ op.kind # "none" /\ op.pc # "idle"
                  /\ \A a \in Account : op.file[a].tok \in Slot

LEMMA StateTokens == ChainTypeOK => Tokens
<1>1. op \in Op => op.tok \in Slot /\ op.kind # "none" /\ op.pc # "idle"
                   /\ \A a \in Account : op.file[a] \in Record
  BY DEF Op, Slot
<1>2. \A r \in Record \cup Entry : r.tok \in Slot
  BY DEF Record, Entry, Slot
<1>3. NoOp.kind = "none" /\ NoOp.pc = "idle" /\ NoOp.tok = NoTok /\ NoTok \in Slot
  BY DEF NoOp, Slot
<1> QED
  BY <1>1, <1>2, <1>3 DEF ChainTypeOK, Tokens, Slot

\* Steps that touch neither a token nor the operation.
LEMMA QuietStep ==
  ASSUME LocalIInv, ChainTypeOK', UNCHANGED <<tip, auth, lib, active, ex, op, mishap>>
  PROVE  LocalIInv'
<1>1. ChainTypeOK'
  OBVIOUS
<1>2. Tokens /\ Tokens' /\ Always
  BY <1>1, StateTokens, PTL DEF LocalIInv, Always
<1>3. AllIssued'
  BY <1>2, TokenFacts DEF Tokens, Always, AllIssued, Issued, Rewrites
<1>4. BrandsTrue'
  BY <1>2, TokenFacts DEF Tokens, Always, BrandsTrue, Dead, Rewrites
<1>5. ActiveOnRecord'
  BY <1>2, TokenFacts DEF Tokens, Always, ActiveOnRecord, Rewrites
<1>6. OpShape'
  BY <1>2, TokenFacts DEF Tokens, Always, OpShape, Dead
<1>7. ASSUME ~mishap' PROVE Unexposed'
  <2>1. Unexposed
    BY <1>7, <1>2 DEF LocalIInv
  <2>2. OwnTokens'
    BY <2>1, <1>2, TokenFacts DEF Tokens, Unexposed, OwnTokens, Rewrites
  <2>3. FileAhead'
    BY <2>1, <1>2, TokenFacts DEF Tokens, Unexposed, FileAhead, Rewrites
  <2>4. EntryAhead'
    BY <2>1, <1>2, TokenFacts DEF Tokens, Unexposed, EntryAhead
  <2>5. ExSucceeds'
    BY <2>1, <1>2, TokenFacts DEF Tokens, Unexposed, ExSucceeds
  <2>6. EntryMeanwhile'
    BY <2>1, <1>2, TokenFacts DEF Tokens, Unexposed, EntryMeanwhile, Dead
  <2>7. AllKept'
    BY <2>1, <1>2, TokenFacts DEF Tokens, Unexposed, AllKept, KeptSomewhere, Newest
  <2> QED
    BY <2>2, <2>3, <2>4, <2>5, <2>6, <2>7 DEF Unexposed
<1> QED
  BY <1>1, <1>3, <1>4, <1>5, <1>6, <1>7 DEF LocalIInv, Always

\* The entry itself is posted: it is the one being refreshed.
LEMMA KeepActiveStep ==
  ASSUME LocalIInv, KeepActive
  PROVE  LocalIInv'
<1>1. ChainTypeOK'
  BY DEF LocalIInv, Always, ChainTypeOK, KeepActive, Calm, Start, Op, Entry, Who
<1>2. Tokens /\ Tokens' /\ Always
  BY <1>1, StateTokens, PTL DEF LocalIInv, Always
<1>3. UNCHANGED <<tip, auth, lib, active, ex>> /\ op = NoOp /\ auth.tok # NoTok
  BY DEF KeepActive, Free
<1>4. op'.kind = "active" /\ op'.pc = "post" /\ op'.tok = auth.tok
  BY DEF KeepActive, Start
<1>5. mishap' = (mishap \/ ex # NoTok)
  BY DEF KeepActive, Races
<1>6. AllIssued'
  BY <1>2, <1>3, <1>4, <1>5, TokenFacts
     DEF Tokens, Always, AllIssued, Issued, Rewrites
<1>7. BrandsTrue'
  BY <1>2, <1>3, <1>4, <1>5, TokenFacts
     DEF Tokens, Always, BrandsTrue, Dead, Rewrites
<1>8. ActiveOnRecord'
  BY <1>2, <1>3, <1>4, <1>5, TokenFacts DEF Tokens, Always, ActiveOnRecord, Rewrites
<1>9. OpShape'
  BY <1>2, <1>3, <1>4, <1>5, TokenFacts DEF Tokens, Always, OpShape, Dead
<1>10. ASSUME ~mishap' PROVE Unexposed'
  <2>1. Unexposed /\ ex = NoTok
    BY <1>10, <1>2, <1>3, <1>4, <1>5 DEF LocalIInv
  <2>2. OwnTokens'
    BY <2>1, <1>2, <1>3, <1>4, <1>5, TokenFacts
       DEF Tokens, Unexposed, OwnTokens, Rewrites
  <2>3. FileAhead'
    BY <2>1, <1>2, <1>3, <1>4, <1>5, TokenFacts
       DEF Tokens, Unexposed, FileAhead, Rewrites
  <2>4. EntryAhead'
    BY <2>1, <1>2, <1>3, <1>4, <1>5, TokenFacts DEF Tokens, Unexposed, EntryAhead
  <2>5. ExSucceeds'
    BY <2>1, <1>2, <1>3, <1>4, <1>5, TokenFacts DEF Tokens, Unexposed, ExSucceeds
  <2>6. EntryMeanwhile'
    BY <2>1, <1>2, <1>3, <1>4, <1>5, TokenFacts
       DEF Tokens, Unexposed, EntryMeanwhile, Dead
  <2>7. AllKept'
    BY <2>1, <1>2, <1>3, <1>4, <1>5, TokenFacts
       DEF Tokens, Unexposed, AllKept, KeptSomewhere, Newest
  <2> QED
    BY <2>2, <2>3, <2>4, <2>5, <2>6, <2>7 DEF Unexposed
<1> QED
  BY <1>1, <1>6, <1>7, <1>8, <1>9, <1>10 DEF LocalIInv, Always

\* The entry is about to be filed: it is the entry of that account.
LEMMA CaptureStep ==
  ASSUME LocalIInv, Capture
  PROVE  LocalIInv'
<1>1. ChainTypeOK'
  BY TokenFacts
     DEF LocalIInv, Always, ChainTypeOK, Capture, Calm, Start, Op, Entry, Who, Slot
<1>2. Tokens /\ Tokens' /\ Always
  BY <1>1, StateTokens, PTL DEF LocalIInv, Always
<1>3. UNCHANGED <<tip, auth, lib, active, ex, mishap>> /\ op = NoOp /\ auth.tok # NoTok
  BY DEF Capture, Free
<1>4. op'.kind = "capture" /\ op'.acct = auth.tok[1] /\ op'.pc = "put" /\ op'.tok = auth.tok
  BY DEF Capture, Start
<1>5. AllIssued'
  BY <1>2, <1>3, <1>4, TokenFacts DEF Tokens, Always, AllIssued, Issued, Rewrites
<1>6. BrandsTrue'
  BY <1>2, <1>3, <1>4, TokenFacts DEF Tokens, Always, BrandsTrue, Dead, Rewrites
<1>7. ActiveOnRecord'
  BY <1>2, <1>3, <1>4, TokenFacts DEF Tokens, Always, ActiveOnRecord, Rewrites
<1>8. OpShape'
  BY <1>2, <1>3, <1>4, TokenFacts DEF Tokens, Always, OpShape, Dead
<1>9. ASSUME ~mishap' PROVE Unexposed'
  <2>1. Unexposed
    BY <1>9, <1>2, <1>3, <1>4 DEF LocalIInv
  <2>2. OwnTokens'
    BY <2>1, <1>2, <1>3, <1>4, TokenFacts DEF Tokens, Unexposed, OwnTokens, Rewrites
  <2>3. FileAhead'
    BY <2>1, <1>2, <1>3, <1>4, TokenFacts DEF Tokens, Unexposed, FileAhead, Rewrites
  <2>4. EntryAhead'
    BY <2>1, <1>2, <1>3, <1>4, TokenFacts DEF Tokens, Unexposed, EntryAhead
  <2>5. ExSucceeds'
    BY <2>1, <1>2, <1>3, <1>4, TokenFacts DEF Tokens, Unexposed, ExSucceeds
  <2>6. EntryMeanwhile'
    BY <2>1, <1>2, <1>3, <1>4, TokenFacts
       DEF Tokens, Unexposed, EntryMeanwhile, Dead
  <2>7. AllKept'
    BY <2>1, <1>2, <1>3, <1>4, TokenFacts
       DEF Tokens, Unexposed, AllKept, KeptSomewhere, Newest
  <2> QED
    BY <2>2, <2>3, <2>4, <2>5, <2>6, <2>7 DEF Unexposed
<1> QED
  BY <1>1, <1>5, <1>6, <1>7, <1>8, <1>9 DEF LocalIInv, Always

\* The posted token stays on record while the answer is awaited.
LEMMA KeepInactiveStep ==
  ASSUME LocalIInv, NEW a \in Account, KeepInactive(a)
  PROVE  LocalIInv'
<1>1. ChainTypeOK'
  BY DEF LocalIInv, Always, ChainTypeOK, KeepInactive, Calm, Start, Op, Record, Who
<1>2. Tokens /\ Tokens' /\ Always
  BY <1>1, StateTokens, PTL DEF LocalIInv, Always
<1>3. UNCHANGED <<tip, auth, lib, active, ex, mishap>> /\ op = NoOp /\ lib[a].tok # NoTok /\ active # a
  BY DEF KeepInactive, NotActive, Free
<1>4. op'.kind = "inactive" /\ op'.acct = a /\ op'.pc = "post" /\ op'.tok = lib[a].tok /\ op'.file = lib
  BY DEF KeepInactive, Start
<1>5. AllIssued'
  BY <1>2, <1>3, <1>4, TokenFacts DEF Tokens, Always, AllIssued, Issued, Rewrites
<1>6. BrandsTrue'
  BY <1>2, <1>3, <1>4, TokenFacts DEF Tokens, Always, BrandsTrue, Dead, Rewrites
<1>7. ActiveOnRecord'
  BY <1>2, <1>3, <1>4, TokenFacts DEF Tokens, Always, ActiveOnRecord, Rewrites
<1>8. OpShape'
  BY <1>2, <1>3, <1>4, TokenFacts DEF Tokens, Always, OpShape, Dead
<1>9. ASSUME ~mishap' PROVE Unexposed'
  <2>1. Unexposed
    BY <1>9, <1>2, <1>3, <1>4 DEF LocalIInv
  <2>2. OwnTokens'
    BY <2>1, <1>2, <1>3, <1>4, TokenFacts DEF Tokens, Unexposed, OwnTokens, Rewrites
  <2>3. FileAhead'
    BY <2>1, <1>2, <1>3, <1>4, TokenFacts DEF Tokens, Unexposed, FileAhead, Rewrites
  <2>4. EntryAhead'
    BY <2>1, <1>2, <1>3, <1>4, TokenFacts DEF Tokens, Unexposed, EntryAhead
  <2>5. ExSucceeds'
    BY <2>1, <1>2, <1>3, <1>4, TokenFacts DEF Tokens, Unexposed, ExSucceeds
  <2>6. EntryMeanwhile'
    BY <2>1, <1>2, <1>3, <1>4, TokenFacts
       DEF Tokens, Unexposed, EntryMeanwhile, Dead
  <2>7. AllKept'
    BY <2>1, <1>2, <1>3, <1>4, TokenFacts
       DEF Tokens, Unexposed, AllKept, KeptSomewhere, Newest
  <2> QED
    BY <2>2, <2>3, <2>4, <2>5, <2>6, <2>7 DEF Unexposed
<1> QED
  BY <1>1, <1>5, <1>6, <1>7, <1>8, <1>9 DEF LocalIInv, Always

\* A flagged record holds a dead token, so its retry cannot succeed.
LEMMA RetryFlaggedStep ==
  ASSUME LocalIInv, NEW a \in Account, RetryFlagged(a)
  PROVE  LocalIInv'
<1>1. ChainTypeOK'
  BY DEF LocalIInv, Always, ChainTypeOK, RetryFlagged, Calm, Start, Op, Record, Who
<1>2. Tokens /\ Tokens' /\ Always
  BY <1>1, StateTokens, PTL DEF LocalIInv, Always
<1>3. UNCHANGED <<tip, auth, lib, active, ex, mishap>> /\ op = NoOp /\ lib[a].tok # NoTok /\ lib[a].reauth
  BY DEF RetryFlagged, Free
<1>4. op'.kind = "retry" /\ op'.acct = a /\ op'.pc = "post" /\ op'.tok = lib[a].tok /\ op'.file = lib
  BY DEF RetryFlagged, Start
<1>5. Dead(lib[a].tok)
  BY <1>2, <1>3 DEF Always, BrandsTrue
<1>6. AllIssued'
  BY <1>2, <1>3, <1>4, <1>5, TokenFacts
     DEF Tokens, Always, AllIssued, Issued, Rewrites
<1>7. BrandsTrue'
  BY <1>2, <1>3, <1>4, <1>5, TokenFacts
     DEF Tokens, Always, BrandsTrue, Dead, Rewrites
<1>8. ActiveOnRecord'
  BY <1>2, <1>3, <1>4, <1>5, TokenFacts DEF Tokens, Always, ActiveOnRecord, Rewrites
<1>9. OpShape'
  BY <1>2, <1>3, <1>4, <1>5, TokenFacts DEF Tokens, Always, OpShape, Dead
<1>10. ASSUME ~mishap' PROVE Unexposed'
  <2>1. Unexposed
    BY <1>10, <1>2, <1>3, <1>4, <1>5 DEF LocalIInv
  <2>2. OwnTokens'
    BY <2>1, <1>2, <1>3, <1>4, <1>5, TokenFacts
       DEF Tokens, Unexposed, OwnTokens, Rewrites
  <2>3. FileAhead'
    BY <2>1, <1>2, <1>3, <1>4, <1>5, TokenFacts
       DEF Tokens, Unexposed, FileAhead, Rewrites
  <2>4. EntryAhead'
    BY <2>1, <1>2, <1>3, <1>4, <1>5, TokenFacts DEF Tokens, Unexposed, EntryAhead
  <2>5. ExSucceeds'
    BY <2>1, <1>2, <1>3, <1>4, <1>5, TokenFacts DEF Tokens, Unexposed, ExSucceeds
  <2>6. EntryMeanwhile'
    BY <2>1, <1>2, <1>3, <1>4, <1>5, TokenFacts
       DEF Tokens, Unexposed, EntryMeanwhile, Dead
  <2>7. AllKept'
    BY <2>1, <1>2, <1>3, <1>4, <1>5, TokenFacts
       DEF Tokens, Unexposed, AllKept, KeptSomewhere, Newest
  <2> QED
    BY <2>2, <2>3, <2>4, <2>5, <2>6, <2>7 DEF Unexposed
<1> QED
  BY <1>1, <1>6, <1>7, <1>8, <1>9, <1>10 DEF LocalIInv, Always

\* The entry is in the file to be written, whichever account it is of: the
\* outgoing account's record takes it, or already has it.
LEMMA SwitchStep ==
  ASSUME LocalIInv, NEW a \in Account, Switch(a)
  PROVE  LocalIInv'
<1>1. ChainTypeOK'
  <2>1. ReverseSync(a) \in [Account -> Record]
    BY DEF LocalIInv, Always, ChainTypeOK, ReverseSync, Synced, Entry, Record
  <2> QED
    BY <2>1 DEF LocalIInv, Always, ChainTypeOK, Switch, Calm, Start, Op, Record, Who
<1>2. Tokens /\ Tokens' /\ Always
  BY <1>1, StateTokens, PTL DEF LocalIInv, Always
<1>3. UNCHANGED <<tip, auth, lib, active, ex>> /\ op = NoOp /\ lib[a].tok # NoTok
  BY DEF Switch, Free
<1>4. op'.kind = "switch" /\ op'.acct = a /\ op'.pc \in {"put", "post"} /\ op'.tok = lib[a].tok
  BY DEF Switch, Start
<1>5. \A b \in Account :
       /\ b = active /\ active # a /\ auth.tok # NoTok
            => op'.file[b].tok = auth.tok /\ ~op'.file[b].reauth
       /\ ~(b = active /\ active # a /\ auth.tok # NoTok) => op'.file[b] = lib[b]
  <2>1. op'.file = ReverseSync(a)
    BY DEF Switch, Start
  <2>2. active \in Account /\ lib[active].tok # NoTok /\ DOMAIN lib = Account
    BY <1>2 DEF Always, ActiveOnRecord, ChainTypeOK
  <2> QED
    BY <2>1, <2>2 DEF ReverseSync, Synced
<1>6. ~mishap' => /\ ~mishap /\ ex = NoTok /\ (auth.tok # NoTok => auth.tok[1] = active)
                  /\ active = a /\ auth.tok # NoTok => lib[active].tok = auth.tok
  BY <1>2 DEF Switch, Races, Drifted, Always, ActiveOnRecord
<1>7. AllIssued'
  BY <1>2, <1>3, <1>4, <1>5, TokenFacts
     DEF Tokens, Always, AllIssued, Issued, Rewrites
<1>8. BrandsTrue'
  BY <1>2, <1>3, <1>4, <1>5, TokenFacts
     DEF Tokens, Always, BrandsTrue, Dead, Rewrites
<1>9. ActiveOnRecord'
  BY <1>2, <1>3, <1>4, <1>5, TokenFacts DEF Tokens, Always, ActiveOnRecord, Rewrites
<1>10. OpShape'
  BY <1>2, <1>3, <1>4, <1>5, TokenFacts DEF Tokens, Always, OpShape, Dead
<1>11. ASSUME ~mishap' PROVE Unexposed'
  <2>1. /\ Unexposed /\ ex = NoTok /\ (auth.tok # NoTok => auth.tok[1] = active)
        /\ active = a /\ auth.tok # NoTok => lib[active].tok = auth.tok
    BY <1>11, <1>6 DEF LocalIInv
  <2>2. OwnTokens'
    BY <2>1, <1>2, <1>3, <1>4, <1>5, TokenFacts
       DEF Tokens, Unexposed, OwnTokens, Rewrites
  <2>3. FileAhead'
    BY <2>1, <1>2, <1>3, <1>4, <1>5, TokenFacts
       DEF Tokens, Unexposed, FileAhead, Rewrites, EntryAhead
  <2>4. EntryAhead'
    BY <2>1, <1>2, <1>3, <1>4, <1>5, TokenFacts DEF Tokens, Unexposed, EntryAhead
  <2>5. ExSucceeds'
    BY <2>1, <1>2, <1>3, <1>4, <1>5, TokenFacts DEF Tokens, Unexposed, ExSucceeds
  <2>6. EntryMeanwhile'
    BY <2>1, <1>2, <1>3, <1>4, <1>5, TokenFacts
       DEF Tokens, Unexposed, EntryMeanwhile, Dead
  <2>7. AllKept'
    BY <2>1, <1>2, <1>3, <1>4, <1>5, TokenFacts
       DEF Tokens, Unexposed, AllKept, KeptSomewhere, Newest
  <2> QED
    BY <2>2, <2>3, <2>4, <2>5, <2>6, <2>7 DEF Unexposed
<1> QED
  BY <1>1, <1>7, <1>8, <1>9, <1>10, <1>11 DEF LocalIInv, Always

\* The active account's record takes an entry no older than itself.
LEMMA SyncActiveStep ==
  ASSUME LocalIInv, SyncActive, StillViewed, lib[viewed].tok # NoTok, auth.tok # NoTok
  PROVE  LocalIInv'
<1>1. ChainTypeOK'
  <2>1. viewed \in Account /\ auth \in Entry /\ lib \in [Account -> Record]
    BY DEF LocalIInv, Always, ChainTypeOK, ActiveOnRecord, StillViewed
  <2>2. Synced(auth) \in Record
    BY <2>1 DEF Synced, Entry, Record
  <2>3. [lib EXCEPT ![viewed] = Synced(auth)] \in [Account -> Record]
    BY <2>1, <2>2
  <2>4. op' \in Op
    BY <2>1, <2>3 DEF SyncActive, StillViewed, Start, Op, Entry, Who
  <2> QED
    BY <2>4 DEF LocalIInv, Always, ChainTypeOK, SyncActive, Calm, Who
<1>2. Tokens /\ Tokens' /\ Always
  BY <1>1, StateTokens, PTL DEF LocalIInv, Always
<1>3. UNCHANGED <<tip, auth, lib, active, ex>> /\ op = NoOp /\ active \in Account /\ auth.tok # NoTok
  BY <1>2 DEF SyncActive, Free, Always, ActiveOnRecord
<1>4. op'.kind = "sync" /\ op'.acct = active /\ op'.pc = "put" /\ op'.tok = auth.tok
  BY DEF SyncActive, StillViewed, Start
<1>5. /\ op'.file[active].tok = auth.tok /\ ~op'.file[active].reauth
      /\ \A b \in Account \ {active} : op'.file[b] = lib[b]
  <2>1. op'.file = [lib EXCEPT ![active] = Synced(auth)]
    BY DEF SyncActive, StillViewed, Start
  <2>2. DOMAIN lib = Account
    BY <1>2 DEF Always, ChainTypeOK
  <2> QED
    BY <1>3, <2>1, <2>2 DEF Synced
<1>6. ~mishap' => ~mishap /\ auth.tok[1] = active
  BY <1>2 DEF SyncActive, StillViewed, Drifted, Always, ActiveOnRecord
<1>7. AllIssued'
  BY <1>2, <1>3, <1>4, <1>5, TokenFacts
     DEF Tokens, Always, AllIssued, Issued, Rewrites
<1>8. BrandsTrue'
  BY <1>2, <1>3, <1>4, <1>5, TokenFacts
     DEF Tokens, Always, BrandsTrue, Dead, Rewrites
<1>9. ActiveOnRecord'
  BY <1>2, <1>3, <1>4, <1>5, TokenFacts DEF Tokens, Always, ActiveOnRecord, Rewrites
<1>10. OpShape'
  BY <1>2, <1>3, <1>4, <1>5, TokenFacts DEF Tokens, Always, OpShape, Dead
<1>11. ASSUME ~mishap' PROVE Unexposed'
  <2>1. Unexposed /\ auth.tok[1] = active
    BY <1>11, <1>6 DEF LocalIInv
  <2>2. OwnTokens'
    BY <2>1, <1>2, <1>3, <1>4, <1>5, TokenFacts
       DEF Tokens, Unexposed, OwnTokens, Rewrites
  <2>3. FileAhead'
    BY <2>1, <1>2, <1>3, <1>4, <1>5, TokenFacts
       DEF Tokens, Unexposed, FileAhead, Rewrites, EntryAhead
  <2>4. EntryAhead'
    BY <2>1, <1>2, <1>3, <1>4, <1>5, TokenFacts DEF Tokens, Unexposed, EntryAhead
  <2>5. ExSucceeds'
    BY <2>1, <1>2, <1>3, <1>4, <1>5, TokenFacts DEF Tokens, Unexposed, ExSucceeds
  <2>6. EntryMeanwhile'
    BY <2>1, <1>2, <1>3, <1>4, <1>5, TokenFacts
       DEF Tokens, Unexposed, EntryMeanwhile, Dead
  <2>7. AllKept'
    BY <2>1, <1>2, <1>3, <1>4, <1>5, TokenFacts
       DEF Tokens, Unexposed, AllKept, KeptSomewhere, Newest
  <2> QED
    BY <2>2, <2>3, <2>4, <2>5, <2>6, <2>7 DEF Unexposed
<1> QED
  BY <1>1, <1>7, <1>8, <1>9, <1>10, <1>11 DEF LocalIInv, Always

\* The record that goes is not the active account's.
LEMMA RemoveStep ==
  ASSUME LocalIInv, NEW a \in Account, Remove(a)
  PROVE  LocalIInv'
<1>1. ChainTypeOK'
  BY DEF LocalIInv, Always, ChainTypeOK, Remove, Disturb, Start, NoRecord, Op,
     Record, Who
<1>2. Tokens /\ Tokens' /\ Always
  BY <1>1, StateTokens, PTL DEF LocalIInv, Always
<1>3. UNCHANGED <<tip, auth, lib, active, ex>> /\ op = NoOp /\ active # a /\ (mishap => mishap')
  BY DEF Remove, Free
<1>4. op'.kind = "remove" /\ op'.acct = a /\ op'.pc = "put" /\ op'.tok = NoTok
  BY DEF Remove, Start
<1>5. /\ op'.file[a].tok = NoTok /\ ~op'.file[a].reauth
      /\ \A b \in Account \ {a} : op'.file[b] = lib[b]
  <2>1. op'.file = [lib EXCEPT ![a] = NoRecord]
    BY DEF Remove, Start
  <2>2. DOMAIN lib = Account
    BY <1>2 DEF Always, ChainTypeOK
  <2> QED
    BY <2>1, <2>2 DEF NoRecord
<1>6. AllIssued'
  BY <1>2, <1>3, <1>4, <1>5, TokenFacts
     DEF Tokens, Always, AllIssued, Issued, Rewrites
<1>7. BrandsTrue'
  BY <1>2, <1>3, <1>4, <1>5, TokenFacts
     DEF Tokens, Always, BrandsTrue, Dead, Rewrites
<1>8. ActiveOnRecord'
  BY <1>2, <1>3, <1>4, <1>5, TokenFacts DEF Tokens, Always, ActiveOnRecord, Rewrites
<1>9. OpShape'
  BY <1>2, <1>3, <1>4, <1>5, TokenFacts DEF Tokens, Always, OpShape, Dead
<1>10. ASSUME ~mishap' PROVE Unexposed'
  <2>1. Unexposed
    BY <1>10, <1>2, <1>3, <1>4, <1>5 DEF LocalIInv
  <2>2. OwnTokens'
    BY <2>1, <1>2, <1>3, <1>4, <1>5, TokenFacts
       DEF Tokens, Unexposed, OwnTokens, Rewrites
  <2>3. FileAhead'
    BY <2>1, <1>2, <1>3, <1>4, <1>5, TokenFacts
       DEF Tokens, Unexposed, FileAhead, Rewrites
  <2>4. EntryAhead'
    BY <2>1, <1>2, <1>3, <1>4, <1>5, TokenFacts DEF Tokens, Unexposed, EntryAhead
  <2>5. ExSucceeds'
    BY <2>1, <1>2, <1>3, <1>4, <1>5, TokenFacts DEF Tokens, Unexposed, ExSucceeds
  <2>6. EntryMeanwhile'
    BY <2>1, <1>2, <1>3, <1>4, <1>5, TokenFacts
       DEF Tokens, Unexposed, EntryMeanwhile, Dead
  <2>7. AllKept'
    BY <2>1, <1>2, <1>3, <1>4, <1>5, TokenFacts
       DEF Tokens, Unexposed, AllKept, KeptSomewhere, Newest
  <2> QED
    BY <2>2, <2>3, <2>4, <2>5, <2>6, <2>7 DEF Unexposed
<1> QED
  BY <1>1, <1>6, <1>7, <1>8, <1>9, <1>10 DEF LocalIInv, Always

\* The new tip is the operation's. An inactive account's record cannot be level
\* with auth.json's entry, so that entry is newer than what was posted.
LEMMA RefreshOkStep ==
  ASSUME LocalIInv, RefreshOk
  PROVE  LocalIInv'
<1>1. ChainTypeOK'
  <2>1. PICK a \in Account : op.tok[1] = a /\ tip[a] + 1 \in 1 .. MaxGen /\ op \in Op
    BY StateTokens, TokenFacts DEF LocalIInv, Always, Tokens, RefreshOk, ChainTypeOK
  <2>2. Held(<<a, tip[a] + 1>>) \in Record /\ <<a, tip[a] + 1>> \in Token
    BY <2>1 DEF Held, Record, Token
  <2> QED
    BY <2>1, <2>2 DEF LocalIInv, Always, ChainTypeOK, RefreshOk, Calm, Op
<1>2. Tokens /\ Tokens' /\ Always
  BY <1>1, StateTokens, PTL DEF LocalIInv, Always
<1>3. UNCHANGED <<auth, lib, active, ex, mishap>> /\ op.pc = "post" /\ op # NoOp
  BY <1>2 DEF RefreshOk, Tokens
<1>4. /\ op.tok[1] \in Account /\ op.tok[2] = tip[op.tok[1]]
      /\ tip[op.tok[1]] + 1 \in 1 .. MaxGen
  BY <1>2, TokenFacts DEF RefreshOk, Tokens
<1>5. op.kind \in {"active", "inactive", "switch"}
  BY <1>2, <1>3, <1>4 DEF Always, OpShape, Dead, ChainTypeOK, Op, Tokens
<1>6. /\ op'.tok \in Slot /\ op'.tok # NoTok
      /\ op'.tok[1] = op.tok[1] /\ op'.tok[2] = tip[op.tok[1]] + 1
  <2>1. op'.tok = <<op.tok[1], tip[op.tok[1]] + 1>>
    BY <1>2, <1>3 DEF RefreshOk, Always, ChainTypeOK, Op
  <2> QED
    BY <2>1, <1>4, TokenFacts
<1>7. op'.kind = op.kind /\ op'.acct = op.acct /\ op'.pc = "put"
  BY <1>2, <1>3 DEF RefreshOk, Always, ChainTypeOK, Op
<1>8. op.kind # "active" =>
       /\ op.acct \in Account => op'.file[op.acct].tok = op'.tok /\ ~op'.file[op.acct].reauth
       /\ \A b \in Account \ {op.acct} : op'.file[b] = op.file[b]
  BY <1>2, <1>3 DEF RefreshOk, Always, ChainTypeOK, Op, Held
<1>9. \A b \in Account : tip'[b] = IF b = op.tok[1] THEN tip[b] + 1 ELSE tip[b]
  BY <1>2 DEF RefreshOk, Always, ChainTypeOK
<1>10. op.kind # "active" => op.acct \in Account /\ lib[op.acct].tok = op.tok /\ op.file[op.acct].tok = op.tok
  BY <1>2, <1>3, <1>5 DEF Always, OpShape
<1>11. op.kind = "inactive" => active # op.acct
  BY <1>2, <1>3, <1>5 DEF Always, ActiveOnRecord
<1>12. Issued(auth.tok)
  BY <1>2 DEF Always, AllIssued
<1>13. AllIssued'
  BY <1>2, <1>3, <1>4, <1>5, <1>6, <1>7, <1>8, <1>9, <1>10, <1>11, <1>12, TokenFacts
     DEF Tokens, Always, AllIssued, Issued, Rewrites
<1>14. BrandsTrue'
  BY <1>2, <1>3, <1>4, <1>5, <1>6, <1>7, <1>8, <1>9, <1>10, <1>11, <1>12, TokenFacts
     DEF Tokens, Always, BrandsTrue, Dead, Rewrites
<1>15. ActiveOnRecord'
  BY <1>2, <1>3, <1>4, <1>5, <1>6, <1>7, <1>8, <1>9, <1>10, <1>11, <1>12, TokenFacts
     DEF Tokens, Always, ActiveOnRecord, Rewrites
<1>16. OpShape'
  BY <1>2, <1>3, <1>4, <1>5, <1>6, <1>7, <1>8, <1>9, <1>10, <1>11, <1>12, TokenFacts
     DEF Tokens, Always, OpShape, Dead
<1>17. ASSUME ~mishap' PROVE Unexposed'
  <2>1. Unexposed
    BY <1>17, <1>2, <1>3, <1>4, <1>5, <1>6, <1>7, <1>8, <1>9, <1>10, <1>11, <1>12
       DEF LocalIInv
  <2>2. OwnTokens'
    BY <2>1, <1>2, <1>3, <1>4, <1>5, <1>6, <1>7, <1>8, <1>9, <1>10, <1>11, <1>12,
       TokenFacts DEF Tokens, Unexposed, OwnTokens, Rewrites
  <2>3. FileAhead'
    BY <2>1, <1>2, <1>3, <1>4, <1>5, <1>6, <1>7, <1>8, <1>9, <1>10, <1>11, <1>12,
       TokenFacts DEF Tokens, Unexposed, FileAhead, Rewrites, OwnTokens
  <2>4. EntryAhead'
    BY <2>1, <1>2, <1>3, <1>4, <1>5, <1>6, <1>7, <1>8, <1>9, <1>10, <1>11, <1>12,
       TokenFacts DEF Tokens, Unexposed, EntryAhead
  <2>5. ExSucceeds'
    BY <2>1, <1>2, <1>3, <1>4, <1>5, <1>6, <1>7, <1>8, <1>9, <1>10, <1>11, <1>12,
       TokenFacts DEF Tokens, Unexposed, ExSucceeds
  <2>6. EntryMeanwhile'
    BY <2>1, <1>2, <1>3, <1>4, <1>5, <1>6, <1>7, <1>8, <1>9, <1>10, <1>11, <1>12,
       TokenFacts
       DEF Tokens, Unexposed, EntryMeanwhile, Dead, EntryAhead, OwnTokens, Issued
  <2>7. AllKept'
    BY <2>1, <1>2, <1>3, <1>4, <1>5, <1>6, <1>7, <1>8, <1>9, <1>10, <1>11, <1>12,
       TokenFacts DEF Tokens, Unexposed, AllKept, KeptSomewhere, Newest
  <2> QED
    BY <2>2, <2>3, <2>4, <2>5, <2>6, <2>7 DEF Unexposed
<1> QED
  BY <1>1, <1>13, <1>14, <1>15, <1>16, <1>17 DEF LocalIInv, Always

\* What was posted is still where it was; a token branded dead is dead.
LEMMA RefreshFailsStep ==
  ASSUME LocalIInv, RefreshFails
  PROVE  LocalIInv'
<1>1. ChainTypeOK'
  BY DEF LocalIInv, Always, ChainTypeOK, RefreshFails, Calm, Record
<1>2. Tokens /\ Tokens' /\ Always
  BY <1>1, StateTokens, PTL DEF LocalIInv, Always
<1>3. UNCHANGED <<tip, auth, active, ex, mishap>> /\ op.pc = "post" /\ op' = NoOp
  BY DEF RefreshFails
<1>4. \A b \in Account : lib'[b].tok = lib[b].tok
  BY <1>2 DEF RefreshFails, Always, ChainTypeOK, Record
<1>5. \A b \in Account : lib'[b].reauth => lib[b].reauth \/ ~IsTip(lib[b].tok)
  BY <1>2 DEF RefreshFails, Branded, Always, ChainTypeOK, Record
<1>6. \A b \in Account : ~IsTip(lib[b].tok) => Dead(lib[b].tok)
  <2> SUFFICES ASSUME NEW b \in Account, ~IsTip(lib[b].tok) PROVE Dead(lib[b].tok)
    OBVIOUS
  <2>1. lib[b].tok \in Slot /\ Issued(lib[b].tok)
    BY <1>2 DEF Always, AllIssued, Tokens
  <2>2. lib[b].tok # NoTok => lib[b].tok[2] # tip[lib[b].tok[1]]
    BY <2>1, TokenFacts
  <2>3. lib[b].tok[1] \in Account => tip[lib[b].tok[1]] \in Nat /\ lib[b].tok[2] \in Nat
    BY <1>2, <2>1, TokenFacts DEF Tokens
  <2> QED
    BY <2>1, <2>2, <2>3, TokenFacts DEF Issued, Dead
<1>7. op.kind \in {"active", "inactive", "retry", "switch"}
  BY <1>2, <1>3 DEF Always, OpShape, ChainTypeOK, Op, Tokens
<1>8. AllIssued'
  BY <1>2, <1>3, <1>4, <1>7, TokenFacts
     DEF Tokens, Always, AllIssued, Issued, Rewrites
<1>9. BrandsTrue'
  <2>1. \A b \in Account : lib'[b].reauth => Dead(lib'[b].tok)
    BY <1>2, <1>4, <1>5, <1>6 DEF Always, BrandsTrue
  <2> QED
    BY <1>2, <1>3, <2>1 DEF BrandsTrue, Dead, Rewrites, Tokens
<1>10. ActiveOnRecord'
  BY <1>2, <1>3, <1>4, <1>7, TokenFacts DEF Tokens, Always, ActiveOnRecord, Rewrites
<1>11. OpShape'
  BY <1>2, <1>3, <1>4, <1>7, TokenFacts DEF Tokens, Always, OpShape, Dead
<1>12. ASSUME ~mishap' PROVE Unexposed'
  <2>1. Unexposed
    BY <1>12, <1>2, <1>3, <1>4, <1>7 DEF LocalIInv
  <2>2. OwnTokens'
    BY <2>1, <1>2, <1>3, <1>4, <1>7, TokenFacts
       DEF Tokens, Unexposed, OwnTokens, Rewrites
  <2>3. FileAhead'
    BY <2>1, <1>2, <1>3, <1>4, <1>7, TokenFacts
       DEF Tokens, Unexposed, FileAhead, Rewrites
  <2>4. EntryAhead'
    BY <2>1, <1>2, <1>3, <1>4, <1>7, TokenFacts DEF Tokens, Unexposed, EntryAhead
  <2>5. ExSucceeds'
    BY <2>1, <1>2, <1>3, <1>4, <1>7, TokenFacts DEF Tokens, Unexposed, ExSucceeds
  <2>6. EntryMeanwhile'
    BY <2>1, <1>2, <1>3, <1>4, <1>7, TokenFacts
       DEF Tokens, Unexposed, EntryMeanwhile, Dead
  <2>7. AllKept'
    BY <2>1, <1>2, <1>3, <1>4, <1>7, TokenFacts
       DEF Tokens, Unexposed, AllKept, KeptSomewhere, Newest, OwnTokens,
           EntryMeanwhile, Always, OpShape
  <2> QED
    BY <2>2, <2>3, <2>4, <2>5, <2>6, <2>7 DEF Unexposed
<1> QED
  BY <1>1, <1>8, <1>9, <1>10, <1>11, <1>12 DEF LocalIInv, Always

\* The tip is nowhere: the exposure is named, and only what holds regardless is
\* left.
LEMMA AnswerLostStep ==
  ASSUME LocalIInv, AnswerLost
  PROVE  LocalIInv'
<1>1. ChainTypeOK'
  BY TokenFacts, StateTokens
     DEF LocalIInv, Always, ChainTypeOK, AnswerLost, Disturb, Tokens
<1>2. Tokens /\ Tokens' /\ Always
  BY <1>1, StateTokens, PTL DEF LocalIInv, Always
<1>3. UNCHANGED <<auth, lib, active, ex>> /\ mishap' /\ op' = NoOp
  BY DEF AnswerLost
<1>4. \A b \in Account : tip[b] <= tip'[b]
  BY <1>2 DEF AnswerLost, Always, ChainTypeOK
<1>5. AllIssued'
  BY <1>2, <1>3, <1>4, TokenFacts DEF Tokens, Always, AllIssued, Issued, Rewrites
<1>6. BrandsTrue'
  BY <1>2, <1>3, <1>4, TokenFacts DEF Tokens, Always, BrandsTrue, Dead, Rewrites
<1>7. ActiveOnRecord'
  BY <1>2, <1>3, <1>4, TokenFacts DEF Tokens, Always, ActiveOnRecord, Rewrites
<1>8. OpShape'
  BY <1>2, <1>3, <1>4, TokenFacts DEF Tokens, Always, OpShape, Dead
<1> QED
  BY <1>1, <1>3, <1>5, <1>6, <1>7, <1>8 DEF LocalIInv, Always

\* The entry is replaced by its successor.
LEMMA WriteActiveStep ==
  ASSUME LocalIInv, WriteActive
  PROVE  LocalIInv'
<1>1. ChainTypeOK'
  BY DEF LocalIInv, Always, ChainTypeOK, WriteActive, Calm, Entry, Op, NoOp
<1>2. Tokens /\ Tokens' /\ Always
  BY <1>1, StateTokens, PTL DEF LocalIInv, Always
<1>3. UNCHANGED <<tip, lib, active, ex, mishap>> /\ op.kind = "active" /\ op.pc = "put"
  BY DEF WriteActive
<1>4. auth'.tok = op.tok /\ op' = NoOp
  BY DEF WriteActive
<1>5. AllIssued'
  BY <1>2, <1>3, <1>4, TokenFacts DEF Tokens, Always, AllIssued, Issued, Rewrites
<1>6. BrandsTrue'
  BY <1>2, <1>3, <1>4, TokenFacts DEF Tokens, Always, BrandsTrue, Dead, Rewrites
<1>7. ActiveOnRecord'
  BY <1>2, <1>3, <1>4, TokenFacts DEF Tokens, Always, ActiveOnRecord, Rewrites
<1>8. OpShape'
  BY <1>2, <1>3, <1>4, TokenFacts DEF Tokens, Always, OpShape, Dead
<1>9. ASSUME ~mishap' PROVE Unexposed'
  <2>1. Unexposed
    BY <1>9, <1>2, <1>3, <1>4 DEF LocalIInv
  <2>2. OwnTokens'
    BY <2>1, <1>2, <1>3, <1>4, TokenFacts DEF Tokens, Unexposed, OwnTokens, Rewrites
  <2>3. FileAhead'
    BY <2>1, <1>2, <1>3, <1>4, TokenFacts DEF Tokens, Unexposed, FileAhead, Rewrites
  <2>4. EntryAhead'
    BY <2>1, <1>2, <1>3, <1>4, TokenFacts
       DEF Tokens, Unexposed, EntryAhead, EntryMeanwhile
  <2>5. ExSucceeds'
    BY <2>1, <1>2, <1>3, <1>4, TokenFacts
       DEF Tokens, Unexposed, ExSucceeds, EntryMeanwhile
  <2>6. EntryMeanwhile'
    BY <2>1, <1>2, <1>3, <1>4, TokenFacts
       DEF Tokens, Unexposed, EntryMeanwhile, Dead
  <2>7. AllKept'
    BY <2>1, <1>2, <1>3, <1>4, TokenFacts
       DEF Tokens, Unexposed, AllKept, KeptSomewhere, Newest, EntryMeanwhile,
           Always, AllIssued, Issued
  <2> QED
    BY <2>2, <2>3, <2>4, <2>5, <2>6, <2>7 DEF Unexposed
<1> QED
  BY <1>1, <1>5, <1>6, <1>7, <1>8, <1>9 DEF LocalIInv, Always

\* The captured token is the tip, so no newer one is overwritten.
LEMMA WriteCaptureStep ==
  ASSUME LocalIInv, WriteCapture, IsTip(op.tok)
  PROVE  LocalIInv'
<1>1. ChainTypeOK'
  <2>1. op \in Op /\ op.acct \in Account /\ op.tok \in Token \cup {NoTok}
    BY DEF LocalIInv, Always, ChainTypeOK, WriteCapture, OpShape, Op, NoOp
  <2>2. Held(op.tok) \in Record
    BY <2>1 DEF Held, Record
  <2>3. [lib EXCEPT ![op.acct] = Held(op.tok)] \in [Account -> Record]
    BY <2>1, <2>2 DEF LocalIInv, Always, ChainTypeOK
  <2> QED
    BY <2>1, <2>3 DEF LocalIInv, Always, ChainTypeOK, WriteCapture, Calm, Who
<1>2. Tokens /\ Tokens' /\ Always
  BY <1>1, StateTokens, PTL DEF LocalIInv, Always
<1>3. UNCHANGED <<tip, auth, ex, mishap>> /\ op.kind = "capture" /\ op.pc = "put" /\ op.acct \in Account
  BY <1>2 DEF WriteCapture, Always, OpShape
<1>4. active' = op.acct /\ op' = NoOp
  BY DEF WriteCapture
<1>5. \A b \in Account : IF b = op.acct THEN lib'[b].tok = op.tok /\ ~lib'[b].reauth
                                      ELSE lib'[b] = lib[b]
  BY <1>2 DEF WriteCapture, Always, ChainTypeOK, Held
<1>6. op.tok # NoTok /\ op.tok[2] = tip[op.tok[1]]
  BY <1>2, TokenFacts DEF Tokens
<1>7. AllIssued'
  BY <1>2, <1>3, <1>4, <1>5, <1>6, TokenFacts
     DEF Tokens, Always, AllIssued, Issued, Rewrites
<1>8. BrandsTrue'
  BY <1>2, <1>3, <1>4, <1>5, <1>6, TokenFacts
     DEF Tokens, Always, BrandsTrue, Dead, Rewrites
<1>9. ActiveOnRecord'
  BY <1>2, <1>3, <1>4, <1>5, <1>6, TokenFacts
     DEF Tokens, Always, ActiveOnRecord, Rewrites
<1>10. OpShape'
  BY <1>2, <1>3, <1>4, <1>5, <1>6, TokenFacts DEF Tokens, Always, OpShape, Dead
<1>11. ASSUME ~mishap' PROVE Unexposed'
  <2>1. Unexposed
    BY <1>11, <1>2, <1>3, <1>4, <1>5, <1>6 DEF LocalIInv
  <2>2. OwnTokens'
    BY <2>1, <1>2, <1>3, <1>4, <1>5, <1>6, TokenFacts
       DEF Tokens, Unexposed, OwnTokens, Rewrites
  <2>3. FileAhead'
    BY <2>1, <1>2, <1>3, <1>4, <1>5, <1>6, TokenFacts
       DEF Tokens, Unexposed, FileAhead, Rewrites
  <2>4. EntryAhead'
    BY <2>1, <1>2, <1>3, <1>4, <1>5, <1>6, TokenFacts
       DEF Tokens, Unexposed, EntryAhead, EntryMeanwhile
  <2>5. ExSucceeds'
    BY <2>1, <1>2, <1>3, <1>4, <1>5, <1>6, TokenFacts
       DEF Tokens, Unexposed, ExSucceeds
  <2>6. EntryMeanwhile'
    BY <2>1, <1>2, <1>3, <1>4, <1>5, <1>6, TokenFacts
       DEF Tokens, Unexposed, EntryMeanwhile, Dead
  <2>7. AllKept'
    BY <2>1, <1>2, <1>3, <1>4, <1>5, <1>6, TokenFacts
       DEF Tokens, Unexposed, AllKept, KeptSomewhere, Newest, OwnTokens
  <2> QED
    BY <2>2, <2>3, <2>4, <2>5, <2>6, <2>7 DEF Unexposed
<1> QED
  BY <1>1, <1>7, <1>8, <1>9, <1>10, <1>11 DEF LocalIInv, Always

\* A token that has been rotated meanwhile is not filed.
LEMMA LateCaptureStep ==
  ASSUME LocalIInv, WriteCapture, ~IsTip(op.tok)
  PROVE  LocalIInv'
<1>1. ChainTypeOK'
  BY DEF LocalIInv, Always, ChainTypeOK, WriteCapture, Calm
<1>2. Tokens /\ Tokens' /\ Always
  BY <1>1, StateTokens, PTL DEF LocalIInv, Always
<1>3. UNCHANGED <<tip, auth, lib, active, ex, mishap>> /\ op.kind = "capture" /\ op.pc = "put" /\ op' = NoOp
  BY <1>2 DEF WriteCapture, Always, OpShape
<1>4. op.tok = NoTok \/ op.tok[2] # tip[op.tok[1]]
  BY <1>2, TokenFacts DEF Tokens
<1>5. AllIssued'
  BY <1>2, <1>3, <1>4, TokenFacts DEF Tokens, Always, AllIssued, Issued, Rewrites
<1>6. BrandsTrue'
  BY <1>2, <1>3, <1>4, TokenFacts DEF Tokens, Always, BrandsTrue, Dead, Rewrites
<1>7. ActiveOnRecord'
  BY <1>2, <1>3, <1>4, TokenFacts DEF Tokens, Always, ActiveOnRecord, Rewrites
<1>8. OpShape'
  BY <1>2, <1>3, <1>4, TokenFacts DEF Tokens, Always, OpShape, Dead
<1>9. ASSUME ~mishap' PROVE Unexposed'
  <2>1. Unexposed
    BY <1>9, <1>2, <1>3, <1>4 DEF LocalIInv
  <2>2. OwnTokens'
    BY <2>1, <1>2, <1>3, <1>4, TokenFacts DEF Tokens, Unexposed, OwnTokens, Rewrites
  <2>3. FileAhead'
    BY <2>1, <1>2, <1>3, <1>4, TokenFacts DEF Tokens, Unexposed, FileAhead, Rewrites
  <2>4. EntryAhead'
    BY <2>1, <1>2, <1>3, <1>4, TokenFacts DEF Tokens, Unexposed, EntryAhead
  <2>5. ExSucceeds'
    BY <2>1, <1>2, <1>3, <1>4, TokenFacts DEF Tokens, Unexposed, ExSucceeds
  <2>6. EntryMeanwhile'
    BY <2>1, <1>2, <1>3, <1>4, TokenFacts
       DEF Tokens, Unexposed, EntryMeanwhile, Dead
  <2>7. AllKept'
    BY <2>1, <1>2, <1>3, <1>4, TokenFacts
       DEF Tokens, Unexposed, AllKept, KeptSomewhere, Newest
  <2> QED
    BY <2>2, <2>3, <2>4, <2>5, <2>6, <2>7 DEF Unexposed
<1> QED
  BY <1>1, <1>5, <1>6, <1>7, <1>8, <1>9 DEF LocalIInv, Always

\* A file about to be written has every tip that only the library had.
LEMMA FileKeepsTips ==
  ASSUME Always, Unexposed, Rewrites, NEW a \in Account, op.file[a].tok # NoTok
  PROVE  Newest(auth.tok, a) \/ Newest(ex, a) \/ Newest(op.file[a].tok, a)
<1>1. Tokens /\ op # NoOp
  BY StateTokens DEF Always, Tokens, Rewrites
<1>2. /\ lib[a].tok # NoTok /\ KeptSomewhere(a)
      /\ op.kind = "remove" => a # op.acct
  BY DEF Unexposed, AllKept, Always, ActiveOnRecord
<1>3. op.file[a].tok \in Slot /\ lib[a].tok \in Slot /\ tip[a] \in 1 .. MaxGen
  BY <1>1 DEF Tokens
<1>4. CASE Newest(op.tok, a)
  <2>1. op.kind # "remove"
    BY <1>4, TokenFacts DEF Always, OpShape, Newest
  <2>2. op.acct = a /\ op.file[a].tok = op.tok
    BY <1>4, <2>1 DEF Unexposed, OwnTokens, Always, OpShape, Newest, Rewrites
  <2> QED
    BY <1>4, <2>2
<1>5. CASE Newest(lib[a].tok, a)
  <2>1. op.file[a].tok[1] = a /\ lib[a].tok[2] <= op.file[a].tok[2]
    <3>1. CASE op.kind = "remove"
      BY <1>2, <1>3, <1>5, <3>1, TokenFacts DEF Unexposed, OwnTokens, FileAhead, Newest
    <3>2. CASE op.kind # "remove"
      BY <3>2 DEF Unexposed, OwnTokens, FileAhead
    <3> QED
      BY <3>1, <3>2
  <2>2. op.file[a].tok[2] <= tip[a]
    BY <2>1 DEF Always, AllIssued, Issued
  <2>3. lib[a].tok[2] = tip[a] /\ tip[a] \in Nat /\ op.file[a].tok[2] \in Nat
    BY <1>3, <1>5, TokenFacts DEF Newest
  <2> QED
    BY <2>1, <2>2, <2>3 DEF Newest
<1> QED
  BY <1>2, <1>4, <1>5 DEF KeptSomewhere

\* The file keeps every tip the library had, and brings the operation's own.
LEMMA WriteLibraryStep ==
  ASSUME LocalIInv, WriteLibrary
  PROVE  LocalIInv'
<1>1. ChainTypeOK'
  BY DEF LocalIInv, Always, ChainTypeOK, WriteLibrary, Calm, Op, NoOp
<1>2. Tokens /\ Tokens' /\ Always
  BY <1>1, StateTokens, PTL DEF LocalIInv, Always
<1>3. UNCHANGED <<tip, auth, active, ex, mishap>> /\ lib' = op.file /\ op' = NoOp
  BY DEF WriteLibrary
<1>4. op.kind \in {"inactive", "sync", "remove"} /\ op.pc = "put" /\ op.acct \in Account
  BY <1>2 DEF WriteLibrary, Always, OpShape
<1>5. AllIssued'
  BY <1>2, <1>3, <1>4, TokenFacts DEF Tokens, Always, AllIssued, Issued, Rewrites
<1>6. BrandsTrue'
  BY <1>2, <1>3, <1>4, TokenFacts DEF Tokens, Always, BrandsTrue, Dead, Rewrites
<1>7. ActiveOnRecord'
  BY <1>2, <1>3, <1>4, TokenFacts DEF Tokens, Always, ActiveOnRecord, Rewrites
<1>8. OpShape'
  BY <1>2, <1>3, <1>4, TokenFacts DEF Tokens, Always, OpShape, Dead
<1>9. ASSUME ~mishap' PROVE Unexposed'
  <2>1. Unexposed
    BY <1>9, <1>2, <1>3, <1>4 DEF LocalIInv
  <2>2. OwnTokens'
    BY <2>1, <1>2, <1>3, <1>4, TokenFacts DEF Tokens, Unexposed, OwnTokens, Rewrites
  <2>3. FileAhead'
    BY <2>1, <1>2, <1>3, <1>4, TokenFacts DEF Tokens, Unexposed, FileAhead, Rewrites
  <2>4. EntryAhead'
    BY <2>1, <1>2, <1>3, <1>4, TokenFacts
       DEF Tokens, Unexposed, EntryAhead, EntryMeanwhile, FileAhead, Always,
           OpShape, ActiveOnRecord, Rewrites
  <2>5. ExSucceeds'
    BY <2>1, <1>2, <1>3, <1>4, TokenFacts DEF Tokens, Unexposed, ExSucceeds
  <2>6. EntryMeanwhile'
    BY <2>1, <1>2, <1>3, <1>4, TokenFacts
       DEF Tokens, Unexposed, EntryMeanwhile, Dead
  <2>7. AllKept'
    <3>1. Rewrites
      BY <1>3, <1>4 DEF Rewrites
    <3> QED
      BY <2>1, <3>1, <1>2, <1>3, FileKeepsTips DEF AllKept, KeptSomewhere, Newest
  <2> QED
    BY <2>2, <2>3, <2>4, <2>5, <2>6, <2>7 DEF Unexposed
<1> QED
  BY <1>1, <1>5, <1>6, <1>7, <1>8, <1>9 DEF LocalIInv, Always

\* The same write, with auth.json still to follow.
LEMMA WriteSwitchStep ==
  ASSUME LocalIInv, WriteSwitch
  PROVE  LocalIInv'
<1>1. ChainTypeOK'
  <2>1. op \in Op
    BY DEF LocalIInv, Always, ChainTypeOK, WriteSwitch, NoOp
  <2> QED
    BY <2>1 DEF LocalIInv, Always, ChainTypeOK, WriteSwitch, Calm, Op
<1>2. Tokens /\ Tokens' /\ Always
  BY <1>1, StateTokens, PTL DEF LocalIInv, Always
<1>3. UNCHANGED <<tip, auth, ex, mishap>> /\ lib' = op.file /\ active' = op.acct
  BY DEF WriteSwitch
<1>4. op.kind = "switch" /\ op.pc = "put" /\ op.acct \in Account
  BY <1>2 DEF WriteSwitch, Always, OpShape
<1>5. /\ op'.kind = "switch" /\ op'.acct = op.acct /\ op'.pc = "auth"
      /\ op'.tok = op.tok /\ op'.file = op.file
  BY <1>2, <1>4 DEF WriteSwitch, Always, ChainTypeOK, Op, NoOp
<1>6. AllIssued'
  BY <1>2, <1>3, <1>4, <1>5, TokenFacts
     DEF Tokens, Always, AllIssued, Issued, Rewrites
<1>7. BrandsTrue'
  BY <1>2, <1>3, <1>4, <1>5, TokenFacts
     DEF Tokens, Always, BrandsTrue, Dead, Rewrites
<1>8. ActiveOnRecord'
  BY <1>2, <1>3, <1>4, <1>5, TokenFacts
     DEF Tokens, Always, ActiveOnRecord, Rewrites, OpShape
<1>9. OpShape'
  BY <1>2, <1>3, <1>4, <1>5, TokenFacts DEF Tokens, Always, OpShape, Dead
<1>10. ASSUME ~mishap' PROVE Unexposed'
  <2>1. Unexposed
    BY <1>10, <1>2, <1>3, <1>4, <1>5 DEF LocalIInv
  <2>2. OwnTokens'
    BY <2>1, <1>2, <1>3, <1>4, <1>5, TokenFacts
       DEF Tokens, Unexposed, OwnTokens, Rewrites
  <2>3. FileAhead'
    BY <2>1, <1>2, <1>3, <1>4, <1>5, TokenFacts
       DEF Tokens, Unexposed, FileAhead, Rewrites
  <2>4. EntryAhead'
    BY <2>1, <1>2, <1>3, <1>4, <1>5, TokenFacts DEF Tokens, Unexposed, EntryAhead
  <2>5. ExSucceeds'
    BY <2>1, <1>2, <1>3, <1>4, <1>5, TokenFacts DEF Tokens, Unexposed, ExSucceeds
  <2>6. EntryMeanwhile'
    BY <2>1, <1>2, <1>3, <1>4, <1>5, TokenFacts
       DEF Tokens, Unexposed, EntryMeanwhile, Dead
  <2>7. AllKept'
    <3>1. Rewrites
      BY <1>3, <1>4 DEF Rewrites
    <3> QED
      BY <2>1, <3>1, <1>2, <1>3, FileKeepsTips DEF AllKept, KeptSomewhere, Newest
  <2> QED
    BY <2>2, <2>3, <2>4, <2>5, <2>6, <2>7 DEF Unexposed
<1> QED
  BY <1>1, <1>6, <1>7, <1>8, <1>9, <1>10 DEF LocalIInv, Always

\* The entry that goes is in the library, or dead.
LEMMA WriteAuthStep ==
  ASSUME LocalIInv, WriteAuth
  PROVE  LocalIInv'
<1>1. ChainTypeOK'
  BY DEF LocalIInv, Always, ChainTypeOK, WriteAuth, Calm, Op, NoOp, OpShape, Record,
     Entry
<1>2. Tokens /\ Tokens' /\ Always
  BY <1>1, StateTokens, PTL DEF LocalIInv, Always
<1>3. UNCHANGED <<tip, lib, active, ex, mishap>> /\ op' = NoOp
  BY DEF WriteAuth
<1>4. op.kind = "switch" /\ op.pc = "auth" /\ op.acct = active /\ active \in Account
  BY <1>2 DEF WriteAuth, Always, OpShape, ActiveOnRecord
<1>5. auth'.tok = op.tok /\ op.file[active].tok = op.tok
  BY <1>2, <1>4 DEF WriteAuth, Always, OpShape
<1>6. AllIssued'
  BY <1>2, <1>3, <1>4, <1>5, TokenFacts
     DEF Tokens, Always, AllIssued, Issued, Rewrites
<1>7. BrandsTrue'
  BY <1>2, <1>3, <1>4, <1>5, TokenFacts
     DEF Tokens, Always, BrandsTrue, Dead, Rewrites
<1>8. ActiveOnRecord'
  BY <1>2, <1>3, <1>4, <1>5, TokenFacts DEF Tokens, Always, ActiveOnRecord, Rewrites
<1>9. OpShape'
  BY <1>2, <1>3, <1>4, <1>5, TokenFacts DEF Tokens, Always, OpShape, Dead
<1>10. ASSUME ~mishap' PROVE Unexposed'
  <2>1. Unexposed
    BY <1>10, <1>2, <1>3, <1>4, <1>5 DEF LocalIInv
  <2>2. OwnTokens'
    BY <2>1, <1>2, <1>3, <1>4, <1>5, TokenFacts
       DEF Tokens, Unexposed, OwnTokens, Rewrites
  <2>3. FileAhead'
    BY <2>1, <1>2, <1>3, <1>4, <1>5, TokenFacts
       DEF Tokens, Unexposed, FileAhead, Rewrites
  <2>4. EntryAhead'
    BY <2>1, <1>2, <1>3, <1>4, <1>5, TokenFacts
       DEF Tokens, Unexposed, EntryAhead, OwnTokens, FileAhead
  <2>5. ExSucceeds'
    BY <2>1, <1>2, <1>3, <1>4, <1>5, TokenFacts DEF Tokens, Unexposed, ExSucceeds
  <2>6. EntryMeanwhile'
    BY <2>1, <1>2, <1>3, <1>4, <1>5, TokenFacts
       DEF Tokens, Unexposed, EntryMeanwhile, Dead
  <2>7. AllKept'
    BY <2>1, <1>2, <1>3, <1>4, <1>5, TokenFacts
       DEF Tokens, Unexposed, AllKept, KeptSomewhere, Newest, EntryMeanwhile,
           FileAhead, Dead, ExSucceeds
  <2> QED
    BY <2>2, <2>3, <2>4, <2>5, <2>6, <2>7 DEF Unexposed
<1> QED
  BY <1>1, <1>6, <1>7, <1>8, <1>9, <1>10 DEF LocalIInv, Always

\* The session's provider has the tip; its entry is not an operation's to post.
LEMMA ExRefreshStep ==
  ASSUME LocalIInv, ExRefresh
  PROVE  LocalIInv'
<1>1. ChainTypeOK'
  BY TokenFacts, StateTokens
     DEF LocalIInv, Always, ChainTypeOK, ExRefresh, Calm, Tokens, Slot
<1>2. Tokens /\ Tokens' /\ Always
  BY <1>1, StateTokens, PTL DEF LocalIInv, Always
<1>3. UNCHANGED <<auth, lib, active, op>> /\ ex = NoTok
  BY DEF ExRefresh
<1>4. /\ auth.tok[1] \in Account /\ auth.tok[2] = tip[auth.tok[1]] /\ auth.tok # NoTok
      /\ tip[auth.tok[1]] + 1 \in 1 .. MaxGen
  BY <1>2, TokenFacts DEF ExRefresh, Tokens
<1>5. ex' # NoTok /\ ex'[1] = auth.tok[1] /\ ex'[2] = tip[auth.tok[1]] + 1
  BY <1>4, TokenFacts DEF ExRefresh
<1>6. \A b \in Account : tip'[b] = IF b = auth.tok[1] THEN tip[b] + 1 ELSE tip[b]
  BY <1>2 DEF ExRefresh, Always, ChainTypeOK
<1>7. mishap' = (mishap \/ op.kind \in {"active", "switch"})
  BY DEF ExRefresh
<1>8. AllIssued'
  BY <1>2, <1>3, <1>4, <1>5, <1>6, <1>7, TokenFacts
     DEF Tokens, Always, AllIssued, Issued, Rewrites
<1>9. BrandsTrue'
  BY <1>2, <1>3, <1>4, <1>5, <1>6, <1>7, TokenFacts
     DEF Tokens, Always, BrandsTrue, Dead, Rewrites
<1>10. ActiveOnRecord'
  BY <1>2, <1>3, <1>4, <1>5, <1>6, <1>7, TokenFacts
     DEF Tokens, Always, ActiveOnRecord, Rewrites
<1>11. OpShape'
  BY <1>2, <1>3, <1>4, <1>5, <1>6, <1>7, TokenFacts
     DEF Tokens, Always, OpShape, Dead
<1>12. ASSUME ~mishap' PROVE Unexposed'
  <2>1. Unexposed /\ op.kind \notin {"active", "switch"}
    BY <1>12, <1>2, <1>3, <1>4, <1>5, <1>6, <1>7 DEF LocalIInv
  <2>2. OwnTokens'
    BY <2>1, <1>2, <1>3, <1>4, <1>5, <1>6, <1>7, TokenFacts
       DEF Tokens, Unexposed, OwnTokens, Rewrites
  <2>3. FileAhead'
    BY <2>1, <1>2, <1>3, <1>4, <1>5, <1>6, <1>7, TokenFacts
       DEF Tokens, Unexposed, FileAhead, Rewrites
  <2>4. EntryAhead'
    BY <2>1, <1>2, <1>3, <1>4, <1>5, <1>6, <1>7, TokenFacts
       DEF Tokens, Unexposed, EntryAhead
  <2>5. ExSucceeds'
    BY <2>1, <1>2, <1>3, <1>4, <1>5, <1>6, <1>7, TokenFacts
       DEF Tokens, Unexposed, ExSucceeds
  <2>6. EntryMeanwhile'
    BY <2>1, <1>2, <1>3, <1>4, <1>5, <1>6, <1>7, TokenFacts
       DEF Tokens, Unexposed, EntryMeanwhile, Dead
  <2>7. AllKept'
    BY <2>1, <1>2, <1>3, <1>4, <1>5, <1>6, <1>7, TokenFacts
       DEF Tokens, Unexposed, AllKept, KeptSomewhere, Newest
  <2> QED
    BY <2>2, <2>3, <2>4, <2>5, <2>6, <2>7 DEF Unexposed
<1> QED
  BY <1>1, <1>8, <1>9, <1>10, <1>11, <1>12 DEF LocalIInv, Always

\* The provider's token replaces the one it came from.
LEMMA ExWriteStep ==
  ASSUME LocalIInv, ExWrite
  PROVE  LocalIInv'
<1>1. ChainTypeOK'
  BY DEF LocalIInv, Always, ChainTypeOK, ExWrite, Calm, Entry
<1>2. Tokens /\ Tokens' /\ Always
  BY <1>1, StateTokens, PTL DEF LocalIInv, Always
<1>3. UNCHANGED <<tip, lib, active, op, mishap>>
  BY DEF ExWrite
<1>4. ex # NoTok /\ auth'.tok = ex /\ ex' = NoTok
  BY DEF ExWrite
<1>5. AllIssued'
  BY <1>2, <1>3, <1>4, TokenFacts DEF Tokens, Always, AllIssued, Issued, Rewrites
<1>6. BrandsTrue'
  BY <1>2, <1>3, <1>4, TokenFacts DEF Tokens, Always, BrandsTrue, Dead, Rewrites
<1>7. ActiveOnRecord'
  BY <1>2, <1>3, <1>4, TokenFacts DEF Tokens, Always, ActiveOnRecord, Rewrites
<1>8. OpShape'
  BY <1>2, <1>3, <1>4, TokenFacts DEF Tokens, Always, OpShape, Dead
<1>9. ASSUME ~mishap' PROVE Unexposed'
  <2>1. Unexposed
    BY <1>9, <1>2, <1>3, <1>4 DEF LocalIInv
  <2>2. OwnTokens'
    BY <2>1, <1>2, <1>3, <1>4, TokenFacts DEF Tokens, Unexposed, OwnTokens, Rewrites
  <2>3. FileAhead'
    BY <2>1, <1>2, <1>3, <1>4, TokenFacts DEF Tokens, Unexposed, FileAhead, Rewrites
  <2>4. EntryAhead'
    BY <2>1, <1>2, <1>3, <1>4, TokenFacts
       DEF Tokens, Unexposed, EntryAhead, ExSucceeds, Always, ActiveOnRecord
  <2>5. ExSucceeds'
    BY <2>1, <1>2, <1>3, <1>4, TokenFacts DEF Tokens, Unexposed, ExSucceeds
  <2>6. EntryMeanwhile'
    BY <2>1, <1>2, <1>3, <1>4, TokenFacts
       DEF Tokens, Unexposed, EntryMeanwhile, Dead, ExSucceeds
  <2>7. AllKept'
    BY <2>1, <1>2, <1>3, <1>4, TokenFacts
       DEF Tokens, Unexposed, AllKept, KeptSomewhere, Newest, ExSucceeds, Always,
           AllIssued, Issued
  <2> QED
    BY <2>2, <2>3, <2>4, <2>5, <2>6, <2>7 DEF Unexposed
<1> QED
  BY <1>1, <1>5, <1>6, <1>7, <1>8, <1>9 DEF LocalIInv, Always

\* The entry that goes is on record, or the account's own.
LEMMA LoginStep ==
  ASSUME LocalIInv, NEW a \in Account, Login(a)
  PROVE  LocalIInv'
<1>1. ChainTypeOK'
  BY DEF LocalIInv, Always, ChainTypeOK, Login, Disturb, Token, Entry
<1>2. Tokens /\ Tokens' /\ Always
  BY <1>1, StateTokens, PTL DEF LocalIInv, Always
<1>3. UNCHANGED <<lib, active, op, ex>> /\ tip[a] + 1 \in 1 .. MaxGen
  BY <1>2 DEF Login, Tokens
<1>4. auth'.tok # NoTok /\ auth'.tok[1] = a /\ auth'.tok[2] = tip[a] + 1
  BY <1>3, TokenFacts DEF Login
<1>5. \A b \in Account : tip'[b] = IF b = a THEN tip[b] + 1 ELSE tip[b]
  BY <1>2 DEF Login, Always, ChainTypeOK
<1>6. /\ lib[a].tok[1] = a => lib[a].tok[2] <= tip[a]
      /\ op.tok[1] = a => op.tok[2] <= tip[a]
      /\ \A b \in Account : lib[b].tok = NoTok \/ lib[b].tok[1] \in Account
  BY <1>2, TokenFacts DEF Always, AllIssued, Issued, Tokens
<1>7. ~mishap' => /\ ~mishap /\ ex = NoTok /\ op.kind \notin {"active", "switch"}
                  /\ auth.tok = NoTok \/ auth.tok[1] = a \/ lib[auth.tok[1]].tok = auth.tok
  BY DEF Login, Races
<1>8. AllIssued'
  BY <1>2, <1>3, <1>4, <1>5, <1>6, <1>7, TokenFacts
     DEF Tokens, Always, AllIssued, Issued, Rewrites
<1>9. BrandsTrue'
  BY <1>2, <1>3, <1>4, <1>5, <1>6, <1>7, TokenFacts
     DEF Tokens, Always, BrandsTrue, Dead, Rewrites
<1>10. ActiveOnRecord'
  BY <1>2, <1>3, <1>4, <1>5, <1>6, <1>7, TokenFacts
     DEF Tokens, Always, ActiveOnRecord, Rewrites
<1>11. OpShape'
  BY <1>2, <1>3, <1>4, <1>5, <1>6, <1>7, TokenFacts
     DEF Tokens, Always, OpShape, Dead
<1>12. ASSUME ~mishap' PROVE Unexposed'
  <2>1. /\ Unexposed /\ ex = NoTok /\ op.kind \notin {"active", "switch"}
        /\ auth.tok = NoTok \/ auth.tok[1] = a \/ lib[auth.tok[1]].tok = auth.tok
    BY <1>12, <1>2, <1>3, <1>4, <1>5, <1>6, <1>7 DEF LocalIInv
  <2>2. OwnTokens'
    BY <2>1, <1>2, <1>3, <1>4, <1>5, <1>6, <1>7, TokenFacts
       DEF Tokens, Unexposed, OwnTokens, Rewrites
  <2>3. FileAhead'
    BY <2>1, <1>2, <1>3, <1>4, <1>5, <1>6, <1>7, TokenFacts
       DEF Tokens, Unexposed, FileAhead, Rewrites
  <2>4. EntryAhead'
    <3>1. lib[a].tok[2] <= tip[a]
      BY <2>1, <1>2, <1>3, <1>4, <1>5, <1>6, <1>7, TokenFacts
         DEF Unexposed, OwnTokens, Tokens
    <3>2. auth'.tok[1] = a /\ lib'[a].tok[2] < auth'.tok[2]
      BY <3>1, <1>2, <1>3, <1>4, <1>5, <1>6, <1>7, TokenFacts DEF Tokens
    <3> QED
      BY <3>2, <1>2, <1>3, <1>4, <1>5, <1>6, <1>7, TokenFacts DEF EntryAhead, Tokens
  <2>5. ExSucceeds'
    BY <2>1, <1>2, <1>3, <1>4, <1>5, <1>6, <1>7, TokenFacts
       DEF Tokens, Unexposed, ExSucceeds
  <2>6. EntryMeanwhile'
    <3>1. lib[a].tok[2] <= tip[a] /\ lib[a].tok[2] < tip[a] + 1
      BY <2>1, <1>2, <1>3, <1>4, <1>5, <1>6, <1>7, TokenFacts
         DEF Unexposed, OwnTokens, Tokens
    <3>2. op.kind \in {"capture", "sync", "inactive"} /\ op.acct = a => op.tok[2] < tip[a] + 1
      BY <2>1, <1>2, <1>3, <1>4, <1>5, <1>6, <1>7, TokenFacts
         DEF Unexposed, OwnTokens, Tokens
    <3> QED
      BY <2>1, <3>1, <3>2, <1>2, <1>3, <1>4, <1>5, <1>6, <1>7, TokenFacts
         DEF EntryMeanwhile, Tokens
  <2>7. AllKept'
    BY <2>1, <1>2, <1>3, <1>4, <1>5, <1>6, <1>7, TokenFacts
       DEF Tokens, Unexposed, AllKept, KeptSomewhere, Newest
  <2> QED
    BY <2>2, <2>3, <2>4, <2>5, <2>6, <2>7 DEF Unexposed
<1> QED
  BY <1>1, <1>8, <1>9, <1>10, <1>11, <1>12 DEF LocalIInv, Always

\* Time changes no token.
LEMMA ExpireStep ==
  ASSUME LocalIInv, Expire
  PROVE  LocalIInv'
<1>1. ChainTypeOK'
  <2>1. auth' \in Entry
    BY DEF LocalIInv, Always, ChainTypeOK, Expire, Entry
  <2>2. ASSUME NEW a \in Account, lib' = [lib EXCEPT ![a].fresh = FALSE]
        PROVE  lib' \in [Account -> Record]
    <3>1. [lib[a] EXCEPT !.fresh = FALSE] \in Record
      BY DEF LocalIInv, Always, ChainTypeOK, Record
    <3> QED
      BY <2>2, <3>1 DEF LocalIInv, Always, ChainTypeOK
  <2> QED
    BY <2>1, <2>2 DEF LocalIInv, Always, ChainTypeOK, Expire, Calm
<1>2. Tokens /\ Tokens' /\ Always
  BY <1>1, StateTokens, PTL DEF LocalIInv, Always
<1>3. UNCHANGED <<tip, active, ex, op, mishap>> /\ auth'.tok = auth.tok
  BY <1>2 DEF Expire, Always, ChainTypeOK, Entry
<1>4. \A b \in Account : lib'[b].tok = lib[b].tok /\ lib'[b].reauth = lib[b].reauth
  BY <1>2 DEF Expire, Always, ChainTypeOK, Record
<1>5. AllIssued'
  BY <1>2, <1>3, <1>4, TokenFacts DEF Tokens, Always, AllIssued, Issued, Rewrites
<1>6. BrandsTrue'
  BY <1>2, <1>3, <1>4, TokenFacts DEF Tokens, Always, BrandsTrue, Dead, Rewrites
<1>7. ActiveOnRecord'
  BY <1>2, <1>3, <1>4, TokenFacts DEF Tokens, Always, ActiveOnRecord, Rewrites
<1>8. OpShape'
  BY <1>2, <1>3, <1>4, TokenFacts DEF Tokens, Always, OpShape, Dead
<1>9. ASSUME ~mishap' PROVE Unexposed'
  <2>1. Unexposed
    BY <1>9, <1>2, <1>3, <1>4 DEF LocalIInv
  <2>2. OwnTokens'
    BY <2>1, <1>2, <1>3, <1>4, TokenFacts DEF Tokens, Unexposed, OwnTokens, Rewrites
  <2>3. FileAhead'
    BY <2>1, <1>2, <1>3, <1>4, TokenFacts DEF Tokens, Unexposed, FileAhead, Rewrites
  <2>4. EntryAhead'
    BY <2>1, <1>2, <1>3, <1>4, TokenFacts DEF Tokens, Unexposed, EntryAhead
  <2>5. ExSucceeds'
    BY <2>1, <1>2, <1>3, <1>4, TokenFacts DEF Tokens, Unexposed, ExSucceeds
  <2>6. EntryMeanwhile'
    BY <2>1, <1>2, <1>3, <1>4, TokenFacts
       DEF Tokens, Unexposed, EntryMeanwhile, Dead
  <2>7. AllKept'
    BY <2>1, <1>2, <1>3, <1>4, TokenFacts
       DEF Tokens, Unexposed, AllKept, KeptSomewhere, Newest
  <2> QED
    BY <2>2, <2>3, <2>4, <2>5, <2>6, <2>7 DEF Unexposed
<1> QED
  BY <1>1, <1>5, <1>6, <1>7, <1>8, <1>9 DEF LocalIInv, Always

\* A minted token that was nowhere else is an exposure; the rest is still where
\* the operation found it.
LEMMA CrashStep ==
  ASSUME LocalIInv, Crash
  PROVE  LocalIInv'
<1>1. ChainTypeOK'
  BY DEF LocalIInv, Always, ChainTypeOK, Crash, Disturb, Who
<1>2. Tokens /\ Tokens' /\ Always
  BY <1>1, StateTokens, PTL DEF LocalIInv, Always
<1>3. UNCHANGED <<tip, auth, lib, active, ex>> /\ op' = NoOp
  BY DEF Crash
<1>4. ~mishap' => /\ ~mishap /\ op.pc # "auth"
                  /\ op.pc = "put" /\ IsTip(op.tok) =>
                       auth.tok = op.tok \/ \E b \in Account : lib[b].tok = op.tok
  BY DEF Crash
<1>5. op.pc \in {"idle", "post", "put", "auth"} /\ (op.pc = "idle" <=> op = NoOp)
  BY <1>2 DEF Always, ChainTypeOK, Op, Tokens
<1>6. AllIssued'
  BY <1>2, <1>3, <1>4, <1>5, TokenFacts
     DEF Tokens, Always, AllIssued, Issued, Rewrites
<1>7. BrandsTrue'
  BY <1>2, <1>3, <1>4, <1>5, TokenFacts
     DEF Tokens, Always, BrandsTrue, Dead, Rewrites
<1>8. ActiveOnRecord'
  BY <1>2, <1>3, <1>4, <1>5, TokenFacts DEF Tokens, Always, ActiveOnRecord, Rewrites
<1>9. OpShape'
  BY <1>2, <1>3, <1>4, <1>5, TokenFacts DEF Tokens, Always, OpShape, Dead
<1>10. ASSUME ~mishap' PROVE Unexposed'
  <2>1. /\ Unexposed /\ op.pc # "auth"
        /\ op.pc = "put" /\ IsTip(op.tok) =>
             auth.tok = op.tok \/ \E b \in Account : lib[b].tok = op.tok
    BY <1>10, <1>2, <1>3, <1>4, <1>5 DEF LocalIInv
  <2>2. OwnTokens'
    BY <2>1, <1>2, <1>3, <1>4, <1>5, TokenFacts
       DEF Tokens, Unexposed, OwnTokens, Rewrites
  <2>3. FileAhead'
    BY <2>1, <1>2, <1>3, <1>4, <1>5, TokenFacts
       DEF Tokens, Unexposed, FileAhead, Rewrites
  <2>4. EntryAhead'
    BY <2>1, <1>2, <1>3, <1>4, <1>5, TokenFacts DEF Tokens, Unexposed, EntryAhead
  <2>5. ExSucceeds'
    BY <2>1, <1>2, <1>3, <1>4, <1>5, TokenFacts DEF Tokens, Unexposed, ExSucceeds
  <2>6. EntryMeanwhile'
    BY <2>1, <1>2, <1>3, <1>4, <1>5, TokenFacts
       DEF Tokens, Unexposed, EntryMeanwhile, Dead
  <2>7. AllKept'
    <3> SUFFICES ASSUME NEW a \in Account, lib[a].tok # NoTok, Newest(op.tok, a)
                 PROVE  Newest(auth.tok, a) \/ Newest(lib[a].tok, a)
      BY <2>1, <1>2, <1>3, <1>4, <1>5 DEF Unexposed, AllKept, KeptSomewhere, Newest
    <3>1. IsTip(op.tok) /\ op # NoOp
      BY <1>2, <1>3, <1>4, <1>5, TokenFacts DEF Newest, Tokens
    <3>2. CASE op.pc = "put"
      BY <2>1, <3>1, <3>2, <1>2, <1>3, <1>4, <1>5, TokenFacts
         DEF Unexposed, OwnTokens, Newest, Tokens
    <3>3. CASE op.pc = "post"
      <4>1. op.kind \in {"active", "inactive", "retry", "switch"}
        BY <3>1, <3>3, <1>2, <1>3, <1>4, <1>5 DEF Always, OpShape, ChainTypeOK, Op
      <4>2. CASE op.kind = "active"
        BY <2>1, <3>3, <4>2, <1>2, <1>3, <1>4, <1>5
           DEF Unexposed, EntryMeanwhile, Newest
      <4>3. CASE op.kind # "active"
        BY <2>1, <3>3, <4>1, <4>3, <1>2, <1>3, <1>4, <1>5
           DEF Unexposed, OwnTokens, Always, OpShape, Newest
      <4> QED
        BY <4>2, <4>3
    <3> QED
      BY <2>1, <3>1, <3>2, <3>3, <1>2, <1>3, <1>4, <1>5
  <2> QED
    BY <2>2, <2>3, <2>4, <2>5, <2>6, <2>7 DEF Unexposed
<1> QED
  BY <1>1, <1>6, <1>7, <1>8, <1>9, <1>10 DEF LocalIInv, Always

-----------------------------------------------------------------------------
(* The invariant, and what it says to those who use it.                    *)

LEMMA InitEstablishes == ChainInit => LocalIInv
<1> SUFFICES ASSUME ChainInit PROVE LocalIInv
  OBVIOUS
<1>1. \A a \in Account : Held(<<a, 1>>) \in Record /\ <<a, 1>> \in Token
  BY DEF Held, Record, Token
<1>2. ChainTypeOK
  <2>1. tip \in [Account -> 1 .. MaxGen] /\ 0 \in 0 .. MaxTrouble
    BY DEF ChainInit
  <2>2. auth \in Entry /\ lib \in [Account -> Record]
    BY <1>1 DEF ChainInit, Entry
  <2> QED
    BY <2>1, <2>2 DEF ChainInit, ChainTypeOK, Who
<1>3. /\ active \in Account /\ auth.tok = <<active, 1>> /\ ex = NoTok /\ op = NoOp
      /\ \A a \in Account : tip[a] = 1 /\ lib[a].tok = <<a, 1>> /\ ~lib[a].reauth
  BY DEF ChainInit, Held
<1>4. Tokens /\ ~Rewrites /\ op.kind = "none" /\ op.pc = "idle" /\ op.tok = NoTok
  BY <1>2, <1>3, StateTokens DEF Tokens, Rewrites
<1>5. ASSUME NEW a \in Account
      PROVE  <<a, 1>> # NoTok /\ <<a, 1>>[1] = a /\ <<a, 1>>[2] = 1
  <2>1. <<a, 1>> # NoTok
    BY <1>1, TokenFacts
  <2> QED
    BY <2>1
<1>6. AllIssued /\ BrandsTrue
  BY <1>3, <1>4, <1>5, TokenFacts DEF AllIssued, Issued, BrandsTrue
<1>7. ActiveOnRecord /\ OpShape
  BY <1>3, <1>4, <1>5 DEF ActiveOnRecord, OpShape
<1>8. OwnTokens /\ FileAhead
  BY <1>3, <1>4, <1>5 DEF OwnTokens, FileAhead
<1>9. EntryAhead /\ ExSucceeds /\ EntryMeanwhile
  BY <1>3, <1>4, <1>5 DEF EntryAhead, ExSucceeds, EntryMeanwhile
<1>10. AllKept
  BY <1>3, <1>5 DEF AllKept, KeptSomewhere, Newest
<1> QED
  BY <1>2, <1>6, <1>7, <1>8, <1>9, <1>10 DEF LocalIInv, Always, Unexposed

LEMMA NextPreserves == LocalIInv /\ [ChainNext]_vars => LocalIInv'
<1> SUFFICES ASSUME LocalIInv, [ChainNext]_vars PROVE LocalIInv'
  OBVIOUS
<1>1. CASE Collect \/ Session \/ UNCHANGED vars
  <2>1. UNCHANGED <<tip, auth, lib, active, ex, op, mishap>>
    BY <1>1 DEF Collect, Session, vars
  <2>2. ChainTypeOK'
    BY <1>1 DEF LocalIInv, Always, ChainTypeOK, Collect, Session, Calm, vars, Who
  <2> QED
    BY <2>1, <2>2, QuietStep
<1>2. CASE SyncActive
  <2>1. CASE StillViewed /\ lib[viewed].tok # NoTok /\ auth.tok # NoTok
    BY <1>2, <2>1, SyncActiveStep
  <2>2. CASE ~(StillViewed /\ lib[viewed].tok # NoTok /\ auth.tok # NoTok)
    <3>1. UNCHANGED <<tip, auth, lib, active, ex, op, mishap>>
      BY <1>2, <2>2 DEF SyncActive
    <3>2. ChainTypeOK'
      BY <1>2, <2>2 DEF LocalIInv, Always, ChainTypeOK, SyncActive, Calm, Who
    <3> QED
      BY <3>1, <3>2, QuietStep
  <2> QED
    BY <2>1, <2>2
<1>3. CASE KeepActive \/ Capture
  BY <1>3, KeepActiveStep, CaptureStep
<1>4. CASE \E a \in Account : KeepInactive(a) \/ RetryFlagged(a) \/ Switch(a) \/ Remove(a) \/ Login(a)
  BY <1>4, KeepInactiveStep, RetryFlaggedStep, SwitchStep, RemoveStep, LoginStep
<1>5. CASE RefreshOk \/ RefreshFails \/ AnswerLost
  BY <1>5, RefreshOkStep, RefreshFailsStep, AnswerLostStep
<1>6. CASE Write
  BY <1>6, WriteActiveStep, WriteCaptureStep, LateCaptureStep, WriteLibraryStep,
     WriteSwitchStep, WriteAuthStep DEF Write
<1>7. CASE ExRefresh \/ ExWrite \/ Expire \/ Crash
  BY <1>7, ExRefreshStep, ExWriteStep, ExpireStep, CrashStep
<1> QED
  BY <1>1, <1>2, <1>3, <1>4, <1>5, <1>6, <1>7 DEF ChainNext

THEOREM LocalInvariant == ChainSpec => []LocalIInv
BY InitEstablishes, NextPreserves, PTL DEF ChainSpec

\* Every state of the local accounts is of the type the model gives it.
THEOREM LocalTypes == ChainSpec => []ChainTypeOK
<1>1. LocalIInv => ChainTypeOK
  BY DEF LocalIInv, Always
<1> QED
  BY <1>1, LocalInvariant, PTL

\* No account of the library is lost, however the plugin's operations, their
\* failures, OpenCode's own refreshes, logins and crashes interleave - but for
\* the exposures the code leaves open, which the model names.
THEOREM LocalTipKept == ChainSpec => []TipKept
<1>1. LocalIInv => TipKept
  <2> SUFFICES ASSUME LocalIInv, ~mishap, NEW a \in Account, lib[a].tok # NoTok
               PROVE  Kept(Tip(a))
    BY DEF TipKept
  <2>1. Tokens /\ KeptSomewhere(a)
    BY StateTokens DEF LocalIInv, Always, Unexposed, AllKept
  <2>2. \A t \in Slot : Newest(t, a) => t = Tip(a)
    <3>1. Tip(a) \in Slot /\ Tip(a)[1] = a /\ Tip(a)[2] = tip[a]
      BY <2>1, TokenFacts DEF Tokens, Tip
    <3> QED
      BY <3>1, TokenFacts DEF Newest
  <2>3. Unexposed
    BY DEF LocalIInv
  <2> QED
    BY <2>1, <2>2 DEF KeptSomewhere, Kept, Tokens
<1> QED
  BY <1>1, LocalInvariant, PTL

\* No account's token is filed under another account, though a capture files
\* what it read before the vendor told whose it is.
THEOREM LocalNoForeignToken == ChainSpec => []NoForeignToken
<1>1. LocalIInv => NoForeignToken
  <2> SUFFICES ASSUME LocalIInv, ~mishap, NEW a \in Account PROVE lib[a].tok[1] \in {a, None}
    BY DEF NoForeignToken
  <2> QED
    BY TokenFacts DEF LocalIInv, Unexposed, OwnTokens
<1> QED
  BY <1>1, LocalInvariant, PTL

\* The flag that asks the user to log in again is never raised against a token
\* the vendor still honours, nor kept against a newer one - exposures or not.
THEOREM LocalBrandedTruly == ChainSpec => []BrandedTruly
<1>1. LocalIInv => BrandedTruly
  <2> SUFFICES ASSUME LocalIInv, NEW a \in Account, lib[a].reauth PROVE ~IsTip(lib[a].tok)
    BY DEF BrandedTruly
  <2>1. Dead(lib[a].tok) /\ Tokens
    BY StateTokens DEF LocalIInv, Always, BrandsTrue
  <2> QED
    BY <2>1, TokenFacts DEF Dead, Tokens
<1> QED
  BY <1>1, LocalInvariant, PTL
=============================================================================
