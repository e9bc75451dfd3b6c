----------------------------- MODULE PoolMaster -----------------------------
(* The master and the vendor as one of the master's clients sees them: what a *)
(* lease request may be answered, what a report does, and how tokens, quota   *)
(* and cooldowns change by themselves.  LeaseService and Refresher model the  *)
(* master's inside; this is their interface, for the models of the clients.   *)
EXTENDS Disturbance, FiniteSets

CONSTANT MaxGen \* bound: tokens minted per account

ASSUME PoolMasterAssumption == None \notin Account /\ MaxGen \in Nat \ {0}

VARIABLES
  minted,   \* minted[a]: generation of a's current token
  revoked,  \* accounts whose current token the vendor has revoked
  walled,   \* accounts that have used up their quota
  cooling   \* accounts in the master's cooldown book

world == <<minted, revoked, walled, cooling>>

Token == Account \X (1 .. MaxGen)
NoTok == <<None, 0>>

\* How a client's lease grows old, and what it has before the first one.
Age == {"young", "due", "spent"}
NoLease == [acct |-> None, gen |-> 0, age |-> "spent"]

\* The token the master would hand out for a without refreshing.
Current(a) == <<a, minted[a]>>

\* Does the vendor accept the token?
Works(t) == t = Current(t[1]) /\ t[1] \notin revoked

WorldTypeOK ==
  /\ minted \in [Account -> 1 .. MaxGen]
  /\ revoked \subseteq Account
  /\ walled \subseteq Account
  /\ cooling \subseteq Account

WorldInit ==
  /\ minted = [a \in Account |-> 1]
  /\ revoked = {} /\ walled = {} /\ cooling = {}

-----------------------------------------------------------------------------
(* Answers.  The client tells a lease from a refusal of the account it named, *)
(* from an empty pool and from a master it cannot reach or understand.        *)

Served(a)   == [kind |-> "lease", acct |-> a]
Refused     == [kind |-> "refused", acct |-> None]
Empty       == [kind |-> "none", acct |-> None]
Unreachable == [kind |-> "down", acct |-> None]
Answer      == {Served(a) : a \in Account} \cup {Refused, Empty, Unreachable}

\* pickPreferred: the account named, or a refusal - never another account.
NamedAnswers(a) == IF a \in cooling THEN {Refused} ELSE {Served(a)}

\* The ranked pick.
ElectedAnswers(avoid) ==
  LET able == Account \ (cooling \cup avoid)
  IN  IF able = {} THEN {Empty} ELSE {Served(a) : a \in able}

\* A renewal keeps the account that is held, if it can be kept.
RenewalAnswers(current, avoid) ==
  IF current \in Account \ (cooling \cup avoid) THEN {Served(current)}
  ELSE ElectedAnswers(avoid)

\* After a limit: another account, or the same one while the master disbelieves.
RotationAnswers(current, avoid) ==
  ElectedAnswers(avoid \cup ({current} \ {None}))
    \cup (IF current \in Account \ cooling THEN {Served(current)} ELSE {})

LeaseAnswers(reason, current, named, avoid) ==
  {Unreachable} \cup
    (IF named # None THEN NamedAnswers(named)
     ELSE IF reason = "ratelimit" THEN RotationAnswers(current, avoid)
     ELSE RenewalAnswers(current, avoid))

\* A report is believed, or discarded (or lost on the way).
ReportLands(a) == cooling' \in {cooling, cooling \cup {a}}

-----------------------------------------------------------------------------
(* What happens without the client.                                          *)

\* A lease - this client's or another's - or the warm loop refreshes a token,
\* which kills the one before.
RotateToken(a) ==
  /\ minted[a] < MaxGen
  /\ minted' = [minted EXCEPT ![a] = @ + 1]
  /\ revoked' = revoked \ {a}
  /\ UNCHANGED <<walled, cooling>>

\* The vendor revokes a token; the master goes on serving it from its cache.
RevokeToken(a) ==
  /\ a \notin revoked
  /\ revoked' = revoked \cup {a}
  /\ UNCHANGED <<minted, walled, cooling>>

FillQuota(a) ==
  /\ a \notin walled
  /\ walled' = walled \cup {a}
  /\ UNCHANGED <<minted, revoked, cooling>>

\* The quota returns and with it the account.
QuotaReturns(a) ==
  /\ a \in walled
  /\ walled' = walled \ {a}
  /\ cooling' = cooling \ {a}
  /\ UNCHANGED <<minted, revoked>>

\* The cooldown of an account that has quota runs out.
CooldownLapses(a) ==
  /\ a \in cooling \ walled
  /\ cooling' = cooling \ {a}
  /\ UNCHANGED <<minted, revoked, walled>>
=============================================================================
