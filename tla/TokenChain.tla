------------------------------ MODULE TokenChain ------------------------------
(***************************************************************************)
(* What the master promises about the refresh chain of an account, whoever *)
(* rotates it: the one token the vendor still accepts is on record, or in  *)
(* the hands of somebody about to record it, unless something outside the  *)
(* code lost it; an account is condemned only when its record is dead; and *)
(* only a login brings a deleted one back.  Refresher implements this.     *)
(***************************************************************************)
EXTENDS Naturals, TLAPS

CONSTANT Account

VARIABLES
  tip,          \* where the account's good token is
  branded,      \* is the account condemned to a new login?
  minted,       \* how many tokens the vendor has issued for it
  excused       \* accounts whose token something outside the code may have lost

chainVars == <<tip, branded, minted, excused>>

Place == {"deleted", "recorded", "moving", "lost"}

ChainTypeOK ==
  /\ tip \in [Account -> Place]
  /\ branded \in [Account -> BOOLEAN]
  /\ minted \in [Account -> Nat]
  /\ excused \subseteq Account

\* Where a token may be once it has been let slip.
Worse(place) ==
  CASE place = "recorded" -> {"recorded", "moving", "lost"}
    [] place = "moving" -> {"moving", "lost"}
    [] OTHER -> {place}

-----------------------------------------------------------------------------
\* Somebody spends a token of the account and holds the next one.  It need not
\* be the one on record: a login leaves the chain before it usable.
Spend(a) ==
  /\ minted' = [minted EXCEPT ![a] = @ + 1]
  /\ \/ UNCHANGED tip
     \/ tip[a] # "deleted" /\ tip' = [tip EXCEPT ![a] = "moving"]
  /\ UNCHANGED <<branded, excused>>

\* Somebody writes the token he holds on record, which lifts any verdict.  Only
\* for an excused account may it be a dead one.
Record(a) ==
  /\ tip[a] # "deleted"
  /\ \/ tip[a] # "lost" /\ tip' = [tip EXCEPT ![a] = "recorded"]
     \/ a \in excused /\ \E place \in {"moving", "lost"} : tip' = [tip EXCEPT ![a] = place]
  /\ branded' = [branded EXCEPT ![a] = FALSE]
  /\ UNCHANGED <<minted, excused>>

\* The world loses tokens: answers, writes, processes, whole chains.
Lose ==
  /\ excused \subseteq excused' /\ excused' \subseteq Account
  /\ minted' \in [Account -> Nat]
  /\ \A a \in Account : minted'[a] >= minted[a]
  /\ tip' \in [Account -> Place]
  /\ \A a \in Account : IF a \in excused' THEN tip'[a] \in Worse(tip[a])
                        ELSE tip'[a] = tip[a] /\ minted'[a] = minted[a]
  /\ UNCHANGED branded

\* The vendor has refused what is on record.
Brand(a) ==
  /\ tip[a] \in {"moving", "lost"}
  /\ branded' = [branded EXCEPT ![a] = TRUE]
  /\ UNCHANGED <<tip, minted, excused>>

Login(a) ==
  /\ tip' = [tip EXCEPT ![a] = "recorded"]
  /\ branded' = [branded EXCEPT ![a] = FALSE]
  /\ minted' = [minted EXCEPT ![a] = @ + 1]
  /\ excused' \in {excused, excused \ {a}}

Delete(a) ==
  /\ tip[a] # "deleted"
  /\ tip' = [tip EXCEPT ![a] = "deleted"]
  /\ branded' = [branded EXCEPT ![a] = FALSE]
  /\ UNCHANGED <<minted, excused>>

-----------------------------------------------------------------------------
ChainInit ==
  /\ tip = [a \in Account |-> "recorded"]
  /\ branded = [a \in Account |-> FALSE]
  /\ minted = [a \in Account |-> 1]
  /\ excused = {}

ChainNext ==
  \/ \E a \in Account : Spend(a) \/ Record(a) \/ Brand(a) \/ Login(a) \/ Delete(a)
  \/ Lose

ChainSpec == ChainInit /\ [][ChainNext]_chainVars

-----------------------------------------------------------------------------
\* What follows for every implementation: a token is lost only where the world
\* lost one, and a condemned account has no good token on record.
ChainSound ==
  \A a \in Account :
    /\ tip[a] = "lost" => a \in excused
    /\ branded[a] => tip[a] \notin {"recorded", "deleted"}

\* Both follow from the abstract chain: a verdict falls only on a token that is
\* not on record, and a write or a login lifts it.
THEOREM SpecIsSound == ChainSpec => []ChainSound
<1>1. ChainInit => ChainTypeOK /\ ChainSound
  BY DEF ChainInit, ChainTypeOK, ChainSound, Place
<1>2. ChainTypeOK /\ ChainSound /\ [ChainNext]_chainVars => ChainTypeOK' /\ ChainSound'
  <2>. SUFFICES ASSUME ChainTypeOK, ChainSound, [ChainNext]_chainVars
                PROVE  ChainTypeOK' /\ ChainSound'
    OBVIOUS
  <2>. USE DEF ChainTypeOK, ChainSound
  <2>1. ASSUME NEW a \in Account, Spend(a) PROVE ChainTypeOK' /\ ChainSound'
    BY <2>1 DEF Spend, Place
  <2>2. ASSUME NEW a \in Account, Record(a) PROVE ChainTypeOK' /\ ChainSound'
    BY <2>2 DEF Record, Place
  <2>3. ASSUME NEW a \in Account, Brand(a) PROVE ChainTypeOK' /\ ChainSound'
    BY <2>3 DEF Brand, Place
  <2>4. ASSUME NEW a \in Account, Login(a) PROVE ChainTypeOK' /\ ChainSound'
    BY <2>4 DEF Login, Place
  <2>5. ASSUME NEW a \in Account, Delete(a) PROVE ChainTypeOK' /\ ChainSound'
    BY <2>5 DEF Delete, Place
  <2>6. CASE Lose
    <3>1. \A a \in Account : tip[a] \in {"moving", "lost"} => tip'[a] \in {"moving", "lost"}
      BY <2>6 DEF Lose, Worse
    <3>2. \A a \in Account : tip'[a] = "lost" => a \in excused'
      BY <2>6 DEF Lose
    <3>3. branded' = branded
      BY <2>6 DEF Lose
    <3>4. \A a \in Account : branded[a] => tip'[a] \notin {"recorded", "deleted"}
      BY <3>1 DEF Place
    <3>. QED  BY <2>6, <3>2, <3>3, <3>4 DEF Lose
  <2>7. CASE UNCHANGED chainVars
    BY <2>7 DEF chainVars
  <2>. QED  BY <2>1, <2>2, <2>3, <2>4, <2>5, <2>6, <2>7 DEF ChainNext
<1>. QED  BY <1>1, <1>2, PTL DEF ChainSpec
=============================================================================
