---------------------------- MODULE ClientProofs ----------------------------
(* The machines that live on the pool's leases, whatever their number of      *)
(* requests, sessions, accounts and disturbances.  Claude Code: the relay's   *)
(* queue keeps one job for every request that waits, the relay stays while a  *)
(* session beats, and the takeover leaves the machine as its owner had it.    *)
(* senpi: recovery is bounded, and blames the account that failed while the   *)
(* grace lasts.  A worker: its pin is given up only for a reason.             *)
EXTENDS SharedLease, SenpiSlot, WorkerSlot, Takeover, TLAPS

-----------------------------------------------------------------------------
(* The sessions' relay.                                                    *)

LauncherState ==
  [pc : {"off", "probing", "starting", "attaching", "attached", "running", "execed", "leaving"},
   child : BOOLEAN, since : 0 .. Heartbeat + AttachTimeout]

\* Between a beat and the registration it ends in.
Beating(l) == launcher[l].pc \in {"probing", "starting", "attaching"}

\* A session that beats is on the relay's list, or the relay has heard of it
\* since its last beat, or since the one before while that one is under way.
Heard(l) ==
  /\ At(l, "attached") => quiet <= launcher[l].since
  /\ At(l, "running") => l \in sessions \/ quiet <= launcher[l].since
  /\ Beating(l) => l \in sessions \/ quiet <= launcher[l].since + (Heartbeat + AttachTimeout)

SessionSound(l) ==
  /\ launcher[l].child => ~At(l, "off") /\ ~At(l, "leaving")
  /\ At(l, "attached") => up /\ l \in sessions
  /\ At(l, "execed") => l \in Wrapped
  /\ up /\ launcher[l].child /\ l \notin Wrapped => Heard(l)

SessionsIInv ==
  /\ up \in BOOLEAN /\ resident \in BOOLEAN /\ agent \in BOOLEAN
  /\ spawned \in 0 .. MaxSpawn
  /\ sessions \subseteq Launcher
  /\ quiet \in 0 .. IdleExit
  /\ launcher \in [Launcher -> LauncherState]
  /\ \A l \in Launcher : SessionSound(l)

LEMMA Intervals ==
  /\ Heartbeat \in Nat /\ AttachTimeout \in Nat /\ IdleExit \in Nat /\ MaxSpawn \in Nat
  /\ Heartbeat > 0 /\ AttachTimeout > 0 /\ MaxSpawn > 0
  /\ 2 * (Heartbeat + AttachTimeout) < IdleExit
  /\ Off \in LauncherState /\ Off.pc = "off" /\ Off.child = FALSE
  BY SessionsAssumption DEF Off, LauncherState

LEMMA LauncherFields ==
  ASSUME NEW s \in LauncherState
  PROVE  /\ s.child \in BOOLEAN /\ s.since \in 0 .. Heartbeat + AttachTimeout
         /\ \A pc \in {"off", "probing", "starting", "attaching", "attached", "running", "execed", "leaving"} :
              /\ [s EXCEPT !.pc = pc] \in LauncherState
              /\ [s EXCEPT !.pc = pc].pc = pc
              /\ [s EXCEPT !.pc = pc].child = s.child
              /\ [s EXCEPT !.pc = pc].since = s.since
  BY DEF LauncherState

\* One launcher moves, and what holds of the others goes on holding.
LEMMA OneMoves ==
  ASSUME SessionsIInv, NEW l \in Launcher, NEW s \in LauncherState,
         launcher' = [launcher EXCEPT ![l] = s],
         up' \in BOOLEAN, UNCHANGED <<up, resident, agent>>,
         spawned' \in 0 .. MaxSpawn, sessions' \subseteq Launcher, sessions \ {l} \subseteq sessions',
         quiet' \in {0, quiet}, SessionSound(l)'
  PROVE  SessionsIInv'
<1> USE Intervals
<1>1. /\ launcher' \in [Launcher -> LauncherState] /\ launcher'[l] = s
      /\ \A k \in Launcher \ {l} : launcher'[k] = launcher[k]
  BY DEF SessionsIInv
<1>2. ASSUME NEW k \in Launcher, k # l PROVE SessionSound(k)'
  <2>1. launcher[k] \in LauncherState /\ SessionSound(k) /\ quiet \in 0 .. IdleExit
    BY DEF SessionsIInv
  <2>2. launcher[k].since \in Nat
    BY <2>1 DEF LauncherState
  <2>3. quiet' <= quiet /\ quiet \in Nat /\ quiet' \in Nat
    BY <2>1
  <2> QED
    BY <1>1, <1>2, <2>1, <2>2, <2>3 DEF SessionSound, Heard, Beating, At
<1> QED
  BY <1>1, <1>2 DEF SessionsIInv

\* Where a launcher that gets no answer goes on.
LEMMA FailureFacts ==
  ASSUME SessionsIInv, NEW l \in Launcher
  PROVE  /\ AfterFailure(l) \in LauncherState
         /\ AfterFailure(l).child = launcher[l].child
         /\ launcher[l].child => /\ AfterFailure(l).pc = "running"
                                 /\ AfterFailure(l).since = launcher[l].since
         /\ ~launcher[l].child => AfterFailure(l).pc = "off"
<1>1. launcher[l] \in LauncherState
  BY DEF SessionsIInv
<1>2. CASE launcher[l].child
  BY <1>1, <1>2, LauncherFields DEF AfterFailure
<1>3. CASE ~launcher[l].child
  <2>1. launcher[l].child = FALSE
    BY <1>1, <1>3, LauncherFields
  <2>2. AfterFailure(l) = Off
    BY <1>3 DEF AfterFailure
  <2> QED
    BY <1>3, <2>1, <2>2, Intervals
<1> QED
  BY <1>2, <1>3

LEMMA FailsKeeps ==
  ASSUME SessionsIInv, NEW l \in Launcher, Fails(l), UNCHANGED <<up, resident, agent, spawned, quiet>>,
         \/ UNCHANGED sessions /\ (up => Beating(l) \/ At(l, "attached"))
            /\ (up /\ Beating(l) => FALSE)
         \/ sessions' = sessions \ {l} /\ At(l, "attached")
  PROVE  SessionsIInv'
<1>1. /\ AfterFailure(l) \in LauncherState /\ launcher' = [launcher EXCEPT ![l] = AfterFailure(l)]
      /\ launcher \in [Launcher -> LauncherState]
      /\ up \in BOOLEAN /\ spawned \in 0 .. MaxSpawn /\ sessions \subseteq Launcher /\ SessionSound(l)
  BY FailureFacts DEF SessionsIInv, Fails
<1>2. launcher'[l] = AfterFailure(l)
  BY <1>1
<1>3. SessionSound(l)'
  BY <1>1, <1>2, FailureFacts DEF SessionSound, Heard, Beating, At
<1> QED
  BY <1>1, <1>3, OneMoves

LEMMA GoesKeeps ==
  ASSUME SessionsIInv, NEW l \in Launcher, UNCHANGED <<up, resident, agent, sessions, quiet>>,
         At(l, "off") \/ Beating(l), spawned' \in 0 .. MaxSpawn,
         NEW pc \in {"probing", "starting", "attaching"}, Goes(l, pc)
  PROVE  SessionsIInv'
<1> DEFINE s == [launcher[l] EXCEPT !.pc = pc]
<1>1. /\ launcher \in [Launcher -> LauncherState] /\ launcher[l] \in LauncherState
      /\ up \in BOOLEAN /\ sessions \subseteq Launcher /\ SessionSound(l)
  BY DEF SessionsIInv
<1>2. s \in LauncherState /\ s.pc = pc /\ s.child = launcher[l].child /\ s.since = launcher[l].since
  BY <1>1 DEF LauncherState
<1>3. launcher' = [launcher EXCEPT ![l] = s]
  BY <1>1 DEF Goes
<1> HIDE DEF s
<1>4. launcher'[l] = s
  BY <1>1, <1>3
<1>5. SessionSound(l)'
  BY <1>1, <1>2, <1>4 DEF SessionSound, Heard, Beating, At
<1> QED
  BY <1>1, <1>2, <1>3, <1>5, OneMoves

LEMMA LauncherKeeps ==
  ASSUME SessionsIInv, NEW l \in Launcher, LauncherStep(l) \/ SessionEvent(l) \/ Launch(l)
  PROVE  SessionsIInv'
<1> USE Intervals
<1>1. /\ launcher \in [Launcher -> LauncherState] /\ launcher[l] \in LauncherState
      /\ up \in BOOLEAN /\ sessions \subseteq Launcher /\ SessionSound(l)
      /\ spawned \in 0 .. MaxSpawn /\ quiet \in 0 .. IdleExit
      /\ launcher[l].since \in 0 .. Heartbeat + AttachTimeout
  BY DEF SessionsIInv, LauncherState
<1>2. CASE Launch(l)
  BY <1>1, <1>2, GoesKeeps DEF Launch, port
<1>3. CASE Probe(l)
  <2>1. OneMore \in 0 .. MaxSpawn
    BY <1>1 DEF OneMore
  <2> QED
    BY <1>1, <1>3, <2>1, GoesKeeps DEF Probe, port, At, Beating
<1>4. CASE Poll(l)
  BY <1>1, <1>4, GoesKeeps, FailsKeeps DEF Poll, port, At, Beating
<1>5. CASE Attach(l)
  <2>1. CASE up
    <3> DEFINE s == [launcher[l] EXCEPT !.pc = "attached"]
    <3>1. s \in LauncherState /\ s.pc = "attached" /\ s.child = launcher[l].child /\ s.since = launcher[l].since
      BY <1>1, LauncherFields
    <3>2. /\ launcher' = [launcher EXCEPT ![l] = s] /\ quiet' = 0 /\ sessions' = sessions \cup {l}
          /\ UNCHANGED <<up, resident, agent, spawned>>
      BY <1>1, <1>5, <2>1 DEF Attach, Goes, port
    <3> HIDE DEF s
    <3>3. launcher'[l] = s
      BY <1>1, <3>2
    <3>4. SessionSound(l)'
      BY <1>1, <2>1, <3>1, <3>2, <3>3 DEF SessionSound, Heard, Beating, At
    <3> QED
      BY <1>1, <3>1, <3>2, <3>4, OneMoves
  <2>2. CASE ~up
    BY <1>1, <1>5, <2>2, FailsKeeps DEF Attach, port
  <2> QED
    BY <2>1, <2>2
<1>6. CASE Beat(l)
  <2> DEFINE s == [launcher[l] EXCEPT !.pc = "probing", !.since = 0]
  <2>1. s \in LauncherState /\ s.pc = "probing" /\ s.child = launcher[l].child /\ s.since = 0
    <3> DEFINE probing == [launcher[l] EXCEPT !.pc = "probing"]
    <3>1. probing \in LauncherState /\ probing.pc = "probing" /\ probing.child = launcher[l].child
      BY <1>1, LauncherFields
    <3>2. s = [probing EXCEPT !.since = 0] /\ 0 \in 0 .. Heartbeat + AttachTimeout
      OBVIOUS
    <3> HIDE DEF probing, s
    <3> QED
      BY <3>1, <3>2 DEF LauncherState
  <2>2. /\ launcher' = [launcher EXCEPT ![l] = s] /\ At(l, "running")
        /\ UNCHANGED <<up, resident, agent, spawned, sessions, quiet>>
    BY <1>1, <1>6 DEF Beat, port
  <2> HIDE DEF s
  <2>3. launcher'[l] = s
    BY <1>1, <2>2
  <2>4. SessionSound(l)'
    BY <1>1, <2>1, <2>2, <2>3 DEF SessionSound, Heard, Beating, At
  <2> QED
    BY <1>1, <2>1, <2>2, <2>4, OneMoves
<1>7. CASE AttachGranted(l)
  <2> DEFINE s == [pc |-> IF l \in Wrapped THEN "execed" ELSE "running", child |-> TRUE,
                   since |-> IF launcher[l].child THEN launcher[l].since ELSE 0]
  <2>1. s \in LauncherState /\ s.pc = (IF l \in Wrapped THEN "execed" ELSE "running")
    BY <1>1 DEF LauncherState
  <2>2. /\ launcher' = [launcher EXCEPT ![l] = s] /\ At(l, "attached")
        /\ UNCHANGED <<up, resident, agent, spawned, sessions, quiet>>
    BY <1>1, <1>7 DEF AttachGranted, port
  <2> HIDE DEF s
  <2>3. launcher'[l] = s
    BY <1>1, <2>2
  <2>4. SessionSound(l)'
    BY <1>1, <2>1, <2>2, <2>3 DEF SessionSound, Heard, Beating, At
  <2> QED
    BY <1>1, <2>1, <2>2, <2>4, OneMoves
<1>8. CASE AttachDenied(l) \/ AttachUnanswered(l)
  BY <1>1, <1>8, FailsKeeps DEF AttachDenied, AttachUnanswered, port, At, Beating
<1>9. ASSUME NEW s \in LauncherState, ~s.child, s.pc \in {"off", "leaving"},
             launcher' = [launcher EXCEPT ![l] = s],
             UNCHANGED <<up, resident, agent, spawned>>, quiet' \in {0, quiet},
             sessions' \in {sessions, sessions \ {l}}
      PROVE  SessionsIInv'
  <2>1. launcher'[l] = s
    BY <1>1, <1>9
  <2>2. SessionSound(l)'
    BY <1>1, <1>9, <2>1 DEF SessionSound, Heard, Beating, At
  <2> QED
    BY <1>1, <1>9, <2>2, OneMoves
<1>10. CASE ChildExits(l)
  <2> DEFINE s == [pc |-> "leaving", child |-> FALSE, since |-> 0]
  <2>1. s \in LauncherState /\ ~s.child /\ s.pc = "leaving"
    BY DEF LauncherState
  <2>2. launcher' = [launcher EXCEPT ![l] = s] /\ UNCHANGED <<up, resident, agent, spawned, sessions, quiet>>
    BY <1>10 DEF ChildExits, port
  <2> HIDE DEF s
  <2> QED
    BY <1>9, <2>1, <2>2
<1>11. CASE Detach(l) \/ ExecedExits(l) \/ Killed(l)
  BY <1>9, <1>11 DEF Detach, ExecedExits, Killed, port
<1>12. CASE Asks(l)
  <2>1. launcher' = [launcher EXCEPT ![l] = launcher[l]]
    BY <1>1, <1>12 DEF Asks
  <2>2. SessionSound(l)'
    BY <1>1, <1>12 DEF Asks, port, SessionSound, Heard, Beating, At
  <2> QED
    BY <1>1, <1>12, <2>1, <2>2, OneMoves DEF Asks, port
<1> QED
  BY <1>2, <1>3, <1>4, <1>5, <1>6, <1>7, <1>8, <1>10, <1>11, <1>12
     DEF LauncherStep, SessionEvent

\* The end of a relay.
LEMMA GoneKeeps ==
  ASSUME SessionsIInv, RelayGone, agent' \in BOOLEAN, UNCHANGED <<spawned, quiet>>
  PROVE  SessionsIInv'
<1>1. /\ launcher \in [Launcher -> LauncherState] /\ up' = FALSE /\ resident' = FALSE /\ sessions' = {}
      /\ launcher' = [l \in Launcher |-> IF l \in Pending THEN AfterFailure(l) ELSE launcher[l]]
  BY DEF SessionsIInv, RelayGone
<1>2. launcher' \in [Launcher -> LauncherState]
  BY <1>1, FailureFacts
<1>3. ASSUME NEW l \in Launcher PROVE SessionSound(l)'
  <2>1. CASE At(l, "attached")
    <3>1. launcher'[l] = AfterFailure(l)
      BY <1>1, <2>1 DEF Pending
    <3> QED
      BY <1>1, <3>1, FailureFacts DEF SessionSound, At, Heard
  <2>2. CASE ~At(l, "attached")
    <3>1. launcher'[l] = launcher[l] /\ SessionSound(l)
      BY <1>1, <2>2 DEF Pending, SessionsIInv
    <3> QED
      BY <1>1, <2>2, <3>1 DEF SessionSound, At, Heard
  <2> QED
    BY <2>1, <2>2
<1> QED
  BY <1>1, <1>2, <1>3 DEF SessionsIInv

LEMMA RelayStepsKeep ==
  ASSUME SessionsIInv, RelayStep
  PROVE  SessionsIInv'
<1> USE Intervals
<1>1. /\ launcher \in [Launcher -> LauncherState] /\ up \in BOOLEAN /\ resident \in BOOLEAN /\ agent \in BOOLEAN
      /\ sessions \subseteq Launcher /\ spawned \in 0 .. MaxSpawn /\ quiet \in 0 .. IdleExit
      /\ \A l \in Launcher : SessionSound(l) /\ launcher[l].since \in 0 .. Heartbeat + AttachTimeout
  BY DEF SessionsIInv, LauncherState
<1>2. CASE Bind \/ AgentBinds
  <2>1. /\ UNCHANGED <<agent, launcher>> /\ spawned' \in 0 .. MaxSpawn
        /\ \/ up /\ UNCHANGED <<up, resident, sessions, quiet>>
           \/ ~up /\ up' = TRUE /\ resident' \in BOOLEAN /\ sessions' = {} /\ quiet' = 0
    <3>1. CASE Bind
      <4>1. spawned' \in 0 .. MaxSpawn /\ UNCHANGED <<agent, launcher>>
        BY <1>1, <3>1 DEF Bind
      <4>2. CASE up
        BY <3>1, <4>1, <4>2 DEF Bind, port
      <4>3. CASE ~up
        BY <3>1, <4>1, <4>3 DEF Bind
      <4> QED
        BY <4>2, <4>3
    <3>2. CASE AgentBinds
      BY <1>1, <3>2 DEF AgentBinds
    <3> QED
      BY <1>2, <3>1, <3>2
  <2>2. \A l \in Launcher : SessionSound(l)'
    BY <1>1, <2>1 DEF SessionSound, Heard, Beating, At
  <2>3. up' \in BOOLEAN /\ resident' \in BOOLEAN /\ sessions' \subseteq Launcher
    <3>1. CASE UNCHANGED <<up, resident, sessions, quiet>>
      BY <1>1, <3>1
    <3>2. CASE up' = TRUE /\ resident' \in BOOLEAN /\ sessions' = {}
      BY <3>2
    <3> QED
      BY <2>1, <3>1, <3>2
  <2>4. quiet' \in 0 .. IdleExit
    BY <1>1, <2>1
  <2>5. agent' \in BOOLEAN /\ launcher' \in [Launcher -> LauncherState]
    BY <1>1, <2>1
  <2> QED
    BY <2>1, <2>2, <2>3, <2>4, <2>5 DEF SessionsIInv
<1>3. CASE Reap
  <2>1. /\ UNCHANGED <<up, resident, agent, spawned, launcher>> /\ sessions' = sessions \cap Alive /\ quiet' = 0
    BY <1>3 DEF Reap, port
  <2>2. \A l \in Launcher : SessionSound(l)'
    BY <1>1, <2>1 DEF SessionSound, Heard, Beating, At, Alive
  <2> QED
    BY <1>1, <2>1, <2>2 DEF SessionsIInv
<1>4. CASE LeaveWhenIdle
  <2>1. /\ UNCHANGED <<resident, agent, spawned, quiet, launcher>> /\ sessions' = {} /\ up' \in {FALSE, up} /\ up
        /\ \A l \in Launcher : l \in sessions => At(l, "off")
    BY <1>4 DEF LeaveWhenIdle, Alive
  <2>2. \A l \in Launcher : SessionSound(l)'
    BY <1>1, <2>1 DEF SessionSound, Heard, Beating, At
  <2>3. up' \in BOOLEAN
    BY <2>1
  <2> QED
    BY <1>1, <2>1, <2>2, <2>3 DEF SessionsIInv
<1>5. CASE RelayDies
  BY <1>1, <1>5, GoneKeeps DEF RelayDies
<1>6. CASE TimePasses
  <2>1. /\ UNCHANGED <<up, resident, agent, spawned, sessions>> /\ quiet' \in 0 .. IdleExit /\ quiet' <= quiet + 1
    BY <1>1, <1>6 DEF TimePasses, port
  <2>2. \A l \in Launcher :
          /\ launcher'[l] \in LauncherState
          /\ launcher'[l].pc = launcher[l].pc /\ launcher'[l].child = launcher[l].child
          /\ launcher[l].child /\ l \notin Wrapped => launcher'[l].since = launcher[l].since + 1
    <3> SUFFICES ASSUME NEW l \in Launcher
                 PROVE  /\ launcher'[l] \in LauncherState
                        /\ launcher'[l].pc = launcher[l].pc /\ launcher'[l].child = launcher[l].child
                        /\ launcher[l].child /\ l \notin Wrapped => launcher'[l].since = launcher[l].since + 1
      OBVIOUS
    <3>1. launcher[l] \in LauncherState
      BY <1>1
    <3>2. CASE launcher[l].child /\ l \notin Wrapped
      <4>1. /\ launcher'[l] = [launcher[l] EXCEPT !.since = launcher[l].since + 1]
            /\ launcher[l].since < Heartbeat + AttachTimeout
        BY <1>1, <1>6, <3>2 DEF TimePasses
      <4>2. launcher[l].since + 1 \in 0 .. Heartbeat + AttachTimeout
        BY <1>1, <4>1
      <4> QED
        BY <3>1, <4>1, <4>2 DEF LauncherState
    <3>3. CASE ~(launcher[l].child /\ l \notin Wrapped)
      <4>1. launcher'[l] = launcher[l]
        BY <1>6, <3>3 DEF TimePasses
      <4> QED
        BY <3>1, <3>3, <4>1
    <3> QED
      BY <3>2, <3>3
  <2>3. launcher' \in [Launcher -> LauncherState]
    <3>1. launcher' = [l \in Launcher |-> launcher'[l]]
      BY <1>6 DEF TimePasses
    <3> QED
      BY <2>2, <3>1
  <2>4. ASSUME NEW l \in Launcher PROVE SessionSound(l)'
    BY <1>1, <2>1, <2>2 DEF SessionSound, Heard, Beating, At
  <2> QED
    BY <1>1, <2>1, <2>3, <2>4 DEF SessionsIInv
<1> QED
  BY <1>2, <1>3, <1>4, <1>5, <1>6 DEF RelayStep

LEMMA SessionsStart == SessionsInit => SessionsIInv
<1> SUFFICES ASSUME SessionsInit PROVE SessionsIInv
  OBVIOUS
<1>1. \A l \in Launcher : launcher[l] = Off
  BY DEF SessionsInit
<1>2. launcher \in [Launcher -> LauncherState]
  BY Intervals DEF SessionsInit
<1>3. \A l \in Launcher : SessionSound(l)
  BY <1>1, Intervals DEF SessionSound, At
<1>4. up \in BOOLEAN /\ resident \in BOOLEAN /\ agent \in BOOLEAN
  BY DEF SessionsInit, port
<1>5. sessions \subseteq Launcher /\ spawned \in 0 .. MaxSpawn /\ quiet \in 0 .. IdleExit
  BY Intervals DEF SessionsInit
<1> QED
  BY <1>2, <1>3, <1>4, <1>5 DEF SessionsIInv

\* When the relay leaves, whoever beats has been heard of too recently.
LEMMA LeavesAlone ==
  ASSUME SessionsIInv, LeaveWhenIdle, up' = FALSE, NEW l \in Launcher, launcher[l].child
  PROVE  l \in Wrapped /\ ~resident
<1>1. up /\ quiet = IdleExit /\ ~resident /\ sessions \cap Alive = {} /\ Pending = {}
  BY DEF LeaveWhenIdle
<1>2. SessionSound(l) /\ launcher[l].since \in 0 .. Heartbeat + AttachTimeout /\ launcher[l] \in LauncherState
  BY DEF SessionsIInv, LauncherState
<1>3. l \notin sessions /\ ~At(l, "attached")
  BY <1>1, <1>2 DEF SessionSound, Alive, Pending
<1>4. launcher[l].since + (Heartbeat + AttachTimeout) < IdleExit /\ launcher[l].since < IdleExit
  BY <1>2, Intervals
<1> QED
  BY <1>1, <1>2, <1>3, <1>4, Intervals
     DEF SessionSound, Heard, Beating, At, LauncherState

-----------------------------------------------------------------------------
(* The takeover.                                                           *)

\* Where setup is, and of that: while it counts on what it saw of the worker's
\* file; of the settings, and of the shell's; once its manifest is written; once
\* it has merged its master; once the scripts are there.
WhileSeen == {"asking", "manifest", "reverting", "worker", "saveWorker"}
WhilePlanned == {"manifest", "reverting", "worker", "saveWorker", "bins", "saveBins", "settings"}
WhileShell == WhilePlanned \cup {"saveSettings", "skill", "rc"}
OnceScripts == {"saveBins", "settings", "saveSettings", "skill", "rc", "saveRc", "relay", "agent"}
OnceMerged == {"saveWorker", "bins"} \cup OnceScripts
OnceRecorded == {"reverting", "worker"} \cup OnceMerged
SetupPc == {"asking", "manifest"} \cup OnceRecorded

\* Where revert is, and of that: once each part is taken back.
OnceRestored == {"forget"}
OnceSkill == {"restore"} \cup OnceRestored
OnceRemoved == {"unskill"} \cup OnceSkill
OnceUnblocked == {"unload", "stop", "remove"} \cup OnceRemoved
OnceUnset == {"unblock"} \cup OnceUnblocked
RevertPc == {"unset"} \cup OnceUnset

Known == {"unknown", "yes", "no"}
WorkerRecord == {NoRecord} \cup [is : {TRUE}, before : WorkerFile, after : WorkerFile]
Manifest == [worker : WorkerRecord, createdEnv : Known, createdRc : Known, generated : BOOLEAN]
Kept == {Absent} \cup [is : {TRUE}, of : Manifest]
SetupJob ==
  [pc : SetupPc, master : Master, dirty : BOOLEAN, seen : WorkerFile, man : Manifest,
   plan : Settings, env : Part \cup {"gateway", "kept"}, rc : Rc]
RevertJob == [pc : RevertPc, dirty : BOOLEAN, man : Manifest]

FileTypes ==
  /\ worker \in WorkerFile /\ settings \in Settings /\ rc \in Rc /\ skill \in Slot
  /\ bins \in [launcher : BOOLEAN, scripts : BOOLEAN]
RecordTypes == manifest \in Kept /\ reverting \in Kept
JobTypes ==
  /\ Busy => job.pc \in SetupPc \cup RevertPc
  /\ job.pc \in SetupPc => job \in SetupJob
  /\ job.pc \in RevertPc => job \in RevertJob
GhostTypes ==
  /\ owner \in [worker : WorkerFile, version : Nat, env : Part \cup {"gateway"},
                status : {"none", "theirs"}, rc : Part, skill : {"none", "theirs"}]
  /\ spoiled \in [unsaved : BOOLEAN, merged : BOOLEAN]
  /\ left \in [commands : Nat, mishaps : Nat, launchers : SUBSET Launcher]

\* What setup and revert go by: the manifest, or the one revert moved aside.
Man == IF manifest.is THEN manifest.of ELSE IF reverting.is THEN reverting.of ELSE Blank
NoRecords == ~manifest.is /\ ~reverting.is

\* What a script has read is still so.
JobSound ==
  /\ Busy => job.man = Man
  /\ job.pc \in OnceRecorded => manifest.is
  /\ job.pc \in RevertPc => ~manifest.is
  /\ job.pc \in WhilePlanned => /\ job.plan = AddStatusLine(AddWrapper(settings))
                                /\ job.env = IF settings.wrapper THEN "kept" ELSE settings.env
  /\ job.pc \in WhileShell => job.rc = rc

\* The wrapper is in the settings last, and out of them first.
Startable ==
  /\ settings.wrapper => bins.launcher /\ worker.pool # 0
  /\ job.pc \in OnceMerged => worker.pool # 0
  /\ job.pc \in OnceScripts => bins.launcher

\* The master in the worker's file is its owner's.
PoolOwned == spoiled.unsaved \/ worker.pool = 0 \/ owner.worker.pool # 0

\* What a revert has done, and what no manifest means.
TakenBack ==
  /\ NoRecords \/ job.pc \in OnceUnset => ~settings.wrapper /\ settings.status # "ours"
  /\ NoRecords \/ job.pc \in OnceUnblocked => ~rc.block
  /\ NoRecords \/ job.pc \in OnceRemoved => spoiled.unsaved \/ ~bins.scripts
  /\ NoRecords \/ job.pc \in OnceSkill => skill # "ours"
  /\ NoRecords \/ job.pc \in OnceRestored => PoolOwned

\* What is not ours is as its owner left it.
Owned ==
  /\ settings.status = owner.status \/ (owner.status = "none" /\ settings.status = "ours")
  /\ skill = owner.skill \/ (owner.skill = "none" /\ skill = "ours")
  /\ settings.wrapper => settings.env # "none"
  /\ rc.block => rc.text # "none"

\* Versions the worker's file has not come to yet.
Versions ==
  /\ worker.base <= owner.version
  /\ owner.version + left.mishaps <= MaxMishaps + 1
  /\ Man.worker.is => /\ Man.worker.after.base <= owner.version /\ Man.worker.after.pool # 0
                      /\ Man.worker.before.base <= owner.version
  /\ job.pc \in SetupPc => job.seen.base <= owner.version

\* A change the manifest does not know of, between a write and the save after it.
Dirty(pc) == job.pc = pc /\ job.dirty

\* The settings are their owner's, but for an env block that the manifest has as
\* made by setup or is about to.
EnvRecorded ==
  /\ settings.env = owner.env \/ (owner.env = "none" /\ settings.env = "empty" /\ settings.wrapper)
  /\ Man.createdEnv = "yes" => owner.env # "empty"
  /\ Man.createdEnv = "no" => owner.env # "none"
  /\ settings.wrapper => Man.createdEnv # "unknown" \/ Dirty("saveSettings")
  /\ Dirty("saveSettings") /\ Man.createdEnv = "unknown" => (job.env = "none" <=> owner.env = "none")
  /\ job.pc = "saveSettings" => settings.wrapper

\* The shell's file likewise.
RcRecorded ==
  /\ rc.text = owner.rc \/ (owner.rc = "none" /\ rc.text = "empty" /\ rc.block)
  /\ Man.createdRc = "yes" => owner.rc # "empty"
  /\ Man.createdRc = "no" => owner.rc # "none"
  /\ rc.block => Man.createdRc # "unknown" \/ Dirty("saveRc")
  /\ Dirty("saveRc") /\ Man.createdRc = "unknown" => (job.rc.text = "none" <=> owner.rc = "none")
  /\ job.pc = "saveRc" => rc.block

ScriptsRecorded ==
  /\ bins.scripts => Man.generated \/ Dirty("saveBins")
  /\ job.pc = "saveBins" => bins.scripts

\* A master in the worker's file is the owner's, or the record has it.
WorkerRecorded ==
  /\ \/ worker.pool = 0 \/ owner.worker.pool # 0 \/ Dirty("saveWorker")
     \/ Man.worker.is /\ worker = Man.worker.after
  /\ Man.worker.is /\ Man.worker.before.pool # 0 => owner.worker.pool # 0 /\ worker.pool # 0
  /\ job.pc \in WhileSeen /\ ~Man.worker.is /\ job.seen.pool # 0 => owner.worker.pool # 0 /\ worker.pool # 0

\* The owner's version is in the worker's file, or comes back with the record.
Unmerged ==
  /\ worker.base = owner.worker.base
  /\ Man.worker.is /\ worker = Man.worker.after => Man.worker.before.base = worker.base
  /\ job.pc = "saveWorker" => /\ worker.base = job.seen.base
                              /\ Man.worker.is => Man.worker.before.base = worker.base

AllRecorded == EnvRecorded /\ RcRecorded /\ ScriptsRecorded /\ WorkerRecorded

HostIInv ==
  /\ FileTypes /\ RecordTypes /\ JobTypes /\ GhostTypes
  /\ JobSound /\ Startable /\ TakenBack /\ Owned /\ Versions
  /\ spoiled.unsaved \/ AllRecorded
  /\ spoiled.merged \/ Unmerged

-----------------------------------------------------------------------------
(* The operators.                                                          *)

LEMMA Records ==
  /\ Absent \in Kept /\ ~Absent.is
  /\ \A m \in Manifest : Present(m) \in Kept /\ Present(m).is /\ Present(m).of = m
  /\ Blank \in Manifest /\ ~Blank.worker.is
  /\ Blank.createdEnv = "unknown" /\ Blank.createdRc = "unknown" /\ ~Blank.generated
<1>1. Absent \in Kept /\ ~Absent.is /\ NoRecord \in WorkerRecord /\ ~NoRecord.is
  BY DEF Absent, Kept, NoRecord, WorkerRecord
<1>2. \A m \in Manifest : Present(m) \in Kept /\ Present(m).is /\ Present(m).of = m
  BY DEF Present, Kept
<1>3. /\ Blank \in Manifest /\ Blank.worker = NoRecord
      /\ Blank.createdEnv = "unknown" /\ Blank.createdRc = "unknown" /\ ~Blank.generated
  BY <1>1 DEF Blank, Manifest, Known
<1> QED
  BY <1>1, <1>2, <1>3

LEMMA ManTyped ==
  ASSUME RecordTypes
  PROVE  /\ Man \in Manifest
         /\ manifest.is => Man = manifest.of
         /\ ~manifest.is /\ reverting.is => Man = reverting.of
         /\ ~manifest.is /\ ~reverting.is => Man = Blank
  BY Records DEF RecordTypes, Kept, Man

LEMMA Added ==
  ASSUME NEW s \in Settings
  PROVE  LET a == AddStatusLine(AddWrapper(s)) IN
         /\ a \in Settings /\ a.wrapper = TRUE
         /\ a.env = IF s.env = "none" THEN "empty" ELSE s.env
         /\ a.status = IF s.status = "none" THEN "ours" ELSE s.status
<1> DEFINE w == AddWrapper(s)
<1>1. /\ w \in Settings /\ w.wrapper = TRUE /\ w.status = s.status
      /\ w.env = IF s.env = "none" THEN "empty" ELSE s.env
  BY DEF AddWrapper, Settings, Part
<1> HIDE DEF w
<1>2. /\ AddStatusLine(w) \in Settings /\ AddStatusLine(w).wrapper = TRUE /\ AddStatusLine(w).env = w.env
      /\ AddStatusLine(w).status = IF w.status = "none" THEN "ours" ELSE w.status
  BY <1>1 DEF AddStatusLine, Settings, Slot
<1> QED
  BY <1>1, <1>2 DEF w

LEMMA Removed ==
  ASSUME NEW s \in Settings, NEW created \in Known
  PROVE  LET r == RemoveWrapper(s, created) IN
         /\ r \in Settings /\ r.wrapper = FALSE
         /\ r.env = IF s.wrapper /\ created = "yes" /\ s.env = "empty" THEN "none" ELSE s.env
         /\ r.status = IF s.status = "ours" THEN "none" ELSE s.status
<1> DEFINE r == RemoveWrapper(s, created)
           envThen == IF s.wrapper /\ created = "yes" /\ s.env = "empty" THEN "none" ELSE s.env
           status == IF s.status = "ours" THEN "none" ELSE s.status
<1>1. envThen \in Part \cup {"gateway"} /\ status \in Slot
  BY DEF Settings, Part, Slot
<1>2. r = [s EXCEPT !.wrapper = FALSE, !.env = envThen, !.status = status]
  BY DEF RemoveWrapper, Settings
<1> HIDE DEF envThen, status, r
<1>3. r \in Settings /\ r.wrapper = FALSE /\ r.env = envThen /\ r.status = status
  BY <1>1, <1>2 DEF Settings
<1> QED
  BY <1>3 DEF envThen, status, r

LEMMA MergedTyped ==
  ASSUME NEW w \in WorkerFile, NEW m \in Master
  PROVE  /\ Merged(w, m) \in WorkerFile /\ Merged(w, m).base = w.base /\ Merged(w, m).pool = m
         /\ m # 0
  BY TakeoverAssumption DEF Merged, WorkerFile

LEMMA WorkerRecordTyped ==
  ASSUME NEW r \in WorkerRecord, r.is
  PROVE  r.before \in WorkerFile /\ r.after \in WorkerFile
<1>1. NoRecord.is = FALSE
  BY DEF NoRecord
<1>2. r # NoRecord
  BY <1>1
<1> QED
  BY <1>2 DEF WorkerRecord

LEMMA RecordedTyped ==
  ASSUME NEW man \in Manifest, NEW seen \in WorkerFile, NEW after \in WorkerFile
  PROVE  LET r == Recorded(man, seen, after) IN
         /\ r \in WorkerRecord /\ r.is /\ r.after = after
         /\ r.before = IF man.worker.is THEN man.worker.before ELSE seen
<1>1. man.worker.is => man.worker.before \in WorkerFile
  BY WorkerRecordTyped DEF Manifest
<1> DEFINE before == IF man.worker.is THEN man.worker.before ELSE seen
<1>2. before \in WorkerFile /\ Recorded(man, seen, after) = [is |-> TRUE, before |-> before, after |-> after]
  BY <1>1 DEF Recorded
<1> HIDE DEF before
<1>3. LET r == Recorded(man, seen, after) IN r \in WorkerRecord /\ r.is /\ r.after = after /\ r.before = before
  BY <1>2 DEF WorkerRecord
<1> QED
  BY <1>3 DEF before

\* One part of the manifest is updated.
LEMMA SavedWorker ==
  ASSUME NEW man \in Manifest, NEW w \in WorkerRecord
  PROVE  LET n == [man EXCEPT !.worker = w] IN
         /\ n \in Manifest /\ n.worker = w
         /\ n.createdEnv = man.createdEnv /\ n.createdRc = man.createdRc /\ n.generated = man.generated
  BY DEF Manifest

LEMMA SavedScripts ==
  ASSUME NEW man \in Manifest
  PROVE  LET n == [man EXCEPT !.generated = TRUE] IN
         /\ n \in Manifest /\ n.generated
         /\ n.worker = man.worker /\ n.createdEnv = man.createdEnv /\ n.createdRc = man.createdRc
  BY DEF Manifest

LEMMA SavedEnv ==
  ASSUME NEW man \in Manifest, NEW k \in Known
  PROVE  LET n == [man EXCEPT !.createdEnv = k] IN
         /\ n \in Manifest /\ n.createdEnv = k
         /\ n.worker = man.worker /\ n.createdRc = man.createdRc /\ n.generated = man.generated
  BY DEF Manifest

LEMMA SavedRc ==
  ASSUME NEW man \in Manifest, NEW k \in Known
  PROVE  LET n == [man EXCEPT !.createdRc = k] IN
         /\ n \in Manifest /\ n.createdRc = k
         /\ n.worker = man.worker /\ n.createdEnv = man.createdEnv /\ n.generated = man.generated
  BY DEF Manifest

\* What setup has read, but for the manifest.
SameReading ==
  /\ job'.master = job.master /\ job'.seen = job.seen /\ job'.plan = job.plan
  /\ job'.env = job.env /\ job'.rc = job.rc

\* A script takes a step, and keeps the rest of what it has read.
LEMMA SetupGoes ==
  ASSUME JobTypes, job.pc \in SetupPc, NEW pc \in SetupPc
  PROVE  /\ Next1(pc) =>
              /\ job' \in SetupJob /\ job'.pc = pc /\ job'.man = job.man /\ job'.dirty = job.dirty /\ SameReading
         /\ \A changed \in BOOLEAN : Wrote(pc, changed) =>
              /\ job' \in SetupJob /\ job'.pc = pc /\ job'.man = job.man /\ job'.dirty = changed /\ SameReading
         /\ \A man \in Manifest : Save(pc, man) =>
              /\ job' \in SetupJob /\ job'.pc = pc /\ job'.man = man /\ job'.dirty = FALSE /\ SameReading
<1>1. job \in SetupJob
  BY DEF JobTypes
<1>2. Next1(pc) => /\ job' \in SetupJob /\ job'.pc = pc /\ job'.man = job.man /\ job'.dirty = job.dirty
                   /\ SameReading
  BY <1>1 DEF SetupJob, Next1, SameReading
<1>3. ASSUME NEW changed \in BOOLEAN, Wrote(pc, changed)
      PROVE  /\ job' \in SetupJob /\ job'.pc = pc /\ job'.man = job.man /\ job'.dirty = changed
             /\ SameReading
  BY <1>1, <1>3 DEF SetupJob, Wrote, SameReading
<1>4. ASSUME NEW man \in Manifest, Save(pc, man)
      PROVE  /\ job' \in SetupJob /\ job'.pc = pc /\ job'.man = man /\ job'.dirty = FALSE
             /\ SameReading
  BY <1>1, <1>4 DEF SetupJob, Save, SameReading
<1> QED
  BY <1>2, <1>3, <1>4

LEMMA RevertGoes ==
  ASSUME JobTypes, job.pc \in RevertPc, NEW pc \in RevertPc, Next1(pc)
  PROVE  job' \in RevertJob /\ job'.pc = pc /\ job'.man = job.man /\ job'.dirty = job.dirty
  BY DEF RevertJob, Next1, JobTypes

LEMMA IdleOff == Idle.pc = "off"
  BY DEF Idle

LEMMA JobTyped ==
  ASSUME \/ job' \in SetupJob /\ job'.pc \in SetupPc
         \/ job' \in RevertJob /\ job'.pc \in RevertPc
         \/ job' = Idle
  PROVE  JobTypes'
  BY IdleOff DEF JobTypes, Busy, SetupPc, OnceRecorded, OnceMerged, OnceScripts,
     RevertPc, OnceUnset, OnceUnblocked, OnceRemoved, OnceSkill, OnceRestored


-----------------------------------------------------------------------------
(* What a step that leaves a file alone keeps.                             *)

LEMMA EnvKept ==
  ASSUME EnvRecorded, UNCHANGED settings, owner'.env = owner.env, Man'.createdEnv = Man.createdEnv,
         ~Dirty("saveSettings"), job'.pc # "saveSettings"
  PROVE  EnvRecorded'
  BY DEF EnvRecorded, Dirty

LEMMA RcKept ==
  ASSUME RcRecorded, UNCHANGED rc, owner'.rc = owner.rc, Man'.createdRc = Man.createdRc,
         ~Dirty("saveRc"), job'.pc # "saveRc"
  PROVE  RcRecorded'
  BY DEF RcRecorded, Dirty

LEMMA ScriptsKept ==
  ASSUME ScriptsRecorded, UNCHANGED bins, Man'.generated = Man.generated,
         ~Dirty("saveBins"), job'.pc # "saveBins"
  PROVE  ScriptsRecorded'
  BY DEF ScriptsRecorded, Dirty

LEMMA WorkerKept ==
  ASSUME WorkerRecorded, UNCHANGED worker, owner'.worker = owner.worker, Man'.worker = Man.worker,
         ~Dirty("saveWorker"), job'.pc \in WhileSeen => job.pc \in WhileSeen /\ job'.seen = job.seen
  PROVE  WorkerRecorded'
  BY DEF WorkerRecorded, Dirty

LEMMA UnmergedKept ==
  ASSUME Unmerged, UNCHANGED worker, owner'.worker = owner.worker, Man'.worker = Man.worker,
         job'.pc # "saveWorker"
  PROVE  Unmerged'
  BY DEF Unmerged

LEMMA VersionsKept ==
  ASSUME Versions, GhostTypes, UNCHANGED worker, owner'.version = owner.version, Man'.worker = Man.worker,
         left'.mishaps \in Nat, left'.mishaps <= left.mishaps,
         job'.pc \in SetupPc => job.pc \in SetupPc /\ job'.seen = job.seen
  PROVE  Versions'
<1>1. owner.version \in Nat /\ left.mishaps \in Nat /\ MaxMishaps \in Nat
  BY TakeoverAssumption DEF GhostTypes
<1>2. owner'.version + left'.mishaps <= MaxMishaps + 1
  BY <1>1 DEF Versions
<1> QED
  BY <1>2 DEF Versions

LEMMA StartableKept ==
  ASSUME Startable, UNCHANGED <<settings, bins, worker>>,
         job'.pc \in OnceMerged => job.pc \in OnceMerged, job'.pc \in OnceScripts => job.pc \in OnceScripts
  PROVE  Startable'
  BY DEF Startable

\* Files and records say the same before and after, and no write goes unrecorded.
LEMMA QuietStep ==
  ASSUME HostIInv, UNCHANGED <<files, owner>>, Man' = Man, NoRecords' => NoRecords,
         RecordTypes', GhostTypes', JobTypes', JobSound', left'.mishaps <= left.mishaps,
         spoiled.merged => spoiled'.merged, spoiled.unsaved => spoiled'.unsaved,
         spoiled'.unsaved \/ ~job.dirty \/ job.pc \notin {"saveWorker", "saveBins", "saveSettings", "saveRc"},
         job'.pc \notin {"saveWorker", "saveBins", "saveSettings", "saveRc"},
         job'.pc \in SetupPc => job.pc \in SetupPc /\ job'.seen = job.seen,
         job'.pc \in WhileSeen => job.pc \in WhileSeen,
         job'.pc \in OnceMerged => job.pc \in OnceMerged,
         job'.pc \in OnceScripts => job.pc \in OnceScripts,
         job'.pc \in OnceUnset => job.pc \in OnceUnset,
         job'.pc \in OnceUnblocked => job.pc \in OnceUnblocked,
         job'.pc \in OnceRemoved => job.pc \in OnceRemoved,
         job'.pc \in OnceSkill => job.pc \in OnceSkill,
         job'.pc \in OnceRestored => job.pc \in OnceRestored
  PROVE  HostIInv'
<1>1. /\ FileTypes /\ GhostTypes /\ Startable /\ TakenBack /\ Owned /\ Versions
      /\ spoiled.unsaved \/ AllRecorded
      /\ spoiled.merged \/ Unmerged
      /\ UNCHANGED <<worker, settings, rc, skill, bins, owner>>
  BY DEF HostIInv, files
<1>2. FileTypes' /\ Owned'
  BY <1>1 DEF FileTypes, Owned
<1>3. Startable'
  BY <1>1, StartableKept
<1>4. Versions'
  BY <1>1, VersionsKept DEF GhostTypes
<1>5. TakenBack'
  BY <1>1 DEF TakenBack, PoolOwned
<1>6. spoiled'.unsaved \/ AllRecorded'
  <2> SUFFICES ASSUME ~spoiled'.unsaved PROVE AllRecorded'
    OBVIOUS
  <2>1. AllRecorded /\ \A pc \in {"saveWorker", "saveBins", "saveSettings", "saveRc"} : ~Dirty(pc)
    BY <1>1 DEF Dirty
  <2>2. job'.pc \in WhileSeen => job'.seen = job.seen
    BY DEF WhileSeen, SetupPc, OnceRecorded, OnceMerged
  <2> QED
    BY <1>1, <2>1, <2>2, EnvKept, RcKept, ScriptsKept, WorkerKept DEF AllRecorded
<1>7. spoiled'.merged \/ Unmerged'
  BY <1>1, UnmergedKept
<1> QED
  BY <1>2, <1>3, <1>4, <1>5, <1>6, <1>7 DEF HostIInv

-----------------------------------------------------------------------------
(* Steps that write no file.                                               *)

USE DEF WhileSeen, WhilePlanned, WhileShell, OnceScripts, OnceMerged, OnceRecorded, SetupPc,
        OnceRestored, OnceSkill, OnceRemoved, OnceUnblocked, OnceUnset, RevertPc

\* The part of a setup step that is about the script.
LEMMA SetupQuiet ==
  ASSUME HostIInv, NEW pc \in SetupPc, job.pc \in SetupPc, job'.pc = pc, job' \in SetupJob,
         job'.man = Man', job'.seen = job.seen, UNCHANGED <<files, owner, spoiled, left>>,
         Man' = Man, NoRecords' => NoRecords, RecordTypes', JobSound',
         job.pc \notin {"saveWorker", "saveBins", "saveSettings", "saveRc"},
         pc \notin {"saveWorker", "saveBins", "saveSettings", "saveRc"},
         pc \in WhileSeen => job.pc \in WhileSeen,
         pc \in OnceMerged => job.pc \in OnceMerged, pc \in OnceScripts => job.pc \in OnceScripts
  PROVE  HostIInv'
<1>1. GhostTypes' /\ JobTypes' /\ left'.mishaps <= left.mishaps
  BY JobTyped DEF HostIInv, GhostTypes
<1> QED
  BY <1>1, QuietStep

LEMMA RefuseKeeps ==
  ASSUME HostIInv, Refuse
  PROVE  HostIInv'
<1>1. /\ job.pc = "asking" /\ job' = Idle /\ job'.pc = "off" /\ UNCHANGED <<files, records, owner, spoiled, left>>
  BY IdleOff DEF Refuse
<1>2. Man' = Man /\ (NoRecords' => NoRecords) /\ RecordTypes' /\ GhostTypes' /\ left'.mishaps <= left.mishaps
  BY <1>1 DEF HostIInv, RecordTypes, GhostTypes, NoRecords, Man, records
<1>3. JobTypes' /\ JobSound'
  BY <1>1, JobTyped DEF JobSound, Busy
<1> QED
  BY <1>1, <1>2, <1>3, QuietStep

LEMMA StopsKeeps ==
  ASSUME HostIInv, Stops
  PROVE  HostIInv'
<1>1. /\ job' = Idle /\ job'.pc = "off" /\ UNCHANGED <<files, records, owner>>
      /\ left.mishaps > 0 /\ left' = [left EXCEPT !.mishaps = @ - 1]
      /\ spoiled' = [spoiled EXCEPT !.unsaved = @ \/ job.dirty]
  BY IdleOff DEF Stops
<1>2. Man' = Man /\ (NoRecords' => NoRecords) /\ RecordTypes'
  BY <1>1 DEF HostIInv, RecordTypes, NoRecords, Man, records
<1>3. /\ left' \in [commands : Nat, mishaps : Nat, launchers : SUBSET Launcher] /\ left'.mishaps <= left.mishaps
  BY <1>1 DEF HostIInv, GhostTypes
<1>4. /\ spoiled' \in [unsaved : BOOLEAN, merged : BOOLEAN]
      /\ spoiled'.merged = spoiled.merged /\ (spoiled.unsaved => spoiled'.unsaved) /\ (job.dirty => spoiled'.unsaved)
  BY <1>1 DEF HostIInv, GhostTypes
<1>5. JobTypes' /\ JobSound' /\ GhostTypes'
  BY <1>1, <1>3, <1>4, JobTyped DEF HostIInv, GhostTypes, JobSound, Busy
<1> QED
  BY <1>1, <1>2, <1>3, <1>4, <1>5, QuietStep

LEMMA PreflightKeeps ==
  ASSUME HostIInv, Preflight
  PROVE  HostIInv'
<1>1. /\ job.pc = "asking" /\ job \in SetupJob /\ UNCHANGED <<files, records, owner, spoiled, left>>
      /\ settings \in Settings /\ rc \in Rc /\ RecordTypes /\ job.man = Man
  BY DEF Preflight, HostIInv, JobTypes, JobSound, Busy, FileTypes
<1> DEFINE plan == AddStatusLine(AddWrapper(settings))
           envThen == IF settings.wrapper THEN "kept" ELSE settings.env
<1>2. plan \in Settings /\ envThen \in Part \cup {"gateway", "kept"}
  BY <1>1, Added DEF Settings
<1>3. job' = [job EXCEPT !.pc = "manifest", !.plan = plan, !.env = envThen, !.rc = rc]
  BY DEF Preflight
<1> HIDE DEF plan, envThen
<1>4. /\ job' \in SetupJob /\ job'.pc = "manifest" /\ job'.man = job.man /\ job'.seen = job.seen
      /\ job'.plan = plan /\ job'.env = envThen /\ job'.rc = rc
  BY <1>1, <1>2, <1>3 DEF SetupJob
<1>5. Man' = Man /\ (NoRecords' => NoRecords) /\ RecordTypes' /\ settings' = settings /\ rc' = rc
  BY <1>1 DEF RecordTypes, NoRecords, Man, records, files
<1>6. JobSound'
  BY <1>1, <1>4, <1>5 DEF JobSound, Busy, plan, envThen
<1> QED
  BY <1>1, <1>4, <1>5, <1>6, SetupQuiet

LEMMA SaveFirstKeeps ==
  ASSUME HostIInv, SaveFirst
  PROVE  HostIInv'
<1>1. /\ job.pc = "manifest" /\ job \in SetupJob /\ manifest' = Present(job.man) /\ Next1("reverting")
      /\ UNCHANGED <<files, reverting, owner, spoiled, left>> /\ RecordTypes /\ job.man = Man
      /\ JobTypes /\ JobSound /\ job.man \in Manifest
  BY DEF SaveFirst, HostIInv, JobTypes, JobSound, Busy, SetupJob
<1>2. job' \in SetupJob /\ job'.pc = "reverting" /\ job'.man = job.man /\ SameReading
  BY <1>1, SetupGoes
<1>3. manifest' \in Kept /\ manifest'.is /\ manifest'.of = job.man
  BY <1>1, Records
<1>4. Man' = Man /\ ~NoRecords' /\ RecordTypes' /\ settings' = settings /\ rc' = rc
  BY <1>1, <1>3 DEF RecordTypes, NoRecords, Man, files
<1>5. JobSound'
  BY <1>1, <1>2, <1>3, <1>4 DEF JobSound, Busy, SameReading
<1> QED
  BY <1>1, <1>2, <1>4, <1>5, SetupQuiet DEF SameReading

LEMMA DropRevertingKeeps ==
  ASSUME HostIInv, DropReverting
  PROVE  HostIInv'
<1>1. /\ job.pc = "reverting" /\ reverting' = Absent /\ Next1("worker") /\ manifest.is
      /\ UNCHANGED <<files, manifest, owner, spoiled, left>> /\ RecordTypes /\ job.man = Man
      /\ JobTypes /\ JobSound
  BY DEF DropReverting, HostIInv, JobSound, Busy
<1>2. job' \in SetupJob /\ job'.pc = "worker" /\ job'.man = job.man /\ SameReading
  BY <1>1, SetupGoes
<1>3. Man' = Man /\ ~NoRecords' /\ RecordTypes' /\ settings' = settings /\ rc' = rc
  BY <1>1, Records DEF RecordTypes, NoRecords, Man, files
<1>4. JobSound'
  BY <1>1, <1>2, <1>3 DEF JobSound, Busy, SameReading
<1> QED
  BY <1>1, <1>2, <1>3, <1>4, SetupQuiet DEF SameReading

LEMMA SetupStopsRelayKeeps ==
  ASSUME HostIInv, SetupStopsRelay
  PROVE  HostIInv'
<1>1. /\ job.pc = "relay" /\ Next1("agent") /\ UNCHANGED <<files, records, owner, spoiled, left>>
      /\ RecordTypes /\ job.man = Man /\ JobTypes /\ JobSound
  BY DEF SetupStopsRelay, StopRelay, HostIInv, JobSound, Busy
<1>2. job' \in SetupJob /\ job'.pc = "agent" /\ job'.man = job.man /\ SameReading
  BY <1>1, SetupGoes
<1>3. Man' = Man /\ (NoRecords' => NoRecords) /\ RecordTypes' /\ manifest' = manifest
  BY <1>1 DEF RecordTypes, NoRecords, Man, records
<1>4. JobSound'
  BY <1>1, <1>2, <1>3 DEF JobSound, Busy
<1> QED
  BY <1>1, <1>2, <1>3, <1>4, SetupQuiet DEF SameReading

LEMMA LoadAgentKeeps ==
  ASSUME HostIInv, LoadAgent
  PROVE  HostIInv'
<1>1. /\ job.pc = "agent" /\ job' = Idle /\ job'.pc = "off" /\ UNCHANGED <<files, records, owner, spoiled, left>>
  BY IdleOff DEF LoadAgent
<1>2. Man' = Man /\ (NoRecords' => NoRecords) /\ RecordTypes' /\ GhostTypes' /\ left'.mishaps <= left.mishaps
  BY <1>1 DEF HostIInv, RecordTypes, GhostTypes, NoRecords, Man, records
<1>3. JobTypes' /\ JobSound'
  BY <1>1, JobTyped DEF JobSound, Busy
<1> QED
  BY <1>1, <1>2, <1>3, QuietStep

LEMMA BeginRevertKeeps ==
  ASSUME HostIInv, BeginRevert
  PROVE  HostIInv'
<1>1. /\ job.pc = "off" /\ RecordTypes /\ UNCHANGED <<files, owner, spoiled>>
      /\ job' = [pc |-> "unset", dirty |-> FALSE, man |-> Man]
      /\ IF manifest.is THEN reverting' = manifest /\ manifest' = Absent ELSE UNCHANGED records
  BY DEF BeginRevert, HostIInv, Busy, Man
<1>2. job' \in RevertJob /\ job'.pc = "unset" /\ job'.man = Man
  BY <1>1, ManTyped DEF RevertJob
<1>3. Man' = Man /\ (NoRecords' => NoRecords) /\ RecordTypes' /\ ~manifest'.is
  <2>1. CASE manifest.is
    BY <1>1, <2>1, Records DEF RecordTypes, NoRecords, Man
  <2>2. CASE ~manifest.is
    BY <1>1, <2>2 DEF RecordTypes, NoRecords, Man, records
  <2> QED
    BY <2>1, <2>2
<1>4. left' \in [commands : Nat, mishaps : Nat, launchers : SUBSET Launcher] /\ left'.mishaps = left.mishaps
  BY DEF BeginRevert, HostIInv, GhostTypes
<1>5. GhostTypes' /\ JobTypes' /\ left'.mishaps <= left.mishaps
  BY <1>1, <1>2, <1>4, JobTyped DEF HostIInv, GhostTypes
<1>6. JobSound'
  BY <1>2, <1>3 DEF JobSound, Busy
<1> QED
  BY <1>1, <1>2, <1>3, <1>5, <1>6, QuietStep

LEMMA UnloadAndStopKeep ==
  ASSUME HostIInv, Unload \/ RevertStopsRelay
  PROVE  HostIInv'
<1>1. /\ job.pc \in {"unload", "stop"} /\ Next1(IF job.pc = "unload" THEN "stop" ELSE "remove")
      /\ UNCHANGED <<files, records, owner, spoiled, left>>
      /\ RecordTypes /\ job.man = Man /\ JobTypes /\ JobSound
  BY DEF Unload, RevertStopsRelay, StopRelay, HostIInv, JobSound, Busy
<1>2. /\ job' \in RevertJob /\ job'.pc = (IF job.pc = "unload" THEN "stop" ELSE "remove") /\ job'.man = job.man
  BY <1>1, RevertGoes
<1>3. /\ Man' = Man /\ (NoRecords' => NoRecords) /\ RecordTypes' /\ manifest' = manifest /\ GhostTypes'
      /\ left'.mishaps <= left.mishaps
  BY <1>1 DEF HostIInv, RecordTypes, GhostTypes, NoRecords, Man, records
<1>4. JobTypes' /\ JobSound'
  BY <1>1, <1>2, <1>3, JobTyped DEF JobSound, Busy
<1> QED
  BY <1>1, <1>2, <1>3, <1>4, QuietStep

LEMMA BeginSetupKeeps ==
  ASSUME HostIInv, BeginSetup
  PROVE  HostIInv'
<1>1. /\ job.pc = "off" /\ RecordTypes /\ UNCHANGED <<files, records, owner, spoiled>>
      /\ left' = [left EXCEPT !.commands = @ - 1] /\ left.commands > 0
      /\ FileTypes /\ GhostTypes /\ Startable /\ TakenBack /\ Owned /\ Versions
      /\ spoiled.unsaved \/ AllRecorded
      /\ spoiled.merged \/ Unmerged
  BY DEF BeginSetup, HostIInv, Busy
<1>2. PICK m \in Master :
        job' = [pc |-> "asking", master |-> m, dirty |-> FALSE, seen |-> worker, man |-> Man,
                plan |-> settings, env |-> settings.env, rc |-> rc]
  BY DEF BeginSetup, Man
<1>3. job' \in SetupJob /\ job'.pc = "asking" /\ job'.man = Man /\ job'.seen = worker
  <2>1. Man \in Manifest /\ settings.env \in Part \cup {"gateway", "kept"}
    BY <1>1, ManTyped DEF FileTypes, Settings
  <2> QED
    BY <1>1, <1>2, <2>1 DEF SetupJob, FileTypes
<1>4. Man' = Man /\ (NoRecords' => NoRecords) /\ RecordTypes' /\ UNCHANGED <<worker, settings, rc, skill, bins, owner>>
  BY <1>1 DEF RecordTypes, NoRecords, Man, records, files
<1>5. left' \in [commands : Nat, mishaps : Nat, launchers : SUBSET Launcher] /\ left'.mishaps = left.mishaps
  BY <1>1 DEF GhostTypes
<1>6. GhostTypes' /\ JobTypes' /\ FileTypes' /\ Owned'
  BY <1>1, <1>3, <1>4, <1>5, JobTyped DEF GhostTypes, FileTypes, Owned
<1>7. JobSound' /\ Startable' /\ TakenBack' /\ Versions'
  BY <1>1, <1>3, <1>4, <1>5
     DEF JobSound, Busy, Startable, TakenBack, PoolOwned, Versions
<1>8. spoiled'.unsaved \/ AllRecorded'
  <2> SUFFICES ASSUME AllRecorded, ~spoiled.unsaved PROVE AllRecorded'
    BY <1>1
  <2>1. EnvRecorded' /\ RcRecorded' /\ ScriptsRecorded'
    BY <1>1, <1>3, <1>4, EnvKept, RcKept, ScriptsKept DEF AllRecorded, Dirty
  <2>2. WorkerRecorded'
    BY <1>1, <1>3, <1>4 DEF AllRecorded, WorkerRecorded, Dirty
  <2> QED
    BY <2>1, <2>2 DEF AllRecorded
<1>9. spoiled'.merged \/ Unmerged'
  BY <1>1, <1>3, <1>4, UnmergedKept
<1> QED
  BY <1>4, <1>6, <1>7, <1>8, <1>9 DEF HostIInv

-----------------------------------------------------------------------------
(* The writes of setup, and the saves after them.                          *)

\* What all of them leave alone.
LEMMA SetupWrites ==
  ASSUME HostIInv, NEW pc \in OnceRecorded, job.pc \in OnceRecorded, job'.pc = pc, job' \in SetupJob,
         UNCHANGED <<reverting, owner, left>>, manifest'.is
  PROVE  /\ JobTypes' /\ TakenBack' /\ manifest.is /\ RecordTypes /\ job.man = Man /\ Man \in Manifest
         /\ JobTypes /\ FileTypes /\ GhostTypes
         /\ (UNCHANGED spoiled => GhostTypes') /\ (UNCHANGED files => FileTypes')
         /\ (UNCHANGED manifest => RecordTypes' /\ Man' = Man)
         /\ (manifest' \in Kept => RecordTypes' /\ Man' = manifest'.of)
<1>1. JobTypes'
  BY JobTyped
<1>2. TakenBack'
  BY DEF TakenBack, NoRecords
<1>3. /\ manifest.is /\ RecordTypes /\ job.man = Man /\ Man \in Manifest
      /\ JobTypes /\ FileTypes /\ GhostTypes
  BY ManTyped DEF HostIInv, JobSound, Busy
<1>4. /\ UNCHANGED spoiled => GhostTypes'
      /\ UNCHANGED files => FileTypes'
      /\ UNCHANGED manifest => RecordTypes' /\ Man' = Man
      /\ manifest' \in Kept => RecordTypes' /\ Man' = manifest'.of
  BY <1>3 DEF GhostTypes, FileTypes, files, RecordTypes, Man
<1> QED
  BY <1>1, <1>2, <1>3, <1>4

LEMMA MergeWorkerKeeps ==
  ASSUME HostIInv, MergeWorker
  PROVE  HostIInv'
<1> DEFINE changed == worker' # worker
<1>1. /\ job.pc = "worker" /\ worker' = Merged(job.seen, job.master) /\ Wrote("saveWorker", changed)
      /\ UNCHANGED <<settings, rc, skill, bins, records, owner, left>>
      /\ spoiled' = [spoiled EXCEPT !.merged = @ \/ worker # job.seen
           \/ (job.man.worker.is /\ job.man.worker.before.base # job.seen.base)]
  BY DEF MergeWorker
<1>2. /\ JobTypes /\ JobSound /\ Startable /\ Owned /\ Versions /\ manifest.is
      /\ spoiled.unsaved \/ AllRecorded
      /\ spoiled.merged \/ Unmerged
  BY <1>1 DEF HostIInv, JobSound
<1>3. changed \in BOOLEAN
  OBVIOUS
<1>4. /\ job' \in SetupJob /\ job'.pc = "saveWorker" /\ job'.man = job.man /\ SameReading
      /\ job'.dirty = changed
  BY <1>1, <1>2, <1>3, SetupGoes
<1>5. /\ JobTypes' /\ TakenBack' /\ RecordTypes' /\ Man' = Man /\ Man \in Manifest /\ job.man = Man
      /\ FileTypes /\ GhostTypes /\ manifest'.is /\ UNCHANGED <<manifest, reverting>>
  BY <1>1, <1>2, <1>4, SetupWrites DEF records
<1>6. job.seen \in WorkerFile /\ job.master \in Master
  BY <1>1, <1>2 DEF JobTypes, SetupJob
<1>7. worker' \in WorkerFile /\ worker'.base = job.seen.base /\ worker'.pool = job.master /\ job.master # 0
  BY <1>1, <1>6, MergedTyped
<1>8. /\ spoiled' \in [unsaved : BOOLEAN, merged : BOOLEAN] /\ spoiled'.unsaved = spoiled.unsaved
      /\ ~spoiled'.merged => /\ ~spoiled.merged /\ worker = job.seen
                             /\ job.man.worker.is => job.man.worker.before.base = job.seen.base
  BY <1>1, <1>5 DEF GhostTypes
<1>9. FileTypes' /\ GhostTypes' /\ Owned'
  BY <1>1, <1>2, <1>5, <1>7, <1>8 DEF FileTypes, GhostTypes, Owned
<1>10. JobSound' /\ Startable' /\ Versions'
  BY <1>1, <1>2, <1>4, <1>5, <1>7
     DEF JobSound, Busy, SameReading, Startable, Versions
<1>11. spoiled'.unsaved \/ AllRecorded'
  <2> SUFFICES ASSUME AllRecorded PROVE AllRecorded'
    BY <1>2, <1>8
  <2>1. EnvRecorded' /\ RcRecorded' /\ ScriptsRecorded'
    BY <1>1, <1>4, <1>5, EnvKept, RcKept, ScriptsKept DEF AllRecorded, Dirty
  <2>2. WorkerRecorded'
    BY <1>1, <1>4, <1>5, <1>7 DEF AllRecorded, WorkerRecorded, Dirty, SameReading
  <2> QED
    BY <2>1, <2>2 DEF AllRecorded
<1>12. spoiled'.merged \/ Unmerged'
  BY <1>1, <1>2, <1>4, <1>5, <1>7, <1>8 DEF Unmerged, SameReading
<1> QED
  BY <1>5, <1>9, <1>10, <1>11, <1>12 DEF HostIInv

LEMMA SaveWorkerKeeps ==
  ASSUME HostIInv, SaveWorker
  PROVE  HostIInv'
<1> DEFINE record == Recorded(job.man, job.seen, worker)
           man == [job.man EXCEPT !.worker = record]
<1>1. /\ job.pc = "saveWorker" /\ Save("bins", man) /\ UNCHANGED <<files, reverting, owner, spoiled, left>>
  BY DEF SaveWorker
<1>2. /\ JobTypes /\ JobSound /\ Startable /\ Owned /\ Versions /\ job \in SetupJob /\ worker \in WorkerFile
      /\ spoiled.unsaved \/ AllRecorded
      /\ spoiled.merged \/ Unmerged
  BY <1>1 DEF HostIInv, JobTypes, FileTypes
<1>3. /\ job.man \in Manifest /\ job.seen \in WorkerFile
  BY <1>2 DEF SetupJob
<1>4. /\ record \in WorkerRecord /\ record.is /\ record.after = worker
      /\ record.before = IF job.man.worker.is THEN job.man.worker.before ELSE job.seen
  BY <1>2, <1>3, RecordedTyped
<1> HIDE DEF record
<1>5. /\ man \in Manifest /\ man.worker = record
      /\ man.createdEnv = job.man.createdEnv /\ man.createdRc = job.man.createdRc
      /\ man.generated = job.man.generated
  BY <1>3, <1>4, SavedWorker
<1> HIDE DEF man
<1>6. /\ job' \in SetupJob /\ job'.pc = "bins" /\ job'.man = man /\ job'.dirty = FALSE /\ SameReading
  BY <1>1, <1>2, <1>5, SetupGoes
<1>7. manifest' \in Kept /\ manifest'.is /\ manifest'.of = man
  BY <1>1, <1>5, Records DEF Save
<1>8. /\ JobTypes' /\ TakenBack' /\ RecordTypes' /\ Man' = man /\ job.man = Man
      /\ FileTypes' /\ GhostTypes' /\ UNCHANGED <<worker, settings, rc, skill, bins, owner, left, spoiled>>
  BY <1>1, <1>6, <1>7, SetupWrites DEF files
<1>9. JobSound' /\ Startable' /\ Owned'
  BY <1>1, <1>2, <1>6, <1>7, <1>8 DEF JobSound, Busy, SameReading, Startable, Owned
<1>10. Versions'
  BY <1>1, <1>2, <1>4, <1>5, <1>6, <1>8 DEF Versions, SameReading, Startable
<1>11. spoiled'.unsaved \/ AllRecorded'
  <2> SUFFICES ASSUME AllRecorded PROVE AllRecorded'
    BY <1>2, <1>8
  <2>1. EnvRecorded' /\ RcRecorded' /\ ScriptsRecorded'
    BY <1>1, <1>5, <1>6, <1>8, EnvKept, RcKept, ScriptsKept DEF AllRecorded, Dirty
  <2>2. WorkerRecorded'
    BY <1>1, <1>4, <1>5, <1>6, <1>8 DEF AllRecorded, WorkerRecorded, Dirty
  <2> QED
    BY <2>1, <2>2 DEF AllRecorded
<1>12. spoiled'.merged \/ Unmerged'
  BY <1>1, <1>2, <1>4, <1>5, <1>6, <1>8 DEF Unmerged
<1> QED
  BY <1>8, <1>9, <1>10, <1>11, <1>12 DEF HostIInv

LEMMA GenerateKeeps ==
  ASSUME HostIInv, Generate
  PROVE  HostIInv'
<1> DEFINE changed == ~bins.scripts
<1>1. /\ job.pc = "bins" /\ bins' = [launcher |-> TRUE, scripts |-> TRUE] /\ Wrote("saveBins", changed)
      /\ UNCHANGED <<worker, settings, rc, skill, records, owner, spoiled, left>>
  BY DEF Generate
<1>2. /\ JobTypes /\ JobSound /\ Startable /\ Owned /\ Versions /\ manifest.is
      /\ spoiled.unsaved \/ AllRecorded
      /\ spoiled.merged \/ Unmerged
  BY <1>1 DEF HostIInv, JobSound
<1>3. changed \in BOOLEAN
  OBVIOUS
<1>4. /\ job' \in SetupJob /\ job'.pc = "saveBins" /\ job'.man = job.man /\ SameReading
      /\ job'.dirty = changed
  BY <1>1, <1>2, <1>3, SetupGoes
<1>5. /\ JobTypes' /\ TakenBack' /\ RecordTypes' /\ Man' = Man /\ job.man = Man
      /\ FileTypes /\ GhostTypes' /\ manifest'.is /\ UNCHANGED <<manifest, reverting>>
  BY <1>1, <1>2, <1>4, SetupWrites DEF records
<1>6. FileTypes' /\ Owned' /\ bins'.launcher /\ bins'.scripts
  BY <1>1, <1>2, <1>5 DEF FileTypes, Owned
<1>7. JobSound' /\ Startable' /\ Versions'
  BY <1>1, <1>2, <1>4, <1>5, <1>6
     DEF JobSound, Busy, SameReading, Startable, Versions
<1>8. spoiled'.unsaved \/ AllRecorded'
  <2> SUFFICES ASSUME AllRecorded PROVE AllRecorded'
    BY <1>1, <1>2
  <2>1. EnvRecorded' /\ RcRecorded' /\ WorkerRecorded'
    BY <1>1, <1>4, <1>5, EnvKept, RcKept, WorkerKept DEF AllRecorded, Dirty
  <2>2. ScriptsRecorded'
    BY <1>1, <1>4, <1>5, <1>6 DEF AllRecorded, ScriptsRecorded, Dirty
  <2> QED
    BY <2>1, <2>2 DEF AllRecorded
<1>9. spoiled'.merged \/ Unmerged'
  BY <1>1, <1>2, <1>4, <1>5, UnmergedKept
<1> QED
  BY <1>5, <1>6, <1>7, <1>8, <1>9 DEF HostIInv

LEMMA SaveGeneratedKeeps ==
  ASSUME HostIInv, SaveGenerated
  PROVE  HostIInv'
<1> DEFINE man == [job.man EXCEPT !.generated = TRUE]
<1>1. /\ job.pc = "saveBins" /\ Save("settings", man) /\ UNCHANGED <<files, reverting, owner, spoiled, left>>
  BY DEF SaveGenerated
<1>2. /\ JobTypes /\ JobSound /\ Startable /\ Owned /\ Versions /\ GhostTypes /\ job \in SetupJob
      /\ spoiled.unsaved \/ AllRecorded
      /\ spoiled.merged \/ Unmerged
  BY <1>1 DEF HostIInv, JobTypes
<1>3. job.man \in Manifest
  BY <1>2 DEF SetupJob
<1>4. /\ man \in Manifest /\ man.generated /\ man.worker = job.man.worker
      /\ man.createdEnv = job.man.createdEnv /\ man.createdRc = job.man.createdRc
  BY <1>3, SavedScripts
<1> HIDE DEF man
<1>5. /\ job' \in SetupJob /\ job'.pc = "settings" /\ job'.man = man /\ job'.dirty = FALSE /\ SameReading
  BY <1>1, <1>2, <1>4, SetupGoes
<1>6. manifest' \in Kept /\ manifest'.is /\ manifest'.of = man
  BY <1>1, <1>4, Records DEF Save
<1>7. /\ JobTypes' /\ TakenBack' /\ RecordTypes' /\ Man' = man /\ job.man = Man
      /\ FileTypes' /\ GhostTypes' /\ UNCHANGED <<worker, settings, rc, skill, bins, owner, left, spoiled>>
  BY <1>1, <1>5, <1>6, SetupWrites DEF files
<1>8. JobSound' /\ Startable' /\ Owned' /\ Versions'
  BY <1>1, <1>2, <1>4, <1>5, <1>6, <1>7
     DEF JobSound, Busy, SameReading, Startable, Owned, Versions
<1>9. spoiled'.unsaved \/ AllRecorded'
  <2> SUFFICES ASSUME AllRecorded PROVE AllRecorded'
    BY <1>2, <1>7
  <2>1. EnvRecorded' /\ RcRecorded' /\ WorkerRecorded'
    BY <1>1, <1>4, <1>5, <1>7, EnvKept, RcKept, WorkerKept DEF AllRecorded, Dirty
  <2>2. ScriptsRecorded'
    BY <1>4, <1>5, <1>7 DEF ScriptsRecorded
  <2> QED
    BY <2>1, <2>2 DEF AllRecorded
<1>10. spoiled'.merged \/ Unmerged'
  BY <1>2, <1>4, <1>5, <1>7, UnmergedKept
<1> QED
  BY <1>7, <1>8, <1>9, <1>10 DEF HostIInv

LEMMA FirstKnown ==
  ASSUME NEW known \in Known, NEW now \in BOOLEAN
  PROVE  /\ First(known, now) \in Known /\ First(known, now) # "unknown"
         /\ known # "unknown" => First(known, now) = known
         /\ known = "unknown" /\ now => First(known, now) = "yes"
         /\ known = "unknown" /\ ~now => First(known, now) = "no"
  BY DEF First, Known

LEMMA WriteSettingsKeeps ==
  ASSUME HostIInv, WriteSettings
  PROVE  HostIInv'
<1> DEFINE changed == settings' # settings
<1>1. /\ job.pc = "settings" /\ settings' = job.plan /\ Wrote("saveSettings", changed)
      /\ UNCHANGED <<worker, rc, skill, bins, records, owner, spoiled, left>>
  BY DEF WriteSettings
<1>2. /\ JobTypes /\ JobSound /\ Startable /\ Owned /\ Versions /\ GhostTypes /\ FileTypes /\ manifest.is
      /\ spoiled.unsaved \/ AllRecorded
      /\ spoiled.merged \/ Unmerged
      /\ job.plan = AddStatusLine(AddWrapper(settings))
      /\ job.env = IF settings.wrapper THEN "kept" ELSE settings.env
  BY <1>1 DEF HostIInv, JobSound
<1>3. changed \in BOOLEAN
  OBVIOUS
<1>4. /\ job' \in SetupJob /\ job'.pc = "saveSettings" /\ job'.man = job.man /\ SameReading
      /\ job'.dirty = changed
  BY <1>1, <1>2, <1>3, SetupGoes
<1>5. /\ JobTypes' /\ TakenBack' /\ RecordTypes' /\ Man' = Man /\ job.man = Man
      /\ GhostTypes' /\ manifest'.is /\ UNCHANGED <<manifest, reverting>>
  BY <1>1, <1>2, <1>4, SetupWrites DEF records
<1>6. /\ settings' \in Settings /\ settings'.wrapper = TRUE
      /\ settings'.env = IF settings.env = "none" THEN "empty" ELSE settings.env
      /\ settings'.status = IF settings.status = "none" THEN "ours" ELSE settings.status
  BY <1>1, <1>2, Added DEF FileTypes
<1>7. FileTypes' /\ Owned'
  BY <1>1, <1>2, <1>6 DEF FileTypes, Owned
<1>8. JobSound' /\ Startable' /\ Versions'
  BY <1>1, <1>2, <1>4, <1>5 DEF JobSound, Busy, SameReading, Startable, Versions
<1>9. spoiled'.unsaved \/ AllRecorded'
  <2> SUFFICES ASSUME AllRecorded PROVE AllRecorded'
    BY <1>1, <1>2
  <2>1. RcRecorded' /\ ScriptsRecorded' /\ WorkerRecorded'
    BY <1>1, <1>4, <1>5, RcKept, ScriptsKept, WorkerKept DEF AllRecorded, Dirty
  <2>2. EnvRecorded /\ ~Dirty("saveSettings")
    BY <1>1 DEF AllRecorded, Dirty
  <2>3. settings'.env = owner'.env \/ (owner'.env = "none" /\ settings'.env = "empty" /\ settings'.wrapper)
    BY <1>1, <1>6, <2>2 DEF EnvRecorded
  <2>4. Dirty("saveSettings")' <=> changed
    BY <1>4 DEF Dirty
  <2>5. changed \/ Man.createdEnv # "unknown"
    BY <1>6, <2>2 DEF EnvRecorded
  <2>6. Man.createdEnv = "unknown" => (job.env = "none" <=> owner.env = "none")
    BY <1>2, <2>2 DEF EnvRecorded
  <2>7. EnvRecorded'
    BY <1>1, <1>4, <1>5, <1>6, <2>2, <2>3, <2>4, <2>5, <2>6
       DEF EnvRecorded, SameReading
  <2> QED
    BY <2>1, <2>7 DEF AllRecorded
<1>10. spoiled'.merged \/ Unmerged'
  BY <1>1, <1>2, <1>4, <1>5, UnmergedKept
<1> QED
  BY <1>5, <1>7, <1>8, <1>9, <1>10 DEF HostIInv

LEMMA SaveSettingsKeeps ==
  ASSUME HostIInv, SaveSettings
  PROVE  HostIInv'
<1> DEFINE created == First(job.man.createdEnv, job.env = "none")
           man == [job.man EXCEPT !.createdEnv = created]
<1>1. /\ job.pc = "saveSettings" /\ Save("skill", man) /\ UNCHANGED <<files, reverting, owner, spoiled, left>>
  BY DEF SaveSettings
<1>2. /\ JobTypes /\ JobSound /\ Startable /\ Owned /\ Versions /\ GhostTypes /\ job \in SetupJob
      /\ spoiled.unsaved \/ AllRecorded
      /\ spoiled.merged \/ Unmerged
  BY <1>1 DEF HostIInv, JobTypes
<1>3. job.man \in Manifest /\ job.man.createdEnv \in Known
  BY <1>2 DEF SetupJob, Manifest
<1>4. /\ created \in Known /\ created # "unknown"
      /\ job.man.createdEnv # "unknown" => created = job.man.createdEnv
      /\ job.man.createdEnv = "unknown" => (IF job.env = "none" THEN created = "yes" ELSE created = "no")
  BY <1>3, FirstKnown
<1> HIDE DEF created
<1>5. /\ man \in Manifest /\ man.createdEnv = created /\ man.worker = job.man.worker
      /\ man.createdRc = job.man.createdRc /\ man.generated = job.man.generated
  BY <1>3, <1>4, SavedEnv
<1> HIDE DEF man
<1>6. /\ job' \in SetupJob /\ job'.pc = "skill" /\ job'.man = man /\ job'.dirty = FALSE /\ SameReading
  BY <1>1, <1>2, <1>5, SetupGoes
<1>7. manifest' \in Kept /\ manifest'.is /\ manifest'.of = man
  BY <1>1, <1>5, Records DEF Save
<1>8. /\ JobTypes' /\ TakenBack' /\ RecordTypes' /\ Man' = man /\ job.man = Man
      /\ FileTypes' /\ GhostTypes' /\ UNCHANGED <<worker, settings, rc, skill, bins, owner, left, spoiled>>
  BY <1>1, <1>6, <1>7, SetupWrites DEF files
<1>9. JobSound' /\ Startable' /\ Owned' /\ Versions'
  BY <1>1, <1>2, <1>5, <1>6, <1>7, <1>8
     DEF JobSound, Busy, SameReading, Startable, Owned, Versions
<1>10. spoiled'.unsaved \/ AllRecorded'
  <2> SUFFICES ASSUME AllRecorded PROVE AllRecorded'
    BY <1>2, <1>8
  <2>1. RcRecorded' /\ ScriptsRecorded' /\ WorkerRecorded'
    BY <1>1, <1>5, <1>6, <1>8, RcKept, ScriptsKept, WorkerKept
       DEF AllRecorded, Dirty
  <2>2. EnvRecorded'
    BY <1>1, <1>4, <1>5, <1>6, <1>8 DEF AllRecorded, EnvRecorded
  <2> QED
    BY <2>1, <2>2 DEF AllRecorded
<1>11. spoiled'.merged \/ Unmerged'
  BY <1>2, <1>5, <1>6, <1>8, UnmergedKept
<1> QED
  BY <1>8, <1>9, <1>10, <1>11 DEF HostIInv

LEMMA WriteSkillKeeps ==
  ASSUME HostIInv, WriteSkill
  PROVE  HostIInv'
<1>1. /\ job.pc = "skill" /\ skill' = (IF skill = "theirs" THEN skill ELSE "ours") /\ Next1("rc")
      /\ UNCHANGED <<worker, settings, rc, bins, records, owner, spoiled, left>>
  BY DEF WriteSkill
<1>2. /\ JobTypes /\ JobSound /\ Startable /\ Owned /\ Versions /\ GhostTypes /\ FileTypes /\ manifest.is
      /\ spoiled.unsaved \/ AllRecorded
      /\ spoiled.merged \/ Unmerged
  BY <1>1 DEF HostIInv, JobSound
<1>3. /\ job' \in SetupJob /\ job'.pc = "rc" /\ job'.man = job.man /\ SameReading
  BY <1>1, <1>2, SetupGoes
<1>4. /\ JobTypes' /\ TakenBack' /\ RecordTypes' /\ Man' = Man /\ job.man = Man
      /\ GhostTypes' /\ manifest'.is /\ UNCHANGED <<manifest, reverting>>
  BY <1>1, <1>2, <1>3, SetupWrites DEF records
<1>5. FileTypes' /\ Owned'
  BY <1>1, <1>2 DEF FileTypes, Slot, Owned, GhostTypes
<1>6. JobSound' /\ Startable' /\ Versions'
  BY <1>1, <1>2, <1>3, <1>4 DEF JobSound, Busy, SameReading, Startable, Versions
<1>7. spoiled'.unsaved \/ AllRecorded'
  BY <1>1, <1>2, <1>3, <1>4, EnvKept, RcKept, ScriptsKept, WorkerKept
     DEF AllRecorded, Dirty
<1>8. spoiled'.merged \/ Unmerged'
  BY <1>1, <1>2, <1>3, <1>4, UnmergedKept
<1> QED
  BY <1>4, <1>5, <1>6, <1>7, <1>8 DEF HostIInv

LEMMA WriteRcKeeps ==
  ASSUME HostIInv, WriteRc
  PROVE  HostIInv'
<1> DEFINE changed == rc' # rc
           text == IF rc.text = "none" THEN "empty" ELSE rc.text
<1>1. /\ job.pc = "rc" /\ rc' = AddShellBlock(job.rc) /\ Wrote("saveRc", changed)
      /\ UNCHANGED <<worker, settings, skill, bins, records, owner, spoiled, left>>
  BY DEF WriteRc
<1>2. /\ JobTypes /\ JobSound /\ Startable /\ Owned /\ Versions /\ GhostTypes /\ FileTypes /\ manifest.is
      /\ spoiled.unsaved \/ AllRecorded
      /\ spoiled.merged \/ Unmerged
      /\ job.rc = rc
  BY <1>1 DEF HostIInv, JobSound
<1>3. changed \in BOOLEAN
  OBVIOUS
<1>4. /\ job' \in SetupJob /\ job'.pc = "saveRc" /\ job'.man = job.man /\ SameReading
      /\ job'.dirty = changed
  BY <1>1, <1>2, <1>3, SetupGoes
<1>5. /\ JobTypes' /\ TakenBack' /\ RecordTypes' /\ Man' = Man /\ job.man = Man
      /\ GhostTypes' /\ manifest'.is /\ UNCHANGED <<manifest, reverting>>
  BY <1>1, <1>2, <1>4, SetupWrites DEF records
<1>6. rc' \in Rc /\ rc'.block = TRUE /\ rc'.text = text
  BY <1>1, <1>2 DEF FileTypes, Rc, Part, AddShellBlock
<1>7. FileTypes' /\ Owned'
  BY <1>1, <1>2, <1>6 DEF FileTypes, Owned
<1>8. JobSound' /\ Startable' /\ Versions'
  BY <1>1, <1>2, <1>4, <1>5 DEF JobSound, Busy, SameReading, Startable, Versions
<1>9. spoiled'.unsaved \/ AllRecorded'
  <2> SUFFICES ASSUME AllRecorded PROVE AllRecorded'
    BY <1>1, <1>2
  <2>1. EnvRecorded' /\ ScriptsRecorded' /\ WorkerRecorded'
    BY <1>1, <1>4, <1>5, EnvKept, ScriptsKept, WorkerKept DEF AllRecorded, Dirty
  <2>2. RcRecorded /\ ~Dirty("saveRc")
    BY <1>1 DEF AllRecorded, Dirty
  <2>3. rc'.text = owner'.rc \/ (owner'.rc = "none" /\ rc'.text = "empty" /\ rc'.block)
    BY <1>1, <1>6, <2>2 DEF RcRecorded
  <2>4. Dirty("saveRc")' <=> changed
    BY <1>4 DEF Dirty
  <2>5. changed \/ Man.createdRc # "unknown"
    BY <1>6, <2>2 DEF RcRecorded
  <2>6. Man.createdRc = "unknown" => (job.rc.text = "none" <=> owner.rc = "none")
    BY <1>2, <2>2 DEF RcRecorded
  <2>7. RcRecorded'
    BY <1>1, <1>4, <1>5, <1>6, <2>2, <2>3, <2>4, <2>5, <2>6
       DEF RcRecorded, SameReading
  <2> QED
    BY <2>1, <2>7 DEF AllRecorded
<1>10. spoiled'.merged \/ Unmerged'
  BY <1>1, <1>2, <1>4, <1>5, UnmergedKept
<1> QED
  BY <1>5, <1>7, <1>8, <1>9, <1>10 DEF HostIInv

LEMMA SaveRcKeeps ==
  ASSUME HostIInv, SaveRc
  PROVE  HostIInv'
<1> DEFINE created == First(job.man.createdRc, job.rc.text = "none")
           man == [job.man EXCEPT !.createdRc = created]
<1>1. /\ job.pc = "saveRc" /\ Save("relay", man) /\ UNCHANGED <<files, reverting, owner, spoiled, left>>
  BY DEF SaveRc
<1>2. /\ JobTypes /\ JobSound /\ Startable /\ Owned /\ Versions /\ GhostTypes /\ job \in SetupJob
      /\ spoiled.unsaved \/ AllRecorded
      /\ spoiled.merged \/ Unmerged
  BY <1>1 DEF HostIInv, JobTypes
<1>3. job.man \in Manifest /\ job.man.createdRc \in Known
  BY <1>2 DEF SetupJob, Manifest
<1>4. /\ created \in Known /\ created # "unknown"
      /\ job.man.createdRc # "unknown" => created = job.man.createdRc
      /\ job.man.createdRc = "unknown" => (IF job.rc.text = "none" THEN created = "yes" ELSE created = "no")
  BY <1>3, FirstKnown
<1> HIDE DEF created
<1>5. /\ man \in Manifest /\ man.createdRc = created /\ man.worker = job.man.worker
      /\ man.createdEnv = job.man.createdEnv /\ man.generated = job.man.generated
  BY <1>3, <1>4, SavedRc
<1> HIDE DEF man
<1>6. /\ job' \in SetupJob /\ job'.pc = "relay" /\ job'.man = man /\ job'.dirty = FALSE /\ SameReading
  BY <1>1, <1>2, <1>5, SetupGoes
<1>7. manifest' \in Kept /\ manifest'.is /\ manifest'.of = man
  BY <1>1, <1>5, Records DEF Save
<1>8. /\ JobTypes' /\ TakenBack' /\ RecordTypes' /\ Man' = man /\ job.man = Man
      /\ FileTypes' /\ GhostTypes' /\ UNCHANGED <<worker, settings, rc, skill, bins, owner, left, spoiled>>
  BY <1>1, <1>6, <1>7, SetupWrites DEF files
<1>9. JobSound' /\ Startable' /\ Owned' /\ Versions'
  BY <1>1, <1>2, <1>5, <1>6, <1>7, <1>8
     DEF JobSound, Busy, SameReading, Startable, Owned, Versions
<1>10. spoiled'.unsaved \/ AllRecorded'
  <2> SUFFICES ASSUME AllRecorded PROVE AllRecorded'
    BY <1>2, <1>8
  <2>1. EnvRecorded' /\ ScriptsRecorded' /\ WorkerRecorded'
    BY <1>1, <1>5, <1>6, <1>8, EnvKept, ScriptsKept, WorkerKept
       DEF AllRecorded, Dirty
  <2>2. RcRecorded'
    BY <1>1, <1>4, <1>5, <1>6, <1>8 DEF AllRecorded, RcRecorded
  <2> QED
    BY <2>1, <2>2 DEF AllRecorded
<1>11. spoiled'.merged \/ Unmerged'
  BY <1>2, <1>5, <1>6, <1>8, UnmergedKept
<1> QED
  BY <1>8, <1>9, <1>10, <1>11 DEF HostIInv

-----------------------------------------------------------------------------
(* What revert takes back.                                                 *)

LEMMA RevertWrites ==
  ASSUME HostIInv, job.pc \in RevertPc, NEW pc \in RevertPc, Next1(pc),
         UNCHANGED <<records, owner, spoiled, left>>
  PROVE  /\ JobTypes' /\ RecordTypes' /\ GhostTypes' /\ JobSound'
         /\ Man' = Man /\ job.man = Man /\ Man \in Manifest /\ ~manifest.is /\ (NoRecords' => NoRecords)
         /\ job'.pc = pc /\ job'.dirty = job.dirty /\ UNCHANGED <<manifest, reverting>>
<1>1. /\ RecordTypes /\ GhostTypes /\ JobTypes /\ ~manifest.is /\ job.man = Man
  BY DEF HostIInv, JobSound, Busy
<1>2. job' \in RevertJob /\ job'.pc = pc /\ job'.man = job.man /\ job'.dirty = job.dirty
  BY <1>1, RevertGoes
<1>3. Man' = Man /\ Man \in Manifest /\ (NoRecords' => NoRecords) /\ RecordTypes' /\ GhostTypes'
  BY <1>1, ManTyped DEF RecordTypes, GhostTypes, NoRecords, Man, records
<1>4. JobTypes' /\ JobSound'
  BY <1>1, <1>2, <1>3, JobTyped DEF JobSound, Busy, records
<1> QED
  BY <1>1, <1>2, <1>3, <1>4 DEF records

LEMMA UnsetKeeps ==
  ASSUME HostIInv, Unset
  PROVE  HostIInv'
<1>1. /\ job.pc = "unset" /\ Next1("unblock") /\ settings' = RemoveWrapper(settings, job.man.createdEnv)
      /\ UNCHANGED <<worker, rc, skill, bins, records, owner, spoiled, left>>
  BY DEF Unset
<1>2. /\ Startable /\ TakenBack /\ Owned /\ Versions /\ FileTypes /\ GhostTypes
      /\ spoiled.unsaved \/ AllRecorded
      /\ spoiled.merged \/ Unmerged
  BY DEF HostIInv
<1>3. /\ JobTypes' /\ RecordTypes' /\ GhostTypes' /\ JobSound'
      /\ Man' = Man /\ job.man = Man /\ Man \in Manifest /\ (NoRecords' => NoRecords) /\ job'.pc = "unblock"
  BY <1>1, RevertWrites
<1>4. Man.createdEnv \in Known
  BY <1>3 DEF Manifest
<1>5. /\ settings' \in Settings /\ settings'.wrapper = FALSE
      /\ settings'.env = IF settings.wrapper /\ Man.createdEnv = "yes" /\ settings.env = "empty"
                         THEN "none" ELSE settings.env
      /\ settings'.status = IF settings.status = "ours" THEN "none" ELSE settings.status
  BY <1>1, <1>2, <1>3, <1>4, Removed DEF FileTypes
<1>6. FileTypes' /\ Owned' /\ Startable'
  BY <1>1, <1>2, <1>3, <1>5 DEF FileTypes, GhostTypes, Owned, Startable
<1>7. TakenBack' /\ Versions'
  BY <1>1, <1>2, <1>3, <1>5 DEF TakenBack, PoolOwned, Versions
<1>8. spoiled'.unsaved \/ AllRecorded'
  <2> SUFFICES ASSUME AllRecorded PROVE AllRecorded'
    BY <1>1, <1>2
  <2>1. RcRecorded' /\ ScriptsRecorded' /\ WorkerRecorded'
    BY <1>1, <1>3, RcKept, ScriptsKept, WorkerKept DEF AllRecorded, Dirty
  <2>2. EnvRecorded'
    BY <1>1, <1>3, <1>4, <1>5 DEF AllRecorded, EnvRecorded, Dirty, Known
  <2> QED
    BY <2>1, <2>2 DEF AllRecorded
<1>9. spoiled'.merged \/ Unmerged'
  BY <1>1, <1>2, <1>3, UnmergedKept
<1> QED
  BY <1>3, <1>6, <1>7, <1>8, <1>9 DEF HostIInv

LEMMA UnblockKeeps ==
  ASSUME HostIInv, Unblock
  PROVE  HostIInv'
<1>1. /\ job.pc = "unblock" /\ Next1("unload") /\ rc' = RemoveShellBlock(rc, job.man.createdRc)
      /\ UNCHANGED <<worker, settings, skill, bins, records, owner, spoiled, left>>
  BY DEF Unblock
<1>2. /\ Startable /\ TakenBack /\ Owned /\ Versions /\ FileTypes /\ GhostTypes
      /\ spoiled.unsaved \/ AllRecorded
      /\ spoiled.merged \/ Unmerged
  BY DEF HostIInv
<1>3. /\ JobTypes' /\ RecordTypes' /\ GhostTypes' /\ JobSound'
      /\ Man' = Man /\ job.man = Man /\ Man \in Manifest /\ (NoRecords' => NoRecords) /\ job'.pc = "unload"
  BY <1>1, RevertWrites
<1>4. Man.createdRc \in Known
  BY <1>3 DEF Manifest
<1>5. /\ rc' \in Rc /\ ~rc'.block
      /\ rc'.text = IF rc.block /\ Man.createdRc = "yes" /\ rc.text = "empty" THEN "none" ELSE rc.text
  <2>1. CASE rc.block
    BY <1>1, <1>2, <1>3, <2>1 DEF RemoveShellBlock, FileTypes, Rc, Part
  <2>2. CASE ~rc.block
    BY <1>1, <1>2, <2>2 DEF RemoveShellBlock, FileTypes
  <2> QED
    BY <2>1, <2>2
<1>6. FileTypes' /\ Owned' /\ Startable'
  BY <1>1, <1>2, <1>3, <1>5 DEF FileTypes, GhostTypes, Owned, Startable
<1>7. TakenBack' /\ Versions'
  BY <1>1, <1>2, <1>3, <1>5 DEF TakenBack, PoolOwned, Versions
<1>8. spoiled'.unsaved \/ AllRecorded'
  <2> SUFFICES ASSUME AllRecorded PROVE AllRecorded'
    BY <1>1, <1>2
  <2>1. EnvRecorded' /\ ScriptsRecorded' /\ WorkerRecorded'
    BY <1>1, <1>3, EnvKept, ScriptsKept, WorkerKept DEF AllRecorded, Dirty
  <2>2. RcRecorded'
    BY <1>1, <1>3, <1>4, <1>5 DEF AllRecorded, RcRecorded, Dirty, Known
  <2> QED
    BY <2>1, <2>2 DEF AllRecorded
<1>9. spoiled'.merged \/ Unmerged'
  BY <1>1, <1>2, <1>3, UnmergedKept
<1> QED
  BY <1>3, <1>6, <1>7, <1>8, <1>9 DEF HostIInv

LEMMA RemoveScriptsKeeps ==
  ASSUME HostIInv, RemoveScripts
  PROVE  HostIInv'
<1> DEFINE scripts == bins.scripts /\ ~(job.man.generated \/ ~reverting.is)
<1>1. /\ job.pc = "remove" /\ Next1("unskill") /\ bins' = [bins EXCEPT !.scripts = scripts]
      /\ UNCHANGED <<worker, settings, rc, skill, records, owner, spoiled, left>>
  BY DEF RemoveScripts
<1>2. /\ Startable /\ TakenBack /\ Owned /\ Versions /\ FileTypes
      /\ spoiled.unsaved \/ AllRecorded
      /\ spoiled.merged \/ Unmerged
  BY DEF HostIInv
<1>3. /\ JobTypes' /\ RecordTypes' /\ GhostTypes' /\ JobSound'
      /\ Man' = Man /\ job.man = Man /\ Man \in Manifest /\ (NoRecords' => NoRecords) /\ job'.pc = "unskill"
  BY <1>1, RevertWrites
<1>4. /\ bins' \in [launcher : BOOLEAN, scripts : BOOLEAN] /\ bins'.launcher = bins.launcher
      /\ bins'.scripts <=> scripts
  BY <1>1, <1>2 DEF FileTypes
<1>5. FileTypes' /\ Owned' /\ Startable'
  BY <1>1, <1>2, <1>3, <1>4 DEF FileTypes, Owned, Startable
<1>6. spoiled.unsaved \/ ~bins'.scripts
  BY <1>1, <1>2, <1>3, <1>4 DEF AllRecorded, ScriptsRecorded, Dirty
<1>7. TakenBack' /\ Versions'
  BY <1>1, <1>2, <1>3, <1>6 DEF TakenBack, PoolOwned, Versions
<1>8. spoiled'.unsaved \/ AllRecorded'
  <2> SUFFICES ASSUME AllRecorded, ~spoiled.unsaved PROVE AllRecorded'
    BY <1>1, <1>2
  <2>1. EnvRecorded' /\ RcRecorded' /\ WorkerRecorded'
    BY <1>1, <1>3, EnvKept, RcKept, WorkerKept DEF AllRecorded, Dirty
  <2>2. ScriptsRecorded'
    BY <1>3, <1>6 DEF ScriptsRecorded
  <2> QED
    BY <2>1, <2>2 DEF AllRecorded
<1>9. spoiled'.merged \/ Unmerged'
  BY <1>1, <1>2, <1>3, UnmergedKept
<1> QED
  BY <1>3, <1>5, <1>7, <1>8, <1>9 DEF HostIInv

LEMMA RemoveSkillKeeps ==
  ASSUME HostIInv, RemoveSkill
  PROVE  HostIInv'
<1>1. /\ job.pc = "unskill" /\ Next1("restore") /\ skill' = (IF skill = "ours" THEN "none" ELSE skill)
      /\ UNCHANGED <<worker, settings, rc, bins, records, owner, spoiled, left>>
  BY DEF RemoveSkill
<1>2. /\ Startable /\ TakenBack /\ Owned /\ Versions /\ FileTypes /\ GhostTypes
      /\ spoiled.unsaved \/ AllRecorded
      /\ spoiled.merged \/ Unmerged
  BY DEF HostIInv
<1>3. /\ JobTypes' /\ RecordTypes' /\ GhostTypes' /\ JobSound'
      /\ Man' = Man /\ (NoRecords' => NoRecords) /\ job'.pc = "restore"
  BY <1>1, RevertWrites
<1>4. FileTypes' /\ Owned' /\ Startable'
  BY <1>1, <1>2, <1>3 DEF FileTypes, Slot, GhostTypes, Owned, Startable
<1>5. TakenBack' /\ Versions'
  BY <1>1, <1>2, <1>3 DEF TakenBack, PoolOwned, Versions
<1>6. spoiled'.unsaved \/ AllRecorded'
  BY <1>1, <1>2, <1>3, EnvKept, RcKept, ScriptsKept, WorkerKept
     DEF AllRecorded, Dirty
<1>7. spoiled'.merged \/ Unmerged'
  BY <1>1, <1>2, <1>3, UnmergedKept
<1> QED
  BY <1>3, <1>4, <1>5, <1>6, <1>7 DEF HostIInv

LEMMA RestoreWorkerKeeps ==
  ASSUME HostIInv, RestoreWorker
  PROVE  HostIInv'
<1>1. /\ job.pc = "restore" /\ Next1("forget") /\ worker' = Reverted(worker, job.man.worker)
      /\ UNCHANGED <<settings, rc, skill, bins, records, owner, spoiled, left>>
  BY DEF RestoreWorker
<1>2. /\ Startable /\ TakenBack /\ Owned /\ Versions /\ FileTypes
      /\ spoiled.unsaved \/ AllRecorded
      /\ spoiled.merged \/ Unmerged
  BY DEF HostIInv
<1>3. /\ JobTypes' /\ RecordTypes' /\ GhostTypes' /\ JobSound'
      /\ Man' = Man /\ job.man = Man /\ Man \in Manifest /\ (NoRecords' => NoRecords) /\ job'.pc = "forget"
  BY <1>1, RevertWrites
<1>4. Man.worker \in WorkerRecord
  BY <1>3 DEF Manifest
<1>5. \/ worker' = worker /\ (Man.worker.is => worker # Man.worker.after)
      \/ Man.worker.is /\ worker = Man.worker.after /\ worker' = Man.worker.before
  BY <1>1, <1>3 DEF Reverted
<1>6. FileTypes' /\ Owned' /\ Startable' /\ Versions'
  BY <1>1, <1>2, <1>3, <1>4, <1>5, WorkerRecordTyped
     DEF FileTypes, Owned, Startable, TakenBack, Versions
<1>7. spoiled'.unsaved \/ AllRecorded'
  <2> SUFFICES ASSUME AllRecorded PROVE AllRecorded'
    BY <1>1, <1>2
  <2>1. EnvRecorded' /\ RcRecorded' /\ ScriptsRecorded'
    BY <1>1, <1>3, EnvKept, RcKept, ScriptsKept DEF AllRecorded, Dirty
  <2>2. WorkerRecorded'
    BY <1>1, <1>2, <1>3, <1>5 DEF AllRecorded, WorkerRecorded, Versions, Dirty
  <2> QED
    BY <2>1, <2>2 DEF AllRecorded
<1>8. PoolOwned'
  BY <1>1, <1>2, <1>5 DEF AllRecorded, WorkerRecorded, Versions, PoolOwned, Dirty
<1>9. TakenBack'
  BY <1>1, <1>2, <1>3, <1>8 DEF TakenBack
<1>10. spoiled'.merged \/ Unmerged'
  BY <1>1, <1>2, <1>3, <1>5 DEF Unmerged
<1> QED
  BY <1>3, <1>6, <1>7, <1>9, <1>10 DEF HostIInv

LEMMA ForgetKeeps ==
  ASSUME HostIInv, Forget
  PROVE  HostIInv'
<1>1. /\ job.pc = "forget" /\ job' = Idle /\ job'.pc = "off" /\ reverting' = Absent /\ ~manifest.is
      /\ UNCHANGED <<worker, settings, rc, skill, bins, manifest, owner, spoiled, left>>
      /\ RecordTypes /\ GhostTypes
  BY IdleOff DEF Forget, HostIInv, JobSound, files
<1>2. /\ Startable /\ TakenBack /\ Owned /\ Versions /\ FileTypes
      /\ spoiled.unsaved \/ AllRecorded
      /\ spoiled.merged \/ Unmerged
  BY DEF HostIInv
<1>3. Man' = Blank /\ RecordTypes'
  BY <1>1, Records DEF RecordTypes, Man
<1>4. JobTypes' /\ JobSound' /\ FileTypes' /\ GhostTypes' /\ Owned'
  BY <1>1, <1>2, JobTyped DEF JobSound, Busy, FileTypes, GhostTypes, Owned
<1>5. /\ ~settings.wrapper /\ settings.status # "ours" /\ ~rc.block /\ skill # "ours"
      /\ spoiled.unsaved \/ ~bins.scripts
      /\ PoolOwned
  BY <1>1, <1>2 DEF TakenBack
<1>6. Startable' /\ TakenBack' /\ Versions'
  BY <1>1, <1>2, <1>3, <1>5, Records DEF Startable, TakenBack, PoolOwned, Versions
<1>7. spoiled'.unsaved \/ AllRecorded'
  <2> SUFFICES ASSUME AllRecorded, ~spoiled.unsaved PROVE AllRecorded'
    BY <1>1, <1>2
  <2>1. EnvRecorded' /\ RcRecorded'
    BY <1>1, <1>3, <1>5, Records DEF AllRecorded, EnvRecorded, RcRecorded, Dirty
  <2>2. ScriptsRecorded' /\ WorkerRecorded'
    BY <1>1, <1>3, <1>5, Records
       DEF ScriptsRecorded, WorkerRecorded, PoolOwned, Dirty
  <2> QED
    BY <2>1, <2>2 DEF AllRecorded
<1>8. spoiled'.merged \/ Unmerged'
  BY <1>1, <1>2, <1>3, Records DEF Unmerged
<1> QED
  BY <1>3, <1>4, <1>6, <1>7, <1>8 DEF HostIInv

-----------------------------------------------------------------------------
(* The owner's edits.                                                      *)

LEMMA OwnerEditsKeep ==
  ASSUME HostIInv, OwnerEdits
  PROVE  HostIInv'
<1>1. /\ job.pc \in {"off", "asking"} /\ left.mishaps > 0 /\ left' = [left EXCEPT !.mishaps = @ - 1]
      /\ UNCHANGED <<bins, records, job, spoiled>>
  BY DEF OwnerEdits
<1>2. /\ Startable /\ TakenBack /\ Owned /\ Versions /\ FileTypes /\ GhostTypes
      /\ RecordTypes /\ JobTypes /\ JobSound
      /\ spoiled.unsaved \/ AllRecorded
      /\ spoiled.merged \/ Unmerged
  BY DEF HostIInv
<1>3. /\ left' \in [commands : Nat, mishaps : Nat, launchers : SUBSET Launcher]
      /\ left'.mishaps = left.mishaps - 1 /\ left'.mishaps <= left.mishaps
  BY <1>1, <1>2 DEF GhostTypes
<1>4. Man' = Man /\ (NoRecords' => NoRecords) /\ RecordTypes' /\ JobTypes'
  BY <1>1, <1>2 DEF RecordTypes, JobTypes, Busy, NoRecords, Man, records
<1>5. JobSound'
  BY <1>1, <1>2, <1>4 DEF JobSound, Busy, records
<1>6. /\ worker.base \in Nat /\ worker.pool \in Master \cup {0} /\ owner.version \in Nat /\ left.mishaps \in Nat
      /\ MaxMishaps \in Nat /\ 0 \notin Master
  BY <1>2, TakeoverAssumption DEF FileTypes, GhostTypes, WorkerFile
<1> DEFINE ok == [worker : WorkerFile, version : Nat, env : Part \cup {"gateway"},
                  status : {"none", "theirs"}, rc : Part, skill : {"none", "theirs"}]
<1>7. owner \in ok
  BY <1>2 DEF GhostTypes
<1>8. CASE /\ \E v \in IF worker.pool = 0 THEN {0} ELSE Master : worker' = [base |-> owner.version + 1, pool |-> v]
           /\ owner' = [owner EXCEPT !.worker = worker', !.version = @ + 1]
           /\ UNCHANGED <<settings, rc, skill>>
  <2>1. /\ worker' \in WorkerFile /\ worker'.base = owner.version + 1
        /\ worker'.pool = 0 <=> worker.pool = 0
    <3>1. PICK v \in IF worker.pool = 0 THEN {0} ELSE Master : worker' = [base |-> owner.version + 1, pool |-> v]
      BY <1>8
    <3>2. owner.version + 1 \in 0 .. MaxMishaps + 1
      BY <1>1, <1>2, <1>6 DEF Versions
    <3>3. v \in Master \cup {0} /\ (v = 0 <=> worker.pool = 0)
      BY <1>6
    <3> QED
      BY <3>1, <3>2, <3>3 DEF WorkerFile
  <2>2. /\ owner' \in ok /\ owner'.worker = worker' /\ owner'.version = owner.version + 1
        /\ owner'.env = owner.env /\ owner'.status = owner.status /\ owner'.rc = owner.rc
        /\ owner'.skill = owner.skill
    <3> DEFINE edited == [owner EXCEPT !.worker = worker']
    <3>1. /\ edited \in ok /\ edited.worker = worker' /\ edited.version = owner.version
          /\ edited.env = owner.env /\ edited.status = owner.status /\ edited.rc = owner.rc
          /\ edited.skill = owner.skill
      BY <1>7, <2>1
    <3>2. owner' = [edited EXCEPT !.version = owner.version + 1] /\ owner.version + 1 \in Nat
      BY <1>6, <1>8
    <3> HIDE DEF edited
    <3> QED
      BY <3>1, <3>2
  <2> HIDE DEF ok
  <2>3. FileTypes' /\ Owned'
    BY <1>1, <1>2, <1>8, <2>1, <2>2 DEF FileTypes, Owned
  <2>4. GhostTypes'
    BY <1>1, <1>2, <1>3, <2>2 DEF GhostTypes, ok
  <2>5. Startable' /\ TakenBack'
    BY <1>1, <1>2, <1>4, <1>8, <2>1, <2>2 DEF Startable, TakenBack, PoolOwned
  <2>6. Versions'
    <3>1. \A f \in WorkerFile : f.base \in Nat
      BY DEF WorkerFile
    <3>2. Man.worker.is => Man.worker.before \in WorkerFile /\ Man.worker.after \in WorkerFile
      BY <1>2, ManTyped, WorkerRecordTyped DEF Manifest
    <3>3. job.pc \in SetupPc => job.seen \in WorkerFile
      BY <1>2 DEF JobTypes, SetupJob
    <3>4. owner'.version + left'.mishaps <= MaxMishaps + 1
      BY <1>2, <1>3, <1>6, <2>2 DEF Versions
    <3> QED
      BY <1>1, <1>2, <1>4, <1>6, <2>1, <2>2, <3>1, <3>2, <3>3, <3>4 DEF Versions
  <2>7. spoiled'.unsaved \/ AllRecorded'
    <3> SUFFICES ASSUME AllRecorded PROVE AllRecorded'
      BY <1>1, <1>2
    <3>1. EnvRecorded' /\ RcRecorded' /\ ScriptsRecorded'
      BY <1>1, <1>4, <1>8, <2>2, EnvKept, RcKept, ScriptsKept DEF AllRecorded, Dirty
    <3>2. WorkerRecorded'
      BY <1>1, <1>4, <2>1, <2>2 DEF AllRecorded, WorkerRecorded, Dirty
    <3> QED
      BY <3>1, <3>2 DEF AllRecorded
  <2>8. spoiled'.merged \/ Unmerged'
    <3>1. Man.worker.is => worker' # Man.worker.after
      BY <1>2, <1>6, <2>1 DEF Versions
    <3> QED
      BY <1>1, <1>4, <2>1, <2>2, <3>1 DEF Unmerged
  <2> QED
    BY <1>4, <1>5, <2>3, <2>4, <2>5, <2>6, <2>7, <2>8 DEF HostIInv
<1>9. ASSUME UNCHANGED worker, settings' \in Settings, rc' \in Rc, skill' \in Slot, owner' \in ok,
             settings'.wrapper = settings.wrapper, rc'.block = rc.block,
             owner'.worker = owner.worker, owner'.version = owner.version,
             \/ settings'.env = settings.env /\ owner'.env = owner.env
             \/ settings'.env \in {"theirs", "gateway"} /\ owner'.env = settings'.env,
             \/ settings'.status = settings.status /\ owner'.status = owner.status
             \/ settings'.status = "theirs" /\ owner'.status = "theirs",
             \/ rc'.text = rc.text /\ owner'.rc = owner.rc
             \/ rc'.text = "theirs" /\ owner'.rc = "theirs",
             \/ skill' = skill /\ owner'.skill = owner.skill
             \/ skill' = "theirs" /\ owner'.skill = "theirs"
      PROVE  HostIInv'
  <2>1. FileTypes'
    BY <1>1, <1>2, <1>9 DEF FileTypes
  <2>2. GhostTypes'
    BY <1>1, <1>2, <1>3, <1>9 DEF GhostTypes
  <2> HIDE DEF ok
  <2>3. Owned'
    BY <1>2, <1>9 DEF Owned
  <2>4. Startable' /\ TakenBack'
    BY <1>1, <1>2, <1>4, <1>9 DEF Startable, TakenBack, PoolOwned
  <2>5. Versions'
    BY <1>1, <1>2, <1>3, <1>4, <1>9, VersionsKept DEF GhostTypes
  <2>6. spoiled'.unsaved \/ AllRecorded'
    <3> SUFFICES ASSUME AllRecorded PROVE AllRecorded'
      BY <1>1, <1>2
    <3>1. ScriptsRecorded' /\ WorkerRecorded'
      BY <1>1, <1>4, <1>9, ScriptsKept, WorkerKept DEF AllRecorded, Dirty
    <3>2. EnvRecorded'
      BY <1>1, <1>4, <1>9 DEF AllRecorded, EnvRecorded, Dirty
    <3>3. RcRecorded'
      BY <1>1, <1>4, <1>9 DEF AllRecorded, RcRecorded, Dirty
    <3> QED
      BY <3>1, <3>2, <3>3 DEF AllRecorded
  <2>7. spoiled'.merged \/ Unmerged'
    BY <1>1, <1>2, <1>4, <1>9, UnmergedKept
  <2> QED
    BY <1>4, <1>5, <2>1, <2>2, <2>3, <2>4, <2>5, <2>6, <2>7 DEF HostIInv
<1>10. CASE /\ \E part \in {"theirs", "gateway"} : settings' = [settings EXCEPT !.env = part]
            /\ owner' = [owner EXCEPT !.env = settings'.env]
            /\ UNCHANGED <<worker, rc, skill>>
  <2>1. /\ settings' \in Settings /\ settings'.env \in {"theirs", "gateway"}
        /\ settings'.wrapper = settings.wrapper /\ settings'.status = settings.status
    BY <1>2, <1>10 DEF FileTypes, Settings, Part
  <2>2. /\ owner' \in ok /\ owner'.env = settings'.env /\ owner'.worker = owner.worker
        /\ owner'.version = owner.version /\ owner'.status = owner.status /\ owner'.rc = owner.rc
        /\ owner'.skill = owner.skill
    BY <1>7, <1>10, <2>1 DEF Part
  <2> HIDE DEF ok
  <2> QED
    BY <1>2, <1>9, <1>10, <2>1, <2>2 DEF FileTypes
<1>11. CASE /\ settings' = [settings EXCEPT !.status = "theirs"]
            /\ owner' = [owner EXCEPT !.status = "theirs"]
            /\ UNCHANGED <<worker, rc, skill>>
  <2>1. /\ settings' \in Settings /\ settings'.status = "theirs"
        /\ settings'.wrapper = settings.wrapper /\ settings'.env = settings.env
    BY <1>2, <1>11 DEF FileTypes, Settings, Slot
  <2>2. /\ owner' \in ok /\ owner'.status = "theirs" /\ owner'.worker = owner.worker
        /\ owner'.version = owner.version /\ owner'.env = owner.env /\ owner'.rc = owner.rc
        /\ owner'.skill = owner.skill
    BY <1>7, <1>11
  <2> HIDE DEF ok
  <2> QED
    BY <1>2, <1>9, <1>11, <2>1, <2>2 DEF FileTypes
<1>12. CASE /\ rc' = [rc EXCEPT !.text = "theirs"]
            /\ owner' = [owner EXCEPT !.rc = "theirs"]
            /\ UNCHANGED <<worker, settings, skill>>
  <2>1. rc' \in Rc /\ rc'.text = "theirs" /\ rc'.block = rc.block
    BY <1>2, <1>12 DEF FileTypes, Rc, Part
  <2>2. /\ owner' \in ok /\ owner'.rc = "theirs" /\ owner'.worker = owner.worker
        /\ owner'.version = owner.version /\ owner'.env = owner.env /\ owner'.status = owner.status
        /\ owner'.skill = owner.skill
    BY <1>7, <1>12 DEF Part
  <2> HIDE DEF ok
  <2> QED
    BY <1>2, <1>9, <1>12, <2>1, <2>2 DEF FileTypes
<1>13. CASE /\ skill' = "theirs"
            /\ owner' = [owner EXCEPT !.skill = "theirs"]
            /\ UNCHANGED <<worker, settings, rc>>
  <2>1. /\ owner' \in ok /\ owner'.skill = "theirs" /\ owner'.worker = owner.worker
        /\ owner'.version = owner.version /\ owner'.env = owner.env /\ owner'.status = owner.status
        /\ owner'.rc = owner.rc
    BY <1>7, <1>13
  <2> HIDE DEF ok
  <2> QED
    BY <1>2, <1>9, <1>13, <2>1 DEF FileTypes, Slot
<1> QED
  BY <1>8, <1>10, <1>11, <1>12, <1>13 DEF OwnerEdits

-----------------------------------------------------------------------------
(* The beginning.                                                          *)

LEMMA HostStart ==
  ASSUME HostInit
  PROVE  HostIInv
<1>1. PICK base \in 0 .. 1, part \in Part, status \in {"none", "theirs"} : Bare(base, part, status)
  BY DEF HostInit, Part
<1>2. left \in [commands : Nat, mishaps : Nat, launchers : SUBSET Launcher] /\ left.mishaps \in {0, MaxMishaps}
  BY SessionsAssumption, TakeoverAssumption DEF HostInit
<1>3. /\ worker = [base |-> base, pool |-> 0] /\ settings = [env |-> part, wrapper |-> FALSE, status |-> status]
      /\ rc = [text |-> part, block |-> FALSE]
      /\ owner = [worker |-> worker, version |-> base, env |-> part, status |-> status,
                  rc |-> part, skill |-> "none"]
      /\ skill = "none" /\ bins = [launcher |-> FALSE, scripts |-> FALSE]
      /\ manifest = Absent /\ reverting = Absent /\ job.pc = "off" /\ job = Idle
      /\ spoiled = [unsaved |-> FALSE, merged |-> FALSE]
  BY <1>1, IdleOff DEF Bare
<1>4. base \in 0 .. MaxMishaps + 1 /\ MaxMishaps \in Nat /\ base \in Nat /\ base <= 1
  BY TakeoverAssumption
<1>5. worker \in WorkerFile /\ worker.base = base /\ worker.pool = 0
  BY <1>3, <1>4 DEF WorkerFile
<1>6. /\ settings \in Settings /\ ~settings.wrapper /\ settings.env = part /\ settings.status = status
      /\ rc \in Rc /\ ~rc.block /\ rc.text = part
  BY <1>3 DEF Settings, Rc, Slot
<1>7. bins \in [launcher : BOOLEAN, scripts : BOOLEAN] /\ ~bins.launcher /\ ~bins.scripts
  BY <1>3
<1>8. /\ owner \in [worker : WorkerFile, version : Nat, env : Part \cup {"gateway"},
                    status : {"none", "theirs"}, rc : Part, skill : {"none", "theirs"}]
      /\ owner.worker = worker /\ owner.version = base /\ owner.env = part /\ owner.status = status
      /\ owner.rc = part /\ owner.skill = "none"
  BY <1>3, <1>4, <1>5
<1>9. RecordTypes /\ Man = Blank /\ ~Man.worker.is /\ ~manifest.is
      /\ Man.createdEnv = "unknown" /\ Man.createdRc = "unknown"
  BY <1>3, Records DEF RecordTypes, Man
<1>10. FileTypes /\ JobTypes
  BY <1>3, <1>5, <1>6, <1>7 DEF FileTypes, Slot, JobTypes, Busy
<1>11. GhostTypes /\ JobSound
  BY <1>2, <1>3, <1>8 DEF GhostTypes, JobSound, Busy
<1>12. Startable /\ TakenBack /\ Owned
  BY <1>3, <1>5, <1>6, <1>7, <1>8 DEF Startable, TakenBack, Owned, PoolOwned
<1>13. Versions
  BY <1>2, <1>3, <1>4, <1>5, <1>8, <1>9 DEF Versions
<1>14. AllRecorded
  BY <1>3, <1>5, <1>6, <1>7, <1>8, <1>9
     DEF AllRecorded, EnvRecorded, RcRecorded, ScriptsRecorded, WorkerRecorded, Dirty
<1>15. Unmerged
  BY <1>3, <1>5, <1>8, <1>9 DEF Unmerged
<1> QED
  BY <1>9, <1>10, <1>11, <1>12, <1>13, <1>14, <1>15 DEF HostIInv

LEMMA InPlaceStart ==
  ASSUME InPlace
  PROVE  HostIInv
<1> DEFINE bare == [env |-> "none", wrapper |-> FALSE, status |-> "none"]
           before == [base |-> 0, pool |-> 0]
           record == Recorded(Blank, before, worker)
           man == [worker |-> record, createdEnv |-> "yes", createdRc |-> "yes", generated |-> TRUE]
<1>1. PICK m \in Master : worker = [base |-> 0, pool |-> m]
  BY DEF InPlace
<1>2. /\ worker \in WorkerFile /\ worker.base = 0 /\ worker.pool = m /\ m # 0
      /\ before \in WorkerFile /\ before.base = 0 /\ before.pool = 0
  BY <1>1, TakeoverAssumption DEF WorkerFile
<1>3. bare \in Settings /\ bare.env = "none" /\ bare.status = "none"
  BY DEF Settings, Part, Slot
<1>4. settings = AddStatusLine(AddWrapper(bare))
  BY DEF InPlace
<1>5. /\ owner = [worker |-> before, version |-> 0, env |-> "none", status |-> "none",
                  rc |-> "none", skill |-> "none"]
      /\ owner.worker = before
  BY DEF InPlace
<1>6. manifest = Present(man)
  BY <1>5 DEF InPlace
<1> HIDE DEF bare, before
<1>7. /\ settings \in Settings /\ settings.wrapper = TRUE /\ settings.env = "empty" /\ settings.status = "ours"
  BY <1>3, <1>4, Added
<1>8. record \in WorkerRecord /\ record.is /\ record.after = worker /\ record.before = before
  BY <1>2, Records, RecordedTyped
<1> HIDE DEF record
<1>9. /\ man \in Manifest /\ man.worker = record /\ man.createdEnv = "yes" /\ man.createdRc = "yes"
      /\ man.generated
  BY <1>8 DEF Manifest, Known
<1> HIDE DEF man
<1>10. /\ manifest \in Kept /\ manifest.is /\ manifest.of = man /\ reverting = Absent
       /\ job = Idle /\ job.pc = "off"
  BY <1>6, <1>9, Records, IdleOff DEF InPlace
<1>11. RecordTypes /\ Man = man
  BY <1>10, Records DEF RecordTypes, Man
<1>12. /\ rc \in Rc /\ rc.block /\ rc.text = "empty"
       /\ bins \in [launcher : BOOLEAN, scripts : BOOLEAN] /\ bins.launcher /\ bins.scripts /\ skill = "ours"
  BY DEF InPlace, AddShellBlock, Rc, Part
<1>13. /\ left \in [commands : Nat, mishaps : Nat, launchers : SUBSET Launcher] /\ left.mishaps = 0
       /\ spoiled \in [unsaved : BOOLEAN, merged : BOOLEAN]
  BY DEF InPlace
<1>14. /\ owner \in [worker : WorkerFile, version : Nat, env : Part \cup {"gateway"},
                     status : {"none", "theirs"}, rc : Part, skill : {"none", "theirs"}]
       /\ owner.version = 0 /\ owner.env = "none" /\ owner.status = "none"
       /\ owner.rc = "none" /\ owner.skill = "none"
  BY <1>2, <1>5 DEF Part
<1>15. FileTypes /\ JobTypes
  BY <1>2, <1>7, <1>10, <1>12 DEF FileTypes, Slot, JobTypes, Busy
<1>16. GhostTypes /\ JobSound
  BY <1>10, <1>13, <1>14 DEF GhostTypes, JobSound, Busy
<1>17. Startable /\ TakenBack /\ Owned
  BY <1>2, <1>7, <1>10, <1>12, <1>14 DEF Startable, TakenBack, NoRecords, Owned
<1>18. Versions
  BY <1>2, <1>8, <1>9, <1>10, <1>11, <1>13, <1>14, TakeoverAssumption DEF Versions
<1>19. AllRecorded
  BY <1>2, <1>5, <1>7, <1>8, <1>9, <1>10, <1>11, <1>12, <1>14
     DEF AllRecorded, EnvRecorded, RcRecorded, ScriptsRecorded, WorkerRecorded, Dirty
<1>20. Unmerged
  BY <1>2, <1>5, <1>8, <1>9, <1>10, <1>11 DEF Unmerged
<1> QED
  BY <1>11, <1>15, <1>16, <1>17, <1>18, <1>19, <1>20 DEF HostIInv

HIDE DEF WhileSeen, WhilePlanned, WhileShell, OnceScripts, OnceMerged, OnceRecorded, SetupPc,
         OnceRestored, OnceSkill, OnceRemoved, OnceUnblocked, OnceUnset, RevertPc

-----------------------------------------------------------------------------
(* Takeover and sessions together.                                         *)

TakeoverIInv == SessionsIInv /\ HostIInv

LEMMA SameSessions ==
  ASSUME SessionsIInv, UNCHANGED vars
  PROVE  SessionsIInv'
  BY DEF SessionsIInv, SessionSound, Heard, Beating, At, vars, port

LEMMA SameHost ==
  ASSUME HostIInv, UNCHANGED host
  PROVE  HostIInv'
<1>1. UNCHANGED <<worker, settings, rc, skill, bins, manifest, reverting, job, owner, spoiled, left>>
  BY DEF host, files, records
<1>2. FileTypes' /\ RecordTypes' /\ JobTypes' /\ GhostTypes' /\ Man' = Man
  BY <1>1 DEF HostIInv, FileTypes, RecordTypes, JobTypes, GhostTypes, Busy, Man
<1>3. JobSound' /\ Startable' /\ TakenBack' /\ Owned' /\ Versions'
  BY <1>1, <1>2
     DEF HostIInv, JobSound, Busy, Startable, TakenBack, NoRecords, PoolOwned,
         Owned, Versions
<1>4. /\ spoiled'.unsaved \/ AllRecorded'
      /\ spoiled'.merged \/ Unmerged'
  BY <1>1, <1>2
     DEF HostIInv, AllRecorded, EnvRecorded, RcRecorded, ScriptsRecorded,
         WorkerRecorded,
     Unmerged, Dirty
<1> QED
  BY <1>2, <1>3, <1>4 DEF HostIInv

\* A script that ends the relay, or sets up what keeps it.
LEMMA ScriptsKeepSessions ==
  ASSUME SessionsIInv, SetupStopsRelay \/ LoadAgent \/ Unload \/ RevertStopsRelay
  PROVE  SessionsIInv'
<1>1. CASE SetupStopsRelay \/ RevertStopsRelay
  <2>1. UNCHANGED <<agent, spawned, quiet>> /\ (RelayGone \/ UNCHANGED <<port, sessions, launcher>>)
    BY <1>1 DEF SetupStopsRelay, RevertStopsRelay, StopRelay
  <2>2. agent' \in BOOLEAN
    BY <2>1 DEF SessionsIInv
  <2> QED
    BY <2>1, <2>2, GoneKeeps, SameSessions DEF vars, port
<1>2. CASE Unload
  <2>1. /\ UNCHANGED <<spawned, quiet>> /\ agent' = FALSE
        /\ RelayGone \/ UNCHANGED <<port, sessions, launcher>>
    BY <1>2 DEF Unload
  <2>2. CASE RelayGone
    BY <2>1, <2>2, GoneKeeps
  <2>3. CASE UNCHANGED <<port, sessions, launcher>>
    BY <2>1, <2>3 DEF SessionsIInv, SessionSound, Heard, Beating, At, port
  <2> QED
    BY <2>1, <2>2, <2>3
<1>3. CASE LoadAgent
  BY <1>3 DEF LoadAgent, SessionsIInv, SessionSound, Heard, Beating, At, port
<1> QED
  BY <1>1, <1>2, <1>3

LEMMA TakeoverStart ==
  ASSUME TakeoverInit
  PROVE  TakeoverIInv
  BY SessionsStart, HostStart, InPlaceStart DEF TakeoverInit, TakeoverIInv

LEMMA TakeoverSteps ==
  ASSUME TakeoverIInv, [TakeoverNext]_allVars
  PROVE  TakeoverIInv'
<1>1. SessionsIInv /\ HostIInv
  BY DEF TakeoverIInv
<1>2. CASE UNCHANGED allVars
  BY <1>1, <1>2, SameSessions, SameHost DEF allVars, TakeoverIInv
<1>3. CASE BeginSetup \/ Refuse \/ BeginRevert \/ Stops \/ OwnerEdits
  <2>1. UNCHANGED vars
    BY <1>3 DEF BeginSetup, Refuse, BeginRevert, Stops, OwnerEdits
  <2> QED
    BY <1>1, <1>3, <2>1, SameSessions, BeginSetupKeeps, RefuseKeeps,
       BeginRevertKeeps, StopsKeeps,
       OwnerEditsKeep DEF TakeoverIInv
<1>4. CASE SetupStep
  <2>1. CASE SetupStopsRelay \/ LoadAgent
    BY <1>1, <2>1, ScriptsKeepSessions, SetupStopsRelayKeeps, LoadAgentKeeps
       DEF TakeoverIInv
  <2>2. CASE Preflight \/ SaveFirst \/ DropReverting \/ MergeWorker \/ SaveWorker \/ Generate
    <3>1. UNCHANGED vars
      BY <2>2
         DEF Preflight, SaveFirst, DropReverting, MergeWorker, SaveWorker, Generate
    <3> QED
      BY <1>1, <2>2, <3>1, SameSessions, PreflightKeeps, SaveFirstKeeps,
         DropRevertingKeeps,
         MergeWorkerKeeps, SaveWorkerKeeps, GenerateKeeps DEF TakeoverIInv
  <2>3. CASE SaveGenerated \/ WriteSettings \/ SaveSettings \/ WriteSkill \/ WriteRc \/ SaveRc
    <3>1. UNCHANGED vars
      BY <2>3
         DEF SaveGenerated, WriteSettings, SaveSettings, WriteSkill, WriteRc, SaveRc
    <3> QED
      BY <1>1, <2>3, <3>1, SameSessions, SaveGeneratedKeeps, WriteSettingsKeeps,
         SaveSettingsKeeps,
         WriteSkillKeeps, WriteRcKeeps, SaveRcKeeps DEF TakeoverIInv
  <2> QED
    BY <1>4, <2>1, <2>2, <2>3 DEF SetupStep
<1>5. CASE RevertStep
  <2>1. CASE Unload \/ RevertStopsRelay
    BY <1>1, <2>1, ScriptsKeepSessions, UnloadAndStopKeep DEF TakeoverIInv
  <2>2. CASE Unset \/ Unblock \/ RemoveScripts \/ RemoveSkill \/ RestoreWorker \/ Forget
    <3>1. UNCHANGED vars
      BY <2>2 DEF Unset, Unblock, RemoveScripts, RemoveSkill, RestoreWorker, Forget
    <3> QED
      BY <1>1, <2>2, <3>1, SameSessions, UnsetKeeps, UnblockKeeps,
         RemoveScriptsKeeps, RemoveSkillKeeps,
         RestoreWorkerKeeps, ForgetKeeps DEF TakeoverIInv
  <2> QED
    BY <1>5, <2>1, <2>2 DEF RevertStep
<1>6. CASE SessionsStep
  <2>1. HostIInv'
    BY <1>1, <1>6, SameHost DEF SessionsStep
  <2>2. SessionsIInv'
    <3>1. (\E l \in Launcher : LauncherStep(l) \/ SessionEvent(l) \/ Launch(l)) \/ RelayStep
      BY <1>6 DEF SessionsStep
    <3> QED
      BY <1>1, <3>1, LauncherKeeps, RelayStepsKeep
  <2> QED
    BY <2>1, <2>2 DEF TakeoverIInv
<1> QED
  BY <1>2, <1>3, <1>4, <1>5, <1>6 DEF TakeoverNext

\* The invariant implies what is promised of the takeover.
LEMMA TakeoverPromise ==
  ASSUME TakeoverIInv
  PROVE  TakeoverSound
<1>1. SessionsIInv /\ HostIInv
  BY DEF TakeoverIInv
<1>2. SessionsTypeOK
  BY <1>1 DEF SessionsIInv, SessionsTypeOK, LauncherState
<1>3. FileTypes /\ RecordTypes /\ GhostTypes /\ Startable /\ TakenBack /\ Owned
  BY <1>1 DEF HostIInv
<1>4. manifest.is \in BOOLEAN /\ reverting.is \in BOOLEAN
  <2>1. Absent.is = FALSE
    BY DEF Absent
  <2>2. \A k \in [is : {TRUE}, of : Manifest] : k.is = TRUE
    OBVIOUS
  <2> QED
    BY <1>3, <2>1, <2>2 DEF RecordTypes, Kept
<1>5. HostTypeOK
  BY <1>2, <1>3, <1>4 DEF HostTypeOK, FileTypes
<1>6. RevertRestores
  <2> SUFFICES ASSUME AllReverted PROVE (spoiled.unsaved \/ NothingLeft) /\ (spoiled.merged \/ EditsSurvive)
    BY DEF RevertRestores
  <2>1. /\ ~settings.wrapper /\ settings.status # "ours" /\ ~rc.block /\ skill # "ours" /\ PoolOwned
        /\ spoiled.unsaved \/ ~bins.scripts
    BY <1>3 DEF AllReverted, NoRecords, TakenBack
  <2>3. settings.status = owner.status /\ skill = owner.skill
    BY <1>3, <2>1 DEF Owned
  <2>2. spoiled.unsaved \/ NothingLeft
    BY <1>1, <2>1
       DEF HostIInv, AllRecorded, EnvRecorded, RcRecorded, PoolOwned, NothingLeft
  <2>4. spoiled.merged \/ EditsSurvive
    BY <1>1, <2>3 DEF HostIInv, Unmerged, EditsSurvive
  <2> QED
    BY <2>2, <2>4
<1>7. ClaudeStarts
  BY <1>3 DEF Startable, ClaudeStarts
<1> QED
  BY <1>5, <1>6, <1>7 DEF TakeoverSound

\* In every behaviour of scripts, owner, launchers and relay (cc-takeover.ts,
\* cc-relay.ts, cc-launcher.ts): what a script has read is still so while it
\* writes, the manifest knows of every change but the one being made, and a
\* session that beats has been heard of by the relay that is up.
THEOREM TakeoverInvariant == TakeoverSpec => []TakeoverIInv
<1>1. TakeoverInit => TakeoverIInv
  BY TakeoverStart
<1>2. TakeoverIInv /\ [TakeoverNext]_allVars => TakeoverIInv'
  BY TakeoverSteps
<1> QED
  BY <1>1, <1>2, PTL DEF TakeoverSpec

\* setup and revert (cc-takeover.ts): for any machine, any number of setups,
\* reverts, stops between two writes and edits by the owner, a revert that runs
\* to its end leaves nothing of ours and everything of theirs - but for the one
\* write a stop kept out of the manifest, and the edits setup merged over - and
\* Claude Code can be started all along.
THEOREM TakeoverTakesBack == TakeoverSpec => []TakeoverSound
<1>1. TakeoverIInv => TakeoverSound
  BY TakeoverPromise
<1> QED
  BY <1>1, TakeoverInvariant, PTL

\* The relay's idle exit (cc-relay.ts tick, cc-launcher.ts heartbeat): whatever
\* the intervals, as long as two beats with their timeouts fit into the quiet
\* spell, it never leaves under a session that beats.
THEOREM RelayStaysForSessions == TakeoverSpec => NeverLeavesSessions
<1>1. ASSUME TakeoverIInv
      PROVE  [LeaveWhenIdle /\ up' = FALSE =>
                \A l \in Launcher : launcher[l].child => l \in Wrapped /\ ~resident]_vars
  BY <1>1, LeavesAlone DEF TakeoverIInv
<1> QED
  BY <1>1, TakeoverInvariant, PTL DEF NeverLeavesSessions

-----------------------------------------------------------------------------
(* The relay's queue.                                                      *)

USE PoolMasterAssumption, RelayAssumption

Waits(r) == req[r].pc \in {"asking", "walled", "denied"}
JobFor(q) ==
  IF q.pc = "asking" THEN "ensure" ELSE IF q.pc = "walled" THEN "quota" ELSE "unauthorized"

RequestState ==
  [pc : {"idle", "asking", "sent", "walled", "denied", "resent"}, tok : Token \cup {NoTok}]

CommandState ==
  [pc : {"idle", "pinning", "naming", "ok", "failed"},
   prefix : Account \cup {None}, pinned : BOOLEAN, prev : Account \cup {None}]

\* The types of the lease, of the call under way and of the world.
LeaseTypes ==
  /\ WorldTypeOK
  /\ trouble \in 0 .. MaxTrouble
  /\ held \in HeldLease \cup {NoLease}
  /\ deadAccess \subseteq Token
  /\ {switchHold, pin, asked, shunned} \subseteq Account \cup {None}
  /\ backoff \in BOOLEAN
  /\ reported \subseteq Account
  /\ at \in {"queued", "report", "naming", "calling", "excluding"}

\* The types of what waits and of who waits for it.
QueueTypes ==
  /\ queue \in Seq(Job)
  /\ req \in [Request -> RequestState]
  /\ op \in [Operator -> CommandState]

\* A job is of the kind its request needs and about what that failed with; no
\* request has two, none that waits has none.
Fits(entry, q) ==
  /\ q.pc \in {"asking", "walled", "denied"}
  /\ entry.kind = JobFor(q) /\ entry.what = About(q)

AllFit ==
  \A i \in 1 .. Len(queue) : queue[i].by \in Request => Fits(queue[i], req[queue[i].by])
NoneTwice ==
  \A i, j \in 1 .. Len(queue) : queue[i].by = queue[j].by /\ queue[i].by \in Request => i = j
AllQueued == \A r \in Request : Waits(r) => \E i \in 1 .. Len(queue) : queue[i].by = r

\* What a request was sent with, and a command is about; a quota that was
\* answered exhausted stays so until it has been reported.
Tried ==
  /\ \A r \in Request :
       /\ req[r].pc \in {"sent", "walled", "denied", "resent"} => req[r].tok \in Token
       /\ req[r].pc = "walled" => req[r].tok[1] \in walled
  /\ \A o \in Operator : op[o].pc = "pinning" => op[o].prefix \in Account

QueueSound == QueueTypes /\ AllFit /\ NoneTwice /\ AllQueued /\ Tried

\* What the call under way is for: a switch is asked for while the account that
\* ran out is still held, and a second call while the first one's answer is a
\* token seen dead.
CallSound ==
  at # "queued" =>
    /\ queue # <<>>
    /\ at = "report" => Head(queue).kind = "quota"
    /\ (at = "naming") <=> (Head(queue).kind = "name")
    /\ at = "naming" => asked = Head(queue).what
    /\ at \in {"calling", "excluding"} /\ Head(queue).kind = "quota" =>
         held = NoLease \/ held.acct = Head(queue).what
    /\ at = "excluding" => asked = None /\ \E t \in deadAccess : t[1] = shunned

RelayIInv == LeaseTypes /\ QueueSound /\ CallSound

-----------------------------------------------------------------------------
LEMMA JobFacts ==
  ASSUME NEW entry \in Job
  PROVE  /\ entry.kind \in {"ensure", "quota", "unauthorized", "name"}
         /\ entry.kind = "name" => entry.by \in Operator /\ entry.what \in Account
         /\ entry.kind # "name" => entry.by \in Request
         /\ entry.kind = "quota" => entry.what \in Account
         /\ entry.kind = "unauthorized" => entry.what \in Token
  BY DEF Job, JobsOf

LEMMA QueueFacts ==
  ASSUME QueueTypes
  PROVE  /\ Len(queue) \in Nat
         /\ \A i \in 1 .. Len(queue) : queue[i] \in Job
         /\ queue # <<>> => /\ Head(queue) = queue[1] /\ Head(queue) \in Job
                            /\ 1 \in 1 .. Len(queue)
                            /\ Tail(queue) \in Seq(Job)
                            /\ Len(Tail(queue)) = Len(queue) - 1
                            /\ \A i \in 1 .. Len(queue) - 1 : Tail(queue)[i] = queue[i + 1]
  BY DEF QueueTypes

\* A lease, as far as a request can tell.
LEMMA OnwardsFacts ==
  ASSUME NEW q \in RequestState, NEW ok \in BOOLEAN, NEW l,
         ok => Tok(l) \in Token
  PROVE  LET on == Onwards(q, [ok |-> ok, lease |-> l])
         IN  /\ on \in RequestState
             /\ on.pc \in {"idle", "sent", "resent"}
             /\ on.pc # "idle" => ok /\ on.tok = Tok(l)
             /\ on.pc = "sent" => q.pc = "asking"
<1> DEFINE result == [ok |-> ok, lease |-> l]
<1>1. result.ok = ok /\ result.lease = l
  OBVIOUS
<1>2. IdleReq \in RequestState /\ IdleReq.pc = "idle"
  BY DEF IdleReq, RequestState
<1>3. CASE ok /\ Suits(q, l) /\ q.pc = "asking"
  <2>1. Onwards(q, result) = [pc |-> "sent", tok |-> Tok(l)]
    BY <1>1, <1>3 DEF Onwards
  <2> QED
    BY <1>3, <2>1 DEF RequestState
<1>4. CASE ok /\ Suits(q, l) /\ q.pc # "asking"
  <2>1. Onwards(q, result) = [pc |-> "resent", tok |-> Tok(l)]
    BY <1>1, <1>4 DEF Onwards
  <2> QED
    BY <1>4, <2>1 DEF RequestState
<1>5. CASE ~(ok /\ Suits(q, l))
  <2>1. Onwards(q, result) = IdleReq
    BY <1>1, <1>5 DEF Onwards
  <2> QED
    BY <1>2, <2>1
<1> QED
  BY <1>3, <1>4, <1>5

\* The job at the head ends: what was waiting for it goes on, the others wait.
LEMMA ReplyKeeps ==
  ASSUME QueueSound, queue # <<>>, UNCHANGED walled,
         NEW ok \in BOOLEAN, NEW l, ok => Tok(l) \in Token,
         Reply([ok |-> ok, lease |-> l])
  PROVE  QueueSound'
<1> DEFINE result == [ok |-> ok, lease |-> l]
           who == Head(queue).by
<1>1. /\ queue \in Seq(Job) /\ req \in [Request -> RequestState] /\ op \in [Operator -> CommandState]
      /\ AllFit /\ NoneTwice /\ AllQueued /\ Tried
  BY DEF QueueSound, QueueTypes
<1>2. /\ Head(queue) = queue[1] /\ 1 \in 1 .. Len(queue)
      /\ queue' \in Seq(Job) /\ Len(queue') = Len(queue) - 1
      /\ \A i \in 1 .. Len(queue) - 1 : queue'[i] = queue[i + 1]
      /\ Len(queue) \in Nat
  BY <1>1, QueueFacts DEF Reply, QueueTypes
<1>3. /\ req' = [r \in Request |-> IF r = who THEN Onwards(req[r], result) ELSE req[r]]
      /\ op' = [o \in Operator |->
                  IF o = who THEN [op[o] EXCEPT !.pc = IF ok THEN "ok" ELSE "failed"] ELSE op[o]]
  BY DEF Reply
<1>4. \A r \in Request \ {who} : req'[r] = req[r]
  BY <1>3
<1>5. \A r \in Request : r = who =>
        /\ req'[r] \in RequestState
        /\ req'[r].pc \in {"idle", "sent", "resent"}
        /\ req'[r].pc # "idle" => req'[r].tok \in Token
  <2> SUFFICES ASSUME NEW r \in Request, r = who
               PROVE  /\ req'[r] \in RequestState
                      /\ req'[r].pc \in {"idle", "sent", "resent"}
                      /\ req'[r].pc # "idle" => req'[r].tok \in Token
    OBVIOUS
  <2>1. req'[r] = Onwards(req[r], result)
    BY <1>3
  <2> QED
    BY <1>1, <2>1, OnwardsFacts
<1>6. \A o \in Operator : /\ op'[o] \in CommandState
                          /\ op'[o].pc = "pinning" => op'[o] = op[o]
  <2> SUFFICES ASSUME NEW o \in Operator
               PROVE  op'[o] \in CommandState /\ (op'[o].pc = "pinning" => op'[o] = op[o])
    OBVIOUS
  <2>1. CASE o = who
    BY <1>1, <1>3, <2>1 DEF CommandState
  <2>2. CASE o # who
    BY <1>1, <1>3, <2>2
  <2> QED
    BY <2>1, <2>2
<1>7. QueueTypes'
  <2>1. req' \in [Request -> RequestState]
    BY <1>1, <1>3, <1>4, <1>5
  <2>2. op' \in [Operator -> CommandState]
    BY <1>3, <1>6
  <2> QED
    BY <1>2, <2>1, <2>2 DEF QueueTypes
<1>8. \A i \in 1 .. Len(queue') : i + 1 \in 1 .. Len(queue) /\ queue'[i] = queue[i + 1] /\ i + 1 # 1
  BY <1>2
<1>9. \A i \in 1 .. Len(queue') : queue'[i].by \in Request => queue'[i].by # who
  BY <1>1, <1>2, <1>8 DEF NoneTwice
<1>10. AllFit'
  BY <1>1, <1>4, <1>8, <1>9 DEF AllFit, Fits, Waits
<1>11. NoneTwice'
  BY <1>1, <1>2, <1>8 DEF NoneTwice
<1>12. AllQueued'
  <2> SUFFICES ASSUME NEW r \in Request, Waits(r)' PROVE \E i \in 1 .. Len(queue') : queue'[i].by = r
    BY DEF AllQueued
  <2>1. r # who
    BY <1>5 DEF Waits
  <2>2. Waits(r)
    BY <1>4, <2>1 DEF Waits
  <2>3. PICK i \in 1 .. Len(queue) : queue[i].by = r
    BY <1>1, <2>2 DEF AllQueued
  <2>4. i # 1
    BY <1>2, <2>1, <2>3
  <2>5. i - 1 \in 1 .. Len(queue') /\ queue'[i - 1] = queue[i]
    BY <1>2, <2>4
  <2> QED
    BY <2>3, <2>5
<1>13. Tried'
  BY <1>1, <1>4, <1>5, <1>6 DEF Tried
<1> QED
  BY <1>7, <1>10, <1>11, <1>12, <1>13 DEF QueueSound

\* The job under way goes on to its next call.
LEMMA CallKeeps ==
  ASSUME QueueSound, UNCHANGED <<queue, req, op, walled>>
  PROVE  QueueSound'
  BY DEF QueueSound, QueueTypes, AllFit, Fits, NoneTwice, AllQueued, Waits, Tried

\* A request joins the queue with the job it needs.
LEMMA RequestJoins ==
  ASSUME QueueSound, UNCHANGED <<op, walled>>, NEW r \in Request, ~Waits(r),
         NEW kind, NEW what, NEW q \in RequestState, Enqueue(kind, r, what),
         [kind |-> kind, by |-> r, what |-> what] \in Job,
         q.pc \in {"asking", "walled", "denied"}, kind = JobFor(q), what = About(q),
         q.pc # "asking" => q.tok \in Token, q.pc = "walled" => q.tok[1] \in walled,
         req' = [req EXCEPT ![r] = q]
  PROVE  QueueSound'
<1> DEFINE entry == [kind |-> kind, by |-> r, what |-> what]
<1>1. /\ queue \in Seq(Job) /\ req \in [Request -> RequestState] /\ op \in [Operator -> CommandState]
      /\ AllFit /\ NoneTwice /\ AllQueued /\ Tried /\ Len(queue) \in Nat
  BY DEF QueueSound, QueueTypes
<1>2. entry \in Job /\ entry.by = r /\ entry.kind = kind /\ entry.what = what
  OBVIOUS
<1> HIDE DEF entry
<1>3. /\ queue' \in Seq(Job) /\ Len(queue') = Len(queue) + 1
      /\ \A i \in 1 .. Len(queue) : queue'[i] = queue[i]
      /\ queue'[Len(queue) + 1] = entry
  BY <1>1, <1>2 DEF Enqueue, entry
<1>4. req'[r] = q /\ \A p \in Request \ {r} : req'[p] = req[p]
  BY <1>1
<1>5. \A i \in 1 .. Len(queue) : queue[i].by \in Request => queue[i].by # r
  BY <1>1 DEF AllFit, Fits, Waits
<1>6. QueueTypes'
  BY <1>1, <1>3 DEF QueueTypes
<1>7. AllFit'
  <2> SUFFICES ASSUME NEW i \in 1 .. Len(queue'), queue'[i].by \in Request
               PROVE  Fits(queue'[i], req'[queue'[i].by])
    BY DEF AllFit
  <2>1. CASE i \in 1 .. Len(queue)
    BY <1>1, <1>3, <1>4, <1>5, <2>1 DEF AllFit, Fits, Waits
  <2>2. CASE i = Len(queue) + 1
    BY <1>2, <1>3, <1>4, <2>2 DEF Fits, Waits
  <2> QED
    BY <1>1, <1>3, <2>1, <2>2
<1>8. NoneTwice'
  BY <1>1, <1>2, <1>3, <1>5 DEF NoneTwice
<1>9. AllQueued'
  <2> SUFFICES ASSUME NEW p \in Request, Waits(p)' PROVE \E i \in 1 .. Len(queue') : queue'[i].by = p
    BY DEF AllQueued
  <2>1. CASE p = r
    BY <1>1, <1>2, <1>3, <2>1
  <2>2. CASE p # r
    <3>1. PICK i \in 1 .. Len(queue) : queue[i].by = p
      BY <1>1, <1>4, <2>2 DEF AllQueued, Waits
    <3> QED
      BY <1>1, <1>3, <3>1
  <2> QED
    BY <2>1, <2>2
<1>10. Tried'
  BY <1>1, <1>4 DEF Tried
<1> QED
  BY <1>6, <1>7, <1>8, <1>9, <1>10 DEF QueueSound

\* A command joins it.
LEMMA CommandJoins ==
  ASSUME QueueSound, NEW o \in Operator, UNCHANGED <<req, walled>>,
         op[o].pc = "pinning", op' = [op EXCEPT ![o].pc = "naming"],
         Enqueue("name", o, op[o].prefix)
  PROVE  QueueSound'
<1> DEFINE entry == [kind |-> "name", by |-> o, what |-> op[o].prefix]
<1>1. /\ queue \in Seq(Job) /\ req \in [Request -> RequestState] /\ op \in [Operator -> CommandState]
      /\ AllFit /\ NoneTwice /\ AllQueued /\ Tried /\ Len(queue) \in Nat
  BY DEF QueueSound, QueueTypes
<1>2. entry \in Job /\ entry.by = o
  BY <1>1 DEF Job, Tried
<1>3. o \notin Request
  OBVIOUS
<1> HIDE DEF entry
<1>4. /\ queue' \in Seq(Job) /\ Len(queue') = Len(queue) + 1
      /\ \A i \in 1 .. Len(queue) : queue'[i] = queue[i]
      /\ queue'[Len(queue) + 1] = entry
  BY <1>1, <1>2 DEF Enqueue, entry
<1>5. op' \in [Operator -> CommandState] /\ \A p \in Operator : op'[p].pc = "pinning" => op'[p] = op[p]
  BY <1>1 DEF CommandState
<1>6. QueueTypes'
  BY <1>1, <1>4, <1>5 DEF QueueTypes
<1>7. AllFit'
  <2> SUFFICES ASSUME NEW i \in 1 .. Len(queue'), queue'[i].by \in Request
               PROVE  Fits(queue'[i], req'[queue'[i].by])
    BY DEF AllFit
  <2>1. CASE i \in 1 .. Len(queue)
    BY <1>1, <1>4, <2>1 DEF AllFit, Fits, Waits
  <2>2. CASE i = Len(queue) + 1
    BY <1>2, <1>3, <1>4, <2>2 DEF Fits, Waits
  <2> QED
    BY <1>1, <1>4, <2>1, <2>2
<1>8. NoneTwice'
  BY <1>1, <1>2, <1>3, <1>4 DEF NoneTwice
<1>9. AllQueued'
  <2> SUFFICES ASSUME NEW p \in Request, Waits(p)' PROVE \E i \in 1 .. Len(queue') : queue'[i].by = p
    BY DEF AllQueued
  <2>1. PICK i \in 1 .. Len(queue) : queue[i].by = p
    BY <1>1 DEF AllQueued, Waits
  <2> QED
    BY <1>1, <1>4, <2>1
<1>10. Tried'
  BY <1>1, <1>5 DEF Tried
<1> QED
  BY <1>6, <1>7, <1>8, <1>9, <1>10 DEF QueueSound

\* A request stops waiting for an answer, or a command for its turn.
LEMMA RequestLeaves ==
  ASSUME QueueSound, UNCHANGED <<queue, op, walled>>, NEW r \in Request, ~Waits(r),
         req' = [req EXCEPT ![r] = IdleReq]
  PROVE  QueueSound'
<1>1. IdleReq \in RequestState /\ IdleReq.pc = "idle"
  BY DEF IdleReq, RequestState
<1>2. /\ req \in [Request -> RequestState] /\ QueueTypes /\ AllFit /\ NoneTwice /\ AllQueued /\ Tried
  BY DEF QueueSound, QueueTypes
<1>3. /\ req' \in [Request -> RequestState] /\ req'[r].pc = "idle"
      /\ \A p \in Request \ {r} : req'[p] = req[p]
  BY <1>1, <1>2
<1>4. QueueTypes' /\ NoneTwice'
  BY <1>2, <1>3 DEF QueueTypes, NoneTwice
<1>5. AllFit'
  BY <1>2, <1>3 DEF AllFit, Fits, Waits
<1>6. AllQueued' /\ Tried'
  BY <1>2, <1>3 DEF AllQueued, Tried, Waits
<1> QED
  BY <1>4, <1>5, <1>6 DEF QueueSound

LEMMA CommandMoves ==
  ASSUME QueueSound, UNCHANGED <<queue, req, walled>>, NEW o \in Operator, NEW c \in CommandState,
         c.pc = "pinning" => c.prefix \in Account,
         op' = [op EXCEPT ![o] = c]
  PROVE  QueueSound'
<1>1. op \in [Operator -> CommandState] /\ QueueTypes /\ AllFit /\ NoneTwice /\ AllQueued /\ Tried
  BY DEF QueueSound, QueueTypes
<1>2. QueueTypes' /\ NoneTwice'
  BY <1>1 DEF QueueTypes, NoneTwice
<1>3. AllFit' /\ AllQueued'
  BY <1>1 DEF AllFit, Fits, AllQueued, Waits
<1>4. Tried'
  BY <1>1 DEF Tried
<1> QED
  BY <1>2, <1>3, <1>4 DEF QueueSound

-----------------------------------------------------------------------------
(* What a step promises.                                                   *)

\* Only what ran out is reported; the machine is moved for a reason; and what is
\* first sent has not been seen dead.
Reports == cooling' \subseteq cooling \cup walled

HeldMoves ==
  held # NoLease /\ held'.acct # held.acct =>
    \/ held.acct \in walled \cup cooling
    \/ \E t \in deadAccess : t[1] = held.acct
    \/ asked = held'.acct

SendsAlive ==
  \A r \in Request : req[r].pc = "asking" /\ req'[r].pc = "sent" => req'[r].tok \notin deadAccess

Promised == Reports /\ HeldMoves /\ SendsAlive

LEMMA HeldFacts ==
  ASSUME LeaseTypes
  PROVE  /\ held.acct \in Account \cup {None}
         /\ held # NoLease => held.acct \in Account /\ Tok(held) \in Token
         /\ NoLease.acct = None
         /\ Usable(held) => held # NoLease /\ Tok(held) \notin deadAccess
  BY DEF LeaseTypes, HeldLease, NoLease, Tok, Token, Usable

LEMMA LeasedFacts ==
  ASSUME WorldTypeOK, NEW answer, answer.acct \in Account
  PROVE  /\ Leased(answer) \in HeldLease /\ Leased(answer).acct = answer.acct
         /\ Tok(Leased(answer)) \in Token /\ Tok(Leased(answer))[1] = answer.acct
  BY DEF WorldTypeOK, Leased, HeldLease, Tok, Token, Age

LEMMA AnswerFacts ==
  ASSUME NEW reason, NEW current, NEW named \in Account \cup {None}, NEW avoid,
         NEW answer \in LeaseAnswers(reason, current, named, avoid)
  PROVE  /\ answer.kind \in {"lease", "refused", "none", "down"}
         /\ answer.kind = "lease" =>
              /\ answer.acct \in Account
              /\ named # None => answer.acct = named
              /\ named = None /\ reason # "ratelimit" /\ current \in Account \ (cooling \cup avoid)
                   => answer.acct = current
<1>1. CASE answer = Unreachable
  BY <1>1 DEF Unreachable
<1>2. CASE named # None /\ answer \in NamedAnswers(named)
  BY <1>2 DEF NamedAnswers, Refused, Served
<1>3. ASSUME NEW out, answer \in ElectedAnswers(out)
      PROVE  answer.kind \in {"lease", "none"} /\ (answer.kind = "lease" => answer.acct \in Account)
  BY <1>3 DEF ElectedAnswers, Empty, Served
<1>4. CASE named = None /\ reason = "ratelimit" /\ answer \in RotationAnswers(current, avoid)
  <2>1. CASE answer \in ElectedAnswers(avoid \cup ({current} \ {None}))
    BY <1>3, <1>4, <2>1
  <2>2. CASE current \in Account /\ answer = Served(current)
    BY <1>4, <2>2 DEF Served
  <2> QED
    BY <1>4, <2>1, <2>2 DEF RotationAnswers
<1>5. CASE named = None /\ reason # "ratelimit" /\ answer \in RenewalAnswers(current, avoid)
  <2>1. CASE current \in Account \ (cooling \cup avoid)
    BY <1>5, <2>1 DEF RenewalAnswers, Served
  <2>2. CASE current \notin Account \ (cooling \cup avoid)
    BY <1>3, <1>5, <2>2 DEF RenewalAnswers
  <2> QED
    BY <2>1, <2>2
<1> QED
  BY <1>1, <1>2, <1>4, <1>5 DEF LeaseAnswers

\* A job ends with a lease or without.
LEMMA JobEnds ==
  ASSUME QueueSound, queue # <<>>, UNCHANGED walled,
         NEW ok \in BOOLEAN, NEW l, ok => Tok(l) \in Token,
         ok /\ Head(queue).kind = "ensure" => Tok(l) \notin deadAccess,
         Reply([ok |-> ok, lease |-> l])
  PROVE  /\ QueueSound' /\ CallSound' /\ SendsAlive
         /\ at' = "queued" /\ asked' = None /\ shunned' = None
<1>1. at' = "queued" /\ asked' = None /\ shunned' = None
  BY DEF Reply
<1>2. SendsAlive
  <2> SUFFICES ASSUME NEW r \in Request, req[r].pc = "asking", req'[r].pc = "sent"
               PROVE  req'[r].tok \notin deadAccess
    BY DEF SendsAlive
  <2>1. r = Head(queue).by /\ req'[r] = Onwards(req[r], [ok |-> ok, lease |-> l])
    BY DEF Reply
  <2>2. req[r] \in RequestState
    BY DEF QueueSound, QueueTypes
  <2>3. ok /\ req'[r].tok = Tok(l)
    BY <2>1, <2>2, OnwardsFacts
  <2>4. Head(queue).kind = "ensure"
    BY <2>1, QueueFacts DEF QueueSound, AllFit, Fits, JobFor
  <2> QED
    BY <2>3, <2>4
<1> QED
  BY <1>1, <1>2, ReplyKeeps DEF CallSound

LEMMA JobEndsAsHeld ==
  ASSUME LeaseTypes, QueueSound, queue # <<>>, UNCHANGED walled,
         Reply(IF Usable(held) THEN Got(held) ELSE Failed)
  PROVE  /\ QueueSound' /\ CallSound' /\ SendsAlive
         /\ at' = "queued" /\ asked' = None /\ shunned' = None
<1>1. CASE Usable(held)
  <2>1. Reply([ok |-> TRUE, lease |-> held])
    BY <1>1 DEF Got
  <2> QED
    BY <1>1, <2>1, HeldFacts, JobEnds
<1>2. CASE ~Usable(held)
  <2>1. Reply([ok |-> FALSE, lease |-> NoLease])
    BY <1>2 DEF Failed
  <2> QED
    BY <2>1, JobEnds
<1> QED
  BY <1>1, <1>2

LEMMA JobFails ==
  ASSUME QueueSound, queue # <<>>, UNCHANGED walled, Reply(Failed)
  PROVE  /\ QueueSound' /\ CallSound' /\ SendsAlive
         /\ at' = "queued" /\ asked' = None /\ shunned' = None
<1>1. Reply([ok |-> FALSE, lease |-> NoLease])
  BY DEF Failed
<1> QED
  BY <1>1, JobEnds

LEMMA CallStarts ==
  ASSUME QueueSound, queue # <<>>, UNCHANGED <<walled, held>>, StartCall,
         Head(queue).kind # "name",
         Head(queue).kind = "quota" => held = NoLease \/ held.acct = Head(queue).what
  PROVE  /\ QueueSound' /\ CallSound' /\ SendsAlive
         /\ at' = "calling" /\ asked' = pin /\ shunned' = None
<1>1. at' = "calling" /\ asked' = pin /\ shunned' = None /\ UNCHANGED <<queue, req, op>>
  BY DEF StartCall
<1>2. QueueSound'
  BY <1>1, CallKeeps
<1>3. CallSound'
  BY <1>1 DEF CallSound
<1> QED
  BY <1>1, <1>2, <1>3 DEF SendsAlive

-----------------------------------------------------------------------------
(* The jobs up to their first await.                                       *)

LEMMA RunningFacts ==
  ASSUME QueueSound, NEW kind, Running(kind)
  PROVE  /\ queue # <<>> /\ at = "queued" /\ Head(queue).kind = kind /\ Head(queue) \in Job
         /\ kind \in {"quota", "name"} => Head(queue).what \in Account
         /\ kind = "unauthorized" => Head(queue).what \in Token
  BY QueueFacts, JobFacts DEF QueueSound, Running

LEMMA Undisturbed ==
  ASSUME LeaseTypes, UNCHANGED <<world, held, deadAccess, switchHold, backoff, reported, pin, trouble>>,
         at' \in {"queued", "report", "naming", "calling", "excluding"},
         {asked', shunned'} \subseteq Account \cup {None}
  PROVE  LeaseTypes' /\ Reports /\ HeldMoves
  BY DEF LeaseTypes, WorldTypeOK, world, Reports, HeldMoves

LEMMA EnsureKeeps ==
  ASSUME RelayIInv, BeginEnsure, UNCHANGED trouble
  PROVE  RelayIInv' /\ Promised
<1>1. /\ LeaseTypes /\ QueueSound /\ queue # <<>> /\ Head(queue).kind = "ensure"
      /\ UNCHANGED <<world, held, deadAccess, switchHold, backoff, reported, pin, trouble>>
      /\ UNCHANGED walled /\ pin \in Account \cup {None}
  BY RunningFacts DEF RelayIInv, BeginEnsure, lease, world, LeaseTypes
<1>2. /\ QueueSound' /\ CallSound' /\ SendsAlive
      /\ at' \in {"queued", "calling"} /\ asked' \in Account \cup {None} /\ shunned' = None
  <2>1. CASE Usable(held) /\ held.age = "young"
    <3>1. Reply([ok |-> TRUE, lease |-> held])
      BY <2>1 DEF BeginEnsure, Got
    <3> QED
      BY <1>1, <2>1, <3>1, HeldFacts, JobEnds
  <2>2. CASE ~(Usable(held) /\ held.age = "young") /\ backoff
    <3>1. Reply(IF Usable(held) THEN Got(held) ELSE Failed)
      BY <2>2 DEF BeginEnsure, Renew
    <3> QED
      BY <1>1, <3>1, JobEndsAsHeld
  <2>3. CASE ~(Usable(held) /\ held.age = "young") /\ ~backoff
    <3>1. StartCall
      BY <2>3 DEF BeginEnsure, Renew
    <3> QED
      BY <1>1, <3>1, CallStarts
  <2> QED
    BY <1>1, <2>1, <2>2, <2>3 DEF LeaseTypes
<1> QED
  BY <1>1, <1>2, Undisturbed DEF RelayIInv, Promised

LEMMA NameKeeps ==
  ASSUME RelayIInv, BeginName, UNCHANGED trouble
  PROVE  RelayIInv' /\ Promised
<1>1. /\ LeaseTypes /\ QueueSound /\ queue # <<>> /\ Head(queue).kind = "name"
      /\ Head(queue).what \in Account /\ shunned \in Account \cup {None}
      /\ UNCHANGED <<world, held, deadAccess, switchHold, backoff, reported, pin, trouble>>
      /\ UNCHANGED walled
  BY RunningFacts DEF RelayIInv, BeginName, lease, world, LeaseTypes
<1>2. /\ QueueSound' /\ CallSound' /\ SendsAlive
      /\ at' \in {"queued", "naming"} /\ {asked', shunned'} \subseteq Account \cup {None}
  <2>1. CASE held.acct = Head(queue).what /\ Usable(held) /\ held.age = "young"
    <3>1. Reply([ok |-> TRUE, lease |-> held])
      BY <2>1 DEF BeginName, Got
    <3> QED
      BY <1>1, <2>1, <3>1, HeldFacts, JobEnds
  <2>2. CASE ~(held.acct = Head(queue).what /\ Usable(held) /\ held.age = "young")
    <3>1. at' = "naming" /\ asked' = Head(queue).what /\ UNCHANGED <<queue, shunned, req, op>>
      BY <2>2 DEF BeginName
    <3>2. QueueSound' /\ SendsAlive
      BY <1>1, <3>1, CallKeeps DEF SendsAlive
    <3>3. CallSound'
      BY <1>1, <3>1 DEF CallSound
    <3> QED
      BY <1>1, <3>1, <3>2, <3>3
  <2> QED
    BY <2>1, <2>2
<1> QED
  BY <1>1, <1>2, Undisturbed DEF RelayIInv, Promised

\* After the report, or without one.
LEMMA AfterReportKeeps ==
  ASSUME LeaseTypes, QueueSound, queue # <<>>, UNCHANGED <<walled, held>>, AfterReport,
         Head(queue).kind = "quota"
  PROVE  /\ QueueSound' /\ CallSound' /\ SendsAlive
         /\ at' \in {"queued", "calling"} /\ asked' \in {None, pin} /\ shunned' = None
<1>1. CASE Moved(Head(queue).what)
  <2>1. Reply([ok |-> TRUE, lease |-> held]) /\ held # NoLease
    BY <1>1 DEF AfterReport, Got, Moved
  <2> QED
    BY <2>1, HeldFacts, JobEnds
<1>2. CASE ~Moved(Head(queue).what)
  <2>1. StartCall /\ (held = NoLease \/ held.acct = Head(queue).what)
    BY <1>2 DEF AfterReport, Moved
  <2> QED
    BY <2>1, CallStarts
<1> QED
  BY <1>1, <1>2

LEMMA QuotaKeeps ==
  ASSUME RelayIInv, BeginQuota, UNCHANGED trouble
  PROVE  RelayIInv' /\ Promised
<1>1. /\ LeaseTypes /\ QueueSound /\ queue # <<>> /\ Head(queue).kind = "quota"
      /\ Head(queue).what \in Account /\ {asked, shunned, pin} \subseteq Account \cup {None}
      /\ UNCHANGED <<world, held, deadAccess, switchHold, backoff, pin, trouble>>
      /\ UNCHANGED <<walled, cooling>>
  BY RunningFacts DEF RelayIInv, BeginQuota, world, LeaseTypes
<1>2. /\ QueueSound' /\ CallSound' /\ SendsAlive
      /\ at' \in {"queued", "calling", "report"} /\ {asked', shunned'} \subseteq Account \cup {None}
      /\ reported' \in {reported, reported \cup {Culprit}}
  <2>1. CASE Reply(Failed) /\ UNCHANGED reported
    BY <1>1, <2>1, JobFails
  <2>2. CASE AfterReport /\ UNCHANGED reported
    BY <1>1, <2>2, AfterReportKeeps
  <2>3. CASE /\ reported' = reported \cup {Culprit}
             /\ at' = "report" /\ UNCHANGED <<queue, asked, shunned, req, op>>
    <3>1. QueueSound' /\ SendsAlive
      BY <1>1, <2>3, CallKeeps DEF SendsAlive
    <3>2. CallSound'
      BY <1>1, <2>3 DEF CallSound
    <3> QED
      BY <1>1, <2>3, <3>1, <3>2
  <2> QED
    BY <2>1, <2>2, <2>3 DEF BeginQuota
<1>3. LeaseTypes'
  BY <1>1, <1>2 DEF LeaseTypes, WorldTypeOK, world, Culprit
<1> QED
  BY <1>1, <1>2, <1>3 DEF RelayIInv, Promised, Reports, HeldMoves

\* Whoever is reported has run out, and nobody has taken it back since.
LEMMA HeadRanOut ==
  ASSUME QueueSound, queue # <<>>, Head(queue).kind = "quota"
  PROVE  Head(queue).what \in Account \cap walled
<1>1. Head(queue) = queue[1] /\ 1 \in 1 .. Len(queue) /\ Head(queue) \in Job
  BY QueueFacts DEF QueueSound
<1>2. Head(queue).by \in Request /\ Head(queue).what \in Account
  BY <1>1, JobFacts
<1>3. Fits(Head(queue), req[Head(queue).by])
  BY <1>1, <1>2 DEF QueueSound, AllFit
<1>4. req[Head(queue).by].pc = "walled"
  BY <1>3 DEF Fits, JobFor
<1> QED
  BY <1>2, <1>3, <1>4 DEF Fits, About, QueueSound, Tried

LEMMA ReportKeeps ==
  ASSUME RelayIInv, ReportQuota, UNCHANGED trouble
  PROVE  RelayIInv' /\ Promised
<1>1. /\ LeaseTypes /\ QueueSound /\ queue # <<>> /\ Head(queue).kind = "quota"
      /\ UNCHANGED <<minted, revoked, walled, held, deadAccess, switchHold, backoff, reported, pin, trouble>>
      /\ pin \in Account \cup {None} /\ AfterReport
  BY DEF RelayIInv, ReportQuota, CallSound, lease, LeaseTypes
<1>2. Culprit \in Account \cap walled
  BY <1>1, HeadRanOut DEF Culprit
<1>3. cooling' \in {cooling, cooling \cup {Culprit}}
  BY DEF ReportQuota, ReportLands
<1>4. /\ QueueSound' /\ CallSound' /\ SendsAlive
      /\ at' \in {"queued", "calling"} /\ asked' \in {None, pin} /\ shunned' = None
  BY <1>1, AfterReportKeeps
<1>5. LeaseTypes'
  BY <1>1, <1>2, <1>3, <1>4 DEF LeaseTypes, WorldTypeOK
<1> QED
  BY <1>1, <1>2, <1>3, <1>4, <1>5 DEF RelayIInv, Promised, Reports, HeldMoves

LEMMA UnauthorizedKeeps ==
  ASSUME RelayIInv, BeginUnauthorized, UNCHANGED trouble
  PROVE  RelayIInv' /\ Promised
<1>1. /\ LeaseTypes /\ QueueSound /\ queue # <<>> /\ Head(queue).kind = "unauthorized"
      /\ Head(queue).what \in Token /\ pin \in Account \cup {None}
      /\ UNCHANGED <<world, held, switchHold, backoff, reported, pin, trouble>>
      /\ UNCHANGED <<walled, cooling>>
  BY RunningFacts DEF RelayIInv, BeginUnauthorized, world, LeaseTypes
<1>2. /\ QueueSound' /\ CallSound' /\ SendsAlive
      /\ at' \in {"queued", "calling"} /\ asked' \in {None, pin} /\ shunned' = None
      /\ deadAccess' \in {deadAccess, deadAccess \cup {Head(queue).what}}
  <2>1. CASE held # NoLease /\ Reply(Got(held)) /\ UNCHANGED deadAccess
    <3>1. Reply([ok |-> TRUE, lease |-> held])
      BY <2>1 DEF Got
    <3> QED
      BY <1>1, <2>1, <3>1, HeldFacts, JobEnds
  <2>2. CASE deadAccess' = deadAccess \cup {Head(queue).what} /\ Reply(Failed)
    BY <1>1, <2>2, JobFails
  <2>3. CASE deadAccess' = deadAccess \cup {Head(queue).what} /\ StartCall
    BY <1>1, <2>3, CallStarts
  <2> QED
    BY <2>1, <2>2, <2>3 DEF BeginUnauthorized
<1>3. LeaseTypes'
  BY <1>1, <1>2 DEF LeaseTypes, WorldTypeOK, world
<1> QED
  BY <1>1, <1>2, <1>3 DEF RelayIInv, Promised, Reports, HeldMoves

-----------------------------------------------------------------------------
(* The answers of the master.                                              *)

\* A lease that is adopted belongs to the account the machine is on, unless
\* there was a reason to leave that.
LEMMA AdoptKeeps ==
  ASSUME RelayIInv, at \in {"calling", "excluding"}, UNCHANGED <<world, deadAccess, reported, pin, trouble>>,
         NEW answer, answer.acct \in Account, ~SeenDead(Leased(answer)), Adopt(Leased(answer)),
         held # NoLease /\ answer.acct # held.acct =>
           \/ held.acct \in walled \cup cooling
           \/ \E t \in deadAccess : t[1] = held.acct
           \/ asked = answer.acct
  PROVE  RelayIInv' /\ Promised
<1> DEFINE l == Leased(answer)
<1>1. /\ LeaseTypes /\ QueueSound /\ queue # <<>> /\ UNCHANGED <<walled, cooling>>
      /\ switchHold \in Account \cup {None} /\ backoff \in BOOLEAN
  BY DEF RelayIInv, CallSound, world, LeaseTypes
<1>2. l \in HeldLease /\ l.acct = answer.acct /\ Tok(l) \in Token /\ Tok(l) \notin deadAccess
  BY <1>1, LeasedFacts DEF LeaseTypes, SeenDead
<1>3. /\ held' = l /\ Reply([ok |-> TRUE, lease |-> l])
      /\ switchHold' \in {switchHold, l.acct, None} /\ backoff' \in BOOLEAN
  BY <1>1 DEF Adopt, Got
<1> HIDE DEF l
<1>4. /\ QueueSound' /\ CallSound' /\ SendsAlive
      /\ at' = "queued" /\ asked' = None /\ shunned' = None
  BY <1>1, <1>2, <1>3, JobEnds
<1>5. LeaseTypes'
  BY <1>1, <1>2, <1>3, <1>4 DEF LeaseTypes, WorldTypeOK, world
<1> QED
  BY <1>1, <1>2, <1>3, <1>4, <1>5 DEF RelayIInv, Promised, Reports, HeldMoves

LEMMA GiveUpKeeps ==
  ASSUME RelayIInv, at \in {"calling", "excluding"}, UNCHANGED <<world, deadAccess, reported, pin, trouble>>,
         GiveUp
  PROVE  RelayIInv' /\ Promised
<1>1. /\ LeaseTypes /\ QueueSound /\ queue # <<>> /\ UNCHANGED <<walled, cooling>>
      /\ switchHold \in Account \cup {None} /\ backoff \in BOOLEAN
  BY DEF RelayIInv, CallSound, world, LeaseTypes
<1>2. UNCHANGED held
  BY DEF GiveUp
<1>3. CASE IsQuota
  <2>1. switchHold' = Head(queue).what /\ Reply(Failed) /\ UNCHANGED backoff
    BY <1>3 DEF GiveUp
  <2>2. Head(queue).what \in Account
    BY <1>1, <1>3, HeadRanOut DEF IsQuota
  <2>3. /\ QueueSound' /\ CallSound' /\ SendsAlive
        /\ at' = "queued" /\ asked' = None /\ shunned' = None
    BY <1>1, <2>1, JobFails
  <2>4. LeaseTypes'
    BY <1>1, <1>2, <2>1, <2>2, <2>3 DEF LeaseTypes, WorldTypeOK, world
  <2> QED
    BY <1>1, <1>2, <2>3, <2>4 DEF RelayIInv, Promised, Reports, HeldMoves
<1>4. CASE ~IsQuota
  <2>1. backoff' = TRUE /\ Reply(IF Usable(held) THEN Got(held) ELSE Failed) /\ UNCHANGED switchHold
    BY <1>4 DEF GiveUp
  <2>2. /\ QueueSound' /\ CallSound' /\ SendsAlive
        /\ at' = "queued" /\ asked' = None /\ shunned' = None
    BY <1>1, <2>1, JobEndsAsHeld
  <2>3. LeaseTypes'
    BY <1>1, <1>2, <2>1, <2>2 DEF LeaseTypes, WorldTypeOK, world
  <2> QED
    BY <1>1, <1>2, <2>2, <2>3 DEF RelayIInv, Promised, Reports, HeldMoves
<1> QED
  BY <1>3, <1>4

LEMMA AnswersKeep ==
  ASSUME RelayIInv, MasterAnswers, UNCHANGED trouble
  PROVE  RelayIInv' /\ Promised
<1>1. PICK answer \in LeaseAnswers(Reason, held.acct, asked, {}) :
        \/ /\ answer.kind = "refused" /\ DropPin /\ asked' = None
           /\ UNCHANGED <<lease, queue, at, shunned, req, op>>
        \/ /\ answer.kind = "lease" /\ SeenDead(Leased(answer))
           /\ at' = "excluding" /\ asked' = None /\ shunned' = answer.acct
           /\ UNCHANGED <<lease, pin, queue, req, op>>
        \/ /\ answer.kind = "lease" /\ ~SeenDead(Leased(answer))
           /\ Adopt(Leased(answer)) /\ UNCHANGED <<deadAccess, reported, pin>>
        \/ GiveUp /\ UNCHANGED <<deadAccess, reported, pin>>
  BY DEF MasterAnswers
<1>2. /\ LeaseTypes /\ QueueSound /\ CallSound /\ queue # <<>> /\ at = "calling"
      /\ UNCHANGED world /\ UNCHANGED <<walled, cooling>>
      /\ {asked, pin, shunned} \subseteq Account \cup {None} /\ Head(queue).kind # "name"
      /\ IsQuota => held = NoLease \/ held.acct = Head(queue).what
  BY DEF RelayIInv, MasterAnswers, CallSound, world, LeaseTypes, IsQuota
<1>3. CASE /\ answer.kind = "refused" /\ DropPin /\ asked' = None
           /\ UNCHANGED <<lease, queue, at, shunned, req, op>>
  <2>1. /\ pin' \in Account \cup {None} /\ at' = "calling" /\ asked' = None
        /\ UNCHANGED <<held, deadAccess, switchHold, backoff, reported, queue, shunned, req, op>>
    BY <1>2, <1>3 DEF DropPin, lease
  <2>2. LeaseTypes'
    BY <1>2, <2>1 DEF LeaseTypes, WorldTypeOK, world
  <2>3. CallSound'
    BY <1>2, <2>1 DEF CallSound, IsQuota
  <2> QED
    BY <1>2, <2>1, <2>2, <2>3, CallKeeps
       DEF RelayIInv, Promised, Reports, HeldMoves, SendsAlive
<1>4. CASE answer.kind = "lease"
  <2>1. /\ answer.acct \in Account
        /\ asked # None => answer.acct = asked
        /\ asked = None /\ ~IsQuota /\ held.acct \in Account \ cooling => answer.acct = held.acct
    BY <1>2, <1>4, AnswerFacts DEF Reason
  <2>2. CASE /\ SeenDead(Leased(answer))
             /\ at' = "excluding" /\ asked' = None /\ shunned' = answer.acct
             /\ UNCHANGED <<lease, pin, queue, req, op>>
    <3>1. UNCHANGED <<held, deadAccess, switchHold, backoff, reported, pin, queue, req, op>>
      BY <2>2 DEF lease
    <3>2. \E t \in deadAccess : t[1] = shunned'
      BY <1>2, <2>1, <2>2, LeasedFacts DEF SeenDead, LeaseTypes
    <3>3. LeaseTypes' /\ Reports /\ HeldMoves
      BY <1>2, <2>1, <2>2, <3>1, Undisturbed
    <3>4. CallSound'
      BY <1>2, <2>2, <3>1, <3>2 DEF CallSound, IsQuota
    <3> QED
      BY <1>2, <3>1, <3>3, <3>4, CallKeeps DEF RelayIInv, Promised, SendsAlive
  <2>3. CASE ~SeenDead(Leased(answer)) /\ Adopt(Leased(answer)) /\ UNCHANGED <<deadAccess, reported, pin>>
    <3>1. held # NoLease => held.acct \in Account /\ (IsQuota => held.acct \in walled)
      BY <1>2, HeldFacts, HeadRanOut DEF IsQuota
    <3>2. held # NoLease /\ answer.acct # held.acct => held.acct \in walled \cup cooling \/ asked = answer.acct
      BY <1>2, <2>1, <3>1
    <3> QED
      BY <1>2, <2>1, <2>3, <3>2, AdoptKeeps
  <2>4. CASE GiveUp /\ UNCHANGED <<deadAccess, reported, pin>>
    BY <1>2, <2>4, GiveUpKeeps
  <2> QED
    BY <1>1, <1>4, <2>2, <2>3, <2>4
<1>5. CASE GiveUp /\ UNCHANGED <<deadAccess, reported, pin>>
  BY <1>2, <1>5, GiveUpKeeps
<1> QED
  BY <1>1, <1>3, <1>4, <1>5

LEMMA ExcludingKeeps ==
  ASSUME RelayIInv, MasterAnswersExcluding, UNCHANGED trouble
  PROVE  RelayIInv' /\ Promised
<1>1. PICK answer \in LeaseAnswers(Reason, held.acct, None, {shunned}) :
        IF answer.kind = "lease" /\ ~SeenDead(Leased(answer)) THEN Adopt(Leased(answer)) ELSE GiveUp
  BY DEF MasterAnswersExcluding
<1>2. /\ LeaseTypes /\ QueueSound /\ CallSound /\ queue # <<>> /\ at = "excluding"
      /\ UNCHANGED <<world, deadAccess, reported, pin>>
      /\ IsQuota => held = NoLease \/ held.acct = Head(queue).what
      /\ \E t \in deadAccess : t[1] = shunned
  BY DEF RelayIInv, MasterAnswersExcluding, CallSound, IsQuota
<1>3. CASE answer.kind = "lease" /\ ~SeenDead(Leased(answer)) /\ Adopt(Leased(answer))
  <2>1. /\ answer.acct \in Account
        /\ ~IsQuota /\ held.acct \in Account \ (cooling \cup {shunned}) => answer.acct = held.acct
    BY <1>3, AnswerFacts DEF Reason
  <2>2. held # NoLease => held.acct \in Account /\ (IsQuota => held.acct \in walled)
    BY <1>2, HeldFacts, HeadRanOut DEF IsQuota
  <2>3. held # NoLease /\ answer.acct # held.acct =>
          held.acct \in walled \cup cooling \/ \E t \in deadAccess : t[1] = held.acct
    BY <1>2, <2>1, <2>2
  <2> QED
    BY <1>2, <1>3, <2>1, <2>3, AdoptKeeps
<1>4. CASE GiveUp
  BY <1>2, <1>4, GiveUpKeeps
<1> QED
  BY <1>1, <1>3, <1>4

LEMMA NamedKeeps ==
  ASSUME RelayIInv, MasterAnswersNamed, UNCHANGED trouble
  PROVE  RelayIInv' /\ Promised
<1>1. PICK answer \in LeaseAnswers("prelease", held.acct, asked, {}) :
        /\ IF answer.kind = "refused" THEN DropPin ELSE UNCHANGED pin
        /\ IF answer.kind = "lease" /\ ~SeenDead(Leased(answer))
           THEN held' = Leased(answer) /\ Reply(Got(Leased(answer)))
           ELSE UNCHANGED held /\ Reply(Failed)
  BY DEF MasterAnswersNamed
<1>2. /\ LeaseTypes /\ QueueSound /\ queue # <<>> /\ Head(queue).kind = "name" /\ asked = Head(queue).what
      /\ UNCHANGED <<world, deadAccess, switchHold, backoff, reported, trouble>>
      /\ UNCHANGED <<walled, cooling>> /\ pin \in Account \cup {None}
  BY DEF RelayIInv, MasterAnswersNamed, CallSound, world, LeaseTypes
<1>3. asked \in Account /\ asked # None
  BY <1>2, QueueFacts, JobFacts DEF QueueSound
<1>4. pin' \in Account \cup {None}
  BY <1>1, <1>2 DEF DropPin
<1>5. CASE /\ answer.kind = "lease" /\ ~SeenDead(Leased(answer))
           /\ held' = Leased(answer) /\ Reply(Got(Leased(answer)))
  <2> DEFINE l == Leased(answer)
  <2>1. answer.acct = asked
    BY <1>3, <1>5, AnswerFacts
  <2>2. l \in HeldLease /\ l.acct = asked /\ Tok(l) \in Token
    BY <1>2, <1>3, <2>1, LeasedFacts DEF LeaseTypes
  <2>3. Reply([ok |-> TRUE, lease |-> l]) /\ held' = l
    BY <1>5 DEF Got
  <2> HIDE DEF l
  <2>4. /\ QueueSound' /\ CallSound' /\ SendsAlive
        /\ at' = "queued" /\ asked' = None /\ shunned' = None
    BY <1>2, <2>2, <2>3, JobEnds
  <2>5. LeaseTypes'
    BY <1>2, <1>4, <2>2, <2>3, <2>4 DEF LeaseTypes, WorldTypeOK, world
  <2> QED
    BY <1>2, <2>2, <2>3, <2>4, <2>5 DEF RelayIInv, Promised, Reports, HeldMoves
<1>6. CASE UNCHANGED held /\ Reply(Failed)
  <2>1. /\ QueueSound' /\ CallSound' /\ SendsAlive
        /\ at' = "queued" /\ asked' = None /\ shunned' = None
    BY <1>2, <1>6, JobFails
  <2>2. LeaseTypes'
    BY <1>2, <1>4, <1>6, <2>1 DEF LeaseTypes, WorldTypeOK, world
  <2> QED
    BY <1>2, <1>6, <2>1, <2>2 DEF RelayIInv, Promised, Reports, HeldMoves
<1> QED
  BY <1>1, <1>5, <1>6

LEMMA WorkKeeps ==
  ASSUME RelayIInv, Work, UNCHANGED trouble
  PROVE  RelayIInv' /\ Promised
  BY EnsureKeeps, NameKeeps, QuotaKeeps, UnauthorizedKeeps, ReportKeeps,
     AnswersKeep,
     ExcludingKeeps, NamedKeeps DEF Work

-----------------------------------------------------------------------------
(* Requests, the operator, time.                                           *)

\* Who joins the queue changes neither its head nor the call under way.
LEMMA JoiningKeepsCall ==
  ASSUME LeaseTypes, QueueSound, CallSound, NEW kind, NEW by, NEW what, Enqueue(kind, by, what),
         UNCHANGED <<at, asked, shunned, held, deadAccess>>
  PROVE  CallSound'
<1>1. queue \in Seq(Job)
  BY DEF QueueSound, QueueTypes
<1>2. queue # <<>> => queue' # <<>> /\ Head(queue') = Head(queue)
  BY <1>1 DEF Enqueue
<1> QED
  BY <1>2 DEF CallSound

LEMMA RequestsKeep ==
  ASSUME RelayIInv, NEW r \in Request, Forward(r) \/ Verdict(r) \/ Passed(r), UNCHANGED trouble
  PROVE  RelayIInv' /\ Promised
<1>1. /\ LeaseTypes /\ QueueSound /\ CallSound /\ Tried /\ req \in [Request -> RequestState]
      /\ UNCHANGED <<world, held, deadAccess, switchHold, backoff, reported, pin, at, asked, shunned, op>>
      /\ UNCHANGED <<walled, cooling>>
  BY DEF RelayIInv, QueueSound, QueueTypes, Forward, Verdict, Passed, lease, task,
     world
<1>2. LeaseTypes' /\ Reports /\ HeldMoves
  BY <1>1, Undisturbed DEF LeaseTypes
<1>3. CASE Forward(r)
  <2> DEFINE q == [req[r] EXCEPT !.pc = "asking"]
  <2>1. q \in RequestState /\ q.pc = "asking" /\ req' = [req EXCEPT ![r] = q] /\ ~Waits(r)
    BY <1>1, <1>3 DEF Forward, RequestState, Waits
  <2>2. Enqueue("ensure", r, None) /\ [kind |-> "ensure", by |-> r, what |-> None] \in Job
    BY <1>3 DEF Forward, Job, JobsOf
  <2> HIDE DEF q
  <2>3. QueueSound'
    BY <1>1, <2>1, <2>2, RequestJoins DEF JobFor, About
  <2>4. SendsAlive
    BY <1>1, <2>1 DEF SendsAlive
  <2> QED
    BY <1>1, <1>2, <2>2, <2>3, <2>4, JoiningKeepsCall DEF RelayIInv, Promised
<1>4. CASE Passed(r)
  <2>1. UNCHANGED queue /\ ~Waits(r) /\ req' = [req EXCEPT ![r] = IdleReq]
    BY <1>4 DEF Passed, task, Waits
  <2>2. QueueSound' /\ CallSound'
    BY <1>1, <2>1, RequestLeaves DEF CallSound
  <2>3. SendsAlive
    BY <1>1, <2>1 DEF SendsAlive, IdleReq
  <2> QED
    BY <1>2, <2>2, <2>3 DEF RelayIInv, Promised
<1>5. CASE Verdict(r)
  <2>1. req[r].pc = "sent" /\ ~Waits(r) /\ req[r].tok \in Token /\ req[r].tok[1] \in Account
    BY <1>1, <1>5 DEF Verdict, Waits, Tried, Token
  <2>2. SendsAlive
    BY <1>1, <1>5, <2>1 DEF Verdict, SendsAlive, IdleReq
  <2>3. CASE req' = [req EXCEPT ![r] = IdleReq] /\ UNCHANGED queue
    <3>1. QueueSound' /\ CallSound'
      BY <1>1, <2>1, <2>3, RequestLeaves DEF CallSound
    <3> QED
      BY <1>2, <2>2, <3>1 DEF RelayIInv, Promised
  <2>4. CASE req' = [req EXCEPT ![r].pc = "denied"] /\ Enqueue("unauthorized", r, req[r].tok)
    <3> DEFINE q == [req[r] EXCEPT !.pc = "denied"]
    <3>1. q \in RequestState /\ q.pc = "denied" /\ q.tok = req[r].tok /\ req' = [req EXCEPT ![r] = q]
      BY <1>1, <2>4 DEF RequestState
    <3>2. [kind |-> "unauthorized", by |-> r, what |-> req[r].tok] \in Job
      BY <2>1 DEF Job, JobsOf
    <3> HIDE DEF q
    <3>3. QueueSound'
      BY <1>1, <2>1, <2>4, <3>1, <3>2, RequestJoins DEF JobFor, About
    <3> QED
      BY <1>1, <1>2, <2>2, <2>4, <3>3, JoiningKeepsCall DEF RelayIInv, Promised
  <2>5. CASE /\ req[r].tok[1] \in walled
             /\ req' = [req EXCEPT ![r].pc = "walled"] /\ Enqueue("quota", r, req[r].tok[1])
    <3> DEFINE q == [req[r] EXCEPT !.pc = "walled"]
    <3>1. q \in RequestState /\ q.pc = "walled" /\ q.tok = req[r].tok /\ req' = [req EXCEPT ![r] = q]
      BY <1>1, <2>5 DEF RequestState
    <3>2. [kind |-> "quota", by |-> r, what |-> req[r].tok[1]] \in Job
      BY <2>1 DEF Job, JobsOf
    <3> HIDE DEF q
    <3>3. QueueSound'
      BY <1>1, <2>1, <2>5, <3>1, <3>2, RequestJoins DEF JobFor, About
    <3> QED
      BY <1>1, <1>2, <2>2, <2>5, <3>3, JoiningKeepsCall DEF RelayIInv, Promised
  <2> QED
    BY <1>5, <2>3, <2>4, <2>5 DEF Verdict
<1> QED
  BY <1>3, <1>4, <1>5

LEMMA CommandsKeep ==
  ASSUME RelayIInv, NEW o \in Operator,
         \/ (NameAccount(o) \/ CommandEnds(o)) /\ UNCHANGED trouble
         \/ \E a \in Account, pinned \in BOOLEAN : Command(o, a, pinned)
  PROVE  RelayIInv' /\ Promised
<1>1. /\ LeaseTypes /\ QueueSound /\ CallSound /\ Tried /\ op \in [Operator -> CommandState]
      /\ UNCHANGED <<world, held, deadAccess, switchHold, backoff, reported, at, asked, shunned, req>>
      /\ UNCHANGED <<walled, cooling>>
      /\ pin \in Account \cup {None} /\ trouble \in Nat
  BY DEF RelayIInv, QueueSound, QueueTypes, LeaseTypes, NameAccount, CommandEnds,
     Command, lease, task, world
<1>2. Promised
  BY <1>1 DEF Promised, Reports, HeldMoves, SendsAlive
<1>3. op[o] \in CommandState /\ op[o].prefix \in Account \cup {None} /\ op[o].prev \in Account \cup {None}
  BY <1>1 DEF CommandState
<1>4. CASE NameAccount(o) /\ UNCHANGED trouble
  <2>1. /\ op[o].pc = "pinning" /\ op' = [op EXCEPT ![o].pc = "naming"]
        /\ Enqueue("name", o, op[o].prefix) /\ pin' \in {op[o].prefix, pin}
    BY <1>4 DEF NameAccount
  <2>2. LeaseTypes'
    BY <1>1, <1>3, <1>4, <2>1 DEF LeaseTypes, WorldTypeOK, world
  <2> QED
    BY <1>1, <1>2, <2>1, <2>2, CommandJoins, JoiningKeepsCall DEF RelayIInv
<1>5. CASE CommandEnds(o) /\ UNCHANGED trouble
  <2>1. op' = [op EXCEPT ![o] = IdleOp] /\ pin' \in {op[o].prev, pin, None} /\ UNCHANGED queue
    BY <1>5 DEF CommandEnds, task
  <2>2. IdleOp \in CommandState /\ IdleOp.pc = "idle"
    BY DEF IdleOp, CommandState
  <2>3. LeaseTypes'
    BY <1>1, <1>3, <1>5, <2>1 DEF LeaseTypes, WorldTypeOK, world
  <2>4. QueueSound' /\ CallSound'
    BY <1>1, <2>1, <2>2, CommandMoves DEF CallSound
  <2> QED
    BY <1>2, <2>3, <2>4 DEF RelayIInv
<1>6. ASSUME NEW a \in Account, NEW pinned \in BOOLEAN, Command(o, a, pinned)
      PROVE  RelayIInv'
  <2> DEFINE c == [pc |-> "pinning", prefix |-> a, pinned |-> pinned, prev |-> pin]
  <2>1. c \in CommandState /\ c.prefix \in Account
    BY <1>1 DEF CommandState
  <2>2. op' = [op EXCEPT ![o] = c] /\ UNCHANGED <<queue, pin>> /\ trouble' \in 0 .. MaxTrouble
    BY <1>1, <1>6 DEF Command, Disturb, task
  <2> HIDE DEF c
  <2>3. LeaseTypes'
    BY <1>1, <2>2 DEF LeaseTypes, WorldTypeOK, world
  <2>4. QueueSound' /\ CallSound'
    BY <1>1, <2>1, <2>2, CommandMoves DEF CallSound
  <2> QED
    BY <2>3, <2>4 DEF RelayIInv
<1> QED
  BY <1>2, <1>4, <1>5, <1>6

LEMMA TimeKeeps ==
  ASSUME RelayIInv, Unpin \/ LeaseAges \/ HoldLapses
  PROVE  RelayIInv' /\ Promised
<1>1. /\ LeaseTypes /\ QueueSound /\ CallSound /\ trouble \in Nat
      /\ UNCHANGED <<world, deadAccess, queue, at, asked, shunned, req, op>>
      /\ UNCHANGED <<walled, cooling>>
  BY DEF RelayIInv, LeaseTypes, Unpin, LeaseAges, HoldLapses, lease, task, world
<1>2. trouble' \in 0 .. MaxTrouble
  BY <1>1 DEF Unpin, LeaseAges, HoldLapses, Disturb
<1>3. held' \in HeldLease \cup {NoLease} /\ held'.acct = held.acct /\ (held = NoLease => held' = NoLease)
  <2>1. CASE LeaseAges
    <3>1. held \in HeldLease /\ held # NoLease
      BY <1>1, <2>1 DEF LeaseAges, LeaseTypes
    <3>2. PICK age \in Age : held' = [held EXCEPT !.age = age]
      BY <2>1 DEF LeaseAges, Age
    <3> QED
      BY <3>1, <3>2 DEF HeldLease
  <2>2. CASE Unpin \/ HoldLapses
    BY <1>1, <2>2 DEF LeaseTypes, Unpin, HoldLapses, lease
  <2> QED
    BY <2>1, <2>2
<1>4. /\ switchHold' \in {switchHold, None} /\ pin' \in {pin, None} /\ reported' \subseteq reported
      /\ backoff' \in {backoff, FALSE}
  BY DEF Unpin, LeaseAges, HoldLapses, lease
<1>5. LeaseTypes'
  BY <1>1, <1>2, <1>3, <1>4 DEF LeaseTypes, WorldTypeOK, world
<1>6. QueueSound'
  BY <1>1, CallKeeps
<1>7. CallSound'
  BY <1>1, <1>3 DEF CallSound
<1> QED
  BY <1>1, <1>3, <1>5, <1>6, <1>7
     DEF RelayIInv, Promised, Reports, HeldMoves, SendsAlive

LEMMA WorldKeeps ==
  ASSUME RelayIInv, WorldMoves
  PROVE  RelayIInv' /\ Promised
<1>1. /\ LeaseTypes /\ QueueSound /\ CallSound /\ trouble \in Nat /\ WorldTypeOK
      /\ UNCHANGED <<held, deadAccess, switchHold, backoff, reported, pin, queue, at, asked, shunned, req, op>>
  BY DEF RelayIInv, LeaseTypes, WorldMoves, lease, task
<1>2. trouble' \in 0 .. MaxTrouble
  BY <1>1 DEF WorldMoves, Disturb
<1>3. PICK a \in Account : \/ RotateToken(a) \/ RevokeToken(a) \/ FillQuota(a)
                           \/ Unreported(a) /\ QuotaReturns(a)
  BY DEF WorldMoves
<1>4. WorldTypeOK' /\ cooling' \subseteq cooling
  <2>1. MaxGen \in Nat
    OBVIOUS
  <2> QED
    BY <1>1, <1>3, <2>1
       DEF WorldTypeOK, RotateToken, RevokeToken, FillQuota, QuotaReturns
<1>5. \A r \in Request : req[r].pc = "walled" /\ req[r].tok[1] \in walled => req[r].tok[1] \in walled'
  BY <1>3 DEF RotateToken, RevokeToken, FillQuota, QuotaReturns, Unreported
<1>6. QueueSound'
  BY <1>1, <1>5
     DEF QueueSound, QueueTypes, AllFit, NoneTwice, AllQueued, Waits, Tried
<1>7. LeaseTypes' /\ CallSound'
  BY <1>1, <1>2, <1>4 DEF LeaseTypes, CallSound
<1> QED
  BY <1>1, <1>4, <1>6, <1>7 DEF RelayIInv, Promised, Reports, HeldMoves, SendsAlive

-----------------------------------------------------------------------------
(* The theorems about the relay's lease.                                   *)

LEMMA RelayStepKeeps ==
  RelayIInv /\ [RelayNext]_relayVars => RelayIInv' /\ Promised
<1> SUFFICES ASSUME RelayIInv, [RelayNext]_relayVars PROVE RelayIInv' /\ Promised
  OBVIOUS
<1>1. CASE UNCHANGED relayVars
  <2>1. /\ UNCHANGED <<held, deadAccess, switchHold, backoff, reported, pin, trouble>>
        /\ UNCHANGED <<queue, at, asked, shunned, req, op>> /\ UNCHANGED <<minted, revoked, walled, cooling>>
    BY <1>1 DEF relayVars, world, lease, task
  <2>2. LeaseTypes' /\ CallSound' /\ QueueSound'
    BY <2>1, CallKeeps DEF RelayIInv, LeaseTypes, WorldTypeOK, CallSound
  <2> QED
    BY <2>1, <2>2 DEF RelayIInv, Promised, Reports, HeldMoves, SendsAlive
<1>2. CASE Work /\ UNCHANGED trouble
  BY <1>2, WorkKeeps
<1>3. CASE (\E r \in Request : Forward(r) \/ Verdict(r) \/ Passed(r)) /\ UNCHANGED trouble
  BY <1>3, RequestsKeep
<1>4. CASE \/ (\E o \in Operator : NameAccount(o) \/ CommandEnds(o)) /\ UNCHANGED trouble
           \/ \E o \in Operator, a \in Account, pinned \in BOOLEAN : Command(o, a, pinned)
  BY <1>4, CommandsKeep
<1>5. CASE Unpin \/ LeaseAges \/ HoldLapses \/ WorldMoves
  BY <1>5, TimeKeeps, WorldKeeps
<1> QED
  BY <1>1, <1>2, <1>3, <1>4, <1>5 DEF RelayNext

LEMMA RelayStarts == RelayInit => RelayIInv
<1> SUFFICES ASSUME RelayInit PROVE RelayIInv
  OBVIOUS
<1>1. LeaseTypes
  <2>1. WorldTypeOK
    <3>1. MaxGen \in Nat /\ MaxGen # 0
      OBVIOUS
    <3>2. 1 \in 1 .. MaxGen
      BY <3>1
    <3> QED
      BY <3>2 DEF RelayInit, WorldInit, WorldTypeOK
  <2>2. trouble \in 0 .. MaxTrouble
    BY DEF RelayInit
  <2> QED
    BY <2>1, <2>2 DEF RelayInit, LeaseTypes
<1>2. QueueSound
  <2>1. IdleReq \in RequestState /\ IdleReq.pc = "idle" /\ IdleOp \in CommandState /\ IdleOp.pc = "idle"
    BY DEF IdleReq, RequestState, IdleOp, CommandState
  <2>2. queue = <<>> /\ Len(queue) = 0 /\ queue \in Seq(Job)
    BY DEF RelayInit
  <2>3. QueueTypes
    BY <2>1, <2>2 DEF RelayInit, QueueTypes
  <2>4. AllFit /\ NoneTwice
    BY <2>2 DEF AllFit, NoneTwice
  <2>5. AllQueued /\ Tried
    BY <2>1 DEF RelayInit, AllQueued, Waits, Tried
  <2> QED
    BY <2>3, <2>4, <2>5 DEF QueueSound
<1>3. CallSound
  BY DEF RelayInit, CallSound
<1> QED
  BY <1>1, <1>2, <1>3 DEF RelayIInv

\* The inductive invariant of the relay's queue holds in every state.
THEOREM RelayInvariant == RelaySpec => []RelayIInv
<1> QED
  BY RelayStarts, RelayStepKeeps, PTL DEF RelaySpec

\* Every request that waits has one job, about what it failed with, and no call
\* is under way without a job.
THEOREM RelayQueueSound == RelaySpec => []RelayInv
<1>1. RelayIInv => RelayInv
  <2> SUFFICES ASSUME RelayIInv PROVE RelayInv
    OBVIOUS
  <2>1. LeaseTypes /\ QueueTypes /\ AllFit /\ NoneTwice /\ AllQueued /\ CallSound
    BY DEF RelayIInv, QueueSound
  <2>2. RelayTypeOK
    <3>1. \A r \in Request : /\ req[r].pc \in {"idle", "asking", "sent", "walled", "denied", "resent"}
                             /\ req[r].tok \in Token \cup {NoTok}
      BY <2>1 DEF QueueTypes, RequestState
    <3> QED
      BY <2>1, <3>1, QueueFacts
         DEF RelayTypeOK, LeaseTypes, QueueTypes, CommandState
  <2>3. ASSUME NEW r \in Request, Waits(r)
        PROVE  \E i \in 1 .. Len(queue) :
                 {j \in 1 .. Len(queue) : queue[j].by = r} = {i} /\ queue[i].what = About(req[r])
    <3>1. PICK i \in 1 .. Len(queue) : queue[i].by = r
      BY <2>1, <2>3 DEF AllQueued
    <3>2. \A j \in 1 .. Len(queue) : queue[j].by = r => j = i
      BY <2>1, <3>1 DEF NoneTwice
    <3>3. {j \in 1 .. Len(queue) : queue[j].by = r} = {i}
      BY <3>1, <3>2
    <3> QED
      BY <2>1, <3>1, <3>3 DEF AllFit, Fits
  <2>4. ASSUME NEW r \in Request, ~Waits(r)
        PROVE  {j \in 1 .. Len(queue) : queue[j].by = r} = {}
    BY <2>1, <2>4 DEF AllFit, Fits, Waits
  <2>5. OneJobEach
    BY <2>3, <2>4 DEF OneJobEach, Waits
  <2>6. at # "queued" => queue # <<>>
    BY <2>1 DEF CallSound
  <2> QED
    BY <2>2, <2>5, <2>6 DEF RelayInv
<1> QED
  BY <1>1, RelayInvariant, PTL

\* However many requests run into one limit, only what ran out is reported and
\* the machine is moved only for a reason.
THEOREM RelayNoStampede == RelaySpec => NoStampede
<1>1. RelayIInv /\ [RelayNext]_relayVars =>
        [/\ cooling' \subseteq cooling \cup walled
         /\ held # NoLease /\ held'.acct # held.acct =>
              \/ held.acct \in walled \cup cooling
              \/ \E t \in deadAccess : t[1] = held.acct
              \/ asked = held'.acct]_relayVars
  BY RelayStepKeeps DEF Promised, Reports, HeldMoves
<1> QED
  BY <1>1, RelayInvariant, PTL DEF RelaySpec, NoStampede

\* No request is first sent with a token the relay has seen refused.
THEOREM RelayNeverSendsDead == RelaySpec => NeverSendsDead
<1>1. RelayIInv /\ [RelayNext]_relayVars =>
        [\A r \in Request :
           req[r].pc = "asking" /\ req'[r].pc = "sent" => req'[r].tok \notin deadAccess]_relayVars
  BY RelayStepKeeps DEF Promised, SendsAlive
<1> QED
  BY <1>1, RelayInvariant, PTL DEF RelaySpec, NeverSendsDead
-----------------------------------------------------------------------------
(* The senpi slot.                                                         *)

LeaseState == [tok : Token \cup {NoTok}, due : BOOLEAN]
BlockState == [why : {"none", "auth_error", "rate_limit"}, of : Account \cup {None},
               by : {"here", "elsewhere"}, over : BOOLEAN]
TickState == [at : {"none", "asking", "excluding", "sleep"}, joined : BOOLEAN,
              named : Account \cup {None}, avoid : SUBSET Account]
TurnState == [pc : {"rest", "prelude", "following", "audit", "lease", "sending", "sent",
                    "failed", "relet"},
              tok : Token \cup {NoTok}, to : LeaseState,
              before : Account \cup {None}, consecutive : 0 .. MaxConsecutive, injected : Nat]
PanelState == [acct : Account \cup {None}, pinned : BOOLEAN]

\* What has been injected since the operator's last turn is what the ladder has
\* counted, and it is counted before it is resumed.
TurnSound(t) ==
  /\ IF t.pc = "rest" THEN t.consecutive = 0 ELSE t.injected = t.consecutive
  /\ t.injected <= MaxConsecutive
  /\ t.pc = "relet" => t.consecutive < MaxConsecutive
  /\ t.pc = "sent" => t.tok # NoTok
  /\ t.pc = "following" => t.to.tok # NoTok

\* A turn that has joined a tick waits for it.
TickSound == tick.joined => tick.at # "none" /\ Waiting

\* The environment holds the occupant's token; nothing is sent from an empty slot.
Occupied ==
  /\ written => env # NoTok
  /\ occupant = env[1] /\ (turn.tok[1] # None => occupant # None)

\* A limit stamped here is the occupant's, or of the turn that has just failed and
\* is yet to be audited - or can throttle nobody any more.
BlockSound ==
  block.why = "rate_limit" /\ block.by = "here" =>
    /\ block.of # None
    /\ \/ block.of = occupant
       \/ TurnAt("failed") /\ turn.tok[1] = block.of
       \/ block.over \/ occupant \in throttled

\* The inductive invariant.
SenpiIInv == SlotTypeOK /\ TurnSound(turn) /\ TickSound /\ Occupied /\ BlockSound

\* The typing invariant, one conjunct each, as the steps below use it.
LEMMA SenpiTypes ==
  SlotTypeOK <=>
    /\ WorldTypeOK /\ trouble \in 0 .. MaxTrouble
    /\ cache \in LeaseState /\ block \in BlockState
    /\ lock \in {"free", "tick", "panel", "elsewhere"} /\ slotPin \in Account \cup {None}
    /\ env \in Token \cup {NoTok}
    /\ written \in BOOLEAN /\ due \in BOOLEAN /\ fresh \in BOOLEAN
    /\ occupant \in Account \cup {None}
    /\ dead \subseteq Token /\ throttled \subseteq Account
    /\ tick \in TickState /\ turn \in TurnState /\ panel \in PanelState
BY DEF SlotTypeOK, LeaseState, BlockState, TickState, TurnState, PanelState

\* The same of the next state.
LEMMA SenpiTypesNext ==
  SlotTypeOK' <=>
    /\ WorldTypeOK' /\ trouble' \in 0 .. MaxTrouble
    /\ cache' \in LeaseState /\ block' \in BlockState
    /\ lock' \in {"free", "tick", "panel", "elsewhere"} /\ slotPin' \in Account \cup {None}
    /\ env' \in Token \cup {NoTok}
    /\ written' \in BOOLEAN /\ due' \in BOOLEAN /\ fresh' \in BOOLEAN
    /\ occupant' \in Account \cup {None}
    /\ dead' \subseteq Token /\ throttled' \subseteq Account
    /\ tick' \in TickState /\ turn' \in TurnState /\ panel' \in PanelState
BY DEF SlotTypeOK, LeaseState, BlockState, TickState, TurnState, PanelState

LEMMA TokenAccount ==
  /\ NoTok[1] = None
  /\ \A t \in Token : t[1] \in Account
  /\ \A t \in Token \cup {NoTok} : t[1] \in Account \cup {None} /\ (t # NoTok => t[1] # None)
BY DEF NoTok, Token

LEMMA NothingHeld ==
  NoCache \in LeaseState /\ NoBlock \in BlockState /\ NoTick \in TickState /\ NoPanel \in PanelState
  /\ NoCache.tok = NoTok /\ NoBlock.why = "none" /\ ~NoTick.joined /\ NoTick.at = "none"
BY DEF NoCache, NoBlock, NoTick, NoPanel, LeaseState, BlockState, TickState,
   PanelState

LEMMA WorldStays == ASSUME WorldTypeOK, UNCHANGED world PROVE WorldTypeOK'
BY DEF WorldTypeOK, world

-----------------------------------------------------------------------------
(* The turn's moves.                                                       *)

\* What a turn's step has to leave behind: its type, its counters, and its token.
Carries(t, u) == u \in TurnState /\ TurnSound(u) /\ u.tok = t.tok

LEMMA GoesTo ==
  ASSUME NEW t \in TurnState, TurnSound(t), t.pc # "rest",
         NEW pc \in {"sending", "audit", "lease", "failed"}
  PROVE  Carries(t, [t EXCEPT !.pc = pc]) /\ [t EXCEPT !.pc = pc].pc = pc
BY DEF TurnState, TurnSound, Carries

LEMMA ComesToRest1 ==
  ASSUME NEW t \in TurnState, TurnSound(t), NEW u,
         u = [t EXCEPT !.pc = "rest", !.tok = NoTok, !.consecutive = 0]
  PROVE  u \in TurnState /\ TurnSound(u) /\ u.tok = NoTok /\ u.pc = "rest"
<1> DEFINE v == [t EXCEPT !.pc = "rest", !.tok = NoTok]
<1>1. v \in TurnState /\ v.pc = "rest" /\ v.tok = NoTok /\ v.injected = t.injected
  BY DEF TurnState
<1>2. u = [v EXCEPT !.consecutive = 0]
  OBVIOUS
<1> HIDE DEF v
<1>3. u \in TurnState /\ u.pc = "rest" /\ u.tok = NoTok /\ u.consecutive = 0 /\ u.injected = t.injected
  BY <1>1, <1>2, SenpiAssumption DEF TurnState
<1> QED
  BY <1>3 DEF TurnSound

LEMMA IsResumed ==
  ASSUME NEW t \in TurnState, TurnSound(t), t.pc = "relet", NEW u,
         \/ u = [t EXCEPT !.pc = "prelude", !.before = None, !.consecutive = @ + 1, !.injected = @ + 1]
         \/ u = [t EXCEPT !.pc = "rest", !.before = None, !.consecutive = 0]
  PROVE  Carries(t, u) /\ u.pc \in {"prelude", "rest"}
<1>1. t.consecutive + 1 \in 0 .. MaxConsecutive /\ t.injected + 1 = t.consecutive + 1
      /\ t.injected <= MaxConsecutive /\ t.injected \in Nat
  BY SenpiAssumption DEF TurnState, TurnSound
<1>2. CASE u = [t EXCEPT !.pc = "rest", !.before = None, !.consecutive = 0]
  <2> DEFINE v == [t EXCEPT !.pc = "rest", !.before = None]
  <2>1. v \in TurnState /\ v.pc = "rest" /\ v.tok = t.tok /\ v.injected = t.injected
    BY DEF TurnState
  <2>2. u = [v EXCEPT !.consecutive = 0]
    BY <1>2
  <2> HIDE DEF v
  <2>3. u \in TurnState /\ u.pc = "rest" /\ u.tok = t.tok /\ u.consecutive = 0
        /\ u.injected = t.injected
    BY <2>1, <2>2, SenpiAssumption DEF TurnState
  <2> QED
    BY <1>1, <2>3 DEF TurnSound, Carries
<1>3. CASE u = [t EXCEPT !.pc = "prelude", !.before = None, !.consecutive = @ + 1, !.injected = @ + 1]
  <2> DEFINE v == [t EXCEPT !.pc = "prelude", !.before = None]
  <2>1. v \in TurnState /\ v.pc = "prelude" /\ v.tok = t.tok
        /\ v.consecutive = t.consecutive /\ v.injected = t.injected
    BY DEF TurnState
  <2> DEFINE w == [v EXCEPT !.consecutive = @ + 1]
  <2>2. u = [w EXCEPT !.injected = @ + 1]
    BY <1>3
  <2> HIDE DEF v
  <2>3. w \in TurnState /\ w.pc = "prelude" /\ w.tok = t.tok
        /\ w.consecutive = t.consecutive + 1 /\ w.injected = t.injected
    BY <1>1, <2>1 DEF TurnState
  <2> HIDE DEF w
  <2>4. u \in TurnState /\ u.pc = "prelude" /\ u.tok = t.tok
        /\ u.consecutive = t.consecutive + 1 /\ u.injected = t.injected + 1
    BY <1>1, <2>2, <2>3 DEF TurnState
  <2> QED
    BY <1>1, <2>4, SenpiAssumption DEF TurnSound, Carries
<1> QED
  BY <1>2, <1>3

LEMMA IsBegun ==
  ASSUME NEW t \in TurnState, TurnSound(t), t.pc = "rest", NEW u,
         u = [t EXCEPT !.pc = "prelude", !.injected = 0]
  PROVE  Carries(t, u) /\ u.pc = "prelude"
<1>1. u \in TurnState /\ u.pc = "prelude" /\ u.tok = t.tok /\ u.consecutive = t.consecutive
      /\ u.injected = 0
  BY DEF TurnState
<1> QED
  BY <1>1, SenpiAssumption DEF TurnSound, Carries

LEMMA Follows ==
  ASSUME NEW t \in TurnState, TurnSound(t), t.pc # "rest", NEW l \in LeaseState, NEW u,
         NEW pc \in {"following", "audit"}, pc = "following" => l.tok # NoTok,
         u = [t EXCEPT !.pc = pc, !.to = l]
  PROVE  Carries(t, u) /\ u.pc = pc
<1>1. u \in TurnState /\ u.pc = pc /\ u.tok = t.tok /\ u.consecutive = t.consecutive
      /\ u.injected = t.injected /\ u.to = l
  BY DEF TurnState
<1> QED
  BY <1>1 DEF TurnSound, Carries

LEMMA IsSent ==
  ASSUME NEW t \in TurnState, TurnSound(t), t.pc # "rest", NEW k \in Token \cup {NoTok}, k # NoTok,
         NEW u, u = [t EXCEPT !.pc = "sent", !.tok = k]
  PROVE  u \in TurnState /\ TurnSound(u) /\ u.tok = k /\ u.pc = "sent"
<1>1. u \in TurnState /\ u.pc = "sent" /\ u.tok = k /\ u.consecutive = t.consecutive
      /\ u.injected = t.injected
  BY DEF TurnState
<1> QED
  BY <1>1 DEF TurnSound

LEMMA IsRelet ==
  ASSUME NEW t \in TurnState, TurnSound(t), t.pc # "rest", t.consecutive < MaxConsecutive,
         NEW b \in Account \cup {None},
         NEW u, u = [t EXCEPT !.pc = "relet", !.before = b, !.tok = NoTok]
  PROVE  u \in TurnState /\ TurnSound(u) /\ u.tok = NoTok /\ u.pc = "relet"
<1>1. u \in TurnState /\ u.pc = "relet" /\ u.tok = NoTok /\ u.consecutive = t.consecutive
      /\ u.injected = t.injected
  BY DEF TurnState
<1> QED
  BY <1>1 DEF TurnSound

LEMMA IsForgotten ==
  ASSUME NEW t \in TurnState, TurnSound(t), NEW u,
         u = [t EXCEPT !.pc = "rest", !.tok = NoTok, !.to = NoCache, !.before = None,
                       !.consecutive = 0]
  PROVE  u \in TurnState /\ TurnSound(u) /\ u.tok = NoTok /\ u.pc = "rest"
<1> DEFINE v == [t EXCEPT !.pc = "rest", !.tok = NoTok]
           w == [v EXCEPT !.to = NoCache, !.before = None]
<1>1. v \in TurnState /\ v.pc = "rest" /\ v.tok = NoTok /\ v.injected = t.injected
  BY DEF TurnState
<1>2. u = [w EXCEPT !.consecutive = 0]
  OBVIOUS
<1> HIDE DEF v
<1>3. w \in TurnState /\ w.pc = "rest" /\ w.tok = NoTok /\ w.injected = t.injected
  BY <1>1, NothingHeld DEF TurnState
<1> HIDE DEF w
<1>4. u \in TurnState /\ u.pc = "rest" /\ u.tok = NoTok /\ u.consecutive = 0 /\ u.injected = t.injected
  BY <1>2, <1>3, SenpiAssumption DEF TurnState
<1> QED
  BY <1>4 DEF TurnSound

\* A turn that waited goes on with its token, and waits no more.
LEMMA GoesOn ==
  ASSUME turn \in TurnState, TurnSound(turn), Waiting, TurnGoesOn
  PROVE  Carries(turn, turn') /\ turn'.pc \in {"sending", "prelude", "rest"}
<1>1. CASE TurnAt("lease")
  BY <1>1, GoesTo DEF TurnGoesOn, TurnAt, Goto
<1>2. CASE TurnAt("relet")
  BY <1>2, IsResumed DEF TurnGoesOn, TurnAt
<1> QED
  BY <1>1, <1>2 DEF Waiting

-----------------------------------------------------------------------------
(* The slot's moves.                                                       *)

LEMMA Publishes ==
  ASSUME SlotTypeOK, NEW l \in LeaseState, l.tok # NoTok, Publish(l)
  PROVE  /\ env' \in Token \cup {NoTok} /\ env' # NoTok /\ written' \in BOOLEAN /\ due' \in BOOLEAN
         /\ fresh' \in BOOLEAN /\ occupant' \in Account \cup {None} /\ occupant' = env'[1]
         /\ cache' \in LeaseState /\ block' \in {block, NoBlock}
         /\ block'.why = "rate_limit" => occupant' = occupant
         /\ occupant' # None
<1>1. l.tok \in Token \cup {NoTok} /\ l.due \in BOOLEAN /\ fresh \in BOOLEAN
      /\ block.why \in {"none", "auth_error", "rate_limit"}
  BY SenpiTypes DEF LeaseState, BlockState
<1>2. env' = l.tok /\ occupant' = l.tok[1] /\ written' = TRUE /\ due' = l.due
      /\ fresh' = (fresh \/ occupant # l.tok[1]) /\ cache' = l
  BY DEF Publish, WriteEnv, WriteCache
<1>3. block' \in {block, NoBlock} /\ (block'.why = "rate_limit" => occupant' = occupant)
  BY <1>1, <1>2, NothingHeld DEF Publish, Unblocked, ClearScope
<1> QED
  BY <1>1, <1>2, <1>3, TokenAccount

\* A block stays sound while nobody else moves in without taking it away.
LEMMA BlockStays ==
  ASSUME BlockSound, block' \in {block, NoBlock},
         block'.why = "rate_limit" => occupant' = occupant,
         throttled' = throttled, turn'.tok = turn.tok, TurnAt("failed") => turn'.pc = "failed"
  PROVE  BlockSound'
BY NothingHeld DEF BlockSound, TurnAt

LEMMA OccupiedStays ==
  ASSUME Occupied, occupant' = env'[1], written' => env' # NoTok,
         occupant # None => occupant' # None, turn'.tok[1] \in {turn.tok[1], None}
  PROVE  Occupied'
BY DEF Occupied

-----------------------------------------------------------------------------
(* The steps, one lemma per action.                                        *)

\* What every step starts from.
LEMMA SenpiFacts ==
  ASSUME SenpiIInv
  PROVE  /\ SlotTypeOK /\ WorldTypeOK /\ turn \in TurnState /\ TurnSound(turn)
         /\ tick \in TickState /\ TickSound /\ Occupied /\ BlockSound
         /\ occupant \in Account \cup {None} /\ fresh \in BOOLEAN
         /\ cache \in LeaseState /\ block \in BlockState
BY SenpiTypes DEF SenpiIInv

\* A tick ends, and with it the wait of the turn that joined it.
LEMMA TickEnds ==
  ASSUME SenpiIInv, NEW joined, joined => Waiting, TickDone(joined)
  PROVE  Carries(turn, turn') /\ (TurnAt("failed") => turn'.pc = "failed")
<1>1. turn \in TurnState /\ TurnSound(turn)
  BY SenpiFacts
<1>2. CASE joined
  BY <1>1, <1>2, GoesOn DEF Waiting, TurnAt, TickDone
<1>3. CASE ~joined
  BY <1>1, <1>3 DEF TickDone, Carries, TurnAt
<1> QED
  BY <1>2, <1>3

\* A lease is published, and the turn keeps to its token.
LEMMA PublishKeeps ==
  ASSUME SenpiIInv, NEW l \in LeaseState, l.tok # NoTok, Publish(l),
         Carries(turn, turn'), TurnAt("failed") => turn'.pc = "failed",
         UNCHANGED <<world, dead, throttled>>, slotPin' \in Account \cup {None},
         trouble' \in 0 .. MaxTrouble,
         lock' \in {"free", "tick", "panel", "elsewhere"}, tick' \in TickState, ~tick'.joined,
         panel' \in PanelState
  PROVE  SenpiIInv'
<1>1. SlotTypeOK /\ WorldTypeOK /\ Occupied /\ BlockSound /\ block \in BlockState
  BY SenpiFacts
<1>2. SlotTypeOK'
  BY <1>1, SenpiTypes, SenpiTypesNext, Publishes, NothingHeld, WorldStays
     DEF Carries
<1>3. Occupied'
  BY <1>1, Publishes, OccupiedStays, SenpiTypes DEF Carries
<1>4. BlockSound'
  BY <1>1, Publishes, BlockStays DEF Carries
<1>5. TickSound' /\ TurnSound(turn')
  BY DEF TickSound, Carries
<1> QED
  BY <1>2, <1>3, <1>4, <1>5 DEF SenpiIInv, TurnSound

\* Only the turn moves: nobody waits for it, and nothing that it sent has failed.
LEMMA TurnMoveKeeps ==
  ASSUME SenpiIInv, UNCHANGED <<world, shared, published, books, tick, panel, trouble>>,
         Carries(turn, turn'), ~tick.joined, ~TurnAt("failed")
  PROVE  SenpiIInv'
<1>1. SlotTypeOK /\ WorldTypeOK /\ Occupied /\ BlockSound
  BY SenpiFacts
<1>2. UNCHANGED <<world, cache, block, lock, slotPin, env, written, due, occupant, fresh, dead,
                  throttled, tick, panel, trouble>>
  BY DEF shared, published, books
<1>3. SlotTypeOK'
  BY <1>1, <1>2, SenpiTypes, SenpiTypesNext, WorldStays DEF Carries
<1>4. Occupied' /\ BlockSound' /\ TickSound' /\ TurnSound(turn')
  BY <1>1, <1>2 DEF Occupied, BlockSound, TickSound, Carries
<1> QED
  BY <1>3, <1>4 DEF SenpiIInv, TurnSound

\* All but the turn moves, or nothing of what is said of it: no account moves in.
LEMMA AsideKeeps ==
  ASSUME SenpiIInv, SlotTypeOK', UNCHANGED <<turn, env, written, occupant>>,
         \/ block' \in {block, NoBlock} /\ throttled' = throttled
         \/ block' = [block EXCEPT !.over = TRUE]
         \/ block'.why # "rate_limit" \/ block'.by = "elsewhere",
         tick'.joined => tick'.at # "none" /\ Waiting
  PROVE  SenpiIInv'
<1>1. /\ TurnSound(turn) /\ Occupied /\ BlockSound /\ block \in BlockState
  BY SenpiFacts
<1>2. \/ block'.why # "rate_limit" \/ block'.by = "elsewhere"
      \/ /\ block'.why = block.why /\ block'.by = block.by /\ block'.of = block.of
         /\ block'.over \/ (block'.over = block.over /\ throttled' = throttled)
  BY <1>1, NothingHeld DEF BlockState
<1>3. Occupied' /\ TurnSound(turn') /\ TickSound'
  BY <1>1 DEF Occupied, TickSound, Waiting, TurnAt
<1>4. BlockSound'
  BY <1>1, <1>2 DEF BlockSound, TurnAt
<1> QED
  BY <1>3, <1>4 DEF SenpiIInv, TurnSound

LEMMA AdoptCachedKeeps ==
  ASSUME SenpiIInv, NEW joined \in BOOLEAN, AdoptCached(joined)
  PROVE  SenpiIInv'
<1>1. /\ SlotTypeOK /\ cache \in LeaseState /\ TickSound
  BY SenpiFacts
<1>2. /\ Publish(cache) /\ UNCHANGED <<world, lock, slotPin, dead, throttled, tick, panel, trouble>>
      /\ tick.at = "none" /\ (joined => Waiting) /\ TickDone(joined) /\ cache.tok # NoTok
  BY DEF AdoptCached, Starts, books, Adoptable
<1>3. Carries(turn, turn') /\ (TurnAt("failed") => turn'.pc = "failed")
  BY <1>2, TickEnds
<1> QED
  BY <1>1, <1>2, <1>3, PublishKeeps, SenpiTypes DEF TickSound

LEMMA AskMasterKeeps ==
  ASSUME SenpiIInv, NEW joined \in BOOLEAN, AskMaster(joined)
  PROVE  SenpiIInv'
<1>1. SlotTypeOK /\ WorldTypeOK
  BY SenpiFacts
<1>2. /\ UNCHANGED <<world, cache, block, slotPin, env, written, due, occupant, fresh, dead, throttled,
                     turn, panel, trouble>>
      /\ lock' = "tick" /\ (joined => Waiting)
      /\ tick' = [at |-> "asking", joined |-> joined, named |-> slotPin, avoid |-> throttled]
  BY DEF AskMaster, Starts, books, published
<1>3. tick' \in TickState /\ tick'.at = "asking" /\ tick'.joined = joined
  BY <1>1, <1>2, SenpiTypes DEF TickState
<1>4. SlotTypeOK'
  BY <1>1, <1>2, <1>3, SenpiTypes, SenpiTypesNext, WorldStays
<1> QED
  BY <1>2, <1>3, <1>4, AsideKeeps

LEMMA LeaseTyped ==
  ASSUME WorldTypeOK, NEW a \in Account
  PROVE  Current(a) \in Token /\ Lease(Current(a)) \in LeaseState
         /\ Lease(Current(a)).tok = Current(a) /\ Current(a) # NoTok /\ Current(a)[1] = a
<1>1. Current(a) \in Token /\ Current(a)[1] = a
  BY DEF WorldTypeOK, Current, Token
<1>2. Current(a) # NoTok
  BY <1>1, TokenAccount
<1> QED
  BY <1>1, <1>2 DEF Lease, LeaseState

LEMMA TickAnsweredKeeps ==
  ASSUME SenpiIInv, TickAnswered
  PROVE  SenpiIInv'
<1>1. /\ SlotTypeOK /\ WorldTypeOK /\ tick \in TickState /\ TickSound
      /\ tick.named \in Account \cup {None} /\ tick.avoid \subseteq Account
  BY SenpiFacts DEF TickState
<1>2. PICK ans \in LeaseAnswers("prelease", occupant, tick.named, tick.avoid) :
        CASE ans.kind = "lease" /\ Current(ans.acct) \in dead ->
               IF tick.at = "asking"
               THEN AskAgain("excluding", tick.avoid \cup {ans.acct}) /\ SetPin(slotPin)
               ELSE TickFails
          [] ans.kind = "lease" -> Landed(Lease(Current(ans.acct))) /\ SetPin(slotPin)
          [] ans.kind = "refused" -> Unpinned
          [] OTHER -> TickFails
  BY DEF TickAnswered
<1>3. ans.kind = "lease" => ans.acct \in Account
  BY <1>1, AnswerFacts
<1>4. UNCHANGED <<world, dead, throttled, panel, trouble>> /\ tick.at \in {"asking", "excluding"}
  BY DEF TickAnswered, books
<1>5. \/ TickFails
      \/ \E phase \in {"asking", "excluding"}, avoid \in SUBSET Account :
           AskAgain(phase, avoid) /\ slotPin' \in {slotPin, None}
      \/ \E l \in LeaseState : l.tok # NoTok /\ Landed(l) /\ slotPin' \in {slotPin, None}
  <2>1. CASE ans.kind = "lease" /\ Landed(Lease(Current(ans.acct))) /\ SetPin(slotPin)
    BY <1>1, <1>3, <2>1, LeaseTyped DEF SetPin
  <2>2. CASE Unpinned
    BY <1>1, <2>2, SenpiTypes DEF Unpinned, Adoptable, SetPin
  <2> QED
    BY <1>1, <1>2, <1>3, <2>1, <2>2 DEF SetPin
<1>6. CASE TickFails
  <2>1. /\ UNCHANGED <<world, cache, block, slotPin, env, written, due, occupant, fresh, dead, throttled,
                       turn, panel, trouble>>
        /\ lock' = "free" /\ tick' \in TickState /\ tick'.joined = tick.joined /\ tick'.at = "sleep"
    BY <1>1, <1>4, <1>6 DEF TickFails, published, TickState
  <2>2. SlotTypeOK'
    BY <1>1, <2>1, SenpiTypes, SenpiTypesNext, WorldStays
  <2> QED
    BY <1>1, <2>1, <2>2, AsideKeeps DEF TickSound
<1>7. ASSUME NEW phase \in {"asking", "excluding"}, NEW avoid \in SUBSET Account,
             AskAgain(phase, avoid), slotPin' \in {slotPin, None}
      PROVE  SenpiIInv'
  <2>1. /\ UNCHANGED <<world, cache, block, lock, env, written, due, occupant, fresh, dead, throttled,
                       turn, panel, trouble>>
        /\ tick' = [tick EXCEPT !.at = phase, !.named = None, !.avoid = avoid]
    BY <1>4, <1>7 DEF AskAgain, published
  <2> DEFINE v == [tick EXCEPT !.at = phase, !.named = None]
  <2>2. v \in TickState /\ v.at = phase /\ v.joined = tick.joined
    BY <1>1 DEF TickState
  <2>3. tick' = [v EXCEPT !.avoid = avoid]
    BY <2>1
  <2> HIDE DEF v
  <2>4. tick' \in TickState /\ tick'.joined = tick.joined /\ tick'.at = phase
    BY <2>2, <2>3 DEF TickState
  <2>5. SlotTypeOK'
    BY <1>1, <1>7, <2>1, <2>4, SenpiTypes, SenpiTypesNext, WorldStays
  <2> QED
    BY <1>1, <2>1, <2>4, <2>5, AsideKeeps DEF TickSound
<1>8. ASSUME NEW l \in LeaseState, l.tok # NoTok, Landed(l), slotPin' \in {slotPin, None}
      PROVE  SenpiIInv'
  <2>1. Publish(l) /\ lock' = "free" /\ tick' = NoTick /\ TickDone(tick.joined)
    BY <1>8 DEF Landed
  <2>2. Carries(turn, turn') /\ (TurnAt("failed") => turn'.pc = "failed")
    BY <1>1, <2>1, TickEnds DEF TickSound
  <2> QED
    BY <1>1, <1>4, <1>8, <2>1, <2>2, PublishKeeps, NothingHeld, SenpiTypes
<1> QED
  BY <1>5, <1>6, <1>7, <1>8

LEMMA WakesKeeps ==
  ASSUME SenpiIInv, Wakes
  PROVE  SenpiIInv'
<1>1. /\ SlotTypeOK /\ WorldTypeOK /\ Occupied /\ BlockSound /\ TickSound
  BY SenpiFacts
<1>2. /\ UNCHANGED <<world, cache, block, lock, slotPin, env, written, due, occupant, fresh, dead,
                     throttled, panel, trouble>>
      /\ tick' = NoTick /\ TickDone(tick.joined)
  BY DEF Wakes, shared, published, books
<1>3. Carries(turn, turn') /\ (TurnAt("failed") => turn'.pc = "failed")
  BY <1>1, <1>2, TickEnds DEF TickSound
<1>4. SlotTypeOK'
  BY <1>1, <1>2, <1>3, NothingHeld, SenpiTypes, SenpiTypesNext, WorldStays
     DEF Carries
<1>5. Occupied' /\ BlockSound' /\ TickSound' /\ TurnSound(turn')
  BY <1>1, <1>2, <1>3, NothingHeld
     DEF Occupied, BlockSound, TickSound, Carries, TurnAt
<1> QED
  BY <1>4, <1>5 DEF SenpiIInv, TurnSound

LEMMA GoesWithoutKeeps ==
  ASSUME SenpiIInv, GoesWithout
  PROVE  SenpiIInv'
<1>1. turn \in TurnState /\ TurnSound(turn) /\ TickSound
  BY SenpiFacts
<1>2. Waiting /\ TurnGoesOn /\ ~tick.joined /\ ~TurnAt("failed")
  BY <1>1 DEF GoesWithout, TickSound, Waiting, TurnAt
<1> QED
  BY <1>1, <1>2, GoesOn, TurnMoveKeeps DEF GoesWithout

\* The operator's turn and its prelude.
LEMMA TurnBeginsKeeps ==
  ASSUME SenpiIInv, UserTurn \/ Prelude
  PROVE  SenpiIInv'
<1>1. turn \in TurnState /\ TurnSound(turn) /\ TickSound /\ cache \in LeaseState
  BY SenpiFacts
<1>2. ~tick.joined /\ ~TurnAt("failed")
  BY <1>1 DEF UserTurn, Prelude, TickSound, Waiting, TurnAt
<1>3. CASE UserTurn
  <2>1. Carries(turn, turn')
    BY <1>1, <1>3, IsBegun DEF UserTurn, TurnAt
  <2> QED
    BY <1>2, <1>3, <2>1, TurnMoveKeeps DEF UserTurn
<1>4. CASE Prelude
  <2>1. turn.pc # "rest" /\ (\/ cache.tok # NoTok /\ turn' = [turn EXCEPT !.pc = "following", !.to = cache]
                             \/ turn' = [turn EXCEPT !.pc = "audit"])
    BY <1>4 DEF Prelude, TurnAt, Goto
  <2>2. Carries(turn, turn')
    BY <1>1, <2>1, Follows, GoesTo
  <2> QED
    BY <1>2, <1>4, <2>2, TurnMoveKeeps DEF Prelude
<1> QED
  BY <1>3, <1>4

LEMMA FollowExternalKeeps ==
  ASSUME SenpiIInv, FollowExternal
  PROVE  SenpiIInv'
<1>1. /\ SlotTypeOK /\ WorldTypeOK /\ turn \in TurnState /\ TurnSound(turn) /\ TickSound
  BY SenpiFacts
<1>2. /\ turn.pc = "following" /\ turn.to \in LeaseState /\ turn.to.tok # NoTok
      /\ ~tick.joined /\ ~TurnAt("failed")
  BY <1>1 DEF FollowExternal, TurnAt, TurnState, TurnSound, TickSound, Waiting
<1>3. /\ turn' = [turn EXCEPT !.pc = "audit", !.to = NoCache]
      /\ UNCHANGED <<world, lock, slotPin, books, tick, panel, trouble>>
      /\ Publish(turn.to) \/ UNCHANGED <<published, cache, block>>
  BY DEF FollowExternal
<1>4. Carries(turn, turn')
  BY <1>1, <1>2, <1>3, Follows, NothingHeld
<1>5. CASE Publish(turn.to)
  BY <1>1, <1>2, <1>3, <1>4, <1>5, PublishKeeps, SenpiTypes DEF books
<1>6. CASE UNCHANGED <<published, cache, block>>
  BY <1>2, <1>3, <1>4, <1>6, TurnMoveKeeps DEF shared
<1> QED
  BY <1>3, <1>5, <1>6

\* Whom an audit may throttle.
Condemned == IF block.why = "rate_limit" /\ ~fresh /\ ~block.over THEN {occupant} ELSE {}

\* What an audit leaves behind, wherever the turn goes from there.
LEMMA AuditFacts ==
  ASSUME SenpiIInv, AuditBlocks
  PROVE  /\ WorldTypeOK' /\ block' \in {block, NoBlock} /\ written' \in BOOLEAN
         /\ (written' => written)
         /\ dead' \subseteq Token /\ throttled' \subseteq Account
         /\ block'.why = "rate_limit" => block'.over \/ occupant \in throttled' \cup {None}
         /\ UNCHANGED <<cache, lock, slotPin, env, due, occupant, fresh, tick, panel, trouble>>
         /\ throttled' \subseteq throttled \cup Condemned
<1>1. SlotTypeOK /\ WorldTypeOK /\ Occupied /\ block \in BlockState
  BY SenpiFacts
<1>2. /\ UNCHANGED <<minted, revoked, walled, cache, lock, slotPin, env, due, occupant, fresh, tick,
                     panel, trouble>>
      /\ block' = IF block.why = "auth_error" \/ ~Believed THEN NoBlock ELSE block
  BY DEF AuditBlocks
<1>3. block' \in {block, NoBlock}
      /\ (block'.why = "rate_limit" => block'.over \/ occupant \in throttled' \cup {None})
  BY <1>2, NothingHeld DEF AuditBlocks, Believed
<1>4. cooling' \subseteq Account /\ throttled' \subseteq Account
      /\ throttled' \subseteq throttled \cup Condemned
  <2>1. CASE Believed /\ block.why = "rate_limit" /\ occupant # None
    <3>1. occupant \in Account /\ ReportLands(occupant)
          /\ throttled' \subseteq throttled \cup Condemned /\ Condemned \subseteq {occupant}
      BY <1>1, <2>1, SenpiTypes DEF AuditBlocks, ReportLimit, Believed, Condemned
    <3> QED
      BY <1>1, <3>1, SenpiTypes DEF ReportLands, WorldTypeOK
  <2>2. CASE ~(Believed /\ block.why = "rate_limit" /\ occupant # None)
    <3>1. UNCHANGED <<throttled, cooling>>
      BY <2>2 DEF AuditBlocks
    <3> QED
      BY <1>1, <3>1, SenpiTypes DEF WorldTypeOK
  <2> QED
    BY <2>1, <2>2
<1>5. written' \in BOOLEAN /\ (written' => written) /\ dead' \subseteq Token
  <2>1. written \in BOOLEAN /\ dead \subseteq Token /\ (written => env \in Token)
    BY <1>1, SenpiTypes DEF Occupied
  <2>2. CASE Believed
    BY <2>1, <2>2 DEF AuditBlocks, Invalidate
  <2>3. CASE ~Believed
    BY <2>1, <2>3 DEF AuditBlocks
  <2> QED
    BY <2>2, <2>3
<1>6. WorldTypeOK'
  BY <1>1, <1>2, <1>4 DEF WorldTypeOK
<1> QED
  BY <1>2, <1>3, <1>4, <1>5, <1>6

\* An audit made by a turn that waits for no tick, and what the turn does then.
LEMMA AuditKeeps ==
  ASSUME SenpiIInv, AuditBlocks, ~tick.joined, turn' \in TurnState, TurnSound(turn'),
         turn'.tok[1] \in {turn.tok[1], None}
  PROVE  SenpiIInv'
<1>1. SlotTypeOK /\ Occupied /\ BlockSound
  BY SenpiFacts
<1>2. SlotTypeOK'
  BY <1>1, AuditFacts, SenpiTypes, SenpiTypesNext, NothingHeld
<1>3. Occupied' /\ TickSound' /\ TurnSound(turn')
  BY <1>1, AuditFacts DEF Occupied, TickSound
<1>4. BlockSound'
  <2>1. CASE block' = block /\ block.why = "rate_limit"
    <3>1. block'.over \/ occupant \in throttled' \/ occupant = None
      BY <2>1, AuditFacts
    <3>2. CASE occupant = None
      <4>1. throttled \subseteq Account /\ turn.tok[1] = None
        BY <1>1, <3>2, SenpiTypes DEF Occupied
      <4> QED
        BY <1>1, <2>1, <3>2, <4>1, PoolMasterAssumption DEF BlockSound
    <3> QED
      BY <1>1, <2>1, <3>1, <3>2, AuditFacts DEF BlockSound
  <2>2. CASE block'.why # "rate_limit"
    BY <2>2 DEF BlockSound
  <2> QED
    BY <2>1, <2>2, AuditFacts, NothingHeld
<1> QED
  BY <1>2, <1>3, <1>4 DEF SenpiIInv, TurnSound

LEMMA TurnAuditKeeps ==
  ASSUME SenpiIInv, TurnAudit
  PROVE  SenpiIInv'
<1>1. turn \in TurnState /\ TurnSound(turn) /\ TickSound
  BY SenpiFacts
<1>2. turn.pc = "audit" /\ ~tick.joined /\ turn' = [turn EXCEPT !.pc = "lease"] /\ AuditBlocks
  BY <1>1 DEF TurnAudit, TurnAt, TickSound, Waiting, Goto
<1>3. Carries(turn, turn')
  BY <1>1, <1>2, GoesTo
<1> QED
  BY <1>2, <1>3, AuditKeeps DEF Carries

LEMMA SettleKeeps ==
  ASSUME SenpiIInv, Settle
  PROVE  SenpiIInv'
<1>1. turn \in TurnState /\ TurnSound(turn) /\ TickSound /\ occupant \in Account \cup {None}
  BY SenpiFacts
<1>2. turn.pc = "failed" /\ ~tick.joined /\ AuditBlocks
  BY <1>1 DEF Settle, TurnAt, TickSound, Waiting
<1>3. \/ turn' = [turn EXCEPT !.pc = "rest", !.tok = NoTok, !.consecutive = 0]
      \/ /\ turn.consecutive < MaxConsecutive
         /\ turn' = [turn EXCEPT !.pc = "relet", !.before = occupant, !.tok = NoTok]
  BY <1>1, SenpiAssumption DEF Settle, Rests, TurnState
<1>4. turn' \in TurnState /\ TurnSound(turn') /\ turn'.tok = NoTok
  BY <1>1, <1>2, <1>3, ComesToRest1, IsRelet
<1> QED
  BY <1>2, <1>4, AuditKeeps, TokenAccount

LEMMA SendKeeps ==
  ASSUME SenpiIInv, Send
  PROVE  SenpiIInv'
<1>1. /\ SlotTypeOK /\ WorldTypeOK /\ turn \in TurnState /\ TurnSound(turn) /\ TickSound /\ Occupied
      /\ BlockSound /\ env \in Token \cup {NoTok}
  BY SenpiFacts, SenpiTypes
<1>2. /\ turn.pc = "sending" /\ ~tick.joined
      /\ UNCHANGED <<world, cache, lock, slotPin, env, written, due, occupant, fresh, dead, throttled,
                     tick, panel, trouble>>
      /\ \/ turn' = [turn EXCEPT !.pc = "failed"] /\ block' = block
         \/ env # NoTok /\ turn' = [turn EXCEPT !.pc = "sent", !.tok = env] /\ block' = NoBlock
  BY <1>1 DEF Send, TurnAt, TickSound, Waiting, published, books, Goto
<1>3. /\ turn' \in TurnState /\ TurnSound(turn') /\ block' \in {block, NoBlock}
      /\ \/ turn'.tok = turn.tok /\ block' = block
         \/ turn'.tok = env /\ block' = NoBlock
  <2>1. CASE turn' = [turn EXCEPT !.pc = "failed"] /\ block' = block
    BY <1>1, <1>2, <2>1, GoesTo DEF Carries
  <2>2. CASE env # NoTok /\ turn' = [turn EXCEPT !.pc = "sent", !.tok = env] /\ block' = NoBlock
    <3>1. turn' \in TurnState /\ TurnSound(turn') /\ turn'.tok = env
      <4>1. turn.pc # "rest" /\ env \in Token \cup {NoTok} /\ env # NoTok
        BY <1>1, <1>2, <2>2
      <4> QED
        BY <1>1, <2>2, <4>1, IsSent
    <3> QED
      BY <2>2, <3>1
  <2> QED
    BY <1>2, <2>1, <2>2
<1>4. SlotTypeOK'
  BY <1>1, <1>2, <1>3, SenpiTypes, SenpiTypesNext, NothingHeld, WorldStays
<1>5. Occupied' /\ BlockSound' /\ TickSound'
  BY <1>1, <1>2, <1>3, NothingHeld DEF Occupied, BlockSound, TickSound, TurnAt
<1> QED
  BY <1>3, <1>4, <1>5 DEF SenpiIInv, TurnSound

\* A block as it is stamped.
LEMMA Stamped ==
  ASSUME NEW t \in Token, NEW by \in {"here", "elsewhere"}, Refusal(t) # "none", Stamp(t, by)
  PROVE  block' \in BlockState /\ block'.of = t[1] /\ block'.by = by
<1>1. t[1] \in Account /\ Refusal(t) \in {"none", "auth_error", "rate_limit"}
  BY TokenAccount DEF Refusal
<1> QED
  BY <1>1 DEF Stamp, BlockState

LEMMA ResultKeeps ==
  ASSUME SenpiIInv, Result
  PROVE  SenpiIInv'
<1>1. /\ SlotTypeOK /\ WorldTypeOK /\ turn \in TurnState /\ TurnSound(turn) /\ TickSound /\ Occupied
      /\ BlockSound /\ fresh \in BOOLEAN
  BY SenpiFacts
<1>2. /\ turn.pc = "sent" /\ turn.tok \in Token /\ ~tick.joined
      /\ UNCHANGED <<world, cache, lock, slotPin, env, written, due, occupant, fresh, dead, throttled,
                     tick, panel, trouble>>
  BY <1>1
     DEF Result, TurnAt, TickSound, Waiting, published, books, TurnSound, TurnState
<1>3. CASE Rests /\ UNCHANGED block
  <2>1. /\ block' = block
        /\ turn' \in TurnState /\ TurnSound(turn') /\ turn'.tok = NoTok
    BY <1>1, <1>3, ComesToRest1 DEF Result, Rests
  <2>2. SlotTypeOK'
    BY <1>1, <1>2, <2>1, SenpiTypes, SenpiTypesNext, WorldStays
  <2>3. Occupied' /\ BlockSound' /\ TickSound'
    BY <1>1, <1>2, <2>1, TokenAccount DEF Occupied, BlockSound, TickSound, TurnAt
  <2> QED
    BY <2>1, <2>2, <2>3 DEF SenpiIInv, TurnSound
<1>4. CASE Refusal(turn.tok) # "none" /\ Goto("failed") /\ Stamp(turn.tok, "here")
  <2>1. /\ block' \in BlockState /\ block'.of = turn.tok[1] /\ turn.tok[1] \in Account
        /\ turn' = [turn EXCEPT !.pc = "failed"]
    BY <1>2, <1>4, Stamped, TokenAccount DEF Result, Goto
  <2>2. Carries(turn, turn') /\ turn'.pc = "failed"
    BY <1>1, <1>2, <2>1, GoesTo
  <2>3. SlotTypeOK'
    BY <1>1, <1>2, <2>1, <2>2, SenpiTypes, SenpiTypesNext, WorldStays DEF Carries
  <2>4. Occupied' /\ TickSound'
    BY <1>1, <1>2, <2>2 DEF Occupied, TickSound, Carries
  <2>5. BlockSound'
    BY <1>1, <1>2, <2>1, <2>2, PoolMasterAssumption
       DEF Occupied, BlockSound, Carries, TurnAt
  <2> QED
    BY <2>2, <2>3, <2>4, <2>5 DEF SenpiIInv, TurnSound, Carries
<1> QED
  BY <1>3, <1>4 DEF Result

LEMMA BeginSwitchKeeps ==
  ASSUME SenpiIInv, NEW a \in Account, NEW pinned \in BOOLEAN, BeginSwitch(a, pinned)
  PROVE  SenpiIInv'
<1>1. SlotTypeOK /\ WorldTypeOK /\ TickSound
  BY SenpiFacts
<1>2. /\ UNCHANGED <<world, cache, block, env, written, due, occupant, fresh, dead, throttled, tick, turn>>
      /\ trouble' \in 0 .. MaxTrouble /\ lock' \in {lock, "panel"} /\ slotPin' \in Account \cup {None}
      /\ panel' \in PanelState
  BY <1>1, SenpiTypes, SenpiAssumption
     DEF BeginSwitch, Disturb, SetPin, published, books, PanelState
<1>3. SlotTypeOK'
  BY <1>1, <1>2, SenpiTypes, SenpiTypesNext, WorldStays
<1> QED
  BY <1>1, <1>2, <1>3, AsideKeeps DEF TickSound

LEMMA SwitchAnsweredKeeps ==
  ASSUME SenpiIInv, SwitchAnswered
  PROVE  SenpiIInv'
<1>1. SlotTypeOK /\ WorldTypeOK /\ TickSound /\ panel.acct \in Account \cup {None}
      /\ turn \in TurnState /\ TurnSound(turn)
  BY SenpiFacts, SenpiTypes DEF PanelState
<1>2. PICK ans \in LeaseAnswers("prelease", None, panel.acct, {}) :
        IF ans.kind = "lease"
        THEN Publish(Lease(Current(ans.acct))) /\ SetPin(slotPin)
        ELSE /\ SetPin(IF panel.pinned THEN None ELSE slotPin)
             /\ UNCHANGED <<published, cache, block>>
  BY DEF SwitchAnswered
<1>3. ans.kind = "lease" => ans.acct \in Account
  BY <1>1, AnswerFacts
<1>4. /\ UNCHANGED <<world, dead, throttled, tick, turn, trouble>> /\ lock' = "free" /\ panel' = NoPanel
      /\ slotPin' \in Account \cup {None}
  BY <1>1, <1>2, SenpiTypes DEF SwitchAnswered, books, SetPin
<1>5. CASE ans.kind # "lease"
  <2>1. UNCHANGED <<env, written, due, occupant, fresh, cache, block>>
    BY <1>2, <1>5 DEF published
  <2>2. SlotTypeOK'
    BY <1>1, <1>4, <2>1, SenpiTypes, SenpiTypesNext, WorldStays, NothingHeld
  <2> QED
    BY <1>1, <1>4, <2>1, <2>2, AsideKeeps DEF TickSound
<1>6. CASE ans.kind = "lease"
  <2>1. Lease(Current(ans.acct)) \in LeaseState /\ Lease(Current(ans.acct)).tok # NoTok
    BY <1>1, <1>3, <1>6, LeaseTyped
  <2>2. Publish(Lease(Current(ans.acct)))
    BY <1>2, <1>6
  <2>3. SlotTypeOK'
    BY <1>1, <1>4, <2>1, <2>2, SenpiTypes, SenpiTypesNext, Publishes, WorldStays,
       NothingHeld
  <2>4. Occupied'
    BY <1>4, <2>1, <2>2, Publishes, OccupiedStays, SenpiFacts, SenpiTypes
  <2>5. BlockSound'
    BY <1>4, <2>1, <2>2, Publishes, BlockStays, SenpiFacts DEF TurnAt
  <2>6. TickSound' /\ TurnSound(turn')
    BY <1>1, <1>4 DEF TickSound, Waiting, TurnAt
  <2> QED
    BY <2>3, <2>4, <2>5, <2>6 DEF SenpiIInv, TurnSound
<1> QED
  BY <1>5, <1>6

LEMMA LeaseDueKeeps ==
  ASSUME SenpiIInv, LeaseDue
  PROVE  SenpiIInv'
<1>1. SlotTypeOK /\ WorldTypeOK /\ TickSound /\ cache \in LeaseState
  BY SenpiFacts
<1>2. /\ UNCHANGED <<world, block, lock, slotPin, env, written, occupant, fresh, dead, throttled, tick,
                     turn, panel>>
      /\ trouble' \in 0 .. MaxTrouble /\ due' = TRUE /\ cache' \in LeaseState
  <2>1. PICK late \in BOOLEAN : cache' = [cache EXCEPT !.due = late]
    BY <1>1 DEF LeaseDue, LeaseState
  <2>2. cache' \in LeaseState
    BY <1>1, <2>1 DEF LeaseState
  <2> QED
    BY <1>1, <2>2, SenpiTypes, SenpiAssumption DEF LeaseDue, Disturb, books, work
<1>3. SlotTypeOK'
  BY <1>1, <1>2, SenpiTypes, SenpiTypesNext, WorldStays
<1> QED
  BY <1>1, <1>2, <1>3, AsideKeeps DEF TickSound

LEMMA GraceLapsesKeeps ==
  ASSUME SenpiIInv, GraceLapses
  PROVE  SenpiIInv'
<1>1. SlotTypeOK /\ WorldTypeOK /\ TickSound /\ Occupied /\ BlockSound /\ TurnSound(turn)
  BY SenpiFacts
<1>2. /\ UNCHANGED <<world, cache, block, lock, slotPin, env, written, due, occupant, dead, throttled,
                     tick, turn, panel, trouble>>
      /\ fresh' = FALSE
  BY DEF GraceLapses, shared, books, work
<1>3. SlotTypeOK'
  BY <1>1, <1>2, SenpiTypes, SenpiTypesNext, WorldStays
<1> QED
  BY <1>1, <1>2, <1>3, AsideKeeps DEF TickSound

LEMMA DeadlinePassesKeeps ==
  ASSUME SenpiIInv, DeadlinePasses
  PROVE  SenpiIInv'
<1>1. SlotTypeOK /\ WorldTypeOK /\ TickSound /\ block \in BlockState
  BY SenpiFacts
<1>2. /\ UNCHANGED <<world, cache, lock, slotPin, env, written, due, occupant, fresh, dead, tick, turn,
                     panel, trouble>>
      /\ \/ block' = [block EXCEPT !.over = TRUE]
         \/ block' = block /\ block'.why # "rate_limit"
      /\ throttled' = {}
  BY DEF DeadlinePasses, published, work
<1>3. block' \in BlockState
  BY <1>1, <1>2 DEF BlockState
<1>4. SlotTypeOK'
  BY <1>1, <1>2, <1>3, SenpiTypes, SenpiTypesNext, WorldStays
<1> QED
  BY <1>1, <1>2, <1>4, AsideKeeps DEF TickSound

LEMMA HostRestartsKeeps ==
  ASSUME SenpiIInv, HostRestarts
  PROVE  SenpiIInv'
<1>1. /\ SlotTypeOK /\ WorldTypeOK /\ turn \in TurnState /\ TurnSound(turn) /\ cache \in LeaseState
      /\ block \in BlockState
  BY SenpiFacts
<1>2. /\ UNCHANGED <<world, cache, slotPin>> /\ trouble' \in 0 .. MaxTrouble
      /\ env' = cache.tok /\ due' = cache.due /\ occupant' = cache.tok[1]
      /\ written' = (cache.tok # NoTok) /\ fresh' = (cache.tok # NoTok)
      /\ dead' = {} /\ throttled' = {} /\ lock' \in {lock, "free"}
      /\ tick' = NoTick /\ panel' = NoPanel
  BY <1>1, SenpiTypes, SenpiAssumption DEF HostRestarts, Disturb
<1>3. turn' \in TurnState /\ TurnSound(turn') /\ turn'.tok = NoTok
  BY <1>1, IsForgotten DEF HostRestarts
<1>4. block' \in BlockState /\ (block'.why = "none" \/ block'.by = "elsewhere")
  BY <1>1, NothingHeld DEF HostRestarts, BlockState
<1>5. cache.tok \in Token \cup {NoTok} /\ cache.due \in BOOLEAN
  BY <1>1 DEF LeaseState
<1>6. SlotTypeOK'
  BY <1>1, <1>2, <1>3, <1>4, <1>5, SenpiTypes, SenpiTypesNext, WorldStays,
     NothingHeld, TokenAccount
<1>7. Occupied' /\ BlockSound' /\ TickSound'
  BY <1>2, <1>3, <1>4, TokenAccount, NothingHeld DEF Occupied, BlockSound, TickSound
<1> QED
  BY <1>3, <1>6, <1>7 DEF SenpiIInv, TurnSound

\* What another host does with the lock, the cache, the block and the pin.
LEMMA ElsewhereKeeps ==
  ASSUME SenpiIInv,
         \/ ElsewhereStarts \/ ElsewhereEnds \/ \E a \in Account : ElsewhereRefused(a)
  PROVE  SenpiIInv'
<1>1. SlotTypeOK /\ WorldTypeOK /\ TickSound /\ block \in BlockState
  BY SenpiFacts
<1>2. /\ UNCHANGED <<world, env, written, due, occupant, fresh, dead, throttled, tick, turn, panel>>
      /\ trouble' \in 0 .. MaxTrouble /\ lock' \in {lock, "free", "elsewhere"}
  BY <1>1, SenpiTypes, SenpiAssumption
     DEF ElsewhereStarts, ElsewhereEnds, ElsewhereRefused, Disturb, published, books, work
<1>3. /\ cache' \in LeaseState /\ slotPin' \in Account \cup {None} /\ block' \in BlockState
      /\ block' \in {block, NoBlock} \/ block'.by = "elsewhere"
  <2>1. CASE ElsewhereStarts
    BY <1>1, <2>1, SenpiTypes DEF ElsewhereStarts
  <2>2. CASE ElsewhereEnds
    BY <1>1, <2>2, SenpiTypes, LeaseTyped, NothingHeld DEF ElsewhereEnds
  <2>3. ASSUME NEW a \in Account, ElsewhereRefused(a)
        PROVE  UNCHANGED <<cache, slotPin>> /\ block' \in BlockState /\ block'.by = "elsewhere"
    BY <1>1, <2>3, LeaseTyped, Stamped DEF ElsewhereRefused
  <2> QED
    BY <1>1, <2>1, <2>2, <2>3, SenpiTypes
<1>4. SlotTypeOK'
  BY <1>1, <1>2, <1>3, SenpiTypes, SenpiTypesNext, WorldStays
<1> QED
  BY <1>1, <1>2, <1>3, <1>4, AsideKeeps DEF TickSound

\* The world moves within its types.
LEMMA WorldMovesTyped ==
  ASSUME WorldTypeOK, NEW a \in Account,
         \/ RotateToken(a) \/ RevokeToken(a) \/ FillQuota(a) \/ QuotaReturns(a) \/ CooldownLapses(a)
  PROVE  WorldTypeOK'
<1>1. MaxGen \in Nat \ {0}
  BY PoolMasterAssumption
<1>2. CASE RotateToken(a)
  BY <1>1, <1>2 DEF WorldTypeOK, RotateToken
<1>3. CASE RevokeToken(a) \/ FillQuota(a) \/ QuotaReturns(a) \/ CooldownLapses(a)
  BY <1>3 DEF WorldTypeOK, RevokeToken, FillQuota, QuotaReturns, CooldownLapses
<1> QED
  BY <1>2, <1>3

LEMMA VendorKeeps ==
  ASSUME SenpiIInv, Vendor
  PROVE  SenpiIInv'
<1>1. SlotTypeOK /\ WorldTypeOK /\ TickSound
  BY SenpiFacts
<1>2. /\ UNCHANGED <<cache, block, lock, slotPin, env, written, due, occupant, fresh, dead, throttled,
                     tick, turn, panel>>
      /\ trouble' \in 0 .. MaxTrouble
  BY <1>1, SenpiTypes, SenpiAssumption
     DEF Vendor, Disturb, shared, published, books, work
<1>3. WorldTypeOK'
  BY <1>1, WorldMovesTyped DEF Vendor, Spoils, Mends
<1>4. SlotTypeOK'
  BY <1>1, <1>2, <1>3, SenpiTypes, SenpiTypesNext
<1> QED
  BY <1>1, <1>2, <1>4, AsideKeeps DEF TickSound

-----------------------------------------------------------------------------
(* The invariant holds, and with it what the runs check.                   *)

LEMMA SenpiStart == SlotInit => SenpiIInv
<1> SUFFICES ASSUME SlotInit PROVE SenpiIInv
  OBVIOUS
<1>1. WorldTypeOK
  BY PoolMasterAssumption DEF SlotInit, WorldInit, WorldTypeOK
<1>2. /\ turn = [pc |-> "rest", tok |-> NoTok, to |-> NoCache, before |-> None,
                consecutive |-> 0, injected |-> 0]
      /\ cache = NoCache /\ block = NoBlock /\ lock = "free" /\ slotPin = None
      /\ env = NoTok /\ written = FALSE /\ due = FALSE /\ occupant = None /\ fresh = FALSE
      /\ dead = {} /\ throttled = {} /\ tick = NoTick /\ panel = NoPanel /\ trouble = 0
  BY DEF SlotInit
<1>3. turn \in TurnState /\ TurnSound(turn) /\ turn.tok = NoTok
  BY <1>2, NothingHeld, SenpiAssumption DEF TurnState, TurnSound
<1>4. SlotTypeOK
  <2>1. /\ trouble \in 0 .. MaxTrouble /\ cache \in LeaseState /\ block \in BlockState
        /\ tick \in TickState /\ panel \in PanelState
    BY <1>2, NothingHeld, SenpiAssumption
  <2>2. /\ lock \in {"free", "tick", "panel", "elsewhere"} /\ slotPin \in Account \cup {None}
        /\ env \in Token \cup {NoTok} /\ written \in BOOLEAN /\ due \in BOOLEAN
        /\ fresh \in BOOLEAN /\ occupant \in Account \cup {None}
        /\ dead \subseteq Token /\ throttled \subseteq Account
    BY <1>2
  <2> QED
    BY <1>1, <1>3, <2>1, <2>2, SenpiTypes
<1> QED
  BY <1>2, <1>3, <1>4, NothingHeld, TokenAccount
     DEF SenpiIInv, TickSound, Occupied, BlockSound

LEMMA SenpiSteps == SenpiIInv /\ [SlotNext]_senpiVars => SenpiIInv'
<1> SUFFICES ASSUME SenpiIInv, [SlotNext]_senpiVars
             PROVE  SenpiIInv'
  OBVIOUS
<1>1. CASE UNCHANGED senpiVars
  <2>1. SlotTypeOK /\ WorldTypeOK
    BY SenpiFacts
  <2>2. UNCHANGED <<world, cache, block, lock, slotPin, env, written, due, occupant, fresh, dead,
                    throttled, tick, turn, panel, trouble>>
    BY <1>1 DEF senpiVars, shared, published, books, work
  <2>3. SlotTypeOK'
    BY <2>1, <2>2, SenpiTypes, SenpiTypesNext, WorldStays
  <2> QED
    BY <2>2, <2>3, AsideKeeps, SenpiFacts DEF TickSound
<1>2. CASE TurnStep
  <2>1. CASE AdoptCached(TRUE) \/ AskMaster(TRUE)
    BY <2>1, AdoptCachedKeeps, AskMasterKeeps
  <2>2. CASE GoesWithout \/ Prelude \/ FollowExternal
    BY <2>2, GoesWithoutKeeps, TurnBeginsKeeps, FollowExternalKeeps
  <2>3. CASE TurnAudit \/ Send \/ Result \/ Settle
    BY <2>3, TurnAuditKeeps, SendKeeps, ResultKeeps, SettleKeeps
  <2> QED
    BY <1>2, <2>1, <2>2, <2>3 DEF TurnStep
<1>3. CASE UserTurn \/ TickStarts \/ TickAnswered \/ Wakes
  BY <1>3, TurnBeginsKeeps, AdoptCachedKeeps, AskMasterKeeps, TickAnsweredKeeps,
     WakesKeeps
     DEF TickStarts
<1>4. CASE SwitchAnswered \/ LeaseDue \/ GraceLapses \/ DeadlinePasses \/ HostRestarts
  BY <1>4, SwitchAnsweredKeeps, LeaseDueKeeps, GraceLapsesKeeps,
     DeadlinePassesKeeps,
     HostRestartsKeeps
<1>5. CASE ElsewhereStarts \/ ElsewhereEnds \/ \E a \in Account : ElsewhereRefused(a)
  BY <1>5, ElsewhereKeeps
<1>6. CASE Vendor
  BY <1>6, VendorKeeps
<1>7. CASE \E a \in Account, pinned \in BOOLEAN : BeginSwitch(a, pinned)
  BY <1>7, BeginSwitchKeeps
<1> QED
  BY <1>1, <1>2, <1>3, <1>4, <1>5, <1>6, <1>7 DEF SlotNext

\* What a step may hold against an account.
Guilty == block.by = "here" /\ ~Outlived => throttled' \ throttled \subseteq {block.of}

\* Only an audit condemns, and then the occupant, whose the block is by then.
LEMMA AuditIsJust == ASSUME SenpiIInv, AuditBlocks PROVE Guilty
<1>1. BlockSound /\ fresh \in BOOLEAN
  BY SenpiFacts
<1>2. throttled' \subseteq throttled \cup Condemned
  BY AuditFacts
<1> QED
  BY <1>1, <1>2 DEF Guilty, BlockSound, Outlived, Condemned

LEMMA SenpiStepsAreJust == SenpiIInv /\ [SlotNext]_senpiVars => [Guilty]_senpiVars
<1> SUFFICES ASSUME SenpiIInv, [SlotNext]_senpiVars
             PROVE  Guilty
  OBVIOUS
<1>1. CASE throttled' \subseteq throttled
  BY <1>1 DEF Guilty
<1>2. CASE TurnAudit \/ Settle
  BY <1>2, AuditIsJust DEF TurnAudit, Settle
<1>3. CASE TurnStep /\ ~TurnAudit /\ ~Settle
  BY <1>1, <1>3
     DEF TurnStep, AdoptCached, AskMaster, GoesWithout, Prelude, FollowExternal, Send, Result, books
<1>4. CASE UserTurn \/ TickStarts \/ TickAnswered \/ Wakes
  BY <1>1, <1>4
     DEF UserTurn, TickStarts, AdoptCached, AskMaster, TickAnswered, Wakes, books
<1>5. CASE SwitchAnswered \/ LeaseDue \/ GraceLapses \/ DeadlinePasses \/ HostRestarts
  BY <1>1, <1>5
     DEF SwitchAnswered, LeaseDue, GraceLapses, DeadlinePasses, HostRestarts, books
<1>6. CASE ElsewhereStarts \/ ElsewhereEnds \/ Vendor
  BY <1>1, <1>6 DEF ElsewhereStarts, ElsewhereEnds, Vendor, books
<1>7. CASE \E a \in Account : ElsewhereRefused(a) \/ \E pinned \in BOOLEAN : BeginSwitch(a, pinned)
  BY <1>1, <1>7 DEF ElsewhereRefused, BeginSwitch, books
<1>8. CASE UNCHANGED senpiVars
  BY <1>1, <1>8 DEF senpiVars, books
<1> QED
  BY <1>2, <1>3, <1>4, <1>5, <1>6, <1>7, <1>8 DEF SlotNext

\* The senpi slot's inductive invariant: the types; the counter of resumes keeps up
\* with what has been injected; a turn that joined a tick is waiting for it; the
\* environment holds the occupant's token, and a slot from which one was sent has an
\* occupant; and a limit stamped here is the occupant's, is that of the turn that has
\* just failed, or can throttle nobody any more.
THEOREM SenpiInvariant == SlotSpec => []SenpiIInv
<1> QED
  BY SenpiStart, SenpiSteps, PTL DEF SlotSpec

\* Between two turns of the operator the recovery injects no more resumes than the
\* ladder has rungs, whichever accounts fail and whoever moves in meanwhile.
THEOREM SenpiBoundsResumes == SlotSpec => []ResumesBounded
<1>1. SenpiIInv => ResumesBounded
  BY DEF SenpiIInv, TurnSound, ResumesBounded
<1> QED
  BY <1>1, SenpiInvariant, PTL

\* A limit is held against the account that ran into it and never against the one
\* that has moved in since, whatever the panel, the tick and the other hosts do in
\* between - save by the audit of a turn that is sent before the newcomer moves in
\* and ends after the newcomer's grace.
THEOREM SenpiCondemnsTheGuilty == SlotSpec => CondemnsTheGuilty
<1>1. SlotSpec => [][Guilty]_senpiVars
  BY SenpiInvariant, SenpiStepsAreJust, PTL DEF SlotSpec
<1> QED
  BY <1>1 DEF CondemnsTheGuilty, Guilty

-----------------------------------------------------------------------------
(* The worker's lease and pin.                                             *)

CallState ==
  [pc : {"idle", "reporting", "calling", "recording"},
   kind : {"none", "renew", "limit", "stale", "switch", "pin", "unpin"},
   named : Who, cur : Who, prev : Who, got : Who]

FileState == [acct : Account, gen : 1 .. MaxGen, age : Age] \cup {NoLease}

\* The typing invariant, one conjunct each, as the steps below use it.
LEMMA WorkerTypes ==
  WorkerTypeOK <=>
    /\ WorldTypeOK /\ trouble \in 0 .. MaxTrouble /\ slot \in FileState
    /\ recorded \in Who /\ heldId \in Who /\ storedPin \in Who
    /\ sent \in [Session -> Token \cup {NoTok}] /\ proc \in [Proc -> CallState]
BY DEF WorkerTypeOK, FileState, CallState

\* The same of the next state.
LEMMA WorkerTypesNext ==
  WorkerTypeOK' <=>
    /\ WorldTypeOK' /\ trouble' \in 0 .. MaxTrouble /\ slot' \in FileState
    /\ recorded' \in Who /\ heldId' \in Who /\ storedPin' \in Who
    /\ sent' \in [Session -> Token \cup {NoTok}] /\ proc' \in [Proc -> CallState]
BY DEF WorkerTypeOK, FileState, CallState

\* Why a pin may be given up in a step.
GivenUpRightly ==
  storedPin # None /\ storedPin' = None =>
    \/ \E s \in Session : proc'[s].pc = "reporting"
    \/ \E o \in Panel : proc'[o].kind = "unpin"
    \/ \E p \in Proc : proc[p].kind = "pin" /\ proc'[p].kind = "none"
    \/ \E p \in Proc : proc[p].pc = "calling" /\ proc[p].named \in cooling

\* Only an account that is cooling is refused to whoever names it.
LEMMA RefusedAreCooling ==
  ASSUME NEW reason, NEW current, NEW named \in Who, NEW avoid,
         NEW answer \in LeaseAnswers(reason, current, named, avoid), answer.kind = "refused"
  PROVE  named # None => named \in cooling
<1> SUFFICES ASSUME named # None PROVE named \in cooling
  OBVIOUS
<1>1. answer \in {Unreachable} \cup NamedAnswers(named)
  BY DEF LeaseAnswers
<1> QED
  BY <1>1 DEF NamedAnswers, Unreachable, Served

LEMMA Parties == Session \subseteq Proc /\ Panel \subseteq Proc /\ Keeper \in Proc
BY DEF Proc

\* A call as it begins.
LEMMA CallBegins ==
  ASSUME NEW kind \in {"renew", "limit", "stale", "switch", "pin", "unpin"},
         NEW named \in Who, NEW cur \in Who
  PROVE  /\ IdleProc \in CallState /\ IdleProc.kind = "none"
         /\ Calling(kind, named, cur) \in CallState /\ Calling(kind, named, cur).kind = kind
<1> DEFINE v == [IdleProc EXCEPT !.pc = "calling", !.kind = kind]
<1>1. IdleProc \in CallState /\ IdleProc.kind = "none"
  BY DEF IdleProc, CallState, Who
<1>2. v \in CallState /\ v.kind = kind
  BY <1>1 DEF CallState
<1>3. Calling(kind, named, cur) = [v EXCEPT !.named = named, !.cur = cur]
  BY DEF Calling
<1> HIDE DEF v
<1>4. Calling(kind, named, cur) \in CallState /\ Calling(kind, named, cur).kind = kind
  BY <1>2, <1>3 DEF CallState
<1> QED
  BY <1>1, <1>4

\* One process moves on.
LEMMA OneCallMoves ==
  ASSUME proc \in [Proc -> CallState], NEW p \in Proc, NEW r \in CallState,
         proc' = [proc EXCEPT ![p] = r]
  PROVE  proc' \in [Proc -> CallState] /\ proc'[p] = r
OBVIOUS

\* The loop's call and a session's after a 401.
LEMMA AutomaticKeeps ==
  ASSUME WorkerTypeOK, Tick \/ \E s \in Session : StaleHit(s)
  PROVE  WorkerTypeOK' /\ GivenUpRightly
<1>1. UNCHANGED <<world, slot, recorded, heldId, storedPin, trouble>>
  BY DEF Tick, StaleHit, machine
<1>2. proc' \in [Proc -> CallState] /\ sent' \in [Session -> Token \cup {NoTok}]
  <2>1. CASE Tick
    <3>1. Calling("renew", PinnedName, heldId) \in CallState
      BY WorkerTypes, CallBegins DEF PinnedName
    <3> QED
      BY <2>1, <3>1, WorkerTypes, OneCallMoves, Parties DEF Tick
  <2>2. ASSUME NEW s \in Session, StaleHit(s)
        PROVE  proc' \in [Proc -> CallState] /\ sent' \in [Session -> Token \cup {NoTok}]
    <3>1. Calling("stale", PinnedName, recorded) \in CallState
      BY WorkerTypes, CallBegins DEF PinnedName
    <3> QED
      BY <2>2, <3>1, WorkerTypes, OneCallMoves, Parties DEF StaleHit
  <2> QED
    BY <2>1, <2>2
<1> QED
  BY <1>1, <1>2, WorkerTypes, WorkerTypesNext, WorldStays DEF GivenUpRightly

LEMMA LimitHitKeeps ==
  ASSUME WorkerTypeOK, NEW s \in Session, LimitHit(s)
  PROVE  WorkerTypeOK' /\ GivenUpRightly
<1> DEFINE c == Calling("limit", None, recorded)
           r == [c EXCEPT !.pc = "reporting", !.prev = storedPin]
<1>1. UNCHANGED <<world, slot, recorded, heldId, trouble>> /\ storedPin' = None
      /\ proc' = [proc EXCEPT ![s] = r] /\ sent' = [sent EXCEPT ![s] = NoTok]
  BY DEF LimitHit
<1>2. c \in CallState
  BY WorkerTypes, CallBegins DEF Who
<1> HIDE DEF c
<1>3. r \in CallState /\ r.pc = "reporting"
  BY <1>2, WorkerTypes DEF CallState
<1> HIDE DEF r
<1>4. proc' \in [Proc -> CallState] /\ proc'[s].pc = "reporting"
  BY <1>1, <1>3, WorkerTypes, OneCallMoves, Parties
<1>5. WorkerTypeOK'
  BY <1>1, <1>4, WorkerTypes, WorkerTypesNext, WorldStays DEF Who
<1> QED
  BY <1>4, <1>5 DEF GivenUpRightly

LEMMA SessionReportKeeps ==
  ASSUME WorkerTypeOK, NEW s \in Session, Report(s)
  PROVE  WorkerTypeOK' /\ GivenUpRightly
<1>1. UNCHANGED <<minted, revoked, walled, slot, recorded, heldId, storedPin, sent, trouble>>
  BY DEF Report, machine
<1>2. WorldTypeOK' /\ proc[s] \in CallState /\ s \in Proc
  <2>1. proc[s] \in CallState /\ proc[s].cur \in Account \cup {None} /\ s \in Proc
    BY WorkerTypes, Parties DEF CallState, Who
  <2> QED
    BY <1>1, <2>1, WorkerTypes DEF Report, ReportLands, WorldTypeOK
<1>3. [proc[s] EXCEPT !.pc = "calling"] \in CallState
  BY <1>2 DEF CallState
<1>4. proc' = [proc EXCEPT ![s] = [proc[s] EXCEPT !.pc = "calling"]]
  BY DEF Report
<1>5. proc' \in [Proc -> CallState]
  BY <1>2, <1>3, <1>4, WorkerTypes, OneCallMoves
<1> QED
  BY <1>1, <1>2, <1>5, WorkerTypes, WorkerTypesNext DEF GivenUpRightly

LEMMA PressKeeps ==
  ASSUME WorkerTypeOK, NEW o \in Panel, NEW kind \in {"switch", "pin", "unpin"}, NEW a \in Account,
         Press(o, kind, a)
  PROVE  WorkerTypeOK' /\ GivenUpRightly
<1>1. UNCHANGED <<world, slot, recorded, heldId, sent>> /\ trouble' \in 0 .. MaxTrouble
      /\ proc' = [proc EXCEPT ![o] = Calling(kind, a, None)]
      /\ (kind = "pin" => storedPin' = a) /\ (kind = "unpin" => storedPin' = None)
      /\ (kind = "switch" => storedPin' = storedPin)
  BY WorkerTypes, WorkerAssumption DEF Press, Disturb
<1>2. Calling(kind, a, None) \in CallState /\ Calling(kind, a, None).kind = kind
  BY CallBegins DEF Who
<1>3. proc' \in [Proc -> CallState] /\ proc'[o].kind = kind
  BY <1>1, <1>2, WorkerTypes, OneCallMoves, Parties
<1>4. storedPin' \in Who /\ (storedPin # None /\ storedPin' = None => kind = "unpin")
  BY <1>1, WorkerTypes, PoolMasterAssumption DEF Who
<1> QED
  BY <1>1, <1>3, <1>4, WorkerTypes, WorkerTypesNext, WorldStays DEF GivenUpRightly

LEMMA CallAnsweredKeeps ==
  ASSUME WorkerTypeOK, NEW p \in Proc, CallAnswered(p)
  PROVE  WorkerTypeOK' /\ GivenUpRightly
<1>1. PICK answer \in Answer : Answered(p, answer)
  BY DEF CallAnswered
<1>2. /\ proc[p].pc = "calling" /\ UNCHANGED <<world, sent, trouble>>
      /\ answer \in LeaseAnswers(CallReason(p), proc[p].cur, proc[p].named, {})
      /\ \/ answer.kind = "lease" /\ WriteLease(p, answer.acct)
         \/ proc[p].named # None /\ answer.kind = "refused" /\ FallBack(p)
         \/ Fail(p)
  BY <1>1 DEF Answered, PinRefused
<1>3. proc \in [Proc -> CallState] /\ proc[p] \in CallState /\ proc[p].named \in Who /\ WorldTypeOK
  BY WorkerTypes DEF CallState
<1>4. CASE answer.kind = "lease" /\ WriteLease(p, answer.acct)
  <2> DEFINE r == [proc[p] EXCEPT !.pc = "recording", !.got = answer.acct]
  <2>1. answer.acct \in Account
    BY <1>2, <1>3, <1>4, AnswerFacts DEF Who
  <2>2. r \in CallState
    BY <1>3, <2>1 DEF CallState, Who
  <2>3. /\ proc' = [proc EXCEPT ![p] = r] /\ UNCHANGED <<recorded, heldId, storedPin>>
        /\ slot' = [acct |-> answer.acct, gen |-> minted[answer.acct], age |-> "young"]
    BY <1>4 DEF WriteLease
  <2> HIDE DEF r
  <2>4. proc' \in [Proc -> CallState]
    BY <1>3, <2>2, <2>3, OneCallMoves
  <2>5. slot' \in FileState
    BY <1>3, <2>1, <2>3 DEF FileState, WorldTypeOK, Age
  <2> QED
    BY <1>2, <2>3, <2>4, <2>5, WorkerTypes, WorkerTypesNext, WorldStays
       DEF GivenUpRightly
<1>5. CASE proc[p].named # None /\ answer.kind = "refused" /\ FallBack(p)
  <2>1. UNCHANGED <<slot, recorded, heldId>> /\ storedPin' = None
        /\ proc' = [proc EXCEPT ![p] = [proc[p] EXCEPT !.named = None]]
    BY <1>5 DEF FallBack
  <2>2. [proc[p] EXCEPT !.named = None] \in CallState
    BY <1>3 DEF CallState, Who
  <2>3. proc' \in [Proc -> CallState]
    BY <1>3, <2>1, <2>2, OneCallMoves
  <2>4. proc[p].named \in cooling
    BY <1>2, <1>3, <1>5, RefusedAreCooling
  <2>5. WorkerTypeOK'
    BY <1>2, <2>1, <2>3, WorkerTypes, WorkerTypesNext, WorldStays DEF Who
  <2> QED
    BY <1>2, <2>4, <2>5 DEF GivenUpRightly
<1>6. CASE Fail(p)
  <2>1. /\ UNCHANGED <<slot, recorded, heldId>> /\ proc' = [proc EXCEPT ![p] = IdleProc]
        /\ storedPin' = IF proc[p].kind = "pin" THEN None ELSE storedPin
    BY <1>6 DEF Fail
  <2>2. IdleProc \in CallState /\ IdleProc.kind = "none"
    BY DEF IdleProc, CallState, Who
  <2>3. proc' \in [Proc -> CallState] /\ proc'[p].kind = "none"
    BY <1>3, <2>1, <2>2, OneCallMoves
  <2>4. WorkerTypeOK'
    BY <1>2, <2>1, <2>3, WorkerTypes, WorkerTypesNext, WorldStays DEF Who
  <2> QED
    BY <2>1, <2>3, <2>4 DEF GivenUpRightly
<1> QED
  BY <1>2, <1>4, <1>5, <1>6

LEMMA RecordKeeps ==
  ASSUME WorkerTypeOK, NEW p \in Proc, Record(p)
  PROVE  WorkerTypeOK' /\ GivenUpRightly
<1>1. UNCHANGED <<world, slot, sent, trouble>> /\ proc' = [proc EXCEPT ![p] = IdleProc]
      /\ recorded' = proc[p].got /\ heldId' \in {heldId, proc[p].got}
      /\ \/ storedPin' = storedPin
         \/ proc[p].prev # None /\ storedPin' = proc[p].prev
  BY DEF Record
<1>2. proc[p].got \in Who /\ proc[p].prev \in Who /\ IdleProc \in CallState
  BY WorkerTypes, CallBegins DEF CallState, Who
<1>3. proc' \in [Proc -> CallState]
  BY <1>1, <1>2, WorkerTypes, OneCallMoves
<1>4. WorkerTypeOK'
  BY <1>1, <1>2, <1>3, WorkerTypes, WorkerTypesNext, WorldStays
<1> QED
  BY <1>1, <1>4 DEF GivenUpRightly

\* Turns, time and other machines leave the pin alone.
LEMMA TurnsKeep ==
  ASSUME WorkerTypeOK,
         \/ \E s \in Session : TurnStarts(s) \/ TurnEnds(s)
         \/ SlotAges \/ Restart \/ VendorMoves \/ OthersReport
  PROVE  WorkerTypeOK' /\ GivenUpRightly
<1>1. UNCHANGED <<recorded, storedPin>> /\ heldId' \in {heldId, recorded}
  BY DEF TurnStarts, TurnEnds, SlotAges, Restart, VendorMoves, OthersReport, machine
<1>2. CASE \E s \in Session : TurnStarts(s) \/ TurnEnds(s)
  <2>1. UNCHANGED <<world, slot, proc, trouble>>
    BY <1>2 DEF TurnStarts, TurnEnds, machine
  <2>2. sent' \in [Session -> Token \cup {NoTok}]
    <3>1. ASSUME NEW s \in Session, TurnStarts(s)
          PROVE  sent' \in [Session -> Token \cup {NoTok}]
      <4>1. <<slot.acct, slot.gen>> \in Token
        BY <3>1, WorkerTypes DEF TurnStarts, FileState, NoLease, Token
      <4> QED
        BY <3>1, <4>1, WorkerTypes DEF TurnStarts
    <3>2. ASSUME NEW s \in Session, TurnEnds(s)
          PROVE  sent' \in [Session -> Token \cup {NoTok}]
      BY <3>2, WorkerTypes DEF TurnEnds
    <3> QED
      BY <1>2, <3>1, <3>2
  <2> QED
    BY <1>1, <2>1, <2>2, WorkerTypes, WorkerTypesNext, WorldStays DEF GivenUpRightly
<1>3. CASE SlotAges
  <2>1. UNCHANGED <<world, sent, proc, trouble>>
    BY <1>3 DEF SlotAges
  <2>2. slot' \in FileState
    <3>1. PICK age \in Age : slot' = [slot EXCEPT !.age = age]
      BY <1>3 DEF SlotAges, Age
    <3>2. slot \in [acct : Account, gen : 1 .. MaxGen, age : Age]
      BY <1>3, WorkerTypes DEF SlotAges, FileState
    <3> QED
      BY <3>1, <3>2 DEF FileState
  <2> QED
    BY <1>1, <2>1, <2>2, WorkerTypes, WorkerTypesNext, WorldStays DEF GivenUpRightly
<1>4. CASE Restart
  <2>1. UNCHANGED <<world, slot>> /\ trouble' \in 0 .. MaxTrouble
    BY <1>4, WorkerTypes, WorkerAssumption DEF Restart, Disturb
  <2>2. proc' \in [Proc -> CallState] /\ sent' \in [Session -> Token \cup {NoTok}]
    BY <1>4 DEF Restart, IdleProc, CallState, Who
  <2> QED
    BY <1>1, <2>1, <2>2, WorkerTypes, WorkerTypesNext, WorldStays DEF GivenUpRightly
<1>5. CASE VendorMoves
  <2>1. UNCHANGED <<slot, sent, proc>> /\ trouble' \in 0 .. MaxTrouble
    BY <1>5, WorkerTypes, WorkerAssumption DEF VendorMoves, Disturb, machine
  <2>2. WorldTypeOK'
    BY <1>5, WorkerTypes, WorldMovesTyped DEF VendorMoves
  <2> QED
    BY <1>1, <2>1, <2>2, WorkerTypes, WorkerTypesNext DEF GivenUpRightly
<1>6. CASE OthersReport
  <2>1. UNCHANGED <<slot, sent, proc, trouble>>
    BY <1>6 DEF OthersReport, machine
  <2>2. WorldTypeOK'
    BY <1>6, WorkerTypes DEF OthersReport, WorldTypeOK
  <2> QED
    BY <1>1, <2>1, <2>2, WorkerTypes, WorkerTypesNext DEF GivenUpRightly
<1> QED
  BY <1>2, <1>3, <1>4, <1>5, <1>6

LEMMA WorkerStart == WorkerInit => WorkerTypeOK
<1> SUFFICES ASSUME WorkerInit PROVE WorkerTypeOK
  OBVIOUS
<1>1. WorldTypeOK
  BY PoolMasterAssumption DEF WorkerInit, WorldInit, WorldTypeOK
<1>2. IdleProc \in CallState
  BY DEF IdleProc, CallState, Who
<1>3. slot \in FileState /\ recorded \in Who /\ heldId \in Who /\ storedPin \in Who
      /\ sent \in [Session -> Token \cup {NoTok}] /\ proc \in [Proc -> CallState]
  BY <1>2 DEF WorkerInit, FileState, Who
<1> QED
  BY <1>1, <1>3, WorkerTypes, WorkerAssumption DEF WorkerInit

LEMMA WorkerSteps ==
  WorkerTypeOK /\ [WorkerNext]_workerVars => WorkerTypeOK' /\ GivenUpRightly
<1> SUFFICES ASSUME WorkerTypeOK, [WorkerNext]_workerVars
             PROVE  WorkerTypeOK' /\ GivenUpRightly
  OBVIOUS
<1>1. CASE UNCHANGED workerVars
  BY <1>1, WorkerTypes, WorkerTypesNext, WorldStays
     DEF workerVars, machine, GivenUpRightly
<1>2. CASE \E p \in Proc : CallAnswered(p) \/ Record(p)
  BY <1>2, CallAnsweredKeeps, RecordKeeps
<1>3. CASE \E s \in Session : LimitHit(s) \/ Report(s)
  BY <1>3, LimitHitKeeps, SessionReportKeeps
<1>4. CASE Tick \/ \E s \in Session : StaleHit(s)
  BY <1>4, AutomaticKeeps
<1>5. CASE \E o \in Panel, kind \in {"switch", "pin", "unpin"}, a \in Account : Press(o, kind, a)
  BY <1>5, PressKeeps
<1>6. CASE \/ \E s \in Session : TurnStarts(s) \/ TurnEnds(s)
           \/ SlotAges \/ Restart \/ VendorMoves \/ OthersReport
  BY <1>6, TurnsKeep
<1> QED
  BY <1>1, <1>2, <1>3, <1>4, <1>5, <1>6 DEF WorkerNext

\* A worker's pin is given up by a limit, by the operator, by a call that took a pin
\* too far, or because the account named is cooling: never over a lost packet, an
\* empty pool or a race between the loop, a session and the panel.
THEOREM WorkerPinGivenUpRightly == WorkerSpec => PinGivenUpRightly
<1>1. WorkerSpec => [][GivenUpRightly]_workerVars
  BY WorkerStart, WorkerSteps, PTL DEF WorkerSpec
<1> QED
  BY <1>1 DEF PinGivenUpRightly, GivenUpRightly
=============================================================================
