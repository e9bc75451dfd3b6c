---------------------------- MODULE RelaySessions ----------------------------
(* The life of the relay process: launchers that find or start it, register   *)
(* their session and re-register it with every heartbeat; the relay that      *)
(* reaps dead sessions and leaves when it has been idle; the port, of which   *)
(* only one process can be the owner. A session is started by claude-pool,    *)
(* which stays and beats for it, or by the process wrapper, which registers   *)
(* the pid and becomes the session. Where the relay is a launchd job, launchd *)
(* starts it again whenever it is gone.                                       *)
EXTENDS Naturals, FiniteSets

CONSTANTS Launcher,       \* launcher processes, by pid
          Wrapped,        \* those of them that are the process wrapper
          Heartbeat,      \* HEARTBEAT_MS
          AttachTimeout,  \* CONTROL_TIMEOUT_MS
          IdleExit,       \* RELAY_IDLE_EXIT_MS
          MaxSpawn        \* bound: relays started and not yet bound

ASSUME SessionsAssumption ==
  /\ {Heartbeat, AttachTimeout, IdleExit, MaxSpawn} \subseteq Nat \ {0}
  /\ Wrapped \subseteq Launcher
  /\ 2 * (Heartbeat + AttachTimeout) < IdleExit

VARIABLES
  up,        \* a relay owns the port
  resident,  \* and it is the one that never leaves
  agent,     \* launchd keeps a resident relay
  spawned,   \* relays started that have not tried the port yet
  sessions,  \* pids the relay has registered
  quiet,     \* time since its lastActivity, up to IdleExit
  launcher   \* launcher[l]: where it is, whether its child runs, time since its last beat

port == <<up, resident>>
vars == <<up, resident, agent, spawned, sessions, quiet, launcher>>

Off == [pc |-> "off", child |-> FALSE, since |-> 0]

SessionsTypeOK ==
  /\ {up, resident, agent} \subseteq BOOLEAN
  /\ spawned \in 0 .. MaxSpawn
  /\ sessions \subseteq Launcher
  /\ quiet \in 0 .. IdleExit
  /\ launcher \in [Launcher ->
       [pc : {"off", "probing", "starting", "attaching", "attached", "running", "execed", "leaving"},
        child : BOOLEAN, since : 0 .. Heartbeat + AttachTimeout]]

At(l, pc) == launcher[l].pc = pc
Goes(l, pc) == launcher' = [launcher EXCEPT ![l].pc = pc]

\* Nothing came of it: a launch is given up, a session waits for its next beat.
AfterFailure(l) == IF launcher[l].child THEN [launcher[l] EXCEPT !.pc = "running"] ELSE Off

Fails(l) == launcher' = [launcher EXCEPT ![l] = AfterFailure(l)]

\* What the relay does not know to be over: sockets it has accepted.
Pending == {l \in Launcher : At(l, "attached")}

-----------------------------------------------------------------------------
(* A launcher (runPooledSession, ensureRunning, attach, detach).             *)

\* The wrapper's gate is in Takeover.
Launch(l) ==
  /\ At(l, "off")
  /\ Goes(l, "probing")
  /\ UNCHANGED <<port, agent, spawned, sessions, quiet>>

Beat(l) ==
  /\ At(l, "running") /\ launcher[l].since >= Heartbeat
  /\ launcher' = [launcher EXCEPT ![l].pc = "probing", ![l].since = 0]
  /\ UNCHANGED <<port, agent, spawned, sessions, quiet>>

\* Mutant: a heartbeat only registers, it starts no relay.
ProbeOnly(l) ==
  /\ At(l, "probing")
  /\ IF up THEN Goes(l, "attaching") /\ UNCHANGED spawned
     ELSE IF launcher[l].child THEN Fails(l) /\ UNCHANGED spawned
     ELSE Goes(l, "starting") /\ spawned' = 1
  /\ UNCHANGED <<port, agent, sessions, quiet>>

\* A detached process, which outlives the launcher that started it.
OneMore == IF spawned < MaxSpawn THEN spawned + 1 ELSE spawned

\* Nobody answers on the port: start a relay and poll for it.
Probe(l) ==
  /\ At(l, "probing")
  /\ IF up THEN Goes(l, "attaching") /\ UNCHANGED spawned
     ELSE Goes(l, "starting") /\ spawned' = OneMore
  /\ UNCHANGED <<port, agent, sessions, quiet>>

Poll(l) ==
  /\ At(l, "starting")
  /\ IF up THEN Goes(l, "attaching") ELSE Fails(l)
  /\ UNCHANGED <<port, agent, spawned, sessions, quiet>>

\* Mutant: only a successful registration counts as activity.
AttachQuietly(l) ==
  /\ At(l, "attaching")
  /\ IF up THEN sessions' = sessions \cup {l} /\ Goes(l, "attached")
     ELSE Fails(l) /\ UNCHANGED sessions
  /\ UNCHANGED <<port, agent, spawned, quiet>>

\* Registration reaches the relay, which now asks for the shared lease.
Attach(l) ==
  /\ At(l, "attaching")
  /\ IF up THEN /\ sessions' = sessions \cup {l} /\ quiet' = 0
                /\ Goes(l, "attached")
     ELSE Fails(l) /\ UNCHANGED <<sessions, quiet>>
  /\ UNCHANGED <<port, agent, spawned>>

AttachGranted(l) ==
  /\ At(l, "attached") /\ up
  /\ launcher' = [launcher EXCEPT ![l] =
       [pc |-> IF l \in Wrapped THEN "execed" ELSE "running", child |-> TRUE,
        since |-> IF @.child THEN @.since ELSE 0]]
  /\ UNCHANGED <<port, agent, spawned, sessions, quiet>>

\* No lease: the relay takes the pid out again.
AttachDenied(l) ==
  /\ At(l, "attached") /\ up
  /\ sessions' = sessions \ {l}
  /\ Fails(l)
  /\ UNCHANGED <<port, agent, spawned, quiet>>

\* The relay did not answer in time.
AttachUnanswered(l) ==
  /\ At(l, "attached")
  /\ Fails(l)
  /\ UNCHANGED <<port, agent, spawned, sessions, quiet>>

ChildExits(l) ==
  /\ At(l, "running")
  /\ launcher' = [launcher EXCEPT ![l] = [pc |-> "leaving", child |-> FALSE, since |-> 0]]
  /\ UNCHANGED <<port, agent, spawned, sessions, quiet>>

\* The wrapper has become the session: when that ends, nobody says so.
ExecedExits(l) ==
  /\ At(l, "execed")
  /\ launcher' = [launcher EXCEPT ![l] = Off]
  /\ UNCHANGED <<port, agent, spawned, sessions, quiet>>

\* Any request of a session is activity, registered or not.
Asks(l) ==
  /\ launcher[l].child /\ up /\ quiet' = 0
  /\ UNCHANGED <<port, agent, spawned, sessions, launcher>>

Detach(l) ==
  /\ At(l, "leaving")
  /\ IF up THEN sessions' = sessions \ {l} /\ quiet' = 0 ELSE UNCHANGED <<sessions, quiet>>
  /\ launcher' = [launcher EXCEPT ![l] = Off]
  /\ UNCHANGED <<port, agent, spawned>>

\* kill -9: nobody detaches.
Killed(l) ==
  /\ ~At(l, "off")
  /\ launcher' = [launcher EXCEPT ![l] = Off]
  /\ UNCHANGED <<port, agent, spawned, sessions, quiet>>

-----------------------------------------------------------------------------
(* The relay.                                                                *)

\* A started relay takes the port, or finds it taken and leaves.
Bind ==
  /\ spawned > 0
  /\ spawned' = spawned - 1
  /\ IF up THEN UNCHANGED <<port, sessions, quiet>>
     ELSE up' = TRUE /\ resident' = FALSE /\ sessions' = {} /\ quiet' = 0
  /\ UNCHANGED <<agent, launcher>>

\* launchd starts its relay again and again until that one has the port.
AgentBinds ==
  /\ agent /\ ~up
  /\ up' = TRUE /\ resident' = TRUE /\ sessions' = {} /\ quiet' = 0
  /\ UNCHANGED <<agent, spawned, launcher>>

Alive == {l \in Launcher : ~At(l, "off")}

\* tick: reap; with sessions left, count as active.
Reap ==
  /\ up /\ sessions \cap Alive # {}
  /\ sessions' = sessions \cap Alive /\ quiet' = 0
  /\ UNCHANGED <<port, agent, spawned, launcher>>

\* tick: without, leave after a quiet spell, unless something is being served.
LeaveWhenIdle ==
  /\ up /\ sessions \cap Alive = {}
  /\ IF quiet = IdleExit /\ Pending = {} /\ ~resident THEN up' = FALSE ELSE UNCHANGED up
  /\ sessions' = {}
  /\ UNCHANGED <<resident, agent, spawned, quiet, launcher>>

\* The end of a relay breaks the registrations under way.
RelayGone ==
  /\ up' = FALSE /\ resident' = FALSE /\ sessions' = {}
  /\ launcher' = [l \in Launcher |-> IF l \in Pending THEN AfterFailure(l) ELSE launcher[l]]

RelayDies ==
  /\ up /\ RelayGone
  /\ UNCHANGED <<agent, spawned, quiet>>

\* Time, not past a beat that is due nor past a registration's timeout.
TimePasses ==
  /\ \A l \in Launcher :
       /\ At(l, "running") => launcher[l].since < Heartbeat
       /\ launcher[l].child => launcher[l].since < Heartbeat + AttachTimeout
  /\ quiet' = IF quiet < IdleExit THEN quiet + 1 ELSE quiet
  /\ launcher' = [l \in Launcher |-> IF launcher[l].child /\ l \notin Wrapped
                                     THEN [launcher[l] EXCEPT !.since = @ + 1] ELSE launcher[l]]
  /\ UNCHANGED <<port, agent, spawned, sessions>>

-----------------------------------------------------------------------------
SessionsInit ==
  /\ up = FALSE /\ resident = FALSE /\ agent \in BOOLEAN /\ spawned = 0 /\ sessions = {} /\ quiet = IdleExit
  /\ launcher = [l \in Launcher |-> Off]

LauncherStep(l) ==
  \/ Probe(l) \/ Poll(l) \/ Attach(l) \/ Beat(l) \/ Detach(l)
  \/ AttachGranted(l) \/ AttachDenied(l) \/ AttachUnanswered(l)

SessionEvent(l) == ChildExits(l) \/ ExecedExits(l) \/ Killed(l) \/ Asks(l)

RelayStep == Bind \/ AgentBinds \/ Reap \/ LeaveWhenIdle \/ RelayDies \/ TimePasses

\* Timeouts end every wait, intervals fire, and a started process runs.
SessionsFairness ==
  /\ \A l \in Launcher : WF_vars(LauncherStep(l))
  /\ WF_vars(Bind) /\ WF_vars(AgentBinds) /\ WF_vars(TimePasses)

-----------------------------------------------------------------------------
\* The relay never leaves under a session that beats - not even while the
\* master grants it nothing, so that each of its registrations is undone at
\* once; nor, where launchd keeps it, under any session.
NeverLeavesSessions ==
  [][LeaveWhenIdle /\ up' = FALSE =>
       \A l \in Launcher : launcher[l].child => l \in Wrapped /\ ~resident]_vars

\* A session whose relay died gets one again: from its own next beat, or from
\* launchd.
LostRelayReturns ==
  \A l \in Launcher :
    launcher[l].child /\ ~up /\ (l \notin Wrapped \/ agent)
      ~> up \/ ~launcher[l].child \/ (l \in Wrapped /\ ~agent)

\* What the relay's entry point says of its idle exit, that it comes after all
\* sessions have ended. It does not: a relay that was started again knows
\* nothing of a wrapped session, which never registers twice.
LeavesNobody == [][LeaveWhenIdle /\ up' = FALSE => \A l \in Launcher : ~launcher[l].child]_vars
=============================================================================
