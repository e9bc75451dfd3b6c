------------------------------- MODULE Takeover -------------------------------
(* scripts/cc-takeover.ts: setup adds what the pool needs to a machine whose   *)
(* Claude Code somebody else has configured, revert takes exactly that back.   *)
(* Both are sequences of file writes that may stop after any of them; what is  *)
(* ours is written down in a manifest, which revert moves aside first. Around  *)
(* them the owner edits the same files, and sessions start, run and end under  *)
(* the relay (RelaySessions), whose wrapper asks for the manifest.             *)
(*                                                                             *)
(* A file is what its owner put there - "none", "empty" or "theirs", or for    *)
(* the worker's configuration a version, 0 for no file - and what setup added. *)
EXTENDS RelaySessions

CONSTANTS Master,        \* master addresses, numbers above 0
          MaxCommands,   \* bound: setups and reverts
          MaxMishaps     \* bound: edits by the owner and scripts that stop half way

ASSUME TakeoverAssumption == Master \subseteq Nat \ {0} /\ {MaxCommands, MaxMishaps} \subseteq Nat

VARIABLES
  worker,    \* senpi-worker.json: its owner's version, and the master setup merged into it
  settings,  \* settings.json: the env block, our wrapper in it, the status line
  rc,        \* the shell's start-up file: its owner's text, our block
  skill,     \* the /pool skill
  bins,      \* bin/: the launcher, which stays, and the scripts that go
  manifest, reverting,  \* cc-takeover.json, and the same moved aside
  job,       \* the script that runs
  owner,     \* ghost: what the owner put into each file
  spoiled,   \* ghost: what was lost to a stop or a merge that the manifest missed
  left       \* bounds: commands and mishaps to come; who launches sessions

files == <<worker, settings, rc, skill, bins>>
records == <<manifest, reverting>>
host == <<files, records, job, owner, spoiled, left>>
allVars == <<vars, host>>

Part == {"none", "empty", "theirs"}
Slot == {"none", "ours", "theirs"}
WorkerFile == [base : 0 .. MaxMishaps + 1, pool : Master \cup {0}]

NoRecord == [is |-> FALSE]
Settings == [env : Part \cup {"gateway"}, wrapper : BOOLEAN, status : Slot]
Rc == [text : Part, block : BOOLEAN]

\* TakeoverManifest: unknown until first recorded, and then kept.
Blank == [worker |-> NoRecord, createdEnv |-> "unknown", createdRc |-> "unknown", generated |-> FALSE]
Absent == [is |-> FALSE]
Present(m) == [is |-> TRUE, of |-> m]
First(known, now) == IF known = "unknown" THEN (IF now THEN "yes" ELSE "no") ELSE known

Idle == [pc |-> "off"]
Busy == job.pc # "off"
Next1(pc) == job' = [job EXCEPT !.pc = pc]
\* A change the manifest does not know of yet.
Wrote(pc, changed) == job' = [job EXCEPT !.pc = pc, !.dirty = changed]

Merged(w, m) == [w EXCEPT !.pool = m]

-----------------------------------------------------------------------------
(* setup                                                                      *)

\* Before the questions: the worker's file, and what an earlier setup recorded.
BeginSetup ==
  /\ ~Busy /\ left.commands > 0
  /\ \E m \in Master :
       job' = [pc |-> "asking", master |-> m, dirty |-> FALSE, seen |-> worker,
               man |-> IF manifest.is THEN manifest.of
                       ELSE IF reverting.is THEN reverting.of ELSE Blank,
               plan |-> settings, env |-> settings.env, rc |-> rc]
  /\ left' = [left EXCEPT !.commands = @ - 1]
  /\ UNCHANGED <<vars, files, records, owner, spoiled>>

\* No answer, no claude, a gateway in the way: nothing has been written.
Refuse ==
  /\ job.pc = "asking" /\ job' = Idle
  /\ UNCHANGED <<vars, files, records, owner, spoiled, left>>

AddWrapper(s) == [s EXCEPT !.wrapper = TRUE, !.env = IF @ = "none" THEN "empty" ELSE @]
AddStatusLine(s) == [s EXCEPT !.status = IF @ = "none" THEN "ours" ELSE @]

\* A credential or an address of the owner's that outranks a leased token.
Outranks(part) == part = "gateway"

\* What is looked for in the settings, by setup and before every launch.
Blocked(s) == Outranks(s.env)

\* After them: what will be written to settings and shell is computed here.
Preflight ==
  /\ job.pc = "asking" /\ ~Blocked(settings)
  /\ job' = [job EXCEPT !.pc = "manifest", !.plan = AddStatusLine(AddWrapper(settings)),
                        !.env = IF settings.wrapper THEN "kept" ELSE settings.env, !.rc = rc]
  /\ UNCHANGED <<vars, files, records, owner, spoiled, left>>

SaveFirst ==
  /\ job.pc = "manifest"
  /\ manifest' = Present(job.man) /\ Next1("reverting")
  /\ UNCHANGED <<vars, files, reverting, owner, spoiled, left>>

DropReverting ==
  /\ job.pc = "reverting"
  /\ reverting' = Absent /\ Next1("worker")
  /\ UNCHANGED <<vars, files, manifest, owner, spoiled, left>>

\* The owner's edits since the first setup, or during the questions, are merged
\* or overwritten without being recorded as theirs.
MergeWorker ==
  /\ job.pc = "worker"
  /\ worker' = Merged(job.seen, job.master)
  /\ spoiled' = [spoiled EXCEPT !.merged = @ \/ worker # job.seen
       \/ (job.man.worker.is /\ job.man.worker.before.base # job.seen.base)]
  /\ Wrote("saveWorker", worker' # worker)
  /\ UNCHANGED <<vars, settings, rc, skill, bins, records, owner, left>>

\* Mutant: a second setup takes what it reads for the original.
RecordedAnew(man, seen, after) == [is |-> TRUE, before |-> seen, after |-> after]

\* What the first setup saw stays the original.
Recorded(man, seen, after) ==
  [is |-> TRUE, before |-> IF man.worker.is THEN man.worker.before ELSE seen, after |-> after]

Save(pc, man) == manifest' = Present(man) /\ job' = [job EXCEPT !.pc = pc, !.man = man, !.dirty = FALSE]

SaveWorker ==
  /\ job.pc = "saveWorker"
  /\ Save("bins", [job.man EXCEPT !.worker = Recorded(job.man, job.seen, worker)])
  /\ UNCHANGED <<vars, files, reverting, owner, spoiled, left>>

Generate ==
  /\ job.pc = "bins"
  /\ bins' = [launcher |-> TRUE, scripts |-> TRUE]
  /\ Wrote("saveBins", ~bins.scripts)
  /\ UNCHANGED <<vars, worker, settings, rc, skill, records, owner, spoiled, left>>

SaveGenerated ==
  /\ job.pc = "saveBins"
  /\ Save("settings", [job.man EXCEPT !.generated = TRUE])
  /\ UNCHANGED <<vars, files, reverting, owner, spoiled, left>>

WriteSettings ==
  /\ job.pc = "settings"
  /\ settings' = job.plan
  /\ Wrote("saveSettings", settings' # settings)
  /\ UNCHANGED <<vars, worker, rc, skill, bins, records, owner, spoiled, left>>

SaveSettings ==
  /\ job.pc = "saveSettings"
  /\ Save("skill", [job.man EXCEPT !.createdEnv = First(@, job.env = "none")])
  /\ UNCHANGED <<vars, files, reverting, owner, spoiled, left>>

WriteSkill ==
  /\ job.pc = "skill"
  /\ skill' = IF skill = "theirs" THEN skill ELSE "ours"
  /\ Next1("rc")
  /\ UNCHANGED <<vars, worker, settings, rc, bins, records, owner, spoiled, left>>

AddShellBlock(r) == [text |-> IF r.text = "none" THEN "empty" ELSE r.text, block |-> TRUE]

WriteRc ==
  /\ job.pc = "rc"
  /\ rc' = AddShellBlock(job.rc)
  /\ Wrote("saveRc", rc' # rc)
  /\ UNCHANGED <<vars, worker, settings, skill, bins, records, owner, spoiled, left>>

SaveRc ==
  /\ job.pc = "saveRc"
  /\ Save("relay", [job.man EXCEPT !.createdRc = First(@, job.rc.text = "none")])
  /\ UNCHANGED <<vars, files, reverting, owner, spoiled, left>>

\* SIGTERM to whoever answers on the port.
StopRelay(pc) ==
  /\ IF up THEN RelayGone ELSE UNCHANGED <<port, sessions, launcher>>
  /\ Next1(pc)
  /\ UNCHANGED <<agent, spawned, quiet, files, records, owner, spoiled, left>>

SetupStopsRelay == job.pc = "relay" /\ StopRelay("agent")

\* On a Mac; elsewhere launchers start the relay. The last step but for a test.
LoadAgent ==
  /\ job.pc = "agent" /\ job' = Idle
  /\ agent' \in BOOLEAN /\ (agent => agent')
  /\ UNCHANGED <<port, spawned, sessions, quiet, launcher, files, records, owner, spoiled, left>>

-----------------------------------------------------------------------------
(* revert                                                                     *)

\* The manifest goes first: from here on the wrapper passes everything through.
BeginRevert ==
  /\ ~Busy /\ left.commands > 0
  /\ job' = [pc |-> "unset", dirty |-> FALSE,
             man |-> IF manifest.is THEN manifest.of
                     ELSE IF reverting.is THEN reverting.of ELSE Blank]
  /\ IF manifest.is THEN reverting' = manifest /\ manifest' = Absent ELSE UNCHANGED records
  /\ left' = [left EXCEPT !.commands = @ - 1]
  /\ UNCHANGED <<vars, files, owner, spoiled>>

RemoveWrapper(s, createdEnv) ==
  [s EXCEPT !.wrapper = FALSE,
            !.env = IF s.wrapper /\ createdEnv = "yes" /\ @ = "empty" THEN "none" ELSE @,
            !.status = IF @ = "ours" THEN "none" ELSE @]

Unset ==
  /\ job.pc = "unset" /\ Next1("unblock")
  /\ settings' = RemoveWrapper(settings, job.man.createdEnv)
  /\ UNCHANGED <<vars, worker, rc, skill, bins, records, owner, spoiled, left>>

\* A file setup made, and in which nothing else is left, goes.
RemoveShellBlock(r, createdRc) ==
  IF ~r.block THEN r
  ELSE [text |-> IF createdRc = "yes" /\ r.text = "empty" THEN "none" ELSE r.text, block |-> FALSE]

Unblock ==
  /\ job.pc = "unblock" /\ Next1("unload")
  /\ rc' = RemoveShellBlock(rc, job.man.createdRc)
  /\ UNCHANGED <<vars, worker, settings, skill, bins, records, owner, spoiled, left>>

Unload ==
  /\ job.pc = "unload" /\ Next1("stop")
  /\ agent' = FALSE
  /\ IF resident THEN RelayGone ELSE UNCHANGED <<port, sessions, launcher>>
  /\ UNCHANGED <<spawned, quiet, files, records, owner, spoiled, left>>

RevertStopsRelay == job.pc = "stop" /\ StopRelay("remove")

\* Without a manifest the scripts are known by name; with one, by its list.
RemoveScripts ==
  /\ job.pc = "remove" /\ Next1("unskill")
  /\ bins' = [bins EXCEPT !.scripts = @ /\ ~(job.man.generated \/ ~reverting.is)]
  /\ UNCHANGED <<vars, worker, settings, rc, skill, records, owner, spoiled, left>>

RemoveSkill ==
  /\ job.pc = "unskill" /\ Next1("restore")
  /\ skill' = IF skill = "ours" THEN "none" ELSE skill
  /\ UNCHANGED <<vars, worker, settings, rc, bins, records, owner, spoiled, left>>

\* revertWorker: only while it is still what setup wrote.
Reverted(w, record) ==
  IF ~record.is THEN w ELSE IF w = record.after THEN record.before ELSE w

RestoreWorker ==
  /\ job.pc = "restore" /\ Next1("forget")
  /\ worker' = Reverted(worker, job.man.worker)
  /\ UNCHANGED <<vars, settings, rc, skill, bins, records, owner, spoiled, left>>

Forget ==
  /\ job.pc = "forget" /\ job' = Idle
  /\ reverting' = Absent
  /\ UNCHANGED <<vars, files, manifest, owner, spoiled, left>>

-----------------------------------------------------------------------------
(* The rest of the machine.                                                  *)

\* A script stops: a signal, a full disk, a closed terminal.
Stops ==
  /\ Busy /\ left.mishaps > 0
  /\ job' = Idle
  /\ spoiled' = [spoiled EXCEPT !.unsaved = @ \/ job.dirty]
  /\ left' = [left EXCEPT !.mishaps = @ - 1]
  /\ UNCHANGED <<vars, files, records, owner>>

\* An editor, Claude Code itself, another lane. Never between a script's reading
\* of settings and shell and its writing of them, milliseconds later.
OwnerEdits ==
  /\ job.pc \in {"off", "asking"} /\ left.mishaps > 0
  /\ left' = [left EXCEPT !.mishaps = @ - 1]
  /\ \/ /\ \E v \in IF worker.pool = 0 THEN {0} ELSE Master : worker' = [base |-> owner.version + 1, pool |-> v]
        /\ owner' = [owner EXCEPT !.worker = worker', !.version = @ + 1]
        /\ UNCHANGED <<settings, rc, skill>>
     \/ /\ \E part \in {"theirs", "gateway"} : settings' = [settings EXCEPT !.env = part]
        /\ owner' = [owner EXCEPT !.env = settings'.env]
        /\ UNCHANGED <<worker, rc, skill>>
     \/ /\ settings' = [settings EXCEPT !.status = "theirs"]
        /\ owner' = [owner EXCEPT !.status = "theirs"]
        /\ UNCHANGED <<worker, rc, skill>>
     \/ /\ rc' = [rc EXCEPT !.text = "theirs"]
        /\ owner' = [owner EXCEPT !.rc = "theirs"]
        /\ UNCHANGED <<worker, settings, skill>>
     \/ /\ skill' = "theirs"
        /\ owner' = [owner EXCEPT !.skill = "theirs"]
        /\ UNCHANGED <<worker, settings, rc>>
  /\ UNCHANGED <<vars, bins, records, job, spoiled>>

\* claude-pool needs a configuration; the wrapper is used where it is set, and
\* takes part only while there is a manifest.
MayLaunch(l) ==
  /\ l \in left.launchers /\ worker.pool # 0 /\ ~Blocked(settings)
  /\ l \in Wrapped => settings.wrapper /\ manifest.is

\* The owner's env block and shell file start alike.
Bare(base, part, status) ==
  /\ worker = [base |-> base, pool |-> 0]
  /\ settings = [env |-> part, wrapper |-> FALSE, status |-> status]
  /\ rc = [text |-> part, block |-> FALSE]
  /\ owner = [worker |-> worker, version |-> base, env |-> part, status |-> status,
              rc |-> part, skill |-> "none"]
  /\ skill = "none" /\ bins = [launcher |-> FALSE, scripts |-> FALSE]
  /\ manifest = Absent /\ reverting = Absent /\ job = Idle
  /\ spoiled = [unsaved |-> FALSE, merged |-> FALSE]

\* A machine that is set up and reverted, with mishaps and without sessions, or
\* once and smoothly amid wrapped sessions;
HostInit ==
  \/ /\ \E base \in 0 .. 1, part \in Part, status \in {"none", "theirs"} : Bare(base, part, status)
     /\ left = [commands |-> MaxCommands, mishaps |-> MaxMishaps, launchers |-> {}]
     /\ agent = FALSE
  \/ /\ Bare(0, "none", "none")
     /\ left = [commands |-> 2, mishaps |-> 0, launchers |-> Wrapped]

\* or the takeover is in place and nobody touches it again.
InPlace ==
  /\ \E m \in Master : worker = [base |-> 0, pool |-> m]
  /\ settings = AddStatusLine(AddWrapper([env |-> "none", wrapper |-> FALSE, status |-> "none"]))
  /\ rc = AddShellBlock([text |-> "none", block |-> FALSE])
  /\ skill = "ours" /\ bins = [launcher |-> TRUE, scripts |-> TRUE]
  /\ owner = [worker |-> [base |-> 0, pool |-> 0], version |-> 0, env |-> "none", status |-> "none",
              rc |-> "none", skill |-> "none"]
  /\ manifest = Present([worker |-> Recorded(Blank, owner.worker, worker),
                         createdEnv |-> "yes", createdRc |-> "yes", generated |-> TRUE])
  /\ reverting = Absent /\ job = Idle
  /\ spoiled = [unsaved |-> FALSE, merged |-> FALSE]
  /\ left = [commands |-> 0, mishaps |-> 0, launchers |-> Launcher]

TakeoverInit == SessionsInit /\ (HostInit \/ InPlace)

SetupStep ==
  \/ Preflight \/ SaveFirst \/ DropReverting \/ MergeWorker \/ SaveWorker \/ Generate
  \/ SaveGenerated \/ WriteSettings \/ SaveSettings \/ WriteSkill \/ WriteRc \/ SaveRc
  \/ SetupStopsRelay \/ LoadAgent

RevertStep ==
  \/ Unset \/ Unblock \/ Unload \/ RevertStopsRelay \/ RemoveScripts \/ RemoveSkill
  \/ RestoreWorker \/ Forget

SessionsStep ==
  /\ left.launchers # {} \/ TimePasses
  /\ \/ \E l \in Launcher : LauncherStep(l) \/ SessionEvent(l) \/ (MayLaunch(l) /\ Launch(l))
     \/ RelayStep
  /\ UNCHANGED host

TakeoverNext ==
  \/ BeginSetup \/ Refuse \/ SetupStep \/ BeginRevert \/ RevertStep \/ Stops \/ OwnerEdits
  \/ SessionsStep

TakeoverSpec == TakeoverInit /\ [][TakeoverNext]_allVars /\ SessionsFairness

-----------------------------------------------------------------------------
HostTypeOK ==
  /\ SessionsTypeOK
  /\ worker \in WorkerFile /\ settings \in Settings /\ rc \in Rc /\ skill \in Slot
  /\ {bins.launcher, bins.scripts, manifest.is, reverting.is} \subseteq BOOLEAN

\* After a revert that ran to its end.
AllReverted == ~Busy /\ ~manifest.is /\ ~reverting.is

\* Nothing of ours is left, but for a file the owner decided on since.
NothingLeft ==
  /\ ~settings.wrapper /\ settings.status # "ours" /\ ~rc.block /\ skill # "ours" /\ ~bins.scripts
  /\ settings.env = owner.env /\ rc.text = owner.rc
  /\ worker.pool = 0 \/ owner.worker.pool # 0

\* What the owner put there is there.
EditsSurvive ==
  /\ settings.status = owner.status /\ skill = owner.skill
  /\ worker.base = owner.worker.base

RevertRestores == AllReverted => (spoiled.unsaved \/ NothingLeft) /\ (spoiled.merged \/ EditsSurvive)

\* Claude Code asks for the wrapper wherever it starts a process: the file is
\* there, and if the manifest sends it to the pool, so is a configuration. (A
\* gateway the owner adds later is refused on purpose.)
ClaudeStarts == settings.wrapper => bins.launcher /\ (manifest.is => worker.pool # 0)

\* Revert takes back what setup added, whatever setup or revert was cut short
\* and repeated in between, and Claude Code can be started at every moment.
TakeoverSound == HostTypeOK /\ RevertRestores /\ ClaudeStarts

\* Said of setup: the manifest is updated after every step, so that one that
\* fails half way can be reverted. Not the step that was being taken.
StoppedSetupReverts == AllReverted => NothingLeft

\* Said of the manifest: what a second setup reads is what the first one wrote.
\* Not if the owner has edited it in between.
EditsAlwaysSurvive == AllReverted => EditsSurvive

\* Said of revert: once the manifest is gone, every Claude Code process is back
\* on its own account. Not the one that asked for it just before.
NoneEntersAfterRevert ==
  [][\A l \in Wrapped : ~launcher[l].child /\ launcher'[l].child => manifest.is]_allVars
=============================================================================
