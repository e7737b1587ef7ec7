------------------------------- MODULE Upgrade -------------------------------
(***************************************************************************)
(* Self-upgrade on macOS and Windows: the command line stages a candidate  *)
(* and starts an independent worker, which replaces the installed          *)
(* executable inside a journalled transaction while the Portal is stopped, *)
(* starts the candidate on trial and commits or rolls back.  The Rust side *)
(* is upgrade.rs, macos_upgrade.rs, windows_upgrade.rs; the workers are    *)
(* the scripts they embed (portal-macos-upgrade.py, portal-lifecycle.ps1). *)
(*                                                                         *)
(* Command lines, workers, the Portal, its guardian and the user are       *)
(* processes that interleave at every file they write; a worker may be     *)
(* killed between any two of its steps.                                    *)
(***************************************************************************)
EXTENDS Naturals

CONSTANTS
    Requests,         \* upgrade commands, each with its stage and candidate
    Original,         \* the first image of the executable
    None,
    MaxCrashes        \* bound on killed workers

ASSUME DistinctAssumption ==
    Original \notin Requests /\ None \notin Requests \cup {Original}
ASSUME BoundAssumption == MaxCrashes \in Nat

(* An image is named by the request whose candidate it is. *)
Images == Requests \cup {Original}

VARIABLES
    platform,  \* "mac" or "windows"
    guardian,  \* who restarts the Portal: "launchd", "session", "supervisor", nobody
               \* but the start.sh a worker runs ("script"), "none"
    version,   \* [Requests -> version of the candidate]; the original has version 1
    exe,       \* the installed executable
    backup,    \* [Requests -> stage/previous, or heart-portal.bak]
    journal,   \* .portal-upgrade.json: the request whose transaction is open
    owner,     \* the worker that holds .portal-upgrade.lock exclusively
    gate,      \* Windows: the worker that holds .portal-lifecycle.lock
    portal,    \* the image the running Portal executes
    asked,     \* a restart was asked of the guardian and not yet done
    scripts,   \* how many start.sh of workers have not executed the Portal yet
    slipped,   \* a worker went on while a start it asked for was still to come
    cli,       \* [Requests -> the command line]
    told,      \* [Requests -> what it reported]
    wrk,       \* [Requests -> where the worker is]
    accepted,  \* [Requests -> accepted.json exists]
    error,     \* [Requests -> error.json exists]
    outcome,   \* [Requests -> result.json; on Windows the last status]
    crashes

fixedVars == <<platform, version>>
fileVars  == <<accepted, error>>
askVars   == <<asked, scripts, slipped>>
vars == <<fixedVars, guardian, exe, backup, journal, owner, gate, portal, askVars,
          cli, told, wrk, fileVars, outcome, crashes>>

Guardians == [mac |-> {"launchd", "session", "script", "none"}, windows |-> {"supervisor", "none"}]
Points == {"none", "begin", "journal", "accept", "await", "stop", "replace", "start", "verify",
           "commit", "restore", "put back", "restart", "reverify", "finish", "settle",
           "done", "dead"}

TypeOK ==
    /\ platform \in {"mac", "windows"}
    /\ guardian \in Guardians[platform]
    /\ version \in [Requests -> Nat]
    /\ exe \in Images \cup {None}
    /\ backup \in [Requests -> Images \cup {None}]
    /\ journal \in Requests \cup {None}
    /\ owner \in Requests \cup {None}
    /\ gate \in Requests \cup {None}
    /\ portal \in Images \cup {None}
    /\ asked \in BOOLEAN
    /\ scripts \in Nat
    /\ slipped \in BOOLEAN
    /\ cli \in [Requests -> {"idle", "waiting", "gone"}]
    /\ told \in [Requests -> {"nothing", "accepted", "rejected", "unknown", "ended"}]
    /\ wrk \in [Requests -> Points]
    /\ accepted \in [Requests -> BOOLEAN]
    /\ error \in [Requests -> BOOLEAN]
    /\ outcome \in [Requests -> {"none", "failed", "rolled back", "succeeded"}]
    /\ crashes \in 0..MaxCrashes

Mac == platform = "mac"
VersionOf(image) == IF image = Original THEN 1 ELSE version[image]
Newer(r) == version[r] > VersionOf(exe)

(* What a start of the Portal needs to get past startup_guard. *)
Maintenance == IF Mac THEN owner # None ELSE gate # None

Begin ==
    /\ platform \in {"mac", "windows"}
    /\ guardian \in Guardians[platform]
    /\ version \in [Requests -> 2..3]
    /\ backup = [r \in Requests |-> None]
    /\ journal = None
    /\ owner = None
    /\ gate = None
    /\ portal = None
    /\ asked = FALSE
    /\ scripts = 0
    /\ slipped = FALSE
    /\ cli = [r \in Requests |-> "idle"]
    /\ told = [r \in Requests |-> "nothing"]
    /\ wrk = [r \in Requests |-> "none"]
    /\ accepted = [r \in Requests |-> FALSE]
    /\ error = [r \in Requests |-> FALSE]
    /\ outcome = [r \in Requests |-> "none"]
    /\ crashes = 0

Init == Begin /\ exe = Original

GoesTo(r, point) == wrk' = [wrk EXCEPT ![r] = point]

(* Nobody waits longer than 35 s for a guardian or a script.               *)
Pending == asked \/ scripts > 0
GoesOn == slipped' = (slipped \/ Pending)

(* Locks are the operating system's: they go with the process. *)
Releases(r) ==
    /\ owner' = IF owner = r THEN None ELSE owner
    /\ gate' = IF gate = r THEN None ELSE gate

-----------------------------------------------------------------------------
(* The command line: handoff_to, upgrade_file and handoff *)

(* The Windows command asks the candidate for its version, too; macOS      *)
(* leaves that to the worker.                                              *)
Submit(r) ==
    /\ cli[r] = "idle"
    /\ exe # None
    /\ Mac \/ Newer(r)
    /\ cli' = [cli EXCEPT ![r] = "waiting"]
    /\ GoesTo(r, "begin")
    /\ UNCHANGED <<fixedVars, guardian, exe, backup, journal, owner, gate, portal, askVars, told,
                   fileVars, outcome, crashes>>

Report(r, what) ==
    /\ cli' = [cli EXCEPT ![r] = "gone"]
    /\ told' = [told EXCEPT ![r] = what]

(* One turn of the polling loop that finds something: the files in the     *)
(* order of the code, then on Windows the exit of the worker.              *)
Answer(r) ==
    CASE error[r] -> "rejected"
      [] ~error[r] /\ Mac /\ outcome[r] # "none" /\ ~accepted[r] -> "ended"
      [] ~error[r] /\ accepted[r] -> "accepted"
      [] ~error[r] /\ ~accepted[r] /\ ~Mac /\ wrk[r] \in {"done", "dead"} -> "rejected"
      [] OTHER -> "nothing"

Poll(r) ==
    /\ cli[r] = "waiting"
    /\ Answer(r) # "nothing"
    /\ Report(r, Answer(r))
    /\ UNCHANGED <<fixedVars, guardian, exe, backup, journal, owner, gate, portal, askVars, wrk,
                   fileVars, outcome, crashes>>

(* The deadline: macOS leaves the worker alone, Windows terminates it.  An *)
(* acceptance may have been written since the last look at the files.      *)
Deadline(r) ==
    /\ cli[r] = "waiting"
    /\ IF Mac
       THEN Report(r, "unknown") /\ UNCHANGED <<wrk, owner, gate>>
       ELSE /\ Report(r, "rejected")
            /\ Releases(r)
            /\ GoesTo(r, IF wrk[r] = "done" THEN "done" ELSE "dead")
    /\ UNCHANGED <<fixedVars, guardian, exe, backup, journal, portal, askVars, fileVars, outcome, crashes>>

Interrupted(r) ==
    /\ cli[r] = "waiting"
    /\ Report(r, "nothing")
    /\ UNCHANGED <<fixedVars, guardian, exe, backup, journal, owner, gate, portal, askVars, wrk,
                   fileVars, outcome, crashes>>

-----------------------------------------------------------------------------
(* The worker: admission *)

(* Lock, signature or checksum, version and, on macOS, the copy of the     *)
(* installed executable: nothing of the installation is touched.  macOS    *)
(* adopts a live unsupervised Portal into a session guardian.              *)
Admit(r) ==
    /\ wrk[r] = "begin"
    /\ owner = None /\ gate = None
    /\ journal = None
    /\ outcome[r] = "none"
    /\ Newer(r)
    /\ owner' = r
    /\ IF Mac
       THEN /\ GoesTo(r, "journal")
            /\ backup' = [backup EXCEPT ![r] = exe]
            /\ guardian' = IF guardian = "none" /\ portal # None THEN "session" ELSE guardian
            /\ UNCHANGED gate
       ELSE /\ GoesTo(r, "accept")
            /\ gate' = r
            /\ UNCHANGED <<backup, guardian>>
    /\ UNCHANGED <<fixedVars, exe, journal, portal, askVars, cli, told, fileVars, outcome, crashes>>

(* The worker fails before a transaction of its own is open: a busy lock,  *)
(* another journal, a candidate that fails its checks.  That is reported,  *)
(* unless macOS accepted the request or it owns the journal: then only a   *)
(* lock can be in the way, the worker exits with 1 and is run again.       *)
Reject(r) ==
    /\ wrk[r] = "begin"
    /\ outcome[r] = "none"
    /\ IF journal = r \/ (Mac /\ accepted[r])
       THEN /\ owner # None \/ gate # None
            /\ GoesTo(r, "dead")
            /\ error' = [error EXCEPT ![r] = @ \/ ~Mac]
            /\ UNCHANGED outcome
       ELSE /\ GoesTo(r, "done")
            /\ error' = [error EXCEPT ![r] = TRUE]
            /\ outcome' = [outcome EXCEPT ![r] = "failed"]
    /\ UNCHANGED <<fixedVars, guardian, exe, backup, journal, owner, gate, portal, askVars, cli, told,
                   accepted, crashes>>

(* A worker run again after a durable result only removes its journal. *)
AlreadyEnded(r) ==
    /\ wrk[r] = "begin"
    /\ outcome[r] # "none"
    /\ journal' = IF journal = r THEN None ELSE journal
    /\ GoesTo(r, "done")
    /\ UNCHANGED <<fixedVars, guardian, exe, backup, owner, gate, portal, askVars, cli, told, fileVars,
                   outcome, crashes>>

(* An own journal without a result: the transaction was interrupted.       *)
(* On Windows Repair-PortalInterruptedUpgrade, under both locks.           *)
ResumeForgetful(r) ==                                            \* mutant
    /\ wrk[r] = "begin"
    /\ owner = None /\ gate = None
    /\ journal = r
    /\ GoesOn
    /\ owner' = r
    /\ gate' = IF Mac THEN None ELSE r
    /\ GoesTo(r, "restore")
    /\ UNCHANGED <<fixedVars, guardian, exe, backup, journal, portal, asked, scripts, cli, told,
                   fileVars, outcome, crashes>>
Resume(r) ==
    /\ wrk[r] = "begin"
    /\ owner = None /\ gate = None
    /\ journal = r
    /\ outcome[r] = "none"
    /\ GoesOn
    /\ owner' = r
    /\ gate' = IF Mac THEN None ELSE r
    /\ GoesTo(r, "restore")
    /\ UNCHANGED <<fixedVars, guardian, exe, backup, journal, portal, asked, scripts, cli, told,
                   fileVars, outcome, crashes>>

(* macOS writes the journal and then accepts; Windows accepts, waits for   *)
(* the command to exit and then writes the journal.                        *)
WriteJournal(r) ==
    /\ wrk[r] = "journal"
    /\ journal' = r
    /\ GoesTo(r, IF Mac THEN "accept" ELSE "stop")
    /\ UNCHANGED <<fixedVars, guardian, exe, backup, owner, gate, portal, askVars, cli, told, fileVars,
                   outcome, crashes>>

Accept(r) ==
    /\ wrk[r] = "accept"
    /\ accepted' = [accepted EXCEPT ![r] = TRUE]
    /\ GoesTo(r, "await")
    /\ UNCHANGED <<fixedVars, guardian, exe, backup, journal, owner, gate, portal, askVars, cli, told,
                   error, outcome, crashes>>

AwaitNobody(r) ==                                                \* mutant
    /\ wrk[r] = "await"
    /\ GoesTo(r, IF Mac THEN "stop" ELSE "journal")
    /\ UNCHANGED <<fixedVars, guardian, exe, backup, journal, owner, gate, portal, askVars, cli, told,
                   fileVars, outcome, crashes>>
AwaitExit(r) ==
    /\ wrk[r] = "await"
    /\ cli[r] = "gone"
    /\ GoesTo(r, IF Mac THEN "stop" ELSE "journal")
    /\ UNCHANGED <<fixedVars, guardian, exe, backup, journal, owner, gate, portal, askVars, cli, told,
                   fileVars, outcome, crashes>>

(* The command did not exit in 20 or 30 s: nothing has been changed yet. *)
AwaitTimesOut(r) ==
    /\ wrk[r] = "await"
    /\ cli[r] = "waiting"
    /\ outcome' = [outcome EXCEPT ![r] = "failed"]
    /\ IF Mac
       THEN GoesTo(r, "settle") /\ UNCHANGED <<owner, gate, error>>
       ELSE /\ GoesTo(r, "done")
            /\ error' = [error EXCEPT ![r] = TRUE]
            /\ Releases(r)
    /\ UNCHANGED <<fixedVars, guardian, exe, backup, journal, portal, askVars, cli, told, accepted, crashes>>

-----------------------------------------------------------------------------
(* The worker: the trial *)

StopPortal(r) ==
    /\ wrk[r] = "stop"
    /\ portal' = None
    /\ GoesTo(r, "replace")
    /\ UNCHANGED <<fixedVars, guardian, exe, backup, journal, owner, gate, askVars, cli, told, fileVars,
                   outcome, crashes>>

(* One atomic rename; Windows retains the previous image in the same step  *)
(* and opens the launch gate.                                              *)
Replace(r) ==
    /\ wrk[r] = "replace"
    /\ exe' = r
    /\ backup' = IF Mac THEN backup ELSE [backup EXCEPT ![r] = exe]
    /\ gate' = None
    /\ GoesTo(r, "start")
    /\ UNCHANGED <<fixedVars, guardian, journal, owner, portal, askVars, cli, told, fileVars, outcome, crashes>>

(* launchd and the Windows worker start the Portal themselves; a session   *)
(* guardian is asked, start.sh is started and left alone; an offline macOS *)
(* installation stays stopped.                                             *)
Starts ==
    /\ CASE guardian = "session" -> asked' = TRUE /\ UNCHANGED <<scripts, portal>>
         [] guardian = "script" -> scripts' = scripts + 1 /\ UNCHANGED <<asked, portal>>
         [] guardian = "supervisor" \/ (Mac /\ guardian = "none") ->
               UNCHANGED <<asked, scripts, portal>>
         [] OTHER -> portal' = exe /\ UNCHANGED <<asked, scripts>>
    /\ UNCHANGED slipped

StartCandidate(r) ==
    /\ wrk[r] = "start"
    /\ Starts
    /\ GoesTo(r, IF Mac /\ guardian = "none" THEN "commit" ELSE "verify")
    /\ UNCHANGED <<fixedVars, guardian, exe, backup, journal, owner, gate, cli, told, fileVars, outcome, crashes>>

(* One process, stable, that published the nonce and version of the trial; *)
(* of a start.sh any process will do.                                      *)
PublishedReady == portal # None /\ (guardian = "script" \/ portal = exe)
Verified(r) ==
    /\ wrk[r] = "verify"
    /\ PublishedReady
    /\ GoesTo(r, "commit")
    /\ UNCHANGED <<fixedVars, guardian, exe, backup, journal, owner, gate, portal, askVars, cli, told,
                   fileVars, outcome, crashes>>

(* macOS commits with the durable result, Windows with the removal of the  *)
(* journal, for which it needs the launch gate again.                      *)
Commit(r) ==
    /\ wrk[r] = "commit"
    /\ gate = None
    /\ outcome' = [outcome EXCEPT ![r] = "succeeded"]
    /\ IF Mac
       THEN GoesTo(r, "settle") /\ UNCHANGED <<journal, owner>>
       ELSE /\ GoesTo(r, "done")
            /\ journal' = None
            /\ owner' = None
    /\ UNCHANGED <<fixedVars, guardian, exe, backup, gate, portal, askVars, cli, told, fileVars, crashes>>

(* A step of the trial fails, or the candidate is not ready in time: roll  *)
(* back, on Windows if the gate can be had.                                *)
TrialFails(r) ==
    /\ wrk[r] \in {"stop", "replace", "start", "verify", "commit"}
    /\ IF wrk[r] = "verify" THEN GoesOn ELSE UNCHANGED slipped
    /\ IF Mac
       THEN GoesTo(r, "restore") /\ UNCHANGED <<gate, owner, error>>
       ELSE \/ /\ gate \in {None, r}
               /\ gate' = r
               /\ GoesTo(r, "restore")
               /\ UNCHANGED <<owner, error>>
            \/ /\ Releases(r)
               /\ error' = [error EXCEPT ![r] = TRUE]
               /\ GoesTo(r, "dead")
    /\ UNCHANGED <<fixedVars, guardian, exe, backup, journal, portal, asked, scripts, cli, told,
                   accepted, outcome, crashes>>

-----------------------------------------------------------------------------
(* The worker: restore and finish *)

RestoreStops(r) ==
    /\ wrk[r] = "restore"
    /\ portal' = None
    /\ GoesTo(r, "put back")
    /\ UNCHANGED <<fixedVars, guardian, exe, backup, journal, owner, gate, askVars, cli, told, fileVars,
                   outcome, crashes>>

(* The previous image back in one rename.  On Windows this also ends the   *)
(* transaction, opens the gate, and the worker of a direct installation    *)
(* starts the Portal.                                                      *)
PutBack(r) ==
    /\ wrk[r] = "put back"
    /\ exe' = IF backup[r] = None THEN exe ELSE backup[r]
    /\ IF Mac
       THEN GoesTo(r, "restart") /\ UNCHANGED <<journal, gate, outcome, error>>
       ELSE /\ journal' = None
            /\ gate' = None
            /\ outcome' = [outcome EXCEPT ![r] = "rolled back"]
            /\ error' = [error EXCEPT ![r] = TRUE]
            /\ backup' = [backup EXCEPT ![r] = None]
            /\ GoesTo(r, "restart")
    /\ IF Mac THEN UNCHANGED backup ELSE TRUE
    /\ UNCHANGED <<fixedVars, guardian, owner, portal, askVars, cli, told, accepted, crashes>>

Restart(r) ==
    /\ wrk[r] = "restart"
    /\ IF Mac \/ portal = None THEN Starts ELSE UNCHANGED <<askVars, portal>>
    /\ IF Mac
       THEN GoesTo(r, IF guardian = "none" THEN "finish" ELSE "reverify") /\ UNCHANGED owner
       ELSE GoesTo(r, "done") /\ owner' = None
    /\ UNCHANGED <<fixedVars, guardian, exe, backup, journal, gate, cli, told, fileVars, outcome, crashes>>

(* The previous Portal runs again; or it does not, and is left stopped,    *)
(* a session guardian with it.                                             *)
Reverified(r) ==
    /\ wrk[r] = "reverify"
    /\ portal # None
    /\ GoesTo(r, "finish")
    /\ UNCHANGED <<fixedVars, guardian, exe, backup, journal, owner, gate, portal, askVars, cli, told,
                   fileVars, outcome, crashes>>

RestartFails(r) ==
    /\ wrk[r] = "reverify"
    /\ GoesOn
    /\ portal' = None
    /\ asked' = FALSE
    /\ guardian' = IF guardian = "session" THEN "none" ELSE guardian
    /\ GoesTo(r, "finish")
    /\ UNCHANGED <<fixedVars, exe, backup, journal, owner, gate, scripts, cli, told, fileVars,
                   outcome, crashes>>

(* finish(): the durable outcome first, then the journal is removed. *)
Finish(r) ==
    /\ wrk[r] = "finish"
    /\ outcome' = [outcome EXCEPT ![r] = "rolled back"]
    /\ GoesTo(r, "settle")
    /\ UNCHANGED <<fixedVars, guardian, exe, backup, journal, owner, gate, portal, askVars, cli, told,
                   fileVars, crashes>>

Settle(r) ==
    /\ wrk[r] = "settle"
    /\ journal' = None
    /\ owner' = None
    /\ GoesTo(r, "done")
    /\ UNCHANGED <<fixedVars, guardian, exe, backup, gate, portal, askVars, cli, told, fileVars, outcome, crashes>>

-----------------------------------------------------------------------------
(* Crashes, guardians and the user *)

Crash(r) ==
    /\ wrk[r] \notin {"none", "done", "dead"}
    /\ crashes < MaxCrashes
    /\ crashes' = crashes + 1
    /\ GoesTo(r, "dead")
    /\ Releases(r)
    /\ UNCHANGED <<fixedVars, guardian, exe, backup, journal, portal, askVars, cli, told, fileVars, outcome>>

(* A journal whose lock is free: nobody works on the transaction. *)
Recoverable(r) == wrk[r] = "dead" /\ journal = r /\ owner = None

(* launchd runs a worker that did not end well again; the other guardians  *)
(* recover what can be recovered.                                          *)
RecoverForgets(r) == FALSE                                       \* mutant
Recover(r) ==
    /\ \/ guardian = "launchd" /\ wrk[r] = "dead"
       \/ guardian \notin {"none", "script"} /\ Recoverable(r)
    /\ GoesTo(r, "begin")
    /\ UNCHANGED <<fixedVars, guardian, exe, backup, journal, owner, gate, portal, askVars, cli, told,
                   fileVars, outcome, crashes>>

(* The session guardian does what the open transaction asked; the Windows  *)
(* supervisor starts the Portal whenever the gate is open and repairs a    *)
(* journal nobody works on first.                                          *)
GuardianStarts ==
    /\ portal = None
    /\ \/ guardian = "session" /\ asked /\ journal # None
       \/ guardian \in {"session", "supervisor"} /\ ~Maintenance /\ exe # None
          /\ (journal = None \/ (~Mac /\ owner # None))
    /\ portal' = exe
    /\ asked' = FALSE
    /\ UNCHANGED <<fixedVars, guardian, exe, backup, journal, owner, gate, scripts, slipped, cli,
                   told, wrk, fileVars, outcome, crashes>>

(* A worker's start.sh executes what is installed by then.  It is let      *)
(* through while the journal is there and the nonce in the file is its own *)
(* (a later transaction writes its nonce after its stop); without a        *)
(* journal it takes the lock like anybody.  A Portal that runs already     *)
(* turns it away.                                                          *)
ScriptStarts ==
    /\ scripts > 0
    /\ scripts' = scripts - 1
    /\ \/ UNCHANGED portal
       \/ portal = None /\ (journal # None \/ owner = None) /\ portal' = exe
    /\ UNCHANGED <<fixedVars, guardian, exe, backup, journal, owner, gate, asked, slipped, cli,
                   told, wrk, fileVars, outcome, crashes>>

(* A start by the user: startup_guard refuses it during maintenance. *)
UserStarts ==
    /\ portal = None
    /\ exe # None
    /\ ~Maintenance
    /\ journal = None \/ (~Mac /\ owner # None)
    /\ portal' = exe
    /\ UNCHANGED <<fixedVars, guardian, exe, backup, journal, owner, gate, askVars, cli, told, wrk,
                   fileVars, outcome, crashes>>

(* ... which recovers an interrupted transaction before it starts, as does *)
(* a start.sh that comes too late.                                         *)
UserRecovers(r) ==
    /\ portal = None \/ scripts > 0
    /\ Recoverable(r)
    /\ GoesTo(r, "begin")
    /\ UNCHANGED <<fixedVars, guardian, exe, backup, journal, owner, gate, portal, askVars, cli, told,
                   fileVars, outcome, crashes>>

PortalExits ==
    /\ portal # None
    /\ portal' = None
    /\ UNCHANGED <<fixedVars, guardian, exe, backup, journal, owner, gate, askVars, cli, told, wrk,
                   fileVars, outcome, crashes>>

-----------------------------------------------------------------------------
Worker(r) ==
    \/ Admit(r) \/ Reject(r) \/ AlreadyEnded(r) \/ Resume(r)
    \/ WriteJournal(r) \/ Accept(r) \/ AwaitExit(r) \/ AwaitTimesOut(r)
    \/ StopPortal(r) \/ Replace(r) \/ StartCandidate(r) \/ Verified(r) \/ TrialFails(r) \/ Commit(r)
    \/ RestoreStops(r) \/ PutBack(r) \/ Restart(r) \/ Reverified(r) \/ RestartFails(r)
    \/ Finish(r) \/ Settle(r)

Upgrading ==
    \/ \E r \in Requests :
          \/ Submit(r) \/ Poll(r) \/ Deadline(r) \/ Interrupted(r)
          \/ Worker(r) \/ Crash(r) \/ Recover(r) \/ UserRecovers(r)
    \/ GuardianStarts \/ ScriptStarts \/ UserStarts \/ PortalExits

Spec == Init /\ [][Upgrading]_vars

(* Processes run, and every wait of theirs has a time limit. *)
Fair ==
    /\ \A r \in Requests : WF_vars(Worker(r)) /\ WF_vars(Recover(r))
    /\ WF_vars(GuardianStarts)

-----------------------------------------------------------------------------
(* A command line that reported a rejection spoke the truth: its candidate *)
(* is not installed, nor is a transaction of it open, ever.                *)
RejectedUntouched ==
    \A r \in Requests : told[r] = "rejected" => exe # r /\ journal # r

(* The Portal that runs is the one that is installed: it was stopped       *)
(* before every replacement and none slips in between, unless a worker has *)
(* gone on without the start it had asked a guardian or start.sh for: that *)
(* start may come between a stop and a rename.                             *)
RunsWhatIsInstalled == portal # None /\ ~slipped => portal = exe

(* What the worker says of one that was killed: its journal forces the     *)
(* roll-back before the candidate is executed again                        *)
(* (portal-macos-upgrade.py:351).                                          *)
JournalForcesRollback ==
    [][\A r \in Requests :
          wrk[r] = "dead" /\ journal = r /\ exe = r /\ portal = None => portal' = None]_vars

(* The executable changes only inside a transaction: to the candidate of   *)
(* its journal, or back to exactly what that candidate replaced; and a     *)
(* transaction that committed is never rolled back.                        *)
ExeMovesByTransaction ==
    [][exe' # exe /\ exe # None =>
          /\ journal # None
          /\ \/ exe' = journal
             \/ exe = journal /\ exe' = backup[journal] /\ outcome[journal] # "succeeded"]_vars

(* An open transaction whose candidate is installed can be rolled back. *)
TrialHasBackup == journal # None /\ exe = journal => backup[journal] # None

(* What holds between any two steps of the command lines, the workers, the *)
(* guardians and the user: rejections are true, the running Portal is the  *)
(* installed one, and a trial always has a way back.                       *)
UpgradeSound ==
    /\ TypeOK
    /\ RejectedUntouched
    /\ RunsWhatIsInstalled
    /\ TrialHasBackup

(* An open transaction ends, however often its worker is killed, as long   *)
(* as a guardian is there to recover it.                                   *)
TransactionEnds == journal # None ~> (journal = None \/ guardian \in {"none", "script"})
=============================================================================
