------------------------------ MODULE UpgradeProof ------------------------------
(***************************************************************************)
(* Theorems about Upgrade, on both platforms, for any number of upgrade    *)
(* commands, with candidates of any versions, and of killed workers.       *)
(***************************************************************************)
EXTENDS Upgrade, TLAPS

(* Where a worker has the transaction lock.                                *)
Trial   == {"stop", "replace", "start", "verify", "commit"}
Restore == {"restore", "put back"}
Working ==
    {"journal", "accept", "await", "restart", "reverify", "finish", "settle"} \cup Trial \cup Restore
OwnerHeld == \A r \in Requests : wrk[r] \in Working => owner = r

(* Where the journal names the worker's own transaction, and where there   *)
(* is none.                                                                *)
JournalOnMac ==
    Mac => \A r \in Requests :
        /\ wrk[r] \in {"accept", "await", "restart", "reverify", "finish", "settle"} \cup Trial \cup Restore
              => journal = r
        /\ wrk[r] = "journal" => journal = None
JournalOnWindows ==
    ~Mac => \A r \in Requests :
        /\ wrk[r] \in Trial \cup Restore => journal = r
        /\ wrk[r] \in {"accept", "await", "journal", "restart"} => journal = None
        /\ wrk[r] \notin {"reverify", "finish", "settle"}

(* A transaction is decided once.                                          *)
Undecided ==
    \A r \in Requests :
        /\ wrk[r] \in {"journal", "accept", "await", "reverify", "finish"} \cup Trial \cup Restore
              => outcome[r] = "none"
        /\ Mac /\ wrk[r] = "restart" => outcome[r] = "none"
        /\ wrk[r] = "settle" => outcome[r] # "none"
        /\ ~Mac /\ journal = r => outcome[r] = "none"

(* What was never asked for has no worker.                                 *)
NotYet ==
    \A r \in Requests :
        /\ cli[r] = "idle" => wrk[r] = "none" /\ told[r] = "nothing"
        /\ wrk[r] = "none" => journal # r /\ outcome[r] = "none" /\ ~error[r]

(* The candidate is installed from its trial on, and stays installed only  *)
(* when it succeeded.                                                      *)
ExeKnown ==
    /\ exe # None
    /\ \A r \in Requests : exe = r => journal = r \/ outcome[r] = "succeeded"
ExeBefore ==
    \A r \in Requests :
        /\ wrk[r] \in {"journal", "accept", "await", "stop", "replace", "restart", "reverify", "finish"}
              => exe # r
        /\ outcome[r] \in {"failed", "rolled back"} => exe # r

(* What the way back leads to.                                             *)
BackupOld ==
    \A r \in Requests :
        /\ backup[r] # r
        /\ backup[r] \in Requests => outcome[backup[r]] = "succeeded"
BackupOnMac ==
    Mac => \A r \in Requests :
        /\ wrk[r] = "journal" => backup[r] = exe
        /\ journal = r /\ exe # r => backup[r] = exe
BackupOnWindows ==
    ~Mac => \A r \in Requests :
        backup[r] # None => (journal = r /\ exe = r) \/ outcome[r] = "succeeded"

(* A rejection is the worker's last word: on macOS it rejects only before  *)
(* it accepts; on Windows a command line waits only for a worker that has  *)
(* changed nothing.                                                        *)
MacErrors ==
    Mac => \A r \in Requests :
        error[r] => wrk[r] = "done" /\ outcome[r] = "failed" /\ journal # r
WindowsWaits ==
    ~Mac => \A r \in Requests : cli[r] = "waiting" =>
        /\ wrk[r] \in {"begin", "accept", "await", "done", "dead"}
        /\ journal # r
        /\ outcome[r] \in {"none", "failed"}
        /\ error[r] => wrk[r] = "done"
RejectedEnded ==
    \A r \in Requests : told[r] = "rejected" =>
        /\ wrk[r] = "done" \/ (~Mac /\ wrk[r] = "dead")
        /\ outcome[r] # "succeeded"
        /\ journal # r
        /\ exe # r

(* Nobody can start the Portal where its image is about to be exchanged.   *)
GateHeld ==
    ~Mac => \A r \in Requests :
        wrk[r] \in {"accept", "await", "journal", "stop", "replace", "restore", "put back"} => gate = r
Stopped ==
    ~slipped => \A r \in Requests :
        /\ wrk[r] \in {"replace", "put back"} => portal = None
        /\ Mac /\ wrk[r] \in {"start", "restart"} => portal = None

(* A start still to come was asked for by the worker of an open trial,     *)
(* which waits for it, was killed, or has begun again; and there is one.   *)
AskedOf ==
    /\ asked => guardian = "session"
    /\ scripts > 0 => guardian = "script"
PendingInTrial ==
    ~slipped /\ Pending =>
        /\ Mac
        /\ portal = None
        /\ scripts <= 1
        /\ journal # None
        /\ outcome[journal] = "none"
        /\ wrk[journal] \in {"verify", "reverify", "dead", "begin"}

Inv ==
    /\ TypeOK
    /\ OwnerHeld /\ JournalOnMac /\ JournalOnWindows
    /\ Undecided /\ NotYet
    /\ ExeKnown /\ ExeBefore
    /\ BackupOld /\ BackupOnMac /\ BackupOnWindows /\ TrialHasBackup
    /\ MacErrors /\ WindowsWaits /\ RejectedEnded
StartsInv == GateHeld /\ Stopped /\ AskedOf /\ PendingInTrial /\ RunsWhatIsInstalled

WrkFun == wrk \in [Requests -> Points]
OutcomeFun == outcome \in [Requests -> {"none", "failed", "rolled back", "succeeded"}]
JournalType == journal \in Requests \cup {None}
CliFun == cli \in [Requests -> {"idle", "waiting", "gone"}]
ToldFun == told \in [Requests -> {"nothing", "accepted", "rejected", "unknown", "ended"}]
ErrorFun == error \in [Requests -> BOOLEAN]
BackupFun == backup \in [Requests -> Images \cup {None}]

(* Which steps touch the executable, the journal and the results.          *)
FilesVars == <<platform, exe, backup, journal, outcome>>
FileStep(r) ==
    \/ Admit(r) \/ Reject(r) \/ AlreadyEnded(r) \/ WriteJournal(r) \/ AwaitTimesOut(r)
    \/ Replace(r) \/ Commit(r) \/ PutBack(r) \/ Finish(r) \/ Settle(r)
(* All other steps leave the executable, the journal and results alone.    *)
LEMMA FileSteps ==
    ASSUME [Upgrading]_vars
    PROVE  UNCHANGED FilesVars \/ \E r \in Requests : FileStep(r)
<1>1. ASSUME NEW r \in Requests,
             \/ Submit(r) \/ Poll(r) \/ Deadline(r) \/ Interrupted(r) \/ Crash(r) \/ Recover(r)
             \/ UserRecovers(r)
      PROVE  UNCHANGED FilesVars
  BY <1>1 DEF FilesVars, Submit, Poll, Deadline, Interrupted, Crash, Recover, UserRecovers,
     fixedVars
<1>2. ASSUME NEW r \in Requests, Worker(r)
      PROVE  FileStep(r) \/ UNCHANGED FilesVars
  BY <1>2
     DEF Worker, FileStep, FilesVars, fixedVars, Resume, Accept, AwaitExit, StopPortal,
         StartCandidate,
         Verified, TrialFails, RestoreStops, Restart, Reverified, RestartFails
<1>3. CASE GuardianStarts \/ ScriptStarts \/ UserStarts \/ PortalExits \/ UNCHANGED vars
  BY <1>3 DEF FilesVars, GuardianStarts, ScriptStarts, UserStarts, PortalExits, vars, fixedVars
<1> QED
  BY <1>1, <1>2, <1>3 DEF Upgrading

(* The guardians there are on each platform.                               *)
LEMMA GuardianTypes ==
    ASSUME TypeOK
    PROVE  IF Mac THEN guardian \in {"launchd", "session", "script", "none"}
                  ELSE guardian \in {"supervisor", "none"}
<1>1. Guardians["mac"] = {"launchd", "session", "script", "none"} /\ Guardians["windows"] = {"supervisor", "none"}
  BY DEF Guardians
<1>2. CASE platform = "mac"
  BY <1>1, <1>2 DEF TypeOK, Mac
<1>3. CASE platform = "windows"
  BY <1>1, <1>3 DEF TypeOK, Mac
<1> QED
  BY <1>2, <1>3 DEF TypeOK
(* The count of crashes begins within its bound ...                        *)
LEMMA NoCrashes == 0 \in 0..MaxCrashes
BY BoundAssumption

(* ... and stays there.                                                    *)
LEMMA CrashesCounted ==
    ASSUME crashes \in 0..MaxCrashes, crashes < MaxCrashes
    PROVE  crashes + 1 \in 0..MaxCrashes
BY BoundAssumption

(* The same, of the table of guardians.                                    *)
LEMMA Guarded ==
    /\ Mac => Guardians[platform] = {"launchd", "session", "script", "none"}
    /\ platform = "windows" => Guardians[platform] = {"supervisor", "none"}
BY DEF Guardians, Mac

(* Locks and the journal.                                                  *)
LEMMA OwnerNext ==
    ASSUME WrkFun, OwnerHeld, [Upgrading]_vars
    PROVE  OwnerHeld'
<1> USE DistinctAssumption
    DEF WrkFun, OwnerHeld, Working, Trial, Restore, Mac, GoesTo, fixedVars, fileVars
<1>1. ASSUME NEW r \in Requests, Submit(r) PROVE OwnerHeld'
  BY <1>1 DEF Submit
<1>2. ASSUME NEW r \in Requests, Poll(r) PROVE OwnerHeld'
  BY <1>2 DEF Poll
<1>3. ASSUME NEW r \in Requests, Deadline(r) PROVE OwnerHeld'
  BY <1>3, ZenonT(60) DEF Deadline, Releases
<1>4. ASSUME NEW r \in Requests, Interrupted(r) PROVE OwnerHeld'
  BY <1>4 DEF Interrupted
<1>5. ASSUME NEW r \in Requests, Admit(r) PROVE OwnerHeld'
  BY <1>5 DEF Admit
<1>6. ASSUME NEW r \in Requests, Reject(r) PROVE OwnerHeld'
  BY <1>6 DEF Reject
<1>7. ASSUME NEW r \in Requests, AlreadyEnded(r) PROVE OwnerHeld'
  BY <1>7 DEF AlreadyEnded
<1>8. ASSUME NEW r \in Requests, Resume(r) PROVE OwnerHeld'
  BY <1>8 DEF Resume
<1>9. ASSUME NEW r \in Requests, WriteJournal(r) PROVE OwnerHeld'
  BY <1>9 DEF WriteJournal
<1>10. ASSUME NEW r \in Requests, Accept(r) PROVE OwnerHeld'
  BY <1>10 DEF Accept
<1>11. ASSUME NEW r \in Requests, AwaitExit(r) PROVE OwnerHeld'
  BY <1>11 DEF AwaitExit
<1>12. ASSUME NEW r \in Requests, AwaitTimesOut(r) PROVE OwnerHeld'
  BY <1>12 DEF AwaitTimesOut, Releases
<1>13. ASSUME NEW r \in Requests, StopPortal(r) PROVE OwnerHeld'
  BY <1>13 DEF StopPortal
<1>14. ASSUME NEW r \in Requests, Replace(r) PROVE OwnerHeld'
  BY <1>14 DEF Replace
<1>15. ASSUME NEW r \in Requests, StartCandidate(r) PROVE OwnerHeld'
  BY <1>15 DEF StartCandidate
<1>16. ASSUME NEW r \in Requests, Verified(r) PROVE OwnerHeld'
  BY <1>16 DEF Verified
<1>17. ASSUME NEW r \in Requests, TrialFails(r) PROVE OwnerHeld'
  BY <1>17 DEF TrialFails, Releases
<1>18. ASSUME NEW r \in Requests, Commit(r) PROVE OwnerHeld'
  BY <1>18 DEF Commit
<1>19. ASSUME NEW r \in Requests, RestoreStops(r) PROVE OwnerHeld'
  BY <1>19 DEF RestoreStops
<1>20. ASSUME NEW r \in Requests, PutBack(r) PROVE OwnerHeld'
  BY <1>20 DEF PutBack
<1>21. ASSUME NEW r \in Requests, Restart(r) PROVE OwnerHeld'
  BY <1>21 DEF Restart
<1>22. ASSUME NEW r \in Requests, Reverified(r) PROVE OwnerHeld'
  BY <1>22 DEF Reverified
<1>23. ASSUME NEW r \in Requests, RestartFails(r) PROVE OwnerHeld'
  BY <1>23 DEF RestartFails
<1>24. ASSUME NEW r \in Requests, Finish(r) PROVE OwnerHeld'
  BY <1>24 DEF Finish
<1>25. ASSUME NEW r \in Requests, Settle(r) PROVE OwnerHeld'
  BY <1>25 DEF Settle
<1>26. ASSUME NEW r \in Requests, Crash(r) PROVE OwnerHeld'
  BY <1>26 DEF Crash, Releases
<1>27. ASSUME NEW r \in Requests, Recover(r) PROVE OwnerHeld'
  BY <1>27 DEF Recover
<1>28. ASSUME NEW r \in Requests, UserRecovers(r) PROVE OwnerHeld'
  BY <1>28 DEF UserRecovers
<1>29. CASE GuardianStarts
  BY <1>29 DEF GuardianStarts
<1>30. CASE UserStarts
  BY <1>30 DEF UserStarts
<1>31. CASE PortalExits
  BY <1>31 DEF PortalExits
<1>32. CASE UNCHANGED vars
  BY <1>32 DEF vars
<1>33. CASE ScriptStarts
  BY <1>33 DEF ScriptStarts
<1> QED
  BY <1>1, <1>2, <1>3, <1>4, <1>5, <1>6, <1>7, <1>8, <1>9, <1>10, <1>11, <1>12, <1>13, <1>14,
     <1>15,
     <1>16, <1>17, <1>18, <1>19, <1>20, <1>21, <1>22, <1>23, <1>24, <1>25, <1>26, <1>27, <1>28,
     <1>29, <1>30, <1>31, <1>32, <1>33 DEF Upgrading, Worker

(* On macOS the journal is open from before the acceptance to the end.     *)
LEMMA MacJournalNext ==
    ASSUME WrkFun, OwnerHeld, JournalOnMac, [Upgrading]_vars
    PROVE  JournalOnMac'
<1> USE DistinctAssumption
    DEF WrkFun, OwnerHeld, JournalOnMac, Working, Trial, Restore, Mac, GoesTo, fixedVars, fileVars
<1>1. ASSUME NEW r \in Requests, Submit(r) PROVE JournalOnMac'
  BY <1>1 DEF Submit
<1>2. ASSUME NEW r \in Requests, Poll(r) PROVE JournalOnMac'
  BY <1>2 DEF Poll
<1>3. ASSUME NEW r \in Requests, Deadline(r) PROVE JournalOnMac'
  BY <1>3 DEF Deadline
<1>4. ASSUME NEW r \in Requests, Interrupted(r) PROVE JournalOnMac'
  BY <1>4 DEF Interrupted
<1>5. ASSUME NEW r \in Requests, Admit(r) PROVE JournalOnMac'
  BY <1>5 DEF Admit
<1>6. ASSUME NEW r \in Requests, Reject(r) PROVE JournalOnMac'
  BY <1>6, ZenonT(60) DEF Reject
<1>7. ASSUME NEW r \in Requests, AlreadyEnded(r) PROVE JournalOnMac'
  BY <1>7 DEF AlreadyEnded
<1>8. ASSUME NEW r \in Requests, Resume(r) PROVE JournalOnMac'
  BY <1>8 DEF Resume
<1>9. ASSUME NEW r \in Requests, WriteJournal(r) PROVE JournalOnMac'
  BY <1>9 DEF WriteJournal
<1>10. ASSUME NEW r \in Requests, Accept(r) PROVE JournalOnMac'
  BY <1>10 DEF Accept
<1>11. ASSUME NEW r \in Requests, AwaitExit(r) PROVE JournalOnMac'
  BY <1>11 DEF AwaitExit
<1>12. ASSUME NEW r \in Requests, AwaitTimesOut(r) PROVE JournalOnMac'
  BY <1>12 DEF AwaitTimesOut
<1>13. ASSUME NEW r \in Requests, StopPortal(r) PROVE JournalOnMac'
  BY <1>13 DEF StopPortal
<1>14. ASSUME NEW r \in Requests, Replace(r) PROVE JournalOnMac'
  BY <1>14 DEF Replace
<1>15. ASSUME NEW r \in Requests, StartCandidate(r) PROVE JournalOnMac'
  BY <1>15 DEF StartCandidate
<1>16. ASSUME NEW r \in Requests, Verified(r) PROVE JournalOnMac'
  BY <1>16 DEF Verified
<1>17. ASSUME NEW r \in Requests, TrialFails(r) PROVE JournalOnMac'
  BY <1>17 DEF TrialFails
<1>18. ASSUME NEW r \in Requests, Commit(r) PROVE JournalOnMac'
  BY <1>18 DEF Commit
<1>19. ASSUME NEW r \in Requests, RestoreStops(r) PROVE JournalOnMac'
  BY <1>19 DEF RestoreStops
<1>20. ASSUME NEW r \in Requests, PutBack(r) PROVE JournalOnMac'
  BY <1>20 DEF PutBack
<1>21. ASSUME NEW r \in Requests, Restart(r) PROVE JournalOnMac'
  BY <1>21 DEF Restart
<1>22. ASSUME NEW r \in Requests, Reverified(r) PROVE JournalOnMac'
  BY <1>22 DEF Reverified
<1>23. ASSUME NEW r \in Requests, RestartFails(r) PROVE JournalOnMac'
  BY <1>23 DEF RestartFails
<1>24. ASSUME NEW r \in Requests, Finish(r) PROVE JournalOnMac'
  BY <1>24 DEF Finish
<1>25. ASSUME NEW r \in Requests, Settle(r) PROVE JournalOnMac'
  BY <1>25 DEF Settle
<1>26. ASSUME NEW r \in Requests, Crash(r) PROVE JournalOnMac'
  BY <1>26 DEF Crash
<1>27. ASSUME NEW r \in Requests, Recover(r) PROVE JournalOnMac'
  BY <1>27 DEF Recover
<1>28. ASSUME NEW r \in Requests, UserRecovers(r) PROVE JournalOnMac'
  BY <1>28 DEF UserRecovers
<1>29. CASE GuardianStarts
  BY <1>29 DEF GuardianStarts
<1>30. CASE UserStarts
  BY <1>30 DEF UserStarts
<1>31. CASE PortalExits
  BY <1>31 DEF PortalExits
<1>32. CASE UNCHANGED vars
  BY <1>32 DEF vars
<1>33. CASE ScriptStarts
  BY <1>33 DEF ScriptStarts
<1> QED
  BY <1>1, <1>2, <1>3, <1>4, <1>5, <1>6, <1>7, <1>8, <1>9, <1>10, <1>11, <1>12, <1>13, <1>14,
     <1>15,
     <1>16, <1>17, <1>18, <1>19, <1>20, <1>21, <1>22, <1>23, <1>24, <1>25, <1>26, <1>27, <1>28,
     <1>29, <1>30, <1>31, <1>32, <1>33 DEF Upgrading, Worker

(* On Windows it is open only while the image may be exchanged.            *)
LEMMA WindowsJournalNext ==
    ASSUME WrkFun, OwnerHeld, JournalOnWindows, [Upgrading]_vars
    PROVE  JournalOnWindows'
<1> USE DistinctAssumption
    DEF WrkFun, OwnerHeld, JournalOnWindows, Working, Trial, Restore, Mac, GoesTo, fixedVars,
        fileVars
<1>1. ASSUME NEW r \in Requests, Submit(r) PROVE JournalOnWindows'
  BY <1>1 DEF Submit
<1>2. ASSUME NEW r \in Requests, Poll(r) PROVE JournalOnWindows'
  BY <1>2 DEF Poll
<1>3. ASSUME NEW r \in Requests, Deadline(r) PROVE JournalOnWindows'
  BY <1>3 DEF Deadline
<1>4. ASSUME NEW r \in Requests, Interrupted(r) PROVE JournalOnWindows'
  BY <1>4 DEF Interrupted
<1>5. ASSUME NEW r \in Requests, Admit(r) PROVE JournalOnWindows'
  BY <1>5 DEF Admit
<1>6. ASSUME NEW r \in Requests, Reject(r) PROVE JournalOnWindows'
  BY <1>6 DEF Reject
<1>7. ASSUME NEW r \in Requests, AlreadyEnded(r) PROVE JournalOnWindows'
  BY <1>7 DEF AlreadyEnded
<1>8. ASSUME NEW r \in Requests, Resume(r) PROVE JournalOnWindows'
  BY <1>8 DEF Resume
<1>9. ASSUME NEW r \in Requests, WriteJournal(r) PROVE JournalOnWindows'
  BY <1>9 DEF WriteJournal
<1>10. ASSUME NEW r \in Requests, Accept(r) PROVE JournalOnWindows'
  BY <1>10 DEF Accept
<1>11. ASSUME NEW r \in Requests, AwaitExit(r) PROVE JournalOnWindows'
  BY <1>11 DEF AwaitExit
<1>12. ASSUME NEW r \in Requests, AwaitTimesOut(r) PROVE JournalOnWindows'
  BY <1>12 DEF AwaitTimesOut
<1>13. ASSUME NEW r \in Requests, StopPortal(r) PROVE JournalOnWindows'
  BY <1>13 DEF StopPortal
<1>14. ASSUME NEW r \in Requests, Replace(r) PROVE JournalOnWindows'
  BY <1>14 DEF Replace
<1>15. ASSUME NEW r \in Requests, StartCandidate(r) PROVE JournalOnWindows'
  BY <1>15 DEF StartCandidate
<1>16. ASSUME NEW r \in Requests, Verified(r) PROVE JournalOnWindows'
  BY <1>16 DEF Verified
<1>17. ASSUME NEW r \in Requests, TrialFails(r) PROVE JournalOnWindows'
  BY <1>17 DEF TrialFails
<1>18. ASSUME NEW r \in Requests, Commit(r) PROVE JournalOnWindows'
  BY <1>18 DEF Commit
<1>19. ASSUME NEW r \in Requests, RestoreStops(r) PROVE JournalOnWindows'
  BY <1>19 DEF RestoreStops
<1>20. ASSUME NEW r \in Requests, PutBack(r) PROVE JournalOnWindows'
  BY <1>20 DEF PutBack
<1>21. ASSUME NEW r \in Requests, Restart(r) PROVE JournalOnWindows'
  BY <1>21 DEF Restart
<1>22. ASSUME NEW r \in Requests, Reverified(r) PROVE JournalOnWindows'
  BY <1>22 DEF Reverified
<1>23. ASSUME NEW r \in Requests, RestartFails(r) PROVE JournalOnWindows'
  BY <1>23 DEF RestartFails
<1>24. ASSUME NEW r \in Requests, Finish(r) PROVE JournalOnWindows'
  BY <1>24 DEF Finish
<1>25. ASSUME NEW r \in Requests, Settle(r) PROVE JournalOnWindows'
  BY <1>25 DEF Settle
<1>26. ASSUME NEW r \in Requests, Crash(r) PROVE JournalOnWindows'
  BY <1>26 DEF Crash
<1>27. ASSUME NEW r \in Requests, Recover(r) PROVE JournalOnWindows'
  BY <1>27 DEF Recover
<1>28. ASSUME NEW r \in Requests, UserRecovers(r) PROVE JournalOnWindows'
  BY <1>28 DEF UserRecovers
<1>29. CASE GuardianStarts
  BY <1>29 DEF GuardianStarts
<1>30. CASE UserStarts
  BY <1>30 DEF UserStarts
<1>31. CASE PortalExits
  BY <1>31 DEF PortalExits
<1>32. CASE UNCHANGED vars
  BY <1>32 DEF vars
<1>33. CASE ScriptStarts
  BY <1>33 DEF ScriptStarts
<1> QED
  BY <1>1, <1>2, <1>3, <1>4, <1>5, <1>6, <1>7, <1>8, <1>9, <1>10, <1>11, <1>12, <1>13, <1>14,
     <1>15,
     <1>16, <1>17, <1>18, <1>19, <1>20, <1>21, <1>22, <1>23, <1>24, <1>25, <1>26, <1>27, <1>28,
     <1>29, <1>30, <1>31, <1>32, <1>33 DEF Upgrading, Worker

(* The executable.                                                         *)
LEMMA ExeKnownNext ==
    ASSUME WrkFun, OutcomeFun, BackupFun, OwnerHeld, JournalOnMac, JournalOnWindows, Undecided, ExeKnown, ExeBefore,
           BackupOld, BackupOnMac, BackupOnWindows, TrialHasBackup, [Upgrading]_vars
    PROVE  ExeKnown'
<1> USE DistinctAssumption
    DEF WrkFun, OutcomeFun, BackupFun, ExeKnown, Images, Trial, Restore, Mac, GoesTo, fixedVars,
        fileVars
<1>1. ASSUME NEW r \in Requests, Admit(r) PROVE ExeKnown'
  BY <1>1 DEF Admit
<1>2. ASSUME NEW r \in Requests, Reject(r) PROVE ExeKnown'
  BY <1>2 DEF Reject
<1>3. ASSUME NEW r \in Requests, AlreadyEnded(r) PROVE ExeKnown'
  BY <1>3 DEF AlreadyEnded, ExeBefore
<1>4. ASSUME NEW r \in Requests, WriteJournal(r) PROVE ExeKnown'
  BY <1>4 DEF WriteJournal, JournalOnMac, JournalOnWindows
<1>5. ASSUME NEW r \in Requests, AwaitTimesOut(r) PROVE ExeKnown'
  BY <1>5 DEF AwaitTimesOut, ExeBefore
<1>6. ASSUME NEW r \in Requests, Replace(r) PROVE ExeKnown'
  BY <1>6 DEF Replace, JournalOnMac, JournalOnWindows
<1>7. ASSUME NEW r \in Requests, Commit(r) PROVE ExeKnown'
  <2>1. CASE Mac /\ GoesTo(r, "settle") /\ UNCHANGED <<journal, owner>>
    BY <1>7, <2>1 DEF Commit, JournalOnWindows
  <2>2. CASE ~Mac /\ GoesTo(r, "done") /\ journal' = None /\ owner' = None
    BY <1>7, <2>2 DEF Commit, JournalOnWindows
  <2> QED
    BY <1>7, <2>1, <2>2 DEF Commit
<1>8. ASSUME NEW r \in Requests, PutBack(r) PROVE ExeKnown'
  <2>1. CASE Mac /\ GoesTo(r, "restart") /\ UNCHANGED <<journal, gate, outcome, error, backup>>
    BY <1>8, <2>1 DEF PutBack, JournalOnMac, JournalOnWindows, BackupOld, TrialHasBackup
  <2>2. CASE ~Mac /\ journal' = None /\ gate' = None /\ outcome' = [outcome EXCEPT ![r] = "rolled back"]
              /\ error' = [error EXCEPT ![r] = TRUE]
              /\ backup' = [backup EXCEPT ![r] = None] /\ GoesTo(r, "restart")
    BY <1>8, <2>2 DEF PutBack, JournalOnMac, JournalOnWindows, BackupOld, TrialHasBackup
  <2> QED
    BY <1>8, <2>1, <2>2 DEF PutBack
<1>9. ASSUME NEW r \in Requests, Finish(r) PROVE ExeKnown'
  BY <1>9 DEF Finish, ExeBefore
<1>10. ASSUME NEW r \in Requests, Settle(r) PROVE ExeKnown'
  BY <1>10 DEF Settle, ExeBefore, Undecided, JournalOnMac, JournalOnWindows
<1>11. CASE UNCHANGED FilesVars
  BY <1>11 DEF FilesVars
<1> QED
  BY <1>1, <1>2, <1>3, <1>4, <1>5, <1>6, <1>7, <1>8, <1>9, <1>10, <1>11, FileSteps DEF FileStep

(* The way back.                                                           *)
LEMMA TrialHasBackupNext ==
    ASSUME WrkFun, OutcomeFun, BackupFun, OwnerHeld, JournalOnMac, JournalOnWindows, Undecided, ExeKnown, ExeBefore,
           BackupOld, BackupOnMac, BackupOnWindows, TrialHasBackup, [Upgrading]_vars
    PROVE  TrialHasBackup'
<1> USE DistinctAssumption
    DEF WrkFun, OutcomeFun, BackupFun, TrialHasBackup, Images, Trial, Restore, Mac, GoesTo,
        fixedVars, fileVars
<1>1. ASSUME NEW r \in Requests, Admit(r) PROVE TrialHasBackup'
  BY <1>1 DEF Admit, ExeKnown
<1>2. ASSUME NEW r \in Requests, Reject(r) PROVE TrialHasBackup'
  BY <1>2 DEF Reject
<1>3. ASSUME NEW r \in Requests, AlreadyEnded(r) PROVE TrialHasBackup'
  BY <1>3 DEF AlreadyEnded
<1>4. ASSUME NEW r \in Requests, WriteJournal(r) PROVE TrialHasBackup'
  BY <1>4 DEF WriteJournal, ExeBefore
<1>5. ASSUME NEW r \in Requests, AwaitTimesOut(r) PROVE TrialHasBackup'
  BY <1>5 DEF AwaitTimesOut
<1>6. ASSUME NEW r \in Requests, Replace(r) PROVE TrialHasBackup'
  BY <1>6, ZenonT(60) DEF Replace, JournalOnMac, JournalOnWindows, BackupOnMac, ExeKnown, ExeBefore
<1>7. ASSUME NEW r \in Requests, Commit(r) PROVE TrialHasBackup'
  BY <1>7 DEF Commit
<1>8. ASSUME NEW r \in Requests, PutBack(r) PROVE TrialHasBackup'
  BY <1>8 DEF PutBack, JournalOnMac, JournalOnWindows, BackupOld
<1>9. ASSUME NEW r \in Requests, Finish(r) PROVE TrialHasBackup'
  BY <1>9 DEF Finish
<1>10. ASSUME NEW r \in Requests, Settle(r) PROVE TrialHasBackup'
  BY <1>10 DEF Settle
<1>11. CASE UNCHANGED FilesVars
  BY <1>11 DEF FilesVars
<1> QED
  BY <1>1, <1>2, <1>3, <1>4, <1>5, <1>6, <1>7, <1>8, <1>9, <1>10, <1>11, FileSteps DEF FileStep

(* What was replaced had succeeded.                                        *)
LEMMA BackupOldNext ==
    ASSUME WrkFun, OutcomeFun, BackupFun, OwnerHeld, JournalOnMac, JournalOnWindows, Undecided, ExeKnown, ExeBefore,
           BackupOld, BackupOnMac, BackupOnWindows, TrialHasBackup, [Upgrading]_vars
    PROVE  BackupOld'
<1> USE DistinctAssumption
    DEF WrkFun, OutcomeFun, BackupFun, BackupOld, Images, Trial, Restore, Mac, GoesTo, fixedVars,
        fileVars
<1>1. ASSUME NEW r \in Requests, Admit(r) PROVE BackupOld'
  <2>1. CASE Mac /\ GoesTo(r, "journal") /\ backup' = [backup EXCEPT ![r] = exe] /\ UNCHANGED gate
    BY <1>1, <2>1 DEF Admit, ExeKnown
  <2>2. CASE ~Mac /\ GoesTo(r, "accept") /\ gate' = r /\ UNCHANGED <<backup, guardian>>
    BY <1>1, <2>2 DEF Admit, ExeKnown
  <2> QED
    BY <1>1, <2>1, <2>2 DEF Admit
<1>2. ASSUME NEW r \in Requests, Reject(r) PROVE BackupOld'
  BY <1>2 DEF Reject
<1>3. ASSUME NEW r \in Requests, AlreadyEnded(r) PROVE BackupOld'
  BY <1>3 DEF AlreadyEnded
<1>4. ASSUME NEW r \in Requests, WriteJournal(r) PROVE BackupOld'
  BY <1>4 DEF WriteJournal
<1>5. ASSUME NEW r \in Requests, AwaitTimesOut(r) PROVE BackupOld'
  BY <1>5, ZenonT(60) DEF AwaitTimesOut, Undecided
<1>6. ASSUME NEW r \in Requests, Replace(r) PROVE BackupOld'
  BY <1>6 DEF Replace, JournalOnMac, JournalOnWindows, ExeKnown, ExeBefore
<1>7. ASSUME NEW r \in Requests, Commit(r) PROVE BackupOld'
  BY <1>7 DEF Commit
<1>8. ASSUME NEW r \in Requests, PutBack(r) PROVE BackupOld'
  <2>1. outcome[r] = "none"
    BY <1>8 DEF PutBack, Undecided
  <2>2. \A q \in Requests : backup[q] # r
    BY <2>1
  <2>3. CASE Mac /\ UNCHANGED <<outcome, backup>>
    BY <2>3
  <2>4. CASE /\ outcome' = [outcome EXCEPT ![r] = "rolled back"]
             /\ backup' = [backup EXCEPT ![r] = None]
    BY <2>2, <2>4
  <2> QED
    BY <1>8, <2>3, <2>4 DEF PutBack
<1>9. ASSUME NEW r \in Requests, Finish(r) PROVE BackupOld'
  <2>1. outcome[r] = "none"
    BY <1>9 DEF Finish, Undecided
  <2>2. \A q \in Requests : backup[q] # r
    BY <2>1
  <2> QED
    BY <1>9, <2>2 DEF Finish
<1>10. ASSUME NEW r \in Requests, Settle(r) PROVE BackupOld'
  BY <1>10 DEF Settle
<1>11. CASE UNCHANGED FilesVars
  BY <1>11 DEF FilesVars
<1> QED
  BY <1>1, <1>2, <1>3, <1>4, <1>5, <1>6, <1>7, <1>8, <1>9, <1>10, <1>11, FileSteps DEF FileStep

(* A Windows backup exists from the exchange on.                           *)
LEMMA BackupOnWindowsNext ==
    ASSUME WrkFun, OutcomeFun, BackupFun, OwnerHeld, JournalOnMac, JournalOnWindows, Undecided, ExeKnown, ExeBefore,
           BackupOld, BackupOnMac, BackupOnWindows, TrialHasBackup, [Upgrading]_vars
    PROVE  BackupOnWindows'
<1> USE DistinctAssumption
    DEF WrkFun, OutcomeFun, BackupFun, BackupOnWindows, Images, Trial, Restore, Mac, GoesTo,
        fixedVars, fileVars
<1>1. ASSUME NEW r \in Requests, Admit(r) PROVE BackupOnWindows'
  BY <1>1 DEF Admit
<1>2. ASSUME NEW r \in Requests, Reject(r) PROVE BackupOnWindows'
  BY <1>2 DEF Reject
<1>3. ASSUME NEW r \in Requests, AlreadyEnded(r) PROVE BackupOnWindows'
  BY <1>3 DEF AlreadyEnded, Undecided
<1>4. ASSUME NEW r \in Requests, WriteJournal(r) PROVE BackupOnWindows'
  BY <1>4 DEF WriteJournal, JournalOnWindows
<1>5. ASSUME NEW r \in Requests, AwaitTimesOut(r) PROVE BackupOnWindows'
  BY <1>5 DEF AwaitTimesOut, JournalOnWindows, Undecided
<1>6. ASSUME NEW r \in Requests, Replace(r) PROVE BackupOnWindows'
  <2>1. CASE Mac
    BY <1>6, <2>1 DEF Replace
  <2>2. CASE ~Mac
    <3>1. journal = r /\ journal' = r /\ exe' = r /\ UNCHANGED outcome
      BY <1>6, <2>2 DEF Replace, JournalOnWindows
    <3>2. \A q \in Requests : q # r => backup'[q] = backup[q]
      BY <1>6, <2>2 DEF Replace
    <3> QED
      BY <2>2, <3>1, <3>2
  <2> QED
    BY <2>1, <2>2
<1>7. ASSUME NEW r \in Requests, Commit(r) PROVE BackupOnWindows'
  BY <1>7 DEF Commit, JournalOnWindows
<1>8. ASSUME NEW r \in Requests, PutBack(r) PROVE BackupOnWindows'
  BY <1>8 DEF PutBack, JournalOnWindows
<1>9. ASSUME NEW r \in Requests, Finish(r) PROVE BackupOnWindows'
  BY <1>9 DEF Finish, JournalOnWindows
<1>10. ASSUME NEW r \in Requests, Settle(r) PROVE BackupOnWindows'
  BY <1>10 DEF Settle, JournalOnWindows
<1>11. CASE UNCHANGED FilesVars
  BY <1>11 DEF FilesVars
<1> QED
  BY <1>1, <1>2, <1>3, <1>4, <1>5, <1>6, <1>7, <1>8, <1>9, <1>10, <1>11, FileSteps DEF FileStep

(* A macOS backup is taken before the transaction is open.                 *)
LEMMA BackupOnMacNext ==
    ASSUME WrkFun, OutcomeFun, BackupFun, OwnerHeld, JournalOnMac, JournalOnWindows, Undecided, ExeKnown, ExeBefore,
           BackupOld, BackupOnMac, BackupOnWindows, TrialHasBackup, [Upgrading]_vars
    PROVE  BackupOnMac'
<1> USE DistinctAssumption
    DEF WrkFun, OutcomeFun, BackupFun, BackupOnMac, Images, Trial, Restore, Mac, GoesTo,
        fixedVars, fileVars
<1>1. ASSUME NEW r \in Requests, Submit(r) PROVE BackupOnMac'
  BY <1>1 DEF Submit
<1>2. ASSUME NEW r \in Requests, Poll(r) PROVE BackupOnMac'
  BY <1>2 DEF Poll
<1>3. ASSUME NEW r \in Requests, Deadline(r) PROVE BackupOnMac'
  BY <1>3 DEF Deadline
<1>4. ASSUME NEW r \in Requests, Interrupted(r) PROVE BackupOnMac'
  BY <1>4 DEF Interrupted
<1>5. ASSUME NEW r \in Requests, Admit(r) PROVE BackupOnMac'
  BY <1>5 DEF Admit, OwnerHeld, Working, ExeKnown
<1>6. ASSUME NEW r \in Requests, Reject(r) PROVE BackupOnMac'
  BY <1>6 DEF Reject
<1>7. ASSUME NEW r \in Requests, AlreadyEnded(r) PROVE BackupOnMac'
  BY <1>7 DEF AlreadyEnded
<1>8. ASSUME NEW r \in Requests, Resume(r) PROVE BackupOnMac'
  BY <1>8 DEF Resume
<1>9. ASSUME NEW r \in Requests, WriteJournal(r) PROVE BackupOnMac'
  BY <1>9 DEF WriteJournal
<1>10. ASSUME NEW r \in Requests, Accept(r) PROVE BackupOnMac'
  BY <1>10 DEF Accept
<1>11. ASSUME NEW r \in Requests, AwaitExit(r) PROVE BackupOnMac'
  BY <1>11 DEF AwaitExit
<1>12. ASSUME NEW r \in Requests, AwaitTimesOut(r) PROVE BackupOnMac'
  BY <1>12 DEF AwaitTimesOut
<1>13. ASSUME NEW r \in Requests, StopPortal(r) PROVE BackupOnMac'
  BY <1>13 DEF StopPortal
<1>14. ASSUME NEW r \in Requests, Replace(r) PROVE BackupOnMac'
  BY <1>14 DEF Replace, OwnerHeld, Working, JournalOnMac
<1>15. ASSUME NEW r \in Requests, StartCandidate(r) PROVE BackupOnMac'
  BY <1>15 DEF StartCandidate
<1>16. ASSUME NEW r \in Requests, Verified(r) PROVE BackupOnMac'
  BY <1>16 DEF Verified
<1>17. ASSUME NEW r \in Requests, TrialFails(r) PROVE BackupOnMac'
  BY <1>17 DEF TrialFails
<1>18. ASSUME NEW r \in Requests, Commit(r) PROVE BackupOnMac'
  BY <1>18 DEF Commit
<1>19. ASSUME NEW r \in Requests, RestoreStops(r) PROVE BackupOnMac'
  BY <1>19 DEF RestoreStops
<1>20. ASSUME NEW r \in Requests, PutBack(r) PROVE BackupOnMac'
  BY <1>20 DEF PutBack, OwnerHeld, Working, JournalOnMac
<1>21. ASSUME NEW r \in Requests, Restart(r) PROVE BackupOnMac'
  BY <1>21 DEF Restart
<1>22. ASSUME NEW r \in Requests, Reverified(r) PROVE BackupOnMac'
  BY <1>22 DEF Reverified
<1>23. ASSUME NEW r \in Requests, RestartFails(r) PROVE BackupOnMac'
  BY <1>23 DEF RestartFails
<1>24. ASSUME NEW r \in Requests, Finish(r) PROVE BackupOnMac'
  BY <1>24 DEF Finish
<1>25. ASSUME NEW r \in Requests, Settle(r) PROVE BackupOnMac'
  BY <1>25 DEF Settle
<1>26. ASSUME NEW r \in Requests, Crash(r) PROVE BackupOnMac'
  BY <1>26 DEF Crash
<1>27. ASSUME NEW r \in Requests, Recover(r) PROVE BackupOnMac'
  BY <1>27 DEF Recover
<1>28. ASSUME NEW r \in Requests, UserRecovers(r) PROVE BackupOnMac'
  BY <1>28 DEF UserRecovers
<1>29. CASE GuardianStarts
  BY <1>29 DEF GuardianStarts
<1>30. CASE UserStarts
  BY <1>30 DEF UserStarts
<1>31. CASE PortalExits
  BY <1>31 DEF PortalExits
<1>32. CASE UNCHANGED vars
  BY <1>32 DEF vars
<1>33. CASE ScriptStarts
  BY <1>33 DEF ScriptStarts
<1> QED
  BY <1>1, <1>2, <1>3, <1>4, <1>5, <1>6, <1>7, <1>8, <1>9, <1>10, <1>11, <1>12, <1>13, <1>14,
     <1>15,
     <1>16, <1>17, <1>18, <1>19, <1>20, <1>21, <1>22, <1>23, <1>24, <1>25, <1>26, <1>27, <1>28,
     <1>29, <1>30, <1>31, <1>32, <1>33 DEF Upgrading, Worker

(* Outcomes.                                                               *)
LEMMA UndecidedNext ==
    ASSUME WrkFun, OutcomeFun, BackupFun, OwnerHeld, JournalOnMac, JournalOnWindows, Undecided, ExeKnown, ExeBefore,
           BackupOld, BackupOnMac, BackupOnWindows, TrialHasBackup, [Upgrading]_vars
    PROVE  Undecided'
<1> USE DistinctAssumption
    DEF WrkFun, OutcomeFun, Undecided, Trial, Restore, Mac, GoesTo, fixedVars, fileVars
<1>1. ASSUME NEW r \in Requests, Submit(r) PROVE Undecided'
  BY <1>1 DEF Submit
<1>2. ASSUME NEW r \in Requests, Poll(r) PROVE Undecided'
  BY <1>2 DEF Poll
<1>3. ASSUME NEW r \in Requests, Deadline(r) PROVE Undecided'
  BY <1>3 DEF Deadline
<1>4. ASSUME NEW r \in Requests, Interrupted(r) PROVE Undecided'
  BY <1>4 DEF Interrupted
<1>5. ASSUME NEW r \in Requests, Admit(r) PROVE Undecided'
  BY <1>5 DEF Admit
<1>6. ASSUME NEW r \in Requests, Reject(r) PROVE Undecided'
  BY <1>6, ZenonT(60) DEF Reject
<1>7. ASSUME NEW r \in Requests, AlreadyEnded(r) PROVE Undecided'
  BY <1>7 DEF AlreadyEnded
<1>8. ASSUME NEW r \in Requests, Resume(r) PROVE Undecided'
  BY <1>8 DEF Resume
<1>9. ASSUME NEW r \in Requests, WriteJournal(r) PROVE Undecided'
  BY <1>9 DEF WriteJournal
<1>10. ASSUME NEW r \in Requests, Accept(r) PROVE Undecided'
  BY <1>10 DEF Accept
<1>11. ASSUME NEW r \in Requests, AwaitExit(r) PROVE Undecided'
  BY <1>11 DEF AwaitExit
<1>12. ASSUME NEW r \in Requests, AwaitTimesOut(r) PROVE Undecided'
  BY <1>12, ZenonT(60) DEF AwaitTimesOut, JournalOnWindows
<1>13. ASSUME NEW r \in Requests, StopPortal(r) PROVE Undecided'
  BY <1>13 DEF StopPortal
<1>14. ASSUME NEW r \in Requests, Replace(r) PROVE Undecided'
  BY <1>14 DEF Replace
<1>15. ASSUME NEW r \in Requests, StartCandidate(r) PROVE Undecided'
  BY <1>15 DEF StartCandidate
<1>16. ASSUME NEW r \in Requests, Verified(r) PROVE Undecided'
  BY <1>16 DEF Verified
<1>17. ASSUME NEW r \in Requests, TrialFails(r) PROVE Undecided'
  BY <1>17 DEF TrialFails
<1>18. ASSUME NEW r \in Requests, Commit(r) PROVE Undecided'
  BY <1>18 DEF Commit
<1>19. ASSUME NEW r \in Requests, RestoreStops(r) PROVE Undecided'
  BY <1>19 DEF RestoreStops
<1>20. ASSUME NEW r \in Requests, PutBack(r) PROVE Undecided'
  BY <1>20, ZenonT(60) DEF PutBack, JournalOnWindows
<1>21. ASSUME NEW r \in Requests, Restart(r) PROVE Undecided'
  BY <1>21 DEF Restart
<1>22. ASSUME NEW r \in Requests, Reverified(r) PROVE Undecided'
  BY <1>22 DEF Reverified
<1>23. ASSUME NEW r \in Requests, RestartFails(r) PROVE Undecided'
  BY <1>23 DEF RestartFails
<1>24. ASSUME NEW r \in Requests, Finish(r) PROVE Undecided'
  BY <1>24 DEF Finish, JournalOnWindows
<1>25. ASSUME NEW r \in Requests, Settle(r) PROVE Undecided'
  BY <1>25 DEF Settle
<1>26. ASSUME NEW r \in Requests, Crash(r) PROVE Undecided'
  BY <1>26 DEF Crash
<1>27. ASSUME NEW r \in Requests, Recover(r) PROVE Undecided'
  BY <1>27 DEF Recover
<1>28. ASSUME NEW r \in Requests, UserRecovers(r) PROVE Undecided'
  BY <1>28 DEF UserRecovers
<1>29. CASE GuardianStarts
  BY <1>29 DEF GuardianStarts
<1>30. CASE UserStarts
  BY <1>30 DEF UserStarts
<1>31. CASE PortalExits
  BY <1>31 DEF PortalExits
<1>32. CASE UNCHANGED vars
  BY <1>32 DEF vars
<1>33. CASE ScriptStarts
  BY <1>33 DEF ScriptStarts
<1> QED
  BY <1>1, <1>2, <1>3, <1>4, <1>5, <1>6, <1>7, <1>8, <1>9, <1>10, <1>11, <1>12, <1>13, <1>14,
     <1>15,
     <1>16, <1>17, <1>18, <1>19, <1>20, <1>21, <1>22, <1>23, <1>24, <1>25, <1>26, <1>27, <1>28,
     <1>29, <1>30, <1>31, <1>32, <1>33 DEF Upgrading, Worker

(* Where the candidate is not installed.                                   *)
LEMMA ExeBeforeNext ==
    ASSUME WrkFun, OutcomeFun, BackupFun, OwnerHeld, JournalOnMac, JournalOnWindows, Undecided, ExeKnown, ExeBefore,
           BackupOld, BackupOnMac, BackupOnWindows, TrialHasBackup, [Upgrading]_vars
    PROVE  ExeBefore'
<1> USE DistinctAssumption
    DEF WrkFun, OutcomeFun, BackupFun, ExeBefore, Trial, Restore, Mac, GoesTo, fixedVars, fileVars
<1>1. ASSUME NEW r \in Requests, Submit(r) PROVE ExeBefore'
  BY <1>1 DEF Submit
<1>2. ASSUME NEW r \in Requests, Poll(r) PROVE ExeBefore'
  BY <1>2 DEF Poll
<1>3. ASSUME NEW r \in Requests, Deadline(r) PROVE ExeBefore'
  BY <1>3 DEF Deadline
<1>4. ASSUME NEW r \in Requests, Interrupted(r) PROVE ExeBefore'
  BY <1>4 DEF Interrupted
<1>5. ASSUME NEW r \in Requests, Admit(r) PROVE ExeBefore'
  BY <1>5 DEF Admit, ExeKnown
<1>6. ASSUME NEW r \in Requests, Reject(r) PROVE ExeBefore'
  BY <1>6 DEF Reject, ExeKnown
<1>7. ASSUME NEW r \in Requests, AlreadyEnded(r) PROVE ExeBefore'
  BY <1>7 DEF AlreadyEnded
<1>8. ASSUME NEW r \in Requests, Resume(r) PROVE ExeBefore'
  BY <1>8 DEF Resume
<1>9. ASSUME NEW r \in Requests, WriteJournal(r) PROVE ExeBefore'
  BY <1>9 DEF WriteJournal
<1>10. ASSUME NEW r \in Requests, Accept(r) PROVE ExeBefore'
  BY <1>10 DEF Accept
<1>11. ASSUME NEW r \in Requests, AwaitExit(r) PROVE ExeBefore'
  BY <1>11 DEF AwaitExit
<1>12. ASSUME NEW r \in Requests, AwaitTimesOut(r) PROVE ExeBefore'
  BY <1>12 DEF AwaitTimesOut
<1>13. ASSUME NEW r \in Requests, StopPortal(r) PROVE ExeBefore'
  BY <1>13 DEF StopPortal
<1>14. ASSUME NEW r \in Requests, Replace(r) PROVE ExeBefore'
  BY <1>14 DEF Replace, Undecided
<1>15. ASSUME NEW r \in Requests, StartCandidate(r) PROVE ExeBefore'
  BY <1>15 DEF StartCandidate
<1>16. ASSUME NEW r \in Requests, Verified(r) PROVE ExeBefore'
  BY <1>16 DEF Verified
<1>17. ASSUME NEW r \in Requests, TrialFails(r) PROVE ExeBefore'
  BY <1>17 DEF TrialFails
<1>18. ASSUME NEW r \in Requests, Commit(r) PROVE ExeBefore'
  BY <1>18 DEF Commit
<1>19. ASSUME NEW r \in Requests, RestoreStops(r) PROVE ExeBefore'
  BY <1>19 DEF RestoreStops
<1>20. ASSUME NEW r \in Requests, PutBack(r) PROVE ExeBefore'
  <2>1. CASE Mac /\ GoesTo(r, "restart") /\ UNCHANGED <<journal, gate, outcome, error, backup>>
    BY <1>20, <2>1, ZenonT(60) DEF PutBack, OwnerHeld, Working, JournalOnMac, JournalOnWindows,
       TrialHasBackup, BackupOld
  <2>2. CASE ~Mac /\ journal' = None /\ gate' = None /\ outcome' = [outcome EXCEPT ![r] = "rolled back"]
              /\ error' = [error EXCEPT ![r] = TRUE]
              /\ backup' = [backup EXCEPT ![r] = None] /\ GoesTo(r, "restart")
    BY <1>20, <2>2, ZenonT(60) DEF PutBack, OwnerHeld, Working, JournalOnMac, JournalOnWindows,
       TrialHasBackup, BackupOld
  <2> QED
    BY <1>20, <2>1, <2>2 DEF PutBack
<1>21. ASSUME NEW r \in Requests, Restart(r) PROVE ExeBefore'
  BY <1>21 DEF Restart
<1>22. ASSUME NEW r \in Requests, Reverified(r) PROVE ExeBefore'
  BY <1>22 DEF Reverified
<1>23. ASSUME NEW r \in Requests, RestartFails(r) PROVE ExeBefore'
  BY <1>23 DEF RestartFails
<1>24. ASSUME NEW r \in Requests, Finish(r) PROVE ExeBefore'
  BY <1>24 DEF Finish
<1>25. ASSUME NEW r \in Requests, Settle(r) PROVE ExeBefore'
  BY <1>25 DEF Settle
<1>26. ASSUME NEW r \in Requests, Crash(r) PROVE ExeBefore'
  BY <1>26 DEF Crash
<1>27. ASSUME NEW r \in Requests, Recover(r) PROVE ExeBefore'
  BY <1>27 DEF Recover
<1>28. ASSUME NEW r \in Requests, UserRecovers(r) PROVE ExeBefore'
  BY <1>28 DEF UserRecovers
<1>29. CASE GuardianStarts
  BY <1>29 DEF GuardianStarts
<1>30. CASE UserStarts
  BY <1>30 DEF UserStarts
<1>31. CASE PortalExits
  BY <1>31 DEF PortalExits
<1>32. CASE UNCHANGED vars
  BY <1>32 DEF vars
<1>33. CASE ScriptStarts
  BY <1>33 DEF ScriptStarts
<1> QED
  BY <1>1, <1>2, <1>3, <1>4, <1>5, <1>6, <1>7, <1>8, <1>9, <1>10, <1>11, <1>12, <1>13, <1>14,
     <1>15,
     <1>16, <1>17, <1>18, <1>19, <1>20, <1>21, <1>22, <1>23, <1>24, <1>25, <1>26, <1>27, <1>28,
     <1>29, <1>30, <1>31, <1>32, <1>33 DEF Upgrading, Worker

(* The command lines.                                                      *)
LEMMA NotYetNext ==
    ASSUME WrkFun, OutcomeFun, CliFun, ToldFun, ErrorFun, NotYet, MacErrors, WindowsWaits,
           RejectedEnded, OwnerHeld, JournalOnMac, JournalOnWindows, Undecided, ExeKnown, ExeBefore,
           BackupOld, BackupOnMac, BackupOnWindows, TrialHasBackup, TypeOK, [Upgrading]_vars
    PROVE  NotYet'
<1> USE DistinctAssumption
    DEF WrkFun, OutcomeFun, CliFun, ToldFun, ErrorFun, NotYet, Trial, Restore, Mac, GoesTo,
        fixedVars, fileVars
<1>1. ASSUME NEW r \in Requests, Submit(r) PROVE NotYet'
  BY <1>1 DEF Submit
<1>2. ASSUME NEW r \in Requests, Poll(r) PROVE NotYet'
  BY <1>2 DEF Poll, Report
<1>3. ASSUME NEW r \in Requests, Deadline(r) PROVE NotYet'
  BY <1>3, ZenonT(60) DEF Deadline, Report
<1>4. ASSUME NEW r \in Requests, Interrupted(r) PROVE NotYet'
  BY <1>4 DEF Interrupted, Report
<1>5. ASSUME NEW r \in Requests, Admit(r) PROVE NotYet'
  BY <1>5 DEF Admit
<1>6. ASSUME NEW r \in Requests, Reject(r) PROVE NotYet'
  <2>1. CASE (journal = r \/ (Mac /\ accepted[r])) /\ GoesTo(r, "dead") /\ UNCHANGED outcome
    BY <1>6, <2>1 DEF Reject
  <2>2. CASE journal # r /\ ~(Mac /\ accepted[r]) /\ GoesTo(r, "done") /\ error' = [error EXCEPT ![r] = TRUE]
              /\ outcome' = [outcome EXCEPT ![r] = "failed"]
    BY <1>6, <2>2 DEF Reject
  <2> QED
    BY <1>6, <2>1, <2>2 DEF Reject
<1>7. ASSUME NEW r \in Requests, AlreadyEnded(r) PROVE NotYet'
  BY <1>7 DEF AlreadyEnded
<1>8. ASSUME NEW r \in Requests, Resume(r) PROVE NotYet'
  BY <1>8 DEF Resume
<1>9. ASSUME NEW r \in Requests, WriteJournal(r) PROVE NotYet'
  BY <1>9 DEF WriteJournal
<1>10. ASSUME NEW r \in Requests, Accept(r) PROVE NotYet'
  BY <1>10 DEF Accept
<1>11. ASSUME NEW r \in Requests, AwaitExit(r) PROVE NotYet'
  BY <1>11 DEF AwaitExit
<1>12. ASSUME NEW r \in Requests, AwaitTimesOut(r) PROVE NotYet'
  BY <1>12, ZenonT(60) DEF AwaitTimesOut
<1>13. ASSUME NEW r \in Requests, StopPortal(r) PROVE NotYet'
  BY <1>13 DEF StopPortal
<1>14. ASSUME NEW r \in Requests, Replace(r) PROVE NotYet'
  BY <1>14 DEF Replace
<1>15. ASSUME NEW r \in Requests, StartCandidate(r) PROVE NotYet'
  BY <1>15 DEF StartCandidate
<1>16. ASSUME NEW r \in Requests, Verified(r) PROVE NotYet'
  BY <1>16 DEF Verified
<1>17. ASSUME NEW r \in Requests, TrialFails(r) PROVE NotYet'
  BY <1>17, ZenonT(60) DEF TrialFails
<1>18. ASSUME NEW r \in Requests, Commit(r) PROVE NotYet'
  BY <1>18, ZenonT(60) DEF Commit
<1>19. ASSUME NEW r \in Requests, RestoreStops(r) PROVE NotYet'
  BY <1>19 DEF RestoreStops
<1>20. ASSUME NEW r \in Requests, PutBack(r) PROVE NotYet'
  <2>1. CASE Mac /\ GoesTo(r, "restart") /\ UNCHANGED <<journal, gate, outcome, error, backup>>
    BY <1>20, <2>1 DEF PutBack
  <2>2. CASE ~Mac /\ journal' = None /\ gate' = None /\ outcome' = [outcome EXCEPT ![r] = "rolled back"]
              /\ error' = [error EXCEPT ![r] = TRUE]
              /\ backup' = [backup EXCEPT ![r] = None] /\ GoesTo(r, "restart")
    BY <1>20, <2>2 DEF PutBack
  <2> QED
    BY <1>20, <2>1, <2>2 DEF PutBack
<1>21. ASSUME NEW r \in Requests, Restart(r) PROVE NotYet'
  BY <1>21, ZenonT(60) DEF Restart
<1>22. ASSUME NEW r \in Requests, Reverified(r) PROVE NotYet'
  BY <1>22 DEF Reverified
<1>23. ASSUME NEW r \in Requests, RestartFails(r) PROVE NotYet'
  BY <1>23 DEF RestartFails
<1>24. ASSUME NEW r \in Requests, Finish(r) PROVE NotYet'
  BY <1>24 DEF Finish
<1>25. ASSUME NEW r \in Requests, Settle(r) PROVE NotYet'
  BY <1>25 DEF Settle
<1>26. ASSUME NEW r \in Requests, Crash(r) PROVE NotYet'
  BY <1>26 DEF Crash
<1>27. ASSUME NEW r \in Requests, Recover(r) PROVE NotYet'
  BY <1>27 DEF Recover, Recoverable
<1>28. ASSUME NEW r \in Requests, UserRecovers(r) PROVE NotYet'
  BY <1>28 DEF UserRecovers, Recoverable
<1>29. CASE GuardianStarts
  BY <1>29 DEF GuardianStarts
<1>30. CASE UserStarts
  BY <1>30 DEF UserStarts
<1>31. CASE PortalExits
  BY <1>31 DEF PortalExits
<1>32. CASE UNCHANGED vars
  BY <1>32 DEF vars
<1>33. CASE ScriptStarts
  BY <1>33 DEF ScriptStarts
<1> QED
  BY <1>1, <1>2, <1>3, <1>4, <1>5, <1>6, <1>7, <1>8, <1>9, <1>10, <1>11, <1>12, <1>13, <1>14,
     <1>15,
     <1>16, <1>17, <1>18, <1>19, <1>20, <1>21, <1>22, <1>23, <1>24, <1>25, <1>26, <1>27, <1>28,
     <1>29, <1>30, <1>31, <1>32, <1>33 DEF Upgrading, Worker

(* macOS rejects before it accepts.                                        *)
LEMMA MacErrorsNext ==
    ASSUME WrkFun, OutcomeFun, CliFun, ToldFun, ErrorFun, NotYet, MacErrors, WindowsWaits,
           RejectedEnded, OwnerHeld, JournalOnMac, JournalOnWindows, Undecided, ExeKnown, ExeBefore,
           BackupOld, BackupOnMac, BackupOnWindows, TrialHasBackup, TypeOK, [Upgrading]_vars
    PROVE  MacErrors'
<1> USE DistinctAssumption
    DEF WrkFun, OutcomeFun, CliFun, ToldFun, ErrorFun, MacErrors, Trial, Restore, Mac, GoesTo,
        fixedVars, fileVars
<1>1. ASSUME NEW r \in Requests, Submit(r) PROVE MacErrors'
  BY <1>1 DEF Submit, NotYet
<1>2. ASSUME NEW r \in Requests, Poll(r) PROVE MacErrors'
  BY <1>2 DEF Poll
<1>3. ASSUME NEW r \in Requests, Deadline(r) PROVE MacErrors'
  BY <1>3 DEF Deadline
<1>4. ASSUME NEW r \in Requests, Interrupted(r) PROVE MacErrors'
  BY <1>4 DEF Interrupted
<1>5. ASSUME NEW r \in Requests, Admit(r) PROVE MacErrors'
  BY <1>5 DEF Admit
<1>6. ASSUME NEW r \in Requests, Reject(r) PROVE MacErrors'
  BY <1>6, ZenonT(60) DEF Reject
<1>7. ASSUME NEW r \in Requests, AlreadyEnded(r) PROVE MacErrors'
  BY <1>7 DEF AlreadyEnded
<1>8. ASSUME NEW r \in Requests, Resume(r) PROVE MacErrors'
  BY <1>8 DEF Resume
<1>9. ASSUME NEW r \in Requests, WriteJournal(r) PROVE MacErrors'
  BY <1>9 DEF WriteJournal
<1>10. ASSUME NEW r \in Requests, Accept(r) PROVE MacErrors'
  BY <1>10 DEF Accept
<1>11. ASSUME NEW r \in Requests, AwaitExit(r) PROVE MacErrors'
  BY <1>11 DEF AwaitExit
<1>12. ASSUME NEW r \in Requests, AwaitTimesOut(r) PROVE MacErrors'
  BY <1>12 DEF AwaitTimesOut
<1>13. ASSUME NEW r \in Requests, StopPortal(r) PROVE MacErrors'
  BY <1>13 DEF StopPortal
<1>14. ASSUME NEW r \in Requests, Replace(r) PROVE MacErrors'
  BY <1>14 DEF Replace
<1>15. ASSUME NEW r \in Requests, StartCandidate(r) PROVE MacErrors'
  BY <1>15 DEF StartCandidate
<1>16. ASSUME NEW r \in Requests, Verified(r) PROVE MacErrors'
  BY <1>16 DEF Verified
<1>17. ASSUME NEW r \in Requests, TrialFails(r) PROVE MacErrors'
  BY <1>17 DEF TrialFails
<1>18. ASSUME NEW r \in Requests, Commit(r) PROVE MacErrors'
  BY <1>18 DEF Commit
<1>19. ASSUME NEW r \in Requests, RestoreStops(r) PROVE MacErrors'
  BY <1>19 DEF RestoreStops
<1>20. ASSUME NEW r \in Requests, PutBack(r) PROVE MacErrors'
  BY <1>20 DEF PutBack
<1>21. ASSUME NEW r \in Requests, Restart(r) PROVE MacErrors'
  BY <1>21 DEF Restart
<1>22. ASSUME NEW r \in Requests, Reverified(r) PROVE MacErrors'
  BY <1>22 DEF Reverified
<1>23. ASSUME NEW r \in Requests, RestartFails(r) PROVE MacErrors'
  BY <1>23 DEF RestartFails
<1>24. ASSUME NEW r \in Requests, Finish(r) PROVE MacErrors'
  BY <1>24 DEF Finish
<1>25. ASSUME NEW r \in Requests, Settle(r) PROVE MacErrors'
  BY <1>25 DEF Settle
<1>26. ASSUME NEW r \in Requests, Crash(r) PROVE MacErrors'
  BY <1>26 DEF Crash
<1>27. ASSUME NEW r \in Requests, Recover(r) PROVE MacErrors'
  BY <1>27 DEF Recover, Recoverable
<1>28. ASSUME NEW r \in Requests, UserRecovers(r) PROVE MacErrors'
  BY <1>28 DEF UserRecovers, Recoverable
<1>29. CASE GuardianStarts
  BY <1>29 DEF GuardianStarts
<1>30. CASE UserStarts
  BY <1>30 DEF UserStarts
<1>31. CASE PortalExits
  BY <1>31 DEF PortalExits
<1>32. CASE UNCHANGED vars
  BY <1>32 DEF vars
<1>33. CASE ScriptStarts
  BY <1>33 DEF ScriptStarts
<1> QED
  BY <1>1, <1>2, <1>3, <1>4, <1>5, <1>6, <1>7, <1>8, <1>9, <1>10, <1>11, <1>12, <1>13, <1>14,
     <1>15,
     <1>16, <1>17, <1>18, <1>19, <1>20, <1>21, <1>22, <1>23, <1>24, <1>25, <1>26, <1>27, <1>28,
     <1>29, <1>30, <1>31, <1>32, <1>33 DEF Upgrading, Worker

(* On Windows a command waits only for what has changed nothing.           *)
LEMMA WindowsWaitsNext ==
    ASSUME WrkFun, OutcomeFun, CliFun, ToldFun, ErrorFun, NotYet, MacErrors, WindowsWaits,
           RejectedEnded, OwnerHeld, JournalOnMac, JournalOnWindows, Undecided, ExeKnown, ExeBefore,
           BackupOld, BackupOnMac, BackupOnWindows, TrialHasBackup, TypeOK, [Upgrading]_vars
    PROVE  WindowsWaits'
<1> USE DistinctAssumption
    DEF WrkFun, OutcomeFun, CliFun, ToldFun, ErrorFun, WindowsWaits, Trial, Restore, Mac, GoesTo,
        fixedVars, fileVars
<1>1. ASSUME NEW r \in Requests, Submit(r) PROVE WindowsWaits'
  BY <1>1 DEF Submit, NotYet
<1>2. ASSUME NEW r \in Requests, Poll(r) PROVE WindowsWaits'
  BY <1>2 DEF Poll, Report
<1>3. ASSUME NEW r \in Requests, Deadline(r) PROVE WindowsWaits'
  BY <1>3, ZenonT(60) DEF Deadline, Report
<1>4. ASSUME NEW r \in Requests, Interrupted(r) PROVE WindowsWaits'
  BY <1>4 DEF Interrupted, Report
<1>5. ASSUME NEW r \in Requests, Admit(r) PROVE WindowsWaits'
  BY <1>5 DEF Admit
<1>6. ASSUME NEW r \in Requests, Reject(r) PROVE WindowsWaits'
  BY <1>6, ZenonT(60) DEF Reject
<1>7. ASSUME NEW r \in Requests, AlreadyEnded(r) PROVE WindowsWaits'
  BY <1>7 DEF AlreadyEnded
<1>8. ASSUME NEW r \in Requests, Resume(r) PROVE WindowsWaits'
  BY <1>8 DEF Resume
<1>9. ASSUME NEW r \in Requests, WriteJournal(r) PROVE WindowsWaits'
  BY <1>9 DEF WriteJournal
<1>10. ASSUME NEW r \in Requests, Accept(r) PROVE WindowsWaits'
  BY <1>10 DEF Accept
<1>11. ASSUME NEW r \in Requests, AwaitExit(r) PROVE WindowsWaits'
  BY <1>11 DEF AwaitExit
<1>12. ASSUME NEW r \in Requests, AwaitTimesOut(r) PROVE WindowsWaits'
  BY <1>12 DEF AwaitTimesOut
<1>13. ASSUME NEW r \in Requests, StopPortal(r) PROVE WindowsWaits'
  BY <1>13 DEF StopPortal
<1>14. ASSUME NEW r \in Requests, Replace(r) PROVE WindowsWaits'
  BY <1>14 DEF Replace
<1>15. ASSUME NEW r \in Requests, StartCandidate(r) PROVE WindowsWaits'
  BY <1>15 DEF StartCandidate
<1>16. ASSUME NEW r \in Requests, Verified(r) PROVE WindowsWaits'
  BY <1>16 DEF Verified
<1>17. ASSUME NEW r \in Requests, TrialFails(r) PROVE WindowsWaits'
  BY <1>17, ZenonT(60) DEF TrialFails
<1>18. ASSUME NEW r \in Requests, Commit(r) PROVE WindowsWaits'
  BY <1>18, ZenonT(60) DEF Commit
<1>19. ASSUME NEW r \in Requests, RestoreStops(r) PROVE WindowsWaits'
  BY <1>19 DEF RestoreStops
<1>20. ASSUME NEW r \in Requests, PutBack(r) PROVE WindowsWaits'
  BY <1>20, ZenonT(60) DEF PutBack
<1>21. ASSUME NEW r \in Requests, Restart(r) PROVE WindowsWaits'
  BY <1>21 DEF Restart
<1>22. ASSUME NEW r \in Requests, Reverified(r) PROVE WindowsWaits'
  BY <1>22 DEF Reverified
<1>23. ASSUME NEW r \in Requests, RestartFails(r) PROVE WindowsWaits'
  BY <1>23 DEF RestartFails
<1>24. ASSUME NEW r \in Requests, Finish(r) PROVE WindowsWaits'
  BY <1>24 DEF Finish
<1>25. ASSUME NEW r \in Requests, Settle(r) PROVE WindowsWaits'
  BY <1>25 DEF Settle
<1>26. ASSUME NEW r \in Requests, Crash(r) PROVE WindowsWaits'
  BY <1>26 DEF Crash
<1>27. ASSUME NEW r \in Requests, Recover(r) PROVE WindowsWaits'
  BY <1>27 DEF Recover, TypeOK, Guardians, Recoverable
<1>28. ASSUME NEW r \in Requests, UserRecovers(r) PROVE WindowsWaits'
  BY <1>28 DEF UserRecovers, Recoverable
<1>29. CASE GuardianStarts
  BY <1>29 DEF GuardianStarts
<1>30. CASE UserStarts
  BY <1>30 DEF UserStarts
<1>31. CASE PortalExits
  BY <1>31 DEF PortalExits
<1>32. CASE UNCHANGED vars
  BY <1>32 DEF vars
<1>33. CASE ScriptStarts
  BY <1>33 DEF ScriptStarts
<1> QED
  BY <1>1, <1>2, <1>3, <1>4, <1>5, <1>6, <1>7, <1>8, <1>9, <1>10, <1>11, <1>12, <1>13, <1>14,
     <1>15,
     <1>16, <1>17, <1>18, <1>19, <1>20, <1>21, <1>22, <1>23, <1>24, <1>25, <1>26, <1>27, <1>28,
     <1>29, <1>30, <1>31, <1>32, <1>33 DEF Upgrading, Worker

(* After a rejection.                                                      *)
LEMMA RejectedEndedNext ==
    ASSUME WrkFun, OutcomeFun, CliFun, ToldFun, ErrorFun, NotYet, MacErrors, WindowsWaits,
           RejectedEnded, OwnerHeld, JournalOnMac, JournalOnWindows, Undecided, ExeKnown, ExeBefore,
           BackupOld, BackupOnMac, BackupOnWindows, TrialHasBackup, TypeOK, [Upgrading]_vars
    PROVE  RejectedEnded'
<1> USE DistinctAssumption
    DEF WrkFun, OutcomeFun, CliFun, ToldFun, ErrorFun, RejectedEnded, Trial, Restore, Mac, GoesTo,
        fixedVars, fileVars
<1>1. ASSUME NEW r \in Requests, Submit(r) PROVE RejectedEnded'
  BY <1>1 DEF Submit, NotYet
<1>2. ASSUME NEW r \in Requests, Poll(r) PROVE RejectedEnded'
  BY <1>2 DEF Poll, Answer, MacErrors, WindowsWaits, ExeKnown, Report
<1>3. ASSUME NEW r \in Requests, Deadline(r) PROVE RejectedEnded'
  BY <1>3, ZenonT(60) DEF Deadline, WindowsWaits, ExeKnown, Report
<1>4. ASSUME NEW r \in Requests, Interrupted(r) PROVE RejectedEnded'
  BY <1>4 DEF Interrupted, Report
<1>5. ASSUME NEW r \in Requests, Admit(r) PROVE RejectedEnded'
  BY <1>5 DEF Admit
<1>6. ASSUME NEW r \in Requests, Reject(r) PROVE RejectedEnded'
  BY <1>6 DEF Reject
<1>7. ASSUME NEW r \in Requests, AlreadyEnded(r) PROVE RejectedEnded'
  BY <1>7 DEF AlreadyEnded
<1>8. ASSUME NEW r \in Requests, Resume(r) PROVE RejectedEnded'
  BY <1>8 DEF Resume
<1>9. ASSUME NEW r \in Requests, WriteJournal(r) PROVE RejectedEnded'
  BY <1>9 DEF WriteJournal
<1>10. ASSUME NEW r \in Requests, Accept(r) PROVE RejectedEnded'
  BY <1>10 DEF Accept
<1>11. ASSUME NEW r \in Requests, AwaitExit(r) PROVE RejectedEnded'
  BY <1>11 DEF AwaitExit
<1>12. ASSUME NEW r \in Requests, AwaitTimesOut(r) PROVE RejectedEnded'
  BY <1>12 DEF AwaitTimesOut
<1>13. ASSUME NEW r \in Requests, StopPortal(r) PROVE RejectedEnded'
  BY <1>13 DEF StopPortal
<1>14. ASSUME NEW r \in Requests, Replace(r) PROVE RejectedEnded'
  BY <1>14 DEF Replace
<1>15. ASSUME NEW r \in Requests, StartCandidate(r) PROVE RejectedEnded'
  BY <1>15 DEF StartCandidate
<1>16. ASSUME NEW r \in Requests, Verified(r) PROVE RejectedEnded'
  BY <1>16 DEF Verified
<1>17. ASSUME NEW r \in Requests, TrialFails(r) PROVE RejectedEnded'
  BY <1>17 DEF TrialFails
<1>18. ASSUME NEW r \in Requests, Commit(r) PROVE RejectedEnded'
  <2>1. CASE Mac /\ GoesTo(r, "settle") /\ UNCHANGED <<journal, owner>>
    BY <1>18, <2>1 DEF Commit
  <2>2. CASE ~Mac /\ GoesTo(r, "done") /\ journal' = None /\ owner' = None
    BY <1>18, <2>2 DEF Commit
  <2> QED
    BY <1>18, <2>1, <2>2 DEF Commit
<1>19. ASSUME NEW r \in Requests, RestoreStops(r) PROVE RejectedEnded'
  BY <1>19 DEF RestoreStops
<1>20. ASSUME NEW r \in Requests, PutBack(r) PROVE RejectedEnded'
  <2>1. CASE Mac /\ GoesTo(r, "restart") /\ UNCHANGED <<journal, gate, outcome, error, backup>>
    BY <1>20, <2>1, ZenonT(60) DEF PutBack, BackupOld
  <2>2. CASE ~Mac /\ journal' = None /\ gate' = None /\ outcome' = [outcome EXCEPT ![r] = "rolled back"]
              /\ error' = [error EXCEPT ![r] = TRUE]
              /\ backup' = [backup EXCEPT ![r] = None] /\ GoesTo(r, "restart")
    BY <1>20, <2>2, ZenonT(60) DEF PutBack, BackupOld
  <2> QED
    BY <1>20, <2>1, <2>2 DEF PutBack
<1>21. ASSUME NEW r \in Requests, Restart(r) PROVE RejectedEnded'
  BY <1>21 DEF Restart
<1>22. ASSUME NEW r \in Requests, Reverified(r) PROVE RejectedEnded'
  BY <1>22 DEF Reverified
<1>23. ASSUME NEW r \in Requests, RestartFails(r) PROVE RejectedEnded'
  BY <1>23 DEF RestartFails
<1>24. ASSUME NEW r \in Requests, Finish(r) PROVE RejectedEnded'
  BY <1>24 DEF Finish
<1>25. ASSUME NEW r \in Requests, Settle(r) PROVE RejectedEnded'
  BY <1>25 DEF Settle
<1>26. ASSUME NEW r \in Requests, Crash(r) PROVE RejectedEnded'
  BY <1>26 DEF Crash
<1>27. ASSUME NEW r \in Requests, Recover(r) PROVE RejectedEnded'
  <2>1. ~Mac => guardian # "launchd"
    BY GuardianTypes
  <2> QED
    BY <1>27, <2>1 DEF Recover, Recoverable
<1>28. ASSUME NEW r \in Requests, UserRecovers(r) PROVE RejectedEnded'
  BY <1>28 DEF UserRecovers, Recoverable
<1>29. CASE GuardianStarts
  BY <1>29 DEF GuardianStarts
<1>30. CASE UserStarts
  BY <1>30 DEF UserStarts
<1>31. CASE PortalExits
  BY <1>31 DEF PortalExits
<1>32. CASE UNCHANGED vars
  BY <1>32 DEF vars
<1>33. CASE ScriptStarts
  BY <1>33 DEF ScriptStarts
<1> QED
  BY <1>1, <1>2, <1>3, <1>4, <1>5, <1>6, <1>7, <1>8, <1>9, <1>10, <1>11, <1>12, <1>13, <1>14,
     <1>15,
     <1>16, <1>17, <1>18, <1>19, <1>20, <1>21, <1>22, <1>23, <1>24, <1>25, <1>26, <1>27, <1>28,
     <1>29, <1>30, <1>31, <1>32, <1>33 DEF Upgrading, Worker

(* How a start is asked for, or done.                                      *)
LEMMA StartsTypes ==
    ASSUME TypeOK, Starts
    PROVE  /\ asked' \in BOOLEAN /\ scripts' \in Nat /\ slipped' \in BOOLEAN
           /\ portal' \in Images \cup {None}
<1>1. CASE guardian = "session"
  BY <1>1 DEF TypeOK, Starts
<1>2. CASE guardian = "script"
  <2>1. scripts \in Nat /\ asked \in BOOLEAN /\ slipped \in BOOLEAN /\ portal \in Images \cup {None}
    BY DEF TypeOK
  <2>2. scripts' = scripts + 1 /\ UNCHANGED <<asked, slipped, portal>>
    BY <1>2 DEF Starts
  <2>3. scripts' \in Nat
    BY <2>1, <2>2
  <2> QED
    BY <2>1, <2>2, <2>3
<1>3. CASE guardian = "supervisor" \/ (Mac /\ guardian = "none")
  BY <1>3 DEF TypeOK, Starts
<1>4. CASE guardian \notin {"session", "script", "supervisor"} /\ ~(Mac /\ guardian = "none")
  BY <1>4 DEF TypeOK, Starts
<1> QED
  BY <1>1, <1>2, <1>3, <1>4

(* ... and that it is asked of the guardian there is, who is left as he is.*)
LEMMA StartsAsks ==
    ASSUME Starts
    PROVE  /\ UNCHANGED slipped
           /\ guardian = "session" => asked' /\ UNCHANGED <<scripts, portal>>
           /\ guardian = "script" => scripts' = scripts + 1 /\ UNCHANGED <<asked, portal>>
           /\ guardian \notin {"session", "script"} => UNCHANGED <<asked, scripts>>
<1>1. CASE guardian = "session"
  BY <1>1 DEF Starts
<1>2. CASE guardian = "script"
  BY <1>2 DEF Starts
<1>3. CASE guardian \notin {"session", "script"}
  BY <1>3 DEF Starts
<1> QED
  BY <1>1, <1>2, <1>3

(* Types.                                                                  *)
LEMMA TypeNext ==
    ASSUME TypeOK, [Upgrading]_vars
    PROVE  TypeOK'
<1> USE BoundAssumption, DistinctAssumption
    DEF TypeOK, Images, Points, Mac, GoesTo, fixedVars, fileVars, askVars, GoesOn
<1>1. ASSUME NEW r \in Requests, Submit(r) PROVE TypeOK'
  BY <1>1 DEF Submit
<1>2. ASSUME NEW r \in Requests, Poll(r) PROVE TypeOK'
  BY <1>2 DEF Poll, Report, Answer
<1>3. ASSUME NEW r \in Requests, Deadline(r) PROVE TypeOK'
  BY <1>3, ZenonT(60) DEF Deadline, Report, Releases
<1>4. ASSUME NEW r \in Requests, Interrupted(r) PROVE TypeOK'
  BY <1>4 DEF Interrupted, Report
<1>5. ASSUME NEW r \in Requests, Admit(r) PROVE TypeOK'
  <2>1. CASE Mac
    <3>1. guardian' \in Guardians[platform]
      BY <1>5, <2>1, GuardianTypes, Guarded DEF Admit
    <3> QED
      BY <1>5, <2>1, <3>1, ZenonT(60) DEF Admit
  <2>2. CASE ~Mac
    BY <1>5, <2>2 DEF Admit
  <2> QED
    BY <2>1, <2>2
<1>6. ASSUME NEW r \in Requests, Reject(r) PROVE TypeOK'
  <2>1. error' \in [Requests -> BOOLEAN] /\ outcome' \in [Requests -> {"none", "failed", "rolled back", "succeeded"}]
    <3>1. CASE error' = [error EXCEPT ![r] = @ \/ ~Mac] /\ UNCHANGED outcome
      BY <3>1
    <3>2. CASE error' = [error EXCEPT ![r] = TRUE] /\ outcome' = [outcome EXCEPT ![r] = "failed"]
      BY <3>2
    <3> QED
      BY <1>6, <3>1, <3>2 DEF Reject
  <2>2. wrk' \in [Requests -> Points]
    BY <1>6, ZenonT(60) DEF Reject
  <2> QED
    BY <1>6, <2>1, <2>2 DEF Reject
<1>7. ASSUME NEW r \in Requests, AlreadyEnded(r) PROVE TypeOK'
  BY <1>7 DEF AlreadyEnded
<1>8. ASSUME NEW r \in Requests, Resume(r) PROVE TypeOK'
  BY <1>8 DEF Resume
<1>9. ASSUME NEW r \in Requests, WriteJournal(r) PROVE TypeOK'
  BY <1>9 DEF WriteJournal
<1>10. ASSUME NEW r \in Requests, Accept(r) PROVE TypeOK'
  BY <1>10 DEF Accept
<1>11. ASSUME NEW r \in Requests, AwaitExit(r) PROVE TypeOK'
  BY <1>11 DEF AwaitExit
<1>12. ASSUME NEW r \in Requests, AwaitTimesOut(r) PROVE TypeOK'
  BY <1>12 DEF AwaitTimesOut, Releases
<1>13. ASSUME NEW r \in Requests, StopPortal(r) PROVE TypeOK'
  BY <1>13 DEF StopPortal
<1>14. ASSUME NEW r \in Requests, Replace(r) PROVE TypeOK'
  BY <1>14 DEF Replace
<1>15. ASSUME NEW r \in Requests, StartCandidate(r) PROVE TypeOK'
  BY <1>15, StartsTypes DEF StartCandidate
<1>16. ASSUME NEW r \in Requests, Verified(r) PROVE TypeOK'
  BY <1>16 DEF Verified
<1>17. ASSUME NEW r \in Requests, TrialFails(r) PROVE TypeOK'
  BY <1>17, ZenonT(60) DEF TrialFails, Releases
<1>18. ASSUME NEW r \in Requests, Commit(r) PROVE TypeOK'
  BY <1>18 DEF Commit
<1>19. ASSUME NEW r \in Requests, RestoreStops(r) PROVE TypeOK'
  BY <1>19 DEF RestoreStops
<1>20. ASSUME NEW r \in Requests, PutBack(r) PROVE TypeOK'
  BY <1>20, ZenonT(60) DEF PutBack
<1>21. ASSUME NEW r \in Requests, Restart(r) PROVE TypeOK'
  <2>1. /\ asked' \in BOOLEAN /\ scripts' \in Nat /\ slipped' \in BOOLEAN
        /\ portal' \in Images \cup {None}
    BY <1>21, StartsTypes DEF Restart
  <2> QED
    BY <1>21, <2>1 DEF Restart
<1>22. ASSUME NEW r \in Requests, Reverified(r) PROVE TypeOK'
  BY <1>22 DEF Reverified
<1>23. ASSUME NEW r \in Requests, RestartFails(r) PROVE TypeOK'
  <2>1. guardian' \in Guardians[platform]
    BY <1>23, GuardianTypes, Guarded DEF RestartFails
  <2> QED
    BY <1>23, <2>1 DEF RestartFails
<1>24. ASSUME NEW r \in Requests, Finish(r) PROVE TypeOK'
  BY <1>24 DEF Finish
<1>25. ASSUME NEW r \in Requests, Settle(r) PROVE TypeOK'
  BY <1>25 DEF Settle
<1>26. ASSUME NEW r \in Requests, Crash(r) PROVE TypeOK'
  <2>1. crashes' \in 0..MaxCrashes
    BY <1>26, CrashesCounted DEF Crash
  <2>2. owner' \in Requests \cup {None} /\ gate' \in Requests \cup {None}
    BY <1>26 DEF Crash, Releases
  <2> QED
    BY <1>26, <2>1, <2>2 DEF Crash
<1>27. ASSUME NEW r \in Requests, Recover(r) PROVE TypeOK'
  BY <1>27 DEF Recover
<1>28. ASSUME NEW r \in Requests, UserRecovers(r) PROVE TypeOK'
  BY <1>28 DEF UserRecovers
<1>29. CASE GuardianStarts
  BY <1>29 DEF GuardianStarts
<1>30. CASE UserStarts
  BY <1>30 DEF UserStarts
<1>31. CASE PortalExits
  BY <1>31 DEF PortalExits
<1>32. CASE UNCHANGED vars
  BY <1>32 DEF vars
<1>33. CASE ScriptStarts
  <2>1. scripts' \in Nat
    <3>1. scripts \in Nat
      OBVIOUS
    <3>2. scripts > 0 /\ scripts' = scripts - 1
      BY <1>33 DEF ScriptStarts
    <3> HIDE DEF TypeOK
    <3> QED
      BY <3>1, <3>2
  <2>2. portal' \in Images \cup {None}
    BY <1>33 DEF ScriptStarts
  <2> QED
    BY <1>33, <2>1, <2>2 DEF ScriptStarts
<1> QED
  BY <1>1, <1>2, <1>3, <1>4, <1>5, <1>6, <1>7, <1>8, <1>9, <1>10, <1>11, <1>12, <1>13, <1>14,
     <1>15,
     <1>16, <1>17, <1>18, <1>19, <1>20, <1>21, <1>22, <1>23, <1>24, <1>25, <1>26, <1>27, <1>28,
     <1>29, <1>30, <1>31, <1>32, <1>33 DEF Upgrading, Worker

(* Starts of the Portal.                                                   *)
LEMMA GateNext ==
    ASSUME WrkFun, OwnerHeld, GateHeld, [Upgrading]_vars
    PROVE  GateHeld'
<1> USE DistinctAssumption
    DEF WrkFun, OwnerHeld, GateHeld, Working, Trial, Restore, Mac, GoesTo, fixedVars, fileVars
<1>1. ASSUME NEW r \in Requests, Submit(r) PROVE GateHeld'
  BY <1>1 DEF Submit
<1>2. ASSUME NEW r \in Requests, Poll(r) PROVE GateHeld'
  BY <1>2 DEF Poll
<1>3. ASSUME NEW r \in Requests, Deadline(r) PROVE GateHeld'
  BY <1>3 DEF Deadline, Releases
<1>4. ASSUME NEW r \in Requests, Interrupted(r) PROVE GateHeld'
  BY <1>4 DEF Interrupted
<1>5. ASSUME NEW r \in Requests, Admit(r) PROVE GateHeld'
  BY <1>5 DEF Admit
<1>6. ASSUME NEW r \in Requests, Reject(r) PROVE GateHeld'
  BY <1>6 DEF Reject
<1>7. ASSUME NEW r \in Requests, AlreadyEnded(r) PROVE GateHeld'
  BY <1>7 DEF AlreadyEnded
<1>8. ASSUME NEW r \in Requests, Resume(r) PROVE GateHeld'
  BY <1>8 DEF Resume
<1>9. ASSUME NEW r \in Requests, WriteJournal(r) PROVE GateHeld'
  BY <1>9 DEF WriteJournal
<1>10. ASSUME NEW r \in Requests, Accept(r) PROVE GateHeld'
  BY <1>10 DEF Accept
<1>11. ASSUME NEW r \in Requests, AwaitExit(r) PROVE GateHeld'
  BY <1>11 DEF AwaitExit
<1>12. ASSUME NEW r \in Requests, AwaitTimesOut(r) PROVE GateHeld'
  BY <1>12 DEF AwaitTimesOut, Releases
<1>13. ASSUME NEW r \in Requests, StopPortal(r) PROVE GateHeld'
  BY <1>13 DEF StopPortal
<1>14. ASSUME NEW r \in Requests, Replace(r) PROVE GateHeld'
  BY <1>14 DEF Replace
<1>15. ASSUME NEW r \in Requests, StartCandidate(r) PROVE GateHeld'
  BY <1>15 DEF StartCandidate
<1>16. ASSUME NEW r \in Requests, Verified(r) PROVE GateHeld'
  BY <1>16 DEF Verified
<1>17. ASSUME NEW r \in Requests, TrialFails(r) PROVE GateHeld'
  <2>1. CASE Mac /\ GoesTo(r, "restore") /\ UNCHANGED <<gate, owner, error>>
    BY <1>17, <2>1 DEF TrialFails, Releases
  <2>2. CASE ~Mac /\ gate' = r /\ GoesTo(r, "restore") /\ UNCHANGED <<owner, error>>
    BY <1>17, <2>2 DEF TrialFails, Releases
  <2>3. CASE ~Mac /\ Releases(r) /\ error' = [error EXCEPT ![r] = TRUE] /\ GoesTo(r, "dead")
    BY <1>17, <2>3 DEF TrialFails, Releases
  <2> QED
    BY <1>17, <2>1, <2>2, <2>3 DEF TrialFails
<1>18. ASSUME NEW r \in Requests, Commit(r) PROVE GateHeld'
  BY <1>18 DEF Commit
<1>19. ASSUME NEW r \in Requests, RestoreStops(r) PROVE GateHeld'
  BY <1>19 DEF RestoreStops
<1>20. ASSUME NEW r \in Requests, PutBack(r) PROVE GateHeld'
  BY <1>20 DEF PutBack
<1>21. ASSUME NEW r \in Requests, Restart(r) PROVE GateHeld'
  BY <1>21 DEF Restart
<1>22. ASSUME NEW r \in Requests, Reverified(r) PROVE GateHeld'
  BY <1>22 DEF Reverified
<1>23. ASSUME NEW r \in Requests, RestartFails(r) PROVE GateHeld'
  BY <1>23 DEF RestartFails
<1>24. ASSUME NEW r \in Requests, Finish(r) PROVE GateHeld'
  BY <1>24 DEF Finish
<1>25. ASSUME NEW r \in Requests, Settle(r) PROVE GateHeld'
  BY <1>25 DEF Settle
<1>26. ASSUME NEW r \in Requests, Crash(r) PROVE GateHeld'
  BY <1>26 DEF Crash, Releases
<1>27. ASSUME NEW r \in Requests, Recover(r) PROVE GateHeld'
  BY <1>27 DEF Recover
<1>28. ASSUME NEW r \in Requests, UserRecovers(r) PROVE GateHeld'
  BY <1>28 DEF UserRecovers
<1>29. CASE GuardianStarts
  BY <1>29 DEF GuardianStarts
<1>30. CASE UserStarts
  BY <1>30 DEF UserStarts
<1>31. CASE PortalExits
  BY <1>31 DEF PortalExits
<1>32. CASE UNCHANGED vars
  BY <1>32 DEF vars
<1>33. CASE ScriptStarts
  BY <1>33 DEF ScriptStarts
<1> QED
  BY <1>1, <1>2, <1>3, <1>4, <1>5, <1>6, <1>7, <1>8, <1>9, <1>10, <1>11, <1>12, <1>13, <1>14,
     <1>15,
     <1>16, <1>17, <1>18, <1>19, <1>20, <1>21, <1>22, <1>23, <1>24, <1>25, <1>26, <1>27, <1>28,
     <1>29, <1>30, <1>31, <1>32, <1>33 DEF Upgrading, Worker

(* No Portal runs where its image is exchanged.                            *)
LEMMA StoppedNext ==
    ASSUME WrkFun, OutcomeFun, OwnerHeld, JournalOnMac, JournalOnWindows, Undecided,
           GateHeld, Stopped, AskedOf, PendingInTrial, RunsWhatIsInstalled, TypeOK, [Upgrading]_vars
    PROVE  Stopped'
<1> USE DistinctAssumption
    DEF WrkFun, OwnerHeld, Stopped, Working, Trial, Restore, Mac, GoesTo, fixedVars, fileVars, askVars,
        GoesOn
<1>1. ASSUME NEW r \in Requests, Submit(r) PROVE Stopped'
  BY <1>1 DEF Submit
<1>2. ASSUME NEW r \in Requests, Poll(r) PROVE Stopped'
  BY <1>2 DEF Poll
<1>3. ASSUME NEW r \in Requests, Deadline(r) PROVE Stopped'
  BY <1>3 DEF Deadline
<1>4. ASSUME NEW r \in Requests, Interrupted(r) PROVE Stopped'
  BY <1>4 DEF Interrupted
<1>5. ASSUME NEW r \in Requests, Admit(r) PROVE Stopped'
  BY <1>5 DEF Admit
<1>6. ASSUME NEW r \in Requests, Reject(r) PROVE Stopped'
  BY <1>6 DEF Reject
<1>7. ASSUME NEW r \in Requests, AlreadyEnded(r) PROVE Stopped'
  BY <1>7 DEF AlreadyEnded
<1>8. ASSUME NEW r \in Requests, Resume(r) PROVE Stopped'
  BY <1>8 DEF Resume
<1>9. ASSUME NEW r \in Requests, WriteJournal(r) PROVE Stopped'
  BY <1>9 DEF WriteJournal
<1>10. ASSUME NEW r \in Requests, Accept(r) PROVE Stopped'
  BY <1>10 DEF Accept
<1>11. ASSUME NEW r \in Requests, AwaitExit(r) PROVE Stopped'
  BY <1>11 DEF AwaitExit
<1>12. ASSUME NEW r \in Requests, AwaitTimesOut(r) PROVE Stopped'
  BY <1>12 DEF AwaitTimesOut
<1>13. ASSUME NEW r \in Requests, StopPortal(r) PROVE Stopped'
  BY <1>13 DEF StopPortal
<1>14. ASSUME NEW r \in Requests, Replace(r) PROVE Stopped'
  BY <1>14 DEF Replace
<1>15. ASSUME NEW r \in Requests, StartCandidate(r) PROVE Stopped'
  BY <1>15 DEF StartCandidate
<1>16. ASSUME NEW r \in Requests, Verified(r) PROVE Stopped'
  BY <1>16 DEF Verified
<1>17. ASSUME NEW r \in Requests, TrialFails(r) PROVE Stopped'
  BY <1>17 DEF TrialFails
<1>18. ASSUME NEW r \in Requests, Commit(r) PROVE Stopped'
  BY <1>18 DEF Commit
<1>19. ASSUME NEW r \in Requests, RestoreStops(r) PROVE Stopped'
  BY <1>19 DEF RestoreStops
<1>20. ASSUME NEW r \in Requests, PutBack(r) PROVE Stopped'
  BY <1>20 DEF PutBack
<1>21. ASSUME NEW r \in Requests, Restart(r) PROVE Stopped'
  BY <1>21 DEF Restart
<1>22. ASSUME NEW r \in Requests, Reverified(r) PROVE Stopped'
  BY <1>22 DEF Reverified
<1>23. ASSUME NEW r \in Requests, RestartFails(r) PROVE Stopped'
  BY <1>23 DEF RestartFails
<1>24. ASSUME NEW r \in Requests, Finish(r) PROVE Stopped'
  BY <1>24 DEF Finish
<1>25. ASSUME NEW r \in Requests, Settle(r) PROVE Stopped'
  BY <1>25 DEF Settle
<1>26. ASSUME NEW r \in Requests, Crash(r) PROVE Stopped'
  BY <1>26 DEF Crash
<1>27. ASSUME NEW r \in Requests, Recover(r) PROVE Stopped'
  BY <1>27 DEF Recover
<1>28. ASSUME NEW r \in Requests, UserRecovers(r) PROVE Stopped'
  BY <1>28 DEF UserRecovers
<1>29. CASE GuardianStarts
  BY <1>29 DEF GuardianStarts, GateHeld, Pending, PendingInTrial, JournalOnMac, Maintenance
<1>30. CASE UserStarts
  BY <1>30 DEF UserStarts, GateHeld, Maintenance
<1>31. CASE PortalExits
  BY <1>31 DEF PortalExits
<1>32. CASE UNCHANGED vars
  BY <1>32 DEF vars
<1>33. CASE ScriptStarts
  <2>1. Pending
    BY <1>33 DEF ScriptStarts, Pending
  <2> QED
    BY <1>33, <2>1 DEF ScriptStarts, PendingInTrial, JournalOnMac
<1> QED
  BY <1>1, <1>2, <1>3, <1>4, <1>5, <1>6, <1>7, <1>8, <1>9, <1>10, <1>11, <1>12, <1>13, <1>14,
     <1>15,
     <1>16, <1>17, <1>18, <1>19, <1>20, <1>21, <1>22, <1>23, <1>24, <1>25, <1>26, <1>27, <1>28,
     <1>29, <1>30, <1>31, <1>32, <1>33 DEF Upgrading, Worker

(* Whom a worker asks for a start does not change under it.                *)
LEMMA AskedOfNext ==
    ASSUME AskedOf, TypeOK, [Upgrading]_vars
    PROVE  AskedOf'
<1> USE DEF AskedOf, askVars, fixedVars, fileVars
<1>1. scripts \in Nat
  BY DEF TypeOK
<1>2. ASSUME NEW r \in Requests,
             \/ Submit(r) \/ Poll(r) \/ Deadline(r) \/ Interrupted(r) \/ Crash(r) \/ Recover(r)
             \/ UserRecovers(r)
      PROVE  AskedOf'
  BY <1>2 DEF Submit, Poll, Deadline, Interrupted, Crash, Recover, UserRecovers
<1>3. ASSUME NEW r \in Requests,
             \/ Reject(r) \/ AlreadyEnded(r) \/ Resume(r) \/ WriteJournal(r) \/ Accept(r)
             \/ AwaitExit(r) \/ AwaitTimesOut(r) \/ StopPortal(r) \/ Replace(r) \/ Verified(r)
             \/ TrialFails(r) \/ Commit(r) \/ RestoreStops(r) \/ PutBack(r) \/ Reverified(r)
             \/ Finish(r) \/ Settle(r)
      PROVE  AskedOf'
  <2>1. CASE Reject(r) \/ AlreadyEnded(r) \/ Resume(r) \/ WriteJournal(r) \/ Accept(r)
    BY <2>1 DEF Reject, AlreadyEnded, Resume, WriteJournal, Accept
  <2>2. CASE AwaitExit(r) \/ AwaitTimesOut(r) \/ StopPortal(r) \/ Replace(r) \/ Verified(r)
    BY <2>2 DEF AwaitExit, AwaitTimesOut, StopPortal, Replace, Verified
  <2>3. CASE TrialFails(r)
    <3>1. UNCHANGED <<guardian, asked, scripts>>
      BY <2>3 DEF TrialFails
    <3> QED
      BY <3>1
  <2>4. CASE Commit(r) \/ RestoreStops(r) \/ PutBack(r) \/ Reverified(r) \/ Finish(r) \/ Settle(r)
    <3>1. UNCHANGED <<guardian, asked, scripts>>
      BY <2>4 DEF Commit, RestoreStops, PutBack, Reverified, Finish, Settle
    <3> QED
      BY <3>1
  <2> QED
    BY <1>3, <2>1, <2>2, <2>3, <2>4
<1>4. ASSUME NEW r \in Requests, Admit(r) PROVE AskedOf'
  <2>1. UNCHANGED <<asked, scripts>> /\ (guardian' = guardian \/ guardian = "none")
    BY <1>4 DEF Admit
  <2> QED
    BY <2>1
<1>5. ASSUME Starts, UNCHANGED guardian PROVE AskedOf'
  BY <1>5 DEF Starts
<1>6. ASSUME NEW r \in Requests, StartCandidate(r) \/ Restart(r) PROVE AskedOf'
  BY <1>5, <1>6 DEF StartCandidate, Restart
<1>7. ASSUME NEW r \in Requests, RestartFails(r) PROVE AskedOf'
  BY <1>7 DEF RestartFails
<1>8. CASE GuardianStarts \/ UserStarts \/ PortalExits \/ UNCHANGED vars
  BY <1>8 DEF GuardianStarts, UserStarts, PortalExits, vars
<1>9. CASE ScriptStarts
  BY <1>1, <1>9 DEF ScriptStarts
<1> QED
  BY <1>2, <1>3, <1>4, <1>6, <1>7, <1>8, <1>9 DEF Upgrading, Worker

(* A count of starts to come that is at most one.                          *)
LEMMA AtMostOne ==
    /\ \A n \in Nat : n > 0 /\ n <= 1 => ~(n - 1 > 0)
    /\ \A n \in Nat : ~(n > 0) => n <= 1 /\ n + 1 <= 1
OBVIOUS

(* A start still to come is one of an open trial.                          *)
LEMMA PendingNext ==
    ASSUME JournalType, WrkFun, OutcomeFun, OwnerHeld, JournalOnMac, JournalOnWindows, Undecided,
           GateHeld, Stopped, AskedOf, PendingInTrial, RunsWhatIsInstalled, TypeOK, [Upgrading]_vars
    PROVE  PendingInTrial'
<1> USE DistinctAssumption
    DEF WrkFun, OutcomeFun, JournalType, OwnerHeld, PendingInTrial, Pending, GoesOn, Working,
        Trial, Restore, Mac, GoesTo, fixedVars, fileVars, askVars
<1> scripts \in Nat
  BY DEF TypeOK
<1>1. ASSUME NEW r \in Requests, Submit(r) PROVE PendingInTrial'
  BY <1>1 DEF Submit
<1>2. ASSUME NEW r \in Requests, Poll(r) PROVE PendingInTrial'
  BY <1>2 DEF Poll
<1>3. ASSUME NEW r \in Requests, Deadline(r) PROVE PendingInTrial'
  BY <1>3 DEF Deadline
<1>4. ASSUME NEW r \in Requests, Interrupted(r) PROVE PendingInTrial'
  BY <1>4 DEF Interrupted
<1>5. ASSUME NEW r \in Requests, Admit(r) PROVE PendingInTrial'
  BY <1>5 DEF Admit
<1>6. ASSUME NEW r \in Requests, Reject(r) PROVE PendingInTrial'
  BY <1>6 DEF Reject
<1>7. ASSUME NEW r \in Requests, AlreadyEnded(r) PROVE PendingInTrial'
  BY <1>7 DEF AlreadyEnded
<1>8. ASSUME NEW r \in Requests, Resume(r) PROVE PendingInTrial'
  BY <1>8 DEF Resume
<1>9. ASSUME NEW r \in Requests, WriteJournal(r) PROVE PendingInTrial'
  BY <1>9 DEF WriteJournal, JournalOnMac
<1>10. ASSUME NEW r \in Requests, Accept(r) PROVE PendingInTrial'
  BY <1>10 DEF Accept, JournalOnMac
<1>11. ASSUME NEW r \in Requests, AwaitExit(r) PROVE PendingInTrial'
  BY <1>11 DEF AwaitExit, JournalOnMac
<1>12. ASSUME NEW r \in Requests, AwaitTimesOut(r) PROVE PendingInTrial'
  BY <1>12 DEF AwaitTimesOut, JournalOnMac
<1>13. ASSUME NEW r \in Requests, StopPortal(r) PROVE PendingInTrial'
  BY <1>13 DEF StopPortal, JournalOnMac
<1>14. ASSUME NEW r \in Requests, Replace(r) PROVE PendingInTrial'
  BY <1>14 DEF Replace, JournalOnMac
<1>15. ASSUME NEW r \in Requests, StartCandidate(r) PROVE PendingInTrial'
  <2>1. CASE Mac /\ ~slipped /\ guardian \in {"session", "script"}
    <3>1. journal = r /\ portal = None /\ outcome[r] = "none" /\ wrk[r] = "start"
      BY <1>15, <2>1 DEF StartCandidate, JournalOnMac, Stopped, Undecided
    <3>2. ~Pending
      BY <2>1, <3>1
    <3>3. Starts /\ UNCHANGED <<platform, journal, outcome>> /\ GoesTo(r, "verify")
      BY <1>15, <2>1 DEF StartCandidate
    <3>4. UNCHANGED portal /\ (UNCHANGED scripts \/ scripts' = scripts + 1)
      BY <2>1, <3>3, StartsAsks
    <3>5. ~(scripts > 0)
      BY <3>2
    <3>6. scripts' <= 1
      BY <3>4, <3>5, AtMostOne
    <3> QED
      BY <2>1, <3>1, <3>3, <3>4, <3>6
  <2>2. CASE guardian \notin {"session", "script"}
    <3>1. UNCHANGED <<asked, scripts>> /\ ~Pending
      BY <1>15, <2>2, StartsAsks DEF StartCandidate, AskedOf
    <3> QED
      BY <3>1
  <2>3. CASE slipped
    BY <1>15, <2>3 DEF StartCandidate, Starts
  <2>4. CASE ~Mac
    BY <2>2, <2>4, GuardianTypes
  <2> QED
    BY <2>1, <2>2, <2>3, <2>4
<1>16. ASSUME NEW r \in Requests, Verified(r) PROVE PendingInTrial'
  BY <1>16 DEF Verified, JournalOnMac, PublishedReady
<1>17. ASSUME NEW r \in Requests, TrialFails(r) PROVE PendingInTrial'
  BY <1>17 DEF TrialFails, JournalOnMac
<1>18. ASSUME NEW r \in Requests, Commit(r) PROVE PendingInTrial'
  BY <1>18 DEF Commit, JournalOnMac
<1>19. ASSUME NEW r \in Requests, RestoreStops(r) PROVE PendingInTrial'
  BY <1>19 DEF RestoreStops, JournalOnMac
<1>20. ASSUME NEW r \in Requests, PutBack(r) PROVE PendingInTrial'
  BY <1>20 DEF PutBack, JournalOnMac
<1>21. ASSUME NEW r \in Requests, Restart(r) PROVE PendingInTrial'
  <2>1. CASE Mac /\ ~slipped /\ guardian \in {"session", "script"}
    <3>1. journal = r /\ portal = None /\ outcome[r] = "none" /\ wrk[r] = "restart"
      BY <1>21, <2>1 DEF Restart, JournalOnMac, Stopped, Undecided
    <3>2. ~Pending
      BY <2>1, <3>1
    <3>3. Starts /\ UNCHANGED <<platform, journal, outcome>> /\ GoesTo(r, "reverify")
      BY <1>21, <2>1 DEF Restart
    <3>4. UNCHANGED portal /\ (UNCHANGED scripts \/ scripts' = scripts + 1)
      BY <2>1, <3>3, StartsAsks
    <3>5. ~(scripts > 0)
      BY <3>2
    <3>6. scripts' <= 1
      BY <3>4, <3>5, AtMostOne
    <3> QED
      BY <2>1, <3>1, <3>3, <3>4, <3>6
  <2>2. CASE guardian \notin {"session", "script"}
    <3>1. UNCHANGED <<asked, scripts>> /\ ~Pending
      BY <1>21, <2>2, StartsAsks DEF Restart, AskedOf
    <3> QED
      BY <3>1
  <2>3. CASE slipped
    BY <1>21, <2>3 DEF Restart, Starts
  <2>4. CASE ~Mac
    BY <2>2, <2>4, GuardianTypes
  <2> QED
    BY <2>1, <2>2, <2>3, <2>4
<1>22. ASSUME NEW r \in Requests, Reverified(r) PROVE PendingInTrial'
  BY <1>22 DEF Reverified, JournalOnMac
<1>23. ASSUME NEW r \in Requests, RestartFails(r) PROVE PendingInTrial'
  BY <1>23 DEF RestartFails
<1>24. ASSUME NEW r \in Requests, Finish(r) PROVE PendingInTrial'
  BY <1>24 DEF Finish, JournalOnMac
<1>25. ASSUME NEW r \in Requests, Settle(r) PROVE PendingInTrial'
  BY <1>25 DEF Settle, JournalOnMac
<1>26. ASSUME NEW r \in Requests, Crash(r) PROVE PendingInTrial'
  BY <1>26 DEF Crash
<1>27. ASSUME NEW r \in Requests, Recover(r) PROVE PendingInTrial'
  BY <1>27 DEF Recover
<1>28. ASSUME NEW r \in Requests, UserRecovers(r) PROVE PendingInTrial'
  BY <1>28 DEF UserRecovers
<1>29. CASE GuardianStarts
  <2>1. ~asked' /\ scripts' = scripts /\ guardian # "script"
    BY <1>29 DEF GuardianStarts
  <2> QED
    BY <2>1 DEF AskedOf
<1>30. CASE UserStarts
  BY <1>30 DEF UserStarts, Maintenance
<1>31. CASE PortalExits
  BY <1>31 DEF PortalExits
<1>32. CASE UNCHANGED vars
  BY <1>32 DEF vars
<1>33. CASE ScriptStarts
  <2>1. scripts > 0 /\ ~asked /\ scripts' = scripts - 1 /\ UNCHANGED <<asked, slipped>>
    BY <1>33 DEF ScriptStarts, AskedOf
  <2>2. CASE slipped
    BY <2>1, <2>2
  <2>3. CASE ~slipped
    <3>1. Pending
      BY <2>1
    <3>2. scripts <= 1
      BY <2>3, <3>1
    <3>3. ~(scripts' > 0)
      BY <2>1, <3>2, AtMostOne
    <3>4. ~asked'
      BY <2>1
    <3> QED
      BY <3>3, <3>4
  <2> QED
    BY <2>2, <2>3
<1> QED
  BY <1>1, <1>2, <1>3, <1>4, <1>5, <1>6, <1>7, <1>8, <1>9, <1>10, <1>11, <1>12, <1>13, <1>14,
     <1>15,
     <1>16, <1>17, <1>18, <1>19, <1>20, <1>21, <1>22, <1>23, <1>24, <1>25, <1>26, <1>27, <1>28,
     <1>29, <1>30, <1>31, <1>32, <1>33 DEF Upgrading, Worker

(* The image that runs.                                                    *)
LEMMA RunsNext ==
    ASSUME WrkFun, OutcomeFun, OwnerHeld, JournalOnMac, JournalOnWindows, Undecided,
           GateHeld, Stopped, AskedOf, PendingInTrial, RunsWhatIsInstalled, TypeOK, [Upgrading]_vars
    PROVE  RunsWhatIsInstalled'
<1> USE DistinctAssumption
    DEF WrkFun, RunsWhatIsInstalled, Mac, GoesTo, fixedVars, fileVars, askVars, GoesOn
<1>1. ASSUME NEW r \in Requests, Submit(r) PROVE RunsWhatIsInstalled'
  BY <1>1 DEF Submit
<1>2. ASSUME NEW r \in Requests, Poll(r) PROVE RunsWhatIsInstalled'
  BY <1>2 DEF Poll
<1>3. ASSUME NEW r \in Requests, Deadline(r) PROVE RunsWhatIsInstalled'
  BY <1>3 DEF Deadline
<1>4. ASSUME NEW r \in Requests, Interrupted(r) PROVE RunsWhatIsInstalled'
  BY <1>4 DEF Interrupted
<1>5. ASSUME NEW r \in Requests, Admit(r) PROVE RunsWhatIsInstalled'
  BY <1>5 DEF Admit
<1>6. ASSUME NEW r \in Requests, Reject(r) PROVE RunsWhatIsInstalled'
  BY <1>6 DEF Reject
<1>7. ASSUME NEW r \in Requests, AlreadyEnded(r) PROVE RunsWhatIsInstalled'
  BY <1>7 DEF AlreadyEnded
<1>8. ASSUME NEW r \in Requests, Resume(r) PROVE RunsWhatIsInstalled'
  BY <1>8 DEF Resume
<1>9. ASSUME NEW r \in Requests, WriteJournal(r) PROVE RunsWhatIsInstalled'
  BY <1>9 DEF WriteJournal
<1>10. ASSUME NEW r \in Requests, Accept(r) PROVE RunsWhatIsInstalled'
  BY <1>10 DEF Accept
<1>11. ASSUME NEW r \in Requests, AwaitExit(r) PROVE RunsWhatIsInstalled'
  BY <1>11 DEF AwaitExit
<1>12. ASSUME NEW r \in Requests, AwaitTimesOut(r) PROVE RunsWhatIsInstalled'
  BY <1>12 DEF AwaitTimesOut
<1>13. ASSUME NEW r \in Requests, StopPortal(r) PROVE RunsWhatIsInstalled'
  BY <1>13 DEF StopPortal
<1>14. ASSUME NEW r \in Requests, Replace(r) PROVE RunsWhatIsInstalled'
  BY <1>14 DEF Replace, Stopped
<1>15. ASSUME NEW r \in Requests, StartCandidate(r) PROVE RunsWhatIsInstalled'
  BY <1>15 DEF StartCandidate, Starts
<1>16. ASSUME NEW r \in Requests, Verified(r) PROVE RunsWhatIsInstalled'
  BY <1>16 DEF Verified
<1>17. ASSUME NEW r \in Requests, TrialFails(r) PROVE RunsWhatIsInstalled'
  BY <1>17 DEF TrialFails
<1>18. ASSUME NEW r \in Requests, Commit(r) PROVE RunsWhatIsInstalled'
  BY <1>18 DEF Commit
<1>19. ASSUME NEW r \in Requests, RestoreStops(r) PROVE RunsWhatIsInstalled'
  BY <1>19 DEF RestoreStops
<1>20. ASSUME NEW r \in Requests, PutBack(r) PROVE RunsWhatIsInstalled'
  BY <1>20 DEF PutBack, Stopped
<1>21. ASSUME NEW r \in Requests, Restart(r) PROVE RunsWhatIsInstalled'
  BY <1>21 DEF Restart, Starts
<1>22. ASSUME NEW r \in Requests, Reverified(r) PROVE RunsWhatIsInstalled'
  BY <1>22 DEF Reverified
<1>23. ASSUME NEW r \in Requests, RestartFails(r) PROVE RunsWhatIsInstalled'
  BY <1>23 DEF RestartFails
<1>24. ASSUME NEW r \in Requests, Finish(r) PROVE RunsWhatIsInstalled'
  BY <1>24 DEF Finish
<1>25. ASSUME NEW r \in Requests, Settle(r) PROVE RunsWhatIsInstalled'
  BY <1>25 DEF Settle
<1>26. ASSUME NEW r \in Requests, Crash(r) PROVE RunsWhatIsInstalled'
  BY <1>26 DEF Crash
<1>27. ASSUME NEW r \in Requests, Recover(r) PROVE RunsWhatIsInstalled'
  BY <1>27 DEF Recover
<1>28. ASSUME NEW r \in Requests, UserRecovers(r) PROVE RunsWhatIsInstalled'
  BY <1>28 DEF UserRecovers
<1>29. CASE GuardianStarts
  BY <1>29 DEF GuardianStarts
<1>30. CASE UserStarts
  BY <1>30 DEF UserStarts
<1>31. CASE PortalExits
  BY <1>31 DEF PortalExits
<1>32. CASE UNCHANGED vars
  BY <1>32 DEF vars
<1>33. CASE ScriptStarts
  BY <1>33 DEF ScriptStarts
<1> QED
  BY <1>1, <1>2, <1>3, <1>4, <1>5, <1>6, <1>7, <1>8, <1>9, <1>10, <1>11, <1>12, <1>13, <1>14,
     <1>15,
     <1>16, <1>17, <1>18, <1>19, <1>20, <1>21, <1>22, <1>23, <1>24, <1>25, <1>26, <1>27, <1>28,
     <1>29, <1>30, <1>31, <1>32, <1>33 DEF Upgrading, Worker

(* A Portal that runs what is installed, and no upgrade.                   *)
LEMMA InvInit == Init => Inv /\ StartsInv
<1> SUFFICES ASSUME Init PROVE Inv /\ StartsInv
  OBVIOUS
<1> USE DistinctAssumption, BoundAssumption DEF Init, Begin
<1>1. TypeOK
  <2>1. version \in [Requests -> Nat]
    OBVIOUS
  <2>2. platform \in {"mac", "windows"} /\ guardian \in Guardians[platform]
    OBVIOUS
  <2>3. /\ exe \in Images \cup {None}
        /\ backup \in [Requests -> Images \cup {None}]
        /\ {journal, owner, gate} \subseteq Requests \cup {None}
        /\ portal \in Images \cup {None}
    BY DEF Images
  <2>4. /\ wrk \in [Requests -> Points]
        /\ outcome \in [Requests -> {"none", "failed", "rolled back", "succeeded"}]
    BY DEF Points
  <2>5. /\ cli \in [Requests -> {"idle", "waiting", "gone"}]
        /\ told \in [Requests -> {"nothing", "accepted", "rejected", "unknown", "ended"}]
        /\ accepted \in [Requests -> BOOLEAN] /\ error \in [Requests -> BOOLEAN]
    OBVIOUS
  <2>6. crashes \in 0..MaxCrashes
    BY NoCrashes
  <2>7. asked \in BOOLEAN /\ scripts \in Nat /\ slipped \in BOOLEAN
    OBVIOUS
  <2> QED
    BY <2>1, <2>2, <2>3, <2>4, <2>5, <2>6, <2>7 DEF TypeOK
<1>2. OwnerHeld /\ JournalOnMac /\ JournalOnWindows /\ Undecided /\ NotYet
  BY DEF OwnerHeld, Working, Trial, Restore, JournalOnMac, JournalOnWindows, Undecided, NotYet
<1>3. ExeKnown /\ ExeBefore /\ BackupOld /\ BackupOnMac /\ BackupOnWindows /\ TrialHasBackup
  BY DEF ExeKnown, ExeBefore, BackupOld, BackupOnMac, BackupOnWindows, TrialHasBackup
<1>4. MacErrors /\ WindowsWaits /\ RejectedEnded
  BY DEF MacErrors, WindowsWaits, RejectedEnded
<1>5. StartsInv
  BY DEF StartsInv, GateHeld, Stopped, AskedOf, PendingInTrial, Pending, RunsWhatIsInstalled
<1> QED
  BY <1>1, <1>2, <1>3, <1>4, <1>5 DEF Inv

(* The types of what is kept for each request.                             *)
LEMMA Functions == TypeOK => WrkFun /\ OutcomeFun /\ CliFun /\ ToldFun /\ ErrorFun /\ BackupFun /\ JournalType
BY DEF TypeOK, JournalType, WrkFun, OutcomeFun, CliFun, ToldFun, ErrorFun, BackupFun

(* Every step of commands, workers, Portal, guardian and user.             *)
LEMMA InvNext == Inv /\ [Upgrading]_vars => Inv'
<1> SUFFICES ASSUME Inv, [Upgrading]_vars PROVE Inv'
  OBVIOUS
<1> USE Functions DEF Inv
<1>1. TypeOK' /\ OwnerHeld' /\ JournalOnMac' /\ JournalOnWindows'
  BY TypeNext, OwnerNext, MacJournalNext, WindowsJournalNext
<1>2. Undecided' /\ NotYet'
  BY UndecidedNext, NotYetNext
<1>3. ExeKnown' /\ ExeBefore'
  BY ExeKnownNext, ExeBeforeNext
<1>4. BackupOld' /\ BackupOnMac' /\ BackupOnWindows' /\ TrialHasBackup'
  BY BackupOldNext, BackupOnMacNext, BackupOnWindowsNext, TrialHasBackupNext
<1>5. MacErrors' /\ WindowsWaits' /\ RejectedEnded'
  BY MacErrorsNext, WindowsWaitsNext, RejectedEndedNext
<1> QED
  BY <1>1, <1>2, <1>3, <1>4, <1>5

(* And what can start the Portal in them.                                  *)
LEMMA StartsNext == Inv /\ StartsInv /\ [Upgrading]_vars => StartsInv'
<1> SUFFICES ASSUME Inv, StartsInv, [Upgrading]_vars PROVE StartsInv'
  OBVIOUS
<1> QED
  BY Functions, GateNext, StoppedNext, AskedOfNext, PendingNext, RunsNext DEF Inv, StartsInv

(* Hence the invariant holds in every behaviour.                           *)
LEMMA Invariance == Spec => []Inv
<1>1. Init => Inv
  BY InvInit
<1> QED
  BY <1>1, InvNext, PTL DEF Spec

(* The type invariant of the installation, its workers and command lines.  *)
THEOREM TypeCorrect == Spec => []TypeOK
<1>1. Inv => TypeOK
  BY DEF Inv
<1> QED
  BY <1>1, Invariance, PTL

(* A command line that reported a rejection spoke the truth for ever: no   *)
(* worker, guardian or later upgrade brings its candidate in.              *)
THEOREM RejectionsTrue == Spec => []RejectedUntouched
<1>1. Inv => RejectedUntouched
  BY DEF Inv, RejectedEnded, RejectedUntouched
<1> QED
  BY <1>1, Invariance, PTL

(* Whenever workers are killed, an installed candidate on trial has an     *)
(* image to go back to.                                                    *)
THEOREM TrialsCanBeUndone == Spec => []TrialHasBackup
<1>1. Inv => TrialHasBackup
  BY DEF Inv
<1> QED
  BY <1>1, Invariance, PTL

(* Under every guardian, and none, the Portal that runs is the one that is *)
(* installed, as long as no worker has gone on without the start it had    *)
(* asked for; and rejections are true and trials can be undone in any case.*)
THEOREM Sound == Spec => []UpgradeSound
<1>1. Init => StartsInv
  BY InvInit
<1>2. Inv /\ StartsInv /\ [Upgrading]_vars => StartsInv'
  BY StartsNext
<1>3. Inv /\ StartsInv => UpgradeSound
  BY DEF Inv, StartsInv, UpgradeSound, RejectedEnded, RejectedUntouched
<1> QED
  BY <1>1, <1>2, <1>3, Invariance, PTL DEF Spec

(* Only a worker's replacement and its way back change the executable.     *)
LEMMA ExeChanges ==
    ASSUME Inv, [Upgrading]_vars, exe' # exe
    PROVE  \E r \in Requests : Replace(r) \/ PutBack(r)
<1>1. ASSUME NEW r \in Requests, FileStep(r)
      PROVE  Replace(r) \/ PutBack(r) \/ UNCHANGED exe
  BY <1>1
     DEF FileStep, Admit, Reject, AlreadyEnded, WriteJournal, AwaitTimesOut, Commit, Finish,
         Settle
<1> QED
  BY <1>1, FileSteps DEF FilesVars

(* The executable changes only inside a transaction, to its candidate or   *)
(* back to what the candidate replaced, and never after it succeeded.      *)
THEOREM ExeByTransaction == Spec => ExeMovesByTransaction
<1> DEFINE ByTransaction ==
        /\ journal # None
        /\ \/ exe' = journal
           \/ exe = journal /\ exe' = backup[journal] /\ outcome[journal] # "succeeded"
<1>1. ASSUME Inv, NEW r \in Requests, Replace(r) PROVE ByTransaction
  <2>1. journal = r
    BY <1>1 DEF Inv, Replace, JournalOnMac, JournalOnWindows, Trial
  <2> QED
    BY <1>1, <2>1, DistinctAssumption DEF Replace
<1>2. ASSUME Inv, NEW r \in Requests, PutBack(r), exe' # exe PROVE ByTransaction
  <2>1. journal = r /\ outcome[r] = "none"
    BY <1>2 DEF Inv, PutBack, JournalOnMac, JournalOnWindows, Undecided, Restore
  <2>2. backup[r] # None /\ exe' = backup[r]
    BY <1>2 DEF PutBack
  <2>3. exe = r
    BY <1>2, <2>1, <2>2 DEF Inv, BackupOnMac, BackupOnWindows, Undecided
  <2> QED
    BY <2>1, <2>2, <2>3, DistinctAssumption
<1>3. Inv /\ [Upgrading]_vars => [exe' # exe /\ exe # None => ByTransaction]_vars
  BY <1>1, <1>2, ExeChanges
<1> QED
  BY <1>3, Invariance, PTL DEF Spec, ExeMovesByTransaction
================================================================================
