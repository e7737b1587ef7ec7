----------------------------- MODULE Installation -----------------------------
(***************************************************************************)
(* The per-user installation of user_installation.rs and the configuration *)
(* of paths.rs.  A downloaded executable installs itself into              *)
(* ~/.heart-portal/runtime, migrates the settings found beside it and      *)
(* delegates to the installed one, which selects its configuration and     *)
(* creates the default one if there is none.                               *)
(*                                                                         *)
(* Launches of several downloads, restarts, `config migrate`, the user's   *)
(* editor and upgrades run concurrently; only launches share a lock.  A    *)
(* process may die between any two of its file operations.                 *)
(***************************************************************************)
EXTENDS Naturals, FiniteSets

CONSTANTS
    Downloads,    \* executables outside the user directory, each in its own
    Restarts,     \* starts of the installed executable
    Migrations,   \* runs of `config migrate --apply`
    MaxCrashes,   \* bound on killed processes
    Nothing

ASSUME DistinctAssumption ==
    /\ Downloads \cap (Restarts \cup Migrations) = {} /\ Restarts \cap Migrations = {}
    /\ Nothing \notin Downloads \cup Restarts \cup Migrations
    /\ Nothing \notin {"upgraded", "default", "edited", "explicit", "user"}
ASSUME CrashesAssumption == MaxCrashes \in Nat

Procs == Downloads \cup Restarts \cup Migrations

VARIABLES
    windows,    \* the platform saves the launch settings of its last start
    \* --- the user directory ---------------------------------------------------
    exe,        \* runtime/heart-portal: Nothing, a download or "upgraded"
    origin,     \* runtime/.portal-origin
    config,     \* portal.toml: Nothing, the download it was copied from, "default"
                \* or "edited"
    saved,      \* Windows: config path in .portal-launch.json
    lock,       \* runtime/.install.lock
    \* --- beside each download ---------------------------------------------------
    legacy,     \* [Downloads -> its old Portal, supervisor or upgrade]
    beside,     \* [Downloads -> a portal.toml lies there]
    \* --- the processes -------------------------------------------------------------
    pc,         \* [Procs -> point]
    explicit,   \* [Procs -> started with --config]
    from,       \* [Procs -> the download whose settings it copies]
    plan,       \* [Procs -> "fresh" or "applied", from plan_migration]
    settings,   \* [Procs -> the configuration the started Portal loaded]
    crashes

dirVars == <<exe, origin, config, saved, lock>>
besideVars == <<legacy, beside>>
installVars == <<windows, dirVars, besideVars, pc, explicit, from, plan, settings, crashes>>

Points == {"idle", "wait", "check", "plan", "apply", "publish", "link", "start", "init",
           "load", "running", "done", "failed"}
Configs == Downloads \cup {"default", "edited"}

InstallTypeOK ==
    /\ windows \in BOOLEAN
    /\ exe \in Downloads \cup {"upgraded", Nothing}
    /\ origin \in Downloads \cup {Nothing}
    /\ config \in Configs \cup {Nothing}
    /\ saved \in {"explicit", "user", Nothing}
    /\ lock \in Downloads \cup {Nothing}
    /\ legacy \in [Downloads -> {"active", "stopped"}]
    /\ beside \in [Downloads -> BOOLEAN]
    /\ pc \in [Procs -> Points]
    /\ explicit \in [Procs -> BOOLEAN]
    /\ from \in [Procs -> Downloads \cup {Nothing}]
    /\ plan \in [Procs -> {"fresh", "applied", Nothing}]
    /\ settings \in [Procs -> Configs \cup {"explicit", Nothing}]
    /\ crashes \in 0..MaxCrashes

InstallInit ==
    /\ windows \in BOOLEAN
    /\ exe = Nothing
    /\ origin = Nothing
    /\ config = Nothing
    /\ saved = Nothing
    /\ lock = Nothing
    /\ legacy \in [Downloads -> {"active", "stopped"}]
    /\ beside \in [Downloads -> BOOLEAN]
    /\ pc = [p \in Procs |-> "idle"]
    /\ explicit = [p \in Procs |-> FALSE]
    /\ from = [p \in Procs |-> Nothing]
    /\ plan = [p \in Procs |-> Nothing]
    /\ settings = [p \in Procs |-> Nothing]
    /\ crashes = 0

At(p, point) == pc[p] = point
GoesTo(p, point) == pc' = [pc EXCEPT ![p] = point]

(* The launch ends or moves on; the lock file is closed with prepare(). *)
LeavesPrepare(p, point) ==
    /\ GoesTo(p, point)
    /\ lock' = IF lock = p THEN Nothing ELSE lock

-----------------------------------------------------------------------------
(* prepare() *)

Launch(d) ==
    /\ At(d, "idle")
    /\ \E e \in BOOLEAN : explicit' = [explicit EXCEPT ![d] = e]
    /\ GoesTo(d, "wait")
    /\ UNCHANGED <<windows, dirVars, besideVars, from, plan, settings, crashes>>

Lock(d) ==
    /\ At(d, "wait")
    /\ lock = Nothing
    /\ lock' = d
    /\ GoesTo(d, "check")
    /\ UNCHANGED <<windows, exe, origin, config, saved, besideVars, explicit, from, plan, settings, crashes>>

LockTimesOut(d) ==
    /\ At(d, "wait")
    /\ lock # Nothing
    /\ GoesTo(d, "failed")
    /\ UNCHANGED <<windows, dirVars, besideVars, explicit, from, plan, settings, crashes>>

(* migrated_source(): it installed the executable that is there. *)
MigratedByOrigin(d) == origin = d                                \* mutant
Migrated(d) == exe # Nothing /\ origin = d

(* No process, supervisor or enabled login task of the old Portal. *)
LegacyStopped(d) == legacy[d] = "stopped"

(* An old Portal of this directory is stopped and recovered first.  Its     *)
(* settings are copied unless --config names others, or they were before.  *)
Check(d) ==
    /\ At(d, "check")
    /\ IF ~LegacyStopped(d)
       THEN LeavesPrepare(d, "failed") /\ UNCHANGED from
       ELSE IF ~explicit[d] /\ ~Migrated(d) /\ beside[d]
       THEN /\ GoesTo(d, "plan")
            /\ from' = [from EXCEPT ![d] = d]
            /\ UNCHANGED lock
       ELSE GoesTo(d, "publish") /\ UNCHANGED <<lock, from>>
    /\ UNCHANGED <<windows, exe, origin, config, saved, besideVars, explicit, plan, settings, crashes>>

(* plan_migration(): a destination with other content is an error. *)
Plan(p) ==
    /\ At(p, "plan")
    /\ IF config \in {Nothing, from[p]}
       THEN /\ plan' = [plan EXCEPT ![p] = IF config = Nothing THEN "fresh" ELSE "applied"]
            /\ GoesTo(p, "apply")
            /\ UNCHANGED lock
       ELSE LeavesPrepare(p, "failed") /\ UNCHANGED plan
    /\ UNCHANGED <<windows, exe, origin, config, saved, besideVars, explicit, from, settings, crashes>>

(* publish_config(): a private file, then a hard link that never replaces. *)
PublishConfig(content) == config = Nothing /\ config' = content

(* apply(): the destination is checked again; the lock of the launches     *)
(* does not keep others from writing it.                                   *)
ApplyByRename(p) ==                                              \* mutant
    /\ At(p, "apply")
    /\ IF plan[p] = "fresh"
       THEN /\ config' = from[p]
            /\ GoesTo(p, IF p \in Downloads THEN "publish" ELSE "done")
            /\ UNCHANGED lock
       ELSE /\ UNCHANGED config
            /\ GoesTo(p, IF p \in Downloads THEN "publish" ELSE "done")
            /\ UNCHANGED lock
    /\ plan' = [plan EXCEPT ![p] = Nothing]
    /\ UNCHANGED <<windows, exe, origin, saved, besideVars, explicit, from, settings, crashes>>
Apply(p) ==
    /\ At(p, "apply")
    /\ \/ /\ \/ plan[p] = "fresh" /\ PublishConfig(from[p])
             \/ plan[p] = "applied" /\ config = from[p] /\ UNCHANGED config
          /\ GoesTo(p, IF p \in Downloads THEN "publish" ELSE "done")
          /\ UNCHANGED lock
       \/ /\ \/ plan[p] = "fresh" /\ config # Nothing
             \/ plan[p] = "applied" /\ config # from[p]
          /\ LeavesPrepare(p, "failed")
          /\ UNCHANGED config
    /\ plan' = [plan EXCEPT ![p] = Nothing]
    /\ UNCHANGED <<windows, exe, origin, saved, besideVars, explicit, from, settings, crashes>>

(* An installed executable is left alone; else the copy is staged and the  *)
(* origin written, before the executable appears under its name.           *)
Publish(d) ==
    /\ At(d, "publish")
    /\ IF exe # Nothing
       THEN LeavesPrepare(d, "start") /\ UNCHANGED origin
       ELSE /\ origin' = d
            /\ GoesTo(d, "link")
            /\ UNCHANGED lock
    /\ UNCHANGED <<windows, exe, config, saved, besideVars, explicit, from, plan, settings, crashes>>

Link(d) ==
    /\ At(d, "link")
    /\ IF exe = Nothing
       THEN exe' = d /\ LeavesPrepare(d, "start")
       ELSE UNCHANGED exe /\ LeavesPrepare(d, "failed")
    /\ UNCHANGED <<windows, origin, config, saved, besideVars, explicit, from, plan, settings, crashes>>

-----------------------------------------------------------------------------
(* The installed executable: delegate(), main(), windows_start::run() *)

Restarted(s) ==
    /\ At(s, "idle")
    /\ exe # Nothing
    /\ \E e \in BOOLEAN : explicit' = [explicit EXCEPT ![s] = e]
    /\ GoesTo(s, "start")
    /\ UNCHANGED <<windows, dirVars, besideVars, from, plan, settings, crashes>>

(* locate_config(): --config, the saved launch, the user's portal.toml.    *)
Located(p) ==
    IF explicit[p] THEN "explicit" ELSE IF windows /\ saved # Nothing THEN saved ELSE "user"

(* make_launch(), of which the worker saves the config path; a start       *)
(* without overrides takes the saved launch as it is.                      *)
MadeLaunch(p) == IF saved = Nothing \/ explicit[p] THEN Located(p) ELSE saved

StartPortal(p) ==
    /\ At(p, "start")
    /\ saved' = IF windows THEN MadeLaunch(p) ELSE saved
    /\ GoesTo(p, IF Located(p) = "user" /\ config = Nothing THEN "init" ELSE "load")
    /\ UNCHANGED <<windows, exe, origin, config, lock, besideVars, explicit, from, plan, settings, crashes>>

(* initialize_config(): an existing file, a concurrent creator's too, is   *)
(* taken as it is.                                                         *)
InitializeConfig(p) ==
    /\ At(p, "init")
    /\ IF config = Nothing THEN PublishConfig("default") ELSE UNCHANGED config
    /\ GoesTo(p, "load")
    /\ UNCHANGED <<windows, exe, origin, saved, lock, besideVars, explicit, from, plan, settings, crashes>>

LoadConfig(p) ==
    /\ At(p, "load")
    /\ settings' = [settings EXCEPT ![p] = IF Located(p) = "explicit" THEN "explicit" ELSE config]
    /\ GoesTo(p, "running")
    /\ UNCHANGED <<windows, dirVars, besideVars, explicit, from, plan, crashes>>

-----------------------------------------------------------------------------
(* Everybody else *)

(* `config migrate --from <download's portal.toml> --apply` *)
Migrate(m) ==
    /\ At(m, "idle")
    /\ \E d \in Downloads : beside[d] /\ from' = [from EXCEPT ![m] = d]
    /\ GoesTo(m, "plan")
    /\ UNCHANGED <<windows, dirVars, besideVars, explicit, plan, settings, crashes>>

UserEdits ==
    /\ config # "edited"
    /\ config' = "edited"
    /\ UNCHANGED <<windows, exe, origin, saved, lock, besideVars, pc, explicit, from, plan, settings, crashes>>

(* An upgrade replaces the executable in one rename (module Upgrade). *)
Upgraded ==
    /\ exe \notin {Nothing, "upgraded"}
    /\ exe' = "upgraded"
    /\ UNCHANGED <<windows, origin, config, saved, lock, besideVars, pc, explicit, from, plan, settings, crashes>>

(* The user stops or recovers the old Portal of a download. *)
LegacyStops(d) ==
    /\ ~LegacyStopped(d)
    /\ legacy' = [legacy EXCEPT ![d] = "stopped"]
    /\ UNCHANGED <<windows, dirVars, beside, pc, explicit, from, plan, settings, crashes>>

(* Killed; or stopped, or failed: the user may try again. *)
Again(p) ==
    /\ \/ pc[p] \notin {"idle", "running", "done", "failed"}
       \/ pc[p] \in {"running", "failed"} /\ p \notin Migrations
    /\ crashes < MaxCrashes
    /\ crashes' = crashes + 1
    /\ LeavesPrepare(p, "idle")
    /\ from' = [from EXCEPT ![p] = Nothing]
    /\ plan' = [plan EXCEPT ![p] = Nothing]
    /\ settings' = [settings EXCEPT ![p] = Nothing]
    /\ explicit' = [explicit EXCEPT ![p] = FALSE]
    /\ UNCHANGED <<windows, exe, origin, config, saved, besideVars>>

-----------------------------------------------------------------------------
Step(p) ==
    \/ Plan(p) \/ Apply(p) \/ StartPortal(p) \/ InitializeConfig(p) \/ LoadConfig(p)

Prepare(d) ==
    \/ Lock(d) \/ LockTimesOut(d) \/ Check(d) \/ Publish(d) \/ Link(d)

InstallNext ==
    \/ \E d \in Downloads : Launch(d) \/ Prepare(d) \/ LegacyStops(d)
    \/ \E s \in Restarts : Restarted(s)
    \/ \E m \in Migrations : Migrate(m)
    \/ \E p \in Procs : Step(p) \/ Again(p)
    \/ UserEdits \/ Upgraded

InstallSpec == InstallInit /\ [][InstallNext]_installVars

-----------------------------------------------------------------------------
(* A download never overwrites an executable that is installed, running or *)
(* upgraded: only an upgrade replaces it.                                  *)
StaleNeverOverwrites ==
    [][exe # Nothing /\ exe' # exe => exe' = "upgraded"]_installVars

(* Nobody replaces a configuration that is there, a concurrent creator's   *)
(* file included: only the user changes it.                                *)
ConfigNeverReplaced ==
    [][config # Nothing /\ config' # config => config' = "edited"]_installVars

(* A download started without --config from a directory with settings is   *)
(* installed only with these settings in place, or with the user's edits   *)
(* of them: never does its first start fall back to the defaults.          *)
SettingsMigratedFirst ==
    [][\A d \in Downloads :
          exe = Nothing /\ exe' = d /\ ~explicit[d] /\ beside[d]
              => config \in {d, "edited"}]_installVars

(* Between any number of launches of any number of downloads, nothing the  *)
(* user has is lost on the way into the installation.                      *)
InstallationKeeps == StaleNeverOverwrites /\ ConfigNeverReplaced /\ SettingsMigratedFirst

(* A launch that copied the settings of its directory starts a Portal with *)
(* them, whatever other launches, restarts and migrations do meanwhile;    *)
(* on Windows the last --config that was saved may come first.             *)
RunsWithItsSettings ==
    \A d \in Downloads :
        At(d, "running") /\ from[d] = d => settings[d] \in {d, "edited", "explicit"}
=============================================================================
