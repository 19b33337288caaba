----------------------------- MODULE Maintenance -----------------------------
(***************************************************************************)
(* deploy/backup.py: the operator's tools that save and restore an         *)
(* installation under the shared apply lock, with the timer and the        *)
(* services stopped.  Every command of a tool may fail, and a tool may be  *)
(* killed between any two of them.                                         *)
(*                                                                         *)
(* The installation is the schema in PostgreSQL, the passwords of its      *)
(* roles, and the directories config and secrets.  What each of them holds *)
(* is reduced to where it comes from (this host, the restored bundle, or   *)
(* nowhere), the sources it knows and the number of runs.                  *)
(***************************************************************************)
EXTENDS Naturals, Sequences, FiniteSets

CONSTANTS Backups, Restores,  \* runs of the tool
          Services,           \* MAINTENANCE_SERVICES
          Api, Broker, Apply, \* three of them
          Sources,
          Bundle,             \* a bundle of another installation
          MaxRuns,            \* bound on synchronizations
          MaxCrashes          \* bound on tools that are killed

Tools == Backups \cup Restores

ASSUME MaintenanceAssumption ==
    /\ Backups \cap Restores = {} /\ {"free", "sync"} \cap Tools = {}
    /\ {Api, Broker, Apply} \subseteq Services
    /\ MaxRuns \in Nat /\ MaxCrashes \in Nat

(* What verify_bundle accepts.                                             *)
ASSUME BundleAssumption ==
    /\ Bundle \in [sources : SUBSET Sources, runs : Nat, files : SUBSET Sources, refs : SUBSET Sources]
    /\ Bundle.sources = Bundle.refs /\ Bundle.refs \subseteq Bundle.files

VARIABLES timer,              \* netbox-sync.timer is active
          services,           \* the services that run
          lock,               \* the holder of apply.lock
          schema, roles,      \* the database
          root,               \* the directories of the installation
          kept, staged,       \* those a restore moved away, and has extracted
          bundles,            \* published backups
          tool,               \* what each tool is doing
          crashes

host == <<timer, services, lock>>
state == <<schema, roles, root>>
vars == <<host, state, kept, staged, bundles, tool, crashes>>

STATE_DIRS == <<"config", "secrets">>

Dirs == {"config", "secrets"}

Content(from, sources) == [from |-> from, sources |-> sources]

Absent == Content("none", {})

NoDirs == [d \in Dirs |-> Absent]

Database(from, sources, runs) == [from |-> from, sources |-> sources, runs |-> runs]

(* met is a history variable: the tools at work when this one began.       *)
NewTool == [at |-> "idle", before |-> <<>>, timer |-> FALSE, running |-> {}, bundle |-> <<>>,
            dir |-> 1, torn |-> FALSE, result |-> "none", met |-> {}]

Init ==
    /\ timer \in BOOLEAN /\ services \in {Services, Services \ {Apply}} /\ lock = "free"
    /\ schema = Database("host", {}, 0) /\ roles = "host"
    /\ root = [d \in Dirs |-> Content("host", {})]
    /\ kept = [t \in Tools |-> NoDirs] /\ staged = [t \in Tools |-> NoDirs]
    /\ bundles = {Bundle} /\ crashes = 0
    /\ tool = [t \in Tools |-> NewTool]

-----------------------------------------------------------------------------
(* The writers that the window keeps out.                                  *)

(* Onboarding: first the secret, then the row.                             *)
register_secret(s) ==
    /\ {Api, Broker} \subseteq services /\ s \notin root["secrets"].sources
    /\ root' = [root EXCEPT !["secrets"].sources = @ \cup {s}]
    /\ UNCHANGED <<host, schema, roles, kept, staged, bundles, tool, crashes>>

register_row(s) ==
    /\ Api \in services /\ s \in root["secrets"].sources \ schema.sources
    /\ schema' = [schema EXCEPT !.sources = @ \cup {s}]
    /\ UNCHANGED <<host, roles, root, kept, staged, bundles, tool, crashes>>

(* A scheduled or a manual synchronization and its row of the history.     *)
sync_begin ==
    /\ lock = "free" /\ (timer \/ Apply \in services)
    /\ schema.from # "none" /\ schema.runs < MaxRuns
    /\ lock' = "sync" /\ schema' = [schema EXCEPT !.runs = @ + 1]
    /\ UNCHANGED <<timer, services, roles, root, kept, staged, bundles, tool, crashes>>

sync_end ==
    /\ lock = "sync" /\ lock' = "free"
    /\ UNCHANGED <<timer, services, state, kept, staged, bundles, tool, crashes>>

-----------------------------------------------------------------------------
At(t, at) == tool[t].at = at

Goto(t, at) == tool' = [tool EXCEPT ![t].at = at]

End(t, result) == tool' = [tool EXCEPT ![t].at = "ended", ![t].result = result]

Busy(t) == tool[t].at \notin {"idle", "ended", "dead"}

Unlocked(t) == IF lock = t THEN "free" ELSE lock

validate_canonical_files == \A d \in Dirs : root[d] # Absent

(* The checks before the window: canonical directories, and for a restore  *)
(* a verified bundle and the Foundation schema.                            *)
begin(t) ==
    /\ At(t, "idle")
    /\ \/ End(t, "failed")
       \/ /\ validate_canonical_files
          /\ t \in Restores => schema.from # "none"
          /\ \E b \in IF t \in Restores THEN bundles ELSE {<<>>} :
                tool' = [tool EXCEPT ![t] = [@ EXCEPT !.at = "timer", !.bundle = b,
                                                      !.before = [timer |-> timer, services |-> services],
                                                      !.met = {r \in Tools : Busy(r)}]]
    /\ UNCHANGED <<host, state, kept, staged, bundles, crashes>>

-----------------------------------------------------------------------------
(* Maintenance.__enter__ and __exit__; a backup restores what it stopped.  *)
(* Fault: a restore does so, too.                                          *)
restore_after_always(t) == TRUE

RestoreAfter(t) == t \in Backups

stop_timer(t) ==
    /\ At(t, "timer")
    /\ \/ End(t, "failed") /\ timer' = timer
       \/ timer' = FALSE /\ tool' = [tool EXCEPT ![t].at = "lock", ![t].timer = timer]
    /\ UNCHANGED <<services, lock, state, kept, staged, bundles, crashes>>

(* shared_apply_lock: a bounded wait.                                      *)
acquire(t) ==
    /\ At(t, "lock") /\ lock = "free"
    /\ lock' = t /\ Goto(t, "stop")
    /\ UNCHANGED <<timer, services, state, kept, staged, bundles, crashes>>

(* The handler of __enter__: the lock is released, the timer is started if *)
(* that succeeds, and the services are left as they are.                   *)
EnterFails(t) ==
    /\ lock' = Unlocked(t)
    /\ \/ /\ RestoreAfter(t) /\ tool[t].timer
          /\ \/ timer' = TRUE /\ End(t, "failed")
             \/ timer' = timer /\ End(t, "restart_failed")
       \/ ~(RestoreAfter(t) /\ tool[t].timer) /\ timer' = timer /\ End(t, "failed")

(* Fault: the wait has no deadline.                                        *)
never_overdue == FALSE

Overdue == lock # "free"

lock_timeout(t) ==
    /\ At(t, "lock") /\ Overdue
    /\ EnterFails(t)
    /\ UNCHANGED <<services, state, kept, staged, bundles, crashes>>

(* Fault: the services go on.                                              *)
stopped_nothing == services

Stopped == {}

stop_services(t) ==
    /\ At(t, "stop")
    /\ \/ /\ services' = Stopped
          /\ tool' = [tool EXCEPT ![t].at = "window", ![t].running = services]
          /\ UNCHANGED <<timer, lock>>
       \/ services' \in SUBSET services /\ EnterFails(t)
    /\ UNCHANGED <<state, kept, staged, bundles, crashes>>

(* Leave the window with a result.                                         *)
Leave(t, result) ==
    tool' = [tool EXCEPT ![t].at = IF RestoreAfter(t) THEN "restart" ELSE "release", ![t].result = result]

restart_services(t) ==
    /\ At(t, "restart")
    /\ \/ services' = services \cup tool[t].running /\ Goto(t, "restart_timer")
       \/ /\ services' \in {services \cup s : s \in SUBSET tool[t].running}
          /\ tool' = [tool EXCEPT ![t].at = "release", ![t].result = "restart_failed"]
    /\ UNCHANGED <<timer, lock, state, kept, staged, bundles, crashes>>

(* Fault: the timer is started in any case.                                *)
start_timer_always(t) == TRUE

TimerAfter(t) == timer \/ tool[t].timer

restart_timer(t) ==
    /\ At(t, "restart_timer")
    /\ \/ timer' = TimerAfter(t) /\ Goto(t, "release")
       \/ /\ tool[t].timer /\ timer' = timer
          /\ tool' = [tool EXCEPT ![t].at = "release", ![t].result = "restart_failed"]
    /\ UNCHANGED <<services, lock, state, kept, staged, bundles, crashes>>

release(t) ==
    /\ At(t, "release") /\ lock' = Unlocked(t) /\ Goto(t, "ended")
    /\ UNCHANGED <<timer, services, state, kept, staged, bundles, crashes>>

-----------------------------------------------------------------------------
(* create_backup, inside the window.                                       *)

(* What the archive will hold; a file the broker left incomplete fails it. *)
file_metadata == root["secrets"].sources

(* Every reference resolves in the archive.                                *)
verify_bundle(files, refs) == refs \subseteq files

Fails(t) == Leave(t, "failed")

dump(t) ==
    /\ At(t, "window") /\ t \in Backups
    /\ \/ Fails(t)
       \/ /\ schema.from # "none"
          /\ tool' = [tool EXCEPT ![t].at = "archive",
                                  ![t].bundle = [sources |-> schema.sources, runs |-> schema.runs]]
    /\ UNCHANGED <<host, state, kept, staged, bundles, crashes>>

archive(t) ==
    /\ At(t, "archive")
    /\ \/ Fails(t)
       \/ tool' = [tool EXCEPT ![t].at = "publish",
                               ![t].bundle = [sources |-> tool[t].bundle.sources, runs |-> tool[t].bundle.runs,
                                              files |-> file_metadata]]
    /\ UNCHANGED <<host, state, kept, staged, bundles, crashes>>

(* The manifest reads the references last; one rename makes the bundle     *)
(* visible.                                                                *)
publish(t) ==
    /\ At(t, "publish")
    /\ \/ Fails(t) /\ bundles' = bundles
       \/ /\ verify_bundle(tool[t].bundle.files, schema.sources)
          /\ bundles' = bundles \cup {[sources |-> tool[t].bundle.sources, runs |-> tool[t].bundle.runs,
                                       files |-> tool[t].bundle.files, refs |-> schema.sources]}
          /\ Leave(t, "saved")
    /\ UNCHANGED <<host, state, kept, staged, crashes>>

-----------------------------------------------------------------------------
(* restore_fresh, inside the window.                                       *)

StillEmpty == schema.sources = {} /\ schema.runs = 0

recheck(t) ==
    /\ At(t, "window") /\ t \in Restores
    /\ \/ Fails(t)
       \/ schema.from # "none" /\ StillEmpty /\ Goto(t, "extract")
    /\ UNCHANGED <<host, state, kept, staged, bundles, crashes>>

extract(t) ==
    /\ At(t, "extract")
    /\ \/ Fails(t) /\ staged' = staged
       \/ /\ staged' = [staged EXCEPT ![t] =
                [d \in Dirs |-> Content("bundle", IF d = "secrets" THEN tool[t].bundle.files ELSE {})]]
          /\ Goto(t, "drop")
    /\ UNCHANGED <<host, state, kept, bundles, crashes>>

(* DatabaseTool.restore_fresh looks once more, with a query of its own,    *)
(* before it drops the tables.                                             *)
check_target(t) ==
    /\ At(t, "drop")
    /\ Fails(t) \/ (StillEmpty /\ Goto(t, "dropping"))
    /\ UNCHANGED <<host, state, kept, staged, bundles, crashes>>

(* One command; it may fail with its statements committed.                 *)
drop_schema(t) ==
    LET dropped == Database("none", {}, 0)
    IN  /\ At(t, "dropping")
        /\ \/ schema' \in {schema, dropped} /\ Fails(t)
           \/ schema' = dropped /\ Goto(t, "load")
        /\ UNCHANGED <<host, roles, root, kept, staged, bundles, crashes>>

(* pg_restore, the migrations and grants, and the comparison with the      *)
(* manifest.                                                               *)
load(t) ==
    LET loaded == Database("bundle", tool[t].bundle.sources, tool[t].bundle.runs)
    IN  /\ At(t, "load")
        /\ \/ schema' \in {schema, loaded} /\ Fails(t)
           \/ schema' = loaded /\ Goto(t, "roles")
        /\ UNCHANGED <<host, roles, root, kept, staged, bundles, crashes>>

(* The passwords of the roles, one after the other; then the host's own    *)
(* settings are put into the staged config.                                *)
restore_roles(t) ==
    /\ At(t, "roles")
    /\ \/ roles' \in {"host", "mixed", "bundle"} /\ Fails(t)
       \/ roles' = "bundle" /\ Goto(t, "move_out")
    /\ UNCHANGED <<host, schema, root, kept, staged, bundles, crashes>>

(* _publish_restored_state: directory by directory; a failure undoes the   *)
(* directories done so far.                                                *)
Dir(t) == STATE_DIRS[tool[t].dir]

(* Fault: the directory is removed instead.                                *)
kept_nothing(t) == kept

KeptAside(t) == [kept EXCEPT ![t][Dir(t)] = root[Dir(t)]]

move_out(t) ==
    /\ At(t, "move_out")
    /\ \/ /\ kept' = KeptAside(t)
          /\ root' = [root EXCEPT ![Dir(t)] = Absent]
          /\ Goto(t, "move_in")
       \/ Goto(t, "undo") /\ UNCHANGED <<root, kept>>
    /\ UNCHANGED <<host, schema, roles, staged, bundles, crashes>>

PutBack(t, d) ==
    /\ root' = [root EXCEPT ![d] = kept[t][d]] /\ kept' = [kept EXCEPT ![t][d] = Absent]

LastDir(t) == tool[t].dir = Len(STATE_DIRS)

(* After the last directory the ones moved away are deleted, which may     *)
(* fail.                                                                   *)
move_in(t) ==
    /\ At(t, "move_in")
    /\ \/ /\ root' = [root EXCEPT ![Dir(t)] = staged[t][Dir(t)]]
          /\ staged' = [staged EXCEPT ![t][Dir(t)] = Absent]
          /\ \/ /\ ~LastDir(t) /\ kept' = kept
                /\ tool' = [tool EXCEPT ![t].at = "move_out", ![t].dir = @ + 1]
             \/ LastDir(t) /\ kept' = [kept EXCEPT ![t] = NoDirs] /\ Goto(t, "start")
             \/ LastDir(t) /\ kept' = kept /\ Fails(t)
       \/ PutBack(t, Dir(t)) /\ Goto(t, "undo") /\ staged' = staged
       \/ /\ tool' = [tool EXCEPT ![t].at = "undo", ![t].torn = TRUE]
          /\ UNCHANGED <<root, kept, staged>>
    /\ UNCHANGED <<host, schema, roles, bundles, crashes>>

(* Fault: what was published before the failure stays.                     *)
undo_nothing(t) == Fails(t) /\ UNCHANGED <<root, kept, staged>>

Undo(t) ==
    \/ tool[t].dir = 1 /\ Fails(t) /\ UNCHANGED <<root, kept, staged>>
    \/ /\ tool[t].dir = 2
       /\ \/ /\ staged' = [staged EXCEPT ![t]["config"] = root["config"]]
             /\ PutBack(t, "config") /\ Fails(t)
          \/ /\ tool' = [tool EXCEPT ![t].at = "release", ![t].result = "failed", ![t].torn = TRUE]
             /\ kept' = kept
             /\ \/ UNCHANGED <<root, staged>>
                \/ /\ staged' = [staged EXCEPT ![t]["config"] = root["config"]]
                   /\ root' = [root EXCEPT !["config"] = Absent]

undo(t) ==
    /\ At(t, "undo") /\ Undo(t)
    /\ UNCHANGED <<host, schema, roles, bundles, crashes>>

(* _start_restored_runtime; the timer stays stopped.                       *)
start_restored(t) ==
    /\ At(t, "start")
    /\ \/ services' = Services /\ Leave(t, "restored")
       \/ services' \in SUBSET Services /\ Fails(t)
    /\ UNCHANGED <<timer, lock, state, kept, staged, bundles, crashes>>

-----------------------------------------------------------------------------
crash(t) ==
    /\ Busy(t) /\ crashes < MaxCrashes /\ crashes' = crashes + 1
    /\ Goto(t, "dead") /\ lock' = Unlocked(t)
    /\ UNCHANGED <<timer, services, state, kept, staged, bundles>>

WindowStep(t) ==
    \/ stop_timer(t) \/ acquire(t) \/ lock_timeout(t) \/ stop_services(t)
    \/ restart_services(t) \/ restart_timer(t) \/ release(t)

BackupStep(t) == dump(t) \/ archive(t) \/ publish(t)

RestoreStep(t) ==
    \/ recheck(t) \/ extract(t) \/ check_target(t) \/ drop_schema(t) \/ load(t) \/ restore_roles(t)
    \/ move_out(t) \/ move_in(t) \/ undo(t) \/ start_restored(t)

ToolStep(t) == WindowStep(t) \/ BackupStep(t) \/ RestoreStep(t)

Next ==
    \/ \E s \in Sources : register_secret(s) \/ register_row(s)
    \/ sync_begin \/ sync_end
    \/ \E t \in Tools : begin(t) \/ ToolStep(t) \/ crash(t)

Spec == Init /\ [][Next]_vars

(* A tool that runs goes on: each command ends.                            *)
FairSpec == Spec /\ \A t \in Tools : WF_vars(ToolStep(t))

-----------------------------------------------------------------------------
(* Properties.                                                             *)

(* A published bundle is one moment of the installation: the dump, the     *)
(* archive and the references of the manifest agree.                       *)
BundlesAreSnapshots ==
    \A b \in bundles : b.sources = b.refs /\ b.sources \subseteq b.files

(* Database, role passwords, config and secrets belong together.           *)
Whole ==
    \E from \in {"host", "bundle"} :
        schema.from = from /\ roles = from /\ \A d \in Dirs : root[d].from = from

(* No service runs on a half-restored installation, whatever fails and     *)
(* whichever tools overlap.                                                *)
ServicesNeedWholeState == services # {} => Whole

(* The two were at work at the same time.                                  *)
Overlapped(b, r) == r \in tool[b].met \/ b \in tool[r].met

(* The timer does not run on one either, with one exception: a backup that *)
(* found it active and overlapped a restore starts it again when it ends   *)
(* or gives up, whatever has become of the restore by then                 *)
(* (Maintenance.__enter__ and __exit__).                                   *)
TimerNeedsWholeState ==
    timer /\ ~Whole => \E b \in Backups, r \in Restores : Overlapped(b, r) /\ tool[b].timer

(* Sources and runs that are there are never replaced by a restore, though *)
(* it drops the tables with a command of its own after it has found them   *)
(* empty.                                                                  *)
RestoreKeepsData ==
    [][schema'.from # schema.from /\ schema.from = "host" =>
           schema.sources = {} /\ schema.runs = 0]_vars

(* The last directory of the bundle is in place.                           *)
Published(t) == tool[t].dir = 2 /\ staged[t] = NoDirs

Exists(from, d) == root[d].from = from \/ \E t \in Tools : kept[t][d].from = from

(* Until a publication is over, the directories of the host are where they *)
(* were or in a restore's own directory, and from then on those of the     *)
(* bundle are: nothing a restore or a crash does loses a directory.        *)
OriginalsSurvive ==
    \A d \in Dirs :
        Exists("host", d) \/ (Exists("bundle", d) /\ \E t \in Restores : Published(t))

(* A restore that fails in the middle of its publication, with its own     *)
(* repair intact, leaves no mixture of directories.                        *)
PublicationIsUndone ==
    crashes = 0 /\ (\A t \in Tools : ~Busy(t) /\ ~tool[t].torn) => root["config"].from = root["secrets"].from

AsBefore(t) == timer = tool[t].before.timer /\ services = tool[t].before.services

(* A backup that succeeds, and that no other tool meets or follows, leaves *)
(* timer and services as it found them.                                    *)
SavedLeavesHostAsFound ==
    \A t \in Backups :
        /\ tool[t].at = "ended" /\ tool[t].result = "saved"
        /\ \A r \in Tools \ {t} : tool[r].at = "idle"
        => AsBefore(t)

(* Every tool ends, and gives the lock back.                               *)
MaintenanceEnds == \A t \in Tools : Busy(t) ~> ~Busy(t) /\ lock # t
=============================================================================
