-------------------------- MODULE MaintenanceProofs --------------------------
(***************************************************************************)
(* What the maintenance tools promise, for any number of backups and       *)
(* restores that overlap each other, onboarding and synchronizations, with *)
(* any command failing and any number of tools killed.                     *)
(***************************************************************************)
EXTENDS Maintenance, TLAPS

(***************************************************************************)
(* The window.  From the acquisition of the lock to its release a tool     *)
(* holds it, and between stopping and starting the services none runs.     *)
(***************************************************************************)
BackupOnly == {"archive", "publish", "restart", "restart_timer"}

RestoreOnly == {"extract", "drop", "dropping", "load", "roles", "move_out", "move_in", "undo", "start"}

Held == {"stop", "window", "release"} \cup BackupOnly \cup RestoreOnly

Silent == Held \ {"stop", "restart_timer", "release"}

Points == Held \cup {"idle", "timer", "lock", "ended", "dead"}

Froms == {"host", "mixed", "bundle", "none"}

Contents == [from : Froms, sources : SUBSET Sources]

BundleSet == [sources : SUBSET Sources, runs : Nat, files : SUBSET Sources, refs : SUBSET Sources]

Dumps == [sources : SUBSET Sources, runs : Nat]

Archives == [sources : SUBSET Sources, runs : Nat, files : SUBSET Sources]

Befores == {<<>>} \cup [timer : BOOLEAN, services : SUBSET Services]

Bundles == {<<>>} \cup BundleSet \cup Dumps \cup Archives

Results == {"none", "failed", "restart_failed", "saved", "restored"}

ToolRecords ==
    [at : Points, before : Befores, timer : BOOLEAN, running : SUBSET Services, bundle : Bundles,
     dir : {1, 2}, torn : BOOLEAN, result : Results, met : SUBSET Tools]

HostTyped == timer \in BOOLEAN /\ services \subseteq Services /\ crashes \in Nat

StateTyped ==
    /\ schema \in [from : Froms, sources : SUBSET Sources, runs : Nat] /\ roles \in Froms
    /\ root \in [Dirs -> Contents] /\ bundles \subseteq BundleSet
    /\ kept \in [Tools -> [Dirs -> Contents]] /\ staged \in [Tools -> [Dirs -> Contents]]

ToolInv(t) ==
    /\ tool[t] \in ToolRecords
    /\ tool[t].at \in Held => lock = t
    /\ tool[t].at \in Silent => services = {}
    /\ tool[t].at \in BackupOnly => t \in Backups
    /\ tool[t].at \in RestoreOnly => t \in Restores
    /\ tool[t].at = "archive" => tool[t].bundle \in Dumps
    /\ tool[t].at = "publish" => tool[t].bundle \in Archives
    /\ t \in Restores /\ Busy(t) => tool[t].bundle \in BundleSet

WindowInv ==
    /\ HostTyped /\ StateTyped /\ tool \in [Tools -> ToolRecords]
    /\ \A t \in Tools : ToolInv(t)

LEMMA InitWindow == Init => WindowInv
  BY MaintenanceAssumption, BundleAssumption
     DEF Init, WindowInv, HostTyped, StateTyped, ToolInv, ToolRecords, NewTool, Points, Befores, Bundles, Results, Held, Silent,
         BackupOnly, RestoreOnly, Froms, Contents, BundleSet, Database, Content, NoDirs, Absent, Dirs, Busy

LEMMA NoToolIsFree == "free" \notin Tools /\ "sync" \notin Tools
  BY MaintenanceAssumption

LEMMA WritersWindow ==
    ASSUME WindowInv, \/ \E s \in Sources : register_secret(s) \/ register_row(s)
                      \/ sync_begin \/ sync_end
    PROVE  WindowInv'
<1> USE DEF WindowInv, HostTyped, StateTyped, ToolInv, host, state, Busy
<1>1. CASE \E s \in Sources : register_secret(s)
  BY <1>1, SMTT(30) DEF register_secret, Contents, Dirs, Silent, Held
<1>2. CASE \E s \in Sources : register_row(s)
  BY <1>2 DEF register_row
<1>3. CASE sync_begin
  <2>1. schema' \in [from : Froms, sources : SUBSET Sources, runs : Nat]
    BY <1>3 DEF sync_begin
  <2> QED
    BY <1>3, <2>1, NoToolIsFree DEF sync_begin
<1>4. CASE sync_end
  BY <1>4, NoToolIsFree DEF sync_end
<1> QED
  BY <1>1, <1>2, <1>3, <1>4

(***************************************************************************)
(* What a step does to the record of its tool.                             *)
(***************************************************************************)
Frame(t) == tool' \in [Tools -> ToolRecords] /\ \A r \in Tools \ {t} : tool'[r] = tool[r]

Own(t) ==
    /\ tool'[t].before = tool[t].before /\ tool'[t].timer = tool[t].timer
    /\ tool'[t].running = tool[t].running
    /\ tool'[t].dir = tool[t].dir /\ tool'[t].torn = tool[t].torn /\ tool'[t].met = tool[t].met

Same(t) == Own(t) /\ tool'[t].bundle = tool[t].bundle

LEMMA GotoEffect ==
    ASSUME WindowInv, NEW t \in Tools, NEW at \in Points, Goto(t, at)
    PROVE  Frame(t) /\ Same(t) /\ tool'[t].at = at /\ tool'[t].result = tool[t].result
  BY DEF WindowInv, Goto, Frame, Same, Own, ToolRecords

LEMMA SetEffect ==
    ASSUME WindowInv, NEW t \in Tools, NEW at \in Points, NEW result \in Results,
           tool' = [tool EXCEPT ![t].at = at, ![t].result = result]
    PROVE  Frame(t) /\ Same(t) /\ tool'[t].at = at /\ tool'[t].result = result
<1>1. tool[t] \in ToolRecords /\ tool \in [Tools -> ToolRecords]
  BY DEF WindowInv
<1> QED
  BY <1>1 DEF Frame, Same, Own, ToolRecords

LEMMA EndEffect ==
    ASSUME WindowInv, NEW t \in Tools, NEW result \in Results, End(t, result)
    PROVE  Frame(t) /\ Same(t) /\ tool'[t].at = "ended" /\ tool'[t].result = result
  BY SetEffect DEF End, Points

LEMMA LeaveEffect ==
    ASSUME WindowInv, NEW t \in Tools, NEW result \in Results, Leave(t, result)
    PROVE  /\ Frame(t) /\ Same(t) /\ tool'[t].result = result
           /\ tool'[t].at = IF t \in Backups THEN "restart" ELSE "release"
<1>1. (IF t \in Backups THEN "restart" ELSE "release") \in Points
  BY DEF Points, Held, BackupOnly
<1> QED
  BY <1>1, SetEffect DEF Leave, RestoreAfter

(* A step of one tool: it is enough to look at that tool when it has the   *)
(* lock or leaves lock and services alone.                                 *)
LEMMA ToolWindow ==
    ASSUME WindowInv, NEW t \in Tools, Frame(t), HostTyped', StateTyped', ToolInv(t)',
           lock' # lock => lock \in {t, "free"}, services' # services => tool[t].at \in Held
    PROVE  WindowInv'
<1>2. ASSUME NEW r \in Tools \ {t} PROVE ToolInv(r)'
  <2>1. tool'[r] = tool[r] /\ ToolInv(r) /\ ToolInv(t)
    BY DEF WindowInv, Frame
  <2> QED
    BY <2>1, NoToolIsFree DEF ToolInv, Silent, Busy
<1> QED
  BY <1>2 DEF WindowInv, Frame

LEMMA BeginEffect ==
    ASSUME WindowInv, NEW t \in Tools, begin(t)
    PROVE  /\ Frame(t) /\ UNCHANGED <<host, state, kept, staged, bundles, crashes>>
           /\ tool[t].at = "idle" /\ tool'[t].at \in {"timer", "ended"}
           /\ tool'[t].at = "ended" => tool'[t].result = "failed"
           /\ tool'[t].at = "ended" => tool'[t].met = tool[t].met
           /\ tool'[t].timer = tool[t].timer
           /\ tool'[t].at = "timer" =>
                /\ tool'[t].met = {r \in Tools : Busy(r)}
                /\ tool'[t].before = [timer |-> timer, services |-> services]
                /\ t \in Restores => tool'[t].bundle \in BundleSet
           /\ tool'[t].dir = tool[t].dir /\ tool'[t].torn = tool[t].torn
<1>1. CASE End(t, "failed")
  BY <1>1, EndEffect DEF begin, At, Results, Same, Own
<1>2. CASE ~End(t, "failed")
  <2>1. PICK b :
            /\ b \in IF t \in Restores THEN bundles ELSE {<<>>}
            /\ tool' = [tool EXCEPT ![t] = [@ EXCEPT !.at = "timer", !.bundle = b,
                                                           !.before = [timer |-> timer, services |-> services],
                                                           !.met = {r \in Tools : Busy(r)}]]
    BY <1>2 DEF begin
  <2>2. b \in Bundles /\ (t \in Restores => b \in BundleSet)
    BY <2>1 DEF WindowInv, StateTyped, Bundles
  <2>3. PICK before \in Befores : before = [timer |-> timer, services |-> services]
    BY DEF WindowInv, HostTyped, Befores
  <2>4. PICK new : new = [tool[t] EXCEPT !.at = "timer", !.bundle = b, !.before = before,
                                              !.met = {r \in Tools : Busy(r)}]
    OBVIOUS
  <2>5. tool' = [tool EXCEPT ![t] = new]
    BY <2>1, <2>3, <2>4
  <2>6. new \in ToolRecords /\ tool[t] \in ToolRecords
    <3>1. tool[t] \in ToolRecords /\ "timer" \in Points
      BY DEF WindowInv, Points
    <3> QED
      BY <2>2, <2>4, <3>1 DEF ToolRecords
  <2>7. /\ new.at = "timer" /\ new.bundle = b /\ new.before = before
        /\ new.dir = tool[t].dir /\ new.torn = tool[t].torn
        /\ new.timer = tool[t].timer /\ new.met = {r \in Tools : Busy(r)}
    BY <2>4, <2>6 DEF ToolRecords
  <2>8. Frame(t) /\ tool'[t] = new
    BY <2>5, <2>6 DEF WindowInv, Frame
  <2> QED
    BY <2>2, <2>3, <2>7, <2>8 DEF begin, At
<1> QED
  BY <1>1, <1>2

LEMMA StopTimerEffect ==
    ASSUME WindowInv, NEW t \in Tools, tool' = [tool EXCEPT ![t].at = "lock", ![t].timer = timer]
    PROVE  /\ Frame(t) /\ tool'[t].at = "lock" /\ tool'[t].timer = timer
           /\ tool'[t].before = tool[t].before /\ tool'[t].bundle = tool[t].bundle
           /\ tool'[t].result = tool[t].result
           /\ tool'[t].dir = tool[t].dir /\ tool'[t].torn = tool[t].torn
           /\ tool'[t].met = tool[t].met
<1>1. tool[t] \in ToolRecords /\ "lock" \in Points /\ timer \in BOOLEAN /\ tool \in [Tools -> ToolRecords]
  BY DEF WindowInv, HostTyped, Points
<1> QED
  BY <1>1 DEF Frame, ToolRecords

LEMMA StopEffect ==
    ASSUME WindowInv, NEW t \in Tools, tool' = [tool EXCEPT ![t].at = "window", ![t].running = services]
    PROVE  /\ Frame(t) /\ tool'[t].at = "window" /\ tool'[t].running = services
           /\ tool'[t].before = tool[t].before /\ tool'[t].bundle = tool[t].bundle
           /\ tool'[t].timer = tool[t].timer /\ tool'[t].result = tool[t].result
           /\ tool'[t].dir = tool[t].dir /\ tool'[t].torn = tool[t].torn
           /\ tool'[t].met = tool[t].met
<1>1. /\ tool[t] \in ToolRecords /\ "window" \in Points /\ services \in SUBSET Services
      /\ tool \in [Tools -> ToolRecords]
  BY DEF WindowInv, HostTyped, Points, Held
<1> QED
  BY <1>1 DEF Frame, ToolRecords

LEMMA BundleEffect ==
    ASSUME WindowInv, NEW t \in Tools, NEW at \in Points, NEW b \in Bundles,
           tool' = [tool EXCEPT ![t].at = at, ![t].bundle = b]
    PROVE  /\ Frame(t) /\ tool'[t].at = at /\ tool'[t].bundle = b
           /\ Own(t) /\ tool'[t].result = tool[t].result
<1>1. tool[t] \in ToolRecords /\ tool \in [Tools -> ToolRecords]
  BY DEF WindowInv
<1> QED
  BY <1>1 DEF Frame, Own, ToolRecords

LEMMA DirEffect ==
    ASSUME WindowInv, NEW t \in Tools, NEW at \in Points, NEW d \in {1, 2},
           tool' = [tool EXCEPT ![t].at = at, ![t].dir = d]
    PROVE  /\ Frame(t) /\ tool'[t].at = at /\ tool'[t].dir = d
           /\ tool'[t].bundle = tool[t].bundle /\ tool'[t].torn = tool[t].torn
           /\ tool'[t].result = tool[t].result
           /\ tool'[t].met = tool[t].met
<1>1. tool[t] \in ToolRecords /\ tool \in [Tools -> ToolRecords]
  BY DEF WindowInv
<1> QED
  BY <1>1 DEF Frame, ToolRecords

LEMMA TornEffect ==
    ASSUME WindowInv, NEW t \in Tools, NEW at \in Points,
           \/ tool' = [tool EXCEPT ![t].at = at, ![t].torn = TRUE]
           \/ tool' = [tool EXCEPT ![t].at = at, ![t].result = "failed", ![t].torn = TRUE]
    PROVE  /\ Frame(t) /\ tool'[t].at = at /\ tool'[t].torn = TRUE
           /\ tool'[t].bundle = tool[t].bundle /\ tool'[t].dir = tool[t].dir
           /\ tool'[t].met = tool[t].met
<1>1. tool[t] \in ToolRecords /\ tool \in [Tools -> ToolRecords] /\ "failed" \in Results
  BY DEF WindowInv, Results
<1> QED
  BY <1>1 DEF Frame, ToolRecords

LEMMA DumpEffect ==
    ASSUME WindowInv, NEW t \in Tools, dump(t)
    PROVE  /\ UNCHANGED <<host, state, kept, staged, bundles, crashes>>
           /\ t \in Backups /\ tool[t].at = "window" /\ Frame(t)
           /\ Own(t)
           /\ \/ tool'[t].at = "restart" /\ tool'[t].result = "failed"
              \/ /\ tool'[t].at = "archive" /\ tool'[t].result = tool[t].result
                 /\ tool'[t].bundle \in Dumps /\ tool'[t].bundle.sources = schema.sources
<1>1. CASE Fails(t)
  BY <1>1, LeaveEffect DEF dump, Fails, Results, At, Same
<1>2. CASE ~Fails(t)
  <2>1. PICK b : b = [sources |-> schema.sources, runs |-> schema.runs]
    OBVIOUS
  <2>2. b \in Dumps /\ b.sources = schema.sources /\ b \in Bundles /\ "archive" \in Points
    BY <2>1 DEF WindowInv, StateTyped, Dumps, Bundles, Points, Held, BackupOnly
  <2>3. tool' = [tool EXCEPT ![t].at = "archive", ![t].bundle = b]
    BY <1>2, <2>1 DEF dump
  <2>4. /\ Frame(t) /\ tool'[t].at = "archive" /\ tool'[t].bundle = b
        /\ Own(t) /\ tool'[t].result = tool[t].result
    BY <2>2, <2>3, BundleEffect
  <2> QED
    BY <2>2, <2>4 DEF dump, At
<1> QED
  BY <1>1, <1>2

LEMMA ArchiveEffect ==
    ASSUME WindowInv, NEW t \in Tools, archive(t)
    PROVE  /\ UNCHANGED <<host, state, kept, staged, bundles, crashes>>
           /\ t \in Backups /\ tool[t].at = "archive" /\ Frame(t)
           /\ Own(t)
           /\ \/ tool'[t].at = "restart" /\ tool'[t].result = "failed"
              \/ /\ tool'[t].at = "publish" /\ tool'[t].result = tool[t].result
                 /\ tool'[t].bundle \in Archives /\ tool'[t].bundle.sources = tool[t].bundle.sources
<1>0. t \in Backups /\ tool[t].bundle \in Dumps /\ tool[t].at = "archive"
  BY DEF archive, At, WindowInv, ToolInv, BackupOnly
<1>1. CASE Fails(t)
  BY <1>0, <1>1, LeaveEffect DEF archive, Fails, Results, Same
<1>2. CASE ~Fails(t)
  <2>1. PICK b : b = [sources |-> tool[t].bundle.sources, runs |-> tool[t].bundle.runs,
                      files |-> file_metadata]
    OBVIOUS
  <2>a. file_metadata \in SUBSET Sources
    BY DEF WindowInv, StateTyped, Contents, Dirs, file_metadata
  <2>2. b \in Archives /\ b.sources = tool[t].bundle.sources /\ b \in Bundles /\ "publish" \in Points
    BY <1>0, <2>1, <2>a DEF Dumps, Archives, Bundles, Points, Held, BackupOnly
  <2>3. tool' = [tool EXCEPT ![t].at = "publish", ![t].bundle = b]
    BY <1>2, <2>1 DEF archive
  <2>4. /\ Frame(t) /\ tool'[t].at = "publish" /\ tool'[t].bundle = b
        /\ Own(t) /\ tool'[t].result = tool[t].result
    BY <2>2, <2>3, BundleEffect
  <2> QED
    BY <1>0, <2>2, <2>4 DEF archive
<1> QED
  BY <1>1, <1>2

LEMMA PointFacts ==
    /\ Points = Held \cup {"idle", "timer", "lock", "ended", "dead"}
    /\ Held = {"stop", "window", "release"} \cup BackupOnly \cup RestoreOnly
    /\ "timer" \notin Held /\ "lock" \notin Held /\ "ended" \notin Held /\ "dead" \notin Held
    /\ Silent = Held \ {"stop", "restart_timer", "release"}
    /\ BackupOnly = {"archive", "publish", "restart", "restart_timer"}
    /\ RestoreOnly = {"extract", "drop", "dropping", "load", "roles", "move_out", "move_in", "undo", "start"}
    /\ {"failed", "restart_failed", "saved", "restored"} \subseteq Results
  BY DEF Points, Held, Silent, BackupOnly, RestoreOnly, Results

LEMMA ControlWindow ==
    ASSUME WindowInv, NEW t \in Tools, begin(t) \/ WindowStep(t) \/ crash(t)
    PROVE  WindowInv'
<1>0. ToolInv(t) /\ HostTyped /\ StateTyped /\ tool[t] \in ToolRecords
  BY DEF WindowInv
<1>a. tool[t].timer \in BOOLEAN /\ tool[t].running \subseteq Services
  BY <1>0 DEF ToolRecords
<1>1. CASE begin(t)
  <2>1. HostTyped' /\ StateTyped'
    BY <1>0, <1>a, <1>1 DEF begin, host, state, HostTyped, StateTyped
  <2>2. Frame(t) /\ ToolInv(t)'
    BY <1>0, <1>1, BeginEffect, PointFacts DEF begin, host, At, ToolInv, Busy, Same, Frame
  <2> QED
    BY <1>1, <2>1, <2>2, ToolWindow, PointFacts DEF begin, host, At
<1>2. CASE stop_timer(t)
  <2>1. HostTyped' /\ StateTyped'
    BY <1>0, <1>a, <1>2 DEF stop_timer, host, state, HostTyped, StateTyped
  <2>2. Frame(t) /\ ToolInv(t)'
    BY <1>0, <1>2, EndEffect, StopTimerEffect, PointFacts DEF stop_timer, host, At, ToolInv, Busy, Same, Frame
  <2> QED
    BY <1>2, <2>1, <2>2, ToolWindow, PointFacts DEF stop_timer, host, At
<1>3. CASE acquire(t)
  <2>1. HostTyped' /\ StateTyped'
    BY <1>0, <1>a, <1>3 DEF acquire, host, state, HostTyped, StateTyped
  <2>2. Frame(t) /\ ToolInv(t)'
    BY <1>0, <1>3, GotoEffect, PointFacts DEF acquire, host, At, ToolInv, Busy, Same, Frame
  <2> QED
    BY <1>3, <2>1, <2>2, ToolWindow, PointFacts DEF acquire, host, At
<1>4. CASE lock_timeout(t)
  <2>1. HostTyped' /\ StateTyped'
    BY <1>0, <1>a, <1>4 DEF lock_timeout, EnterFails, Unlocked, host, state, HostTyped, StateTyped
  <2>2. Frame(t) /\ ToolInv(t)'
    BY <1>0, <1>4, EndEffect, PointFacts DEF lock_timeout, EnterFails, Unlocked, host, At, ToolInv, Busy, Same, Frame
  <2> QED
    BY <1>4, <2>1, <2>2, ToolWindow, PointFacts DEF lock_timeout, EnterFails, Unlocked, host, At
<1>5. CASE stop_services(t)
  <2>1. HostTyped' /\ StateTyped'
    BY <1>0, <1>a, <1>5 DEF stop_services, EnterFails, Unlocked, Stopped, host, state, HostTyped, StateTyped
  <2>2. Frame(t) /\ ToolInv(t)'
    BY <1>0, <1>5, EndEffect, StopEffect, PointFacts DEF stop_services, EnterFails, Unlocked, Stopped, host, At, ToolInv, Busy, Same, Frame
  <2> QED
    BY <1>5, <2>1, <2>2, ToolWindow, PointFacts DEF stop_services, EnterFails, Unlocked, Stopped, host, At
<1>6. CASE restart_services(t)
  <2>1. HostTyped' /\ StateTyped'
    BY <1>0, <1>a, <1>6 DEF restart_services, host, state, HostTyped, StateTyped
  <2>a. Frame(t) /\ Same(t) /\ tool'[t].at \in {"restart_timer", "release"}
    <3>1. CASE Goto(t, "restart_timer")
      BY <3>1, GotoEffect, PointFacts, SMTT(30)
    <3>2. CASE tool' = [tool EXCEPT ![t].at = "release", ![t].result = "restart_failed"]
      BY <3>2, SetEffect, PointFacts
    <3> QED
      BY <1>6, <3>1, <3>2 DEF restart_services
  <2>2. Frame(t) /\ ToolInv(t)'
    BY <1>0, <1>6, <2>a, PointFacts DEF restart_services, host, At, ToolInv, Busy, Same, Frame
  <2> QED
    BY <1>6, <2>1, <2>2, ToolWindow, PointFacts DEF restart_services, host, At
<1>7. CASE restart_timer(t)
  <2>1. HostTyped' /\ StateTyped'
    BY <1>0, <1>a, <1>7 DEF restart_timer, TimerAfter, host, state, HostTyped, StateTyped
  <2>a. Frame(t) /\ Same(t) /\ tool'[t].at \in {"restart_timer", "release"}
    <3>1. CASE Goto(t, "release")
      BY <3>1, GotoEffect, PointFacts
    <3>2. CASE tool' = [tool EXCEPT ![t].at = "release", ![t].result = "restart_failed"]
      BY <3>2, SetEffect, PointFacts
    <3> QED
      BY <1>7, <3>1, <3>2 DEF restart_timer
  <2>2. Frame(t) /\ ToolInv(t)'
    BY <1>0, <1>7, <2>a, PointFacts DEF restart_timer, TimerAfter, host, At, ToolInv, Busy, Same, Frame
  <2> QED
    BY <1>7, <2>1, <2>2, ToolWindow, PointFacts DEF restart_timer, TimerAfter, host, At
<1>8. CASE release(t)
  <2>1. HostTyped' /\ StateTyped'
    BY <1>0, <1>a, <1>8 DEF release, Unlocked, host, state, HostTyped, StateTyped
  <2>2. Frame(t) /\ ToolInv(t)'
    BY <1>0, <1>8, GotoEffect, PointFacts DEF release, Unlocked, host, At, ToolInv, Busy, Same, Frame
  <2> QED
    BY <1>8, <2>1, <2>2, ToolWindow, PointFacts DEF release, Unlocked, host, At
<1>9. CASE crash(t)
  <2>1. HostTyped' /\ StateTyped'
    BY <1>0, <1>a, <1>9 DEF crash, Unlocked, host, state, HostTyped, StateTyped
  <2>2. Frame(t) /\ ToolInv(t)'
    BY <1>0, <1>9, GotoEffect, PointFacts DEF crash, Unlocked, host, At, ToolInv, Busy, Same, Frame
  <2> QED
    BY <1>9, <2>1, <2>2, ToolWindow, PointFacts DEF crash, Unlocked, host, At
<1> QED
  BY <1>1, <1>2, <1>3, <1>4, <1>5, <1>6, <1>7, <1>8, <1>9 DEF WindowStep

LEMMA BackupWindow ==
    ASSUME WindowInv, NEW t \in Tools, BackupStep(t)
    PROVE  WindowInv'
<1>0. ToolInv(t) /\ HostTyped /\ StateTyped
  BY DEF WindowInv
<1>1. CASE dump(t)
  <2>1. HostTyped' /\ StateTyped'
    BY <1>0, <1>1 DEF dump, host, state, HostTyped, StateTyped
  <2>2. Frame(t) /\ ToolInv(t)'
    BY <1>0, <1>1, DumpEffect, PointFacts, MaintenanceAssumption DEF host, ToolInv, Frame
  <2> QED
    BY <1>1, <2>1, <2>2, ToolWindow DEF dump, host
<1>2. CASE archive(t)
  <2>1. HostTyped' /\ StateTyped'
    BY <1>0, <1>2 DEF archive, host, state, HostTyped, StateTyped
  <2>2. Frame(t) /\ ToolInv(t)'
    BY <1>0, <1>2, ArchiveEffect, PointFacts, MaintenanceAssumption DEF host, ToolInv, Frame
  <2> QED
    BY <1>2, <2>1, <2>2, ToolWindow DEF archive, host
<1>3. CASE publish(t)
  <2>0. t \in Backups /\ tool[t].bundle \in Archives /\ schema.sources \in SUBSET Sources
    BY <1>0, <1>3, PointFacts DEF publish, At, ToolInv, StateTyped
  <2>1. bundles' \subseteq BundleSet
    <3> DEFINE new == [sources |-> tool[t].bundle.sources, runs |-> tool[t].bundle.runs,
                       files |-> tool[t].bundle.files, refs |-> schema.sources]
    <3>1. new \in BundleSet
      BY <2>0 DEF Archives, BundleSet
    <3> QED
      BY <1>0, <1>3, <3>1 DEF publish, StateTyped
  <2>2. HostTyped' /\ StateTyped'
    BY <1>0, <1>3, <2>1 DEF publish, host, state, HostTyped, StateTyped
  <2>3. Frame(t) /\ tool'[t].at = "restart" /\ tool'[t].bundle = tool[t].bundle
    BY <1>3, <2>0, LeaveEffect, PointFacts DEF publish, Fails, Same
  <2>4. ToolInv(t)'
    BY <1>0, <1>3, <2>0, <2>3, PointFacts, MaintenanceAssumption DEF publish, At, host, ToolInv, Frame
  <2> QED
    BY <1>3, <2>2, <2>3, <2>4, ToolWindow DEF publish, host
<1> QED
  BY <1>1, <1>2, <1>3 DEF BackupStep

(***************************************************************************)
(* The steps of a restore.                                                 *)
(***************************************************************************)
LEMMA RestoreEffect ==
    ASSUME WindowInv, NEW t \in Tools, recheck(t) \/ RestoreStep(t)
    PROVE  /\ Frame(t) /\ t \in Restores /\ t \notin Backups /\ tool'[t].bundle = tool[t].bundle
           /\ tool'[t].met = tool[t].met
           /\ tool[t].at \in RestoreOnly \cup {"window"} /\ tool'[t].at \in RestoreOnly \cup {"release"}
           /\ tool[t].at # "move_in" => tool'[t].dir = tool[t].dir
<1>0. ToolInv(t) /\ tool[t].dir \in {1, 2}
  BY DEF WindowInv, ToolRecords
<1>a. t \in Restores /\ t \notin Backups /\ tool[t].at \in RestoreOnly \cup {"window"}
  BY <1>0, PointFacts, MaintenanceAssumption DEF RestoreStep, At, ToolInv, recheck, extract, check_target, drop_schema, load,
     restore_roles, move_out, move_in, undo, start_restored
<1>b. ASSUME Fails(t) \/ Leave(t, "restored")
      PROVE  Frame(t) /\ Same(t) /\ tool'[t].at = "release"
  BY <1>a, <1>b, LeaveEffect, PointFacts DEF Fails
<1>c. ASSUME NEW at \in {"extract", "drop", "dropping", "load", "roles", "move_out", "move_in", "undo", "start"}, Goto(t, at)
      PROVE  Frame(t) /\ Same(t) /\ tool'[t].at = at
  BY <1>c, GotoEffect, PointFacts
<1>1. CASE move_in(t)
  <2>0. tool[t].at = "move_in" /\ "move_out" \in Points /\ "undo" \in Points
        /\ {"move_out", "undo", "start"} \subseteq RestoreOnly
    BY <1>1, PointFacts DEF move_in, At
  <2>1. CASE ~LastDir(t) /\ tool' = [tool EXCEPT ![t].at = "move_out", ![t].dir = @ + 1]
    <3>1. tool[t].dir = 1
      BY <1>0, <2>1 DEF LastDir, STATE_DIRS
    <3>2. tool' = [tool EXCEPT ![t].at = "move_out", ![t].dir = 2]
      BY <2>1, <3>1
    <3>3. /\ Frame(t) /\ tool'[t].at = "move_out" /\ tool'[t].bundle = tool[t].bundle
          /\ tool'[t].met = tool[t].met
      BY <2>0, <3>2, DirEffect
    <3> QED
      BY <1>a, <2>0, <3>3
  <2>2. CASE tool' = [tool EXCEPT ![t].at = "undo", ![t].torn = TRUE]
    BY <1>a, <2>0, <2>2, TornEffect, ZenonT(60)
  <2>3. CASE Fails(t) \/ Goto(t, "start") \/ Goto(t, "undo")
    BY <1>a, <1>b, <1>c, <2>0, <2>3 DEF Same, Own
  <2> QED
    BY <1>1, <2>1, <2>2, <2>3 DEF move_in
<1>2. CASE undo(t)
  <2>1. CASE Fails(t)
    BY <1>a, <1>b, <2>1 DEF Same, Own
  <2>2. CASE tool' = [tool EXCEPT ![t].at = "release", ![t].result = "failed", ![t].torn = TRUE]
    BY <1>a, <1>2, <2>2, TornEffect, PointFacts DEF undo
  <2> QED
    BY <1>2, <2>1, <2>2 DEF undo, Undo
<1>3. CASE ~move_in(t) /\ ~undo(t)
  <2>1. \/ Fails(t) \/ Leave(t, "restored")
        \/ \E at \in {"extract", "drop", "dropping", "load", "roles", "move_out", "move_in", "undo", "start"} : Goto(t, at)
    BY <1>3 DEF RestoreStep, recheck, extract, check_target, drop_schema, load, restore_roles, move_out, start_restored
  <2> QED
    BY <1>a, <1>b, <1>c, <2>1, PointFacts DEF Same, Own
<1> QED
  BY <1>1, <1>2, <1>3

(* Putting a directory somewhere keeps the types.                          *)
LEMMA PutTyped ==
    ASSUME NEW f \in [Tools -> [Dirs -> Contents]], NEW t \in Tools, NEW d \in Dirs, NEW c \in Contents
    PROVE  [f EXCEPT ![t][d] = c] \in [Tools -> [Dirs -> Contents]]
  OBVIOUS

LEMMA RestoreTyped ==
    ASSUME WindowInv, NEW t \in Tools, RestoreStep(t)
    PROVE  HostTyped' /\ StateTyped'
<1>0. /\ HostTyped /\ StateTyped /\ t \in Restores /\ tool[t].bundle \in BundleSet
      /\ tool[t].dir \in {1, 2} /\ Dir(t) \in Dirs /\ "config" \in Dirs
  <2>1. t \in Restores /\ tool[t].at \in RestoreOnly \cup {"window"} /\ tool[t] \in ToolRecords
    BY RestoreEffect DEF WindowInv
  <2>2. tool[t].bundle \in BundleSet /\ tool[t].dir \in {1, 2}
    BY <2>1, PointFacts DEF WindowInv, ToolInv, Busy, ToolRecords
  <2> QED
    BY <2>1, <2>2 DEF WindowInv, Dir, STATE_DIRS, Dirs
<1>a. Absent \in Contents /\ NoDirs \in [Dirs -> Contents]
  BY DEF Absent, NoDirs, Contents, Content, Froms
<1>1. HostTyped'
  BY <1>0 DEF HostTyped, RestoreStep, recheck, extract, check_target, drop_schema, load, restore_roles, move_out, move_in,
     undo, start_restored, host
<1> USE DEF StateTyped, host, state
<1>2. CASE recheck(t) \/ start_restored(t)
  BY <1>0, <1>1, <1>2 DEF recheck, start_restored
<1>3. CASE extract(t)
  <2>1. [d \in Dirs |-> Content("bundle", IF d = "secrets" THEN tool[t].bundle.files ELSE {})]
            \in [Dirs -> Contents]
    BY <1>0 DEF Content, Contents, Froms, BundleSet
  <2> QED
    BY <1>0, <1>1, <1>3, <2>1 DEF extract
<1>4. CASE check_target(t) \/ drop_schema(t)
  BY <1>0, <1>1, <1>4 DEF check_target, drop_schema, Database, Froms
<1>5. CASE load(t)
  <2>1. Database("bundle", tool[t].bundle.sources, tool[t].bundle.runs)
            \in [from : Froms, sources : SUBSET Sources, runs : Nat]
    BY <1>0 DEF Database, Froms, BundleSet
  <2> QED
    BY <1>0, <1>1, <1>5, <2>1 DEF load
<1>6. CASE restore_roles(t)
  BY <1>0, <1>1, <1>6 DEF restore_roles, Froms
<1>b. /\ root[Dir(t)] \in Contents /\ kept[t][Dir(t)] \in Contents /\ staged[t][Dir(t)] \in Contents
      /\ root["config"] \in Contents /\ kept[t]["config"] \in Contents
  BY <1>0
<1>c. /\ KeptAside(t) \in [Tools -> [Dirs -> Contents]] /\ [kept EXCEPT ![t] = NoDirs] \in [Tools -> [Dirs -> Contents]]
      /\ [kept EXCEPT ![t][Dir(t)] = Absent] \in [Tools -> [Dirs -> Contents]]
      /\ [kept EXCEPT ![t]["config"] = Absent] \in [Tools -> [Dirs -> Contents]]
      /\ [staged EXCEPT ![t][Dir(t)] = Absent] \in [Tools -> [Dirs -> Contents]]
      /\ [staged EXCEPT ![t]["config"] = root["config"]] \in [Tools -> [Dirs -> Contents]]
  BY <1>0, <1>a, <1>b, PutTyped DEF KeptAside
<1>d. /\ [root EXCEPT ![Dir(t)] = Absent] \in [Dirs -> Contents]
      /\ [root EXCEPT !["config"] = Absent] \in [Dirs -> Contents]
      /\ [root EXCEPT !["config"] = kept[t]["config"]] \in [Dirs -> Contents]
  BY <1>0, <1>a, <1>b
<1>7. CASE move_out(t)
  <2>1. kept' \in {kept, KeptAside(t)} /\ root' \in {root, [root EXCEPT ![Dir(t)] = Absent]}
    BY <1>7 DEF move_out
  <2>2. schema' = schema /\ roles' = roles /\ bundles' = bundles /\ staged' = staged
    BY <1>7 DEF move_out
  <2> QED
    BY <1>0, <1>1, <1>c, <1>d, <2>1, <2>2
<1>8. CASE move_in(t)
  <2>1. /\ kept' \in {kept, [kept EXCEPT ![t] = NoDirs], [kept EXCEPT ![t][Dir(t)] = Absent]}
        /\ root' \in {root, [root EXCEPT ![Dir(t)] = staged[t][Dir(t)]], [root EXCEPT ![Dir(t)] = kept[t][Dir(t)]]}
        /\ staged' \in {staged, [staged EXCEPT ![t][Dir(t)] = Absent]}
    BY <1>8 DEF move_in, PutBack
  <2>2. schema' = schema /\ roles' = roles /\ bundles' = bundles
    BY <1>8 DEF move_in
  <2> QED
    BY <1>0, <1>1, <1>a, <1>b, <1>c, <2>1, <2>2
<1>9. CASE undo(t)
  <2>1. /\ kept' \in {kept, [kept EXCEPT ![t]["config"] = Absent]}
        /\ root' \in {root, [root EXCEPT !["config"] = Absent], [root EXCEPT !["config"] = kept[t]["config"]]}
        /\ staged' \in {staged, [staged EXCEPT ![t]["config"] = root["config"]]}
    BY <1>9 DEF undo, Undo, PutBack
  <2>2. schema' = schema /\ roles' = roles /\ bundles' = bundles
    BY <1>9 DEF undo
  <2> QED
    BY <1>0, <1>1, <1>c, <1>d, <2>1, <2>2
<1> QED
  BY <1>2, <1>3, <1>4, <1>5, <1>6, <1>7, <1>8, <1>9 DEF RestoreStep

LEMMA RestoreWindow ==
    ASSUME WindowInv, NEW t \in Tools, RestoreStep(t)
    PROVE  WindowInv'
<1>1. /\ ToolInv(t) /\ HostTyped' /\ StateTyped' /\ Frame(t) /\ t \in Restores /\ t \notin Backups
      /\ tool'[t].bundle = tool[t].bundle
      /\ tool[t].at \in RestoreOnly \cup {"window"} /\ tool'[t].at \in RestoreOnly \cup {"release"}
  BY RestoreTyped, RestoreEffect DEF WindowInv
<1>2. lock' = lock /\ (services' = services \/ start_restored(t))
  BY DEF RestoreStep, recheck, extract, check_target, drop_schema, load, restore_roles, move_out, move_in, undo,
         start_restored, host
<1>3. start_restored(t) => tool'[t].at = "release"
  BY <1>1, LeaveEffect, PointFacts DEF start_restored, Fails
<1>4. ToolInv(t)'
  BY <1>1, <1>2, <1>3, PointFacts DEF ToolInv, Busy, Frame
<1> QED
  BY <1>1, <1>2, <1>4, ToolWindow, PointFacts

LEMMA NextWindow == WindowInv /\ [Next]_vars => WindowInv'
<1>1. ASSUME WindowInv, UNCHANGED vars PROVE WindowInv'
  BY <1>1 DEF vars, host, state, WindowInv, HostTyped, StateTyped, ToolInv, Busy
<1> QED
  BY <1>1, WritersWindow, ControlWindow, BackupWindow, RestoreWindow DEF Next, ToolStep

LEMMA Window == Spec => []WindowInv
  BY InitWindow, NextWindow, PTL DEF Spec

(***************************************************************************)
(* Steps outside the window's own work leave the installation alone.       *)
(***************************************************************************)
LEMMA ControlEffect ==
    ASSUME WindowInv, NEW t \in Tools, begin(t) \/ WindowStep(t) \/ crash(t)
    PROVE  /\ Frame(t) /\ UNCHANGED <<schema, roles, root, kept, staged, bundles>>
           /\ tool'[t].dir = tool[t].dir /\ tool'[t].torn = tool[t].torn
           /\ \/ tool[t].at = "idle" /\ tool'[t].at \in {"timer", "ended"}
              \/ tool[t].at = "timer" /\ tool'[t].at \in {"lock", "ended"}
              \/ tool[t].at = "lock" /\ tool'[t].at \in {"stop", "ended"}
              \/ tool[t].at = "stop" /\ tool'[t].at \in {"window", "ended"}
              \/ tool[t].at = "restart" /\ tool'[t].at \in {"restart_timer", "release"}
              \/ tool[t].at = "restart_timer" /\ tool'[t].at = "release"
              \/ tool[t].at = "release" /\ tool'[t].at = "ended"
              \/ tool[t].at # "idle" /\ tool'[t].at = "dead"
           /\ crashes' = IF tool'[t].at = "dead" THEN crashes + 1 ELSE crashes
<1>0. ToolInv(t) /\ UNCHANGED <<schema, roles, root, kept, staged, bundles>>
  BY DEF WindowInv, WindowStep, begin, stop_timer, acquire, lock_timeout, stop_services, restart_services,
         restart_timer, release, crash, state
<1>1. CASE begin(t)
  BY <1>0, <1>1, BeginEffect
<1>2. CASE stop_timer(t)
  BY <1>0, <1>2, EndEffect, StopTimerEffect, PointFacts DEF stop_timer, At, Same, Own
<1>3. CASE acquire(t)
  BY <1>0, <1>3, GotoEffect, PointFacts DEF acquire, At, Same, Own
<1>4. CASE lock_timeout(t)
  BY <1>0, <1>4, EndEffect, PointFacts DEF lock_timeout, EnterFails, At, Same, Own
<1>5. CASE stop_services(t)
  BY <1>0, <1>5, EndEffect, StopEffect, PointFacts DEF stop_services, EnterFails, At, Same, Own
<1>6. CASE restart_services(t)
  <2>1. CASE Goto(t, "restart_timer")
    BY <1>0, <1>6, <2>1, GotoEffect, PointFacts DEF restart_services, At, Same, Own
  <2>2. CASE tool' = [tool EXCEPT ![t].at = "release", ![t].result = "restart_failed"]
    <3>1. Frame(t) /\ Same(t) /\ tool'[t].at = "release"
      BY <2>2, SetEffect, PointFacts
    <3> QED
      BY <1>0, <1>6, <3>1, SMTT(30) DEF restart_services, At, Same, Own
  <2> QED
    BY <1>6, <2>1, <2>2 DEF restart_services
<1>7. CASE restart_timer(t)
  <2>1. CASE Goto(t, "release")
    BY <1>0, <1>7, <2>1, GotoEffect, PointFacts DEF restart_timer, At, Same, Own
  <2>2. CASE tool' = [tool EXCEPT ![t].at = "release", ![t].result = "restart_failed"]
    <3>1. Frame(t) /\ Same(t) /\ tool'[t].at = "release"
      BY <2>2, SetEffect, PointFacts
    <3> QED
      BY <1>0, <1>7, <3>1 DEF restart_timer, At, Same, Own
  <2> QED
    BY <1>7, <2>1, <2>2 DEF restart_timer
<1>8. CASE release(t)
  BY <1>0, <1>8, GotoEffect, PointFacts DEF release, At, Same, Own
<1>9. CASE crash(t)
  BY <1>0, <1>9, GotoEffect, PointFacts DEF crash, Busy, Same, Own
<1> QED
  BY <1>1, <1>2, <1>3, <1>4, <1>5, <1>6, <1>7, <1>8, <1>9 DEF WindowStep

LEMMA PublishEffect ==
    ASSUME WindowInv, NEW t \in Tools, publish(t)
    PROVE  /\ UNCHANGED <<host, state, kept, staged, crashes>> /\ t \in Backups
           /\ tool[t].at = "publish" /\ Frame(t) /\ Same(t) /\ tool'[t].at = "restart"
           /\ bundles' = bundles \/ tool'[t].result = "saved"
           /\ \A b \in bundles' \ bundles :
                  b.sources = tool[t].bundle.sources /\ b.refs = schema.sources /\ b.refs \subseteq b.files
<1>1. t \in Backups /\ tool[t].at = "publish"
  BY PointFacts DEF publish, At, WindowInv, ToolInv
<1>2. Frame(t) /\ Same(t) /\ tool'[t].at = "restart"
  BY <1>1, LeaveEffect, PointFacts DEF publish, Fails
<1>3. bundles' = bundles \/ (Leave(t, "saved") /\ verify_bundle(tool[t].bundle.files, schema.sources)
           /\ bundles' = bundles \cup {[sources |-> tool[t].bundle.sources, runs |-> tool[t].bundle.runs,
                                       files |-> tool[t].bundle.files, refs |-> schema.sources]})
  BY DEF publish
<1>4. Leave(t, "saved") => tool'[t].result = "saved"
  BY LeaveEffect, PointFacts
<1> QED
  BY <1>1, <1>2, <1>3, <1>4 DEF publish, verify_bundle

(* Only the holder of the lock is in its window.                           *)
LEMMA OneInside ==
    ASSUME WindowInv, NEW t \in Tools, tool[t].at \in Held
    PROVE  lock = t /\ \A r \in Tools \ {t} : tool[r].at \notin Held
  BY DEF WindowInv, ToolInv

(***************************************************************************)
(* A published bundle is one moment: while its backup has the window no    *)
(* service adds a source and no other tool has the database.               *)
(***************************************************************************)
DumpInv(t) == tool[t].at \in {"archive", "publish"} => tool[t].bundle.sources = schema.sources

SnapshotInv == WindowInv /\ BundlesAreSnapshots /\ \A t \in Tools : DumpInv(t)

LEMMA NextSnapshot == SnapshotInv /\ [Next]_vars => SnapshotInv'
<1> SUFFICES ASSUME SnapshotInv, [Next]_vars PROVE SnapshotInv'
  OBVIOUS
<1>0. WindowInv /\ WindowInv' /\ BundlesAreSnapshots /\ \A t \in Tools : DumpInv(t)
  BY NextWindow DEF SnapshotInv
<1> SUFFICES BundlesAreSnapshots' /\ \A t \in Tools : DumpInv(t)'
  BY <1>0 DEF SnapshotInv
<1>1. CASE \E s \in Sources : register_secret(s) \/ register_row(s)
  <2>1. bundles' = bundles /\ tool' = tool /\ (schema' = schema \/ services # {})
    BY <1>1 DEF register_secret, register_row
  <2>2. \A t \in Tools : tool[t].at \in {"archive", "publish"} => services = {}
    BY <1>0, PointFacts DEF WindowInv, ToolInv
  <2> QED
    BY <1>0, <2>1, <2>2 DEF BundlesAreSnapshots, DumpInv
<1>2. CASE sync_begin \/ sync_end \/ UNCHANGED vars
  <2>1. bundles' = bundles /\ tool' = tool /\ schema'.sources = schema.sources
    BY <1>0, <1>2 DEF sync_begin, sync_end, vars, state, WindowInv, StateTyped
  <2> QED
    BY <1>0, <2>1 DEF BundlesAreSnapshots, DumpInv
<1>3. ASSUME NEW t \in Tools, begin(t) \/ WindowStep(t) \/ crash(t)
      PROVE  BundlesAreSnapshots' /\ \A r \in Tools : DumpInv(r)'
  BY <1>0, <1>3, ControlEffect DEF BundlesAreSnapshots, DumpInv, Frame
<1>4. ASSUME NEW t \in Tools, dump(t) \/ archive(t)
      PROVE  BundlesAreSnapshots' /\ \A r \in Tools : DumpInv(r)'
  BY <1>0, <1>4, DumpEffect, ArchiveEffect DEF BundlesAreSnapshots, DumpInv, Frame, state
<1>5. ASSUME NEW t \in Tools, publish(t)
      PROVE  BundlesAreSnapshots' /\ \A r \in Tools : DumpInv(r)'
  BY <1>0, <1>5, PublishEffect DEF BundlesAreSnapshots, DumpInv, Frame, state
<1>6. ASSUME NEW t \in Tools, RestoreStep(t)
      PROVE  BundlesAreSnapshots' /\ \A r \in Tools : DumpInv(r)'
  <2>1. bundles' = bundles
    BY <1>6 DEF RestoreStep, recheck, extract, check_target, drop_schema, load, restore_roles, move_out, move_in, undo,
                start_restored
  <2>2. tool[t].at \in Held /\ tool'[t].at \notin {"archive", "publish"} /\ Frame(t)
    BY <1>0, <1>6, RestoreEffect, PointFacts
  <2> QED
    BY <1>0, <2>1, <2>2, OneInside, PointFacts DEF BundlesAreSnapshots, DumpInv, Frame
<1> QED
  BY <1>1, <1>2, <1>3, <1>4, <1>5, <1>6 DEF Next, ToolStep, BackupStep

THEOREM Snapshots == Spec => []BundlesAreSnapshots
<1>1. Init => SnapshotInv
  BY InitWindow, BundleAssumption DEF Init, SnapshotInv, DumpInv, BundlesAreSnapshots, NewTool
<1> QED
  BY <1>1, NextSnapshot, PTL DEF Spec, SnapshotInv

(***************************************************************************)
(* The steps of a restore, directory by directory.                         *)
(***************************************************************************)
LEMMA WritersEffect ==
    ASSUME WindowInv, \/ \E s \in Sources : register_secret(s) \/ register_row(s)
                      \/ sync_begin \/ sync_end \/ UNCHANGED vars
    PROVE  /\ UNCHANGED <<timer, services, roles, kept, staged, bundles, tool, crashes>>
           /\ schema'.from = schema.from /\ \A d \in Dirs : root'[d].from = root[d].from
<1> USE DEF WindowInv, StateTyped, Contents, state, host, vars
<1>1. CASE \E s \in Sources : register_secret(s)
  BY <1>1 DEF register_secret
<1>2. CASE \E s \in Sources : register_row(s)
  BY <1>2 DEF register_row
<1>3. CASE sync_begin
  BY <1>3 DEF sync_begin
<1>4. CASE sync_end \/ UNCHANGED vars
  BY <1>4 DEF sync_end
<1> QED
  BY <1>1, <1>2, <1>3, <1>4

DirsFacts(t) ==
    /\ Dirs = {"config", "secrets"}
    /\ tool[t].dir = 1 => Dir(t) = "config"
    /\ tool[t].dir = 2 => Dir(t) = "secrets"
    /\ tool[t].dir \in {1, 2}

LEMMA DirsAreTwo == ASSUME WindowInv, NEW t \in Tools PROVE DirsFacts(t)
<1>1. tool[t].dir \in {1, 2}
  BY DEF WindowInv, ToolRecords
<1> QED
  BY <1>1 DEF DirsFacts, Dirs, Dir, STATE_DIRS

(* One directory of f[t] becomes c.                                        *)
Put(f, g, t, d, c) ==
    /\ DOMAIN g = Tools /\ g[t][d] = c
    /\ \A e \in Dirs \ {d} : g[t][e] = f[t][e]
    /\ \A r \in Tools \ {t} : g[r] = f[r]

LEMMA PutEffect ==
    ASSUME NEW f \in [Tools -> [Dirs -> Contents]], NEW t \in Tools, NEW d \in Dirs, NEW c
    PROVE  Put(f, [f EXCEPT ![t][d] = c], t, d, c)
  BY DEF Put

PutRoot(d, c) == root'[d] = c /\ \A e \in Dirs \ {d} : root'[e] = root[e]

LEMMA MoveOutEffect ==
    ASSUME WindowInv, NEW t \in Tools, move_out(t)
    PROVE  /\ UNCHANGED <<host, schema, roles, staged, bundles, crashes>> /\ tool[t].at = "move_out"
           /\ Frame(t) /\ tool'[t].dir = tool[t].dir /\ tool'[t].torn = tool[t].torn
           /\ \/ /\ tool'[t].at = "move_in"
                 /\ PutRoot(Dir(t), Absent) /\ Put(kept, kept', t, Dir(t), root[Dir(t)])
              \/ tool'[t].at = "undo" /\ UNCHANGED <<root, kept>>
<1>0. Dir(t) \in Dirs /\ root \in [Dirs -> Contents] /\ kept \in [Tools -> [Dirs -> Contents]]
  BY DirsAreTwo DEF DirsFacts, WindowInv, StateTyped
<1>1. CASE Goto(t, "move_in") /\ kept' = KeptAside(t) /\ root' = [root EXCEPT ![Dir(t)] = Absent]
  <2>1. Frame(t) /\ Same(t) /\ tool'[t].at = "move_in"
    BY <1>1, GotoEffect, PointFacts
  <2>2. PutRoot(Dir(t), Absent) /\ Put(kept, kept', t, Dir(t), root[Dir(t)])
    BY <1>0, <1>1, PutEffect DEF PutRoot, KeptAside
  <2> QED
    BY <2>1, <2>2 DEF move_out, At, Same, Own
<1>2. CASE Goto(t, "undo") /\ UNCHANGED <<root, kept>>
  <2>1. Frame(t) /\ Same(t) /\ tool'[t].at = "undo"
    BY <1>2, GotoEffect, PointFacts
  <2> QED
    BY <1>2, <2>1 DEF move_out, At, Same, Own
<1> QED
  BY <1>1, <1>2 DEF move_out

LEMMA MoveInEffect ==
    ASSUME WindowInv, NEW t \in Tools, move_in(t)
    PROVE  /\ UNCHANGED <<host, schema, roles, bundles, crashes>> /\ tool[t].at = "move_in" /\ Frame(t)
           /\ \/ /\ PutRoot(Dir(t), staged[t][Dir(t)]) /\ Put(staged, staged', t, Dir(t), Absent)
                 /\ tool'[t].torn = tool[t].torn /\ tool'[t].dir = 2
                 /\ \/ tool[t].dir = 1 /\ kept' = kept /\ tool'[t].at = "move_out"
                    \/ /\ tool[t].dir = 2 /\ kept'[t] = NoDirs /\ tool'[t].at = "start"
                       /\ \A r \in Tools \ {t} : kept'[r] = kept[r]
                    \/ tool[t].dir = 2 /\ kept' = kept /\ tool'[t].at = "release"
              \/ /\ PutRoot(Dir(t), kept[t][Dir(t)]) /\ Put(kept, kept', t, Dir(t), Absent)
                 /\ staged' = staged /\ tool'[t].at = "undo"
                 /\ tool'[t].dir = tool[t].dir /\ tool'[t].torn = tool[t].torn
              \/ /\ UNCHANGED <<root, kept, staged>> /\ tool'[t].at = "undo"
                 /\ tool'[t].dir = tool[t].dir /\ tool'[t].torn = TRUE
<1>0. /\ Dir(t) \in Dirs /\ root \in [Dirs -> Contents] /\ kept \in [Tools -> [Dirs -> Contents]]
      /\ staged \in [Tools -> [Dirs -> Contents]]
  BY DirsAreTwo DEF DirsFacts, WindowInv, StateTyped
<1>a. LastDir(t) <=> tool[t].dir = 2
  BY DEF LastDir, STATE_DIRS
<1>b. tool[t].dir \in {1, 2} /\ t \notin Backups /\ "move_out" \in Points /\ "undo" \in Points
      /\ tool[t].at = "move_in"
  BY DirsAreTwo, RestoreEffect, PointFacts DEF DirsFacts, RestoreStep, move_in, At
<1>1. CASE /\ root' = [root EXCEPT ![Dir(t)] = staged[t][Dir(t)]]
           /\ staged' = [staged EXCEPT ![t][Dir(t)] = Absent]
           /\ \/ /\ ~LastDir(t) /\ kept' = kept
                 /\ tool' = [tool EXCEPT ![t].at = "move_out", ![t].dir = @ + 1]
              \/ LastDir(t) /\ kept' = [kept EXCEPT ![t] = NoDirs] /\ Goto(t, "start")
              \/ LastDir(t) /\ kept' = kept /\ Fails(t)
  <2>1. PutRoot(Dir(t), staged[t][Dir(t)]) /\ Put(staged, staged', t, Dir(t), Absent)
    BY <1>0, <1>1, PutEffect DEF PutRoot
  <2>2. CASE ~LastDir(t) /\ kept' = kept /\ tool' = [tool EXCEPT ![t].at = "move_out", ![t].dir = @ + 1]
    <3>1. tool[t].dir = 1
      BY <1>a, <1>b, <2>2
    <3>2. tool' = [tool EXCEPT ![t].at = "move_out", ![t].dir = 2]
      BY <2>2, <3>1
    <3>3. Frame(t) /\ tool'[t].at = "move_out" /\ tool'[t].dir = 2 /\ tool'[t].torn = tool[t].torn
      BY <1>b, <3>2, DirEffect
    <3> QED
      BY <1>b, <2>1, <2>2, <3>1, <3>3 DEF move_in
  <2>3. CASE LastDir(t) /\ kept' = [kept EXCEPT ![t] = NoDirs] /\ Goto(t, "start")
    <3>1. Frame(t) /\ Same(t) /\ tool'[t].at = "start"
      BY <2>3, GotoEffect, PointFacts
    <3>2. kept'[t] = NoDirs /\ \A r \in Tools \ {t} : kept'[r] = kept[r]
      BY <1>0, <2>3
    <3> QED
      BY <1>a, <1>b, <2>1, <2>3, <3>1, <3>2 DEF move_in, Same, Own
  <2>4. CASE LastDir(t) /\ kept' = kept /\ Fails(t)
    <3>1. Frame(t) /\ Same(t) /\ tool'[t].at = "release"
      BY <1>b, <2>4, LeaveEffect, PointFacts DEF Fails
    <3> QED
      BY <1>a, <1>b, <2>1, <2>4, <3>1 DEF move_in, Same, Own
  <2> QED
    BY <1>1, <2>2, <2>3, <2>4
<1>2. CASE PutBack(t, Dir(t)) /\ Goto(t, "undo") /\ staged' = staged
  <2>1. PutRoot(Dir(t), kept[t][Dir(t)]) /\ Put(kept, kept', t, Dir(t), Absent)
    BY <1>0, <1>2, PutEffect DEF PutRoot, PutBack
  <2>2. Frame(t) /\ Same(t) /\ tool'[t].at = "undo"
    BY <1>2, GotoEffect, PointFacts
  <2> QED
    BY <1>b, <1>2, <2>1, <2>2 DEF move_in, Same, Own
<1>3. CASE tool' = [tool EXCEPT ![t].at = "undo", ![t].torn = TRUE] /\ UNCHANGED <<root, kept, staged>>
  <2>1. Frame(t) /\ tool'[t].at = "undo" /\ tool'[t].torn = TRUE /\ tool'[t].dir = tool[t].dir
    BY <1>b, <1>3, TornEffect
  <2> QED
    BY <1>b, <1>3, <2>1 DEF move_in
<1> QED
  BY <1>1, <1>2, <1>3 DEF move_in

LEMMA UndoEffect ==
    ASSUME WindowInv, NEW t \in Tools, undo(t)
    PROVE  /\ UNCHANGED <<host, schema, roles, bundles, crashes>> /\ tool[t].at = "undo" /\ Frame(t)
           /\ tool'[t].at = "release" /\ tool'[t].dir = tool[t].dir
           /\ \/ tool[t].dir = 1 /\ UNCHANGED <<root, kept, staged>> /\ tool'[t].torn = tool[t].torn
              \/ /\ tool[t].dir = 2 /\ tool'[t].torn = tool[t].torn
                 /\ PutRoot("config", kept[t]["config"]) /\ Put(kept, kept', t, "config", Absent)
                 /\ Put(staged, staged', t, "config", root["config"])
              \/ /\ tool[t].dir = 2 /\ tool'[t].torn = TRUE /\ kept' = kept
                 /\ \/ UNCHANGED <<root, staged>>
                    \/ PutRoot("config", Absent) /\ Put(staged, staged', t, "config", root["config"])
<1>0. /\ "config" \in Dirs /\ root \in [Dirs -> Contents] /\ kept \in [Tools -> [Dirs -> Contents]]
      /\ staged \in [Tools -> [Dirs -> Contents]]
  BY DEF Dirs, WindowInv, StateTyped
<1>b. t \notin Backups /\ "release" \in Points /\ tool[t].at = "undo"
  BY RestoreEffect, PointFacts DEF RestoreStep, undo, At
<1>c. Fails(t) => Frame(t) /\ Same(t) /\ tool'[t].at = "release"
  BY <1>b, LeaveEffect, PointFacts DEF Fails
<1>1. CASE tool[t].dir = 1 /\ Fails(t) /\ UNCHANGED <<root, kept, staged>>
  BY <1>b, <1>c, <1>1 DEF undo, Same, Own
<1>2. CASE /\ tool[t].dir = 2 /\ staged' = [staged EXCEPT ![t]["config"] = root["config"]]
           /\ PutBack(t, "config") /\ Fails(t)
  <2>1. /\ PutRoot("config", kept[t]["config"]) /\ Put(kept, kept', t, "config", Absent)
        /\ Put(staged, staged', t, "config", root["config"])
    BY <1>0, <1>2, PutEffect DEF PutRoot, PutBack
  <2> QED
    BY <1>b, <1>c, <1>2, <2>1 DEF undo, Same, Own
<1>3. CASE /\ tool[t].dir = 2 /\ kept' = kept
           /\ tool' = [tool EXCEPT ![t].at = "release", ![t].result = "failed", ![t].torn = TRUE]
           /\ \/ UNCHANGED <<root, staged>>
              \/ /\ staged' = [staged EXCEPT ![t]["config"] = root["config"]]
                 /\ root' = [root EXCEPT !["config"] = Absent]
  <2>1. \/ UNCHANGED <<root, staged>>
        \/ PutRoot("config", Absent) /\ Put(staged, staged', t, "config", root["config"])
    <3>1. ASSUME root' = [root EXCEPT !["config"] = Absent],
                 staged' = [staged EXCEPT ![t]["config"] = root["config"]]
          PROVE  PutRoot("config", Absent) /\ Put(staged, staged', t, "config", root["config"])
      BY <1>0, <3>1, PutEffect DEF PutRoot
    <3> QED
      BY <1>3, <3>1
  <2>2. Frame(t) /\ tool'[t].at = "release" /\ tool'[t].torn = TRUE /\ tool'[t].dir = tool[t].dir
    <3>1. tool' = [tool EXCEPT ![t].at = "release", ![t].result = "failed", ![t].torn = TRUE]
      BY <1>3
    <3> QED
      BY <1>b, <3>1, TornEffect
  <2> QED
    BY <1>b, <1>3, <2>1, <2>2 DEF undo
<1> QED
  BY <1>1, <1>2, <1>3 DEF undo, Undo

(***************************************************************************)
(* How far a restore is.                                                   *)
(***************************************************************************)
Fresh == {"idle", "timer", "lock", "stop", "window", "extract", "drop", "dropping", "load", "roles"}

Publication == {"move_out", "move_in", "undo"}

RestoreInv(t) ==
    LET at == tool[t].at
        dir == tool[t].dir
    IN  /\ at \in Fresh \/ (at = "move_out" /\ dir = 1) => kept[t] = NoDirs /\ dir = 1
        /\ at \in {"drop", "dropping", "load", "roles"} \/ (at \in {"move_out", "move_in"} /\ dir = 1) =>
               \A d \in Dirs : staged[t][d].from = "bundle"
        /\ at = "dropping" => StillEmpty
        /\ at = "load" => schema.from = "none"
        /\ at \in {"roles", "move_out", "move_in", "start"} => schema.from = "bundle"
        /\ at \in {"move_out", "move_in", "start"} => roles = "bundle"
        /\ at = "move_in" => root[Dir(t)].from = "none" /\ (dir = 1 => kept[t]["secrets"] = Absent)
        /\ at = "move_out" /\ dir = 2 => kept[t]["secrets"] = Absent
        /\ at \in Publication /\ dir = 2 =>
               /\ root["config"].from = "bundle"
               /\ staged[t]["config"] = Absent /\ staged[t]["secrets"].from = "bundle"
        /\ at = "start" => \A d \in Dirs : root[d].from = "bundle"

ProgressInv == WindowInv /\ \A t \in Tools : RestoreInv(t)

(* A tool outside the window has no say in the installation.               *)
LEMMA OthersProgress ==
    ASSUME WindowInv, NEW t \in Tools, NEW r \in Tools \ {t}, RestoreInv(r), Frame(t), kept'[r] = kept[r],
           tool[t].at \in Held
    PROVE  RestoreInv(r)'
<1>1. tool'[r] = tool[r] /\ tool[r].at \notin Held
  BY OneInside DEF Frame
<1> QED
  BY <1>1, PointFacts DEF RestoreInv, Fresh, Publication

LEMMA AbsentFacts == Absent.from = "none" /\ NoDirs["config"] = Absent /\ NoDirs["secrets"] = Absent
  BY DEF Absent, Content, NoDirs, Dirs

LEMMA NextProgress == ProgressInv /\ [Next]_vars => ProgressInv'
<1> SUFFICES ASSUME ProgressInv, [Next]_vars PROVE ProgressInv'
  OBVIOUS
<1>0. WindowInv /\ WindowInv' /\ \A t \in Tools : RestoreInv(t) /\ DirsFacts(t)
  BY NextWindow, DirsAreTwo DEF ProgressInv
<1> SUFFICES \A t \in Tools : RestoreInv(t)'
  BY <1>0 DEF ProgressInv
<1>1. CASE \/ \E s \in Sources : register_secret(s) \/ register_row(s)
           \/ sync_begin \/ sync_end \/ UNCHANGED vars
  <2>1. ASSUME NEW t \in Tools, tool[t].at = "dropping" PROVE schema' = schema
    <3>1. services = {} /\ lock = t
      BY <1>0, <2>1, PointFacts DEF WindowInv, ToolInv
    <3> QED
      BY <1>1, <3>1, NoToolIsFree DEF register_secret, register_row, sync_begin, sync_end, vars, state
  <2> QED
    BY <1>0, <1>1, <2>1, WritersEffect DEF RestoreInv, StillEmpty, Dir, DirsFacts
<1>2. ASSUME NEW t \in Tools, begin(t) \/ WindowStep(t) \/ crash(t), NEW r \in Tools
      PROVE  RestoreInv(r)'
  BY <1>0, <1>2, ControlEffect DEF RestoreInv, StillEmpty, Dir, Frame, Fresh, Publication
<1>3. ASSUME NEW t \in Tools, BackupStep(t), NEW r \in Tools
      PROVE  RestoreInv(r)'
  <2>1. UNCHANGED <<host, state, kept, staged>>
    BY <1>3 DEF BackupStep, dump, archive, publish
  <2>2. tool'[t].at \in {"archive", "publish", "restart"} /\ tool'[t].dir = tool[t].dir /\ Frame(t)
    BY <1>0, <1>3, DumpEffect, ArchiveEffect, PublishEffect DEF BackupStep, Same, Own
  <2> QED
    BY <1>0, <2>1, <2>2 DEF RestoreInv, StillEmpty, Dir, Frame, Fresh, Publication, state
<1>4. ASSUME NEW t \in Tools, RestoreStep(t), NEW r \in Tools
      PROVE  RestoreInv(r)'
  <2>1. /\ Frame(t) /\ tool[t].at \in RestoreOnly \cup {"window"} /\ tool[t].at \in Held
        /\ tool'[t].at \in RestoreOnly \cup {"release"}
        /\ tool[t].at # "move_in" => tool'[t].dir = tool[t].dir
        /\ t \in Restores /\ t \notin Backups
    BY <1>0, <1>4, RestoreEffect, PointFacts
  <2>a. RestoreInv(t) /\ DirsFacts(t)
    BY <1>0
  <2>b. Fails(t) \/ Leave(t, "restored") => tool'[t].at = "release"
    BY <1>0, <2>1, LeaveEffect, PointFacts DEF Fails
  <2>c. \A at \in RestoreOnly : Goto(t, at) => tool'[t].at = at
    BY <1>0, GotoEffect, PointFacts
  <2>d. "release" \notin Fresh \cup Publication
    BY DEF Fresh, Publication
  <2>2. kept' = kept \/ \A q \in Tools \ {t} : kept'[q] = kept[q]
    BY <1>0, <1>4, MoveOutEffect, MoveInEffect, UndoEffect
       DEF RestoreStep, recheck, extract, check_target, drop_schema, load, restore_roles, start_restored, Put
  <2>3. ASSUME r # t PROVE RestoreInv(r)'
    BY <1>0, <2>1, <2>2, <2>3, OthersProgress
  <2>4. ASSUME recheck(t) \/ start_restored(t) PROVE RestoreInv(t)'
    <3>1. /\ UNCHANGED <<schema, roles, root, kept, staged>> /\ tool'[t].at \in {"extract", "release"}
          /\ tool[t].at \in {"window", "start"} /\ (tool'[t].at = "extract" => tool[t].at = "window")
      BY <2>b, <2>c, <2>4, PointFacts DEF recheck, start_restored, At, state
    <3> QED
      BY <2>1, <2>a, <3>1 DEF RestoreInv, Fresh, Publication
  <2>5. ASSUME extract(t) PROVE RestoreInv(t)'
    <3>1. UNCHANGED <<schema, roles, root, kept>> /\ tool'[t].at \in {"drop", "release"} /\ tool[t].at = "extract"
      BY <2>b, <2>c, <2>5, PointFacts DEF extract, At, state
    <3>2. tool'[t].at = "drop" => \A d \in Dirs : staged'[t][d].from = "bundle"
      BY <1>0, <2>b, <2>5 DEF extract, WindowInv, StateTyped, Content
    <3> QED
      BY <2>1, <2>a, <3>1, <3>2 DEF RestoreInv, Fresh, Publication
  <2>6. ASSUME drop_schema(t) PROVE RestoreInv(t)'
    <3>1. UNCHANGED <<roles, root, kept, staged>> /\ tool'[t].at \in {"load", "release"} /\ tool[t].at = "dropping"
      BY <2>b, <2>c, <2>6, PointFacts DEF drop_schema, At
    <3>2. tool'[t].at = "load" => schema'.from = "none"
      BY <2>b, <2>6 DEF drop_schema, Database
    <3> QED
      BY <2>1, <2>a, <3>1, <3>2 DEF RestoreInv, Fresh, Publication
  <2>12. ASSUME check_target(t) PROVE RestoreInv(t)'
    <3>1. /\ UNCHANGED <<schema, roles, root, kept, staged>> /\ tool[t].at = "drop"
          /\ tool'[t].at = "release" \/ (tool'[t].at = "dropping" /\ StillEmpty)
      BY <2>b, <2>c, <2>12, PointFacts DEF check_target, At, state
    <3> QED
      BY <2>1, <2>a, <3>1 DEF RestoreInv, StillEmpty, Fresh, Publication
  <2>7. ASSUME load(t) PROVE RestoreInv(t)'
    <3>1. UNCHANGED <<roles, root, kept, staged>> /\ tool'[t].at \in {"roles", "release"} /\ tool[t].at = "load"
      BY <2>b, <2>c, <2>7, PointFacts DEF load, At
    <3>2. tool'[t].at = "roles" => schema'.from = "bundle"
      BY <2>b, <2>7 DEF load, Database
    <3> QED
      BY <2>1, <2>a, <3>1, <3>2 DEF RestoreInv, Fresh, Publication
  <2>8. ASSUME restore_roles(t) PROVE RestoreInv(t)'
    <3>1. UNCHANGED <<schema, root, kept, staged>> /\ tool'[t].at \in {"move_out", "release"} /\ tool[t].at = "roles"
      BY <2>b, <2>c, <2>8, PointFacts DEF restore_roles, At
    <3>2. tool'[t].at = "move_out" => roles' = "bundle"
      BY <2>b, <2>8 DEF restore_roles
    <3> QED
      BY <2>1, <2>a, <3>1, <3>2 DEF RestoreInv, Fresh, Publication
  <2>9. ASSUME move_out(t) PROVE RestoreInv(t)'
    BY <1>0, <2>1, <2>a, <2>9, MoveOutEffect, AbsentFacts
       DEF RestoreInv, DirsFacts, Fresh, Publication, Put, PutRoot, Dir
  <2>10. ASSUME move_in(t) PROVE RestoreInv(t)'
    <3>0. /\ schema' = schema /\ roles' = roles /\ tool[t].at = "move_in"
          /\ schema.from = "bundle" /\ roles = "bundle"
      BY <1>0, <2>a, <2>10, MoveInEffect DEF RestoreInv
    <3>1. CASE tool[t].dir = 1 /\ tool'[t].at = "move_out"
      <4>1. /\ tool'[t].dir = 2 /\ kept'[t]["secrets"] = Absent /\ root'["config"].from = "bundle"
            /\ staged'[t]["config"] = Absent /\ staged'[t]["secrets"].from = "bundle"
        <5>1. /\ PutRoot("config", staged[t]["config"]) /\ Put(staged, staged', t, "config", Absent)
              /\ tool'[t].dir = 2 /\ kept' = kept
          BY <1>0, <2>a, <2>10, <3>1, MoveInEffect DEF DirsFacts
        <5>2. /\ kept[t]["secrets"] = Absent
              /\ staged[t]["config"].from = "bundle" /\ staged[t]["secrets"].from = "bundle"
          BY <2>a, <3>0, <3>1 DEF RestoreInv, DirsFacts
        <5> QED
          BY <5>1, <5>2 DEF Put, PutRoot, Dirs
      <4> QED
        BY <3>0, <3>1, <4>1 DEF RestoreInv, Fresh, Publication
    <3>2. CASE tool[t].dir = 2 /\ tool'[t].at = "start"
      <4>1. \A d \in Dirs : root'[d].from = "bundle"
        <5>1. PutRoot("secrets", staged[t]["secrets"])
          BY <1>0, <2>a, <2>10, <3>2, MoveInEffect DEF DirsFacts
        <5>2. root["config"].from = "bundle" /\ staged[t]["secrets"].from = "bundle"
          BY <2>a, <3>0, <3>2 DEF RestoreInv, Publication
        <5> QED
          BY <5>1, <5>2 DEF PutRoot, Dirs
      <4> QED
        BY <3>0, <3>2, <4>1 DEF RestoreInv, Fresh, Publication
    <3>3. CASE tool'[t].at = "undo"
      <4>1. tool'[t].dir = tool[t].dir /\ staged' = staged /\ (tool[t].dir = 2 => root'["config"] = root["config"])
        BY <1>0, <2>a, <2>10, <3>0, <3>3, MoveInEffect, ZenonT(60) DEF DirsFacts, PutRoot
      <4> QED
        BY <2>a, <3>0, <3>3, <4>1 DEF RestoreInv, Fresh, Publication
    <3>4. CASE tool'[t].at = "release"
      BY <3>4 DEF RestoreInv, Fresh, Publication
    <3> QED
      BY <1>0, <2>10, <3>1, <3>2, <3>3, <3>4, MoveInEffect
  <2>11. ASSUME undo(t) PROVE RestoreInv(t)'
    BY <1>0, <2>1, <2>a, <2>11, UndoEffect DEF RestoreInv, Fresh, Publication
  <2> QED
    BY <1>4, <2>3, <2>4, <2>5, <2>6, <2>7, <2>8, <2>9, <2>10, <2>11, <2>12 DEF RestoreStep
<1> QED
  BY <1>1, <1>2, <1>3, <1>4 DEF Next, ToolStep

LEMMA InitProgress == Init => ProgressInv
  BY InitWindow DEF Init, ProgressInv, RestoreInv, NewTool, Publication

LEMMA Progress == Spec => []ProgressInv
  BY InitProgress, NextProgress, PTL DEF Spec

(***************************************************************************)
(* The tables of a host that has a source or a run are never replaced: a   *)
(* restore loads only into a dropped schema, and drops only one that it    *)
(* found empty and that nobody has written to since: the check and the     *)
(* DROP are two commands, between which the lock keeps synchronizations    *)
(* and other tools out and no service runs that could register a source.   *)
(***************************************************************************)
THEOREM DataKept == Spec => RestoreKeepsData
<1> DEFINE A == schema'.from # schema.from /\ schema.from = "host" => schema.sources = {} /\ schema.runs = 0
<1>1. ProgressInv /\ [Next]_vars => [A]_vars
  <2> SUFFICES ASSUME ProgressInv, [Next]_vars PROVE A
    OBVIOUS
  <2>0. WindowInv /\ \A t \in Tools : RestoreInv(t)
    BY DEF ProgressInv
  <2>1. CASE \/ \E s \in Sources : register_secret(s) \/ register_row(s)
             \/ sync_begin \/ sync_end \/ UNCHANGED vars
    BY <2>0, <2>1, WritersEffect
  <2>2. ASSUME NEW t \in Tools, begin(t) \/ WindowStep(t) \/ crash(t) PROVE A
    BY <2>0, <2>2, ControlEffect
  <2>3. ASSUME NEW t \in Tools, BackupStep(t) PROVE A
    BY <2>3 DEF BackupStep, dump, archive, publish, state
  <2>4. ASSUME NEW t \in Tools, RestoreStep(t) PROVE A
    <3>1. schema' = schema \/ drop_schema(t) \/ load(t)
      BY <2>4 DEF RestoreStep, recheck, extract, check_target, restore_roles, move_out, move_in, undo, start_restored, state
    <3>2. CASE drop_schema(t)
      BY <2>0, <3>2 DEF drop_schema, At, RestoreInv, StillEmpty
    <3>3. CASE load(t)
      BY <2>0, <3>3 DEF load, At, RestoreInv
    <3> QED
      BY <3>1, <3>2, <3>3
  <2> QED
    BY <2>1, <2>2, <2>3, <2>4 DEF Next, ToolStep
<1> QED
  BY <1>1, Progress, PTL DEF Spec, RestoreKeepsData

(***************************************************************************)
(* Services and timer.                                                     *)
(***************************************************************************)
LEMMA HostEffect ==
    ASSUME WindowInv, NEW t \in Tools, begin(t) \/ WindowStep(t) \/ crash(t)
    PROVE  /\ timer' => timer \/ t \in Backups
           /\ tool'[t].at = "lock" => timer' = FALSE
           /\ tool'[t].at = "window" => tool'[t].running = services /\ services' = {}
           /\ \/ services' \subseteq services
              \/ tool[t].at = "restart" /\ services' \subseteq services \cup tool[t].running
<1>0. ToolInv(t)
  BY DEF WindowInv
<1>1. CASE begin(t)
  BY <1>1, BeginEffect DEF host
<1>2. CASE stop_timer(t)
  BY <1>2, EndEffect, StopTimerEffect, PointFacts DEF stop_timer
<1>3. CASE acquire(t)
  BY <1>3, GotoEffect, PointFacts DEF acquire
<1>4. CASE lock_timeout(t)
  BY <1>4, EndEffect, PointFacts DEF lock_timeout, EnterFails, RestoreAfter
<1>5. CASE stop_services(t)
  BY <1>5, EndEffect, StopEffect, PointFacts DEF stop_services, EnterFails, RestoreAfter, Stopped
<1>6. CASE restart_services(t)
  <2>1. tool'[t].at \in {"restart_timer", "release", "dead"}
    BY <1>6, ControlEffect DEF WindowStep, restart_services, At
  <2> QED
    BY <1>6, <2>1 DEF restart_services, At
<1>7. CASE restart_timer(t)
  <2>1. t \in Backups /\ tool'[t].at \in {"release", "dead"}
    BY <1>0, <1>7, ControlEffect, PointFacts DEF WindowStep, restart_timer, At, ToolInv
  <2> QED
    BY <1>7, <2>1 DEF restart_timer
<1>8. CASE release(t)
  BY <1>8, GotoEffect, PointFacts DEF release
<1>9. CASE crash(t)
  BY <1>9, GotoEffect, PointFacts DEF crash
<1> QED
  BY <1>1, <1>2, <1>3, <1>4, <1>5, <1>6, <1>7, <1>8, <1>9 DEF WindowStep

WholeInv(t) ==
    tool[t].at \in {"window", "archive", "publish", "restart"} /\ tool[t].running # {} => Whole

ServicesInv == ProgressInv /\ ServicesNeedWholeState /\ \A t \in Tools : WholeInv(t)

LEMMA NextServices == ServicesInv /\ [Next]_vars => ServicesInv'
<1> SUFFICES ASSUME ServicesInv, [Next]_vars PROVE ServicesInv'
  OBVIOUS
<1>0. /\ ProgressInv /\ ProgressInv' /\ ServicesNeedWholeState /\ \A t \in Tools : WholeInv(t)
      /\ WindowInv /\ \A t \in Tools : RestoreInv(t)
  BY NextProgress DEF ServicesInv, ProgressInv
<1> SUFFICES ServicesNeedWholeState' /\ \A t \in Tools : WholeInv(t)'
  BY <1>0 DEF ServicesInv
<1>1. CASE \/ \E s \in Sources : register_secret(s) \/ register_row(s)
           \/ sync_begin \/ sync_end \/ UNCHANGED vars
  BY <1>0, <1>1, WritersEffect DEF ServicesNeedWholeState, WholeInv, Whole
<1>2. ASSUME NEW t \in Tools, begin(t) \/ WindowStep(t) \/ crash(t)
      PROVE  ServicesNeedWholeState' /\ \A r \in Tools : WholeInv(r)'
  <2>1. Whole' = Whole
    BY <1>0, <1>2, ControlEffect DEF Whole
  <2>2. services' # {} => Whole
    BY <1>0, <1>2, HostEffect DEF ServicesNeedWholeState, WholeInv
  <2>3. WholeInv(t)'
    BY <1>0, <1>2, <2>1, ControlEffect, HostEffect DEF ServicesNeedWholeState, WholeInv
  <2> QED
    BY <1>0, <1>2, <2>1, <2>2, <2>3, ControlEffect DEF ServicesNeedWholeState, WholeInv, Frame
<1>3. ASSUME NEW t \in Tools, BackupStep(t)
      PROVE  ServicesNeedWholeState' /\ \A r \in Tools : WholeInv(r)'
  <2>1. UNCHANGED <<services, schema, roles, root>>
    BY <1>3 DEF BackupStep, dump, archive, publish, host, state
  <2>2. Frame(t) /\ Own(t) /\ tool[t].at \in {"window", "archive", "publish"}
    BY <1>0, <1>3, DumpEffect, ArchiveEffect, PublishEffect DEF BackupStep, Same
  <2> QED
    BY <1>0, <2>1, <2>2 DEF ServicesNeedWholeState, WholeInv, Whole, Frame, Own
<1>4. ASSUME NEW t \in Tools, RestoreStep(t)
      PROVE  ServicesNeedWholeState' /\ \A r \in Tools : WholeInv(r)'
  <2>1. /\ Frame(t) /\ tool[t].at \in Held /\ tool[t].at \in Silent
        /\ tool'[t].at \in RestoreOnly \cup {"release"}
    BY <1>0, <1>4, RestoreEffect, PointFacts
  <2>2. \A r \in Tools : tool'[r].at \notin {"window", "archive", "publish", "restart"}
    BY <1>0, <2>1, OneInside, PointFacts DEF Frame
  <2>3. CASE start_restored(t)
    BY <1>0, <2>2, <2>3 DEF start_restored, At, state, RestoreInv, ServicesNeedWholeState, Whole, WholeInv
  <2>4. CASE ~start_restored(t)
    <3>1. services' = services
      BY <1>4, <2>4 DEF RestoreStep, recheck, extract, check_target, drop_schema, load, restore_roles, move_out, move_in, undo, host
    <3> QED
      BY <1>0, <2>1, <2>2, <3>1 DEF ServicesNeedWholeState, WholeInv, WindowInv, ToolInv
  <2> QED
    BY <2>3, <2>4
<1> QED
  BY <1>1, <1>2, <1>3, <1>4 DEF Next, ToolStep

(***************************************************************************)
(* No service runs on a half-restored installation, whatever fails, is     *)
(* killed or overlaps.  A backup starts again only what it found running,  *)
(* and it found that on a whole state that nobody has touched since.       *)
(***************************************************************************)
THEOREM ServicesOnWholeState == Spec => []ServicesNeedWholeState
<1>1. Init => ServicesInv
  BY InitProgress DEF Init, ServicesInv, ServicesNeedWholeState, Whole, WholeInv, NewTool, Database, Content
<1> QED
  BY <1>1, NextServices, PTL DEF Spec, ServicesInv

(***************************************************************************)
(* The timer.  Unless a backup that found the timer active has overlapped  *)
(* a restore, a restore past the first step of its window keeps it         *)
(* stopped, and on a half-restored installation no backup at work would    *)
(* start it.                                                               *)
(***************************************************************************)
Excused == \E b \in Backups, r \in Restores : Overlapped(b, r) /\ tool[b].timer

MetInv == \A b \in Backups, r \in Restores : Busy(b) /\ Busy(r) => Overlapped(b, r)

FlagInv ==
    \A t \in Tools : /\ tool[t].at \in {"idle", "timer"} => tool[t].timer = FALSE
                     /\ tool[t].at = "idle" => tool[t].met = {}

StoppedInv ==
    /\ timer => Whole
    /\ \A r \in Restores : tool[r].at \in Held \cup {"lock"} => timer = FALSE
    /\ ~Whole => \A b \in Backups : Busy(b) => tool[b].timer = FALSE

TimerInv == WindowInv /\ MetInv /\ FlagInv /\ (Excused \/ StoppedInv)

LEMMA ControlTimer ==
    ASSUME WindowInv, NEW t \in Tools, begin(t) \/ WindowStep(t) \/ crash(t)
    PROVE  /\ \/ tool'[t].met = tool[t].met /\ tool'[t].at # "timer"
              \/ /\ tool[t].at = "idle" /\ tool'[t].at = "timer"
                 /\ tool'[t].met = {r \in Tools : Busy(r)}
           /\ \/ tool'[t].timer = tool[t].timer
              \/ tool[t].at = "timer" /\ tool'[t].at = "lock" /\ tool'[t].timer = timer
           /\ \/ timer' = timer \/ timer' = FALSE
              \/ t \in Backups /\ tool[t].timer = TRUE /\ Busy(t)
           /\ tool'[t].at = "lock" => timer' = FALSE
<1>0. ToolInv(t) /\ tool[t].timer \in BOOLEAN /\ timer \in BOOLEAN
  BY DEF WindowInv, HostTyped, ToolRecords
<1>1. CASE begin(t)
  BY <1>1, BeginEffect DEF host
<1>2. CASE stop_timer(t)
  BY <1>2, EndEffect, StopTimerEffect, PointFacts DEF stop_timer, At, Same, Own
<1>3. CASE acquire(t)
  BY <1>3, GotoEffect, PointFacts DEF acquire, Same, Own
<1>a. ASSUME EnterFails(t), tool[t].at \in {"lock", "stop"}
      PROVE  /\ tool'[t].met = tool[t].met /\ tool'[t].timer = tool[t].timer /\ tool'[t].at = "ended"
             /\ timer' = timer \/ (t \in Backups /\ tool[t].timer = TRUE /\ Busy(t))
  <2>1. End(t, "failed") \/ End(t, "restart_failed")
    BY <1>a DEF EnterFails
  <2>2. /\ tool'[t].met = tool[t].met /\ tool'[t].timer = tool[t].timer /\ tool'[t].at = "ended"
    BY <2>1, EndEffect, PointFacts DEF Same, Own
  <2> QED
    BY <1>0, <1>a, <2>2 DEF EnterFails, RestoreAfter, Busy
<1>4. CASE lock_timeout(t)
  BY <1>4, <1>a DEF lock_timeout, At
<1>5. CASE stop_services(t)
  <2>1. CASE EnterFails(t)
    BY <1>5, <1>a, <2>1 DEF stop_services, At
  <2>2. CASE tool' = [tool EXCEPT ![t].at = "window", ![t].running = services] /\ UNCHANGED <<timer, lock>>
    BY <2>2, StopEffect
  <2> QED
    BY <1>5, <2>1, <2>2 DEF stop_services
<1>6. CASE restart_services(t)
  <2>1. CASE Goto(t, "restart_timer")
    BY <1>6, <2>1, GotoEffect, PointFacts DEF restart_services, Same, Own
  <2>2. CASE tool' = [tool EXCEPT ![t].at = "release", ![t].result = "restart_failed"]
    <3>1. Same(t) /\ tool'[t].at = "release"
      BY <2>2, SetEffect, PointFacts
    <3> QED
      BY <1>6, <3>1, SMTT(30) DEF restart_services, Same, Own
  <2> QED
    BY <1>6, <2>1, <2>2 DEF restart_services
<1>7. CASE restart_timer(t)
  <2>0. t \in Backups /\ Busy(t)
    BY <1>0, <1>7, PointFacts DEF restart_timer, At, ToolInv, Busy
  <2>1. CASE timer' = TimerAfter(t) /\ Goto(t, "release")
    <3>1. Same(t) /\ tool'[t].at = "release"
      BY <2>1, GotoEffect, PointFacts
    <3> QED
      BY <1>0, <2>0, <2>1, <3>1 DEF TimerAfter, Same, Own
  <2>2. CASE tool' = [tool EXCEPT ![t].at = "release", ![t].result = "restart_failed"] /\ timer' = timer
    <3>1. Same(t) /\ tool'[t].at = "release"
      BY <2>2, SetEffect, PointFacts
    <3> QED
      BY <2>2, <3>1, SMTT(30) DEF Same, Own
  <2> QED
    BY <1>7, <2>1, <2>2 DEF restart_timer
<1>8. CASE release(t)
  BY <1>8, GotoEffect, PointFacts DEF release, Same, Own
<1>9. CASE crash(t)
  BY <1>9, GotoEffect, PointFacts DEF crash, Same, Own
<1> QED
  BY <1>1, <1>2, <1>3, <1>4, <1>5, <1>6, <1>7, <1>8, <1>9 DEF WindowStep

(* Steps that change neither the timer nor what a tool knows of it.        *)
LEMMA SameTimer ==
    ASSUME TimerInv, WindowInv', timer' = timer, Whole' = Whole,
           \A t \in Tools : /\ tool'[t].met = tool[t].met
                            /\ t \in Backups \/ tool'[t].at = tool[t].at => tool'[t].timer = tool[t].timer
                            /\ Busy(t)' => Busy(t)
                            /\ tool'[t].at \in {"idle", "timer"} => tool'[t].at = tool[t].at
                            /\ tool'[t].at \in Held \cup {"lock"} => tool[t].at \in Held \cup {"lock"}
    PROVE  TimerInv'
<1>0. Backups \subseteq Tools /\ Restores \subseteq Tools
  BY DEF Tools
<1>1. FlagInv'
  BY DEF TimerInv, FlagInv
<1>2. \A b \in Backups, r \in Restores : Overlapped(b, r)' <=> Overlapped(b, r)
  BY <1>0 DEF Overlapped
<1>3. MetInv'
  BY <1>0, <1>2 DEF TimerInv, MetInv
<1>4. Excused => Excused'
  BY <1>0, <1>2 DEF Excused
<1>5. StoppedInv => StoppedInv'
  BY <1>0 DEF StoppedInv
<1> QED
  BY <1>1, <1>3, <1>4, <1>5 DEF TimerInv

LEMMA ControlTimerKept ==
    ASSUME TimerInv, WindowInv', NEW t \in Tools, begin(t) \/ WindowStep(t) \/ crash(t)
    PROVE  TimerInv'
<1>0. /\ WindowInv /\ MetInv /\ FlagInv /\ Backups \subseteq Tools /\ Restores \subseteq Tools
      /\ Backups \cap Restores = {} /\ timer \in BOOLEAN
  BY MaintenanceAssumption DEF TimerInv, Tools, WindowInv, HostTyped
<1>1. /\ Frame(t) /\ Whole' = Whole /\ tool'[t].at # "idle"
      /\ tool[t].at = "idle" => tool'[t].at \in {"timer", "ended", "dead"}
      /\ tool[t].at = "timer" => tool'[t].at \in {"lock", "ended", "dead"}
      /\ Busy(t)' => Busy(t) \/ tool[t].at = "idle"
      /\ tool'[t].at \in Held \cup {"lock"} => tool'[t].at = "lock" \/ tool[t].at \in Held \cup {"lock"}
  BY <1>0, ControlEffect, PointFacts DEF Whole, Busy
<1>2. /\ \/ tool'[t].met = tool[t].met /\ tool'[t].at # "timer"
         \/ /\ tool[t].at = "idle" /\ tool'[t].at = "timer"
            /\ tool'[t].met = {r \in Tools : Busy(r)}
      /\ \/ tool'[t].timer = tool[t].timer
         \/ tool[t].at = "timer" /\ tool'[t].at = "lock" /\ tool'[t].timer = timer
      /\ \/ timer' = timer \/ timer' = FALSE
         \/ t \in Backups /\ tool[t].timer = TRUE /\ Busy(t)
      /\ tool'[t].at = "lock" => timer' = FALSE
  BY <1>0, ControlTimer
<1>3. FlagInv'
  BY <1>0, <1>1, <1>2 DEF FlagInv, Frame
<1>4. \A b \in Backups, r \in Restores : Overlapped(b, r) => Overlapped(b, r)'
  BY <1>0, <1>1, <1>2 DEF FlagInv, Frame, Overlapped
<1>5. MetInv'
  <2> SUFFICES ASSUME NEW b \in Backups, NEW r \in Restores, Busy(b)', Busy(r)'
               PROVE  Overlapped(b, r)'
    BY DEF MetInv
  <2>1. CASE Busy(b) /\ Busy(r)
    BY <1>0, <1>4, <2>1 DEF MetInv
  <2>2. CASE ~Busy(b)
    <3>1. b = t /\ tool[t].at = "idle" /\ r # t
      BY <1>0, <1>1, <2>2 DEF Frame, Busy
    <3>2. tool'[t].at = "timer" /\ tool'[t].met = {q \in Tools : Busy(q)}
      BY <1>1, <1>2, <3>1 DEF Busy
    <3>3. Busy(r)
      BY <1>0, <1>1, <3>1 DEF Frame, Busy
    <3> QED
      BY <1>0, <3>1, <3>2, <3>3 DEF Overlapped
  <2>3. CASE ~Busy(r)
    <3>1. r = t /\ tool[t].at = "idle" /\ b # t
      BY <1>0, <1>1, <2>3 DEF Frame, Busy
    <3>2. tool'[t].at = "timer" /\ tool'[t].met = {q \in Tools : Busy(q)}
      BY <1>1, <1>2, <3>1 DEF Busy
    <3>3. Busy(b)
      BY <1>0, <1>1, <3>1 DEF Frame, Busy
    <3> QED
      BY <1>0, <3>1, <3>2, <3>3 DEF Overlapped
  <2> QED
    BY <2>1, <2>2, <2>3
<1>6. Excused => Excused'
  <2> SUFFICES ASSUME NEW b \in Backups, NEW r \in Restores, Overlapped(b, r), tool[b].timer
               PROVE  Excused'
    BY DEF Excused
  <2>1. tool'[b].timer = tool[b].timer
    BY <1>0, <1>1, <1>2 DEF FlagInv, Frame
  <2>2. Overlapped(b, r)'
    BY <1>4
  <2> QED
    BY <2>1, <2>2 DEF Excused
<1>7. ASSUME ~Excused, StoppedInv PROVE StoppedInv'
  <2>0. ASSUME NEW b \in Backups, NEW r \in Restores, Busy(b), Busy(r), tool[b].timer = TRUE PROVE FALSE
    BY <1>0, <1>7, <2>0 DEF MetInv, Excused
  <2>1. timer' => Whole'
    BY <1>0, <1>1, <1>2, <1>7 DEF StoppedInv
  <2>2. ASSUME NEW r \in Restores, tool'[r].at \in Held \cup {"lock"} PROVE timer' = FALSE
    <3>1. CASE r = t
      BY <1>0, <1>1, <1>2, <1>7, <2>2, <3>1 DEF StoppedInv
    <3>2. CASE r # t
      <4>1. tool[r].at \in Held \cup {"lock"} /\ Busy(r) /\ timer = FALSE
        BY <1>0, <1>1, <1>7, <2>2, <3>2, PointFacts DEF StoppedInv, Frame, Busy
      <4> QED
        BY <1>2, <2>0, <4>1
    <3> QED
      BY <3>1, <3>2
  <2>3. ASSUME ~Whole', NEW b \in Backups, Busy(b)' PROVE tool'[b].timer = FALSE
    <3>0. ~Whole /\ timer = FALSE
      BY <1>0, <1>1, <1>7, <2>3 DEF StoppedInv
    <3>1. CASE b # t
      <4>1. tool'[b] = tool[b] /\ Busy(b)
        BY <1>0, <1>1, <2>3, <3>1 DEF Frame, Busy
      <4> QED
        BY <1>7, <3>0, <4>1 DEF StoppedInv
    <3>2. CASE b = t
      BY <1>0, <1>1, <1>2, <1>7, <2>3, <3>0, <3>2 DEF StoppedInv, FlagInv
    <3> QED
      BY <3>1, <3>2
  <2> QED
    BY <2>1, <2>2, <2>3 DEF StoppedInv
<1> QED
  BY <1>3, <1>5, <1>6, <1>7 DEF TimerInv

LEMMA NextTimer == TimerInv /\ [Next]_vars => TimerInv'
<1> SUFFICES ASSUME TimerInv, [Next]_vars PROVE TimerInv'
  OBVIOUS
<1>0. WindowInv /\ WindowInv' /\ Backups \subseteq Tools /\ Restores \subseteq Tools
  BY NextWindow DEF TimerInv, Tools
<1>1. CASE \/ \E s \in Sources : register_secret(s) \/ register_row(s)
           \/ sync_begin \/ sync_end \/ UNCHANGED vars
  <2>1. tool' = tool /\ timer' = timer /\ Whole' = Whole
    BY <1>0, <1>1, WritersEffect DEF Whole
  <2> QED
    BY <1>0, <2>1, SameTimer DEF Busy
<1>2. ASSUME NEW t \in Tools, begin(t) \/ WindowStep(t) \/ crash(t) PROVE TimerInv'
  BY <1>0, <1>2, ControlTimerKept
<1>3. ASSUME NEW t \in Tools, BackupStep(t) PROVE TimerInv'
  <2>1. /\ timer' = timer /\ Whole' = Whole
    BY <1>3 DEF BackupStep, dump, archive, publish, host, state, Whole
  <2>2. /\ Frame(t) /\ Own(t) /\ tool[t].at \in {"window", "archive", "publish"}
        /\ tool'[t].at \in {"archive", "publish", "restart"}
    BY <1>0, <1>3, DumpEffect, ArchiveEffect, PublishEffect DEF BackupStep, Same
  <2>3. \A r \in Tools : /\ tool'[r].met = tool[r].met
                         /\ tool'[r].timer = tool[r].timer
                         /\ Busy(r)' => Busy(r)
                         /\ tool'[r].at \in {"idle", "timer"} => tool'[r].at = tool[r].at
                         /\ tool'[r].at \in Held \cup {"lock"} => tool[r].at \in Held \cup {"lock"}
    BY <2>2, PointFacts DEF Frame, Own, Busy
  <2> QED
    BY <1>0, <2>1, <2>3, SameTimer
<1>4. ASSUME NEW t \in Tools, RestoreStep(t) PROVE TimerInv'
  <2>1. /\ Frame(t) /\ t \in Restores /\ t \notin Backups /\ tool'[t].met = tool[t].met
        /\ tool[t].at \in Held /\ tool'[t].at \in Held /\ tool[t].at \notin {"idle", "timer", "lock"}
        /\ tool'[t].at \notin {"idle", "timer", "lock"} /\ Busy(t) /\ Busy(t)'
    BY <1>0, <1>4, RestoreEffect, PointFacts DEF Busy
  <2>2. timer' = timer
    BY <1>4 DEF RestoreStep, recheck, extract, check_target, drop_schema, load, restore_roles, move_out,
                move_in, undo, start_restored, host
  <2>3. \A b \in Backups : tool'[b] = tool[b]
    BY <1>0, <2>1 DEF Frame
  <2>4. \A b \in Backups, r \in Restores : Overlapped(b, r)' <=> Overlapped(b, r)
    BY <1>0, <2>1, <2>3 DEF Frame, Overlapped
  <2>5. FlagInv' /\ MetInv'
    <3>1. FlagInv'
      BY <2>1 DEF TimerInv, FlagInv, Frame
    <3>2. \A r \in Tools : Busy(r)' <=> Busy(r)
      BY <2>1 DEF Frame, Busy
    <3> QED
      BY <1>0, <2>4, <3>1, <3>2 DEF TimerInv, MetInv
  <2>6. Excused => Excused'
    BY <2>3, <2>4 DEF Excused
  <2>7. ASSUME ~Excused, StoppedInv PROVE StoppedInv'
    <3>1. timer' = FALSE
      BY <2>1, <2>2, <2>7 DEF StoppedInv
    <3>2. ASSUME NEW b \in Backups, Busy(b)' PROVE tool'[b].timer = FALSE
      <4>1. Busy(b) /\ Overlapped(b, t)
        BY <2>1, <2>3, <3>2 DEF TimerInv, MetInv, Busy
      <4>2. ~tool[b].timer
        BY <2>1, <2>7, <4>1 DEF Excused
      <4>3. tool[b].timer \in BOOLEAN
        BY <1>0 DEF WindowInv, ToolRecords
      <4> QED
        BY <2>3, <4>2, <4>3
    <3> QED
      BY <3>1, <3>2 DEF StoppedInv
  <2> QED
    BY <1>0, <2>5, <2>6, <2>7 DEF TimerInv
<1> QED
  BY <1>1, <1>2, <1>3, <1>4 DEF Next, ToolStep

(***************************************************************************)
(* The timer does not run on a half-restored installation either, unless a *)
(* backup that found it active was at work at the same time as a restore:  *)
(* backups before or after, finished, failed or killed, do not matter.     *)
(***************************************************************************)
THEOREM TimerOnWholeState == Spec => []TimerNeedsWholeState
<1>1. Init => TimerInv
  <2> SUFFICES ASSUME Init PROVE TimerInv
    OBVIOUS
  <2>1. WindowInv
    BY InitWindow
  <2>2. \A t \in Tools : tool[t].at = "idle" /\ tool[t].timer = FALSE /\ tool[t].met = {}
    BY DEF Init, NewTool
  <2>3. Whole
    BY DEF Init, Whole, Database, Content
  <2>4. MetInv /\ FlagInv
    BY <2>2 DEF MetInv, FlagInv, Busy, Tools
  <2>5. StoppedInv
    BY <2>2, <2>3, PointFacts DEF StoppedInv, Tools, Held
  <2> QED
    BY <2>1, <2>4, <2>5 DEF TimerInv
<1>2. TimerInv => TimerNeedsWholeState
  BY DEF TimerInv, TimerNeedsWholeState, Excused, StoppedInv
<1> QED
  BY <1>1, <1>2, NextTimer, PTL DEF Spec

(***************************************************************************)
(* The directories.                                                        *)
(***************************************************************************)
LEMMA DirsKept ==
    ASSUME ProgressInv, [Next]_vars, \A t \in Tools : ~move_out(t) /\ ~move_in(t) /\ ~undo(t)
    PROVE  /\ kept' = kept /\ \A d \in Dirs : root'[d].from = root[d].from
           /\ \A t \in Tools : tool'[t].dir = tool[t].dir
           /\ \A t \in Tools : staged'[t] = staged[t] \/ extract(t)
           /\ \A t \in Tools : tool'[t].at \in Publication =>
                  \/ tool'[t].at = tool[t].at
                  \/ tool'[t].at = "move_out" /\ tool[t].at = "roles" /\ tool[t].dir = 1
<1>0. WindowInv /\ \A t \in Tools : RestoreInv(t)
  BY DEF ProgressInv
<1>1. CASE \/ \E s \in Sources : register_secret(s) \/ register_row(s)
           \/ sync_begin \/ sync_end \/ UNCHANGED vars
  BY <1>0, <1>1, WritersEffect
<1>2. CASE \E t \in Tools : begin(t) \/ WindowStep(t) \/ crash(t)
  BY <1>0, <1>2, ControlEffect DEF Frame, Publication
<1>3. CASE \E t \in Tools : BackupStep(t)
  BY <1>0, <1>3, DumpEffect, ArchiveEffect, PublishEffect DEF BackupStep, Frame, Same, Own, state, Publication
<1>4. ASSUME NEW t \in Tools, RestoreStep(t)
      PROVE  /\ kept' = kept /\ \A d \in Dirs : root'[d].from = root[d].from
             /\ \A r \in Tools : tool'[r].dir = tool[r].dir
             /\ \A r \in Tools : staged'[r] = staged[r] \/ extract(r)
             /\ \A r \in Tools : tool'[r].at \in Publication =>
                    \/ tool'[r].at = tool[r].at
                    \/ tool'[r].at = "move_out" /\ tool[r].at = "roles" /\ tool[r].dir = 1
  <2>1. kept' = kept /\ root' = root /\ tool[t].at # "move_in"
    BY <1>4 DEF RestoreStep, recheck, extract, check_target, drop_schema, load, restore_roles, start_restored, state, At
  <2>2. Frame(t) /\ tool'[t].dir = tool[t].dir /\ t \notin Backups
    BY <1>0, <1>4, <2>1, RestoreEffect
  <2>3. \A r \in Tools : staged'[r] = staged[r] \/ extract(r)
    BY <1>0, <1>4 DEF RestoreStep, recheck, extract, check_target, drop_schema, load, restore_roles, start_restored,
       WindowInv, StateTyped
  <2>b. Fails(t) \/ Leave(t, "restored") => tool'[t].at = "release"
    BY <1>0, <2>2, LeaveEffect, PointFacts DEF Fails
  <2>c. \A at \in RestoreOnly : Goto(t, at) => tool'[t].at = at
    BY <1>0, GotoEffect, PointFacts
  <2>4. tool'[t].at \in Publication => tool'[t].at = "move_out" /\ tool[t].at = "roles"
    BY <1>4, <2>b, <2>c, PointFacts DEF RestoreStep, recheck, extract, check_target, drop_schema, load, restore_roles,
       start_restored, At, Publication
  <2> QED
    BY <1>0, <2>1, <2>2, <2>3, <2>4 DEF Frame, RestoreInv, Fresh
<1> QED
  BY <1>1, <1>2, <1>3, <1>4 DEF Next, ToolStep

KeptExists(from, d) == \E t \in Tools : kept[t][d].from = from

SomePublished == \E t \in Restores : Published(t)

KeptSurvives(d) == KeptExists("host", d) \/ (KeptExists("bundle", d) /\ SomePublished)

OriginalsInv ==
    /\ ProgressInv /\ OriginalsSurvive
    /\ \A t \in Tools : tool[t].at \in Publication /\ tool[t].dir = 2 => KeptSurvives("config")

(* A publication that is over stays over.                                  *)
LEMMA PublishedStays ==
    ASSUME ProgressInv, [Next]_vars, NEW t \in Tools, Published(t)
    PROVE  Published(t)'
<1>0. WindowInv /\ \A r \in Tools : RestoreInv(r)
  BY DEF ProgressInv
<1>1. tool[t].at \notin Fresh \cup Publication
  BY <1>0, AbsentFacts DEF Published, RestoreInv
<1>2. CASE \A r \in Tools : ~move_out(r) /\ ~move_in(r) /\ ~undo(r)
  BY <1>1, <1>2, DirsKept DEF Published, extract, At, Fresh
<1>3. ASSUME NEW r \in Tools, move_out(r) \/ move_in(r) \/ undo(r)
      PROVE  Published(t)'
  <2>1. r # t
    BY <1>1, <1>3 DEF move_out, move_in, undo, At, Publication
  <2>2. tool'[t] = tool[t] /\ staged'[t] = staged[t]
    <3>1. CASE move_out(r)
      BY <1>0, <2>1, <3>1, MoveOutEffect DEF Frame
    <3>2. CASE move_in(r)
      <4>1. Frame(r) /\ (staged' = staged \/ Put(staged, staged', r, Dir(r), Absent))
        BY <1>0, <3>2, MoveInEffect
      <4> QED
        BY <2>1, <4>1 DEF Frame, Put
    <3>3. CASE undo(r)
      <4>1. Frame(r) /\ (staged' = staged \/ Put(staged, staged', r, "config", root["config"]))
        BY <1>0, <3>3, UndoEffect
      <4> QED
        BY <2>1, <4>1 DEF Frame, Put
    <3> QED
      BY <1>3, <3>1, <3>2, <3>3
  <2> QED
    BY <2>2 DEF Published
<1> QED
  BY <1>2, <1>3

LEMMA NextOriginals == OriginalsInv /\ [Next]_vars => OriginalsInv'
<1> SUFFICES ASSUME OriginalsInv, [Next]_vars PROVE OriginalsInv'
  OBVIOUS
<1>0. /\ ProgressInv /\ ProgressInv' /\ WindowInv
      /\ \A t \in Tools : RestoreInv(t) /\ DirsFacts(t)
  BY NextProgress, DirsAreTwo DEF OriginalsInv, ProgressInv
<1>s. SomePublished => SomePublished'
  BY <1>0, PublishedStays DEF SomePublished, Tools
<1>a. ASSUME \A d \in Dirs, from \in {"host", "bundle"} : Exists(from, d) => Exists(from, d)'
      PROVE  OriginalsSurvive'
  BY <1>a, <1>s DEF OriginalsInv, OriginalsSurvive, SomePublished
<1>b. ASSUME \A from \in {"host", "bundle"} : KeptExists(from, "config") => KeptExists(from, "config")'
      PROVE  KeptSurvives("config") => KeptSurvives("config")'
  BY <1>b, <1>s DEF KeptSurvives
<1>1. CASE \A t \in Tools : ~move_out(t) /\ ~move_in(t) /\ ~undo(t)
  <2>1. OriginalsSurvive'
    BY <1>0, <1>1, <1>a, DirsKept DEF Exists
  <2>2. ASSUME NEW t \in Tools, tool'[t].at \in Publication, tool'[t].dir = 2
        PROVE  KeptSurvives("config")'
    <3>1. tool[t].at \in Publication /\ tool[t].dir = 2 /\ kept' = kept
      BY <1>0, <1>1, <2>2, DirsKept
    <3> QED
      BY <1>b, <3>1 DEF OriginalsInv, KeptExists
  <2> QED
    BY <1>0, <2>1, <2>2 DEF OriginalsInv
<1>2. ASSUME NEW t \in Tools, move_out(t) \/ move_in(t) \/ undo(t)
      PROVE  OriginalsSurvive' /\ (tool'[t].at \in Publication /\ tool'[t].dir = 2 => KeptSurvives("config")')
  <2>0. RestoreInv(t) /\ DirsFacts(t) /\ Absent.from = "none"
    BY <1>0, AbsentFacts
  <2>1. CASE move_out(t)
    <3>1. CASE UNCHANGED <<root, kept>>
      <4>1. tool[t].at = "move_out" /\ tool'[t].dir = tool[t].dir
        BY <1>0, <2>1, MoveOutEffect
      <4> QED
        BY <1>a, <1>b, <3>1, <4>1 DEF Exists, KeptExists, OriginalsInv, Publication
    <3>2. CASE PutRoot(Dir(t), Absent) /\ Put(kept, kept', t, Dir(t), root[Dir(t)])
      <4>1. tool[t].at = "move_out" /\ tool'[t].dir = tool[t].dir
        BY <1>0, <2>1, MoveOutEffect
      <4>2. kept[t][Dir(t)].from = "none" /\ Dir(t) \in Dirs
        BY <2>0, <4>1, AbsentFacts DEF RestoreInv, DirsFacts
      <4>3. OriginalsSurvive'
        BY <1>a, <3>2, <4>2 DEF Exists, Put, PutRoot
      <4>4. tool[t].dir = 2 => \A r \in Tools : kept'[r]["config"] = kept[r]["config"]
        BY <2>0, <3>2 DEF Put, DirsFacts
      <4> QED
        BY <1>b, <4>1, <4>3, <4>4 DEF KeptExists, OriginalsInv, Publication
    <3> QED
      BY <1>0, <2>1, <3>1, <3>2, MoveOutEffect
  <2>2. CASE move_in(t)
    <3>0. tool[t].at = "move_in" /\ root[Dir(t)].from = "none" /\ Dir(t) \in Dirs
      BY <1>0, <2>0, <2>2, MoveInEffect DEF RestoreInv, DirsFacts
    <3>1. CASE PutRoot(Dir(t), staged[t][Dir(t)]) /\ kept' = kept
      <4>1. OriginalsSurvive'
        BY <1>a, <3>0, <3>1 DEF Exists, PutRoot
      <4>2. tool[t].dir = 1 => KeptSurvives("config")
        BY <2>0, <3>0 DEF OriginalsInv, OriginalsSurvive, Exists, KeptSurvives, KeptExists, SomePublished, DirsFacts
      <4>3. KeptSurvives("config")
        BY <2>0, <3>0, <4>2 DEF DirsFacts, OriginalsInv, Publication
      <4> QED
        BY <1>b, <3>1, <4>1, <4>3 DEF KeptExists
    <3>2. CASE tool'[t].at = "start"
      <4>1. \A d \in Dirs : root'[d].from = "bundle"
        BY <1>0, <3>2 DEF ProgressInv, RestoreInv
      <4>2. Published(t)' /\ t \in Restores
        <5>1. Put(staged, staged', t, "secrets", Absent) /\ tool'[t].dir = 2 /\ tool[t].dir = 2
          BY <1>0, <2>0, <2>2, <3>2, MoveInEffect DEF DirsFacts
        <5>2. staged[t]["config"] = Absent
          BY <2>0, <3>0, <5>1 DEF RestoreInv, Publication
        <5>3. staged'[t] = NoDirs
          BY <1>0, <5>1, <5>2 DEF Put, Dirs, NoDirs, ProgressInv, WindowInv, StateTyped
        <5>4. t \in Restores
          BY <1>0, <3>0, PointFacts DEF WindowInv, ToolInv
        <5> QED
          BY <5>1, <5>3, <5>4 DEF Published
      <4> QED
        BY <3>2, <4>1, <4>2 DEF OriginalsSurvive, Exists, Publication
    <3>3. CASE PutRoot(Dir(t), kept[t][Dir(t)]) /\ Put(kept, kept', t, Dir(t), Absent) /\ tool'[t].dir = tool[t].dir
      <4>1. OriginalsSurvive'
        BY <1>a, <3>0, <3>3 DEF Exists, Put, PutRoot
      <4>2. tool[t].dir = 2 => \A r \in Tools : kept'[r]["config"] = kept[r]["config"]
        BY <2>0, <3>3 DEF Put, DirsFacts
      <4> QED
        BY <1>b, <3>0, <3>3, <4>1, <4>2 DEF KeptExists, OriginalsInv, Publication
    <3>4. CASE UNCHANGED <<root, kept>> /\ tool'[t].dir = tool[t].dir
      BY <1>a, <1>b, <3>0, <3>4 DEF Exists, KeptExists, OriginalsInv, Publication
    <3> QED
      BY <1>0, <2>2, <3>1, <3>2, <3>3, <3>4, MoveInEffect
  <2>3. CASE undo(t)
    <3>0. tool[t].at = "undo" /\ tool'[t].at = "release" /\ (tool[t].dir = 2 => KeptSurvives("config"))
      BY <1>0, <2>3, UndoEffect DEF OriginalsInv, Publication
    <3>1. CASE UNCHANGED <<root, kept>>
      BY <1>a, <3>0, <3>1 DEF Exists, Publication
    <3>2. CASE tool[t].dir = 2 /\ PutRoot("config", kept[t]["config"]) /\ Put(kept, kept', t, "config", Absent)
      <4>1. \A from \in {"host", "bundle"} : KeptExists(from, "config") => Exists(from, "config")'
        BY <3>2 DEF Exists, KeptExists, Put, PutRoot
      <4>2. \A from \in {"host", "bundle"} : Exists(from, "secrets") => Exists(from, "secrets")'
        BY <3>2 DEF Exists, Put, PutRoot, Dirs
      <4> QED
        BY <1>s, <3>0, <3>2, <4>1, <4>2
           DEF OriginalsInv, OriginalsSurvive, KeptSurvives, SomePublished, Publication, Dirs
    <3>3. CASE tool[t].dir = 2 /\ PutRoot("config", Absent) /\ kept' = kept
      <4>1. \A from \in {"host", "bundle"} : KeptExists(from, "config") => Exists(from, "config")'
        BY <3>3 DEF Exists, KeptExists
      <4>2. \A from \in {"host", "bundle"} : Exists(from, "secrets") => Exists(from, "secrets")'
        BY <3>3 DEF Exists, PutRoot, Dirs
      <4> QED
        BY <1>s, <3>0, <3>3, <4>1, <4>2
           DEF OriginalsInv, OriginalsSurvive, KeptSurvives, SomePublished, Publication, Dirs
    <3> QED
      BY <1>0, <2>3, <3>1, <3>2, <3>3, UndoEffect
  <2> QED
    BY <1>2, <2>1, <2>2, <2>3
<1>3. ASSUME NEW t \in Tools, move_out(t) \/ move_in(t) \/ undo(t), NEW r \in Tools \ {t}
      PROVE  tool'[r].at \notin Publication
  <2>1. tool[t].at \in Held /\ Frame(t)
    BY <1>0, <1>3, RestoreEffect, PointFacts DEF RestoreStep
  <2> QED
    BY <1>0, <2>1, OneInside, PointFacts DEF Frame, Publication
<1> QED
  BY <1>0, <1>1, <1>2, <1>3 DEF OriginalsInv

(***************************************************************************)
(* No directory is lost, whichever restores are killed or fail wherever:   *)
(* until one has published its bundle the host's own are still there, and  *)
(* from then on those of a bundle are.                                     *)
(***************************************************************************)
THEOREM NothingLost == Spec => []OriginalsSurvive
<1>1. Init => OriginalsInv
  BY InitProgress DEF Init, OriginalsInv, OriginalsSurvive, Exists, Content, NewTool, Publication
<1> QED
  BY <1>1, NextOriginals, PTL DEF Spec, OriginalsInv

(***************************************************************************)
(* The publication.                                                        *)
(***************************************************************************)
Matching == root["config"].from = root["secrets"].from

Intact == crashes = 0 /\ \A t \in Tools : ~tool[t].torn

UndoneInv ==
    /\ ProgressInv
    /\ Intact =>
         /\ (\A t \in Tools : tool[t].at \notin Publication) => Matching
         /\ \A t \in Tools :
                /\ tool[t].at \in {"move_out", "undo"} /\ tool[t].dir = 1 => Matching
                /\ \/ tool[t].at = "move_in" /\ tool[t].dir = 1
                   \/ tool[t].at \in {"move_out", "undo"} /\ tool[t].dir = 2
                   => kept[t]["config"].from = root["secrets"].from
                /\ tool[t].at = "move_in" /\ tool[t].dir = 2 =>
                       kept[t]["config"].from = kept[t]["secrets"].from

LEMMA NextUndone == UndoneInv /\ [Next]_vars => UndoneInv'
<1> SUFFICES ASSUME UndoneInv, [Next]_vars PROVE UndoneInv'
  OBVIOUS
<1>0. /\ ProgressInv /\ ProgressInv' /\ WindowInv
      /\ \A t \in Tools : RestoreInv(t) /\ DirsFacts(t)
  BY NextProgress, DirsAreTwo DEF UndoneInv, ProgressInv
<1>i. Intact' => Intact
  <2>1. CASE \/ \E s \in Sources : register_secret(s) \/ register_row(s)
             \/ sync_begin \/ sync_end \/ UNCHANGED vars
    BY <1>0, <2>1, WritersEffect DEF Intact
  <2>2. ASSUME NEW t \in Tools, begin(t) \/ WindowStep(t) \/ crash(t) PROVE Intact' => Intact
    <3>1. crashes \in Nat
      BY <1>0 DEF WindowInv, HostTyped
    <3> QED
      BY <1>0, <2>2, <3>1, ControlEffect DEF Intact, Frame
  <2>3. ASSUME NEW t \in Tools, BackupStep(t) PROVE Intact' => Intact
    BY <1>0, <2>3, DumpEffect, ArchiveEffect, PublishEffect DEF BackupStep, Intact, Frame, Same, Own
  <2>4. ASSUME NEW t \in Tools, RestoreStep(t) PROVE Intact' => Intact
    <3>1. crashes' = crashes /\ Frame(t)
      BY <1>0, <2>4, RestoreEffect DEF RestoreStep, recheck, extract, check_target, drop_schema, load, restore_roles, move_out,
         move_in, undo, start_restored
    <3>2. tool[t].torn => tool'[t].torn
      <4>1. CASE move_in(t)
        BY <1>0, <4>1, MoveInEffect
      <4>2. CASE undo(t)
        BY <1>0, <4>2, UndoEffect
      <4>3. CASE ~move_in(t) /\ ~undo(t)
        <5>1. \/ Fails(t) \/ Leave(t, "restored") \/ \E at \in RestoreOnly : Goto(t, at)
          BY <2>4, <4>3, PointFacts DEF RestoreStep, recheck, extract, check_target, drop_schema, load, restore_roles, move_out,
             start_restored
        <5> QED
          BY <1>0, <5>1, LeaveEffect, GotoEffect, PointFacts DEF Fails, Same, Own
      <4> QED
        BY <4>1, <4>2, <4>3
    <3> QED
      BY <3>1, <3>2 DEF Intact, Frame
  <2> QED
    BY <2>1, <2>2, <2>3, <2>4 DEF Next, ToolStep
<1> SUFFICES ASSUME Intact, Intact'
             PROVE  UndoneInv'
  BY <1>0, <1>i DEF UndoneInv
<1>1. CASE \A t \in Tools : ~move_out(t) /\ ~move_in(t) /\ ~undo(t)
  <2>1. /\ kept' = kept /\ Matching' = Matching /\ root'["secrets"].from = root["secrets"].from
        /\ \A t \in Tools : tool'[t].dir = tool[t].dir
        /\ \A t \in Tools : tool'[t].at \in Publication =>
               \/ tool'[t].at = tool[t].at
               \/ tool'[t].at = "move_out" /\ tool[t].at = "roles" /\ tool[t].dir = 1
    BY <1>0, <1>1, DirsKept DEF Matching, Dirs
  <2>2. ASSUME NEW t \in Tools, tool[t].at \in Publication PROVE tool'[t] = tool[t]
    <3>1. CASE \/ \E s \in Sources : register_secret(s) \/ register_row(s)
               \/ sync_begin \/ sync_end \/ UNCHANGED vars
      BY <1>0, <3>1, WritersEffect
    <3>2. ASSUME NEW r \in Tools, begin(r) \/ WindowStep(r) \/ crash(r) PROVE tool'[t] = tool[t]
      <4>1. crashes = 0 /\ crashes' = 0
        BY DEF Intact
      <4> QED
        BY <1>0, <2>2, <3>2, <4>1, ControlEffect DEF Frame, Publication
    <3>3. ASSUME NEW r \in Tools, BackupStep(r) PROVE tool'[t] = tool[t]
      BY <1>0, <2>2, <3>3, DumpEffect, ArchiveEffect, PublishEffect DEF BackupStep, Frame, Publication
    <3>4. ASSUME NEW r \in Tools, RestoreStep(r) PROVE tool'[t] = tool[t]
      <4>1. Frame(r)
        BY <1>0, <3>4, RestoreEffect
      <4>2. tool[r].at \notin Publication
        BY <1>1, <3>4 DEF RestoreStep, recheck, extract, check_target, drop_schema, load, restore_roles, start_restored, At,
           Publication
      <4> QED
        BY <2>2, <4>1, <4>2 DEF Frame
    <3> QED
      BY <3>1, <3>2, <3>3, <3>4 DEF Next, ToolStep
  <2>3. ASSUME NEW t \in Tools, tool[t].at = "roles" PROVE Matching
    <3>1. \A r \in Tools : tool[r].at \notin Publication
      BY <1>0, <2>3, OneInside, PointFacts DEF Publication
    <3> QED
      BY <3>1 DEF UndoneInv
  <2>4. (\A t \in Tools : tool'[t].at \notin Publication) => Matching'
    BY <2>1, <2>2 DEF UndoneInv
  <2> QED
    BY <1>0, <2>1, <2>2, <2>3, <2>4 DEF UndoneInv, Publication
<1>2. ASSUME NEW t \in Tools, move_out(t) \/ move_in(t) \/ undo(t) PROVE UndoneInv'
  <2>0. RestoreInv(t) /\ DirsFacts(t)
    BY <1>0
  <2>1. \A r \in Tools \ {t} : tool'[r].at \notin Publication
    <3>1. tool[t].at \in Held /\ Frame(t)
      BY <1>0, <1>2, RestoreEffect, PointFacts DEF RestoreStep
    <3> QED
      BY <1>0, <3>1, OneInside, PointFacts DEF Frame, Publication
  <2> SUFFICES /\ tool'[t].at \notin Publication => Matching'
               /\ tool'[t].at \in {"move_out", "undo"} /\ tool'[t].dir = 1 => Matching'
               /\ \/ tool'[t].at = "move_in" /\ tool'[t].dir = 1
                  \/ tool'[t].at \in {"move_out", "undo"} /\ tool'[t].dir = 2
                  => kept'[t]["config"].from = root'["secrets"].from
               /\ tool'[t].at = "move_in" /\ tool'[t].dir = 2 =>
                      kept'[t]["config"].from = kept'[t]["secrets"].from
    BY <1>0, <2>1 DEF UndoneInv, Publication
  <2>2. CASE move_out(t)
    <3>1. CASE UNCHANGED <<root, kept>> /\ tool'[t].at = "undo"
      BY <1>0, <2>2, <3>1, MoveOutEffect DEF UndoneInv, Matching, Publication
    <3>2. CASE PutRoot(Dir(t), Absent) /\ Put(kept, kept', t, Dir(t), root[Dir(t)]) /\ tool'[t].at = "move_in"
      <4>1. tool[t].at = "move_out" /\ tool'[t].dir = tool[t].dir
        BY <1>0, <2>2, MoveOutEffect
      <4>2. CASE tool[t].dir = 1
        BY <2>0, <3>2, <4>1, <4>2 DEF UndoneInv, Matching, Publication, Put, PutRoot, DirsFacts
      <4>3. CASE tool[t].dir = 2
        BY <2>0, <3>2, <4>1, <4>3 DEF UndoneInv, Matching, Publication, Put, PutRoot, DirsFacts
      <4> QED
        BY <2>0, <4>2, <4>3 DEF DirsFacts
    <3> QED
      BY <1>0, <2>2, <3>1, <3>2, MoveOutEffect
  <2>3. CASE move_in(t)
    <3>0. tool[t].at = "move_in" /\ tool'[t].torn # TRUE
      BY <1>0, <2>3, MoveInEffect DEF Intact
    <3>1. CASE tool[t].dir = 1 /\ PutRoot(Dir(t), staged[t][Dir(t)]) /\ kept' = kept /\ tool'[t].at = "move_out"
               /\ tool'[t].dir = 2
      BY <2>0, <3>0, <3>1 DEF UndoneInv, Matching, Publication, PutRoot, DirsFacts
    <3>2. CASE tool[t].dir = 2 /\ PutRoot(Dir(t), staged[t][Dir(t)]) /\ tool'[t].at \in {"start", "release"}
      BY <2>0, <3>0, <3>2 DEF RestoreInv, Matching, Publication, PutRoot, DirsFacts
    <3>3. CASE /\ PutRoot(Dir(t), kept[t][Dir(t)]) /\ Put(kept, kept', t, Dir(t), Absent)
               /\ tool'[t].at = "undo" /\ tool'[t].dir = tool[t].dir
      <4>1. CASE tool[t].dir = 1
        BY <2>0, <3>0, <3>3, <4>1 DEF UndoneInv, Matching, Publication, Put, PutRoot, DirsFacts
      <4>2. CASE tool[t].dir = 2
        BY <2>0, <3>0, <3>3, <4>2 DEF UndoneInv, Matching, Publication, Put, PutRoot, DirsFacts
      <4> QED
        BY <2>0, <4>1, <4>2 DEF DirsFacts
    <3> QED
      BY <1>0, <2>3, <3>0, <3>1, <3>2, <3>3, MoveInEffect
  <2>4. CASE undo(t)
    <3>0. tool[t].at = "undo" /\ tool'[t].at = "release" /\ tool'[t].torn # TRUE
      BY <1>0, <2>4, UndoEffect DEF Intact
    <3>1. CASE tool[t].dir = 1 /\ UNCHANGED <<root, kept, staged>>
      BY <3>0, <3>1 DEF UndoneInv, Matching, Publication
    <3>2. CASE tool[t].dir = 2 /\ PutRoot("config", kept[t]["config"])
      BY <2>0, <3>0, <3>2 DEF UndoneInv, Matching, Publication, PutRoot, DirsFacts
    <3> QED
      BY <1>0, <2>4, <3>0, <3>1, <3>2, UndoEffect
  <2> QED
    BY <1>2, <2>2, <2>3, <2>4
<1> QED
  BY <1>1, <1>2

(***************************************************************************)
(* A publication that fails is undone: unless a tool was killed or its own *)
(* repair failed, config and secrets come from the same installation       *)
(* whenever no tool is at work.                                            *)
(***************************************************************************)
THEOREM UndoneOrDone == Spec => []PublicationIsUndone
<1>1. Init => UndoneInv
  BY InitProgress DEF Init, UndoneInv, Matching, Content, NewTool, Publication, Dirs
<1>2. UndoneInv => PublicationIsUndone
  BY DEF UndoneInv, PublicationIsUndone, Intact, Matching, Busy, Publication
<1> QED
  BY <1>1, <1>2, NextUndone, PTL DEF Spec

(***************************************************************************)
(* What a backup found.                                                    *)
(***************************************************************************)
Alone(t) == \A r \in Tools \ {t} : tool[r].at = "idle"

FoundInv(t) ==
    LET at == tool[t].at
        Stopping == timer = FALSE /\ tool[t].timer = tool[t].before.timer
    IN  /\ at = "timer" => AsBefore(t)
        /\ at \in {"lock", "stop", "restart_timer"} => Stopping /\ services = tool[t].before.services
        /\ at \in {"window", "archive", "publish", "restart"} =>
               Stopping /\ tool[t].running = tool[t].before.services
        /\ at \in {"release", "ended"} /\ tool[t].result = "saved" => AsBefore(t)

FoundAll == WindowInv /\ \A t \in Backups : Alone(t) => FoundInv(t)

LEMMA ControlFound ==
    ASSUME WindowInv, NEW t \in Backups, FoundInv(t), begin(t) \/ WindowStep(t) \/ crash(t)
    PROVE  FoundInv(t)'
<1>0. t \in Tools /\ ToolInv(t) /\ tool[t] \in ToolRecords
  BY DEF Tools, WindowInv
<1>a. tool[t].timer \in BOOLEAN /\ timer \in BOOLEAN /\ WindowInv'
  BY <1>0, ControlWindow DEF ToolRecords, WindowInv, HostTyped
<1>1. CASE begin(t)
  BY <1>0, <1>1, BeginEffect DEF FoundInv, AsBefore, host
<1>2. CASE stop_timer(t)
  <2>1. CASE End(t, "failed")
    BY <1>0, <2>1, EndEffect, PointFacts DEF FoundInv
  <2>2. CASE timer' = FALSE /\ tool' = [tool EXCEPT ![t].at = "lock", ![t].timer = timer]
    BY <1>0, <1>2, <2>2, StopTimerEffect DEF FoundInv, AsBefore, stop_timer, At
  <2> QED
    BY <1>2, <2>1, <2>2 DEF stop_timer
<1>3. CASE acquire(t)
  BY <1>0, <1>3, GotoEffect, PointFacts DEF FoundInv, acquire, At, Same, Own
<1>4. CASE lock_timeout(t)
  BY <1>0, <1>4, EndEffect, PointFacts DEF FoundInv, lock_timeout, EnterFails
<1>5. CASE stop_services(t)
  <2>1. CASE EnterFails(t)
    BY <1>0, <2>1, EndEffect, PointFacts DEF FoundInv, EnterFails
  <2>2. CASE tool' = [tool EXCEPT ![t].at = "window", ![t].running = services] /\ UNCHANGED <<timer, lock>>
    BY <1>0, <1>5, <2>2, StopEffect DEF FoundInv, stop_services, At
  <2> QED
    BY <1>5, <2>1, <2>2 DEF stop_services
<1>6. CASE restart_services(t)
  <2>0. services = {} /\ tool[t].at = "restart" /\ timer' = timer
    BY <1>0, <1>6, PointFacts DEF restart_services, At, ToolInv
  <2>1. CASE services' = services \cup tool[t].running /\ Goto(t, "restart_timer")
    BY <1>0, <2>0, <2>1, GotoEffect, PointFacts DEF FoundInv, Same, Own
  <2>2. CASE tool' = [tool EXCEPT ![t].at = "release", ![t].result = "restart_failed"]
    <3>1. tool'[t].at = "release" /\ tool'[t].result = "restart_failed"
      BY <1>0, <2>2, SetEffect, PointFacts
    <3> QED
      BY <3>1, SMTT(30) DEF FoundInv
  <2> QED
    BY <1>6, <2>1, <2>2 DEF restart_services
<1>7. CASE restart_timer(t)
  <2>0. tool[t].at = "restart_timer" /\ services' = services
    BY <1>7 DEF restart_timer, At
  <2>1. CASE timer' = TimerAfter(t) /\ Goto(t, "release")
    <3>1. timer' = tool[t].timer
      BY <1>a, <2>0, <2>1 DEF TimerAfter, FoundInv
    <3> QED
      BY <1>0, <2>0, <2>1, <3>1, GotoEffect, PointFacts DEF FoundInv, AsBefore, Same, Own
  <2>2. CASE tool' = [tool EXCEPT ![t].at = "release", ![t].result = "restart_failed"]
    <3>1. tool'[t].at = "release" /\ tool'[t].result = "restart_failed"
      BY <1>0, <2>2, SetEffect, PointFacts
    <3> QED
      BY <3>1 DEF FoundInv
  <2> QED
    BY <1>7, <2>1, <2>2 DEF restart_timer
<1>8. CASE release(t)
  BY <1>0, <1>8, GotoEffect, PointFacts DEF FoundInv, AsBefore, release, At, Same, Own
<1>9. CASE crash(t)
  BY <1>0, <1>9, GotoEffect, PointFacts DEF FoundInv, crash
<1> QED
  BY <1>1, <1>2, <1>3, <1>4, <1>5, <1>6, <1>7, <1>8, <1>9 DEF WindowStep

LEMMA NextFound == FoundAll /\ [Next]_vars => FoundAll'
<1> SUFFICES ASSUME FoundAll, [Next]_vars, NEW t \in Backups, Alone(t)' PROVE FoundInv(t)'
  BY NextWindow DEF FoundAll
<1>0. WindowInv /\ t \in Tools /\ (Alone(t) => FoundInv(t))
  BY DEF FoundAll, Tools
<1>1. CASE \/ \E s \in Sources : register_secret(s) \/ register_row(s)
           \/ sync_begin \/ sync_end \/ UNCHANGED vars
  BY <1>0, <1>1, WritersEffect DEF Alone, FoundInv, AsBefore
<1>2. ASSUME NEW r \in Tools, begin(r) \/ ToolStep(r) \/ crash(r)
      PROVE  FoundInv(t)'
  <2>1. Frame(r) /\ tool'[r].at # "idle"
    BY <1>0, <1>2, ControlEffect, DumpEffect, ArchiveEffect, PublishEffect, RestoreEffect, PointFacts
       DEF ToolStep, BackupStep
  <2>2. r = t /\ Alone(t) /\ FoundInv(t)
    BY <1>0, <2>1 DEF Alone, Frame
  <2>3. CASE begin(t) \/ WindowStep(t) \/ crash(t)
    BY <1>0, <2>2, <2>3, ControlFound
  <2>4. CASE dump(t) \/ archive(t)
    BY <1>0, <2>2, <2>4, DumpEffect, ArchiveEffect DEF FoundInv, Own, host
  <2>5. CASE publish(t)
    BY <1>0, <2>2, <2>5, PublishEffect DEF FoundInv, Same, Own, host
  <2>6. ~RestoreStep(t)
    BY <1>0, RestoreEffect
  <2> QED
    BY <1>2, <2>2, <2>3, <2>4, <2>5, <2>6 DEF ToolStep, BackupStep
<1> QED
  BY <1>1, <1>2 DEF Next

(***************************************************************************)
(* A backup that succeeds, and that no other tool meets or follows, leaves *)
(* timer and services as it found them.                                    *)
(***************************************************************************)
THEOREM HostAsFound == Spec => []SavedLeavesHostAsFound
<1>1. Init => FoundAll
  BY InitWindow DEF Init, FoundAll, FoundInv, NewTool, Tools
<1>2. FoundAll => SavedLeavesHostAsFound
  BY DEF FoundAll, FoundInv, SavedLeavesHostAsFound, Alone
<1> QED
  BY <1>1, <1>2, NextFound, PTL DEF Spec
=============================================================================
