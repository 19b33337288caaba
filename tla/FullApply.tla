------------------------------ MODULE FullApply ------------------------------
(***************************************************************************)
(* One Proxmox source being applied to NetBox, run after run:              *)
(* execute_discovered_source with its apply scopes, build_runtime_plan and *)
(* apply_full_sync.                                                        *)
(*                                                                         *)
(* A full run reviews the discovered objects, executes the whole pipeline  *)
(* once on the recording facade (pass "plan") and once on NetBox (pass     *)
(* "apply").  A pipeline is: the preflight of the five stages, the         *)
(* disappearance report, then the five stages again, each with its own     *)
(* preflight and its writes.  The other scopes run one stage.  Every NetBox *)
(* request is a step.  A run may be cut at any request, with the request   *)
(* applied or not; operators edit NetBox and the provider's inventory      *)
(* changes between runs, or at any time where the scenario says so.        *)
(***************************************************************************)
EXTENDS DiscoveryReview

CONSTANTS Scenarios,     \* NetBox and inventory at the start, with the bounds
          Inventories    \* what the provider may turn into

(* The bounds of a scenario: APPLY_SCOPE values in use, requests lost or   *)
(* cut, edits by operators and changes of the inventory, and whether these *)
(* may fall inside a run.                                                  *)
Limits == [scopes : SUBSET {"full", "host", "vm", "vm-network", "lxc", "lxc-network"},
           faults : Nat, edits : Nat, concurrent : BOOLEAN]

(* The tables whose records carry the identities of sources.               *)
Identified == {"device", "vm", "vif"}

(* Custom fields as the sync reads them: an identity record is one of v2,  *)
(* or one that from_record does not parse (v1).                            *)
CustomFields(cf) ==
    /\ DOMAIN cf = {"ids", "names", "manual", "extra"}
    /\ \A v \in cf.ids : v.schema \in {"v1", "v2"}

WellFormed(w) ==
    /\ DOMAIN w = Tables \cup {"known", "clusters"}
    /\ \A t \in Identified : \A i \in DOMAIN w[t] : "cf" \in DOMAIN w[t][i] /\ CustomFields(w[t][i].cf)
    /\ \A v \in DOMAIN w.vm : "tenant" \in DOMAIN w.vm[v]

(* An interface has a device and an address record an assignment; no       *)
(* record has the id that stands for none.                                 *)
Attached(w) ==
    /\ \A i \in DOMAIN w.dif : "device" \in DOMAIN w.dif[i]
    /\ \A t \in {"mac", "ip"} : \A i \in DOMAIN w[t] : "assigned" \in DOMAIN w[t][i]
    /\ \A t \in Tables : NoObject \notin DOMAIN w[t]

(* What discovery returns is lists of hosts and guests, of their interfaces *)
(* and of the addresses of those; each says whether its source owns the    *)
(* legacy identities.                                                      *)
IsList(s) == s \in Seq(ToSet(s))

Inventory(i) ==
    /\ IsList(i.hosts) /\ IsList(i.vms) /\ IsList(i.lxcs)
    /\ \A h \in ToSet(i.hosts) : IsList(h.ifs) /\ \A n \in ToSet(h.ifs) : IsList(n.addrs)
    /\ \A g \in ToSet(i.vms) \cup ToSet(i.lxcs) :
           IsList(g.nics) /\ \A n \in ToSet(g.nics) : IsList(n.addrs)
    /\ \A x \in ToSet(i.hosts) \cup ToSet(i.vms) \cup ToSet(i.lxcs) :
           x.legacy_identity_owner \in BOOLEAN

ASSUME FullApplyAssumption ==
    /\ \A s \in Scenarios :
           s.limits \in Limits /\ WellFormed(s.nb) /\ Attached(s.nb) /\ Inventory(s.inv)
    /\ \A i \in Inventories : Inventory(i)

VARIABLES nb,            \* NetBox
          inv,           \* the provider's inventory
          hosts,         \* the inventory the current run discovered
          scope, confirmed,
          limits,        \* the bounds of this behaviour
          pass,          \* plan on the facade or apply on NetBox
          point,         \* where the run stands
          stage, todo, objs, snap,
          created,       \* records the facade has created in this plan
          planned,       \* mutations of the plan; <<>> with planning off
          log,           \* mutations NetBox acknowledged in this run
          base,          \* NetBox when the apply pass began
          quiet,         \* no edit since this run began
          settled,       \* the last run completed in full and nothing changed since
          accepted,      \* a quiet full run has passed its precheck, nothing edited since
          faults, edits

control == <<hosts, scope, confirmed, limits>>
work == <<stage, todo, objs, snap>>
record == <<created, planned, log, base>>
ghost == <<quiet, settled, accepted>>
vars == <<nb, inv, control, pass, point, work, record, ghost, faults, edits>>

STAGES == <<"host", "vm", "vm-network", "lxc", "lxc-network">>

StageOf(s) == CHOOSE k \in DOMAIN STAGES : STAGES[k] = s

Blocked(k, w, i) ==
    CASE STAGES[k] = "host" -> apply_hosts_blocked(w, i)
      [] STAGES[k] = "vm" -> apply_virtual_machines_blocked(w, i)
      [] STAGES[k] = "vm-network" -> apply_vm_networks_blocked(w, i)
      [] STAGES[k] = "lxc" -> apply_lxc_containers_blocked(w, i)
      [] STAGES[k] = "lxc-network" -> apply_lxc_networks_blocked(w, i)

Work(k, i) ==
    CASE STAGES[k] = "host" -> HostWork(i)
      [] STAGES[k] = "vm" -> VmWork(i)
      [] STAGES[k] = "vm-network" -> NetworkWork(i.vms)
      [] STAGES[k] = "lxc" -> LxcWork(i)
      [] STAGES[k] = "lxc-network" -> NetworkWork(i.lxcs)

(* What the running pass reads.                                            *)
View == IF pass = "plan" THEN Facade(nb, created) ELSE nb

(* The request of the next item of work.                                   *)
Request ==
    LET item == Head(todo)
    IN  CASE STAGES[stage] = "host" -> apply_hosts_step(item, View, snap, hosts, objs)
          [] STAGES[stage] = "vm" -> apply_virtual_machines_step(item, View, snap, hosts)
          [] STAGES[stage] = "vm-network" -> apply_vm_networks_step(item, View, snap, hosts, objs)
          [] STAGES[stage] = "lxc" -> apply_lxc_containers_step(item, View, snap, hosts)
          [] STAGES[stage] = "lxc-network" ->
                apply_lxc_networks_step(item, View, snap, hosts, objs)

NoWork == stage = 1 /\ todo = <<>> /\ objs = <<>> /\ snap = <<>>

NoWork1 == stage' = 1 /\ todo' = <<>> /\ objs' = <<>> /\ snap' = <<>>

Init ==
    /\ \E s \in Scenarios : nb = s.nb /\ inv = s.inv /\ limits = s.limits
    /\ hosts = inv /\ scope = "full" /\ confirmed = FALSE
    /\ pass = "apply" /\ point = "idle" /\ NoWork
    /\ created = NothingPlanned /\ planned = <<>> /\ log = <<>> /\ base = nb
    /\ quiet = TRUE /\ settled = FALSE /\ accepted = FALSE
    /\ faults = 0 /\ edits = 0

Idle == point \in {"idle", "completed", "checked", "blocked", "refused", "cut"}

-----------------------------------------------------------------------------
(* Begin the apply pass, at the precheck of a full run and at the only     *)
(* stage of any other.                                                     *)
BeginPass(p, start, k) ==
    /\ pass' = p /\ point' = start /\ stage' = k
    /\ todo' = <<>> /\ objs' = <<>> /\ snap' = <<>>
    /\ created' = NothingPlanned

(* execute_discovered_source: discovery has returned, the scope is read.   *)
execute_discovered_source(s, c) ==
    /\ Idle
    /\ hosts' = inv /\ scope' = s /\ confirmed' = c
    /\ quiet' = TRUE /\ planned' = <<>> /\ log' = <<>> /\ base' = nb
    /\ IF s = "full" THEN BeginPass("plan", "review", 1)
       ELSE BeginPass("apply", "enter", StageOf(s))
    /\ UNCHANGED <<nb, inv, limits, settled, accepted, faults, edits>>

Stop(how) ==
    /\ point' = how /\ NoWork1
    /\ UNCHANGED <<nb, inv, control, pass, record, ghost, faults, edits>>

(* build_runtime_plan before the executors: with a conflict the review     *)
(* itself is the plan, which apply_full_sync does not look at.             *)
review ==
    /\ point = "review"
    /\ IF review_raises(nb) THEN Stop("blocked")
       ELSE /\ IF apply_allowed(nb, hosts) THEN BeginPass("plan", "precheck", 1)
               ELSE BeginPass("apply", "precheck", 1)
            /\ base' = nb
            /\ UNCHANGED <<nb, inv, control, planned, log, ghost, faults, edits>>

(* Fault: a stage is checked just before it writes and not before.         *)
precheck_in_turn ==
    /\ point = "precheck"
    /\ IF Blocked(stage, View, hosts) THEN Stop("blocked")
       ELSE /\ point' = "report" /\ stage' = 1
            /\ UNCHANGED <<nb, inv, control, pass, todo, objs, snap, record, ghost, faults, edits>>

(* The global precheck phase of apply_full_sync, one stage a step.         *)
precheck ==
    /\ point = "precheck"
    /\ IF Blocked(stage, View, hosts) THEN Stop("blocked")
       ELSE /\ IF stage = Len(STAGES) THEN point' = "report" /\ stage' = 1
               ELSE point' = "precheck" /\ stage' = stage + 1
            /\ UNCHANGED <<nb, inv, control, pass, todo, objs, snap, record, ghost, faults, edits>>

Writes == pass = "plan" \/ confirmed

report ==
    /\ point = "report"
    /\ IF report_missing_managed_objects_blocked(View, hosts) THEN Stop("blocked")
       ELSE /\ point' = IF Writes THEN "enter" ELSE "checked"
            /\ accepted' = (accepted \/ (quiet /\ pass = "apply" /\ Writes))
            /\ UNCHANGED <<nb, inv, control, pass, work, record, quiet, settled, faults, edits>>

(* A stage reads NetBox, repeats its preflight and lists its work.         *)
enter ==
    /\ point = "enter"
    /\ IF Blocked(stage, View, hosts) THEN Stop("blocked")
       ELSE /\ IF Writes
               THEN /\ point' = "write" /\ snap' = View /\ todo' = Work(stage, hosts)
                    /\ objs' = <<>> /\ stage' = stage
               ELSE point' = "checked" /\ NoWork1
            /\ UNCHANGED <<nb, inv, control, pass, record, ghost, faults, edits>>

(* The item is done: the object it resolved to is kept, and after a device *)
(* its interfaces are read again.                                          *)
Advance(m, view) ==
    /\ objs' = [x \in DOMAIN objs \cup {Head(todo)} |-> IF x = Head(todo) THEN m.id ELSE objs[x]]
    /\ snap' = IF Head(todo).do = "device" THEN load_existing_interfaces(snap, view) ELSE snap
    /\ todo' = Tail(todo)
    /\ UNCHANGED <<point, stage>>

(* The record already agrees: no request.                                  *)
skip ==
    /\ point = "write" /\ todo # <<>> /\ Request.op = "skip"
    /\ Advance(Request, View)
    /\ UNCHANGED <<nb, inv, control, pass, record, ghost, faults, edits>>

(* The facade records the mutation.                                        *)
plan ==
    /\ point = "write" /\ todo # <<>> /\ pass = "plan" /\ Mutates(Request)
    /\ created' = Remember(created, Request)
    /\ planned' = Recorded(planned, Request)
    /\ Advance(Request, Facade(nb, created'))
    /\ UNCHANGED <<nb, inv, control, pass, log, base, ghost, faults, edits>>

(* NetBox performs the mutation.                                           *)
write ==
    /\ point = "write" /\ todo # <<>> /\ pass = "apply" /\ Mutates(Request)
    /\ Accepts(nb, Request)
    /\ nb' = Commit(nb, Request)
    /\ log' = Append(log, Request)
    /\ Advance(Request, nb')
    /\ UNCHANGED <<inv, control, pass, created, planned, base, ghost, faults, edits>>

(* The stage raises, or NetBox refuses the request.                        *)
refuse ==
    /\ point = "write" /\ todo # <<>>
    /\ \/ Request.op = "fail"
       \/ pass = "apply" /\ Mutates(Request) /\ ~Accepts(nb, Request)
    /\ Stop("refused")

(* The request or its answer is lost, or the process dies: the run ends    *)
(* and the mutation is applied or is not.                                  *)
cut ==
    /\ point = "write" /\ todo # <<>> /\ pass = "apply" /\ faults < limits.faults
    /\ Mutates(Request)
    /\ \/ nb' = nb
       \/ Accepts(nb, Request) /\ nb' = Commit(nb, Request)
    /\ point' = "cut" /\ NoWork1
    /\ faults' = faults + 1 /\ settled' = FALSE
    /\ UNCHANGED <<inv, control, pass, record, quiet, accepted, edits>>

(* The stage ends, and with the last one the pass.                         *)
finish ==
    /\ point = "write" /\ todo = <<>>
    /\ \/ /\ scope = "full" /\ stage < Len(STAGES)
          /\ point' = "enter" /\ stage' = stage + 1
          /\ todo' = <<>> /\ objs' = <<>> /\ snap' = <<>>
          /\ UNCHANGED <<pass, record, settled>>
       \/ /\ scope = "full" /\ stage = Len(STAGES) /\ pass = "plan"
          /\ BeginPass("apply", "precheck", 1)
          /\ base' = nb
          /\ UNCHANGED <<planned, log, settled>>
       \/ /\ scope # "full" \/ stage = Len(STAGES)
          /\ pass = "apply"
          /\ point' = "completed" /\ NoWork1
          /\ settled' = (scope = "full" /\ quiet)
          /\ UNCHANGED <<pass, record>>
    /\ UNCHANGED <<nb, inv, control, quiet, accepted, faults, edits>>

-----------------------------------------------------------------------------
(* The environment.                                                        *)
Edited ==
    /\ edits < limits.edits /\ edits' = edits + 1
    /\ Idle \/ limits.concurrent
    /\ quiet' = FALSE /\ settled' = FALSE /\ accepted' = FALSE
    /\ UNCHANGED <<control, pass, point, work, record, faults>>

(* An operator assigns an address or a MAC record to another interface, or *)
(* frees it; NetBox keeps a primary address on its object.                 *)
Reassign(t, i, to) ==
    /\ nb.vif # <<>> /\ nb[t][i].assigned # to
    /\ nb' = [nb EXCEPT ![t][i].assigned = to]
    /\ \A v \in DOMAIN nb.vm : Valid(nb', "vm", v)
    /\ \A v \in DOMAIN nb.vif : Valid(nb', "vif", v)
    /\ \A d \in DOMAIN nb.device : Valid(nb', "device", d)

(* An operator chooses the primary address of a virtual machine.           *)
ChoosePrimary(v, p) ==
    /\ nb.vm[v].primary # p
    /\ nb' = [nb EXCEPT !.vm[v].primary = p]
    /\ Valid(nb', "vm", v)

(* An operator writes a custom field the sync does not manage.             *)
EditManual(v) == nb' = [nb EXCEPT !.vm[v].cf.manual = "edited"]

operator ==
    /\ Edited /\ inv' = inv
    /\ \/ \E t \in {"ip", "mac"} : \E i \in DOMAIN nb[t] :
              \E to \in {Free} \cup {<<"vif", x>> : x \in DOMAIN nb.vif} : Reassign(t, i, to)
       \/ \E v \in DOMAIN nb.vm : \E p \in {NoObject} \cup DOMAIN nb.ip : ChoosePrimary(v, p)
       \/ \E v \in DOMAIN nb.vm : EditManual(v)

provider == Edited /\ inv' \in Inventories \ {inv} /\ nb' = nb

Sync ==
    \/ review \/ precheck \/ report \/ enter \/ skip \/ plan \/ write \/ refuse \/ finish

Next ==
    \/ \E s \in limits.scopes, c \in BOOLEAN : execute_discovered_source(s, c)
    \/ Sync \/ cut \/ operator \/ provider

Spec == Init /\ [][Next]_vars

(* The timer starts confirmed full runs again and again, and a started run *)
(* goes on.                                                                *)
FairSpec == Spec /\ WF_vars(Sync) /\ SF_vars(execute_discovered_source("full", TRUE))

-----------------------------------------------------------------------------
(* Properties.                                                             *)

(* apply_full_sync calls it critical that every stage completes its        *)
(* read-only precheck before any stage may write: a full run that has      *)
(* changed NetBox found no stage and no report blocked when it began.      *)
PrecheckBeforeWrite ==
    scope = "full" /\ quiet /\ nb # base =>
        /\ \A k \in DOMAIN STAGES : ~Blocked(k, base, hosts)
        /\ ~report_missing_managed_objects_blocked(base, hosts)

(* The plan shown for review is exactly what the run then does: a full run *)
(* with a plan writes the planned mutations in their order, and all of     *)
(* them when it completes.                                                 *)
PlanIsExact ==
    scope = "full" /\ quiet /\ pass = "apply" /\ planned # <<>> =>
        /\ IsPrefix(log, planned)
        /\ point = "completed" => log = planned

(* A full run that completed leaves nothing to do: with no edit in         *)
(* between the next one plans nothing, writes nothing and is not blocked.  *)
Idempotent ==
    settled => \/ point = "completed"
               \/ log = <<>> /\ planned = <<>> /\ point \notin {"blocked", "refused"}

LegacyOwner ==
    \E x \in ToSet(hosts.hosts) \cup ToSet(hosts.vms) \cup ToSet(hosts.lxcs) : x.legacy_identity_owner

(* A record of this source: its own v2 identities, and the legacy ones of  *)
(* its type when it is their declared owner.                               *)
OwnIdentity(v) ==
    \/ v.schema = "v2" /\ v.type = Source.type /\ v.instance = Source.instance
    \/ v.schema = "v1" /\ v.type = Source.type /\ LegacyOwner

Ours(r) == \E v \in r.cf.ids : OwnIdentity(v)

OursAt(w, interface) ==
    CASE interface[1] = "vif" -> interface[2] \in DOMAIN w.vif /\ Ours(w.vif[interface[2]])
      [] interface[1] = "dif" -> /\ interface[2] \in DOMAIN w.dif
                                 /\ Ours(w.device[w.dif[interface[2]].device])
      [] OTHER -> FALSE

(* What a sync step may change: its own objects, the interfaces of its own *)
(* devices, and address records that are free or already on its own.       *)
Permitted(w, t, i) ==
    CASE t \in Identified -> Ours(w[t][i])
      [] t = "dif" -> OursAt(w, <<"dif", i>>)
      [] t \in {"mac", "ip"} -> w[t][i].assigned = Free \/ OursAt(w, w[t][i].assigned)

Changed(w, x, t) == {i \in DOMAIN w[t] : x[t][i] # w[t][i]}

(* Names and foreign addresses are never taken over: whatever stage,       *)
(* scope, retry or legacy migration is under way, a request changes only   *)
(* objects this source owns or address records nobody holds, and an        *)
(* address record it writes ends on an interface of this source.  A run    *)
(* writes from copies its stages read, so that an edit in the middle of it *)
(* voids this, and the two properties below, until the next run.           *)
ForeignUntouched ==
    [][edits' = edits /\ quiet =>
          \A t \in Tables :
              /\ \A i \in Changed(nb, nb', t) : Permitted(nb, t, i)
              /\ t \in {"mac", "ip"} =>
                     \A i \in Changed(nb, nb', t) \cup (DOMAIN nb'[t] \ DOMAIN nb[t]) :
                         OursAt(nb', nb'[t][i].assigned)]_vars

(* Manual fields survive: an update keeps the custom fields the sync does  *)
(* not manage, the tenant, and the identities and names of other sources.  *)
Kept(old, new) ==
    /\ new.cf.manual = old.cf.manual
    /\ {v \in old.cf.ids : ~OwnIdentity(v)} \subseteq new.cf.ids
    /\ {v \in old.cf.ids : v.schema = "v1"} \subseteq new.cf.ids
    /\ {p \in old.cf.names : p.key[2] # Source.instance} \subseteq new.cf.names

ManualKept ==
    [][edits' = edits /\ quiet =>
          /\ \A t \in Identified : \A i \in Changed(nb, nb', t) : Kept(nb[t][i], nb'[t][i])
          /\ \A v \in DOMAIN nb.vm : nb'.vm[v].tenant = nb.vm[v].tenant]_vars

(* The primary address of a virtual machine, once it is set, is changed by *)
(* nobody but an operator, whatever addresses discovery reports.           *)
VmPrimaryKept ==
    [][edits' = edits /\ quiet =>
          \A v \in DOMAIN nb.vm :
              (nb.vm[v].primary # NoObject /\ \E x \in nb.vm[v].cf.ids : x.kind = "qemu")
                  => nb'.vm[v].primary = nb.vm[v].primary]_vars

(* What no precheck looks at: a discovered interface or container whose    *)
(* new name another record of NetBox still bears, and an address or a MAC  *)
(* that discovery reports for objects of different stages.                 *)
NicNameTaken(v, e, n) ==
    e # NoObject /\ \E i \in InterfacesOf(nb, v) \ {e} : nb.vif[i].name = n.name

NameTaken ==
    \/ \E g \in ToSet(hosts.vms) : \E v \in find_vm(nb, g), n \in ToSet(g.nics) :
           NicNameTaken(v, Only(interface_match(nb, v, g, n)), n)
    \/ \E g \in ToSet(hosts.lxcs) : \E v \in find_lxc_vm(nb, g) :
           \/ \E n \in ToSet(g.nics) : NicNameTaken(v, Only(find_lxc_interface(nb, v, g, n)), n)
           \/ \E x \in DOMAIN nb.vm \ {v} : /\ nb.vm[x].name = g.name
                                            /\ nb.vm[x].cluster = nb.vm[v].cluster
                                            /\ nb.vm[x].tenant = nb.vm[v].tenant

StageAddresses ==
    <<ToSet(FlattenSeq([k \in DOMAIN hosts.hosts |->
          [j \in DOMAIN HostAddresses(hosts.hosts[k]) |-> HostAddresses(hosts.hosts[k])[j].address]])),
      ToSet(AllAddresses(hosts.vms)), ToSet(AllAddresses(hosts.lxcs))>>

Shared ==
    \/ \E h \in ToSet(hosts.hosts) : Repeated([k \in DOMAIN HostAddresses(h) |-> HostAddresses(h)[k].address])
    \/ \E j, k \in 1 .. 3 : j # k /\ StageAddresses[j] \cap StageAddresses[k] # {}
    \/ \E m \in ToSet(AllNics(hosts.vms)), n \in ToSet(AllNics(hosts.lxcs)) :
           m.mac # NoMac /\ m.mac = n.mac

(* The global precheck vouches for the writes, and a partial failure for   *)
(* the next run: once a full run has passed its precheck, no later run is  *)
(* blocked and no request refused, however often runs are cut, unless one  *)
(* of the clashes above is present.                                        *)
PrecheckCoversWrites ==
    accepted /\ point \in {"blocked", "refused"} => NameTaken \/ Shared

(* The container interfaces that the stage finds for n under the displayed *)
(* name, their identity before the provider's netX key became it.          *)
FormerlyNamed(v, g, n) ==
    {i \in find_lxc_interface(View, v, g, n) :
        /\ V2("lxc-nic", <<g.vmid, n.name>>) \in View.vif[i].cf.ids
        /\ lxc_nic_source_identity(g, n) \notin View.vif[i].cf.ids}

(* Report and stages agree on what discovery returned: a guest or an       *)
(* interface that some stage would write to is not reported missing, with  *)
(* one exception, which is reported missing every time: a container        *)
(* interface still recorded under its displayed name.  The stage finds it, *)
(* as docs/architecture.md promises, and report_missing_managed_objects    *)
(* does not look for that identity.                                        *)
MissingMeansGone ==
    point = "report" /\ ~report_missing_managed_objects_blocked(View, hosts) =>
        /\ \A g \in ToSet(hosts.vms) : find_vm(View, g) \cap missing_guests(View, hosts) = {}
        /\ \A g \in ToSet(hosts.lxcs) : find_lxc_vm(View, g) \cap missing_guests(View, hosts) = {}
        /\ \A g \in ToSet(hosts.vms), v \in DOMAIN View.vm : \A n \in ToSet(g.nics) :
               v \in find_vm(View, g) =>
                   interface_match(View, v, g, n) \cap missing_interfaces(View, hosts) = {}
        /\ \A g \in ToSet(hosts.lxcs), v \in DOMAIN View.vm : \A n \in ToSet(g.nics) :
               v \in find_lxc_vm(View, g) =>
                   find_lxc_interface(View, v, g, n) \cap missing_interfaces(View, hosts)
                       = FormerlyNamed(v, g, n)

(* Retries converge: after a full run has passed its precheck, a full run  *)
(* completes and leaves nothing to do, unless somebody edits or a clash    *)
(* stands in the way.                                                      *)
Converges == accepted ~> settled \/ ~accepted \/ NameTaken \/ Shared
=============================================================================
