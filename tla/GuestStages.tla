----------------------------- MODULE GuestStages -----------------------------
(***************************************************************************)
(* netbox_vm_apply.py and netbox_lxc_apply.py: the virtual machine records *)
(* of QEMU or ESXi guests and of containers.  Both stages compute every    *)
(* change in their preflight and write from the records read there (snap). *)
(***************************************************************************)
EXTENDS StageTarget

TargetVms(nb, clusters) ==
    {v \in DOMAIN nb.vm : nb.vm[v].cluster = OnlyCluster(clusters)}

find_vm_sync_identity_matches(nb, candidates, g) ==
    select_best_identity_matches(
        [v \in candidates |-> vm_sync_identity_match_rank(nb.vm[v].cf.ids, g)])

(* _name_matches: names collide within one cluster and tenant.             *)
name_matches(nb, name, tenant, exclude) ==
    {v \in TargetVms(nb, TypedClusters(nb)) \ exclude :
        nb.vm[v].name = name /\ nb.vm[v].tenant = tenant}

vm_identity_matches(nb, g) == find_vm_sync_identity_matches(nb, DOMAIN nb.vm, g)

(* _preflight_vm: the contexts whose action is blocked.                    *)
preflight_vm(nb, g) ==
    LET matches == vm_identity_matches(nb, g)
    IN  \/ Cardinality(matches) > 1
        \/ \E v \in matches :
               \/ nb.vm[v].cluster # OnlyCluster(TypedClusters(nb))
               \/ name_matches(nb, g.name, nb.vm[v].tenant, {v}) # {}
        \/ matches = {} /\ name_matches(nb, g.name, NoTenant, {}) # {}
        \/ g.status \notin DOMAIN StatusMap

(* The preflight of apply_virtual_machines.                                *)
apply_virtual_machines_blocked(nb, inv) ==
    \/ ~({"site", "cluster_type"} \subseteq nb.known)
    \/ Cardinality(TypedClusters(nb)) # 1
    \/ Repeated([k \in DOMAIN inv.vms |-> vm_identity_source_id(inv.vms[k])])
    \/ Repeated([k \in DOMAIN inv.vms |-> inv.vms[k].name])
    \/ \E k \in DOMAIN inv.vms : preflight_vm(nb, inv.vms[k])

VmWork(inv) == [k \in DOMAIN inv.vms |-> Item("vm", k, 0, 0)]

(* build_vm_create_fields and _vm_changes.                                 *)
build_vm_create_fields(nb, g, cf) ==
    [name |-> g.name, cluster |-> OnlyCluster(TypedClusters(nb)),
     status |-> StatusMap[g.status], memory |-> MemoryMiB(g),
     boot |-> start_on_boot(g), cf |-> build_vm_custom_fields(g, cf)]

NewVm(fields) ==
    [name |-> fields.name, cluster |-> fields.cluster, status |-> fields.status,
     memory |-> fields.memory, boot |-> fields.boot, cf |-> fields.cf,
     tenant |-> NoTenant, primary |-> NoObject]

(* The write loop of apply_virtual_machines.                               *)
apply_virtual_machines_step(item, nb, snap, inv) ==
    LET g == inv.vms[item.of]
        matches == vm_identity_matches(snap, g)
        v == CHOOSE x \in matches : TRUE
    IN  IF matches = {}
        THEN Create(nb, "vm", NewVm(build_vm_create_fields(snap, g, NoFields)))
        ELSE Update("vm", v, snap.vm[v], build_vm_create_fields(snap, g, snap.vm[v].cf))

-----------------------------------------------------------------------------
find_lxc_sync_identity_matches(nb, g) ==
    select_best_identity_matches(
        [v \in DOMAIN nb.vm |-> lxc_sync_identity_match_rank(nb.vm[v].cf.ids, g)])

(* The checks of one container in apply_lxc_containers; a name collides    *)
(* whatever the tenant.                                                    *)
LxcConflict(nb, g) ==
    LET matches == find_lxc_sync_identity_matches(nb, g)
        cluster == OnlyCluster(SiteClusters(nb))
    IN  \/ Cardinality(matches) > 1
        \/ \E v \in matches : nb.vm[v].cluster # cluster
        \/ /\ matches = {}
           /\ \E v \in TargetVms(nb, SiteClusters(nb)) : nb.vm[v].name = g.name
        \/ g.status \notin DOMAIN StatusMap

(* The preflight of apply_lxc_containers.                                  *)
apply_lxc_containers_blocked(nb, inv) ==
    \/ "site" \notin nb.known
    \/ Cardinality(SiteClusters(nb)) # 1
    \/ Repeated([k \in DOMAIN inv.lxcs |-> lxc_identity_source_id(inv.lxcs[k])])
    \/ \E k \in DOMAIN inv.lxcs : LxcConflict(nb, inv.lxcs[k])

LxcWork(inv) == [k \in DOMAIN inv.lxcs |-> Item("lxc", k, 0, 0)]

(* _desired_fields.                                                        *)
lxc_desired_fields(nb, g, cf) ==
    [name |-> g.name, cluster |-> OnlyCluster(SiteClusters(nb)),
     status |-> StatusMap[g.status], memory |-> MemoryMiB(g),
     boot |-> start_on_boot(g), cf |-> build_lxc_custom_fields(g, cf)]

(* _changes.                                                               *)
UpdateLxc(v, record, desired) == Update("vm", v, record, desired)

(* The write loop of apply_lxc_containers.                                 *)
apply_lxc_containers_step(item, nb, snap, inv) ==
    LET g == inv.lxcs[item.of]
        matches == find_lxc_sync_identity_matches(snap, g)
        v == CHOOSE x \in matches : TRUE
    IN  IF matches = {}
        THEN Create(nb, "vm", NewVm(lxc_desired_fields(snap, g, NoFields)))
        ELSE UpdateLxc(v, snap.vm[v], lxc_desired_fields(snap, g, snap.vm[v].cf))
=============================================================================
