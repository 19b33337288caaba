--------------------------- MODULE DiscoveryReview ---------------------------
(***************************************************************************)
(* application/discovery_review.py for Proxmox sources: the classification *)
(* of discovered objects that decides whether the runtime plan is built.   *)
(* A record is managed here by its exact v2 identity only: a record that   *)
(* still carries a legacy identity counts as unmanaged.                    *)
(***************************************************************************)
EXTENDS HostStage, Disappearance

(* _generic_item; collides says that a target record has the same name.    *)
generic_item(managed, target, collides) ==
    CASE Cardinality(managed) = 1 /\ managed \subseteq target -> "MANAGED"
      [] managed # {} /\ ~(Cardinality(managed) = 1 /\ managed \subseteq target) -> "CONFLICT"
      [] managed = {} /\ collides -> "REVIEW_REQUIRED"
      [] OTHER -> "WOULD_CREATE"

TargetDevices(nb) ==
    {d \in DOMAIN nb.device : /\ nb.device[d].site = Target.site
                              /\ nb.device[d].cluster = OnlyCluster(TypedClusters(nb))}

(* _proxmox_host_item: the management address is evidence for review.      *)
proxmox_host_item(nb, h) ==
    LET managed == {d \in DOMAIN nb.device : host_source_identity(h) \in nb.device[d].cf.ids}
        item == generic_item(managed, TargetDevices(nb),
                             \E d \in TargetDevices(nb) : nb.device[d].name = h.label)
        same_ip == {d \in DOMAIN nb.device : h.ip # "" /\ PrimaryIp(nb, d) = h.ip}
    IN  IF item # "WOULD_CREATE" \/ same_ip = {} THEN item
        ELSE IF Cardinality(same_ip) = 1 /\ same_ip \subseteq TargetDevices(nb)
             THEN "REVIEW_REQUIRED" ELSE "CONFLICT"

GuestItem(nb, identity, name) ==
    generic_item({v \in DOMAIN nb.vm : identity \in nb.vm[v].cf.ids},
                 TargetVms(nb, TypedClusters(nb)),
                 \E v \in TargetVms(nb, TypedClusters(nb)) : nb.vm[v].name = name)

(* build_proxmox_review: the classifications it finds.                     *)
build_proxmox_review(nb, inv) ==
    {proxmox_host_item(nb, h) : h \in ToSet(inv.hosts)}
    \cup {GuestItem(nb, virtual_machine_source_identity(g), g.name) : g \in ToSet(inv.vms)}
    \cup {GuestItem(nb, lxc_source_identity(g), g.name) : g \in ToSet(inv.lxcs)}

review_raises(nb) ==
    \/ ~({"site", "cluster_type"} \subseteq nb.known)
    \/ Cardinality(TypedClusters(nb)) # 1

(* apply_allowed of plan_from_review.                                      *)
apply_allowed(nb, inv) == "CONFLICT" \notin build_proxmox_review(nb, inv)
=============================================================================
