---------------------------- MODULE Disappearance ----------------------------
(***************************************************************************)
(* netbox_disappearance.py: the report of managed objects that discovery   *)
(* no longer returns.  It deletes nothing, but an object with two managed  *)
(* identities makes it raise, which stops the run before any write.        *)
(***************************************************************************)
EXTENDS NetworkStages

(* Fault: only the stable identities count as discovered.                  *)
discovered_guests_v2(inv) ==
    {virtual_machine_source_identity(g) : g \in ToSet(inv.vms)}
    \cup {lxc_source_identity(g) : g \in ToSet(inv.lxcs)}

(* discovered_guests and discovered_interfaces: the legacy and the stable  *)
(* identity of everything discovery returned.                              *)
discovered_guests(inv) ==
    UNION {{V1(vm_identity_source_id(g)), virtual_machine_source_identity(g)} :
               g \in ToSet(inv.vms)}
    \cup UNION {{V1(lxc_identity_source_id(g)), lxc_source_identity(g)} : g \in ToSet(inv.lxcs)}

discovered_interfaces(inv) ==
    UNION {UNION {{V1(vm_identity_source_id(g) \o <<n.name>>),
                   virtual_machine_nic_source_identity(g, n)} : n \in ToSet(g.nics)} :
               g \in ToSet(inv.vms)}
    \cup UNION {UNION {{V1(lxc_identity_source_id(g) \o <<n.name>>),
                        lxc_nic_source_identity(g, n)} : n \in ToSet(g.nics)} :
                    g \in ToSet(inv.lxcs)}

(* source_scopes: the legacy owner's records are those under its nodes.    *)
InScope(inv, v) ==
    /\ v.schema = "v1" /\ v.type = Source.type /\ Len(v.ext) > 1
    /\ \E h \in ToSet(inv.hosts) : h.legacy_identity_owner /\ v.ext[1] = h.node

(* managed_identity: the stable identities of this source, and only when   *)
(* there is none the legacy ones in scope.  source_instances comes from    *)
(* the discovered hosts, so that without a host nothing is managed.        *)
managed_identities(inv, ids) ==
    LET v2 == {v \in ids : /\ v.schema = "v2" /\ inv.hosts # <<>>
                           /\ v.type = Source.type /\ v.instance = Source.instance}
    IN  IF v2 # {} THEN v2 ELSE {v \in ids : InScope(inv, v)}

ReportedVms(nb) == TargetVms(nb, SiteClusters(nb))

GuestMissing(nb, inv, v) ==
    LET managed == managed_identities(inv, nb.vm[v].cf.ids)
    IN  managed # {} /\ managed \cap discovered_guests(inv) = {}

missing_guests(nb, inv) == {v \in ReportedVms(nb) : GuestMissing(nb, inv, v)}

(* The interfaces of a managed guest that is not missing itself.           *)
ManagedPresent(nb, inv, v) ==
    managed_identities(inv, nb.vm[v].cf.ids) \cap discovered_guests(inv) # {}

missing_interfaces(nb, inv) ==
    {i \in DOMAIN nb.vif :
        LET managed == managed_identities(inv, nb.vif[i].cf.ids)
        IN  /\ nb.vif[i].vm \in ReportedVms(nb) /\ ManagedPresent(nb, inv, nb.vif[i].vm)
            /\ managed # {} /\ managed \cap discovered_interfaces(inv) = {}}

(* report_missing_managed_objects raises.                                  *)
report_missing_managed_objects_blocked(nb, inv) ==
    \/ "site" \notin nb.known
    \/ Cardinality(SiteClusters(nb)) # 1
    \/ \E v \in ReportedVms(nb) :
           \/ Cardinality(managed_identities(inv, nb.vm[v].cf.ids)) > 1
           \/ /\ ManagedPresent(nb, inv, v)
              /\ \E i \in InterfacesOf(nb, v) :
                     Cardinality(managed_identities(inv, nb.vif[i].cf.ids)) > 1
=============================================================================
