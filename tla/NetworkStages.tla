---------------------------- MODULE NetworkStages ----------------------------
(***************************************************************************)
(* netbox_vm_network_apply.py and netbox_lxc_network_apply.py: interfaces, *)
(* MAC addresses, IP addresses and the primary IPv4 of guests.  Both       *)
(* stages read all records once, in their preflight, and write from those  *)
(* copies (snap); the two files share their text but for the lookup of the *)
(* guest and for what is done with a primary address that is already set.  *)
(***************************************************************************)
EXTENDS GuestStages

InterfacesOf(nb, v) == {i \in DOMAIN nb.vif : nb.vif[i].vm = v}

Only(set) == IF set = {} THEN NoObject ELSE CHOOSE x \in set : TRUE

(* The checks of one MAC address and its interface e, 0 when the interface *)
(* is still to be created.                                                 *)
MacConflict(nb, e, n) ==
    LET records == MacRecords(nb, n.mac)
        primary == IF e = NoObject THEN NoObject ELSE nb.vif[e].pmac
    IN  /\ n.mac # NoMac
        /\ \/ Cardinality(records) > 1
           \/ \E i \in records : ~Assignable(nb.mac[i], <<"vif", e>>)
           \/ primary # NoObject /\ primary # Only(records)

NicAddressConflict(nb, e, n) ==
    \E a \in ToSet(usable_addresses(n)) :
        LET records == AddressRecords(nb, a)
        IN  \/ Cardinality(records) > 1
            \/ \E i \in records : ~Assignable(nb.ip[i], <<"vif", e>>)

(* A MAC or an address that discovery reports in two places.               *)
RepeatedAddresses(guests) ==
    \/ LET nics == SelectSeq(AllNics(guests), LAMBDA n : n.mac # NoMac)
       IN  Repeated([k \in DOMAIN nics |-> nics[k].mac])
    \/ Repeated(AllAddresses(guests))

GuestWork(k, g) ==
    FlattenSeq([j \in DOMAIN g.nics |->
        <<Item("vif", k, j, 0)>>
        \o (IF g.nics[j].mac = NoMac THEN <<>> ELSE <<Item("mac", k, j, 0), Item("pmac", k, j, 0)>>)
        \o [a \in DOMAIN usable_addresses(g.nics[j]) |-> Item("vip", k, j, a)]])
    \o (IF PrimaryCandidate(g) = {} THEN <<>> ELSE <<Item("primary", k, 0, 0)>>)

NetworkWork(guests) == FlattenSeq([k \in DOMAIN guests |-> GuestWork(k, guests[k])])

NicFields(name, cf) == [name |-> name, enabled |-> TRUE, cf |-> cf]

NewNic(v, fields) ==
    [vm |-> v, name |-> fields.name, enabled |-> TRUE, cf |-> fields.cf, pmac |-> NoObject]

(* Create the record of an address or a MAC, assign a free one, keep one   *)
(* the interface already holds.                                            *)
AssignRecord(nb, snap, t, records, record, interface) ==
    LET id == Only(records)
    IN  IF records = {} THEN Create(nb, t, record)
        ELSE IF snap[t][id].assigned = Free
             THEN Update(t, id, snap[t][id], [assigned |-> <<"vif", interface>>])
             ELSE Skip(t, id)

(* Fault: the primary MAC is never read back.                              *)
NoPrimaryMac(snap, interface) == NoObject

(* The primary MAC of the interface as the stage knows it: that of a new   *)
(* interface is empty.                                                     *)
CurrentPrimaryMac(snap, interface) ==
    IF interface \in DOMAIN snap.vif THEN snap.vif[interface].pmac ELSE NoObject

(* The item that wrote the candidate address of a guest.                   *)
CandidateItem(k, g) ==
    CHOOSE x \in ToSet(GuestWork(k, g)) :
        x.do = "vip" /\ usable_addresses(g.nics[x.nic])[x.addr] \in PrimaryCandidate(g)

-----------------------------------------------------------------------------
(* _find_vm.                                                               *)
find_vm(nb, g) ==
    find_vm_sync_identity_matches(nb, TargetVms(nb, SiteClusters(nb)), g)

interface_match(nb, v, g, n) ==
    select_best_identity_matches(
        [i \in InterfacesOf(nb, v) |-> nic_sync_identity_match_rank(nb.vif[i].cf.ids, g, n)])

(* Fault: an interface of the same name is taken for the discovered one.   *)
interface_conflict_by_name(nb, v, g, n) == Cardinality(interface_match(nb, v, g, n)) > 1

(* _interface_match.                                                       *)
interface_conflict(nb, v, g, n) ==
    LET matches == interface_match(nb, v, g, n)
    IN  \/ Cardinality(matches) > 1
        \/ matches = {} /\ \E i \in InterfacesOf(nb, v) : nb.vif[i].name = n.name

(* _primary_ip_belongs_to_vm.                                              *)
primary_ip_belongs_to_vm(nb, ip, v) ==
    \E i \in InterfacesOf(nb, v) : ip \in DOMAIN nb.ip /\ nb.ip[ip].assigned = <<"vif", i>>

PrimaryAction(nb, v, g) ==
    LET current == nb.vm[v].primary
        records == UNION {AddressRecords(nb, a) : a \in PrimaryCandidate(g)}
    IN  CASE current = NoObject -> "set"
          [] current # NoObject /\ records = {current} -> "match"
          [] current # NoObject /\ records # {current} /\ primary_ip_belongs_to_vm(nb, current, v)
                -> "preserve_manual"
          [] OTHER -> "conflict"

VmNetworkConflict(nb, g) ==
    LET matches == find_vm(nb, g)
        v == Only(matches)
    IN  \/ Cardinality(matches) # 1
        \/ Repeated([k \in DOMAIN g.nics |-> g.nics[k].name])
        \/ \E n \in ToSet(g.nics) :
               LET e == Only(interface_match(nb, v, g, n))
               IN  interface_conflict(nb, v, g, n) \/ MacConflict(nb, e, n)
                   \/ NicAddressConflict(nb, e, n)
        \/ PrimaryCandidate(g) # {} /\ PrimaryAction(nb, v, g) = "conflict"

(* The preflight of apply_vm_networks.                                     *)
apply_vm_networks_blocked(nb, inv) ==
    \/ "site" \notin nb.known
    \/ Cardinality(SiteClusters(nb)) # 1
    \/ \E k \in DOMAIN inv.vms : VmNetworkConflict(nb, inv.vms[k])
    \/ RepeatedAddresses(inv.vms)

WriteVmNic(nb, snap, g, n) ==
    LET v == Only(find_vm(snap, g))
        e == Only(interface_match(snap, v, g, n))
    IN  IF e = NoObject
        THEN Create(nb, "vif", NewNic(v, NicFields(n.name, build_nic_custom_fields(g, n, NoFields))))
        ELSE Update("vif", e, snap.vif[e],
                    NicFields(n.name, build_nic_custom_fields(g, n, snap.vif[e].cf)))

WriteVmMac(nb, snap, n, interface) ==
    AssignRecord(nb, snap, "mac", MacRecords(snap, n.mac),
                 [value |-> n.mac, assigned |-> <<"vif", interface>>], interface)

WriteVmPrimaryMac(snap, interface, mac) ==
    IF CurrentPrimaryMac(snap, interface) = mac THEN Skip("vif", interface)
    ELSE Update("vif", interface, [pmac |-> NoObject], [pmac |-> mac])

WriteVmAddress(nb, snap, a, interface) ==
    AssignRecord(nb, snap, "ip", AddressRecords(snap, a),
                 [address |-> a, assigned |-> <<"vif", interface>>], interface)

(* Fault: the primary address follows discovery whatever it was.           *)
FollowVmPrimary(snap, g, ip) ==
    LET v == Only(find_vm(snap, g)) IN Update("vm", v, snap.vm[v], [primary |-> ip])

WriteVmPrimary(snap, g, ip) ==
    LET v == Only(find_vm(snap, g))
    IN  IF PrimaryAction(snap, v, g) = "preserve_manual" THEN Skip("vm", v)
        ELSE Update("vm", v, snap.vm[v], [primary |-> ip])

(* The write loop of apply_vm_networks.                                    *)
apply_vm_networks_step(item, nb, snap, inv, objs) ==
    LET g == inv.vms[item.of]
        interface == objs[Item("vif", item.of, item.nic, 0)]
    IN  CASE item.do = "vif" -> WriteVmNic(nb, snap, g, g.nics[item.nic])
          [] item.do = "mac" -> WriteVmMac(nb, snap, g.nics[item.nic], interface)
          [] item.do = "pmac" ->
                WriteVmPrimaryMac(snap, interface, objs[Item("mac", item.of, item.nic, 0)])
          [] item.do = "vip" ->
                WriteVmAddress(nb, snap, usable_addresses(g.nics[item.nic])[item.addr], interface)
          [] OTHER -> WriteVmPrimary(snap, g, objs[CandidateItem(item.of, g)])

-----------------------------------------------------------------------------
(* _find_lxc_vm, over all records; the cluster is checked afterwards.      *)
find_lxc_vm(nb, g) == find_lxc_sync_identity_matches(nb, g)

find_lxc_interface(nb, v, g, n) ==
    select_best_identity_matches(
        [i \in InterfacesOf(nb, v) |-> lxc_nic_match_rank(nb.vif[i].cf.ids, g, n)])

(* _find_interface.                                                        *)
lxc_interface_conflict(nb, v, g, n) ==
    LET matches == find_lxc_interface(nb, v, g, n)
    IN  \/ Cardinality(matches) > 1
        \/ matches = {} /\ \E i \in InterfacesOf(nb, v) : nb.vif[i].name = n.name

(* The container's file repeats the checks of MACs and addresses.          *)
LxcMacConflict(nb, e, n) == MacConflict(nb, e, n)

LxcNicAddressConflict(nb, e, n) == NicAddressConflict(nb, e, n)

LxcNetworkConflict(nb, g) ==
    LET matches == find_lxc_vm(nb, g)
        v == Only(matches)
    IN  \/ Cardinality(matches) # 1
        \/ nb.vm[v].cluster # OnlyCluster(SiteClusters(nb))
        \/ Repeated([k \in DOMAIN g.nics |-> g.nics[k].name])
        \/ \E n \in ToSet(g.nics) :
               LET e == Only(find_lxc_interface(nb, v, g, n))
               IN  lxc_interface_conflict(nb, v, g, n) \/ LxcMacConflict(nb, e, n)
                   \/ LxcNicAddressConflict(nb, e, n)

LxcRepeatedAddresses(guests) == RepeatedAddresses(guests)

(* The preflight of apply_lxc_networks.                                    *)
apply_lxc_networks_blocked(nb, inv) ==
    \/ "site" \notin nb.known
    \/ Cardinality(SiteClusters(nb)) # 1
    \/ \E k \in DOMAIN inv.lxcs : LxcNetworkConflict(nb, inv.lxcs[k])
    \/ LxcRepeatedAddresses(inv.lxcs)

(* _interface_changes, and the fields of a new interface.                  *)
LxcNicFields(g, n, cf) == NicFields(n.name, build_lxc_nic_custom_fields(g, n, cf))

WriteLxcNic(nb, snap, g, n) ==
    LET v == Only(find_lxc_vm(snap, g))
        e == Only(find_lxc_interface(snap, v, g, n))
    IN  IF e = NoObject
        THEN Create(nb, "vif", NewNic(v, LxcNicFields(g, n, NoFields)))
        ELSE Update("vif", e, snap.vif[e], LxcNicFields(g, n, snap.vif[e].cf))

WriteLxcMac(nb, snap, n, interface) ==
    AssignRecord(nb, snap, "mac", MacRecords(snap, n.mac),
                 [value |-> n.mac, assigned |-> <<"vif", interface>>], interface)

WriteLxcPrimaryMac(snap, interface, mac) ==
    IF CurrentPrimaryMac(snap, interface) = mac THEN Skip("vif", interface)
    ELSE Update("vif", interface, [pmac |-> NoObject], [pmac |-> mac])

WriteLxcAddress(nb, snap, a, interface) ==
    AssignRecord(nb, snap, "ip", AddressRecords(snap, a),
                 [address |-> a, assigned |-> <<"vif", interface>>], interface)

(* Whatever primary address was set is replaced.                           *)
WriteLxcPrimary(snap, g, ip) ==
    LET v == Only(find_lxc_vm(snap, g)) IN Update("vm", v, snap.vm[v], [primary |-> ip])

(* The write loop of apply_lxc_networks.                                   *)
apply_lxc_networks_step(item, nb, snap, inv, objs) ==
    LET g == inv.lxcs[item.of]
        interface == objs[Item("vif", item.of, item.nic, 0)]
    IN  CASE item.do = "vif" -> WriteLxcNic(nb, snap, g, g.nics[item.nic])
          [] item.do = "mac" -> WriteLxcMac(nb, snap, g.nics[item.nic], interface)
          [] item.do = "pmac" ->
                WriteLxcPrimaryMac(snap, interface, objs[Item("mac", item.of, item.nic, 0)])
          [] item.do = "vip" ->
                WriteLxcAddress(nb, snap, usable_addresses(g.nics[item.nic])[item.addr], interface)
          [] OTHER -> WriteLxcPrimary(snap, g, objs[CandidateItem(item.of, g)])
=============================================================================
