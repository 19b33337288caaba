------------------------------ MODULE HostStage ------------------------------
(***************************************************************************)
(* netbox_apply.py: devices, their interfaces and their addresses.         *)
(* nb is what NetBox answers now; snap is what the stage holds from its    *)
(* preflight, refreshed for interfaces after the device was written; objs  *)
(* maps each item of work already done to the object it resolved to.       *)
(***************************************************************************)
EXTENDS StageTarget

find_sync_identity_matches(nb, h) ==
    select_best_identity_matches(
        [d \in DOMAIN nb.device |-> sync_identity_match_rank(nb.device[d].cf.ids, h)])

PrimaryIp(nb, d) ==
    IF nb.device[d].primary = NoObject THEN "" ELSE nb.ip[nb.device[d].primary].address.ip

(* _resolve_device: the management ip and the name are evidence of a       *)
(* conflict and never of ownership.                                        *)
resolve_device(nb, h) == find_sync_identity_matches(nb, h)

DeviceConflict(nb, h) ==
    LET matches == resolve_device(nb, h)
    IN  \/ Cardinality(matches) > 1
        \/ /\ matches = {}
           /\ \E d \in DOMAIN nb.device : PrimaryIp(nb, d) = h.ip \/ nb.device[d].name = h.name
        \/ \E d \in matches : nb.device[d].site # Target.site

HostAddresses(h) ==
    FlattenSeq([k \in DOMAIN h.ifs |->
        [j \in DOMAIN h.ifs[k].addrs |-> [nic |-> k, addr |-> j, address |-> h.ifs[k].addrs[j]]]])

(* _management_binding.                                                    *)
management_binding(h) == SelectSeq(HostAddresses(h), LAMBDA x : x.address.ip = h.ip)

interface_named(nb, d, name) ==
    {i \in DOMAIN nb.dif : nb.dif[i].device = d /\ nb.dif[i].name = name}

(* The interface a device already has, as the assignment of its addresses. *)
ExistingInterface(nb, h, k) ==
    LET found == UNION {interface_named(nb, d, h.ifs[k].name) : d \in resolve_device(nb, h)}
    IN  <<"dif", IF found = {} THEN NoObject ELSE CHOOSE i \in found : TRUE>>

AddressConflict(nb, h) ==
    \E x \in ToSet(HostAddresses(h)) :
        LET records == AddressRecords(nb, x.address)
        IN  \/ Cardinality(records) > 1
            \/ \E i \in records : ~Assignable(nb.ip[i], ExistingInterface(nb, h, x.nic))

(* _preflight_host.                                                        *)
HostConflict(nb, h) ==
    \/ DeviceConflict(nb, h)
    \/ Repeated([k \in DOMAIN h.ifs |-> h.ifs[k].name])
    \/ Len(management_binding(h)) # 1
    \/ AddressConflict(nb, h)

(* The preflight of apply_hosts.                                           *)
apply_hosts_blocked(nb, inv) ==
    \/ ~({"site", "device_role", "platform", "device_type", "cluster_type"} \subseteq nb.known)
    \/ Cardinality(TypedClusters(nb)) # 1
    \/ \E k \in DOMAIN inv.hosts : HostConflict(nb, inv.hosts[k])

(* The interfaces of a host are listed, and written, in the order of their *)
(* names, its addresses in the order of the interfaces.                    *)
HostWork(inv) ==
    FlattenSeq([k \in DOMAIN inv.hosts |->
        LET h == inv.hosts[k]
            addresses == HostAddresses(h)
        IN  <<Item("device", k, 0, 0)>>
            \o [j \in DOMAIN h.ifs |-> Item("dif", k, j, 0)]
            \o [j \in DOMAIN addresses |-> Item("dip", k, addresses[j].nic, addresses[j].addr)]
            \o <<Item("dprimary", k, 0, 0)>>])

DeviceFields(nb, h, cf) ==
    [site |-> Target.site, form |-> Target.form, cluster |-> OnlyCluster(TypedClusters(nb)),
     cf |-> build_device_custom_fields(h, cf)]

(* devices.create or _device_changes and update.                           *)
WriteDevice(nb, snap, h) ==
    LET matches == resolve_device(snap, h)
        d == CHOOSE x \in matches : TRUE
        new == DeviceFields(snap, h, NoFields)
    IN  IF matches = {}
        THEN Create(nb, "device", [name |-> h.name, site |-> new.site, form |-> new.form,
                                   cluster |-> new.cluster, cf |-> new.cf, primary |-> NoObject])
        ELSE Update("device", d, snap.device[d], DeviceFields(snap, h, snap.device[d].cf))

(* _load_existing_interfaces after the device exists.                      *)
load_existing_interfaces(snap, nb) == [snap EXCEPT !.dif = nb.dif]

InterfaceFields(i) ==
    [type |-> IF i.type \in {"bridge", "vlan"} THEN "virtual" ELSE "other",
     enabled |-> i.autostart]

(* interfaces.create or _interface_changes and update; a description is    *)
(* written only when discovery has one.                                    *)
WriteInterface(nb, snap, device, i) ==
    LET found == interface_named(snap, device, i.name)
        id == CHOOSE x \in found : TRUE
        fields == InterfaceFields(i)
    IN  IF found = {}
        THEN Create(nb, "dif", [device |-> device, name |-> i.name, type |-> fields.type,
                                enabled |-> fields.enabled, description |-> i.comments])
        ELSE Update("dif", id, snap.dif[id],
                    IF i.comments = "" THEN fields
                    ELSE [type |-> fields.type, enabled |-> fields.enabled,
                          description |-> i.comments])

(* The address records are read again before each write.                   *)
WriteAddress(nb, interface, address) ==
    LET records == AddressRecords(nb, address)
        id == CHOOSE x \in records : TRUE
    IN  CASE Cardinality(records) > 1 -> Raise
          [] records = {} ->
                Create(nb, "ip", [address |-> address, assigned |-> <<"dif", interface>>])
          [] OTHER -> IF Assignable(nb.ip[id], <<"dif", interface>>)
                      THEN Update("ip", id, nb.ip[id], [assigned |-> <<"dif", interface>>])
                      ELSE Raise

(* The management address becomes the primary address of the device, whose *)
(* current state is read again.                                            *)
WritePrimary(nb, k, h, objs) ==
    LET binding == management_binding(h)[1]
        device == objs[Item("device", k, 0, 0)]
    IN  Update("device", device, nb.device[device],
               [primary |-> objs[Item("dip", k, binding.nic, binding.addr)]])

(* The write loop of apply_hosts.                                          *)
apply_hosts_step(item, nb, snap, inv, objs) ==
    LET h == inv.hosts[item.of]
    IN  CASE item.do = "device" -> WriteDevice(nb, snap, h)
          [] item.do = "dif" ->
                WriteInterface(nb, snap, objs[Item("device", item.of, 0, 0)], h.ifs[item.nic])
          [] item.do = "dip" ->
                WriteAddress(nb, objs[Item("dif", item.of, item.nic, 0)],
                             h.ifs[item.nic].addrs[item.addr])
          [] OTHER -> WritePrimary(nb, item.of, h, objs)
=============================================================================
