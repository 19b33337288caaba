----------------------------- MODULE MCFullApply -----------------------------
(***************************************************************************)
(* Instances of FullApply: one host, one QEMU guest and one container of   *)
(* one source next to a virtual machine that belongs to nobody.  Each      *)
(* initial NetBox differs from a baseline in one part, or in the parts of  *)
(* one guest together.                                                     *)
(***************************************************************************)
EXTENDS FullApply

A(ip) == [ip |-> ip, len |-> 24]

MCSource == [type |-> "proxmox", instance |-> "i1"]
MCTarget == [site |-> "s", cluster_type |-> "t", form |-> "pve"]
MCIds == 1 .. 6

Host == [legacy_identity_owner |-> TRUE, node |-> "n1", name |-> "h1", label |-> "h1", hardware |-> "hw", ip |-> "10.1",
         ifs |-> <<[name |-> "br0", type |-> "bridge", autostart |-> TRUE, comments |-> "",
                    addrs |-> <<A("10.1")>>]>>]

Nic(key, name, mac, addrs) ==
    [key |-> key, name |-> name, mac |-> mac, bridge |-> "br0", addrs |-> addrs]

Qemu == [legacy_identity_owner |-> TRUE, node |-> "n1", vmid |-> "100", name |-> "web", status |-> "running", memory |-> 5,
         autostart |-> TRUE, nics |-> <<Nic("net0", "net0", "m1", <<A("10.2"), A("127.0")>>)>>]

Lxc == [legacy_identity_owner |-> TRUE, node |-> "n1", vmid |-> "200", name |-> "db", status |-> "stopped", memory |-> 4,
        autostart |-> FALSE, os |-> "debian", nics |-> <<Nic("net0", "eth0", "m2", <<A("10.3")>>)>>]

Found(h, v, l) == [hosts |-> h, vms |-> v, lxcs |-> l]

Everything == Found(<<Host>>, <<Qemu>>, <<Lxc>>)

(* The same of a source that does not own the legacy identities.           *)
SecondSource ==
    Found(<<[Host EXCEPT !.legacy_identity_owner = FALSE]>>,
          <<[Qemu EXCEPT !.legacy_identity_owner = FALSE]>>,
          <<[Lxc EXCEPT !.legacy_identity_owner = FALSE]>>)

-----------------------------------------------------------------------------
(* The parts of a NetBox: a device, the guests with their interfaces and   *)
(* the address records, as the choices that tell the cases apart.          *)
Cf(ids) == [ids |-> ids, names |-> {}, manual |-> "kept", extra |-> ""]

Clusters == {[id |-> 1, type |-> "t", site |-> "s"], [id |-> 2, type |-> "t", site |-> "other"]}

Known == {"site", "device_role", "platform", "device_type", "cluster_type"}

OtherSource == [V2("host", <<"n1">>) EXCEPT !.instance = "i2"]

DeviceIds(kind) ==
    CASE kind = "owned" -> {V2("host", <<"n1">>), OtherSource}
      [] kind = "legacy" -> {V1(<<"n1">>)}
      [] kind = "name" -> {}
      [] kind = "elsewhere" -> {V2("host", <<"n1">>)}

Device(kind) ==
    [name |-> "h1", site |-> "s", form |-> "pve", cf |-> Cf(DeviceIds(kind)),
     cluster |-> IF kind = "elsewhere" THEN 2 ELSE 1, primary |-> NoObject]

VmIds(kind, v2, v1) == CASE kind = "owned" -> {v2, [v2 EXCEPT !.instance = "i2"]}
                         [] kind = "legacy" -> {v1}
                         [] OTHER -> {}

Vm(name, ids, primary) ==
    [name |-> name, cluster |-> 1, status |-> "active", memory |-> 2, boot |-> "off",
     cf |-> Cf(ids), tenant |-> NoTenant, primary |-> primary]

Vif(vm, name, ids) ==
    [vm |-> vm, name |-> name, enabled |-> TRUE, cf |-> Cf(ids), pmac |-> NoObject]

Rows(f, ids) == [i \in ids |-> f[i]]

(* vm 1 is the QEMU guest, vm 2 the container, vm 3 a stranger; interfaces *)
(* and addresses are numbered alike; an operator gave address 4 to the     *)
(* guest, or 5 to the container, and made it primary.                      *)
Store(c) ==
    LET vm == <<Vm("web", VmIds(c.vm, V2("qemu", <<"100">>), V1(<<"n1", "100">>)),
                   IF c.primary = "manual" THEN 4 ELSE NoObject),
                Vm("db", VmIds(c.lxc, V2("lxc", <<"200">>), V1(<<"n1", "lxc", "200">>)),
                   IF c.primary = "lxc" THEN 5 ELSE NoObject),
                Vm("other", {}, NoObject)>>
        vif == <<Vif(1, "net0", VmIds(c.vif, V2("qemu-nic", <<"100", "net0">>), V1(<<"n1", "100", "net0">>))),
                 Vif(2, "eth0", VmIds(c.lif, V2("lxc-nic", <<"200", IF c.key THEN "net0" ELSE "eth0">>),
                                      V1(<<"n1", "lxc", "200", "eth0">>))),
                 Vif(3, "net0", {})>>
        held(how, own) == CASE how = "own" -> <<"vif", own>> [] how = "foreign" -> <<"vif", 3>>
                            [] OTHER -> Free
        mac == <<[value |-> "m1", assigned |-> held(c.mac, 1)]>>
        ip == <<[address |-> A("10.1"), assigned |-> held(c.ip1, 0)],
                [address |-> A("10.2"), assigned |-> held(c.ip, 1)],
                [address |-> A("10.3"), assigned |-> held(c.ip3, 2)],
                [address |-> A("10.9"), assigned |-> <<"vif", 1>>],
                [address |-> A("10.8"), assigned |-> <<"vif", 2>>]>>
    IN  [device |-> IF c.device = "absent" THEN <<>> ELSE <<Device(c.device)>>,
         dif |-> <<>>,
         vm |-> Rows(vm, {3} \cup (IF c.vm = "absent" THEN {} ELSE {1})
                             \cup (IF c.lxc = "absent" THEN {} ELSE {2})),
         vif |-> Rows(vif, {3} \cup (IF c.vif = "absent" THEN {} ELSE {1})
                              \cup (IF c.lif = "absent" THEN {} ELSE {2})),
         mac |-> Rows(mac, IF c.mac = "absent" THEN {} ELSE {1}),
         ip |-> Rows(ip, (IF c.ip1 = "absent" THEN {} ELSE {1})
                         \cup (IF c.ip = "absent" THEN {} ELSE {2})
                         \cup (IF c.ip3 = "absent" THEN {} ELSE {3})
                         \cup (CASE c.primary = "manual" -> {4} [] c.primary = "lxc" -> {5}
                                  [] OTHER -> {})),
         known |-> Known, clusters |-> Clusters]

Baseline ==
    [device |-> "absent", vm |-> "owned", vif |-> "absent", mac |-> "absent", ip |-> "absent",
     primary |-> "none", lxc |-> "owned", lif |-> "absent", key |-> TRUE, ip1 |-> "absent",
     ip3 |-> "absent"]

DeviceCases ==
    {[Baseline EXCEPT !.device = d, !.ip1 = i] :
        d \in {"absent", "owned", "legacy", "name", "elsewhere"}, i \in {"absent", "free", "foreign"}}
    \cup {[Baseline EXCEPT !.device = "elsewhere", !.ip = i, !.vif = n, !.ip3 = j] :
        i \in {"absent", "foreign"}, n \in {"absent", "name"}, j \in {"absent", "foreign"}}

VmCases ==
    {[Baseline EXCEPT !.vm = v, !.vif = n, !.mac = m, !.ip = i, !.primary = p] :
        v \in {"owned", "legacy"}, n \in {"owned", "legacy", "name"},
        m \in {"absent", "free", "own", "foreign"}, i \in {"absent", "free", "own", "foreign"},
        p \in {"none", "manual"}}
    \cup {[Baseline EXCEPT !.vm = v, !.mac = m, !.ip = i] :
        v \in {"owned", "legacy", "name"}, m \in {"absent", "free"}, i \in {"absent", "free"}}

LxcCases ==
    {[Baseline EXCEPT !.lxc = l, !.lif = n, !.key = k, !.ip3 = i] :
        l \in {"owned", "legacy"}, n \in {"owned", "legacy"}, k \in BOOLEAN,
        i \in {"absent", "free", "own", "foreign"}}
    \cup {[Baseline EXCEPT !.lxc = l, !.ip3 = i] :
        l \in {"owned", "legacy", "name"}, i \in {"absent", "free"}}

AllCases == DeviceCases \cup VmCases \cup LxcCases

-----------------------------------------------------------------------------
(* The provider changes: guests and interfaces are renamed, stopped,       *)
(* swapped or gone, addresses move or are reported twice.                  *)
Renamed == [Qemu EXCEPT !.name = "web2", !.status = "stopped",
                        !.nics = <<Nic("net0", "ens18", "m1", <<A("10.4")>>)>>]

TwoNics(a, b) == [Qemu EXCEPT !.nics = <<Nic("net0", a, "m1", <<A("10.2")>>),
                                         Nic("net1", b, NoMac, <<A("10.4")>>)>>]

TwoPorts == [Host EXCEPT !.ifs = @ \o <<[name |-> "eno1", type |-> "eth", autostart |-> FALSE,
                                         comments |-> "lag", addrs |-> <<A("10.7")>>],
                                        [name |-> "eno2", type |-> "eth", autostart |-> TRUE,
                                         comments |-> "lag", addrs |-> <<A("10.7")>>]>>]

MCInventories ==
    {Everything,
     Found(<<TwoPorts>>, <<Qemu>>, <<Lxc>>),
     Found(<<Host>>, <<Renamed>>, <<>>),
     Found(<<Host>>, <<[Qemu EXCEPT !.nics = <<>>]>>, <<Lxc>>),
     Found(<<Host>>, <<TwoNics("net0", "net1")>>, <<Lxc>>),
     Found(<<Host>>, <<TwoNics("net1", "net0")>>, <<Lxc>>),
     Found(<<Host>>, <<Qemu>>, <<[Lxc EXCEPT !.nics[1].addrs = <<A("10.1")>>]>>)}

-----------------------------------------------------------------------------
(* Scenarios: requests are cut in every case; a second source meets every  *)
(* case; edits and changes of the inventory between runs, or one inside a  *)
(* run; runs of single stages among full ones.                             *)
Scenario(c, i, scopes, cuts, changes, concurrent) ==
    [nb |-> Store(c), inv |-> i,
     limits |-> [scopes |-> scopes, faults |-> cuts, edits |-> changes, concurrent |-> concurrent]]

Cuts == {Scenario(c, Everything, {"full"}, 2, 0, FALSE) : c \in AllCases}

Seconds == {Scenario(c, SecondSource, {"full"}, 0, 0, FALSE) : c \in AllCases}

Migrating == [Baseline EXCEPT !.vm = "legacy"]

Edits == {Scenario(Migrating, i, {"full"}, 0, 2, FALSE) : i \in MCInventories}

Races == {Scenario(c, Everything, {"full"}, 0, 1, TRUE) :
             c \in {Migrating, [Baseline EXCEPT !.ip = "free"]}}

NotYetKnown == [Baseline EXCEPT !.vm = "absent", !.lxc = "absent"]

Stages == {Scenario(c, Everything, {"full", "host", "vm", "vm-network", "lxc", "lxc-network"}, 1, 0, FALSE) :
              c \in {NotYetKnown} \cup {[Migrating EXCEPT !.device = d] : d \in {"legacy", "name"}}}

MCScenarios == Cuts \cup Seconds \cup Edits \cup Races \cup Stages

LiveScenarios ==
    {Scenario([Migrating EXCEPT !.device = "legacy", !.ip1 = "free", !.lxc = "absent"],
              Found(<<Host>>, <<Qemu>>, <<>>), {"full"}, 1, 0, FALSE)}
=============================================================================
