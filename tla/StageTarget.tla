----------------------------- MODULE StageTarget -----------------------------
(***************************************************************************)
(* What every apply stage shares: the configured NetBox target, the        *)
(* addresses of discovered interfaces, and the items of work a stage goes  *)
(* through after its preflight.                                            *)
(*                                                                         *)
(* An inventory is what discovery returned: hosts, QEMU or ESXi virtual    *)
(* machines (vms) and containers (lxcs), each a sequence in the order the  *)
(* stages visit them.  A host has a node key, a normalized name, a label   *)
(* (its original name), a management ip and interfaces ifs with addresses; *)
(* a guest has a node, a vmid, a name, a status, memory in bytes and nics  *)
(* with a provider key, a name, a MAC and addresses.  An address is a      *)
(* record of its ip and prefix length; names stand for their case-folded   *)
(* form.                                                                   *)
(***************************************************************************)
EXTENDS SourceIdentity, NetBoxStore, SequencesExt

CONSTANTS Target,        \* [site, cluster_type, form] of the source's target
          Unusable,      \* loopback, link-local, multicast and unspecified ips
          V6,            \* ips of version 6
          MiB            \* bytes in a unit of NetBox memory

NoMac == ""

NoTenant == ""

TypedClusters(nb) ==
    {c \in nb.clusters : c.type = Target.cluster_type /\ c.site = Target.site}

SiteClusters(nb) == {c \in nb.clusters : c.site = Target.site}

OnlyCluster(clusters) == (CHOOSE c \in clusters : TRUE).id

(* One item of work: what to do for which host or guest, for which of its  *)
(* interfaces and which address of that.                                   *)
Item(do, of, nic, addr) == [do |-> do, of |-> of, nic |-> nic, addr |-> addr]

usable_addresses(n) ==
    FlattenSeq([j \in DOMAIN n.addrs |->
        IF n.addrs[j].ip \in Unusable THEN <<>> ELSE <<n.addrs[j]>>])

AddressRecords(nb, a) == {i \in DOMAIN nb.ip : nb.ip[i].address = a}

MacRecords(nb, value) == {i \in DOMAIN nb.mac : nb.mac[i].value = value}

(* An address record may be used for an interface that does not hold it    *)
(* yet only when no object holds it; vif is 0 for an interface to create.  *)
Assignable(record, interface) ==
    record.assigned = Free \/ (interface[2] # NoObject /\ record.assigned = interface)

MemoryMiB(g) == g.memory \div MiB

StatusMap == [running |-> "active", stopped |-> "offline", paused |-> "paused"]

start_on_boot(g) == IF g.autostart THEN "on" ELSE "off"

Repeated(keys) == \E i, j \in DOMAIN keys : i # j /\ keys[i] = keys[j]

(* Every interface of the guests of a stage, in order.                     *)
AllNics(guests) == FlattenSeq([k \in DOMAIN guests |-> guests[k].nics])

AllAddresses(guests) ==
    LET nics == AllNics(guests)
    IN  FlattenSeq([k \in DOMAIN nics |-> usable_addresses(nics[k])])

(* The only distinct IPv4 address of the guest, as a set of at most one.   *)
PrimaryCandidate(g) ==
    LET v4 == {a \in ToSet(AllAddresses(<<g>>)) : a.ip \notin V6}
    IN  IF Cardinality(v4) = 1 THEN v4 ELSE {}
=============================================================================
