--------------------------- MODULE SourceIdentity ---------------------------
(***************************************************************************)
(* Versioned identities of source-owned objects (source_identity.py) and   *)
(* the custom fields that carry them (netbox_*_metadata.py).               *)
(*                                                                         *)
(* The list kept in the custom field sync_identities is a set: the code    *)
(* sorts it and never depends on its order.  sync_original_names is a set  *)
(* of key and name pairs.  manual stands for every custom field the sync   *)
(* does not manage and extra for the managed ones that only describe the   *)
(* object.  Both lists are there and well formed, or empty: merging raises *)
(* on a field that is present but null or of another type, and such a      *)
(* NetBox is not among the ones modelled.                                  *)
(***************************************************************************)
EXTENDS Integers, Sequences, FiniteSets, FiniteSetsExt

CONSTANT Source          \* [type, instance] of the source being synchronized

V2(kind, ext) == [schema |-> "v2", type |-> Source.type, instance |-> Source.instance,
                  kind |-> kind, ext |-> ext]

V1(id) == [schema |-> "v1", type |-> Source.type, instance |-> "", kind |-> "", ext |-> id]

host_source_identity(h) == V2("host", <<h.node>>)

virtual_machine_source_identity(g) ==
    V2(IF Source.type = "esxi" THEN "vm" ELSE "qemu", <<g.vmid>>)

virtual_machine_nic_source_identity(g, n) ==
    V2(IF Source.type = "esxi" THEN "vm-nic" ELSE "qemu-nic", <<g.vmid, n.key>>)

lxc_source_identity(g) == V2("lxc", <<g.vmid>>)

lxc_nic_source_identity(g, n) == V2("lxc-nic", <<g.vmid, n.key>>)

(* Fault: a missing v2 record counts as a legacy one for everybody.        *)
match_rank_any_owner(ids, desired, legacy_ids, owner) ==
    IF desired \in ids THEN 2
    ELSE IF \E v \in ids : v.type = desired.type /\ v.ext \in legacy_ids THEN 1 ELSE 0

(* source_identity_match_rank: 2 for the exact v2 record, 1 for a legacy   *)
(* record that the explicit owner may still claim, 0 otherwise.            *)
source_identity_match_rank(ids, desired, legacy_ids, owner) ==
    IF desired \in ids THEN 2
    ELSE IF owner /\ \E v \in ids : v.schema = "v1" /\ v.type = desired.type /\ v.ext \in legacy_ids
         THEN 1 ELSE 0

(* select_best_identity_matches: every candidate of the best rank.         *)
select_best_identity_matches(rank) ==
    LET best == Max({rank[c] : c \in DOMAIN rank} \cup {0})
    IN  {c \in DOMAIN rank : best > 0 /\ rank[c] = best}

Namespace(v) == <<v.type, v.instance, v.kind>>

(* Fault: the records of other sources in the same kind are dropped too.   *)
merge_dropping_foreign(ids, desired) ==
    {v \in ids : v.schema = "v1" \/ v.kind # desired.kind} \cup {desired}

(* merge_source_identities: foreign and legacy records stay, the source's  *)
(* own namespace holds the desired record only.                            *)
merge_source_identities(ids, desired) ==
    {v \in ids : v.schema = "v1" \/ Namespace(v) # Namespace(desired)} \cup {desired}

(* merge_original_name.                                                    *)
merge_original_name(names, desired, name) ==
    {p \in names : p.key # Namespace(desired)} \cup {[key |-> Namespace(desired), name |-> name]}

Merged(cf, desired, name) ==
    [cf EXCEPT !.ids = merge_source_identities(@, desired),
               !.names = merge_original_name(@, desired, name)]

NoFields == [ids |-> {}, names |-> {}, manual |-> "", extra |-> ""]

-----------------------------------------------------------------------------
(* netbox_metadata.py                                                      *)
sync_identity_match_rank(ids, h) ==
    source_identity_match_rank(ids, host_source_identity(h), {<<h.node>>},
                               h.legacy_identity_owner)

build_device_custom_fields(h, cf) ==
    [Merged(cf, host_source_identity(h), h.label) EXCEPT !.extra = h.hardware]

(* netbox_vm_metadata.py                                                   *)
vm_identity_source_id(g) == <<g.node, g.vmid>>

vm_sync_identity_match_rank(ids, g) ==
    source_identity_match_rank(ids, virtual_machine_source_identity(g),
        {vm_identity_source_id(g), <<Source.type>> \o vm_identity_source_id(g)},
        g.legacy_identity_owner)

build_vm_custom_fields(g, cf) == Merged(cf, virtual_machine_source_identity(g), g.name)

(* netbox_lxc_metadata.py                                                  *)
lxc_identity_source_id(g) == <<g.node, "lxc", g.vmid>>

lxc_sync_identity_match_rank(ids, g) ==
    source_identity_match_rank(ids, lxc_source_identity(g), {lxc_identity_source_id(g)},
                               g.legacy_identity_owner)

build_lxc_custom_fields(g, cf) ==
    [Merged(cf, lxc_source_identity(g), g.name) EXCEPT !.extra = g.os]

(* netbox_vm_interface_metadata.py; the container variants of the same     *)
(* functions are told apart by the guest's architecture attribute.         *)
nic_sync_identity_match_rank(ids, g, n) ==
    source_identity_match_rank(ids, virtual_machine_nic_source_identity(g, n),
        {vm_identity_source_id(g) \o <<n.name>>}, g.legacy_identity_owner)

(* A container interface recorded under its displayed name before the      *)
(* provider's netX key became the identity is still found, once.           *)
lxc_nic_match_rank(ids, g, n) ==
    LET rank == source_identity_match_rank(ids, lxc_nic_source_identity(g, n),
                    {lxc_identity_source_id(g) \o <<n.name>>}, g.legacy_identity_owner)
    IN  IF rank > 0 \/ Source.type # "proxmox" \/ n.key = n.name
        THEN rank
        ELSE source_identity_match_rank(ids, V2("lxc-nic", <<g.vmid, n.name>>), {}, FALSE)

(* Fault: the identity is left for the next update.                        *)
build_nic_unidentified(g, n, cf) == [cf EXCEPT !.extra = n.bridge]

build_nic_custom_fields(g, n, cf) ==
    [Merged(cf, virtual_machine_nic_source_identity(g, n), n.name) EXCEPT !.extra = n.bridge]

build_lxc_nic_custom_fields(g, n, cf) ==
    [Merged(cf, lxc_nic_source_identity(g, n), n.name) EXCEPT !.extra = n.bridge]
=============================================================================
