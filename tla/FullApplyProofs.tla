--------------------------- MODULE FullApplyProofs ---------------------------
(***************************************************************************)
(* Proofs about FullApply, for every source, inventory, NetBox and bound.  *)
(***************************************************************************)
EXTENDS FullApply, WellFoundedInduction, TLAPS

(* The global precheck and the report have passed on the NetBox the apply  *)
(* pass began with.                                                        *)
Checked ==
    /\ \A k \in DOMAIN STAGES : ~Blocked(k, base, hosts)
    /\ ~report_missing_managed_objects_blocked(base, hosts)

(* What a full run knows at each point: until the report has passed it has *)
(* written nothing, the precheck has passed the stages before the current  *)
(* one, and a stage of the apply pass is entered only with both passed.    *)
PrecheckInv ==
    scope = "full" /\ quiet =>
        /\ nb = base \/ Checked
        /\ pass = "plan" => nb = base
        /\ stage \in 1 .. 5
        /\ point = "precheck" =>
               /\ nb = base
               /\ pass = "apply" => \A k \in 1 .. (stage - 1) : ~Blocked(k, base, hosts)
        /\ point = "report" =>
               /\ nb = base
               /\ pass = "apply" => \A k \in DOMAIN STAGES : ~Blocked(k, base, hosts)
        /\ pass = "apply" /\ point \in {"enter", "write"} => Checked

LEMMA StagesDomain == DOMAIN STAGES = 1 .. 5 /\ Len(STAGES) = 5
  BY DEF STAGES

(* The precheck of apply_full_sync steps through the stages in order.      *)
LEMMA PrecheckKept ==
  ASSUME PrecheckInv, precheck
  PROVE  PrecheckInv'
  <1> USE StagesDomain
  <1>1. CASE Blocked(stage, View, hosts)
    <2>1. /\ nb' = nb /\ base' = base /\ hosts' = hosts /\ scope' = scope /\ quiet' = quiet
          /\ pass' = pass /\ point' = "blocked" /\ stage' = 1
      BY <1>1 DEF precheck, Stop, NoWork1, control, record, ghost
    <2>2. Checked' <=> Checked
      BY <2>1 DEF Checked
    <2> QED BY <2>1, <2>2 DEF PrecheckInv
  <1>2. CASE ~Blocked(stage, View, hosts)
    <2>1. /\ nb' = nb /\ base' = base /\ hosts' = hosts /\ scope' = scope /\ quiet' = quiet
          /\ pass' = pass
          /\ \/ stage = 5 /\ point' = "report" /\ stage' = 1
             \/ stage # 5 /\ point' = "precheck" /\ stage' = stage + 1
      BY <1>2 DEF precheck, control, record, ghost
    <2>2. SUFFICES ASSUME scope = "full", quiet
                   PROVE  PrecheckInv'
      BY <2>1 DEF PrecheckInv
    <2>3. nb = base /\ stage \in 1 .. 5
      BY <2>2 DEF PrecheckInv, precheck
    <2>4. pass = "apply" => \A k \in 1 .. stage : ~Blocked(k, base, hosts)
      BY <1>2, <2>2, <2>3 DEF PrecheckInv, precheck, View
    <2>5. Checked' <=> Checked
      BY <2>1 DEF Checked
    <2>6. CASE stage = 5
      BY <2>1, <2>2, <2>3, <2>4, <2>6 DEF PrecheckInv
    <2>7. CASE stage # 5
      BY <2>1, <2>2, <2>3, <2>4, <2>7 DEF PrecheckInv
    <2> QED BY <2>6, <2>7
  <1> QED BY <1>1, <1>2

LEMMA ReportKept ==
  ASSUME PrecheckInv, report
  PROVE  PrecheckInv'
  <1> USE StagesDomain
  <1>1. CASE report_missing_managed_objects_blocked(View, hosts)
    <2>1. /\ nb' = nb /\ base' = base /\ hosts' = hosts /\ scope' = scope /\ quiet' = quiet
          /\ pass' = pass /\ point' = "blocked" /\ stage' = 1
      BY <1>1 DEF report, Stop, NoWork1, control, record, ghost
    <2>2. Checked' <=> Checked
      BY <2>1 DEF Checked
    <2> QED BY <2>1, <2>2 DEF PrecheckInv
  <1>2. CASE ~report_missing_managed_objects_blocked(View, hosts)
    <2>1. /\ nb' = nb /\ base' = base /\ hosts' = hosts /\ scope' = scope /\ quiet' = quiet
          /\ pass' = pass /\ stage' = stage
          /\ point' \in {"enter", "checked"}
      BY <1>2 DEF report, control, record, work
    <2>2. SUFFICES ASSUME scope = "full", quiet
                   PROVE  PrecheckInv'
      BY <2>1 DEF PrecheckInv
    <2>3. nb = base /\ (pass = "apply" => Checked)
      BY <1>2, <2>2 DEF PrecheckInv, report, View, Checked
    <2>4. Checked' <=> Checked
      BY <2>1 DEF Checked
    <2> QED BY <2>1, <2>2, <2>3, <2>4 DEF PrecheckInv
  <1> QED BY <1>1, <1>2

(* apply_full_sync prechecks every stage before any stage writes: a full   *)
(* run that has changed NetBox found no stage and no report blocked on the *)
(* NetBox it began with, in every interleaving of requests, cuts, edits    *)
(* and changes of the inventory.                                           *)
THEOREM Prechecked == Spec => []PrecheckBeforeWrite
<1> USE StagesDomain
<1>1. Init => PrecheckInv
  BY DEF Init, PrecheckInv, NoWork
<1>2. ASSUME PrecheckInv, [Next]_vars
      PROVE  PrecheckInv'
  <2>1. CASE \E s \in limits.scopes, c \in BOOLEAN : execute_discovered_source(s, c)
    <3>1. PICK s \in limits.scopes, c \in BOOLEAN : execute_discovered_source(s, c)
      BY <2>1
    <3>2. /\ nb' = nb /\ base' = nb /\ scope' = s /\ hosts' = inv
          /\ s = "full" => pass' = "plan" /\ point' = "review" /\ stage' = 1
      BY <3>1 DEF execute_discovered_source, BeginPass
    <3> QED BY <3>2 DEF PrecheckInv
  <2>2. CASE review
    <3>1. /\ nb' = nb /\ hosts' = hosts /\ scope' = scope /\ quiet' = quiet
          /\ \/ point' = "blocked" /\ base' = base /\ pass' = pass /\ stage' = 1
             \/ point' = "precheck" /\ base' = nb /\ pass' \in {"plan", "apply"} /\ stage' = 1
      BY <2>2 DEF review, Stop, BeginPass, NoWork1, control, record, ghost
    <3>2. base' = base => (Checked' <=> Checked)
      BY <3>1 DEF Checked
    <3> QED BY <3>1, <3>2, <1>2 DEF PrecheckInv
  <2>3. CASE precheck
    BY <2>3, <1>2, PrecheckKept
  <2>4. CASE report
    BY <2>4, <1>2, ReportKept
  <2>5. CASE enter
    <3>1. /\ nb' = nb /\ base' = base /\ hosts' = hosts /\ scope' = scope /\ quiet' = quiet
          /\ pass' = pass /\ point = "enter"
          /\ \/ point' = "write" /\ stage' = stage
             \/ point' \in {"blocked", "checked"} /\ stage' = 1
      BY <2>5 DEF enter, Stop, NoWork1, control, record, ghost
    <3>2. Checked' <=> Checked
      BY <3>1 DEF Checked
    <3> QED BY <3>1, <3>2, <1>2 DEF PrecheckInv
  <2>6. CASE skip \/ plan
    <3>1. /\ nb' = nb /\ base' = base /\ hosts' = hosts /\ scope' = scope /\ quiet' = quiet
          /\ pass' = pass /\ point' = point /\ stage' = stage
      BY <2>6 DEF skip, plan, Advance, control, record, ghost
    <3>2. Checked' <=> Checked
      BY <3>1 DEF Checked
    <3> QED BY <3>1, <3>2, <1>2 DEF PrecheckInv
  <2>7. CASE write
    <3>1. /\ base' = base /\ hosts' = hosts /\ scope' = scope /\ quiet' = quiet
          /\ pass' = pass /\ point' = point /\ stage' = stage
          /\ pass = "apply" /\ point = "write"
      BY <2>7 DEF write, Advance, control, ghost
    <3>2. Checked' <=> Checked
      BY <3>1 DEF Checked
    <3> QED BY <3>1, <3>2, <1>2 DEF PrecheckInv
  <2>8. CASE refuse
    <3>1. /\ nb' = nb /\ base' = base /\ hosts' = hosts /\ scope' = scope /\ quiet' = quiet
          /\ pass' = pass /\ point' = "refused" /\ stage' = 1
      BY <2>8 DEF refuse, Stop, NoWork1, control, record, ghost
    <3>2. Checked' <=> Checked
      BY <3>1 DEF Checked
    <3> QED BY <3>1, <3>2, <1>2 DEF PrecheckInv
  <2>9. CASE finish
    <3>1. /\ nb' = nb /\ hosts' = hosts /\ scope' = scope /\ quiet' = quiet /\ point = "write"
          /\ \/ /\ base' = base /\ pass' = pass /\ stage < 5
                /\ point' = "enter" /\ stage' = stage + 1
             \/ base' = nb /\ pass' = "apply" /\ point' = "precheck" /\ stage' = 1
             \/ base' = base /\ pass' = pass /\ point' = "completed" /\ stage' = 1
      BY <2>9 DEF finish, BeginPass, NoWork1, control, record
    <3>2. base' = base => (Checked' <=> Checked)
      BY <3>1 DEF Checked
    <3> QED BY <3>1, <3>2, <1>2 DEF PrecheckInv
  <2>10. CASE cut
    <3>1. /\ base' = base /\ hosts' = hosts /\ scope' = scope /\ quiet' = quiet
          /\ pass' = pass /\ point' = "cut" /\ stage' = 1
          /\ pass = "apply" /\ point = "write"
      BY <2>10 DEF cut, NoWork1, control, record
    <3>2. Checked' <=> Checked
      BY <3>1 DEF Checked
    <3> QED BY <3>1, <3>2, <1>2 DEF PrecheckInv
  <2>11. CASE operator \/ provider
    BY <2>11 DEF operator, provider, Edited, PrecheckInv
  <2>12. CASE UNCHANGED vars
    BY <2>12, <1>2 DEF vars, control, work, record, ghost, PrecheckInv, Checked
  <2> QED
    BY <1>2, <2>1, <2>2, <2>3, <2>4, <2>5, <2>6, <2>7, <2>8, <2>9, <2>10, <2>11, <2>12
    DEF Next, Sync
<1>3. PrecheckInv => PrecheckBeforeWrite
  BY DEF PrecheckInv, PrecheckBeforeWrite, Checked
<1> QED BY <1>1, <1>2, <1>3, PTL DEF Spec

-----------------------------------------------------------------------------
(* Manual fields survive.                                                  *)

(* The part of custom fields that is not this source's: the fields it does *)
(* not manage, the identities and names of others and the legacy ones.     *)
Foreign(cf) ==
    [manual |-> cf.manual,
     ids |-> {v \in cf.ids : \/ v.schema = "v1"
                             \/ v.type # Source.type
                             \/ v.instance # Source.instance},
     names |-> {p \in cf.names : p.key[2] # Source.instance}]

(* Custom fields made from those of a record the stage has read.           *)
Carried(cf, old) == CustomFields(cf) /\ Foreign(cf) = Foreign(old)

(* What every request of a stage that read w satisfies.                    *)
Careful(m, w) ==
    /\ Mutates(m) => m.table \in Tables
    /\ m.op = "update" => "tenant" \notin DOMAIN m.fields
    /\ m.op = "update" /\ m.table \in Identified /\ "cf" \in DOMAIN m.fields =>
           m.id \in DOMAIN w[m.table] /\ Carried(m.fields.cf, w[m.table][m.id].cf)
    /\ m.op = "create" /\ m.table \in Identified =>
           "cf" \in DOMAIN m.fields /\ CustomFields(m.fields.cf)
    /\ m.op = "create" /\ m.table = "vm" => "tenant" \in DOMAIN m.fields
    /\ m.op = "create" /\ m.table = "dif" => "device" \in DOMAIN m.fields
    /\ m.op = "create" /\ m.table \in {"mac", "ip"} => "assigned" \in DOMAIN m.fields

(* merge_source_identities and merge_original_name touch the source's own  *)
(* namespace only.                                                         *)
LEMMA MergedCarries ==
  ASSUME NEW cf, CustomFields(cf), NEW kind, NEW ext, NEW name
  PROVE  Carried(Merged(cf, V2(kind, ext), name), cf)
  <1> DEFINE d == V2(kind, ext)
             new == Merged(cf, d, name)
  <1>1. /\ d.schema = "v2" /\ d.type = Source.type /\ d.instance = Source.instance
        /\ d.kind = kind
    BY DEF V2
  <1>2. Namespace(d) = <<Source.type, Source.instance, kind>>
    BY <1>1 DEF Namespace
  <1> HIDE DEF d
  <1>3. /\ DOMAIN new = {"ids", "names", "manual", "extra"}
        /\ new.manual = cf.manual
        /\ new.ids = merge_source_identities(cf.ids, d)
        /\ new.names = merge_original_name(cf.names, d, name)
    BY DEF Merged, CustomFields
  <1> HIDE DEF new
  <1>4. \A v : v \in new.ids <=> \/ v = d
                                 \/ v \in cf.ids /\ (v.schema = "v1" \/ Namespace(v) # Namespace(d))
    BY <1>3 DEF merge_source_identities
  <1>5. CustomFields(new)
    BY <1>1, <1>3, <1>4 DEF CustomFields
  <1>6. ASSUME NEW v, v.schema = "v1" \/ v.type # Source.type \/ v.instance # Source.instance
        PROVE  v \in new.ids <=> v \in cf.ids
    <2>1. v # d
      BY <1>1, <1>6
    <2>2. v.schema = "v1" \/ Namespace(v) # Namespace(d)
      BY <1>2, <1>6 DEF Namespace
    <2> QED BY <1>4, <2>1, <2>2
  <1>7. ASSUME NEW q, q.key[2] # Source.instance
        PROVE  q \in new.names <=> q \in cf.names
    <2>1. Namespace(d)[2] = Source.instance
      BY <1>2
    <2>2. q.key # Namespace(d)
      BY <1>7, <2>1
    <2>3. q # [key |-> Namespace(d), name |-> name]
      BY <2>2
    <2> QED BY <1>3, <2>2, <2>3 DEF merge_original_name
  <1>8. Foreign(new).ids = Foreign(cf).ids
    BY <1>6 DEF Foreign
  <1>9. Foreign(new).names = Foreign(cf).names
    BY <1>7 DEF Foreign
  <1>10. Foreign(new) = Foreign(cf)
    BY <1>3, <1>8, <1>9 DEF Foreign
  <1> QED BY <1>5, <1>10 DEF Carried, new, d

(* A describing field may be set besides.                                  *)
LEMMA ExtraCarries ==
  ASSUME NEW cf, NEW old, Carried(cf, old), NEW x
  PROVE  Carried([cf EXCEPT !.extra = x], old)
  <1> DEFINE new == [cf EXCEPT !.extra = x]
  <1>1. /\ DOMAIN new = DOMAIN cf /\ new.manual = cf.manual
        /\ new.ids = cf.ids /\ new.names = cf.names
    BY DEF Carried, CustomFields
  <1> HIDE DEF new
  <1>2. CustomFields(new) /\ Foreign(new) = Foreign(cf)
    BY <1>1 DEF Carried, CustomFields, Foreign
  <1> QED BY <1>2 DEF Carried, new

LEMMA NoFieldsWellFormed == CustomFields(NoFields)
  BY DEF CustomFields, NoFields

(* Every builder of custom fields carries what it was given.               *)
LEMMA BuildersCarry ==
  ASSUME NEW cf, CustomFields(cf), NEW g, NEW n
  PROVE  /\ Carried(build_device_custom_fields(g, cf), cf)
         /\ Carried(build_vm_custom_fields(g, cf), cf)
         /\ Carried(build_lxc_custom_fields(g, cf), cf)
         /\ Carried(build_nic_custom_fields(g, n, cf), cf)
         /\ Carried(build_lxc_nic_custom_fields(g, n, cf), cf)
  <1>1. Carried(build_device_custom_fields(g, cf), cf)
    <2>1. Carried(Merged(cf, host_source_identity(g), g.label), cf)
      BY MergedCarries DEF host_source_identity
    <2> QED BY <2>1, ExtraCarries DEF build_device_custom_fields
  <1>2. Carried(build_vm_custom_fields(g, cf), cf)
    BY MergedCarries DEF build_vm_custom_fields, virtual_machine_source_identity
  <1>3. Carried(build_lxc_custom_fields(g, cf), cf)
    <2>1. Carried(Merged(cf, lxc_source_identity(g), g.name), cf)
      BY MergedCarries DEF lxc_source_identity
    <2> QED BY <2>1, ExtraCarries DEF build_lxc_custom_fields
  <1>4. Carried(build_nic_custom_fields(g, n, cf), cf)
    <2>1. Carried(Merged(cf, virtual_machine_nic_source_identity(g, n), n.name), cf)
      BY MergedCarries DEF virtual_machine_nic_source_identity
    <2> QED BY <2>1, ExtraCarries DEF build_nic_custom_fields
  <1>5. Carried(build_lxc_nic_custom_fields(g, n, cf), cf)
    <2>1. Carried(Merged(cf, lxc_nic_source_identity(g, n), n.name), cf)
      BY MergedCarries DEF lxc_nic_source_identity
    <2> QED BY <2>1, ExtraCarries DEF build_lxc_nic_custom_fields
  <1> QED BY <1>1, <1>2, <1>3, <1>4, <1>5

LEMMA UpdateCareful ==
  ASSUME NEW w, NEW t \in Tables, NEW id, NEW old, NEW desired,
         "tenant" \notin DOMAIN desired,
         t \in Identified /\ "cf" \in DOMAIN desired =>
             id \in DOMAIN w[t] /\ Carried(desired.cf, w[t][id].cf)
  PROVE  Careful(Update(t, id, old, desired), w)
  <1> DEFINE m == Update(t, id, old, desired)
             diff == Diff(old, desired)
  <1>1. DOMAIN diff \subseteq DOMAIN desired /\ \A f \in DOMAIN diff : diff[f] = desired[f]
    BY DEF Diff
  <1> HIDE DEF diff
  <1>2. \/ m.op = "skip"
        \/ m.op = "update" /\ m.table = t /\ m.id = id /\ m.fields = diff
    BY DEF Update, Skip, diff
  <1> HIDE DEF m
  <1>3. Careful(m, w)
    BY <1>1, <1>2 DEF Careful, Mutates
  <1> QED BY <1>3 DEF m

LEMMA CreateCareful ==
  ASSUME NEW w, NEW x, NEW t \in Tables, NEW new,
         t \in Identified => "cf" \in DOMAIN new /\ CustomFields(new.cf),
         t = "vm" => "tenant" \in DOMAIN new,
         t = "dif" => "device" \in DOMAIN new,
         t \in {"mac", "ip"} => "assigned" \in DOMAIN new
  PROVE  Careful(Create(x, t, new), w)
  BY DEF Careful, Create, Mutates

LEMMA SkipCareful ==
  ASSUME NEW w, NEW t, NEW id
  PROVE  Careful(Skip(t, id), w) /\ Careful(Raise, w)
  BY DEF Careful, Skip, Raise, Mutates

LEMMA MatchesAreCandidates ==
  ASSUME NEW rank
  PROVE  select_best_identity_matches(rank) \subseteq DOMAIN rank
  BY DEF select_best_identity_matches

LEMMA OnlyOfSet ==
  ASSUME NEW S, Only(S) # NoObject
  PROVE  Only(S) \in S
  BY DEF Only

LEMMA TablesFacts ==
  /\ Identified \subseteq Tables
  /\ \A t \in {"dif", "mac", "ip"} : t \in Tables /\ t \notin Identified
  /\ "device" \in Identified /\ "vm" \in Identified /\ "vif" \in Identified
  BY DEF Identified, Tables

(* The write loop of apply_hosts.                                          *)
LEMMA HostsCareful ==
  ASSUME NEW item, NEW x, NEW w, WellFormed(w), NEW i, NEW objs0
  PROVE  Careful(apply_hosts_step(item, x, w, i, objs0), w)
  <1> DEFINE h == i.hosts[item.of]
  <1>1. Careful(WriteDevice(x, w, h), w)
    <2> DEFINE matches == resolve_device(w, h)
               d == CHOOSE y \in matches : TRUE
    <2>1. matches \subseteq DOMAIN w.device
      BY MatchesAreCandidates DEF resolve_device, find_sync_identity_matches
    <2>2. CASE matches = {}
      <3> DEFINE new == DeviceFields(w, h, NoFields)
                 made == [name |-> h.name, site |-> new.site, form |-> new.form,
                          cluster |-> new.cluster, cf |-> new.cf, primary |-> NoObject]
      <3>1. CustomFields(new.cf)
        BY NoFieldsWellFormed, BuildersCarry DEF DeviceFields, Carried
      <3>2. "cf" \in DOMAIN made /\ CustomFields(made.cf)
        BY <3>1
      <3>3. WriteDevice(x, w, h) = Create(x, "device", made)
        BY <2>2 DEF WriteDevice
      <3> HIDE DEF made
      <3> QED BY <3>2, <3>3, CreateCareful, TablesFacts
    <2>3. CASE matches # {}
      <3> DEFINE desired == DeviceFields(w, h, w.device[d].cf)
      <3>1. d \in DOMAIN w.device
        BY <2>1, <2>3
      <3>2. CustomFields(w.device[d].cf)
        BY <3>1, TablesFacts DEF WellFormed
      <3>3. WriteDevice(x, w, h) = Update("device", d, w.device[d], desired)
        BY <2>3 DEF WriteDevice
      <3> HIDE DEF d, matches
      <3>4. /\ DOMAIN desired = {"site", "form", "cluster", "cf"}
            /\ desired.cf = build_device_custom_fields(h, w.device[d].cf)
        BY DEF DeviceFields
      <3>5. Carried(desired.cf, w.device[d].cf)
        BY <3>2, <3>4, BuildersCarry
      <3> HIDE DEF desired
      <3>6. Careful(Update("device", d, w.device[d], desired), w)
        BY <3>1, <3>4, <3>5, UpdateCareful, TablesFacts
      <3> QED BY <3>3, <3>6
    <2> QED BY <2>2, <2>3
  <1>2. ASSUME NEW device, NEW nic
        PROVE  Careful(WriteInterface(x, w, device, nic), w)
    <2> DEFINE found == interface_named(w, device, nic.name)
               id == CHOOSE y \in found : TRUE
               fields == InterfaceFields(nic)
               desired == IF nic.comments = "" THEN fields
                          ELSE [type |-> fields.type, enabled |-> fields.enabled,
                                description |-> nic.comments]
    <2>1. "tenant" \notin DOMAIN desired
      BY DEF InterfaceFields
    <2> DEFINE made == [device |-> device, name |-> nic.name, type |-> fields.type,
                        enabled |-> fields.enabled, description |-> nic.comments]
    <2>2. \/ WriteInterface(x, w, device, nic) = Create(x, "dif", made)
          \/ WriteInterface(x, w, device, nic) = Update("dif", id, w.dif[id], desired)
      BY DEF WriteInterface
    <2>a. "device" \in DOMAIN made
      OBVIOUS
    <2> HIDE DEF desired, id, made
    <2>3. Careful(Update("dif", id, w.dif[id], desired), w)
      BY <2>1, UpdateCareful, TablesFacts
    <2>4. Careful(Create(x, "dif", made), w)
      BY <2>a, CreateCareful, TablesFacts
    <2> QED BY <2>2, <2>3, <2>4
  <1>3. ASSUME NEW interface, NEW address
        PROVE  Careful(WriteAddress(x, interface, address), w)
    <2> DEFINE id == CHOOSE y \in AddressRecords(x, address) : TRUE
               desired == [assigned |-> <<"dif", interface>>]
               made == [address |-> address, assigned |-> <<"dif", interface>>]
    <2>1. \/ WriteAddress(x, interface, address) = Raise
          \/ WriteAddress(x, interface, address) = Create(x, "ip", made)
          \/ WriteAddress(x, interface, address) = Update("ip", id, x.ip[id], desired)
      BY DEF WriteAddress
    <2>2. "tenant" \notin DOMAIN desired /\ "assigned" \in DOMAIN made
      OBVIOUS
    <2> HIDE DEF desired, id, made
    <2>3. Careful(Update("ip", id, x.ip[id], desired), w)
      BY <2>2, UpdateCareful, TablesFacts
    <2>4. Careful(Create(x, "ip", made), w)
      BY <2>2, CreateCareful, TablesFacts
    <2> QED BY <2>1, <2>3, <2>4, SkipCareful
  <1>4. Careful(WritePrimary(x, item.of, h, objs0), w)
    <2> DEFINE device == objs0[Item("device", item.of, 0, 0)]
               desired == [primary |-> objs0[Item("dip", item.of, management_binding(h)[1].nic,
                                                  management_binding(h)[1].addr)]]
    <2>1. WritePrimary(x, item.of, h, objs0) = Update("device", device, x.device[device], desired)
      BY DEF WritePrimary
    <2>2. "tenant" \notin DOMAIN desired /\ "cf" \notin DOMAIN desired
      OBVIOUS
    <2> HIDE DEF desired, device
    <2> QED BY <2>1, <2>2, UpdateCareful, TablesFacts
  <1> QED BY <1>1, <1>2, <1>3, <1>4 DEF apply_hosts_step

(* The write loop of apply_virtual_machines.                               *)
LEMMA VmsCareful ==
  ASSUME NEW item, NEW x, NEW w, WellFormed(w), NEW i
  PROVE  Careful(apply_virtual_machines_step(item, x, w, i), w)
  <1> DEFINE g == i.vms[item.of]
             matches == vm_identity_matches(w, g)
             v == CHOOSE y \in matches : TRUE
  <1>1. matches \subseteq DOMAIN w.vm
    BY MatchesAreCandidates DEF vm_identity_matches, find_vm_sync_identity_matches
  <1>2. CASE matches = {}
    <2> DEFINE fields == build_vm_create_fields(w, g, NoFields)
               made == NewVm(fields)
    <2>1. CustomFields(fields.cf)
      BY NoFieldsWellFormed, BuildersCarry DEF build_vm_create_fields, Carried
    <2>2. "cf" \in DOMAIN made /\ "tenant" \in DOMAIN made /\ made.cf = fields.cf
      BY DEF NewVm
    <2>3. apply_virtual_machines_step(item, x, w, i) = Create(x, "vm", made)
      BY <1>2 DEF apply_virtual_machines_step
    <2> HIDE DEF made, fields
    <2> QED BY <2>1, <2>2, <2>3, CreateCareful, TablesFacts
  <1>3. CASE matches # {}
    <2> DEFINE desired == build_vm_create_fields(w, g, w.vm[v].cf)
    <2>1. v \in DOMAIN w.vm
      BY <1>1, <1>3
    <2>2. CustomFields(w.vm[v].cf)
      BY <2>1, TablesFacts DEF WellFormed
    <2>3. apply_virtual_machines_step(item, x, w, i) = Update("vm", v, w.vm[v], desired)
      BY <1>3 DEF apply_virtual_machines_step
    <2> HIDE DEF v, matches
    <2>4. /\ "tenant" \notin DOMAIN desired
          /\ desired.cf = build_vm_custom_fields(g, w.vm[v].cf)
      BY DEF build_vm_create_fields
    <2>5. Carried(desired.cf, w.vm[v].cf)
      BY <2>2, <2>4, BuildersCarry
    <2> HIDE DEF desired
    <2>6. Careful(Update("vm", v, w.vm[v], desired), w)
      BY <2>1, <2>4, <2>5, UpdateCareful, TablesFacts
    <2> QED BY <2>3, <2>6
  <1> QED BY <1>2, <1>3

(* The write loop of apply_lxc_containers.                                 *)
LEMMA LxcsCareful ==
  ASSUME NEW item, NEW x, NEW w, WellFormed(w), NEW i
  PROVE  Careful(apply_lxc_containers_step(item, x, w, i), w)
  <1> DEFINE g == i.lxcs[item.of]
             matches == find_lxc_sync_identity_matches(w, g)
             v == CHOOSE y \in matches : TRUE
  <1>1. matches \subseteq DOMAIN w.vm
    BY MatchesAreCandidates DEF find_lxc_sync_identity_matches
  <1>2. CASE matches = {}
    <2> DEFINE fields == lxc_desired_fields(w, g, NoFields)
               made == NewVm(fields)
    <2>1. CustomFields(fields.cf)
      BY NoFieldsWellFormed, BuildersCarry DEF lxc_desired_fields, Carried
    <2>2. "cf" \in DOMAIN made /\ "tenant" \in DOMAIN made /\ made.cf = fields.cf
      BY DEF NewVm
    <2>3. apply_lxc_containers_step(item, x, w, i) = Create(x, "vm", made)
      BY <1>2 DEF apply_lxc_containers_step
    <2> HIDE DEF made, fields
    <2> QED BY <2>1, <2>2, <2>3, CreateCareful, TablesFacts
  <1>3. CASE matches # {}
    <2> DEFINE desired == lxc_desired_fields(w, g, w.vm[v].cf)
    <2>1. v \in DOMAIN w.vm
      BY <1>1, <1>3
    <2>2. CustomFields(w.vm[v].cf)
      BY <2>1, TablesFacts DEF WellFormed
    <2>3. apply_lxc_containers_step(item, x, w, i) = Update("vm", v, w.vm[v], desired)
      BY <1>3 DEF apply_lxc_containers_step, UpdateLxc
    <2> HIDE DEF v, matches
    <2>4. /\ "tenant" \notin DOMAIN desired
          /\ desired.cf = build_lxc_custom_fields(g, w.vm[v].cf)
      BY DEF lxc_desired_fields
    <2>5. Carried(desired.cf, w.vm[v].cf)
      BY <2>2, <2>4, BuildersCarry
    <2> HIDE DEF desired
    <2>6. Careful(Update("vm", v, w.vm[v], desired), w)
      BY <2>1, <2>4, <2>5, UpdateCareful, TablesFacts
    <2> QED BY <2>3, <2>6
  <1> QED BY <1>2, <1>3

(* The requests the two network stages share.                              *)
LEMMA AssignCareful ==
  ASSUME NEW x, NEW w, NEW t \in {"mac", "ip"}, NEW records, NEW new, NEW interface,
         "assigned" \in DOMAIN new
  PROVE  Careful(AssignRecord(x, w, t, records, new, interface), w)
  <1> DEFINE id == Only(records)
             desired == [assigned |-> <<"vif", interface>>]
  <1>1. \/ AssignRecord(x, w, t, records, new, interface) = Create(x, t, new)
        \/ AssignRecord(x, w, t, records, new, interface) = Update(t, id, w[t][id], desired)
        \/ AssignRecord(x, w, t, records, new, interface) = Skip(t, id)
    BY DEF AssignRecord
  <1>2. "tenant" \notin DOMAIN desired
    OBVIOUS
  <1> HIDE DEF id, desired
  <1>3. t \in Tables /\ t \notin Identified /\ t # "vm" /\ t # "dif"
    BY DEF Tables, Identified
  <1>4. Careful(Create(x, t, new), w)
    BY <1>3, CreateCareful
  <1>5. Careful(Update(t, id, w[t][id], desired), w)
    BY <1>2, <1>3, UpdateCareful
  <1> QED BY <1>1, <1>4, <1>5, SkipCareful

(* An update of one reference of a record.                                 *)
LEMMA ReferenceCareful ==
  ASSUME NEW w, NEW id, NEW old, NEW y
  PROVE  /\ Careful(Update("vif", id, old, [pmac |-> y]), w)
         /\ Careful(Update("vm", id, old, [primary |-> y]), w)
  <1>1. ASSUME NEW t \in Identified, NEW desired,
               "tenant" \notin DOMAIN desired, "cf" \notin DOMAIN desired
        PROVE  Careful(Update(t, id, old, desired), w)
    BY <1>1, UpdateCareful, TablesFacts
  <1>2. ASSUME NEW desired, desired = [pmac |-> y] \/ desired = [primary |-> y]
        PROVE  "tenant" \notin DOMAIN desired /\ "cf" \notin DOMAIN desired
    BY <1>2
  <1> QED BY <1>1, <1>2, TablesFacts

LEMMA NicCareful ==
  ASSUME NEW x, NEW w, WellFormed(w), NEW name, NEW v, NEW e, NEW cf,
         e # NoObject => e \in DOMAIN w.vif /\ Carried(cf, w.vif[e].cf),
         CustomFields(cf)
  PROVE  /\ Careful(Create(x, "vif", NewNic(v, NicFields(name, cf))), w)
         /\ e # NoObject => Careful(Update("vif", e, w.vif[e], NicFields(name, cf)), w)
  <1> DEFINE fields == NicFields(name, cf)
             made == NewNic(v, fields)
  <1>1. "tenant" \notin DOMAIN fields /\ fields.cf = cf
    BY DEF NicFields
  <1>2. "cf" \in DOMAIN made /\ made.cf = cf
    BY DEF NewNic, NicFields
  <1> HIDE DEF fields, made
  <1>3. Careful(Create(x, "vif", made), w)
    BY <1>2, CreateCareful, TablesFacts
  <1>4. ASSUME e # NoObject
        PROVE  Careful(Update("vif", e, w.vif[e], fields), w)
    BY <1>1, <1>4, UpdateCareful, TablesFacts
  <1> QED BY <1>3, <1>4 DEF fields, made

(* The write loop of apply_vm_networks.                                    *)
LEMMA VmNetworksCareful ==
  ASSUME NEW item, NEW x, NEW w, WellFormed(w), NEW i, NEW objs0
  PROVE  Careful(apply_vm_networks_step(item, x, w, i, objs0), w)
  <1> DEFINE g == i.vms[item.of]
  <1>1. ASSUME NEW n
        PROVE  Careful(WriteVmNic(x, w, g, n), w)
    <2> DEFINE v == Only(find_vm(w, g))
               e == Only(interface_match(w, v, g, n))
               cf == IF e = NoObject THEN build_nic_custom_fields(g, n, NoFields)
                     ELSE build_nic_custom_fields(g, n, w.vif[e].cf)
    <2>1. e # NoObject => e \in interface_match(w, v, g, n)
      BY OnlyOfSet
    <2>2. e # NoObject => e \in DOMAIN w.vif
      BY <2>1, MatchesAreCandidates DEF interface_match, InterfacesOf
    <2>3. e # NoObject => CustomFields(w.vif[e].cf)
      BY <2>2, TablesFacts DEF WellFormed
    <2>4. WriteVmNic(x, w, g, n) = IF e = NoObject
                                   THEN Create(x, "vif", NewNic(v, NicFields(n.name, cf)))
                                   ELSE Update("vif", e, w.vif[e], NicFields(n.name, cf))
      BY DEF WriteVmNic
    <2> HIDE DEF e, v
    <2>5. CustomFields(cf) /\ (e # NoObject => Carried(cf, w.vif[e].cf))
      BY <2>3, NoFieldsWellFormed, BuildersCarry DEF Carried
    <2> HIDE DEF cf
    <2> QED BY <2>2, <2>4, <2>5, NicCareful
  <1>2. ASSUME NEW n, NEW interface
        PROVE  Careful(WriteVmMac(x, w, n, interface), w)
    BY AssignCareful DEF WriteVmMac
  <1>3. ASSUME NEW interface, NEW mac
        PROVE  Careful(WriteVmPrimaryMac(w, interface, mac), w)
    BY ReferenceCareful, SkipCareful DEF WriteVmPrimaryMac
  <1>4. ASSUME NEW a, NEW interface
        PROVE  Careful(WriteVmAddress(x, w, a, interface), w)
    BY AssignCareful DEF WriteVmAddress
  <1>5. ASSUME NEW ip
        PROVE  Careful(WriteVmPrimary(w, g, ip), w)
    BY ReferenceCareful, SkipCareful DEF WriteVmPrimary
  <1> QED BY <1>1, <1>2, <1>3, <1>4, <1>5 DEF apply_vm_networks_step

(* The write loop of apply_lxc_networks.                                   *)
LEMMA LxcNetworksCareful ==
  ASSUME NEW item, NEW x, NEW w, WellFormed(w), NEW i, NEW objs0
  PROVE  Careful(apply_lxc_networks_step(item, x, w, i, objs0), w)
  <1> DEFINE g == i.lxcs[item.of]
  <1>1. ASSUME NEW n
        PROVE  Careful(WriteLxcNic(x, w, g, n), w)
    <2> DEFINE v == Only(find_lxc_vm(w, g))
               e == Only(find_lxc_interface(w, v, g, n))
               cf == IF e = NoObject THEN build_lxc_nic_custom_fields(g, n, NoFields)
                     ELSE build_lxc_nic_custom_fields(g, n, w.vif[e].cf)
    <2>1. e # NoObject => e \in find_lxc_interface(w, v, g, n)
      BY OnlyOfSet
    <2>2. e # NoObject => e \in DOMAIN w.vif
      BY <2>1, MatchesAreCandidates DEF find_lxc_interface, InterfacesOf
    <2>3. e # NoObject => CustomFields(w.vif[e].cf)
      BY <2>2, TablesFacts DEF WellFormed
    <2>4. WriteLxcNic(x, w, g, n) = IF e = NoObject
                                    THEN Create(x, "vif", NewNic(v, NicFields(n.name, cf)))
                                    ELSE Update("vif", e, w.vif[e], NicFields(n.name, cf))
      BY DEF WriteLxcNic, LxcNicFields
    <2> HIDE DEF e, v
    <2>5. CustomFields(cf) /\ (e # NoObject => Carried(cf, w.vif[e].cf))
      BY <2>3, NoFieldsWellFormed, BuildersCarry DEF Carried
    <2> HIDE DEF cf
    <2> QED BY <2>2, <2>4, <2>5, NicCareful
  <1>2. ASSUME NEW n, NEW interface
        PROVE  Careful(WriteLxcMac(x, w, n, interface), w)
    BY AssignCareful DEF WriteLxcMac
  <1>3. ASSUME NEW interface, NEW mac
        PROVE  Careful(WriteLxcPrimaryMac(w, interface, mac), w)
    BY ReferenceCareful, SkipCareful DEF WriteLxcPrimaryMac
  <1>4. ASSUME NEW a, NEW interface
        PROVE  Careful(WriteLxcAddress(x, w, a, interface), w)
    BY AssignCareful DEF WriteLxcAddress
  <1>5. ASSUME NEW ip
        PROVE  Careful(WriteLxcPrimary(w, g, ip), w)
    BY ReferenceCareful DEF WriteLxcPrimary
  <1> QED BY <1>1, <1>2, <1>3, <1>4, <1>5 DEF apply_lxc_networks_step

(* The next request of a run on NetBox.                                    *)
LEMMA RequestCareful ==
  ASSUME pass = "apply", stage \in 1 .. 5, WellFormed(snap)
  PROVE  Careful(Request, snap)
  <1> DEFINE item == Head(todo)
  <1>1. CASE stage = 1
    BY <1>1, HostsCareful DEF Request, STAGES
  <1>2. CASE stage = 2
    BY <1>2, VmsCareful DEF Request, STAGES
  <1>3. CASE stage = 3
    BY <1>3, VmNetworksCareful DEF Request, STAGES
  <1>4. CASE stage = 4
    BY <1>4, LxcsCareful DEF Request, STAGES
  <1>5. CASE stage = 5
    BY <1>5, LxcNetworksCareful DEF Request, STAGES
  <1>6. stage \in {1, 2, 3, 4, 5}
    OBVIOUS
  <1> QED BY <1>1, <1>2, <1>3, <1>4, <1>5, <1>6

-----------------------------------------------------------------------------
(* While a stage of a run writes that nobody has edited under, the records *)
(* it read and those NetBox holds differ only in what is this source's.    *)
CopiesAgree ==
    quiet /\ pass = "apply" /\ point = "write" =>
        \A t \in Identified : \A i \in DOMAIN snap[t] :
            i \in DOMAIN nb[t] /\ Foreign(nb[t][i].cf) = Foreign(snap[t][i].cf)

StoreInv ==
    /\ limits \in Limits
    /\ stage \in 1 .. 5
    /\ WellFormed(nb)
    /\ pass = "apply" /\ point = "write" => WellFormed(snap)
    /\ CopiesAgree

(* What a committed request leaves of a well-formed NetBox: w is what the  *)
(* stage had read, x what NetBox held.                                     *)
LEMMA CommitEffect ==
  ASSUME NEW x, WellFormed(x), NEW w, WellFormed(w), NEW m, Careful(m, w), Mutates(m),
         Accepts(x, m)
  PROVE  /\ WellFormed(Commit(x, m))
         /\ \A t \in Identified : \A i \in DOMAIN x[t] :
                /\ i \in DOMAIN Commit(x, m)[t]
                /\ \/ Commit(x, m)[t][i].cf = x[t][i].cf
                   \/ /\ i \in DOMAIN w[t]
                      /\ Foreign(Commit(x, m)[t][i].cf) = Foreign(w[t][i].cf)
         /\ \A v \in DOMAIN x.vm : Commit(x, m).vm[v].tenant = x.vm[v].tenant
  <1> DEFINE y == Commit(x, m)
             new == IF m.op = "create" THEN m.fields ELSE Patched(x[m.table][m.id], m.fields)
             T == Tables \cup {"known", "clusters"}
  <1>1. m.table \in Tables /\ m.op \in {"create", "update"} /\ m.table \in DOMAIN x
    BY DEF Careful, Mutates, WellFormed
  <1>2. y = [x EXCEPT ![m.table] = Put(x[m.table], m.id, new)]
    BY <1>1 DEF Commit
  <1> HIDE DEF y, new
  <1>3. /\ DOMAIN y = DOMAIN x
        /\ y[m.table] = Put(x[m.table], m.id, new)
        /\ \A t \in DOMAIN x : t # m.table => y[t] = x[t]
    BY <1>1, <1>2
  <1>4. /\ DOMAIN y[m.table] = DOMAIN x[m.table] \cup {m.id}
        /\ y[m.table][m.id] = new
        /\ \A i \in DOMAIN x[m.table] : i # m.id => y[m.table][i] = x[m.table][i]
    BY <1>3 DEF Put
  <1>5. CASE m.op = "create"
    <2>1. m.id \notin DOMAIN x[m.table] /\ new = m.fields
      BY <1>5 DEF Accepts, new
    <2>2. /\ m.table \in Identified => "cf" \in DOMAIN new /\ CustomFields(new.cf)
          /\ m.table = "vm" => "tenant" \in DOMAIN new
      BY <1>5, <2>1 DEF Careful
    <2>3. \A t \in DOMAIN x : \A i \in DOMAIN x[t] : i \in DOMAIN y[t] /\ y[t][i] = x[t][i]
      BY <1>3, <1>4, <2>1
    <2>4. \A t \in DOMAIN x : \A i \in DOMAIN y[t] :
              i \in DOMAIN x[t] \/ (t = m.table /\ i = m.id /\ y[t][i] = new)
      BY <1>3, <1>4
    <2>5. Identified \subseteq DOMAIN x /\ "vm" \in DOMAIN x
      BY TablesFacts DEF WellFormed
    <2>6. WellFormed(y)
      BY <1>3, <2>2, <2>3, <2>4, <2>5 DEF WellFormed
    <2> QED BY <2>3, <2>5, <2>6 DEF y
  <1>6. CASE m.op = "update"
    <2>1. m.id \in DOMAIN x[m.table] /\ new = Patched(x[m.table][m.id], m.fields)
      BY <1>6 DEF Accepts, new
    <2>2. Identified \subseteq DOMAIN x /\ "vm" \in DOMAIN x /\ "vm" \in Identified
      BY TablesFacts DEF WellFormed
    <2>3. ASSUME m.table \in Identified
          PROVE  /\ "cf" \in DOMAIN new /\ CustomFields(new.cf)
                 /\ \/ new.cf = x[m.table][m.id].cf
                    \/ m.id \in DOMAIN w[m.table] /\ Foreign(new.cf) = Foreign(w[m.table][m.id].cf)
      <3>1. "cf" \in DOMAIN x[m.table][m.id] /\ CustomFields(x[m.table][m.id].cf)
        BY <2>1, <2>3 DEF WellFormed
      <3>2. /\ "cf" \in DOMAIN new
            /\ new.cf = IF "cf" \in DOMAIN m.fields THEN m.fields.cf ELSE x[m.table][m.id].cf
        BY <2>1, <3>1 DEF Patched
      <3> QED BY <1>6, <2>3, <3>1, <3>2 DEF Careful, Carried
    <2>4. ASSUME m.table = "vm"
          PROVE  "tenant" \in DOMAIN new /\ new.tenant = x.vm[m.id].tenant
      <3>1. "tenant" \in DOMAIN x.vm[m.id]
        BY <2>1, <2>4 DEF WellFormed
      <3>2. "tenant" \notin DOMAIN m.fields
        BY <1>6 DEF Careful
      <3> QED BY <2>1, <2>4, <3>1, <3>2 DEF Patched
    <2>5. /\ \A t \in DOMAIN x : DOMAIN y[t] = DOMAIN x[t]
          /\ \A t \in DOMAIN x : \A i \in DOMAIN x[t] :
                 y[t][i] = x[t][i] \/ (t = m.table /\ i = m.id /\ y[t][i] = new)
      BY <1>3, <1>4, <2>1
    <2>6. WellFormed(y)
      <3>1. \A t \in Identified : \A i \in DOMAIN y[t] :
                "cf" \in DOMAIN y[t][i] /\ CustomFields(y[t][i].cf)
        BY <2>2, <2>3, <2>5 DEF WellFormed
      <3>2. \A v \in DOMAIN y.vm : "tenant" \in DOMAIN y.vm[v]
        BY <2>2, <2>4, <2>5 DEF WellFormed
      <3> QED BY <1>3, <3>1, <3>2 DEF WellFormed
    <2>7. \A t \in Identified : \A i \in DOMAIN x[t] :
              /\ i \in DOMAIN y[t]
              /\ y[t][i].cf = x[t][i].cf
                 \/ (i \in DOMAIN w[t] /\ Foreign(y[t][i].cf) = Foreign(w[t][i].cf))
      BY <2>2, <2>3, <2>5
    <2>8. \A v \in DOMAIN x.vm : y.vm[v].tenant = x.vm[v].tenant
      BY <2>2, <2>4, <2>5
    <2> QED BY <2>6, <2>7, <2>8 DEF y
  <1> QED BY <1>1, <1>5, <1>6

(* An operator's edit keeps NetBox well formed.                            *)
LEMMA OperatorWellFormed ==
  ASSUME WellFormed(nb), operator
  PROVE  WellFormed(nb')
  <1> USE TablesFacts DEF WellFormed
  <1>1. CASE \E t \in {"ip", "mac"} : \E i \in DOMAIN nb[t] :
                 \E to \in {Free} \cup {<<"vif", z>> : z \in DOMAIN nb.vif} : Reassign(t, i, to)
    <2>1. PICK t \in {"ip", "mac"} : \E i, to : nb' = [nb EXCEPT ![t][i].assigned = to]
      BY <1>1 DEF Reassign
    <2>2. DOMAIN nb' = DOMAIN nb /\ \A u \in Identified : nb'[u] = nb[u]
      BY <2>1 DEF Identified
    <2> QED BY <2>2
  <1>2. CASE \E v \in DOMAIN nb.vm : \E p \in {NoObject} \cup DOMAIN nb.ip : ChoosePrimary(v, p)
    <2>1. PICK v \in DOMAIN nb.vm, p \in {NoObject} \cup DOMAIN nb.ip : ChoosePrimary(v, p)
      BY <1>2
    <2>2. nb' = [nb EXCEPT !.vm[v].primary = p]
      BY <2>1 DEF ChoosePrimary
    <2>3. /\ DOMAIN nb' = DOMAIN nb /\ \A u \in Identified \ {"vm"} : nb'[u] = nb[u]
          /\ DOMAIN nb'.vm = DOMAIN nb.vm
      BY <2>2
    <2>4. \A z \in DOMAIN nb.vm : DOMAIN nb'.vm[z] = DOMAIN nb.vm[z] /\ nb'.vm[z].cf = nb.vm[z].cf
      BY <2>2
    <2> QED BY <2>3, <2>4
  <1>3. CASE \E v \in DOMAIN nb.vm : EditManual(v)
    <2>1. PICK v \in DOMAIN nb.vm : nb' = [nb EXCEPT !.vm[v].cf.manual = "edited"]
      BY <1>3 DEF EditManual
    <2>2. /\ DOMAIN nb' = DOMAIN nb /\ \A u \in Identified \ {"vm"} : nb'[u] = nb[u]
          /\ DOMAIN nb'.vm = DOMAIN nb.vm
      BY <2>1
    <2>3. \A z \in DOMAIN nb.vm : /\ DOMAIN nb'.vm[z] = DOMAIN nb.vm[z]
                                  /\ DOMAIN nb'.vm[z].cf = DOMAIN nb.vm[z].cf
                                  /\ nb'.vm[z].cf.ids = nb.vm[z].cf.ids
      BY <2>1 DEF CustomFields
    <2> QED BY <2>2, <2>3 DEF CustomFields
  <1> QED BY <1>1, <1>2, <1>3 DEF operator

(* A request to NetBox, acknowledged or not.                               *)
LEMMA RequestEffect ==
  ASSUME StoreInv, pass = "apply", point = "write", Mutates(Request), Accepts(nb, Request),
         nb' = Commit(nb, Request)
  PROVE  /\ WellFormed(nb')
         /\ quiet => \A t \in Identified : \A i \in DOMAIN nb[t] :
                i \in DOMAIN nb'[t] /\ Foreign(nb'[t][i].cf) = Foreign(nb[t][i].cf)
         /\ \A v \in DOMAIN nb.vm : nb'.vm[v].tenant = nb.vm[v].tenant
  <1> DEFINE m == Request
  <1>1. Careful(m, snap) /\ WellFormed(snap) /\ WellFormed(nb)
    BY RequestCareful DEF StoreInv
  <1> HIDE DEF m
  <1>2. Mutates(m) /\ Accepts(nb, m) /\ nb' = Commit(nb, m)
    BY DEF m
  <1>3. /\ WellFormed(nb')
        /\ \A t \in Identified : \A i \in DOMAIN nb[t] :
               /\ i \in DOMAIN nb'[t]
               /\ \/ nb'[t][i].cf = nb[t][i].cf
                  \/ i \in DOMAIN snap[t] /\ Foreign(nb'[t][i].cf) = Foreign(snap[t][i].cf)
        /\ \A v \in DOMAIN nb.vm : nb'.vm[v].tenant = nb.vm[v].tenant
    BY <1>1, <1>2, CommitEffect
  <1> QED BY <1>3 DEF StoreInv, CopiesAgree

LEMMA StageOfScope ==
  ASSUME NEW s \in {"full", "host", "vm", "vm-network", "lxc", "lxc-network"}, s # "full"
  PROVE  StageOf(s) \in 1 .. 5
  <1>1. \E k \in DOMAIN STAGES : STAGES[k] = s
    <2>1. /\ STAGES[1] = "host" /\ STAGES[2] = "vm" /\ STAGES[3] = "vm-network"
          /\ STAGES[4] = "lxc" /\ STAGES[5] = "lxc-network"
      BY DEF STAGES
    <2> QED BY <2>1, StagesDomain
  <1> QED BY <1>1, StagesDomain DEF StageOf

LEMMA StoreInvariant == Spec => []StoreInv
<1> USE StagesDomain
<1>1. Init => StoreInv
  BY FullApplyAssumption DEF Init, StoreInv, CopiesAgree, NoWork
<1>2. ASSUME StoreInv, [Next]_vars
      PROVE  StoreInv'
  <2>1. CASE \E s \in limits.scopes, c \in BOOLEAN : execute_discovered_source(s, c)
    <3>1. PICK s \in limits.scopes, c \in BOOLEAN : execute_discovered_source(s, c)
      BY <2>1
    <3>2. s \in {"full", "host", "vm", "vm-network", "lxc", "lxc-network"}
      BY <1>2 DEF StoreInv, Limits
    <3>3. /\ nb' = nb /\ limits' = limits /\ point' \in {"review", "enter"}
          /\ stage' = IF s = "full" THEN 1 ELSE StageOf(s)
      BY <3>1 DEF execute_discovered_source, BeginPass
    <3>4. stage' \in 1 .. 5
      BY <3>2, <3>3, StageOfScope
    <3> QED BY <1>2, <3>3, <3>4 DEF StoreInv, CopiesAgree
  <2>2. CASE review \/ precheck \/ report \/ refuse \/ finish
    <3>1. nb' = nb /\ limits' = limits /\ point' # "write" /\ stage' \in 1 .. 5
      <4>1. CASE review
        BY <4>1 DEF review, Stop, BeginPass, NoWork1, control
      <4>2. CASE precheck
        BY <4>2, <1>2 DEF precheck, Stop, NoWork1, control, StoreInv
      <4>3. CASE report
        BY <4>3, <1>2 DEF report, Stop, NoWork1, control, work, StoreInv
      <4>4. CASE refuse
        BY <4>4 DEF refuse, Stop, NoWork1, control
      <4>5. CASE finish
        BY <4>5, <1>2 DEF finish, BeginPass, NoWork1, control, StoreInv
      <4> QED BY <2>2, <4>1, <4>2, <4>3, <4>4, <4>5
    <3> QED BY <1>2, <3>1 DEF StoreInv, CopiesAgree
  <2>3. CASE enter
    <3>1. nb' = nb /\ limits' = limits /\ stage' \in 1 .. 5 /\ pass' = pass
      BY <2>3, <1>2 DEF enter, Stop, NoWork1, control, StoreInv
    <3>2. pass' = "apply" /\ point' = "write" => snap' = nb
      BY <2>3 DEF enter, Stop, NoWork1, View, control
    <3> QED BY <1>2, <3>1, <3>2 DEF StoreInv, CopiesAgree
  <2>4. CASE skip \/ plan
    <3>1. /\ nb' = nb /\ limits' = limits /\ stage' = stage /\ pass' = pass /\ point' = point
          /\ quiet' = quiet
          /\ pass = "apply" =>
                 snap' = snap \/ \E x : snap' = load_existing_interfaces(snap, x)
      BY <2>4 DEF skip, plan, Advance, control, ghost
    <3>2. pass = "apply" /\ point = "write" =>
              DOMAIN snap' = DOMAIN snap /\ \A t \in Identified : snap'[t] = snap[t]
      BY <1>2, <3>1 DEF load_existing_interfaces, StoreInv, WellFormed, Identified, Tables
    <3>3. pass = "apply" /\ point = "write" => WellFormed(snap')
      BY <1>2, <3>2, TablesFacts DEF StoreInv, WellFormed
    <3>4. CopiesAgree'
      BY <1>2, <3>1, <3>2 DEF StoreInv, CopiesAgree
    <3> QED BY <1>2, <3>1, <3>3, <3>4 DEF StoreInv
  <2>5. CASE write
    <3>1. /\ limits' = limits /\ stage' = stage /\ pass' = pass /\ point' = point
          /\ pass = "apply" /\ point = "write" /\ quiet' = quiet
          /\ snap' = snap \/ snap' = load_existing_interfaces(snap, nb')
      BY <2>5 DEF write, Advance, control, ghost
    <3>2. /\ WellFormed(nb')
          /\ quiet => \A t \in Identified : \A i \in DOMAIN nb[t] :
                 i \in DOMAIN nb'[t] /\ Foreign(nb'[t][i].cf) = Foreign(nb[t][i].cf)
      BY <2>5, <1>2, <3>1, RequestEffect DEF write
    <3>3. DOMAIN snap' = DOMAIN snap /\ \A t \in Identified : snap'[t] = snap[t]
      BY <1>2, <3>1 DEF load_existing_interfaces, StoreInv, WellFormed, Identified, Tables
    <3>4. WellFormed(snap')
      BY <1>2, <3>1, <3>3, TablesFacts DEF StoreInv, WellFormed
    <3>5. CopiesAgree'
      BY <1>2, <3>1, <3>2, <3>3 DEF StoreInv, CopiesAgree
    <3> QED BY <1>2, <3>1, <3>2, <3>4, <3>5 DEF StoreInv
  <2>6. CASE cut
    <3>1. /\ limits' = limits /\ stage' = 1 /\ point' = "cut"
          /\ pass = "apply" /\ point = "write" /\ Mutates(Request)
          /\ nb' = nb \/ (Accepts(nb, Request) /\ nb' = Commit(nb, Request))
      BY <2>6 DEF cut, NoWork1, control
    <3>2. WellFormed(nb')
      BY <1>2, <3>1, RequestEffect DEF StoreInv
    <3> QED BY <1>2, <3>1, <3>2 DEF StoreInv, CopiesAgree
  <2>7. CASE operator \/ provider
    <3>1. /\ limits' = limits /\ stage' = stage /\ pass' = pass /\ point' = point /\ snap' = snap
          /\ ~quiet'
      BY <2>7 DEF operator, provider, Edited, control, work
    <3>2. WellFormed(nb')
      BY <2>7, <1>2, OperatorWellFormed DEF provider, StoreInv
    <3> QED BY <1>2, <3>1, <3>2 DEF StoreInv, CopiesAgree
  <2>8. CASE UNCHANGED vars
    BY <2>8, <1>2 DEF vars, control, work, record, ghost, StoreInv, CopiesAgree
  <2> QED
    BY <1>2, <2>1, <2>2, <2>3, <2>4, <2>5, <2>6, <2>7, <2>8 DEF Next, Sync
<1> QED BY <1>1, <1>2, PTL DEF Spec

Counted == edits \in Nat

LEMMA EditsCounted == Spec => []Counted
<1>1. Init => Counted
  BY DEF Init, Counted
<1>2. ASSUME Counted, [Next]_vars
      PROVE  Counted'
  <2> USE DEF Counted
  <2>1. CASE operator \/ provider
    BY <1>2, <2>1 DEF operator, provider, Edited
  <2>2. CASE write \/ cut \/ skip \/ plan \/ finish
    BY <1>2, <2>2 DEF write, cut, skip, plan, finish
  <2>3. CASE review \/ precheck \/ report \/ enter \/ refuse
    BY <1>2, <2>3 DEF review, precheck, report, enter, refuse, Stop
  <2>4. CASE \E s \in limits.scopes, c \in BOOLEAN : execute_discovered_source(s, c)
    BY <1>2, <2>4 DEF execute_discovered_source
  <2>5. CASE UNCHANGED vars
    BY <1>2, <2>5 DEF vars
  <2> QED BY <1>2, <2>1, <2>2, <2>3, <2>4, <2>5 DEF Next, Sync
<1> QED BY <1>1, <1>2, PTL DEF Spec

(* Without an edit, NetBox changes by requests of a run only.              *)
LEMMA OnlyRequestsWrite ==
  ASSUME Counted, [Next]_vars, edits' = edits, nb' # nb
  PROVE  write \/ cut
  <1>1. ~operator /\ ~provider
    <2>1. ASSUME Edited
          PROVE  FALSE
      BY <2>1 DEF Edited, Counted
    <2> QED BY <2>1 DEF operator, provider
  <1>2. /\ ~(\E s \in limits.scopes, c \in BOOLEAN : execute_discovered_source(s, c))
        /\ ~review /\ ~precheck /\ ~report /\ ~enter /\ ~skip /\ ~plan /\ ~refuse /\ ~finish
    BY DEF execute_discovered_source, review, precheck, report, enter, skip, plan, refuse,
           finish, Stop
  <1>3. ~UNCHANGED vars
    BY DEF vars
  <1> QED BY <1>1, <1>2, <1>3 DEF Next, Sync

(* The custom fields the sync does not manage, the tenant, and the         *)
(* identities and names of other sources and of legacy formats survive     *)
(* every request of a run that nobody edits under: whatever stage, scope,  *)
(* retry or migration is under way, and however the records of NetBox are  *)
(* owned.  Every stage writes custom fields made from the copy it read.    *)
THEOREM ManualFieldsSurvive == Spec => ManualKept
<1>1. ASSUME StoreInv, Counted, [Next]_vars
      PROVE  [edits' = edits /\ quiet =>
                 /\ \A t \in Identified : \A i \in Changed(nb, nb', t) : Kept(nb[t][i], nb'[t][i])
                 /\ \A v \in DOMAIN nb.vm : nb'.vm[v].tenant = nb.vm[v].tenant]_vars
  <2>1. SUFFICES ASSUME edits' = edits, quiet, nb' # nb
                 PROVE  /\ \A t \in Identified : \A i \in Changed(nb, nb', t) :
                               Kept(nb[t][i], nb'[t][i])
                        /\ \A v \in DOMAIN nb.vm : nb'.vm[v].tenant = nb.vm[v].tenant
    BY DEF Changed
  <2>2. write \/ cut
    BY <1>1, <2>1, OnlyRequestsWrite
  <2>3. /\ pass = "apply" /\ point = "write" /\ Mutates(Request)
        /\ Accepts(nb, Request) /\ nb' = Commit(nb, Request)
    BY <2>1, <2>2 DEF write, cut
  <2>4. /\ \A t \in Identified : \A i \in DOMAIN nb[t] :
               i \in DOMAIN nb'[t] /\ Foreign(nb'[t][i].cf) = Foreign(nb[t][i].cf)
        /\ \A v \in DOMAIN nb.vm : nb'.vm[v].tenant = nb.vm[v].tenant
    BY <1>1, <2>1, <2>3, RequestEffect
  <2>5. ASSUME NEW t \in Identified, NEW i \in DOMAIN nb[t]
        PROVE  Kept(nb[t][i], nb'[t][i])
    <3> DEFINE old == nb[t][i].cf
               new == nb'[t][i].cf
    <3>1. Foreign(new) = Foreign(old) /\ CustomFields(old)
      BY <1>1, <2>4 DEF StoreInv, WellFormed
    <3> HIDE DEF old, new
    <3>2. /\ new.manual = old.manual
          /\ {v \in old.ids : v.schema = "v1" \/ v.type # Source.type \/ v.instance # Source.instance}
                 \subseteq new.ids
          /\ {p \in old.names : p.key[2] # Source.instance} \subseteq new.names
      <4>1. /\ Foreign(new).manual = Foreign(old).manual
            /\ Foreign(new).ids = Foreign(old).ids
            /\ Foreign(new).names = Foreign(old).names
        BY <3>1
      <4> QED BY <4>1 DEF Foreign
    <3>3. \A v \in old.ids : ~OwnIdentity(v) =>
              v.schema = "v1" \/ v.type # Source.type \/ v.instance # Source.instance
      BY <3>1 DEF OwnIdentity, CustomFields
    <3>4. {v \in old.ids : ~OwnIdentity(v)} \subseteq new.ids
      BY <3>2, <3>3
    <3>5. {v \in old.ids : v.schema = "v1"} \subseteq new.ids
      BY <3>2
    <3> QED BY <3>2, <3>4, <3>5 DEF Kept, old, new
  <2> QED BY <2>4, <2>5 DEF Changed
<1> QED BY <1>1, StoreInvariant, EditsCounted, PTL DEF Spec, ManualKept

-----------------------------------------------------------------------------
(* The work of a stage.  Its lists are concatenations, so that what they   *)
(* contain is shown by induction: over a set in place of a predicate.      *)
LEMMA CountingUp ==
  ASSUME NEW S, 0 \in S, \A n \in Nat : n \in S => n + 1 \in S
  PROVE  Nat \subseteq S
  <1> SUFFICES ASSUME Nat \ S # {}
               PROVE  FALSE
    OBVIOUS
  <1>1. PICK n \in Nat \ S : \A k \in Nat \ S : ~(k < n)
    <2>1. PICK n \in Nat \ S : \A k \in Nat \ S : <<k, n>> \notin OpToRel(<, Nat)
      BY NatLessThanWellFounded, WFMin
    <2> QED BY <2>1 DEF OpToRel
  <1>2. n # 0 /\ n - 1 \in Nat /\ n - 1 \notin Nat \ S
    BY <1>1
  <1>3. (n - 1) + 1 \in S
    BY <1>2
  <1> QED BY <1>1, <1>3

Step(f, seqs, i) == IF i = 1 THEN seqs[i] ELSE f[i - 1] \o seqs[i]

LEMMA FlattenExists ==
  ASSUME NEW seqs, NEW k \in Nat
  PROVE  \E f : f = [i \in 1 .. k |-> Step(f, seqs, i)]
  <1> DEFINE S == {n \in Nat : \E f : f = [i \in 1 .. n |-> Step(f, seqs, i)]}
  <1>1. 0 \in S
    <2> DEFINE f == [i \in 1 .. 0 |-> i]
    <2>1. f = [i \in 1 .. 0 |-> Step(f, seqs, i)]
      OBVIOUS
    <2> QED BY <2>1
  <1>2. ASSUME NEW n \in Nat, n \in S
        PROVE  n + 1 \in S
    <2>1. PICK f : f = [i \in 1 .. n |-> Step(f, seqs, i)]
      BY <1>2
    <2> DEFINE g == [i \in 1 .. (n + 1) |-> IF i = n + 1 THEN Step(f, seqs, i) ELSE f[i]]
    <2>2. \A i \in 1 .. n : f[i] = Step(f, seqs, i)
      BY <2>1
    <2>3. \A i \in 1 .. (n + 1) : g[i] = Step(g, seqs, i)
      <3>1. \A i \in 1 .. n : g[i] = f[i]
        OBVIOUS
      <3>2. g[n + 1] = Step(f, seqs, n + 1)
        OBVIOUS
      <3>3. \A i \in 1 .. (n + 1) : Step(g, seqs, i) = Step(f, seqs, i)
        BY <3>1 DEF Step
      <3> QED BY <2>2, <3>1, <3>2, <3>3
    <2>4. g = [i \in 1 .. (n + 1) |-> Step(g, seqs, i)]
      BY <2>3
    <2> HIDE DEF g
    <2>5. \E h : h = [i \in 1 .. (n + 1) |-> Step(h, seqs, i)]
      BY <2>4
    <2> QED BY <2>5
  <1> HIDE DEF S
  <1>3. Nat \subseteq S
    BY <1>1, <1>2, CountingUp
  <1> QED BY <1>3 DEF S

(* A set of sequences closed under concatenation contains what FlattenSeq  *)
(* makes of its members.                                                   *)
LEMMA FlattenStays ==
  ASSUME NEW C, <<>> \in C, \A s, t \in C : s \o t \in C,
         NEW seqs, Len(seqs) \in Nat, \A i \in 1 .. Len(seqs) : seqs[i] \in C,
         Len(seqs) = 0 => seqs = <<>>
  PROVE  FlattenSeq(seqs) \in C
  <1> DEFINE n == Len(seqs)
             flatten[i \in 1 .. n] == IF i = 1 THEN seqs[i] ELSE flatten[i - 1] \o seqs[i]
  <1>1. CASE n = 0
    BY <1>1 DEF FlattenSeq
  <1>2. CASE n # 0
    <2>1. flatten = [i \in 1 .. n |-> IF i = 1 THEN seqs[i] ELSE flatten[i - 1] \o seqs[i]]
      <3>1. \E f : f = [i \in 1 .. n |-> IF i = 1 THEN seqs[i] ELSE f[i - 1] \o seqs[i]]
        BY FlattenExists DEF Step
      <3> QED BY <3>1
    <2>2. FlattenSeq(seqs) = flatten[n]
      BY <1>2 DEF FlattenSeq
    <2> HIDE DEF flatten, n
    <2>3. n \in Nat /\ \A i \in 1 .. n : seqs[i] \in C
      BY DEF n
    <2> DEFINE S == {k \in Nat : k \in 1 .. n => flatten[k] \in C}
    <2>4. 0 \in S
      OBVIOUS
    <2>5. ASSUME NEW k \in Nat, k \in S
          PROVE  k + 1 \in S
      <3>1. SUFFICES ASSUME k + 1 \in 1 .. n
                     PROVE  flatten[k + 1] \in C
        OBVIOUS
      <3>2. flatten[k + 1] = IF k = 0 THEN seqs[k + 1] ELSE flatten[k] \o seqs[k + 1]
        <4>1. \A i \in 1 .. n : flatten[i] = IF i = 1 THEN seqs[i] ELSE flatten[i - 1] \o seqs[i]
          BY <2>1
        <4>2. k + 1 = 1 <=> k = 0
          OBVIOUS
        <4>3. (k + 1) - 1 = k
          OBVIOUS
        <4> HIDE DEF S
        <4> QED BY <3>1, <4>1, <4>2, <4>3
      <3>3. k = 0 \/ flatten[k] \in C
        BY <2>3, <2>5, <3>1
      <3> QED BY <2>3, <3>1, <3>2, <3>3
    <2> HIDE DEF S
    <2>6. Nat \subseteq S
      BY <2>4, <2>5, CountingUp
    <2>7. n \in 1 .. n /\ n \in S
      BY <2>3, <2>6, <1>2 DEF n
    <2> QED BY <2>2, <2>7, SMTT(30) DEF S
  <1> QED BY <1>1, <1>2

-----------------------------------------------------------------------------
(* The list of work of a stage.                                            *)

(* The items whose object an item relies on.                               *)
Needs(x) ==
    IF x.do \in {"dif", "dprimary"} THEN {Item("device", x.of, 0, 0)}
    ELSE IF x.do = "dip" THEN {Item("dif", x.of, x.nic, 0)}
    ELSE IF x.do \in {"mac", "pmac", "vip"} THEN {Item("vif", x.of, x.nic, 0)}
    ELSE {}

Items(K, D) == [do : K, of : D, nic : Nat, addr : Nat]

(* Lists in which every item comes after those it relies on.               *)
Orderly(K, D) ==
    {s \in Seq(Items(K, D)) : \A p \in DOMAIN s : Needs(s[p]) \subseteq {s[q] : q \in 1 .. (p - 1)}}

LEMMA OrderlyConcat ==
  ASSUME NEW K, NEW D, NEW s \in Orderly(K, D), NEW t \in Orderly(K, D)
  PROVE  s \o t \in Orderly(K, D)
  <1> DEFINE I == Items(K, D)
             u == s \o t
  <1>1. s \in Seq(I) /\ t \in Seq(I)
    BY DEF Orderly
  <1> HIDE DEF I
  <1>2. /\ u \in Seq(I) /\ Len(u) = Len(s) + Len(t) /\ DOMAIN u = 1 .. (Len(s) + Len(t))
        /\ \A p \in 1 .. Len(s) : u[p] = s[p]
        /\ \A p \in 1 .. Len(t) : u[Len(s) + p] = t[p]
        /\ DOMAIN s = 1 .. Len(s) /\ DOMAIN t = 1 .. Len(t)
        /\ Len(s) \in Nat /\ Len(t) \in Nat
    BY <1>1
  <1> HIDE DEF u
  <1>3. ASSUME NEW p \in DOMAIN u, NEW x \in Needs(u[p])
        PROVE  \E q \in 1 .. (p - 1) : u[q] = x
    <2>1. CASE p \in 1 .. Len(s)
      <3>1. PICK q \in 1 .. (p - 1) : s[q] = x
        BY <1>2, <1>3, <2>1 DEF Orderly
      <3> QED BY <1>2, <2>1, <3>1
    <2>2. CASE p \notin 1 .. Len(s)
      <3> DEFINE r == p - Len(s)
      <3>1. r \in 1 .. Len(t) /\ p = Len(s) + r
        BY <1>2, <2>2
      <3> HIDE DEF r
      <3>2. PICK q \in 1 .. (r - 1) : t[q] = x
        <4>1. u[p] = t[r] /\ r \in DOMAIN t
          BY <1>2, <3>1
        <4>2. Needs(t[r]) \subseteq {t[q] : q \in 1 .. (r - 1)}
          BY <4>1 DEF Orderly
        <4> QED BY <1>3, <4>1, <4>2
      <3>3. Len(s) + q \in 1 .. (p - 1) /\ u[Len(s) + q] = x
        BY <1>2, <3>1, <3>2
      <3> QED BY <3>3
    <2> QED BY <2>1, <2>2
  <1>4. \A p \in DOMAIN u : Needs(u[p]) \subseteq {u[q] : q \in 1 .. (p - 1)}
    BY <1>3
  <1> QED BY <1>2, <1>4 DEF Orderly, I, u

(* Items may be added that rely on listed ones.                            *)
LEMMA OrderlyExtend ==
  ASSUME NEW K, NEW D, NEW s \in Orderly(K, D), NEW t \in Seq(Items(K, D)),
         \A p \in DOMAIN t : Needs(t[p]) \subseteq ToSet(s)
  PROVE  s \o t \in Orderly(K, D) /\ ToSet(s) \subseteq ToSet(s \o t) /\ ToSet(t) \subseteq ToSet(s \o t)
  <1> DEFINE I == Items(K, D)
             u == s \o t
  <1>1. s \in Seq(I) /\ t \in Seq(I)
    BY DEF Orderly
  <1> HIDE DEF I
  <1>2. /\ u \in Seq(I) /\ Len(u) = Len(s) + Len(t) /\ DOMAIN u = 1 .. (Len(s) + Len(t))
        /\ \A p \in 1 .. Len(s) : u[p] = s[p]
        /\ \A p \in 1 .. Len(t) : u[Len(s) + p] = t[p]
        /\ DOMAIN s = 1 .. Len(s) /\ DOMAIN t = 1 .. Len(t)
        /\ Len(s) \in Nat /\ Len(t) \in Nat
    BY <1>1
  <1> HIDE DEF u
  <1>3. ASSUME NEW p \in DOMAIN u, NEW x \in Needs(u[p])
        PROVE  \E q \in 1 .. (p - 1) : u[q] = x
    <2>1. CASE p \in 1 .. Len(s)
      <3>1. PICK q \in 1 .. (p - 1) : s[q] = x
        BY <1>2, <1>3, <2>1 DEF Orderly
      <3> QED BY <1>2, <2>1, <3>1
    <2>2. CASE p \notin 1 .. Len(s)
      <3> DEFINE r == p - Len(s)
      <3>1. r \in 1 .. Len(t) /\ p = Len(s) + r
        BY <1>2, <2>2
      <3> HIDE DEF r
      <3>2. PICK q \in DOMAIN s : s[q] = x
        BY <1>2, <1>3, <3>1 DEF ToSet
      <3>3. q \in 1 .. (p - 1) /\ u[q] = x
        BY <1>2, <3>1, <3>2
      <3> QED BY <3>3
    <2> QED BY <2>1, <2>2
  <1>4. \A p \in DOMAIN u : Needs(u[p]) \subseteq {u[q] : q \in 1 .. (p - 1)}
    BY <1>3
  <1>5. u \in Orderly(K, D)
    BY <1>2, <1>4 DEF Orderly, I
  <1>6. ToSet(s) \subseteq ToSet(u)
    <2> SUFFICES ASSUME NEW p \in DOMAIN s
                 PROVE  s[p] \in ToSet(u)
      BY DEF ToSet
    <2>1. p \in DOMAIN u /\ u[p] = s[p]
      BY <1>2
    <2> QED BY <2>1 DEF ToSet
  <1>7. ToSet(t) \subseteq ToSet(u)
    <2> SUFFICES ASSUME NEW p \in DOMAIN t
                 PROVE  t[p] \in ToSet(u)
      BY DEF ToSet
    <2>1. Len(s) + p \in DOMAIN u /\ u[Len(s) + p] = t[p]
      BY <1>2
    <2> QED BY <2>1 DEF ToSet
  <1> QED BY <1>5, <1>6, <1>7 DEF u

LEMMA OrderlyEmpty ==
  ASSUME NEW K, NEW D
  PROVE  <<>> \in Orderly(K, D)
  BY DEF Orderly

(* Independent items, in any order.                                        *)
LEMMA OrderlyIndependent ==
  ASSUME NEW K, NEW D, NEW t \in Seq(Items(K, D)), \A p \in DOMAIN t : Needs(t[p]) = {}
  PROVE  t \in Orderly(K, D)
  BY DEF Orderly

LEMMA ListFacts ==
  ASSUME NEW s, IsList(s)
  PROVE  /\ Len(s) \in Nat /\ DOMAIN s = 1 .. Len(s)
         /\ \A k \in DOMAIN s : s[k] \in ToSet(s)
  <1>1. s \in Seq(ToSet(s))
    BY DEF IsList
  <1>2. Len(s) \in Nat /\ DOMAIN s = 1 .. Len(s)
    BY <1>1
  <1> QED BY <1>2 DEF ToSet

(* A function on the positions of a list is a list.                        *)
LEMMA MappedList ==
  ASSUME NEW s, IsList(s), NEW f, DOMAIN f = DOMAIN s, f = [k \in DOMAIN s |-> f[k]],
         NEW S, \A k \in DOMAIN s : f[k] \in S
  PROVE  f \in Seq(S) /\ Len(f) = Len(s)
  <1>1. Len(s) \in Nat /\ DOMAIN s = 1 .. Len(s)
    BY ListFacts
  <1>2. f \in [1 .. Len(s) -> S]
    BY <1>1
  <1> QED BY <1>1, <1>2

(* Flattening lists of orderly lists.                                      *)
LEMMA OrderlyFlatten ==
  ASSUME NEW K, NEW D, NEW s, IsList(s), NEW f, DOMAIN f = DOMAIN s, f = [k \in DOMAIN s |-> f[k]],
         \A k \in DOMAIN s : f[k] \in Orderly(K, D)
  PROVE  FlattenSeq(f) \in Orderly(K, D)
  <1>1. f \in Seq(Orderly(K, D)) /\ Len(f) = Len(s)
    BY MappedList
  <1>2. Len(f) \in Nat /\ (\A k \in 1 .. Len(f) : f[k] \in Orderly(K, D)) /\ (Len(f) = 0 => f = <<>>)
    BY <1>1
  <1> QED BY <1>2, OrderlyEmpty, OrderlyConcat, FlattenStays

(* The item, what it relies on, and the list of it alone.                   *)
LEMMA ItemFacts ==
  ASSUME NEW K, NEW D, NEW do \in K, NEW k \in D, NEW j \in Nat, NEW a \in Nat
  PROVE  /\ Item(do, k, j, a) \in Items(K, D)
         /\ Needs(Item(do, k, j, a)) =
                IF do \in {"dif", "dprimary"} THEN {Item("device", k, 0, 0)}
                ELSE IF do = "dip" THEN {Item("dif", k, j, 0)}
                ELSE IF do \in {"mac", "pmac", "vip"} THEN {Item("vif", k, j, 0)}
                ELSE {}
  BY DEF Item, Items, Needs

LEMMA Alone1 ==
  ASSUME NEW S, NEW x \in S
  PROVE  <<x>> \in Seq(S) /\ ToSet(<<x>>) = {x} /\ \A p \in DOMAIN <<x>> : <<x>>[p] = x
  BY DEF ToSet

(* A sequence is a list, and flattening lists gives one.                   *)
LEMMA SeqIsList ==
  ASSUME NEW S, NEW s \in Seq(S)
  PROVE  IsList(s) /\ ToSet(s) \subseteq S
  <1>1. Len(s) \in Nat /\ DOMAIN s = 1 .. Len(s) /\ s = [k \in 1 .. Len(s) |-> s[k]]
    OBVIOUS
  <1>2. s \in [1 .. Len(s) -> ToSet(s)]
    BY <1>1 DEF ToSet
  <1>3. s \in Seq(ToSet(s))
    BY <1>1, <1>2
  <1> QED BY <1>3 DEF IsList, ToSet

LEMMA FlattenLists ==
  ASSUME NEW S, NEW s, IsList(s), NEW f, DOMAIN f = DOMAIN s, f = [k \in DOMAIN s |-> f[k]],
         \A k \in DOMAIN s : f[k] \in Seq(S)
  PROVE  FlattenSeq(f) \in Seq(S)
  <1>1. f \in Seq(Seq(S)) /\ Len(f) = Len(s)
    BY MappedList
  <1>2. Len(f) \in Nat /\ (\A k \in 1 .. Len(f) : f[k] \in Seq(S)) /\ (Len(f) = 0 => f = <<>>)
    BY <1>1
  <1>3. <<>> \in Seq(S) /\ \A t, u \in Seq(S) : t \o u \in Seq(S)
    OBVIOUS
  <1> QED BY <1>2, <1>3, FlattenStays

(* The addresses of a host.                                                *)
LEMMA HostAddressesFacts ==
  ASSUME NEW h, IsList(h.ifs), \A n \in ToSet(h.ifs) : IsList(n.addrs)
  PROVE  /\ IsList(HostAddresses(h))
         /\ \A x \in ToSet(HostAddresses(h)) : x.nic \in DOMAIN h.ifs /\ x.addr \in Nat
  <1> DEFINE A == UNION {ToSet(n.addrs) : n \in ToSet(h.ifs)}
             R == [nic : DOMAIN h.ifs, addr : Nat, address : A]
             g(k) == [j \in DOMAIN h.ifs[k].addrs |->
                         [nic |-> k, addr |-> j, address |-> h.ifs[k].addrs[j]]]
             f == [k \in DOMAIN h.ifs |-> g(k)]
  <1>1. ASSUME NEW k \in DOMAIN h.ifs
        PROVE  g(k) \in Seq(R)
    <2> DEFINE s == h.ifs[k].addrs
               t == g(k)
    <2>1. h.ifs[k] \in ToSet(h.ifs)
      BY ListFacts
    <2>2. IsList(s) /\ ToSet(s) \subseteq A
      BY <2>1
    <2> HIDE DEF A
    <2>3. ASSUME NEW j \in DOMAIN s
          PROVE  t[j] \in R
      <3>1. j \in Nat /\ s[j] \in A
        BY <2>2, ListFacts
      <3>2. t[j] = [nic |-> k, addr |-> j, address |-> s[j]]
        OBVIOUS
      <3> HIDE DEF s, t
      <3> QED BY <3>1, <3>2
    <2>4. DOMAIN t = DOMAIN s /\ t = [j \in DOMAIN s |-> t[j]]
      OBVIOUS
    <2> HIDE DEF s, t, R
    <2>5. t \in Seq(R)
      BY <2>2, <2>3, <2>4, MappedList
    <2> QED BY <2>5 DEF t
  <1>2. DOMAIN f = DOMAIN h.ifs /\ f = [k \in DOMAIN h.ifs |-> f[k]] /\ \A k \in DOMAIN h.ifs : f[k] = g(k)
    OBVIOUS
  <1>3. HostAddresses(h) = FlattenSeq(f)
    BY DEF HostAddresses
  <1> HIDE DEF f, g
  <1>4. HostAddresses(h) \in Seq(R)
    <2> HIDE DEF R
    <2>1. \A k \in DOMAIN h.ifs : f[k] \in Seq(R)
      BY <1>1, <1>2
    <2> QED BY <1>2, <1>3, <2>1, FlattenLists
  <1>5. IsList(HostAddresses(h)) /\ ToSet(HostAddresses(h)) \subseteq R
    <2> HIDE DEF R
    <2> QED BY <1>4, SeqIsList
  <1>6. \A x \in R : x.nic \in DOMAIN h.ifs /\ x.addr \in Nat
    OBVIOUS
  <1> QED BY <1>5, <1>6

HostDoes == {"device", "dif", "dip", "dprimary"}

(* Devices come before their interfaces and these before their addresses.  *)
LEMMA OneHostOrderly ==
  ASSUME NEW D, NEW k \in D, NEW h, IsList(h.ifs), \A n \in ToSet(h.ifs) : IsList(n.addrs)
  PROVE  <<Item("device", k, 0, 0)>>
         \o [j \in DOMAIN h.ifs |-> Item("dif", k, j, 0)]
         \o [j \in DOMAIN HostAddresses(h) |->
                Item("dip", k, HostAddresses(h)[j].nic, HostAddresses(h)[j].addr)]
         \o <<Item("dprimary", k, 0, 0)>> \in Orderly(HostDoes, D)
  <1> DEFINE s == HostAddresses(h)
             device == Item("device", k, 0, 0)
             dif(j) == Item("dif", k, j, 0)
             dip(j) == Item("dip", k, s[j].nic, s[j].addr)
             dprimary == Item("dprimary", k, 0, 0)
             a == <<device>>
             b == [j \in DOMAIN h.ifs |-> dif(j)]
             c == [j \in DOMAIN s |-> dip(j)]
             d == <<dprimary>>
             I == Items(HostDoes, D)
  <1>0. {"device", "dif", "dip", "dprimary"} \subseteq HostDoes /\ 0 \in Nat
    BY DEF HostDoes
  <1>1. IsList(s) /\ \A x \in ToSet(s) : x.nic \in DOMAIN h.ifs /\ x.addr \in Nat
    BY HostAddressesFacts
  <1>2. DOMAIN h.ifs \subseteq Nat
    BY ListFacts
  <1> HIDE DEF s
  <1>3. \A j \in DOMAIN s : s[j].nic \in DOMAIN h.ifs /\ s[j].addr \in Nat
    BY <1>1, ListFacts
  <1>4. device \in I /\ Needs(device) = {}
    BY <1>0, ItemFacts
  <1>5. dprimary \in I /\ Needs(dprimary) = {device}
    BY <1>0, ItemFacts
  <1>6. ASSUME NEW j \in DOMAIN h.ifs
        PROVE  dif(j) \in I /\ Needs(dif(j)) = {device}
    <2>1. j \in Nat /\ "dif" \in HostDoes
      BY <1>0, <1>2
    <2> QED BY <1>0, <2>1, ItemFacts
  <1>7. ASSUME NEW j \in DOMAIN s
        PROVE  dip(j) \in I /\ Needs(dip(j)) = {dif(s[j].nic)}
    <2> DEFINE x == s[j].nic
               y == s[j].addr
    <2>1. x \in Nat /\ y \in Nat /\ "dip" \in HostDoes
      BY <1>0, <1>2, <1>3
    <2> HIDE DEF x, y
    <2>2. Item("dip", k, x, y) \in I /\ Needs(Item("dip", k, x, y)) = {Item("dif", k, x, 0)}
      BY <2>1, ItemFacts
    <2> QED BY <2>2 DEF x, y
  <1>8. /\ DOMAIN b = DOMAIN h.ifs /\ b = [j \in DOMAIN h.ifs |-> b[j]]
        /\ \A j \in DOMAIN h.ifs : b[j] = dif(j)
        /\ DOMAIN c = DOMAIN s /\ c = [j \in DOMAIN s |-> c[j]]
        /\ \A j \in DOMAIN s : c[j] = dip(j)
    OBVIOUS
  <1> HIDE DEF device, dprimary, dif, dip
  <1>9. a \in Seq(I) /\ ToSet(a) = {device} /\ \A p \in DOMAIN a : a[p] = device
    BY <1>4, Alone1
  <1>10. d \in Seq(I) /\ \A p \in DOMAIN d : d[p] = dprimary
    BY <1>5, Alone1
  <1> HIDE DEF a, b, c, d
  <1>11. b \in Seq(I) /\ c \in Seq(I)
    <2> HIDE DEF I
    <2>1. \A j \in DOMAIN h.ifs : b[j] \in I
      BY <1>6, <1>8
    <2>2. \A j \in DOMAIN s : c[j] \in I
      BY <1>7, <1>8
    <2>3. b \in Seq(I)
      BY <1>8, <2>1, MappedList
    <2>4. c \in Seq(I)
      BY <1>1, <1>8, <2>2, MappedList
    <2> QED BY <2>3, <2>4
  <1>12. a \in Orderly(HostDoes, D)
    BY <1>4, <1>9, OrderlyIndependent
  <1> DEFINE ab == a \o b
             abc == ab \o c
  <1>13. ab \in Orderly(HostDoes, D) /\ ToSet(a) \subseteq ToSet(ab) /\ ToSet(b) \subseteq ToSet(ab)
    <2>1. \A p \in DOMAIN b : Needs(b[p]) \subseteq ToSet(a)
      BY <1>6, <1>8, <1>9
    <2> QED BY <1>11, <1>12, <2>1, OrderlyExtend
  <1> HIDE DEF ab
  <1>14. abc \in Orderly(HostDoes, D) /\ ToSet(ab) \subseteq ToSet(abc)
    <2>1. \A p \in DOMAIN c : Needs(c[p]) \subseteq ToSet(b)
      BY <1>3, <1>7, <1>8, ZenonT(60) DEF ToSet
    <2>2. \A p \in DOMAIN c : Needs(c[p]) \subseteq ToSet(ab)
      BY <1>13, <2>1
    <2> QED BY <1>11, <1>13, <2>2, OrderlyExtend
  <1> HIDE DEF abc
  <1>15. abc \o d \in Orderly(HostDoes, D)
    <2>1. \A p \in DOMAIN d : Needs(d[p]) \subseteq ToSet(abc)
      BY <1>5, <1>9, <1>10, <1>13, <1>14
    <2> QED BY <1>10, <1>14, <2>1, OrderlyExtend
  <1> QED BY <1>15 DEF a, b, c, d, ab, abc, s, device, dprimary, dif, dip

LEMMA HostWorkOrderly ==
  ASSUME NEW i, Inventory(i)
  PROVE  HostWork(i) \in Orderly(HostDoes, DOMAIN i.hosts)
  <1> DEFINE D == DOMAIN i.hosts
             g(k, h) == <<Item("device", k, 0, 0)>>
                        \o [j \in DOMAIN h.ifs |-> Item("dif", k, j, 0)]
                        \o [j \in DOMAIN HostAddresses(h) |->
                               Item("dip", k, HostAddresses(h)[j].nic, HostAddresses(h)[j].addr)]
                        \o <<Item("dprimary", k, 0, 0)>>
             f == [k \in D |-> g(k, i.hosts[k])]
  <1>1. ASSUME NEW k \in D
        PROVE  g(k, i.hosts[k]) \in Orderly(HostDoes, D)
    <2>1. i.hosts[k] \in ToSet(i.hosts)
      BY ListFacts DEF Inventory
    <2>2. IsList(i.hosts[k].ifs) /\ \A n \in ToSet(i.hosts[k].ifs) : IsList(n.addrs)
      BY <2>1 DEF Inventory
    <2> HIDE DEF D
    <2> QED BY <2>2, OneHostOrderly
  <1>2. HostWork(i) = FlattenSeq(f)
    BY DEF HostWork
  <1> HIDE DEF g
  <1>3. DOMAIN f = D /\ f = [k \in D |-> f[k]] /\ \A k \in D : f[k] = g(k, i.hosts[k])
    OBVIOUS
  <1>4. \A k \in DOMAIN i.hosts : f[k] \in Orderly(HostDoes, D)
    BY <1>1, <1>3
  <1> HIDE DEF f
  <1>5. IsList(i.hosts)
    BY DEF Inventory
  <1> QED BY <1>2, <1>3, <1>4, <1>5, OrderlyFlatten

-----------------------------------------------------------------------------
NetworkDoes == {"vif", "mac", "pmac", "vip", "primary"}

LEMMA UsableAddressesList ==
  ASSUME NEW n, IsList(n.addrs)
  PROVE  IsList(usable_addresses(n))
  <1> DEFINE s == n.addrs
             S == ToSet(s)
             g(j) == IF s[j].ip \in Unusable THEN <<>> ELSE <<s[j]>>
             f == [j \in DOMAIN s |-> g(j)]
  <1>1. ASSUME NEW j \in DOMAIN s
        PROVE  g(j) \in Seq(S)
    <2>1. s[j] \in S
      BY ListFacts
    <2> HIDE DEF S, s
    <2> QED BY <2>1
  <1>2. usable_addresses(n) = FlattenSeq(f)
    BY DEF usable_addresses
  <1> HIDE DEF g
  <1>3. DOMAIN f = DOMAIN s /\ f = [j \in DOMAIN s |-> f[j]] /\ \A j \in DOMAIN s : f[j] = g(j)
    OBVIOUS
  <1> HIDE DEF f, S
  <1>4. \A j \in DOMAIN s : f[j] \in Seq(S)
    BY <1>1, <1>3
  <1>5. FlattenSeq(f) \in Seq(S)
    <2> HIDE DEF s
    <2>1. IsList(s)
      BY DEF s
    <2> QED BY <1>3, <1>4, <2>1, FlattenLists
  <1> QED BY <1>2, <1>5, SeqIsList

(* An interface comes before its MAC and its addresses.                    *)
LEMMA OneNicOrderly ==
  ASSUME NEW D, NEW k \in D, NEW j \in Nat, NEW n, IsList(n.addrs)
  PROVE  <<Item("vif", k, j, 0)>>
         \o (IF n.mac = NoMac THEN <<>> ELSE <<Item("mac", k, j, 0), Item("pmac", k, j, 0)>>)
         \o [a \in DOMAIN usable_addresses(n) |-> Item("vip", k, j, a)]
             \in Orderly(NetworkDoes, D)
  <1> DEFINE s == usable_addresses(n)
             vif == Item("vif", k, j, 0)
             mac == Item("mac", k, j, 0)
             pmac == Item("pmac", k, j, 0)
             vip(x) == Item("vip", k, j, x)
             a == <<vif>>
             b == IF n.mac = NoMac THEN <<>> ELSE <<mac, pmac>>
             c == [x \in DOMAIN s |-> vip(x)]
             I == Items(NetworkDoes, D)
  <1>0. {"vif", "mac", "pmac", "vip"} \subseteq NetworkDoes /\ 0 \in Nat
    BY DEF NetworkDoes
  <1>1. IsList(s)
    BY UsableAddressesList
  <1> HIDE DEF s
  <1>2. DOMAIN s \subseteq Nat
    BY <1>1, ListFacts
  <1>3. vif \in I /\ Needs(vif) = {}
    BY <1>0, ItemFacts
  <1>4. mac \in I /\ Needs(mac) = {vif} /\ pmac \in I /\ Needs(pmac) = {vif}
    BY <1>0, ItemFacts
  <1>5. ASSUME NEW x \in DOMAIN s
        PROVE  vip(x) \in I /\ Needs(vip(x)) = {vif}
    <2>1. x \in Nat /\ "vip" \in NetworkDoes
      BY <1>0, <1>2
    <2> QED BY <2>1, ItemFacts
  <1> HIDE DEF vif, mac, pmac, vip
  <1>6. /\ DOMAIN c = DOMAIN s /\ c = [x \in DOMAIN s |-> c[x]]
        /\ \A x \in DOMAIN s : c[x] = vip(x)
    OBVIOUS
  <1>7. a \in Seq(I) /\ ToSet(a) = {vif} /\ \A p \in DOMAIN a : a[p] = vif
    BY <1>3, Alone1
  <1> HIDE DEF I
  <1>8. b \in Seq(I) /\ \A p \in DOMAIN b : b[p] = mac \/ b[p] = pmac
    BY <1>4
  <1> HIDE DEF a, b, c
  <1>9. c \in Seq(I)
    <2>1. \A x \in DOMAIN s : c[x] \in I
      BY <1>5, <1>6
    <2> QED BY <1>1, <1>6, <2>1, MappedList
  <1>10. a \in Orderly(NetworkDoes, D)
    BY <1>3, <1>7, OrderlyIndependent DEF I
  <1> DEFINE ab == a \o b
  <1>11. ab \in Orderly(NetworkDoes, D) /\ ToSet(a) \subseteq ToSet(ab)
    <2>1. \A p \in DOMAIN b : Needs(b[p]) \subseteq ToSet(a)
      BY <1>4, <1>7, <1>8
    <2> QED BY <1>8, <1>10, <2>1, OrderlyExtend DEF I
  <1> HIDE DEF ab
  <1>12. ab \o c \in Orderly(NetworkDoes, D)
    <2>1. \A p \in DOMAIN c : Needs(c[p]) \subseteq ToSet(ab)
      BY <1>5, <1>6, <1>7, <1>11
    <2> QED BY <1>9, <1>11, <2>1, OrderlyExtend DEF I
  <1> QED BY <1>12 DEF a, b, c, ab, s, vif, mac, pmac, vip

LEMMA GuestWorkOrderly ==
  ASSUME NEW D, NEW k \in D, NEW g, IsList(g.nics), \A n \in ToSet(g.nics) : IsList(n.addrs)
  PROVE  GuestWork(k, g) \in Orderly(NetworkDoes, D)
  <1> DEFINE q(j, n) == <<Item("vif", k, j, 0)>>
                   \o (IF n.mac = NoMac THEN <<>> ELSE <<Item("mac", k, j, 0), Item("pmac", k, j, 0)>>)
                   \o [a \in DOMAIN usable_addresses(n) |-> Item("vip", k, j, a)]
             f == [j \in DOMAIN g.nics |-> q(j, g.nics[j])]
             primary == Item("primary", k, 0, 0)
             last == IF PrimaryCandidate(g) = {} THEN <<>> ELSE <<primary>>
             C == Orderly(NetworkDoes, D)
  <1>1. ASSUME NEW j \in DOMAIN g.nics
        PROVE  q(j, g.nics[j]) \in C
    <2>1. g.nics[j] \in ToSet(g.nics) /\ j \in Nat
      BY ListFacts
    <2> QED BY <2>1, OneNicOrderly
  <1>2. GuestWork(k, g) = FlattenSeq(f) \o last
    BY DEF GuestWork
  <1> HIDE DEF q
  <1>3. DOMAIN f = DOMAIN g.nics /\ f = [j \in DOMAIN g.nics |-> f[j]]
        /\ \A j \in DOMAIN g.nics : f[j] = q(j, g.nics[j])
    OBVIOUS
  <1> HIDE DEF f
  <1>4. FlattenSeq(f) \in C
    <2>1. \A j \in DOMAIN g.nics : f[j] \in C
      BY <1>1, <1>3
    <2> QED BY <1>3, <2>1, OrderlyFlatten
  <1>5. last \in C
    <2>1. primary \in Items(NetworkDoes, D) /\ Needs(primary) = {}
      <3>1. "primary" \in NetworkDoes /\ 0 \in Nat
        BY DEF NetworkDoes
      <3> QED BY <3>1, ItemFacts
    <2> HIDE DEF primary
    <2>2. <<primary>> \in C
      <3>1. <<primary>> \in Seq(Items(NetworkDoes, D)) /\ \A p \in DOMAIN <<primary>> : <<primary>>[p] = primary
        BY <2>1, Alone1
      <3> QED BY <2>1, <3>1, OrderlyIndependent
    <2> HIDE DEF C
    <2> QED BY <2>2, OrderlyEmpty DEF C
  <1> HIDE DEF last
  <1> QED BY <1>2, <1>4, <1>5, OrderlyConcat

LEMMA NetworkWorkOrderly ==
  ASSUME NEW guests, IsList(guests),
         \A g \in ToSet(guests) : IsList(g.nics) /\ \A n \in ToSet(g.nics) : IsList(n.addrs)
  PROVE  NetworkWork(guests) \in Orderly(NetworkDoes, DOMAIN guests)
  <1> DEFINE D == DOMAIN guests
             f == [k \in D |-> GuestWork(k, guests[k])]
  <1>1. ASSUME NEW k \in D
        PROVE  GuestWork(k, guests[k]) \in Orderly(NetworkDoes, D)
    <2>1. guests[k] \in ToSet(guests)
      BY ListFacts
    <2> HIDE DEF D
    <2> QED BY <2>1, GuestWorkOrderly
  <1>2. NetworkWork(guests) = FlattenSeq(f)
    BY DEF NetworkWork
  <1>3. DOMAIN f = D /\ f = [k \in D |-> f[k]] /\ \A k \in D : f[k] = GuestWork(k, guests[k])
    OBVIOUS
  <1>4. \A k \in DOMAIN guests : f[k] \in Orderly(NetworkDoes, D)
    BY <1>1, <1>3
  <1> HIDE DEF f
  <1> QED BY <1>2, <1>3, <1>4, OrderlyFlatten

LEMMA OnePerGuest ==
  ASSUME NEW do \in {"vm", "lxc"}, NEW guests, IsList(guests)
  PROVE  [k \in DOMAIN guests |-> Item(do, k, 0, 0)] \in Orderly({do}, DOMAIN guests)
  <1> DEFINE D == DOMAIN guests
             f == [k \in D |-> Item(do, k, 0, 0)]
  <1>1. ASSUME NEW k \in D
        PROVE  Item(do, k, 0, 0) \in Items({do}, D) /\ Needs(Item(do, k, 0, 0)) = {}
    <2> HIDE DEF D
    <2> QED BY ItemFacts
  <1>2. DOMAIN f = D /\ f = [k \in D |-> f[k]] /\ \A k \in D : f[k] = Item(do, k, 0, 0)
    OBVIOUS
  <1> HIDE DEF f
  <1>3. f \in Seq(Items({do}, D))
    <2>1. \A k \in D : f[k] \in Items({do}, D)
      BY <1>1, <1>2
    <2> QED BY <1>2, <2>1, MappedList
  <1>4. \A k \in DOMAIN f : Needs(f[k]) = {}
    BY <1>1, <1>2
  <1>5. f \in Orderly({do}, D)
    BY <1>3, <1>4, OrderlyIndependent
  <1> QED BY <1>5 DEF f

(* What the stages work on, and the kinds of their items.                  *)
Does(k) ==
    IF k = 1 THEN HostDoes ELSE IF k = 2 THEN {"vm"} ELSE IF k = 4 THEN {"lxc"} ELSE NetworkDoes

Discovered(k, i) == IF k = 1 THEN i.hosts ELSE IF k \in {2, 3} THEN i.vms ELSE i.lxcs

LEMMA StageNames ==
  /\ STAGES[1] = "host" /\ STAGES[2] = "vm" /\ STAGES[3] = "vm-network"
  /\ STAGES[4] = "lxc" /\ STAGES[5] = "lxc-network"
  BY DEF STAGES

LEMMA WorkOrderly ==
  ASSUME NEW k \in 1 .. 5, NEW i, Inventory(i)
  PROVE  Work(k, i) \in Orderly(Does(k), DOMAIN Discovered(k, i))
  <1>0. IsList(i.hosts) /\ IsList(i.vms) /\ IsList(i.lxcs)
    BY DEF Inventory
  <1>1. CASE k = 1
    BY <1>1, StageNames, HostWorkOrderly DEF Work, Does, Discovered
  <1>2. CASE k = 2
    <2>1. VmWork(i) \in Orderly({"vm"}, DOMAIN i.vms)
      BY <1>0, OnePerGuest DEF VmWork
    <2> QED BY <1>2, <2>1, StageNames DEF Work, Does, Discovered
  <1>3. CASE k = 3
    <2>1. NetworkWork(i.vms) \in Orderly(NetworkDoes, DOMAIN i.vms)
      BY <1>0, NetworkWorkOrderly DEF Inventory
    <2> QED BY <1>3, <2>1, StageNames DEF Work, Does, Discovered
  <1>4. CASE k = 4
    <2>1. LxcWork(i) \in Orderly({"lxc"}, DOMAIN i.lxcs)
      BY <1>0, OnePerGuest DEF LxcWork
    <2> QED BY <1>4, <2>1, StageNames DEF Work, Does, Discovered
  <1>5. CASE k = 5
    <2>1. NetworkWork(i.lxcs) \in Orderly(NetworkDoes, DOMAIN i.lxcs)
      BY <1>0, NetworkWorkOrderly DEF Inventory
    <2> QED BY <1>5, <2>1, StageNames DEF Work, Does, Discovered
  <1> QED BY <1>1, <1>2, <1>3, <1>4, <1>5

-----------------------------------------------------------------------------
(* Ownership.  L says whether this source is the declared legacy owner.    *)
OwnBy(L, v) ==
    \/ v.schema = "v2" /\ v.type = Source.type /\ v.instance = Source.instance
    \/ v.schema = "v1" /\ v.type = Source.type /\ L

OwnFields(L, cf) == \E v \in cf.ids : OwnBy(L, v)

MineAt(L, w, a) ==
    \/ a[1] = "vif" /\ a[2] \in DOMAIN w.vif /\ OwnFields(L, w.vif[a[2]].cf)
    \/ /\ a[1] = "dif" /\ a[2] \in DOMAIN w.dif /\ w.dif[a[2]].device \in DOMAIN w.device
       /\ OwnFields(L, w.device[w.dif[a[2]].device].cf)

(* A record the source may change.                                         *)
Touchable(L, x, t, i) ==
    /\ t \in Identified => OwnFields(L, x[t][i].cf)
    /\ t = "dif" => MineAt(L, x, <<"dif", i>>)
    /\ t \in {"mac", "ip"} => x[t][i].assigned = Free \/ MineAt(L, x, x[t][i].assigned)

LEMMA OwnershipAgrees ==
  /\ \A r : Ours(r) <=> OwnFields(LegacyOwner, r.cf)
  /\ \A w, a : MineAt(LegacyOwner, w, a) => OursAt(w, a)
  <1>1. \A r : Ours(r) <=> OwnFields(LegacyOwner, r.cf)
    BY DEF Ours, OwnFields, OwnIdentity, OwnBy
  <1>2. ASSUME NEW w, NEW a, MineAt(LegacyOwner, w, a)
        PROVE  OursAt(w, a)
    BY <1>1, <1>2 DEF MineAt, OursAt
  <1> QED BY <1>1, <1>2

LEMMA TouchableIsPermitted ==
  ASSUME NEW w, NEW t \in Tables, NEW i, Touchable(LegacyOwner, w, t, i)
  PROVE  Permitted(w, t, i)
  <1>1. CASE t \in Identified
    BY <1>1, OwnershipAgrees DEF Touchable, Permitted
  <1>2. CASE t = "dif"
    BY <1>2, OwnershipAgrees, TablesFacts DEF Touchable, Permitted
  <1>3. CASE t \in {"mac", "ip"}
    BY <1>3, OwnershipAgrees, TablesFacts DEF Touchable, Permitted
  <1> QED BY <1>1, <1>2, <1>3 DEF Tables, Identified

(* source_identity_match_rank is positive for records of this source only. *)
LEMMA RankOwn ==
  ASSUME NEW ids, NEW kind, NEW ext, NEW legacy_ids, NEW owner \in BOOLEAN,
         NEW L \in BOOLEAN, owner => L,
         source_identity_match_rank(ids, V2(kind, ext), legacy_ids, owner) > 0
  PROVE  \E v \in ids : OwnBy(L, v)
  <1> DEFINE d == V2(kind, ext)
  <1>1. d.schema = "v2" /\ d.type = Source.type /\ d.instance = Source.instance
    BY DEF V2
  <1> HIDE DEF d
  <1>2. source_identity_match_rank(ids, d, legacy_ids, owner) > 0
    BY DEF d
  <1>3. CASE d \in ids
    BY <1>1, <1>3 DEF OwnBy
  <1>4. CASE d \notin ids
    <2>1. owner /\ \E v \in ids : v.schema = "v1" /\ v.type = d.type /\ v.ext \in legacy_ids
      BY <1>2, <1>4 DEF source_identity_match_rank
    <2> QED BY <1>1, <2>1 DEF OwnBy
  <1> QED BY <1>3, <1>4

LEMMA BestMatches ==
  ASSUME NEW rank, NEW c \in select_best_identity_matches(rank)
  PROVE  c \in DOMAIN rank /\ rank[c] > 0
  BY DEF select_best_identity_matches

(* Whatever a stage looks up by identity is its own.                       *)
LEMMA DeviceMatchOwn ==
  ASSUME NEW L \in BOOLEAN, NEW w, NEW h,
         h.legacy_identity_owner \in BOOLEAN, h.legacy_identity_owner => L, NEW d \in resolve_device(w, h)
  PROVE  d \in DOMAIN w.device /\ OwnFields(L, w.device[d].cf)
  <1> DEFINE r(c) == sync_identity_match_rank(w.device[c].cf.ids, h)
             rank == [c \in DOMAIN w.device |-> r(c)]
  <1>1. d \in select_best_identity_matches(rank)
    BY DEF resolve_device, find_sync_identity_matches
  <1> HIDE DEF r
  <1>2. d \in DOMAIN w.device /\ r(d) > 0
    BY <1>1, BestMatches
  <1> QED BY <1>2, RankOwn DEF r, sync_identity_match_rank, host_source_identity, OwnFields

LEMMA VmMatchOwn ==
  ASSUME NEW L \in BOOLEAN, NEW w, NEW C, NEW g,
         g.legacy_identity_owner \in BOOLEAN, g.legacy_identity_owner => L,
         NEW d \in find_vm_sync_identity_matches(w, C, g)
  PROVE  d \in C /\ OwnFields(L, w.vm[d].cf)
  <1> DEFINE r(c) == vm_sync_identity_match_rank(w.vm[c].cf.ids, g)
             rank == [c \in C |-> r(c)]
  <1>1. d \in select_best_identity_matches(rank)
    BY DEF find_vm_sync_identity_matches
  <1> HIDE DEF r
  <1>2. d \in C /\ r(d) > 0
    BY <1>1, BestMatches
  <1> QED BY <1>2, RankOwn
          DEF r, vm_sync_identity_match_rank, virtual_machine_source_identity, OwnFields

LEMMA LxcMatchOwn ==
  ASSUME NEW L \in BOOLEAN, NEW w, NEW g,
         g.legacy_identity_owner \in BOOLEAN, g.legacy_identity_owner => L,
         NEW d \in find_lxc_sync_identity_matches(w, g)
  PROVE  d \in DOMAIN w.vm /\ OwnFields(L, w.vm[d].cf)
  <1> DEFINE r(c) == lxc_sync_identity_match_rank(w.vm[c].cf.ids, g)
             rank == [c \in DOMAIN w.vm |-> r(c)]
  <1>1. d \in select_best_identity_matches(rank)
    BY DEF find_lxc_sync_identity_matches
  <1> HIDE DEF r
  <1>2. d \in DOMAIN w.vm /\ r(d) > 0
    BY <1>1, BestMatches
  <1> QED BY <1>2, RankOwn DEF r, lxc_sync_identity_match_rank, lxc_source_identity, OwnFields

LEMMA NicMatchOwn ==
  ASSUME NEW L \in BOOLEAN, NEW w, NEW v, NEW g, NEW n,
         g.legacy_identity_owner \in BOOLEAN, g.legacy_identity_owner => L,
         NEW d \in interface_match(w, v, g, n)
  PROVE  d \in DOMAIN w.vif /\ OwnFields(L, w.vif[d].cf)
  <1> DEFINE r(c) == nic_sync_identity_match_rank(w.vif[c].cf.ids, g, n)
             rank == [c \in InterfacesOf(w, v) |-> r(c)]
  <1>1. d \in select_best_identity_matches(rank)
    BY DEF interface_match
  <1> HIDE DEF r
  <1>2. d \in InterfacesOf(w, v) /\ r(d) > 0
    BY <1>1, BestMatches
  <1>3. d \in DOMAIN w.vif
    BY <1>2 DEF InterfacesOf
  <1> QED BY <1>2, <1>3, RankOwn
          DEF r, nic_sync_identity_match_rank, virtual_machine_nic_source_identity, OwnFields

LEMMA LxcNicMatchOwn ==
  ASSUME NEW L \in BOOLEAN, NEW w, NEW v, NEW g, NEW n,
         g.legacy_identity_owner \in BOOLEAN, g.legacy_identity_owner => L,
         NEW d \in find_lxc_interface(w, v, g, n)
  PROVE  d \in DOMAIN w.vif /\ OwnFields(L, w.vif[d].cf)
  <1> DEFINE ids == w.vif[d].cf.ids
             r(c) == lxc_nic_match_rank(w.vif[c].cf.ids, g, n)
             rank == [c \in InterfacesOf(w, v) |-> r(c)]
             first == source_identity_match_rank(ids, V2("lxc-nic", <<g.vmid, n.key>>),
                          {lxc_identity_source_id(g) \o <<n.name>>}, g.legacy_identity_owner)
             second == source_identity_match_rank(ids, V2("lxc-nic", <<g.vmid, n.name>>), {}, FALSE)
  <1>1. d \in select_best_identity_matches(rank)
    BY DEF find_lxc_interface
  <1>2. r(d) = first \/ r(d) = second
    BY DEF lxc_nic_match_rank, lxc_nic_source_identity
  <1> HIDE DEF r
  <1>3. d \in InterfacesOf(w, v) /\ r(d) > 0
    BY <1>1, BestMatches
  <1>4. d \in DOMAIN w.vif
    BY <1>3 DEF InterfacesOf
  <1> HIDE DEF ids
  <1>5. CASE first > 0
    BY <1>4, <1>5, RankOwn DEF ids, OwnFields
  <1>6. CASE second > 0
    <2>1. \E u \in ids : OwnBy(L, u)
      BY <1>6, RankOwn
    <2> QED BY <1>4, <2>1 DEF ids, OwnFields
  <1> QED BY <1>2, <1>3, <1>5, <1>6

(* The custom fields a stage writes bear this source's identity.           *)
LEMMA MergedOwn ==
  ASSUME NEW L, NEW cf, CustomFields(cf), NEW kind, NEW ext, NEW name, NEW x
  PROVE  /\ OwnFields(L, Merged(cf, V2(kind, ext), name))
         /\ OwnFields(L, [Merged(cf, V2(kind, ext), name) EXCEPT !.extra = x])
  <1> DEFINE d == V2(kind, ext)
             new == Merged(cf, d, name)
  <1>1. d.schema = "v2" /\ d.type = Source.type /\ d.instance = Source.instance
    BY DEF V2
  <1> HIDE DEF d
  <1>2. "ids" \in DOMAIN new /\ new.ids = merge_source_identities(cf.ids, d)
    BY DEF Merged, CustomFields
  <1>3. d \in new.ids /\ OwnBy(L, d)
    BY <1>1, <1>2 DEF merge_source_identities, OwnBy
  <1> HIDE DEF new
  <1>4. [new EXCEPT !.extra = x].ids = new.ids
    BY <1>2
  <1> QED BY <1>3, <1>4 DEF OwnFields, new, d

LEMMA BuildersOwn ==
  ASSUME NEW L, NEW cf, CustomFields(cf), NEW g, NEW n
  PROVE  /\ OwnFields(L, build_device_custom_fields(g, cf))
         /\ OwnFields(L, build_vm_custom_fields(g, cf))
         /\ OwnFields(L, build_lxc_custom_fields(g, cf))
         /\ OwnFields(L, build_nic_custom_fields(g, n, cf))
         /\ OwnFields(L, build_lxc_nic_custom_fields(g, n, cf))
  BY MergedOwn
  DEF build_device_custom_fields, build_vm_custom_fields, build_lxc_custom_fields,
      build_nic_custom_fields, build_lxc_nic_custom_fields, host_source_identity,
      virtual_machine_source_identity, lxc_source_identity, virtual_machine_nic_source_identity,
      lxc_nic_source_identity

-----------------------------------------------------------------------------
(* A request that changes only what is this source's, on NetBox as it is,  *)
(* and what it writes is this source's.                                    *)
Rightful(L, m, x) ==
    /\ m.op = "update" =>
           /\ Touchable(L, x, m.table, m.id)
           /\ m.table \in Identified /\ "cf" \in DOMAIN m.fields => OwnFields(L, m.fields.cf)
           /\ m.table = "dif" => "device" \notin DOMAIN m.fields
           /\ m.table \in {"mac", "ip"} =>
                  "assigned" \in DOMAIN m.fields /\ MineAt(L, x, m.fields.assigned)
    /\ m.op = "create" =>
           /\ m.table \in Identified => OwnFields(L, m.fields.cf)
           /\ m.table = "dif" => /\ m.fields.device \in DOMAIN x.device
                                 /\ OwnFields(L, x.device[m.fields.device].cf)
           /\ m.table \in {"mac", "ip"} => MineAt(L, x, m.fields.assigned)

(* Nothing that was this source's is taken from it between x and y.        *)
Keeps(L, x, y) ==
    /\ \A t \in Identified : \A i \in DOMAIN x[t] :
           i \in DOMAIN y[t] /\ (OwnFields(L, x[t][i].cf) => OwnFields(L, y[t][i].cf))
    /\ \A i \in DOMAIN x.dif : i \in DOMAIN y.dif /\ y.dif[i].device = x.dif[i].device

LEMMA KeepsHolders ==
  ASSUME NEW L, NEW x, NEW y, Keeps(L, x, y), NEW a, MineAt(L, x, a)
  PROVE  MineAt(L, y, a)
  <1>1. CASE a[1] = "vif" /\ a[2] \in DOMAIN x.vif /\ OwnFields(L, x.vif[a[2]].cf)
    BY <1>1, TablesFacts DEF Keeps, MineAt
  <1>2. CASE /\ a[1] = "dif" /\ a[2] \in DOMAIN x.dif /\ x.dif[a[2]].device \in DOMAIN x.device
             /\ OwnFields(L, x.device[x.dif[a[2]].device].cf)
    BY <1>2, TablesFacts DEF Keeps, MineAt
  <1> QED BY <1>1, <1>2 DEF MineAt

(* What a request does to one table and the others.                        *)
LEMMA CommitShape ==
  ASSUME NEW x, WellFormed(x), NEW m, Mutates(m), m.table \in Tables, Accepts(x, m),
         NEW y, y = Commit(x, m)
  PROVE  /\ DOMAIN y = DOMAIN x /\ Tables \subseteq DOMAIN x
         /\ \A t \in Tables : t # m.table => y[t] = x[t]
         /\ DOMAIN y[m.table] = DOMAIN x[m.table] \cup {m.id}
         /\ \A i \in DOMAIN x[m.table] : i # m.id => y[m.table][i] = x[m.table][i]
         /\ m.op = "create" => m.id \in Ids \ DOMAIN x[m.table] /\ y[m.table][m.id] = m.fields
         /\ m.op = "update" => /\ m.id \in DOMAIN x[m.table]
                               /\ y[m.table][m.id] = Patched(x[m.table][m.id], m.fields)
  <1> DEFINE new == IF m.op = "create" THEN m.fields ELSE Patched(x[m.table][m.id], m.fields)
  <1>1. m.op \in {"create", "update"} /\ m.table \in DOMAIN x /\ Tables \subseteq DOMAIN x
    BY DEF Mutates, WellFormed
  <1>2. y = [x EXCEPT ![m.table] = Put(x[m.table], m.id, new)]
    BY <1>1 DEF Commit
  <1>3. /\ m.op = "create" => m.id \in Ids \ DOMAIN x[m.table] /\ new = m.fields
        /\ m.op = "update" => m.id \in DOMAIN x[m.table] /\ new = Patched(x[m.table][m.id], m.fields)
    BY DEF Accepts
  <1> HIDE DEF new
  <1>4. /\ DOMAIN y = DOMAIN x
        /\ y[m.table] = Put(x[m.table], m.id, new)
        /\ \A t \in DOMAIN x : t # m.table => y[t] = x[t]
    BY <1>1, <1>2
  <1>5. /\ DOMAIN y[m.table] = DOMAIN x[m.table] \cup {m.id}
        /\ y[m.table][m.id] = new
        /\ \A i \in DOMAIN x[m.table] : i # m.id => y[m.table][i] = x[m.table][i]
    BY <1>4 DEF Put
  <1> QED BY <1>1, <1>3, <1>4, <1>5

LEMMA CommitAttached ==
  ASSUME NEW x, WellFormed(x), Attached(x), NEW w, NEW m, Careful(m, w), Mutates(m), Accepts(x, m)
  PROVE  Attached(Commit(x, m))
  <1> DEFINE y == Commit(x, m)
  <1>0. m.table \in Tables /\ m.op \in {"create", "update"}
    BY DEF Careful, Mutates
  <1>1. /\ \A t \in Tables : t # m.table => y[t] = x[t]
        /\ DOMAIN y[m.table] = DOMAIN x[m.table] \cup {m.id}
        /\ \A i \in DOMAIN x[m.table] : i # m.id => y[m.table][i] = x[m.table][i]
        /\ m.op = "create" => m.id \in Ids \ DOMAIN x[m.table] /\ y[m.table][m.id] = m.fields
        /\ m.op = "update" => /\ m.id \in DOMAIN x[m.table]
                              /\ y[m.table][m.id] = Patched(x[m.table][m.id], m.fields)
    BY <1>0, CommitShape
  <1> HIDE DEF y
  <1>2. m.op = "update" => DOMAIN y[m.table][m.id] = DOMAIN x[m.table][m.id]
    BY <1>1 DEF Patched
  <1>3. \A t \in Tables : NoObject \notin DOMAIN y[t]
    BY <1>0, <1>1, IdsAssumption DEF Attached, NoObject
  <1>4. ASSUME NEW i \in DOMAIN y.dif
        PROVE  "device" \in DOMAIN y.dif[i]
    BY <1>0, <1>1, <1>2, TablesFacts DEF Attached, Careful
  <1>5. ASSUME NEW t \in {"mac", "ip"}, NEW i \in DOMAIN y[t]
        PROVE  "assigned" \in DOMAIN y[t][i]
    BY <1>0, <1>1, <1>2, TablesFacts DEF Attached, Careful
  <1> QED BY <1>3, <1>4, <1>5 DEF Attached, y

(* The effect of a rightful request.                                       *)
LEMMA RightfulEffect ==
  ASSUME NEW L, NEW x, WellFormed(x), Attached(x), NEW m, Rightful(L, m, x), Mutates(m),
         m.table \in Tables, Accepts(x, m), NEW y, y = Commit(x, m)
  PROVE  /\ Keeps(L, x, y)
         /\ \A t \in Tables : \A i \in Changed(x, y, t) : Touchable(L, x, t, i)
         /\ \A t \in {"mac", "ip"} :
                \A i \in Changed(x, y, t) \cup (DOMAIN y[t] \ DOMAIN x[t]) :
                    MineAt(L, y, y[t][i].assigned)
         /\ m.table = "device" => m.id \in DOMAIN y.device /\ OwnFields(L, y.device[m.id].cf)
         /\ m.table \in {"dif", "vif"} => MineAt(L, y, <<m.table, m.id>>)
         /\ \A t \in {"mac", "ip"} : \A i \in DOMAIN x[t] : i \in DOMAIN y[t]
  <1>0. m.op \in {"create", "update"}
    BY DEF Mutates
  <1>1. /\ \A t \in Tables : t # m.table => y[t] = x[t]
        /\ DOMAIN y[m.table] = DOMAIN x[m.table] \cup {m.id}
        /\ \A i \in DOMAIN x[m.table] : i # m.id => y[m.table][i] = x[m.table][i]
        /\ m.op = "create" => m.id \notin DOMAIN x[m.table] /\ y[m.table][m.id] = m.fields
        /\ m.op = "update" => /\ m.id \in DOMAIN x[m.table]
                              /\ y[m.table][m.id] = Patched(x[m.table][m.id], m.fields)
    BY CommitShape
  <1>2. ASSUME m.table \in Identified
        PROVE  OwnFields(L, y[m.table][m.id].cf)
    <2>1. CASE m.op = "create"
      BY <1>1, <1>2, <2>1 DEF Rightful
    <2>2. CASE m.op = "update"
      <3>1. "cf" \in DOMAIN x[m.table][m.id]
        BY <1>1, <1>2, <2>2 DEF WellFormed
      <3>2. y[m.table][m.id].cf = IF "cf" \in DOMAIN m.fields THEN m.fields.cf
                                  ELSE x[m.table][m.id].cf
        BY <1>1, <2>2, <3>1 DEF Patched
      <3>3. /\ "cf" \in DOMAIN m.fields => OwnFields(L, m.fields.cf)
            /\ OwnFields(L, x[m.table][m.id].cf)
        BY <1>2, <2>2 DEF Rightful, Touchable
      <3> QED BY <3>2, <3>3
    <2> QED BY <1>0, <2>1, <2>2
  <1>3. ASSUME NEW t \in Identified, NEW i \in DOMAIN x[t]
        PROVE  i \in DOMAIN y[t] /\ (OwnFields(L, x[t][i].cf) => OwnFields(L, y[t][i].cf))
    <2>1. t \in Tables
      BY TablesFacts
    <2>2. CASE t # m.table
      BY <1>1, <2>1, <2>2
    <2>3. CASE t = m.table /\ i # m.id
      BY <1>1, <2>3
    <2>4. CASE t = m.table /\ i = m.id
      BY <1>1, <1>2, <2>4
    <2> QED BY <2>2, <2>3, <2>4
  <1>4. ASSUME NEW i \in DOMAIN x.dif
        PROVE  i \in DOMAIN y.dif /\ y.dif[i].device = x.dif[i].device
    <2>1. CASE m.table # "dif"
      BY <1>1, <2>1, TablesFacts
    <2>2. CASE m.table = "dif" /\ i # m.id
      BY <1>1, <2>2
    <2>3. CASE m.table = "dif" /\ i = m.id
      <3>1. m.op = "update" /\ "device" \in DOMAIN x.dif[i] /\ "device" \notin DOMAIN m.fields
        BY <1>0, <1>1, <2>3 DEF Attached, Rightful
      <3> QED BY <1>1, <2>3, <3>1 DEF Patched
    <2> QED BY <2>1, <2>2, <2>3
  <1>5. Keeps(L, x, y)
    BY <1>3, <1>4 DEF Keeps
  <1>6. ASSUME NEW t \in Tables, NEW i \in Changed(x, y, t)
        PROVE  t = m.table /\ i = m.id /\ m.op = "update" /\ Touchable(L, x, t, i)
    <2>1. i \in DOMAIN x[t] /\ y[t][i] # x[t][i]
      BY <1>6 DEF Changed
    <2>2. t = m.table /\ i = m.id
      BY <1>1, <2>1
    <2> QED BY <1>0, <1>1, <2>1, <2>2 DEF Rightful
  <1>7. ASSUME NEW t \in {"mac", "ip"}, NEW i \in Changed(x, y, t) \cup (DOMAIN y[t] \ DOMAIN x[t])
        PROVE  MineAt(L, y, y[t][i].assigned)
    <2>0. t \in Tables
      BY TablesFacts
    <2>1. t = m.table /\ i = m.id
      BY <1>1, <1>6, <2>0
    <2>2. MineAt(L, x, y[t][i].assigned)
      <3>1. CASE m.op = "create"
        BY <1>1, <2>1, <3>1 DEF Rightful
      <3>2. CASE m.op = "update"
        <4>1. "assigned" \in DOMAIN x[t][i] /\ "assigned" \in DOMAIN m.fields
          BY <1>1, <2>1, <3>2 DEF Attached, Rightful
        <4>2. y[t][i].assigned = m.fields.assigned
          BY <1>1, <2>1, <3>2, <4>1 DEF Patched
        <4> QED BY <2>1, <3>2, <4>2 DEF Rightful
      <3> QED BY <1>0, <3>1, <3>2
    <2> QED BY <1>5, <2>2, KeepsHolders
  <1>8. m.table = "device" => m.id \in DOMAIN y.device /\ OwnFields(L, y.device[m.id].cf)
    BY <1>1, <1>2, TablesFacts
  <1>9. m.table = "vif" => MineAt(L, y, <<m.table, m.id>>)
    BY <1>1, <1>2, TablesFacts DEF MineAt
  <1>10. m.table = "dif" => MineAt(L, y, <<m.table, m.id>>)
    <2> SUFFICES ASSUME m.table = "dif"
                 PROVE  MineAt(L, y, <<"dif", m.id>>)
      OBVIOUS
    <2>1. CASE m.op = "update"
      BY <1>5, <2>1, KeepsHolders DEF Rightful, Touchable
    <2>2. CASE m.op = "create"
      <3>1. y.device = x.device /\ m.id \in DOMAIN y.dif /\ y.dif[m.id] = m.fields
        BY <1>1, <2>2, TablesFacts
      <3> QED BY <2>2, <3>1 DEF Rightful, MineAt
    <2> QED BY <1>0, <2>1, <2>2
  <1>11. \A t \in {"mac", "ip"} : \A i \in DOMAIN x[t] : i \in DOMAIN y[t]
    BY <1>1, TablesFacts
  <1> QED BY <1>5, <1>6, <1>7, <1>8, <1>9, <1>10, <1>11

-----------------------------------------------------------------------------
(* What the copies w a stage has read still say of NetBox x: its own       *)
(* records are there and still its own, an interface is on the same        *)
(* device, and what was free is free or has become its own.                *)
Copies(L, w, x) ==
    /\ Keeps(L, w, x)
    /\ \A t \in {"mac", "ip"} : \A i \in DOMAIN w[t] :
           w[t][i].assigned = Free =>
               /\ i \in DOMAIN x[t]
               /\ x[t][i].assigned = Free \/ MineAt(L, x, x[t][i].assigned)

(* An object an item of work resolved to.                                  *)
Found(L, x, do, id) ==
    /\ do = "device" => id \in DOMAIN x.device /\ OwnFields(L, x.device[id].cf)
    /\ do \in {"dif", "vif"} => MineAt(L, x, <<do, id>>)

Resolved(L, x, o) == \A z \in DOMAIN o : Found(L, x, z.do, o[z])

(* The request of an item of work.                                         *)
Right(L, m, x, do) ==
    /\ m.op = "skip" => Found(L, x, do, m.id)
    /\ m.op = "update" /\ m.id \in DOMAIN x[m.table] => Rightful(L, m, x)
    /\ m.op = "create" => Rightful(L, m, x)
    /\ Mutates(m) /\ do \in {"device", "dif", "vif"} => m.table = do

LEMMA RaiseRight ==
  ASSUME NEW L, NEW x, NEW do
  PROVE  Right(L, Raise, x, do)
  BY DEF Right, Raise, Mutates

LEMMA SkipRight ==
  ASSUME NEW L, NEW x, NEW do, NEW t, NEW id, Found(L, x, do, id)
  PROVE  Right(L, Skip(t, id), x, do)
  BY DEF Right, Skip, Mutates

LEMMA CreateRight ==
  ASSUME NEW L, NEW x, NEW do, NEW t \in Tables, NEW made,
         do \in {"device", "dif", "vif"} => t = do,
         t \in Identified => OwnFields(L, made.cf),
         t = "dif" => made.device \in DOMAIN x.device /\ OwnFields(L, x.device[made.device].cf),
         t \in {"mac", "ip"} => MineAt(L, x, made.assigned)
  PROVE  Right(L, Create(x, t, made), x, do)
  <1> DEFINE m == Create(x, t, made)
  <1>1. m.op = "create" /\ m.table = t /\ m.fields = made
    BY DEF Create
  <1> HIDE DEF m
  <1>2. Right(L, m, x, do)
    BY <1>1 DEF Right, Rightful, Mutates
  <1> QED BY <1>2 DEF m

LEMMA UpdateRight ==
  ASSUME NEW L, NEW x, NEW do, NEW t \in Tables, NEW id, NEW old, NEW desired,
         do \in {"device", "dif", "vif"} => t = do,
         Found(L, x, do, id),
         id \in DOMAIN x[t] => Touchable(L, x, t, id),
         t \in Identified /\ "cf" \in DOMAIN desired => OwnFields(L, desired.cf),
         t = "dif" => "device" \notin DOMAIN desired,
         t \in {"mac", "ip"} => DOMAIN desired = {"assigned"} /\ MineAt(L, x, desired.assigned)
  PROVE  Right(L, Update(t, id, old, desired), x, do)
  <1> DEFINE m == Update(t, id, old, desired)
             diff == Diff(old, desired)
  <1>1. DOMAIN diff \subseteq DOMAIN desired /\ \A f \in DOMAIN diff : diff[f] = desired[f]
    BY DEF Diff
  <1> HIDE DEF diff
  <1>2. /\ m.table = t /\ m.id = id
        /\ \/ m.op = "skip"
           \/ m.op = "update" /\ m.fields = diff /\ DOMAIN diff # {}
    BY DEF Update, Skip, diff
  <1> HIDE DEF m
  <1>3. ASSUME m.op = "skip" PROVE Right(L, m, x, do)
    <2>1. Found(L, x, do, m.id)
      BY <1>2
    <2>2. m.op # "update" /\ m.op # "create" /\ ~Mutates(m)
      BY <1>3 DEF Mutates
    <2> QED BY <2>1, <2>2 DEF Right
  <1>4. ASSUME m.op = "update", m.fields = diff, DOMAIN diff # {} PROVE Right(L, m, x, do)
    <2>1. t \in {"mac", "ip"} => "assigned" \in DOMAIN diff /\ diff.assigned = desired.assigned
      BY <1>1, <1>4
    <2>2. m.id \in DOMAIN x[m.table] => Rightful(L, m, x)
      BY <1>1, <1>2, <1>4, <2>1 DEF Rightful
    <2>3. m.op # "skip" /\ m.op # "create"
      BY <1>4
    <2>4. do \in {"device", "dif", "vif"} => m.table = do
      BY <1>2
    <2> QED BY <1>4, <2>2, <2>3, <2>4 DEF Right
  <1>5. Right(L, m, x, do)
    BY <1>2, <1>3, <1>4
  <1> QED BY <1>5 DEF m

(* The write loop of apply_hosts.                                          *)
LEMMA DeviceRight ==
  ASSUME NEW L \in BOOLEAN, NEW x, NEW w, WellFormed(w), Copies(L, w, x), NEW h,
         h.legacy_identity_owner \in BOOLEAN, h.legacy_identity_owner => L
  PROVE  Right(L, WriteDevice(x, w, h), x, "device")
  <1> DEFINE matches == resolve_device(w, h)
             d == CHOOSE y \in matches : TRUE
  <1>1. CASE matches = {}
    <2> DEFINE new == DeviceFields(w, h, NoFields)
               made == [name |-> h.name, site |-> new.site, form |-> new.form,
                        cluster |-> new.cluster, cf |-> new.cf, primary |-> NoObject]
    <2>1. OwnFields(L, new.cf)
      BY NoFieldsWellFormed, BuildersOwn DEF DeviceFields
    <2>2. made.cf = new.cf
      OBVIOUS
    <2>3. WriteDevice(x, w, h) = Create(x, "device", made)
      BY <1>1 DEF WriteDevice
    <2> HIDE DEF made, new
    <2> QED BY <2>1, <2>2, <2>3, CreateRight, TablesFacts
  <1>2. CASE matches # {}
    <2> DEFINE desired == DeviceFields(w, h, w.device[d].cf)
    <2>1. d \in matches
      BY <1>2
    <2>2. WriteDevice(x, w, h) = Update("device", d, w.device[d], desired)
      BY <1>2 DEF WriteDevice
    <2>3. d \in resolve_device(w, h)
      BY <2>1
    <2> HIDE DEF d, matches
    <2>4. d \in DOMAIN w.device /\ OwnFields(L, w.device[d].cf)
      BY <2>3, DeviceMatchOwn
    <2>5. d \in DOMAIN x.device /\ OwnFields(L, x.device[d].cf) /\ CustomFields(w.device[d].cf)
      BY <2>4, TablesFacts DEF Copies, Keeps, WellFormed
    <2>6. Found(L, x, "device", d) /\ Touchable(L, x, "device", d)
      BY <2>5, TablesFacts DEF Found, Touchable
    <2>7. OwnFields(L, desired.cf)
      BY <2>5, BuildersOwn DEF DeviceFields
    <2> HIDE DEF desired
    <2>8. Right(L, Update("device", d, w.device[d], desired), x, "device")
      BY <2>6, <2>7, UpdateRight, TablesFacts
    <2> QED BY <2>2, <2>8
  <1> QED BY <1>1, <1>2

LEMMA InterfaceRight ==
  ASSUME NEW L, NEW x, NEW w, Copies(L, w, x), NEW device, NEW nic, Found(L, x, "device", device)
  PROVE  Right(L, WriteInterface(x, w, device, nic), x, "dif")
  <1> DEFINE found == interface_named(w, device, nic.name)
             id == CHOOSE y \in found : TRUE
             fields == InterfaceFields(nic)
             made == [device |-> device, name |-> nic.name, type |-> fields.type,
                      enabled |-> fields.enabled, description |-> nic.comments]
             desired == IF nic.comments = "" THEN fields
                        ELSE [type |-> fields.type, enabled |-> fields.enabled,
                              description |-> nic.comments]
  <1>0. "device" \notin DOMAIN desired /\ made.device = device
    BY DEF InterfaceFields
  <1>1. CASE found = {}
    <2>1. WriteInterface(x, w, device, nic) = Create(x, "dif", made)
      BY <1>1 DEF WriteInterface
    <2> HIDE DEF made
    <2>2. device \in DOMAIN x.device /\ OwnFields(L, x.device[device].cf)
      BY DEF Found
    <2> QED BY <1>0, <2>1, <2>2, CreateRight, TablesFacts
  <1>2. CASE found # {}
    <2>1. WriteInterface(x, w, device, nic) = Update("dif", id, w.dif[id], desired)
      BY <1>2 DEF WriteInterface
    <2>2. id \in interface_named(w, device, nic.name)
      BY <1>2
    <2> HIDE DEF id, desired, found
    <2>3. id \in DOMAIN w.dif /\ w.dif[id].device = device
      BY <2>2, SMTT(30) DEF interface_named
    <2>4. MineAt(L, x, <<"dif", id>>)
      BY <2>3 DEF Copies, Keeps, MineAt, Found
    <2>5. Found(L, x, "dif", id) /\ Touchable(L, x, "dif", id)
      BY <2>4, TablesFacts DEF Found, Touchable
    <2>6. Right(L, Update("dif", id, w.dif[id], desired), x, "dif")
      BY <1>0, <2>5, UpdateRight, TablesFacts
    <2> QED BY <2>1, <2>6
  <1> QED BY <1>1, <1>2

LEMMA AddressRight ==
  ASSUME NEW L, NEW x, NEW interface, NEW address, MineAt(L, x, <<"dif", interface>>)
  PROVE  Right(L, WriteAddress(x, interface, address), x, "dip")
  <1> DEFINE records == AddressRecords(x, address)
             id == CHOOSE y \in records : TRUE
             a == <<"dif", interface>>
             desired == [assigned |-> a]
             made == [address |-> address, assigned |-> a]
  <1>1. \/ WriteAddress(x, interface, address) = Raise
        \/ WriteAddress(x, interface, address) = Create(x, "ip", made)
        \/ /\ Assignable(x.ip[id], a)
           /\ WriteAddress(x, interface, address) = Update("ip", id, x.ip[id], desired)
    BY DEF WriteAddress
  <1> HIDE DEF id, records
  <1>2. MineAt(L, x, a)
    OBVIOUS
  <1> HIDE DEF a
  <1>3. DOMAIN desired = {"assigned"} /\ desired.assigned = a /\ made.assigned = a
    OBVIOUS
  <1> HIDE DEF desired, made
  <1>4. Right(L, Create(x, "ip", made), x, "dip")
    BY <1>2, <1>3, CreateRight, TablesFacts
  <1>5. ASSUME Assignable(x.ip[id], a)
        PROVE  Right(L, Update("ip", id, x.ip[id], desired), x, "dip")
    <2>1. x.ip[id].assigned = Free \/ MineAt(L, x, x.ip[id].assigned)
      BY <1>2, <1>5 DEF Assignable
    <2>2. Touchable(L, x, "ip", id) /\ Found(L, x, "dip", id)
      BY <2>1, TablesFacts DEF Touchable, Found
    <2> QED BY <1>2, <1>3, <2>2, UpdateRight, TablesFacts
  <1> QED BY <1>1, <1>4, <1>5, RaiseRight

LEMMA PrimaryRight ==
  ASSUME NEW L, NEW x, NEW k, NEW h, NEW o, Found(L, x, "device", o[Item("device", k, 0, 0)])
  PROVE  Right(L, WritePrimary(x, k, h, o), x, "dprimary")
  <1> DEFINE device == o[Item("device", k, 0, 0)]
             desired == [primary |-> o[Item("dip", k, management_binding(h)[1].nic,
                                            management_binding(h)[1].addr)]]
  <1>1. WritePrimary(x, k, h, o) = Update("device", device, x.device[device], desired)
    BY DEF WritePrimary
  <1>2. "cf" \notin DOMAIN desired
    OBVIOUS
  <1>3. Found(L, x, "device", device)
    OBVIOUS
  <1> HIDE DEF desired, device
  <1>4. Found(L, x, "dprimary", device) /\ Touchable(L, x, "device", device)
    BY <1>3, TablesFacts DEF Found, Touchable
  <1> QED BY <1>1, <1>2, <1>4, UpdateRight, TablesFacts

LEMMA HostsRight ==
  ASSUME NEW L \in BOOLEAN, NEW x, NEW w, WellFormed(w), Copies(L, w, x), NEW i, NEW o, Resolved(L, x, o),
         NEW item \in Items(HostDoes, DOMAIN i.hosts), Needs(item) \subseteq DOMAIN o,
         i.hosts[item.of].legacy_identity_owner \in BOOLEAN,
         i.hosts[item.of].legacy_identity_owner => L
  PROVE  Right(L, apply_hosts_step(item, x, w, i, o), x, item.do)
  <1> DEFINE h == i.hosts[item.of]
             device == Item("device", item.of, 0, 0)
             dif == Item("dif", item.of, item.nic, 0)
  <1>0. item.do \in HostDoes /\ device.do = "device" /\ dif.do = "dif"
    BY DEF Items, Item
  <1>1. CASE item.do = "device"
    <2>1. apply_hosts_step(item, x, w, i, o) = WriteDevice(x, w, h)
      BY <1>1 DEF apply_hosts_step
    <2> QED BY <1>1, <2>1, DeviceRight
  <1>2. CASE item.do = "dif"
    <2>1. apply_hosts_step(item, x, w, i, o) = WriteInterface(x, w, o[device], h.ifs[item.nic])
      BY <1>2 DEF apply_hosts_step
    <2>2. device \in DOMAIN o
      BY <1>2 DEF Needs
    <2> HIDE DEF device, h
    <2>3. Found(L, x, "device", o[device])
      BY <1>0, <2>2 DEF Resolved
    <2> QED BY <1>2, <2>1, <2>3, InterfaceRight
  <1>3. CASE item.do = "dip"
    <2>1. apply_hosts_step(item, x, w, i, o) =
              WriteAddress(x, o[dif], h.ifs[item.nic].addrs[item.addr])
      BY <1>3 DEF apply_hosts_step
    <2>2. dif \in DOMAIN o
      BY <1>3 DEF Needs
    <2> HIDE DEF dif, h
    <2>3. Found(L, x, "dif", o[dif])
      BY <1>0, <2>2 DEF Resolved
    <2>4. MineAt(L, x, <<"dif", o[dif]>>)
      BY <2>3 DEF Found
    <2> QED BY <1>3, <2>1, <2>4, AddressRight
  <1>4. CASE item.do = "dprimary"
    <2>1. apply_hosts_step(item, x, w, i, o) = WritePrimary(x, item.of, h, o)
      BY <1>4 DEF apply_hosts_step
    <2>2. device \in DOMAIN o
      BY <1>4 DEF Needs
    <2>3. Found(L, x, "device", o[device])
      BY <1>0, <2>2 DEF Resolved
    <2> QED BY <1>4, <2>1, <2>3, PrimaryRight
  <1> QED BY <1>0, <1>1, <1>2, <1>3, <1>4 DEF HostDoes

(* An update of an own guest, and the creation of one.                     *)
LEMMA GuestRight ==
  ASSUME NEW L, NEW x, NEW w, Copies(L, w, x), NEW do, do \notin {"device", "dif", "vif"},
         NEW v, v \in DOMAIN w.vm, OwnFields(L, w.vm[v].cf), NEW old, NEW desired,
         "cf" \in DOMAIN desired => OwnFields(L, desired.cf)
  PROVE  Right(L, Update("vm", v, old, desired), x, do)
  <1>1. v \in DOMAIN x.vm /\ OwnFields(L, x.vm[v].cf)
    BY TablesFacts DEF Copies, Keeps
  <1>2. Found(L, x, do, v) /\ Touchable(L, x, "vm", v)
    BY <1>1, TablesFacts DEF Found, Touchable
  <1> QED BY <1>2, UpdateRight, TablesFacts

LEMMA NewGuestRight ==
  ASSUME NEW L, NEW x, NEW do, do \notin {"device", "dif", "vif"}, NEW fields, OwnFields(L, fields.cf)
  PROVE  Right(L, Create(x, "vm", NewVm(fields)), x, do)
  <1> DEFINE made == NewVm(fields)
  <1>1. made.cf = fields.cf
    BY DEF NewVm
  <1> HIDE DEF made
  <1>2. Right(L, Create(x, "vm", made), x, do)
    BY <1>1, CreateRight, TablesFacts
  <1> QED BY <1>2 DEF made

(* The write loop of apply_virtual_machines.                               *)
LEMMA VmsRight ==
  ASSUME NEW L \in BOOLEAN, NEW x, NEW w, WellFormed(w), Copies(L, w, x), NEW i,
         NEW item \in Items({"vm"}, DOMAIN i.vms),
         i.vms[item.of].legacy_identity_owner \in BOOLEAN,
         i.vms[item.of].legacy_identity_owner => L
  PROVE  Right(L, apply_virtual_machines_step(item, x, w, i), x, item.do)
  <1> DEFINE g == i.vms[item.of]
             matches == vm_identity_matches(w, g)
             v == CHOOSE y \in matches : TRUE
  <1>0. item.do \notin {"device", "dif", "vif"}
    BY DEF Items
  <1>1. CASE matches = {}
    <2> DEFINE fields == build_vm_create_fields(w, g, NoFields)
    <2>1. apply_virtual_machines_step(item, x, w, i) = Create(x, "vm", NewVm(fields))
      BY <1>1 DEF apply_virtual_machines_step
    <2>2. OwnFields(L, fields.cf)
      BY NoFieldsWellFormed, BuildersOwn DEF build_vm_create_fields
    <2> HIDE DEF fields
    <2> QED BY <1>0, <2>1, <2>2, NewGuestRight
  <1>2. CASE matches # {}
    <2> DEFINE desired == build_vm_create_fields(w, g, w.vm[v].cf)
    <2>1. apply_virtual_machines_step(item, x, w, i) = Update("vm", v, w.vm[v], desired)
      BY <1>2 DEF apply_virtual_machines_step
    <2>2. v \in vm_identity_matches(w, g)
      BY <1>2
    <2> HIDE DEF v, matches
    <2>3. v \in DOMAIN w.vm /\ OwnFields(L, w.vm[v].cf)
      BY <2>2, VmMatchOwn DEF vm_identity_matches
    <2>4. OwnFields(L, desired.cf)
      BY <2>3, BuildersOwn, TablesFacts DEF build_vm_create_fields, WellFormed
    <2> HIDE DEF desired
    <2> QED BY <1>0, <2>1, <2>3, <2>4, GuestRight
  <1> QED BY <1>1, <1>2

(* The write loop of apply_lxc_containers.                                 *)
LEMMA LxcsRight ==
  ASSUME NEW L \in BOOLEAN, NEW x, NEW w, WellFormed(w), Copies(L, w, x), NEW i,
         NEW item \in Items({"lxc"}, DOMAIN i.lxcs),
         i.lxcs[item.of].legacy_identity_owner \in BOOLEAN,
         i.lxcs[item.of].legacy_identity_owner => L
  PROVE  Right(L, apply_lxc_containers_step(item, x, w, i), x, item.do)
  <1> DEFINE g == i.lxcs[item.of]
             matches == find_lxc_sync_identity_matches(w, g)
             v == CHOOSE y \in matches : TRUE
  <1>0. item.do \notin {"device", "dif", "vif"}
    BY DEF Items
  <1>1. CASE matches = {}
    <2> DEFINE fields == lxc_desired_fields(w, g, NoFields)
    <2>1. apply_lxc_containers_step(item, x, w, i) = Create(x, "vm", NewVm(fields))
      BY <1>1 DEF apply_lxc_containers_step
    <2>2. OwnFields(L, fields.cf)
      BY NoFieldsWellFormed, BuildersOwn DEF lxc_desired_fields
    <2> HIDE DEF fields
    <2> QED BY <1>0, <2>1, <2>2, NewGuestRight
  <1>2. CASE matches # {}
    <2> DEFINE desired == lxc_desired_fields(w, g, w.vm[v].cf)
    <2>1. apply_lxc_containers_step(item, x, w, i) = Update("vm", v, w.vm[v], desired)
      BY <1>2 DEF apply_lxc_containers_step, UpdateLxc
    <2>2. v \in find_lxc_sync_identity_matches(w, g)
      BY <1>2
    <2> HIDE DEF v, matches
    <2>3. v \in DOMAIN w.vm /\ OwnFields(L, w.vm[v].cf)
      BY <2>2, LxcMatchOwn
    <2>4. OwnFields(L, desired.cf)
      BY <2>3, BuildersOwn, TablesFacts DEF lxc_desired_fields, WellFormed
    <2> HIDE DEF desired
    <2> QED BY <1>0, <2>1, <2>3, <2>4, GuestRight
  <1> QED BY <1>1, <1>2

-----------------------------------------------------------------------------
(* The requests the two network stages share.                              *)
LEMMA NicRight ==
  ASSUME NEW L, NEW x, NEW w, Copies(L, w, x), NEW name, NEW v, NEW e, NEW cf, OwnFields(L, cf),
         e # NoObject => e \in DOMAIN w.vif /\ OwnFields(L, w.vif[e].cf)
  PROVE  /\ Right(L, Create(x, "vif", NewNic(v, NicFields(name, cf))), x, "vif")
         /\ e # NoObject => Right(L, Update("vif", e, w.vif[e], NicFields(name, cf)), x, "vif")
  <1> DEFINE fields == NicFields(name, cf)
             made == NewNic(v, fields)
  <1>1. fields.cf = cf /\ made.cf = cf
    BY DEF NewNic, NicFields
  <1> HIDE DEF fields, made
  <1>2. Right(L, Create(x, "vif", made), x, "vif")
    BY <1>1, CreateRight, TablesFacts
  <1>3. ASSUME e # NoObject
        PROVE  Right(L, Update("vif", e, w.vif[e], fields), x, "vif")
    <2>1. e \in DOMAIN x.vif /\ OwnFields(L, x.vif[e].cf)
      BY <1>3, TablesFacts DEF Copies, Keeps
    <2>2. Found(L, x, "vif", e) /\ Touchable(L, x, "vif", e)
      BY <2>1, TablesFacts DEF Found, Touchable, MineAt
    <2> QED BY <1>1, <2>2, UpdateRight, TablesFacts
  <1> QED BY <1>2, <1>3 DEF fields, made

LEMMA AssignRight ==
  ASSUME NEW L, NEW x, NEW w, Copies(L, w, x), NEW t \in {"mac", "ip"}, NEW records, NEW do,
         do \notin {"device", "dif", "vif"},
         records \subseteq DOMAIN w[t], NEW new, NEW interface, MineAt(L, x, <<"vif", interface>>),
         new.assigned = <<"vif", interface>>
  PROVE  Right(L, AssignRecord(x, w, t, records, new, interface), x, do)
  <1> DEFINE id == Only(records)
             a == <<"vif", interface>>
             desired == [assigned |-> a]
  <1>0. t \in Tables /\ t \notin Identified /\ t # "dif"
    BY TablesFacts DEF Tables, Identified
  <1>1. \/ AssignRecord(x, w, t, records, new, interface) = Create(x, t, new)
        \/ /\ AssignRecord(x, w, t, records, new, interface) = Update(t, id, w[t][id], desired)
           /\ records # {} /\ w[t][id].assigned = Free
        \/ AssignRecord(x, w, t, records, new, interface) = Skip(t, id)
    BY DEF AssignRecord
  <1>2. records # {} => id \in DOMAIN w[t]
    BY DEF Only
  <1>3. MineAt(L, x, a) /\ new.assigned = a /\ DOMAIN desired = {"assigned"} /\ desired.assigned = a
    OBVIOUS
  <1> HIDE DEF id, desired, a
  <1>4. Right(L, Create(x, t, new), x, do)
    BY <1>0, <1>3, CreateRight
  <1>5. \A z : Found(L, x, do, z)
    BY DEF Found
  <1>6. Right(L, Skip(t, id), x, do)
    BY <1>5, SkipRight
  <1>7. ASSUME records # {}, w[t][id].assigned = Free
        PROVE  Right(L, Update(t, id, w[t][id], desired), x, do)
    <2>1. Touchable(L, x, t, id)
      BY <1>0, <1>2, <1>7 DEF Copies, Touchable
    <2> QED BY <1>0, <1>3, <1>5, <2>1, UpdateRight
  <1> QED BY <1>1, <1>4, <1>6, <1>7

LEMMA PrimaryMacRight ==
  ASSUME NEW L, NEW x, NEW interface, MineAt(L, x, <<"vif", interface>>), NEW old, NEW mac
  PROVE  /\ Right(L, Update("vif", interface, old, [pmac |-> mac]), x, "pmac")
         /\ Right(L, Skip("vif", interface), x, "pmac")
  <1> DEFINE desired == [pmac |-> mac]
  <1>1. "cf" \notin DOMAIN desired
    OBVIOUS
  <1> HIDE DEF desired
  <1>2. Found(L, x, "pmac", interface) /\ Touchable(L, x, "vif", interface)
    BY TablesFacts DEF Found, Touchable, MineAt
  <1>3. Right(L, Update("vif", interface, old, desired), x, "pmac")
    BY <1>1, <1>2, UpdateRight, TablesFacts
  <1> QED BY <1>2, <1>3, SkipRight DEF desired

(* A primary address is written on an own guest, or on none.               *)
LEMMA GuestPrimaryRight ==
  ASSUME NEW L, NEW x, Attached(x), NEW w, Copies(L, w, x), NEW do, do \notin {"device", "dif", "vif"},
         NEW v, v # NoObject => v \in DOMAIN w.vm /\ OwnFields(L, w.vm[v].cf), NEW old, NEW ip
  PROVE  /\ Right(L, Update("vm", v, old, [primary |-> ip]), x, do)
         /\ Right(L, Skip("vm", v), x, do)
  <1> DEFINE desired == [primary |-> ip]
  <1>1. "cf" \notin DOMAIN desired
    OBVIOUS
  <1> HIDE DEF desired
  <1>2. Found(L, x, do, v)
    BY DEF Found
  <1>3. v \in DOMAIN x.vm => Touchable(L, x, "vm", v)
    <2>1. v \in DOMAIN x.vm => v # NoObject
      BY TablesFacts DEF Attached
    <2> QED BY <2>1, TablesFacts DEF Touchable, Copies, Keeps
  <1>4. Right(L, Update("vm", v, old, desired), x, do)
    BY <1>1, <1>2, <1>3, UpdateRight, TablesFacts
  <1> QED BY <1>2, <1>4, SkipRight DEF desired

(* The write loop of apply_vm_networks.                                    *)
LEMMA VmNetworksRight ==
  ASSUME NEW L \in BOOLEAN, NEW x, Attached(x), NEW w, WellFormed(w), Copies(L, w, x), NEW i, NEW o,
         Resolved(L, x, o),
         NEW item \in Items(NetworkDoes, DOMAIN i.vms), Needs(item) \subseteq DOMAIN o,
         i.vms[item.of].legacy_identity_owner \in BOOLEAN,
         i.vms[item.of].legacy_identity_owner => L
  PROVE  Right(L, apply_vm_networks_step(item, x, w, i, o), x, item.do)
  <1> DEFINE g == i.vms[item.of]
             n == g.nics[item.nic]
             vif == Item("vif", item.of, item.nic, 0)
             interface == o[vif]
             v == Only(find_vm(w, g))
  <1>0. item.do \in NetworkDoes /\ vif.do = "vif"
    BY DEF Items, Item
  <1>1. item.do \in {"mac", "pmac", "vip"} => MineAt(L, x, <<"vif", interface>>)
    <2> SUFFICES ASSUME item.do \in {"mac", "pmac", "vip"}
                 PROVE  MineAt(L, x, <<"vif", interface>>)
      OBVIOUS
    <2>1. vif \in DOMAIN o
      BY DEF Needs
    <2> HIDE DEF vif
    <2> QED BY <1>0, <2>1 DEF Resolved, Found
  <1>2. CASE item.do = "vif"
    <2> DEFINE e == Only(interface_match(w, v, g, n))
               cf == IF e = NoObject THEN build_nic_custom_fields(g, n, NoFields)
                     ELSE build_nic_custom_fields(g, n, w.vif[e].cf)
    <2>1. apply_vm_networks_step(item, x, w, i, o) =
              IF e = NoObject THEN Create(x, "vif", NewNic(v, NicFields(n.name, cf)))
              ELSE Update("vif", e, w.vif[e], NicFields(n.name, cf))
      BY <1>2 DEF apply_vm_networks_step, WriteVmNic
    <2>2. e # NoObject => e \in interface_match(w, v, g, n)
      BY OnlyOfSet
    <2> HIDE DEF e, v, n
    <2>3. e # NoObject => e \in DOMAIN w.vif /\ OwnFields(L, w.vif[e].cf)
      BY <2>2, NicMatchOwn
    <2>4. OwnFields(L, cf)
      BY <2>3, NoFieldsWellFormed, BuildersOwn, TablesFacts DEF WellFormed
    <2> HIDE DEF cf
    <2> QED BY <1>2, <2>1, <2>3, <2>4, NicRight
  <1>3. CASE item.do = "mac"
    <2>1. apply_vm_networks_step(item, x, w, i, o) =
              AssignRecord(x, w, "mac", MacRecords(w, n.mac),
                           [value |-> n.mac, assigned |-> <<"vif", interface>>], interface)
      BY <1>3 DEF apply_vm_networks_step, WriteVmMac
    <2>2. MacRecords(w, n.mac) \subseteq DOMAIN w["mac"]
      BY DEF MacRecords
    <2> HIDE DEF interface, n
    <2> QED BY <1>1, <1>3, <2>1, <2>2, AssignRight
  <1>4. CASE item.do = "pmac"
    <2> DEFINE mac == o[Item("mac", item.of, item.nic, 0)]
    <2>1. \/ apply_vm_networks_step(item, x, w, i, o) = Skip("vif", interface)
          \/ apply_vm_networks_step(item, x, w, i, o) =
                 Update("vif", interface, [pmac |-> NoObject], [pmac |-> mac])
      BY <1>4 DEF apply_vm_networks_step, WriteVmPrimaryMac
    <2> HIDE DEF interface, mac
    <2> QED BY <1>1, <1>4, <2>1, PrimaryMacRight
  <1>5. CASE item.do = "vip"
    <2> DEFINE a == usable_addresses(n)[item.addr]
    <2>1. apply_vm_networks_step(item, x, w, i, o) =
              AssignRecord(x, w, "ip", AddressRecords(w, a),
                           [address |-> a, assigned |-> <<"vif", interface>>], interface)
      BY <1>5 DEF apply_vm_networks_step, WriteVmAddress
    <2>2. AddressRecords(w, a) \subseteq DOMAIN w["ip"]
      BY DEF AddressRecords
    <2> HIDE DEF interface, n, a
    <2> QED BY <1>1, <1>5, <2>1, <2>2, AssignRight
  <1>6. CASE item.do = "primary"
    <2> DEFINE ip == o[CandidateItem(item.of, g)]
    <2>1. \/ apply_vm_networks_step(item, x, w, i, o) = Skip("vm", v)
          \/ apply_vm_networks_step(item, x, w, i, o) = Update("vm", v, w.vm[v], [primary |-> ip])
      BY <1>6 DEF apply_vm_networks_step, WriteVmPrimary
    <2>2. v # NoObject => v \in find_vm(w, g)
      BY OnlyOfSet
    <2> HIDE DEF v, ip
    <2>3. v # NoObject => v \in DOMAIN w.vm /\ OwnFields(L, w.vm[v].cf)
      BY <2>2, VmMatchOwn DEF find_vm, TargetVms
    <2> QED BY <1>6, <2>1, <2>3, GuestPrimaryRight
  <1> QED BY <1>0, <1>2, <1>3, <1>4, <1>5, <1>6 DEF NetworkDoes

(* The write loop of apply_lxc_networks.                                   *)
LEMMA LxcNetworksRight ==
  ASSUME NEW L \in BOOLEAN, NEW x, Attached(x), NEW w, WellFormed(w), Copies(L, w, x), NEW i, NEW o,
         Resolved(L, x, o),
         NEW item \in Items(NetworkDoes, DOMAIN i.lxcs), Needs(item) \subseteq DOMAIN o,
         i.lxcs[item.of].legacy_identity_owner \in BOOLEAN,
         i.lxcs[item.of].legacy_identity_owner => L
  PROVE  Right(L, apply_lxc_networks_step(item, x, w, i, o), x, item.do)
  <1> DEFINE g == i.lxcs[item.of]
             n == g.nics[item.nic]
             vif == Item("vif", item.of, item.nic, 0)
             interface == o[vif]
             v == Only(find_lxc_vm(w, g))
  <1>0. item.do \in NetworkDoes /\ vif.do = "vif"
    BY DEF Items, Item
  <1>1. item.do \in {"mac", "pmac", "vip"} => MineAt(L, x, <<"vif", interface>>)
    <2> SUFFICES ASSUME item.do \in {"mac", "pmac", "vip"}
                 PROVE  MineAt(L, x, <<"vif", interface>>)
      OBVIOUS
    <2>1. vif \in DOMAIN o
      BY DEF Needs
    <2> HIDE DEF vif
    <2> QED BY <1>0, <2>1 DEF Resolved, Found
  <1>2. CASE item.do = "vif"
    <2> DEFINE e == Only(find_lxc_interface(w, v, g, n))
               cf == IF e = NoObject THEN build_lxc_nic_custom_fields(g, n, NoFields)
                     ELSE build_lxc_nic_custom_fields(g, n, w.vif[e].cf)
    <2>1. apply_lxc_networks_step(item, x, w, i, o) =
              IF e = NoObject THEN Create(x, "vif", NewNic(v, NicFields(n.name, cf)))
              ELSE Update("vif", e, w.vif[e], NicFields(n.name, cf))
      BY <1>2 DEF apply_lxc_networks_step, WriteLxcNic, LxcNicFields
    <2>2. e # NoObject => e \in find_lxc_interface(w, v, g, n)
      BY OnlyOfSet
    <2> HIDE DEF e, v, n
    <2>3. e # NoObject => e \in DOMAIN w.vif /\ OwnFields(L, w.vif[e].cf)
      BY <2>2, LxcNicMatchOwn
    <2>4. OwnFields(L, cf)
      BY <2>3, NoFieldsWellFormed, BuildersOwn, TablesFacts DEF WellFormed
    <2> HIDE DEF cf
    <2> QED BY <1>2, <2>1, <2>3, <2>4, NicRight
  <1>3. CASE item.do = "mac"
    <2>1. apply_lxc_networks_step(item, x, w, i, o) =
              AssignRecord(x, w, "mac", MacRecords(w, n.mac),
                           [value |-> n.mac, assigned |-> <<"vif", interface>>], interface)
      BY <1>3 DEF apply_lxc_networks_step, WriteLxcMac
    <2>2. MacRecords(w, n.mac) \subseteq DOMAIN w["mac"]
      BY DEF MacRecords
    <2> HIDE DEF interface, n
    <2> QED BY <1>1, <1>3, <2>1, <2>2, AssignRight
  <1>4. CASE item.do = "pmac"
    <2> DEFINE mac == o[Item("mac", item.of, item.nic, 0)]
    <2>1. \/ apply_lxc_networks_step(item, x, w, i, o) = Skip("vif", interface)
          \/ apply_lxc_networks_step(item, x, w, i, o) =
                 Update("vif", interface, [pmac |-> NoObject], [pmac |-> mac])
      BY <1>4 DEF apply_lxc_networks_step, WriteLxcPrimaryMac
    <2> HIDE DEF interface, mac
    <2> QED BY <1>1, <1>4, <2>1, PrimaryMacRight
  <1>5. CASE item.do = "vip"
    <2> DEFINE a == usable_addresses(n)[item.addr]
    <2>1. apply_lxc_networks_step(item, x, w, i, o) =
              AssignRecord(x, w, "ip", AddressRecords(w, a),
                           [address |-> a, assigned |-> <<"vif", interface>>], interface)
      BY <1>5 DEF apply_lxc_networks_step, WriteLxcAddress
    <2>2. AddressRecords(w, a) \subseteq DOMAIN w["ip"]
      BY DEF AddressRecords
    <2> HIDE DEF interface, n, a
    <2> QED BY <1>1, <1>5, <2>1, <2>2, AssignRight
  <1>6. CASE item.do = "primary"
    <2> DEFINE ip == o[CandidateItem(item.of, g)]
    <2>1. apply_lxc_networks_step(item, x, w, i, o) = Update("vm", v, w.vm[v], [primary |-> ip])
      BY <1>6 DEF apply_lxc_networks_step, WriteLxcPrimary
    <2>2. v # NoObject => v \in find_lxc_vm(w, g)
      BY OnlyOfSet
    <2> HIDE DEF v, ip
    <2>3. v # NoObject => v \in DOMAIN w.vm /\ OwnFields(L, w.vm[v].cf)
      BY <2>2, LxcMatchOwn DEF find_lxc_vm
    <2> QED BY <1>6, <2>1, <2>3, GuestPrimaryRight
  <1> QED BY <1>0, <1>2, <1>3, <1>4, <1>5, <1>6 DEF NetworkDoes

-----------------------------------------------------------------------------
(* The rest of a stage's work: each item relies on those done and on       *)
(* earlier ones only.                                                      *)
Listed(k, i, s, done) ==
    /\ s \in Seq(Items(Does(k), DOMAIN Discovered(k, i)))
    /\ \A p \in DOMAIN s : Needs(s[p]) \subseteq done \cup {s[q] : q \in 1 .. (p - 1)}

LEMMA WorkListed ==
  ASSUME NEW k \in 1 .. 5, NEW i, Inventory(i)
  PROVE  Listed(k, i, Work(k, i), {})
  BY WorkOrderly DEF Orderly, Listed

LEMMA ListedHead ==
  ASSUME NEW k, NEW i, NEW s, NEW done, Listed(k, i, s, done), s # <<>>
  PROVE  /\ Head(s) \in Items(Does(k), DOMAIN Discovered(k, i))
         /\ Needs(Head(s)) \subseteq done
         /\ Listed(k, i, Tail(s), done \cup {Head(s)})
  <1> DEFINE I == Items(Does(k), DOMAIN Discovered(k, i))
             t == Tail(s)
  <1>1. s \in Seq(I) /\ \A p \in DOMAIN s : Needs(s[p]) \subseteq done \cup {s[q] : q \in 1 .. (p - 1)}
    BY DEF Listed
  <1> HIDE DEF I
  <1>2. /\ Len(s) \in Nat \ {0} /\ DOMAIN s = 1 .. Len(s) /\ Head(s) = s[1] /\ Head(s) \in I
        /\ t \in Seq(I) /\ Len(t) = Len(s) - 1 /\ DOMAIN t = 1 .. Len(t)
        /\ \A p \in 1 .. Len(t) : t[p] = s[p + 1]
    BY <1>1
  <1> HIDE DEF t
  <1>3. Needs(Head(s)) \subseteq done
    <2>1. 1 \in DOMAIN s /\ 1 .. (1 - 1) = {}
      BY <1>2
    <2>2. {s[q] : q \in 1 .. (1 - 1)} = {}
      BY <2>1
    <2> QED BY <1>1, <1>2, <2>1, <2>2
  <1>4. ASSUME NEW p \in DOMAIN t
        PROVE  Needs(t[p]) \subseteq done \cup {Head(s)} \cup {t[q] : q \in 1 .. (p - 1)}
    <2>1. p + 1 \in DOMAIN s /\ t[p] = s[p + 1] /\ p \in Nat
      BY <1>2
    <2>2. Needs(t[p]) \subseteq done \cup {s[q] : q \in 1 .. p}
      BY <1>1, <2>1
    <2>3. ASSUME NEW q \in 1 .. p
          PROVE  s[q] \in {Head(s)} \cup {t[r] : r \in 1 .. (p - 1)}
      <3>1. CASE q = 1
        BY <1>2, <3>1
      <3>2. CASE q # 1
        <4>1. q - 1 \in 1 .. (p - 1) /\ q - 1 \in 1 .. Len(t) /\ (q - 1) + 1 = q
          BY <1>2, <2>1, <3>2
        <4>2. s[q] = t[q - 1]
          BY <1>2, <4>1
        <4> QED BY <4>1, <4>2
      <3> QED BY <3>1, <3>2
    <2> QED BY <2>2, <2>3
  <1>5. Listed(k, i, t, done \cup {Head(s)})
    BY <1>2, <1>4 DEF Listed, I
  <1> QED BY <1>2, <1>3, <1>5 DEF I, t

LEMMA LegacyFlag ==
  ASSUME NEW k \in 1 .. 5, Inventory(hosts), NEW j \in DOMAIN Discovered(k, hosts)
  PROVE  /\ LegacyOwner \in BOOLEAN
         /\ Discovered(k, hosts)[j].legacy_identity_owner \in BOOLEAN
         /\ Discovered(k, hosts)[j].legacy_identity_owner => LegacyOwner
  <1> DEFINE s == Discovered(k, hosts)
             S == ToSet(hosts.hosts) \cup ToSet(hosts.vms) \cup ToSet(hosts.lxcs)
  <1>1. IsList(s) /\ ToSet(s) \subseteq S
    BY DEF Inventory, Discovered
  <1>2. s[j] \in S
    BY <1>1, ListFacts
  <1>3. \A x \in S : x.legacy_identity_owner \in BOOLEAN
    BY DEF Inventory
  <1> HIDE DEF s
  <1>4. LegacyOwner <=> \E x \in S : x.legacy_identity_owner
    BY DEF LegacyOwner
  <1>5. LegacyOwner \in BOOLEAN
    BY DEF LegacyOwner
  <1> HIDE DEF S
  <1>6. s[j].legacy_identity_owner => LegacyOwner
    BY <1>2, <1>4
  <1> QED BY <1>2, <1>3, <1>5, <1>6 DEF s

(* The next request of a run on NetBox is rightful.                        *)
LEMMA RequestRight ==
  ASSUME pass = "apply", stage \in 1 .. 5, Inventory(hosts), WellFormed(snap), Attached(nb),
         Copies(LegacyOwner, snap, nb), Resolved(LegacyOwner, nb, objs),
         Listed(stage, hosts, todo, DOMAIN objs), todo # <<>>
  PROVE  Right(LegacyOwner, Request, nb, Head(todo).do)
  <1> DEFINE item == Head(todo)
             L == LegacyOwner
  <1>1. item \in Items(Does(stage), DOMAIN Discovered(stage, hosts)) /\ Needs(item) \subseteq DOMAIN objs
    BY ListedHead
  <1>2. item.of \in DOMAIN Discovered(stage, hosts)
    BY <1>1 DEF Items
  <1>3. /\ L \in BOOLEAN
        /\ Discovered(stage, hosts)[item.of].legacy_identity_owner \in BOOLEAN
        /\ Discovered(stage, hosts)[item.of].legacy_identity_owner => L
    BY <1>2, LegacyFlag
  <1>4. View = nb
    BY DEF View
  <1> HIDE DEF L
  <1>5. Copies(L, snap, nb) /\ Resolved(L, nb, objs)
    BY DEF L
  <1>6. Right(L, Request, nb, item.do)
    <2>1. CASE stage = 1
      <3>1. Request = apply_hosts_step(item, nb, snap, hosts, objs)
        BY <1>4, <2>1, StageNames DEF Request
      <3>2. Discovered(stage, hosts) = hosts.hosts /\ Does(stage) = HostDoes
        BY <2>1 DEF Discovered, Does
      <3> HIDE DEF item
      <3> QED BY <1>1, <1>3, <1>5, <3>1, <3>2, HostsRight
    <2>2. CASE stage = 2
      <3>1. Request = apply_virtual_machines_step(item, nb, snap, hosts)
        BY <1>4, <2>2, StageNames DEF Request
      <3>2. Discovered(stage, hosts) = hosts.vms /\ Does(stage) = {"vm"}
        BY <2>2 DEF Discovered, Does
      <3> HIDE DEF item
      <3> QED BY <1>1, <1>3, <1>5, <3>1, <3>2, VmsRight
    <2>3. CASE stage = 3
      <3>1. Request = apply_vm_networks_step(item, nb, snap, hosts, objs)
        BY <1>4, <2>3, StageNames DEF Request
      <3>2. Discovered(stage, hosts) = hosts.vms /\ Does(stage) = NetworkDoes
        BY <2>3 DEF Discovered, Does
      <3> HIDE DEF item
      <3> QED BY <1>1, <1>3, <1>5, <3>1, <3>2, VmNetworksRight
    <2>4. CASE stage = 4
      <3>1. Request = apply_lxc_containers_step(item, nb, snap, hosts)
        BY <1>4, <2>4, StageNames DEF Request
      <3>2. Discovered(stage, hosts) = hosts.lxcs /\ Does(stage) = {"lxc"}
        BY <2>4 DEF Discovered, Does
      <3> HIDE DEF item
      <3> QED BY <1>1, <1>3, <1>5, <3>1, <3>2, LxcsRight
    <2>5. CASE stage = 5
      <3>1. Request = apply_lxc_networks_step(item, nb, snap, hosts, objs)
        BY <1>4, <2>5, StageNames DEF Request
      <3>2. Discovered(stage, hosts) = hosts.lxcs /\ Does(stage) = NetworkDoes
        BY <2>5 DEF Discovered, Does
      <3> HIDE DEF item
      <3> QED BY <1>1, <1>3, <1>5, <3>1, <3>2, LxcNetworksRight
    <2>6. stage \in {1, 2, 3, 4, 5}
      OBVIOUS
    <2> QED BY <2>1, <2>2, <2>3, <2>4, <2>5, <2>6
  <1> QED BY <1>6 DEF L

(* Copies and resolved objects outlast a rightful request.                 *)
LEMMA KeepsTransitive ==
  ASSUME NEW L, NEW w, NEW x, NEW y, Keeps(L, w, x), Keeps(L, x, y)
  PROVE  Keeps(L, w, y)
  BY DEF Keeps

LEMMA KeepsItself ==
  ASSUME NEW L, NEW x
  PROVE  Keeps(L, x, x) /\ Copies(L, x, x)
  BY DEF Keeps, Copies

LEMMA CopiesKept ==
  ASSUME NEW L, NEW w, NEW x, NEW y, Copies(L, w, x), Keeps(L, x, y),
         \A t \in {"mac", "ip"} : \A i \in DOMAIN x[t] : i \in DOMAIN y[t],
         \A t \in {"mac", "ip"} : \A i \in Changed(x, y, t) : MineAt(L, y, y[t][i].assigned)
  PROVE  Copies(L, w, y)
  <1>1. Keeps(L, w, y)
    BY KeepsTransitive DEF Copies
  <1>2. ASSUME NEW t \in {"mac", "ip"}, NEW i \in DOMAIN w[t], w[t][i].assigned = Free
        PROVE  /\ i \in DOMAIN y[t]
               /\ y[t][i].assigned = Free \/ MineAt(L, y, y[t][i].assigned)
    <2>1. i \in DOMAIN x[t] /\ (x[t][i].assigned = Free \/ MineAt(L, x, x[t][i].assigned))
      BY <1>2 DEF Copies
    <2>2. CASE i \in Changed(x, y, t)
      BY <2>1, <2>2
    <2>3. CASE i \notin Changed(x, y, t)
      <3>1. y[t][i] = x[t][i]
        BY <2>1, <2>3 DEF Changed
      <3> QED BY <2>1, <3>1, KeepsHolders
    <2> QED BY <2>2, <2>3
  <1> QED BY <1>1, <1>2 DEF Copies

LEMMA FoundKept ==
  ASSUME NEW L, NEW x, NEW y, Keeps(L, x, y), NEW do, NEW id, Found(L, x, do, id)
  PROVE  Found(L, y, do, id)
  <1>1. do = "device" => id \in DOMAIN y.device /\ OwnFields(L, y.device[id].cf)
    BY TablesFacts DEF Found, Keeps
  <1>2. do \in {"dif", "vif"} => MineAt(L, y, <<do, id>>)
    BY KeepsHolders DEF Found
  <1> QED BY <1>1, <1>2 DEF Found

LEMMA ReadAgain ==
  ASSUME NEW L, NEW w, WellFormed(w), NEW x, Copies(L, w, x)
  PROVE  Copies(L, load_existing_interfaces(w, x), x)
  <1> DEFINE z == load_existing_interfaces(w, x)
  <1>1. /\ "dif" \in DOMAIN w /\ "dif" \notin Identified \cup {"mac", "ip"}
        /\ Identified \cup {"mac", "ip"} \subseteq DOMAIN w
    BY DEF WellFormed, Tables, Identified
  <1>2. z.dif = x.dif /\ \A t \in Identified \cup {"mac", "ip"} : z[t] = w[t]
    BY <1>1 DEF load_existing_interfaces
  <1> HIDE DEF z
  <1>3. Copies(L, z, x)
    BY <1>2 DEF Copies, Keeps
  <1> QED BY <1>3 DEF z

(* The state of a stage that is writing in a run nobody has edited under.  *)
Underway ==
    /\ Copies(LegacyOwner, snap, nb)
    /\ Resolved(LegacyOwner, nb, objs)
    /\ Listed(stage, hosts, todo, DOMAIN objs)

OwnerInv ==
    /\ Inventory(inv) /\ Inventory(hosts)
    /\ Attached(nb)
    /\ quiet /\ pass = "apply" /\ point = "write" => Underway

LEMMA OperatorAttached ==
  ASSUME WellFormed(nb), Attached(nb), operator
  PROVE  Attached(nb')
  <1>0. Tables \subseteq DOMAIN nb /\ {"mac", "ip", "vm", "dif"} \subseteq Tables
    BY DEF WellFormed, Tables
  <1>1. CASE \E t \in {"ip", "mac"} : \E i \in DOMAIN nb[t] :
                 \E to \in {Free} \cup {<<"vif", z>> : z \in DOMAIN nb.vif} : Reassign(t, i, to)
    <2>1. PICK t \in {"ip", "mac"} :
                 \E i \in DOMAIN nb[t] : \E to : nb' = [nb EXCEPT ![t][i].assigned = to]
      BY <1>1 DEF Reassign
    <2>2. PICK i \in DOMAIN nb[t] : \E to : nb' = [nb EXCEPT ![t][i].assigned = to]
      BY <2>1
    <2>3. PICK to : nb' = [nb EXCEPT ![t][i].assigned = to]
      BY <2>2
    <2>4. /\ \A u \in Tables : DOMAIN nb'[u] = DOMAIN nb[u]
          /\ \A u \in Tables : u # t => nb'[u] = nb[u]
          /\ \A j \in DOMAIN nb[t] : DOMAIN nb'[t][j] = DOMAIN nb[t][j]
      BY <1>0, <2>3
    <2> QED BY <1>0, <2>4 DEF Attached
  <1>2. CASE \E v \in DOMAIN nb.vm : \E p \in {NoObject} \cup DOMAIN nb.ip : ChoosePrimary(v, p)
    <2>1. PICK v \in DOMAIN nb.vm, p \in {NoObject} \cup DOMAIN nb.ip : ChoosePrimary(v, p)
      BY <1>2
    <2>2. nb' = [nb EXCEPT !.vm[v].primary = p]
      BY <2>1 DEF ChoosePrimary
    <2>3. /\ \A u \in Tables : DOMAIN nb'[u] = DOMAIN nb[u]
          /\ \A u \in Tables : u # "vm" => nb'[u] = nb[u]
      BY <1>0, <2>2
    <2> QED BY <1>0, <2>3 DEF Attached
  <1>3. CASE \E v \in DOMAIN nb.vm : EditManual(v)
    <2>1. PICK v \in DOMAIN nb.vm : nb' = [nb EXCEPT !.vm[v].cf.manual = "edited"]
      BY <1>3 DEF EditManual
    <2>2. /\ \A u \in Tables : DOMAIN nb'[u] = DOMAIN nb[u]
          /\ \A u \in Tables : u # "vm" => nb'[u] = nb[u]
      BY <1>0, <2>1
    <2> QED BY <1>0, <2>2 DEF Attached
  <1> QED BY <1>1, <1>2, <1>3 DEF operator

(* A request of such a stage, acknowledged or not.                         *)
LEMMA RequestOwns ==
  ASSUME StoreInv, OwnerInv, quiet, pass = "apply", point = "write", todo # <<>>,
         Mutates(Request), Accepts(nb, Request), nb' = Commit(nb, Request)
  PROVE  /\ Keeps(LegacyOwner, nb, nb')
         /\ \A t \in Tables : \A i \in Changed(nb, nb', t) : Touchable(LegacyOwner, nb, t, i)
         /\ \A t \in {"mac", "ip"} :
                \A i \in Changed(nb, nb', t) \cup (DOMAIN nb'[t] \ DOMAIN nb[t]) :
                    MineAt(LegacyOwner, nb', nb'[t][i].assigned)
         /\ \A t \in {"mac", "ip"} : \A i \in DOMAIN nb[t] : i \in DOMAIN nb'[t]
         /\ Found(LegacyOwner, nb', Head(todo).do, Request.id)
  <1> DEFINE m == Request
             L == LegacyOwner
             do == Head(todo).do
  <1>1. WellFormed(nb) /\ Attached(nb) /\ m.table \in Tables
    BY RequestCareful DEF StoreInv, OwnerInv, Careful
  <1>2. Right(L, m, nb, do)
    BY RequestRight DEF StoreInv, OwnerInv, Underway
  <1> HIDE DEF m, L, do
  <1>3. Mutates(m) /\ Accepts(nb, m) /\ nb' = Commit(nb, m)
    BY DEF m
  <1>4. m.op \in {"create", "update"}
    BY <1>3 DEF Mutates
  <1>5. m.op = "update" => m.id \in DOMAIN nb[m.table]
    BY <1>3 DEF Accepts
  <1>6. Rightful(L, m, nb) /\ (do \in {"device", "dif", "vif"} => m.table = do)
    BY <1>2, <1>3, <1>4, <1>5 DEF Right
  <1>7. /\ Keeps(L, nb, nb')
        /\ \A t \in Tables : \A i \in Changed(nb, nb', t) : Touchable(L, nb, t, i)
        /\ \A t \in {"mac", "ip"} :
               \A i \in Changed(nb, nb', t) \cup (DOMAIN nb'[t] \ DOMAIN nb[t]) :
                   MineAt(L, nb', nb'[t][i].assigned)
        /\ m.table = "device" => m.id \in DOMAIN nb'.device /\ OwnFields(L, nb'.device[m.id].cf)
        /\ m.table \in {"dif", "vif"} => MineAt(L, nb', <<m.table, m.id>>)
        /\ \A t \in {"mac", "ip"} : \A i \in DOMAIN nb[t] : i \in DOMAIN nb'[t]
    BY <1>1, <1>3, <1>6, RightfulEffect
  <1>8. Found(L, nb', do, m.id)
    BY <1>6, <1>7 DEF Found
  <1> QED BY <1>7, <1>8 DEF m, L, do

(* The item is done.                                                       *)
LEMMA AdvanceUnderway ==
  ASSUME NEW m, NEW L, L = LegacyOwner, hosts' = hosts, todo # <<>>,
         WellFormed(snap), Copies(L, snap, nb'), Resolved(L, nb', objs),
         Listed(stage, hosts, todo, DOMAIN objs), Found(L, nb', Head(todo).do, m.id),
         Advance(m, nb')
  PROVE  Underway'
  <1> DEFINE item == Head(todo)
  <1>1. /\ objs' = [x \in DOMAIN objs \cup {item} |-> IF x = item THEN m.id ELSE objs[x]]
        /\ snap' = snap \/ snap' = load_existing_interfaces(snap, nb')
        /\ todo' = Tail(todo) /\ stage' = stage
    BY DEF Advance
  <1>2. Listed(stage, hosts, Tail(todo), DOMAIN objs \cup {item})
    BY ListedHead
  <1>3. LegacyOwner' = L
    BY DEF LegacyOwner
  <1>4. Copies(L, snap', nb')
    BY <1>1, ReadAgain
  <1> HIDE DEF item
  <1>5. DOMAIN objs' = DOMAIN objs \cup {item}
    BY <1>1
  <1>6. \A z \in DOMAIN objs' : Found(L, nb', z.do, objs'[z])
    <2>1. Found(L, nb', item.do, m.id)
      BY DEF item
    <2> QED BY <1>1, <1>5, <2>1 DEF Resolved
  <1>7. Listed(stage, hosts, todo, DOMAIN objs)'
    BY <1>1, <1>2, <1>5 DEF Listed
  <1> QED BY <1>3, <1>4, <1>6, <1>7 DEF Underway, Resolved

(* OwnerInv holds throughout: its steps need the well-formed records of    *)
(* StoreInv.                                                               *)
LEMMA OwnerStep ==
  ASSUME StoreInv, OwnerInv, [Next]_vars
  PROVE  OwnerInv'
  <1>1. CASE \E s \in limits.scopes, c \in BOOLEAN : execute_discovered_source(s, c)
    <2>1. /\ nb' = nb /\ inv' = inv /\ hosts' = inv /\ point' \in {"review", "enter"}
      BY <1>1 DEF execute_discovered_source, BeginPass
    <2> QED BY <2>1 DEF OwnerInv
  <1>2. CASE review \/ precheck \/ report \/ refuse \/ finish
    <2>1. nb' = nb /\ inv' = inv /\ hosts' = hosts /\ point' # "write"
      <3>1. CASE review
        BY <3>1 DEF review, Stop, BeginPass, control
      <3>2. CASE precheck
        BY <3>2 DEF precheck, Stop, control
      <3>3. CASE report
        BY <3>3 DEF report, Stop, control
      <3>4. CASE refuse
        BY <3>4 DEF refuse, Stop, control
      <3>5. CASE finish
        BY <3>5 DEF finish, BeginPass, control
      <3> QED BY <1>2, <3>1, <3>2, <3>3, <3>4, <3>5
    <2> QED BY <2>1 DEF OwnerInv
  <1>3. CASE enter
    <2>1. /\ nb' = nb /\ inv' = inv /\ hosts' = hosts /\ pass' = pass
          /\ point' = "write" =>
                 snap' = View /\ todo' = Work(stage, hosts) /\ objs' = <<>> /\ stage' = stage
      BY <1>3 DEF enter, Stop, control
    <2>2. ASSUME pass' = "apply", point' = "write"
          PROVE  Underway'
      <3>1. snap' = nb' /\ DOMAIN objs' = {}
        BY <2>1, <2>2 DEF View
      <3>2. Listed(stage, hosts, Work(stage, hosts), {})
        BY WorkListed DEF StoreInv, OwnerInv
      <3>3. Copies(LegacyOwner, snap, nb)'
        BY <3>1, KeepsItself DEF Copies, Keeps
      <3>4. Resolved(LegacyOwner, nb, objs)'
        BY <3>1 DEF Resolved
      <3>5. Listed(stage, hosts, todo, DOMAIN objs)'
        BY <2>1, <2>2, <3>1, <3>2 DEF Listed
      <3> QED BY <3>3, <3>4, <3>5 DEF Underway
    <2> QED BY <2>1, <2>2 DEF OwnerInv
  <1>4. CASE skip
    <2>1. /\ nb' = nb /\ inv' = inv /\ hosts' = hosts /\ pass' = pass /\ quiet' = quiet
          /\ point' = point /\ todo # <<>> /\ Request.op = "skip" /\ Advance(Request, View)
      BY <1>4 DEF skip, Advance, control, ghost
    <2>2. ASSUME quiet, pass = "apply", point = "write"
          PROVE  Underway'
      <3> DEFINE L == LegacyOwner
      <3>1. Underway /\ WellFormed(snap)
        BY <2>2 DEF OwnerInv, StoreInv
      <3>2. Right(L, Request, nb, Head(todo).do)
        BY <2>1, <2>2, <3>1, RequestRight DEF OwnerInv, StoreInv, Underway
      <3>3. Found(L, nb, Head(todo).do, Request.id)
        BY <2>1, <3>2 DEF Right
      <3>4. View = nb'
        BY <2>1, <2>2 DEF View
      <3>5. Copies(L, snap, nb) /\ Resolved(L, nb, objs) /\ Listed(stage, hosts, todo, DOMAIN objs)
        BY <3>1 DEF Underway
      <3>6. L = LegacyOwner
        OBVIOUS
      <3> HIDE DEF L
      <3> QED BY <2>1, <3>1, <3>3, <3>4, <3>5, <3>6, AdvanceUnderway
    <2> QED BY <2>1, <2>2 DEF OwnerInv
  <1>5. CASE plan
    <2>1. nb' = nb /\ inv' = inv /\ hosts' = hosts /\ pass' = "plan"
      BY <1>5 DEF plan, control
    <2> QED BY <2>1 DEF OwnerInv
  <1>6. CASE write
    <2>1. /\ inv' = inv /\ hosts' = hosts /\ pass' = pass /\ quiet' = quiet /\ point' = point
          /\ todo # <<>> /\ pass = "apply" /\ point = "write" /\ Mutates(Request)
          /\ Accepts(nb, Request) /\ nb' = Commit(nb, Request) /\ Advance(Request, nb')
      BY <1>6 DEF write, Advance, control, ghost
    <2>2. Attached(nb')
      BY <2>1, RequestCareful, CommitAttached DEF StoreInv, OwnerInv
    <2>3. ASSUME quiet
          PROVE  Underway'
      <3> DEFINE L == LegacyOwner
      <3>1. /\ WellFormed(snap) /\ Copies(L, snap, nb) /\ Resolved(L, nb, objs)
            /\ Listed(stage, hosts, todo, DOMAIN objs)
        BY <2>1, <2>3 DEF OwnerInv, StoreInv, Underway
      <3>2. /\ Keeps(L, nb, nb')
            /\ \A t \in {"mac", "ip"} : \A i \in Changed(nb, nb', t) :
                   MineAt(L, nb', nb'[t][i].assigned)
            /\ \A t \in {"mac", "ip"} : \A i \in DOMAIN nb[t] : i \in DOMAIN nb'[t]
            /\ Found(L, nb', Head(todo).do, Request.id)
        BY <2>1, <2>3, RequestOwns
      <3>3. L = LegacyOwner
        OBVIOUS
      <3> HIDE DEF L
      <3>4. Copies(L, snap, nb')
        BY <3>1, <3>2, CopiesKept
      <3>5. Resolved(L, nb', objs)
        BY <3>1, <3>2, FoundKept DEF Resolved
      <3> QED BY <2>1, <3>1, <3>2, <3>3, <3>4, <3>5, AdvanceUnderway
    <2> QED BY <2>1, <2>2, <2>3 DEF OwnerInv
  <1>7. CASE cut
    <2>1. /\ inv' = inv /\ hosts' = hosts /\ point' = "cut"
          /\ pass = "apply" /\ point = "write" /\ Mutates(Request)
          /\ nb' = nb \/ (Accepts(nb, Request) /\ nb' = Commit(nb, Request))
      BY <1>7 DEF cut, control
    <2>2. Attached(nb')
      BY <2>1, RequestCareful, CommitAttached DEF StoreInv, OwnerInv
    <2> QED BY <2>1, <2>2 DEF OwnerInv
  <1>8. CASE operator
    <2>1. inv' = inv /\ hosts' = hosts /\ ~quiet'
      BY <1>8 DEF operator, Edited, control
    <2>2. Attached(nb')
      BY <1>8, OperatorAttached DEF StoreInv, OwnerInv
    <2> QED BY <2>1, <2>2 DEF OwnerInv
  <1>9. CASE provider
    <2>1. nb' = nb /\ inv' \in Inventories /\ hosts' = hosts /\ ~quiet'
      BY <1>9 DEF provider, Edited, control
    <2>2. Inventory(inv')
      BY <2>1, FullApplyAssumption
    <2> QED BY <2>1, <2>2 DEF OwnerInv
  <1>10. CASE UNCHANGED vars
    BY <1>10 DEF vars, control, work, record, ghost, OwnerInv, Underway, LegacyOwner
  <1> QED
    BY <1>1, <1>2, <1>3, <1>4, <1>5, <1>6, <1>7, <1>8, <1>9, <1>10 DEF Next, Sync

LEMMA OwnerInvariant == Spec => []OwnerInv
<1>1. Init => OwnerInv
  BY FullApplyAssumption DEF Init, OwnerInv
<1>2. StoreInv /\ OwnerInv /\ [Next]_vars => OwnerInv'
  BY OwnerStep
<1> QED BY <1>1, <1>2, StoreInvariant, PTL DEF Spec

(* Names and foreign addresses are never taken over: a request of a run    *)
(* that nobody edits under changes only records this source owns, the      *)
(* interfaces of its own devices and address records that are free or      *)
(* already its own, and an address record it writes ends on an interface   *)
(* of this source; for every NetBox, every inventory, every scope and      *)
(* however often runs are cut.  A stage finds what it writes to by         *)
(* identity, or through an object an earlier item of its work resolved to. *)
THEOREM ForeignStaysUntouched == Spec => ForeignUntouched
<1>1. ASSUME StoreInv, OwnerInv, Counted, [Next]_vars
      PROVE  [edits' = edits /\ quiet =>
                 \A t \in Tables :
                     /\ \A i \in Changed(nb, nb', t) : Permitted(nb, t, i)
                     /\ t \in {"mac", "ip"} =>
                            \A i \in Changed(nb, nb', t) \cup (DOMAIN nb'[t] \ DOMAIN nb[t]) :
                                OursAt(nb', nb'[t][i].assigned)]_vars
  <2>1. SUFFICES ASSUME edits' = edits, quiet, nb' # nb
                 PROVE  \A t \in Tables :
                            /\ \A i \in Changed(nb, nb', t) : Permitted(nb, t, i)
                            /\ t \in {"mac", "ip"} =>
                                   \A i \in Changed(nb, nb', t) \cup (DOMAIN nb'[t] \ DOMAIN nb[t]) :
                                       OursAt(nb', nb'[t][i].assigned)
    BY DEF Changed
  <2>2. write \/ cut
    BY <1>1, <2>1, OnlyRequestsWrite
  <2>3. /\ pass = "apply" /\ point = "write" /\ Mutates(Request) /\ todo # <<>>
        /\ Accepts(nb, Request) /\ nb' = Commit(nb, Request) /\ hosts' = hosts
    BY <2>1, <2>2 DEF write, cut, control
  <2>4. /\ \A t \in Tables : \A i \in Changed(nb, nb', t) : Touchable(LegacyOwner, nb, t, i)
        /\ \A t \in {"mac", "ip"} :
               \A i \in Changed(nb, nb', t) \cup (DOMAIN nb'[t] \ DOMAIN nb[t]) :
                   MineAt(LegacyOwner, nb', nb'[t][i].assigned)
    BY <1>1, <2>1, <2>3, RequestOwns
  <2>5. \A t \in Tables : \A i \in Changed(nb, nb', t) : Permitted(nb, t, i)
    BY <2>4, TouchableIsPermitted
  <2>6. \A t \in {"mac", "ip"} :
            \A i \in Changed(nb, nb', t) \cup (DOMAIN nb'[t] \ DOMAIN nb[t]) :
                OursAt(nb', nb'[t][i].assigned)
    BY <2>4, OwnershipAgrees
  <2> QED BY <2>5, <2>6
<1> QED BY <1>1, StoreInvariant, OwnerInvariant, EditsCounted, PTL DEF Spec, ForeignUntouched
=============================================================================
