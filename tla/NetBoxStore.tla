----------------------------- MODULE NetBoxStore -----------------------------
(***************************************************************************)
(* NetBox as the sync uses it: six tables of records with numeric ids, the *)
(* two requests that change them, the constraints NetBox enforces on them, *)
(* and the write-recording facade of application/planning_netbox.py.       *)
(*                                                                         *)
(* nb is a record of tables (device, dif for dcim interfaces, vm, vif for  *)
(* virtualization interfaces, mac, ip) together with the prerequisites     *)
(* that exist (known) and the clusters that bear the configured name.      *)
(* A reference to no object is 0; Free is the assignment of an address     *)
(* record that no interface holds.                                         *)
(***************************************************************************)
EXTENDS Integers, Sequences, FiniteSets, FiniteSetsExt

CONSTANT Ids            \* object ids

ASSUME IdsAssumption == Ids \subseteq Nat \ {0}

Tables == {"device", "dif", "vm", "vif", "mac", "ip"}

NoObject == 0

Free == <<"none", NoObject>>

FreshId(nb, t) == Min(Ids \ DOMAIN nb[t])

(* A request: op is create, update, or skip when the record already agrees *)
(* and fail when the stage raises instead.                                 *)
Skip(t, id) == [op |-> "skip", table |-> t, id |-> id, fields |-> <<>>]

Raise == [op |-> "fail", table |-> "none", id |-> NoObject, fields |-> <<>>]

Create(nb, t, record) == [op |-> "create", table |-> t, id |-> FreshId(nb, t), fields |-> record]

(* The fields of desired that the record does not already have.            *)
Diff(record, desired) ==
    [f \in {g \in DOMAIN desired : record[g] # desired[g]} |-> desired[f]]

Update(t, id, record, desired) ==
    IF DOMAIN Diff(record, desired) = {} THEN Skip(t, id)
    ELSE [op |-> "update", table |-> t, id |-> id, fields |-> Diff(record, desired)]

Mutates(m) == m.op \in {"create", "update"}

Patched(record, fields) ==
    [f \in DOMAIN record |-> IF f \in DOMAIN fields THEN fields[f] ELSE record[f]]

Put(table, id, record) ==
    [i \in DOMAIN table \cup {id} |-> IF i = id THEN record ELSE table[i]]

Commit(nb, m) ==
    CASE m.op = "create" -> [nb EXCEPT ![m.table] = Put(@, m.id, m.fields)]
      [] m.op = "update" -> [nb EXCEPT ![m.table] = Put(@, m.id, Patched(@[m.id], m.fields))]
      [] OTHER -> nb

Alone(key, id) == \A i \in DOMAIN key \ {id} : key[i] # key[id]

PrimaryOf(nb, id, table, interfaces, parent) ==
    LET primary == nb[table][id].primary
    IN  primary # NoObject =>
            /\ primary \in DOMAIN nb.ip
            /\ \E i \in DOMAIN nb[interfaces] :
                   nb.ip[primary].assigned = <<interfaces, i>> /\ nb[interfaces][i][parent] = id

Valid(nb, t, id) ==
    CASE t = "device" -> /\ Alone([i \in DOMAIN nb.device |-> <<nb.device[i].name, nb.device[i].site>>], id)
                         /\ PrimaryOf(nb, id, "device", "dif", "device")
      [] t = "dif" -> Alone([i \in DOMAIN nb.dif |-> <<nb.dif[i].name, nb.dif[i].device>>], id)
      [] t = "vm" -> /\ Alone([i \in DOMAIN nb.vm |->
                                  <<nb.vm[i].name, nb.vm[i].cluster, nb.vm[i].tenant>>], id)
                     /\ PrimaryOf(nb, id, "vm", "vif", "vm")
      [] t = "vif" -> /\ Alone([i \in DOMAIN nb.vif |-> <<nb.vif[i].name, nb.vif[i].vm>>], id)
                      /\ nb.vif[id].pmac # NoObject =>
                             nb.mac[nb.vif[id].pmac].assigned = <<"vif", id>>
      [] OTHER -> TRUE

(* NetBox refuses a request that names a missing object or breaks a        *)
(* uniqueness constraint or the ownership of a primary address; the id of  *)
(* a new record is one that no other has.                                  *)
Accepts(nb, m) ==
    /\ m.op = "create" => m.id \in Ids \ DOMAIN nb[m.table]
    /\ m.op = "update" => m.id \in DOMAIN nb[m.table]
    /\ Valid(Commit(nb, m), m.table, m.id)

-----------------------------------------------------------------------------
(* PlanningNetBox: reads go through to NetBox.  A created record is kept   *)
(* and returned after the real ones, with what is written to it later; an  *)
(* update of a real record changes only the object it is called on, and    *)
(* the next read returns the original.  (The ids of planned records are    *)
(* those NetBox would give, where the facade counts down from -1.)         *)
NothingPlanned == [t \in Tables |-> <<>>]

Facade(nb, created) ==
    [f \in DOMAIN nb |->
        IF f \in Tables
        THEN [i \in DOMAIN nb[f] \cup DOMAIN created[f] |->
                 IF i \in DOMAIN nb[f] THEN nb[f][i] ELSE created[f][i]]
        ELSE nb[f]]

Remember(created, m) ==
    CASE m.op = "create" -> [created EXCEPT ![m.table] = Put(@, m.id, m.fields)]
      [] m.op = "update" /\ m.id \in DOMAIN created[m.table] ->
            [created EXCEPT ![m.table] = Put(@, m.id, Patched(@[m.id], m.fields))]
      [] OTHER -> created

(* Fault: only the creations are listed.                                   *)
RecordCreates(planned, m) == IF m.op = "create" THEN Append(planned, m) ELSE planned

(* The recorder lists every mutation in order.                             *)
Recorded(planned, m) == Append(planned, m)
=============================================================================
