--------------------------- MODULE ScheduleProofs ---------------------------
(***************************************************************************)
(* What schedule edits are answered stays true, and registry updates do    *)
(* not lose each other's columns, for any number of operators, bootstraps  *)
(* and requests.                                                           *)
(***************************************************************************)
EXTENDS ScheduleControl, SequenceTheorems, TLAPS

(***************************************************************************)
(* Requests.  A request is in the queue at most once and leaves it when it *)
(* is applied or answered; its number is fresh when it is made.            *)
(***************************************************************************)
Asked(r) == \E o \in Operators, n \in Nat : r = <<o, n>> /\ n <= asked[o]

Answers == {"nothing", "waiting", "refused", "unavailable", "invalid", "saved", "conflict", "failed"}

OperatorsTyped == asked \in [Operators -> Nat] /\ told \in [Operators -> Answers]

Entry(m) == m.operator \in Operators /\ m.from[1] = m.operator /\ Asked(m.from)

Queued(r) == \E i \in 1 .. Len(queue) : queue[i].from = r

QueueTyped == \E S : queue \in Seq(S)

QueueInv ==
    /\ QueueTyped
    /\ \A i \in 1 .. Len(queue) : Entry(queue[i]) /\ queue[i].from \notin applied
    /\ \A i, j \in 1 .. Len(queue) : queue[i].from = queue[j].from => i = j

Final == {"saved", "conflict", "invalid", "refused"}

RequestInv ==
    /\ OperatorsTyped /\ QueueInv /\ ScheduleAnswersHold
    /\ \A r \in applied : Asked(r)
    /\ \A o \in Operators : told[o] \in Final => ~Queued(Request(o))

LEMMA InitRequests == Init => RequestInv
<1> SUFFICES ASSUME Init PROVE RequestInv
  OBVIOUS
<1>1. OperatorsTyped
  BY DEF Init, OperatorsTyped, Answers
<1>2. QueueInv
  <2>1. queue \in Seq({})
    BY DEF Init
  <2> QED
    BY <2>1 DEF Init, QueueInv, QueueTyped
<1> QED
  BY <1>1, <1>2 DEF Init, RequestInv, ScheduleAnswersHold, Final

(* What an update leaves behind when it is put into the queue.             *)
LEMMA UpdateRequests ==
    ASSUME RequestInv, NEW o \in Operators, NEW desired, update(o, desired)
    PROVE  RequestInv'
<1>a. PICK r : r = <<o, asked[o] + 1>>
  OBVIOUS
<1>0. OperatorsTyped /\ QueueInv /\ ScheduleAnswersHold /\ QueueTyped
  BY DEF RequestInv, QueueInv
<1>1. /\ asked' = [asked EXCEPT ![o] = @ + 1] /\ applied' = applied
      /\ \A d \in Operators \ {o} : asked'[d] = asked[d] /\ told'[d] = told[d]
      /\ asked'[o] = asked[o] + 1 /\ asked[o] \in Nat
      /\ told'[o] \in {"refused", "unavailable", "waiting"}
  BY <1>0 DEF update, OperatorsTyped
<1>2. OperatorsTyped'
  BY <1>0, <1>1, SMTT(30) DEF update, OperatorsTyped, Answers
<1>3. \A x : Asked(x) => Asked(x)'
  BY <1>0, <1>1 DEF Asked, OperatorsTyped
<1>4. ~Asked(r) /\ Asked(r)' /\ r = <<o, asked'[o]>>
  BY <1>0, <1>1, <1>a DEF Asked, OperatorsTyped
<1>5. r \notin applied /\ \A i \in 1 .. Len(queue) : queue[i].from # r
  BY <1>4 DEF RequestInv, QueueInv, Entry
<1>6. \/ queue' = queue
      \/ /\ told'[o] = "waiting"
         /\ \E m : /\ queue' = Append(queue, m)
                   /\ m.from = r /\ m.operator = o
  <2>1. CASE queue' # queue
    <3>1. worker = "up" /\ told' = [told EXCEPT ![o] = "waiting"]
      BY <2>1 DEF update
    <3>2. PICK m : /\ queue' = Append(queue, m)
                   /\ m = [from |-> Request(o)', operator |-> o, desired |-> desired,
                           expected |-> view[o]]
      BY <2>1 DEF update, Listen
    <3>3. m.from = r /\ m.operator = o
      BY <3>2, <1>1, <1>a DEF Request
    <3> QED
      BY <1>0, <3>1, <3>2, <3>3 DEF OperatorsTyped
  <2> QED
    BY <2>1
<1>7. QueueInv' /\ \A x : x # r /\ Queued(x)' => Queued(x)
  <2>1. CASE queue' = queue
    BY <1>0, <1>1, <1>3, <2>1 DEF QueueInv, QueueTyped, Entry, Queued
  <2>2. CASE queue' # queue
    <3>1. PICK m : queue' = Append(queue, m) /\ m.from = r /\ m.operator = o
      BY <1>6, <2>2
    <3>2. PICK S : queue \in Seq(S)
      BY <1>0 DEF QueueTyped
    <3>3. /\ queue' \in Seq(S \cup {m}) /\ Len(queue') = Len(queue) + 1 /\ Len(queue) \in Nat
          /\ queue'[Len(queue) + 1] = m
          /\ \A i \in 1 .. Len(queue) : queue'[i] = queue[i]
      <4>1. queue \in Seq(S \cup {m})
        BY <3>2
      <4> QED
        BY <3>1, <4>1
    <3>4. \A i \in 1 .. Len(queue') : i \in 1 .. Len(queue) \/ i = Len(queue) + 1
      BY <3>3
    <3>5. ASSUME NEW i \in 1 .. Len(queue')
          PROVE  /\ queue'[i].operator \in Operators /\ queue'[i].from[1] = queue'[i].operator
                 /\ queue'[i].from \notin applied
                 /\ i = Len(queue) + 1 \/ queue'[i].from # r
                 /\ \A x : x = queue'[i].from => Asked(x)'
      <4>1. CASE i \in 1 .. Len(queue)
        BY <1>0, <1>3, <1>5, <3>3, <4>1 DEF QueueInv, Entry
      <4>2. CASE i = Len(queue) + 1
        BY <1>4, <1>5, <3>1, <3>3, <4>2
      <4> QED
        BY <3>4, <4>1, <4>2
    <3>6. \A i, j \in 1 .. Len(queue') : queue'[i].from = queue'[j].from => i = j
      BY <1>0, <3>1, <3>3, <3>4, <3>5 DEF QueueInv
    <3>7. ASSUME NEW x, x # r, Queued(x)' PROVE Queued(x)
      <4>1. PICK i \in 1 .. Len(queue') : queue'[i].from = x
        BY <3>7 DEF Queued
      <4> QED
        BY <3>1, <3>3, <3>4, <3>7, <4>1 DEF Queued
    <3>8. QueueTyped'
      BY <3>3 DEF QueueTyped
    <3> QED
      BY <1>1, <3>5, <3>6, <3>7, <3>8 DEF QueueInv, Entry
  <2> QED
    BY <2>1, <2>2
<1>8. ASSUME NEW d \in Operators PROVE /\ d # o => Request(d)' = Request(d) /\ Request(d) # r
                                       /\ d = o => Request(d)' = r
  BY <1>1, <1>a DEF Request
<1>9. ScheduleAnswersHold'
  BY <1>0, <1>1, <1>5, <1>8 DEF ScheduleAnswersHold
<1>10. ASSUME NEW d \in Operators, told'[d] \in Final PROVE ~Queued(Request(d))'
  <2>1. CASE d = o
    <3>1. queue' = queue
      BY <1>6, <1>10, <2>1 DEF Final
    <3> QED
      BY <1>5, <1>8, <2>1, <3>1 DEF Queued
  <2>2. CASE d # o
    <3>1. told[d] \in Final /\ ~Queued(Request(d))
      BY <1>1, <1>10, <2>2 DEF RequestInv
    <3>2. PICK x : x = Request(d)
      OBVIOUS
    <3> QED
      BY <1>7, <1>8, <2>2, <3>1, <3>2 DEF Queued
  <2> QED
    BY <2>1, <2>2
<1> QED
  BY <1>1, <1>2, <1>3, <1>7, <1>9, <1>10 DEF RequestInv

(* What the worker leaves behind when it has served a request.             *)
LEMMA ServeRequests ==
    ASSUME RequestInv, ScheduleStore_update
    PROVE  RequestInv'
<1>0. OperatorsTyped /\ QueueInv /\ ScheduleAnswersHold /\ QueueTyped
  BY DEF RequestInv, QueueInv
<1>1. PICK m : m = Head(queue)
  OBVIOUS
<1>2. PICK S : queue \in Seq(S)
  BY <1>0 DEF QueueTyped
<1>3. /\ queue # <<>> /\ Len(queue) \in Nat /\ m = queue[1] /\ 1 \in 1 .. Len(queue)
      /\ Tail(queue) \in Seq(S) /\ Len(Tail(queue)) = Len(queue) - 1
      /\ \A i \in 1 .. Len(Tail(queue)) : i + 1 \in 1 .. Len(queue) /\ Tail(queue)[i] = queue[i + 1]
  BY <1>1, <1>2 DEF ScheduleStore_update
<1>4. m.operator \in Operators /\ Asked(m.from) /\ m.from \notin applied /\ Queued(m.from)
  BY <1>0, <1>3 DEF QueueInv, Entry, Queued
<1>5. asked' = asked
  BY DEF ScheduleStore_update
<1>6. PICK answer \in {"invalid", "saved", "conflict", "failed"} :
          /\ Answer(m, answer)
          /\ applied' = applied \/ applied' = applied \cup {m.from}
          /\ answer = "saved" => applied' = applied \cup {m.from}
          /\ answer \in {"invalid", "conflict"} => applied' = applied
  BY <1>1 DEF ScheduleStore_update, Apply, CodeOfFailure
<1>7. \/ /\ Request(m.operator) = m.from /\ queue' = Tail(queue)
         /\ told' = [told EXCEPT ![m.operator] = answer]
      \/ queue' = <<>> /\ told' = told
  BY <1>6 DEF Answer, Awaits
<1>8. QueueInv' /\ (\A x : Queued(x)' => Queued(x)) /\ (queue' = Tail(queue) => ~Queued(m.from)')
  <2>1. CASE queue' = <<>>
    <3>1. QueueTyped' /\ 1 .. Len(queue') = {}
      BY <2>1 DEF QueueTyped
    <3> QED
      BY <3>1 DEF QueueInv, Queued
  <2>2. CASE queue' = Tail(queue)
    <3>1. \A i \in 1 .. Len(queue') : i + 1 \in 1 .. Len(queue) /\ queue'[i] = queue[i + 1]
      BY <1>3, <2>2
    <3>2. \A i \in 1 .. Len(queue') : queue'[i].from # m.from
      BY <1>0, <1>3, <3>1 DEF QueueInv
    <3>3. ASSUME NEW i \in 1 .. Len(queue')
          PROVE  /\ queue'[i].operator \in Operators /\ queue'[i].from[1] = queue'[i].operator
                 /\ queue'[i].from \notin applied'
                 /\ \A x : x = queue'[i].from => Asked(x)'
      <4>1. \A x : Asked(x)' <=> Asked(x)
        BY <1>5 DEF Asked
      <4> QED
        BY <1>0, <1>6, <3>1, <3>2, <4>1 DEF QueueInv, Entry
    <3>4. \A i, j \in 1 .. Len(queue') : queue'[i].from = queue'[j].from => i = j
      BY <1>0, <3>1, SMTT(30) DEF QueueInv
    <3>5. QueueTyped'
      BY <1>3, <2>2 DEF QueueTyped
    <3>6. QueueInv'
      BY <3>3, <3>4, <3>5 DEF QueueInv, Entry
    <3> QED
      BY <3>1, <3>2, <3>6 DEF Queued
  <2> QED
    BY <1>7, <2>1, <2>2
<1>9. OperatorsTyped'
  BY <1>0, <1>5, <1>7 DEF OperatorsTyped, Answers
<1>10. \A r \in applied' : Asked(r)'
  BY <1>4, <1>5, <1>6 DEF RequestInv, Asked
<1>11. ASSUME NEW d \in Operators
       PROVE  /\ told'[d] = "saved" => Request(d)' \in applied'
              /\ told'[d] \in {"conflict", "invalid", "refused"} => Request(d)' \notin applied'
              /\ told'[d] \in Final => ~Queued(Request(d))'
  <2>0. PICK x : x = Request(d) /\ x = Request(d)'
    BY <1>5 DEF Request
  <2>1. CASE told'[d] = told[d]
    <3>1. told[d] \in Final => ~Queued(x) /\ x # m.from /\ ~Queued(x)'
      BY <1>4, <1>8, <2>0 DEF RequestInv
    <3>2. told'[d] \in Final => ~Queued(Request(d))'
      BY <2>0, <2>1, <3>1 DEF Queued
    <3> QED
      BY <1>0, <1>6, <2>0, <2>1, <3>1, <3>2 DEF ScheduleAnswersHold, Final
  <2>2. CASE told'[d] # told[d]
    <3>1. d = m.operator /\ x = m.from /\ told'[d] = answer /\ queue' = Tail(queue)
      BY <1>0, <1>7, <2>0, <2>2 DEF OperatorsTyped
    <3>2. ~Queued(x)'
      BY <1>8, <3>1
    <3>3. ~Queued(Request(d))'
      BY <2>0, <3>2 DEF Queued
    <3> QED
      BY <1>4, <1>6, <2>0, <3>1, <3>3
  <2> QED
    BY <2>1, <2>2
<1> QED
  BY <1>8, <1>9, <1>10, <1>11 DEF RequestInv, ScheduleAnswersHold

LEMMA NextRequests == RequestInv /\ [Next]_vars => RequestInv'
<1> SUFFICES ASSUME RequestInv, [Next]_vars PROVE RequestInv'
  OBVIOUS
<1>0. OperatorsTyped
  BY DEF RequestInv
<1>1. ASSUME asked' = asked, queue' = queue, applied' = applied, told' \in [Operators -> Answers],
             \A o \in Operators : told'[o] = told[o] \/ told'[o] = "unavailable"
      PROVE  RequestInv'
  <2>1. /\ \A o \in Operators : Request(o)' = Request(o) /\ (told'[o] \in Final => told[o] \in Final)
        /\ \A x : (Asked(x)' <=> Asked(x)) /\ (Queued(x)' <=> Queued(x))
    BY <1>1 DEF Request, Final, Asked, Queued
  <2>2. OperatorsTyped'
    BY <1>0, <1>1 DEF OperatorsTyped
  <2>3. QueueInv'
    BY <1>1, <2>1 DEF RequestInv, QueueInv, QueueTyped, Entry
  <2>4. ScheduleAnswersHold'
    BY <1>1, <2>1 DEF RequestInv, ScheduleAnswersHold
  <2>5. \A o \in Operators : told'[o] \in Final => ~Queued(Request(o))'
    BY <1>1, <2>1 DEF RequestInv, Queued
  <2> QED
    BY <1>1, <2>1, <2>2, <2>3, <2>4, <2>5 DEF RequestInv
<1>2. CASE UNCHANGED vars
  BY <1>0, <1>1, <1>2 DEF vars, OperatorsTyped
<1>3. ASSUME NEW o \in Operators, get(o) \/ give_up(o) PROVE RequestInv'
  BY <1>0, <1>1, <1>3 DEF get, give_up, OperatorsTyped, Answers
<1>4. CASE worker_restart
  BY <1>0, <1>1, <1>4 DEF worker_restart, OperatorsTyped
<1>5. ASSUME NEW b \in Bootstraps,
             bootstrap_legacy_source(b) \/ update_source_read(b) \/ update_source_write(b)
      PROVE  RequestInv'
  BY <1>0, <1>1, <1>5
  DEF bootstrap_legacy_source, update_source_read, update_source_write, OperatorsTyped
<1> QED
  BY <1>2, <1>3, <1>4, <1>5, UpdateRequests, ServeRequests DEF Next

(***************************************************************************)
(* What the schedule worker answered stays true: saved means applied, and  *)
(* a conflict, an invalid or a refused request is never applied later,     *)
(* though schedule_client.py gives up on requests that stay in the queue.  *)
(***************************************************************************)
THEOREM AnswersHold == Spec => []ScheduleAnswersHold
<1>1. RequestInv => ScheduleAnswersHold
  BY DEF RequestInv
<1> QED
  BY <1>1, InitRequests, NextRequests, PTL DEF Spec

(***************************************************************************)
(* The order of edits.  The requests of one operator stand in the queue in *)
(* the order of their numbers and none as late as the earliest of them has *)
(* been applied; an operator whom the worker has answered has none there.  *)
(***************************************************************************)
Answered == {"saved", "conflict", "invalid", "failed"}

InOrder ==
    \A i, j \in 1 .. Len(queue) :
        i < j /\ queue[i].operator = queue[j].operator => queue[i].from[2] < queue[j].from[2]

AppliedBefore ==
    \A i \in 1 .. Len(queue) : \A k \in Nat :
        k >= queue[i].from[2] => <<queue[i].operator, k>> \notin applied

NothingBehind ==
    \A o \in Operators : told[o] \in Answered =>
        \A i \in 1 .. Len(queue) : queue[i].operator # o

OrderInv == InOrder /\ AppliedBefore /\ NothingBehind

(* A request in the queue is <<its operator, its number>>.                 *)
LEMMA EntryNumber ==
    ASSUME RequestInv, NEW i \in 1 .. Len(queue)
    PROVE  /\ queue[i].operator \in Operators
           /\ queue[i].from = <<queue[i].operator, queue[i].from[2]>>
           /\ queue[i].from[2] \in Nat /\ queue[i].from[2] <= asked[queue[i].operator]
<1>1. Entry(queue[i])
  BY DEF RequestInv, QueueInv
<1>2. PICK o \in Operators, n \in Nat : queue[i].from = <<o, n>> /\ n <= asked[o]
  BY <1>1 DEF Entry, Asked
<1> QED
  BY <1>1, <1>2 DEF Entry

(* What the update puts into the queue, and what serving takes out of it.  *)
LEMMA UpdateQueue ==
    ASSUME RequestInv, NEW o \in Operators, NEW desired, update(o, desired)
    PROVE  /\ asked[o] \in Nat /\ applied' = applied
           /\ told'[o] \notin Answered /\ \A d \in Operators \ {o} : told'[d] = told[d]
           /\ \/ queue' = queue
              \/ \E m : /\ queue' = Append(queue, m)
                        /\ m.from[2] = asked[o] + 1 /\ m.operator = o
<1>0. OperatorsTyped
  BY DEF RequestInv
<1>1. /\ asked' = [asked EXCEPT ![o] = @ + 1] /\ applied' = applied
      /\ asked'[o] = asked[o] + 1 /\ asked[o] \in Nat
      /\ told'[o] \in {"refused", "unavailable", "waiting"}
      /\ \A d \in Operators \ {o} : told'[d] = told[d]
  BY <1>0 DEF update, OperatorsTyped
<1>2. CASE queue' # queue
  <2>1. PICK m : /\ queue' = Append(queue, m)
                 /\ m = [from |-> Request(o)', operator |-> o, desired |-> desired,
                         expected |-> view[o]]
    BY <1>2 DEF update, Listen
  <2>2. m.from = <<o, asked[o] + 1>> /\ m.operator = o
    BY <1>1, <2>1 DEF Request
  <2> QED
    BY <1>1, <2>1, <2>2 DEF Answered
<1> QED
  BY <1>1, <1>2 DEF Answered

LEMMA ServeQueue ==
    ASSUME RequestInv, ScheduleStore_update
    PROVE  /\ 1 \in 1 .. Len(queue)
           /\ applied' = applied \/ applied' = applied \cup {queue[1].from}
           /\ \/ queue' = <<>> /\ told' = told
              \/ /\ Len(queue') = Len(queue) - 1
                 /\ \A i \in 1 .. Len(queue') : i + 1 \in 1 .. Len(queue) /\ queue'[i] = queue[i + 1]
                 /\ \A d \in Operators \ {queue[1].operator} : told'[d] = told[d]
                 /\ queue[1].from[2] = asked[queue[1].operator]
<1>1. PICK m : m = Head(queue)
  OBVIOUS
<1>2. PICK S : queue \in Seq(S)
  BY DEF RequestInv, QueueInv, QueueTyped
<1>3. /\ queue # <<>> /\ Len(queue) \in Nat /\ m = queue[1] /\ 1 \in 1 .. Len(queue)
      /\ Tail(queue) \in Seq(S) /\ Len(Tail(queue)) = Len(queue) - 1
      /\ \A i \in 1 .. Len(Tail(queue)) : i + 1 \in 1 .. Len(queue) /\ Tail(queue)[i] = queue[i + 1]
  BY <1>1, <1>2 DEF ScheduleStore_update
<1>4. PICK answer :
          /\ Answer(m, answer)
          /\ applied' = applied \/ applied' = applied \cup {m.from}
  BY <1>1 DEF ScheduleStore_update, Apply
<1>5. \/ queue' = <<>> /\ told' = told
      \/ /\ queue' = Tail(queue) /\ m.from = <<m.operator, asked[m.operator]>>
         /\ told' = [told EXCEPT ![m.operator] = answer]
  BY <1>4 DEF Answer, Awaits, Request
<1>6. m.operator \in Operators /\ told \in [Operators -> Answers]
  BY <1>3, EntryNumber DEF RequestInv, OperatorsTyped
<1>7. CASE queue' = <<>> /\ told' = told
  BY <1>3, <1>4, <1>7
<1>8. CASE /\ queue' = Tail(queue) /\ m.from = <<m.operator, asked[m.operator]>>
           /\ told' = [told EXCEPT ![m.operator] = answer]
  <2>1. \A d \in Operators \ {m.operator} : told'[d] = told[d]
    BY <1>6, <1>8
  <2>2. m.from[2] = asked[m.operator]
    BY <1>8
  <2>3. /\ Len(queue') = Len(queue) - 1
        /\ \A i \in 1 .. Len(queue') : i + 1 \in 1 .. Len(queue) /\ queue'[i] = queue[i + 1]
    BY <1>3, <1>8
  <2> QED
    BY <1>3, <1>4, <2>1, <2>2, <2>3
<1> QED
  BY <1>5, <1>7, <1>8

LEMMA InitOrder == Init => OrderInv
<1> SUFFICES ASSUME Init PROVE OrderInv
  OBVIOUS
<1>1. 1 .. Len(queue) = {}
  BY DEF Init
<1> QED
  BY <1>1 DEF OrderInv, InOrder, AppliedBefore, NothingBehind

LEMMA UpdateOrder ==
    ASSUME RequestInv, OrderInv, NEW o \in Operators, NEW desired, update(o, desired)
    PROVE  OrderInv'
<1>1. /\ asked[o] \in Nat /\ applied' = applied
      /\ told'[o] \notin Answered /\ \A d \in Operators \ {o} : told'[d] = told[d]
  BY UpdateQueue
<1>2. CASE queue' = queue
  BY <1>1, <1>2 DEF OrderInv, InOrder, AppliedBefore, NothingBehind
<1>3. CASE queue' # queue
  <2>1. PICK m : queue' = Append(queue, m) /\ m.from[2] = asked[o] + 1 /\ m.operator = o
    BY <1>3, UpdateQueue
  <2>2. PICK S : queue \in Seq(S)
    BY DEF RequestInv, QueueInv, QueueTyped
  <2>3. /\ Len(queue') = Len(queue) + 1 /\ Len(queue) \in Nat
        /\ queue'[Len(queue) + 1] = m
        /\ \A i \in 1 .. Len(queue) : queue'[i] = queue[i]
    <3>1. queue \in Seq(S \cup {m})
      BY <2>2
    <3> QED
      BY <2>1, <3>1
  <2>4. \A i \in 1 .. Len(queue') : i \in 1 .. Len(queue) \/ i = Len(queue) + 1
    BY <2>3
  <2>5. InOrder'
    <3> SUFFICES ASSUME NEW i \in 1 .. Len(queue'), NEW j \in 1 .. Len(queue'), i < j,
                        queue'[i].operator = queue'[j].operator
                 PROVE  queue'[i].from[2] < queue'[j].from[2]
      BY DEF InOrder
    <3>1. i \in 1 .. Len(queue)
      BY <2>3, <2>4
    <3>2. CASE j \in 1 .. Len(queue)
      BY <2>3, <3>1, <3>2 DEF OrderInv, InOrder
    <3>3. CASE j = Len(queue) + 1
      BY <1>1, <2>1, <2>3, <3>1, <3>3, EntryNumber
    <3> QED
      BY <2>4, <3>2, <3>3
  <2>6. AppliedBefore'
    <3> SUFFICES ASSUME NEW i \in 1 .. Len(queue'), NEW k \in Nat, k >= queue'[i].from[2]
                 PROVE  <<queue'[i].operator, k>> \notin applied
      BY <1>1 DEF AppliedBefore
    <3>1. CASE i \in 1 .. Len(queue)
      BY <2>3, <3>1 DEF OrderInv, AppliedBefore
    <3>2. CASE i = Len(queue) + 1
      <4>1. queue'[i].operator = o /\ k > asked[o]
        BY <1>1, <2>1, <2>3, <3>2
      <4> QED
        BY <1>1, <4>1 DEF RequestInv, OperatorsTyped, Asked
    <3> QED
      BY <2>4, <3>1, <3>2
  <2>7. NothingBehind'
    <3> SUFFICES ASSUME NEW d \in Operators, told'[d] \in Answered, NEW i \in 1 .. Len(queue')
                 PROVE  queue'[i].operator # d
      BY DEF NothingBehind
    <3>1. d # o /\ told[d] \in Answered
      BY <1>1
    <3> QED
      BY <2>1, <2>3, <2>4, <3>1 DEF OrderInv, NothingBehind
  <2> QED
    BY <2>5, <2>6, <2>7 DEF OrderInv
<1> QED
  BY <1>2, <1>3

LEMMA ServeOrder ==
    ASSUME RequestInv, OrderInv, ScheduleStore_update
    PROVE  OrderInv'
<1>1. /\ 1 \in 1 .. Len(queue)
      /\ applied' = applied \/ applied' = applied \cup {queue[1].from}
  BY ServeQueue
<1>2. CASE queue' = <<>>
  <2>1. 1 .. Len(queue') = {}
    BY <1>2
  <2> QED
    BY <2>1 DEF OrderInv, InOrder, AppliedBefore, NothingBehind
<1>3. CASE queue' # <<>>
  <2>1. /\ Len(queue') = Len(queue) - 1
        /\ \A i \in 1 .. Len(queue') : i + 1 \in 1 .. Len(queue) /\ queue'[i] = queue[i + 1]
        /\ \A d \in Operators \ {queue[1].operator} : told'[d] = told[d]
        /\ queue[1].from[2] = asked[queue[1].operator]
    BY <1>3, ServeQueue
  <2>2. InOrder'
    <3> SUFFICES ASSUME NEW i \in 1 .. Len(queue'), NEW j \in 1 .. Len(queue'), i < j,
                        queue'[i].operator = queue'[j].operator
                 PROVE  queue'[i].from[2] < queue'[j].from[2]
      BY DEF InOrder
    <3>1. /\ i + 1 \in 1 .. Len(queue) /\ queue'[i] = queue[i + 1]
          /\ j + 1 \in 1 .. Len(queue) /\ queue'[j] = queue[j + 1] /\ i + 1 < j + 1
      BY <2>1
    <3> QED
      BY <3>1 DEF OrderInv, InOrder
  <2>3. ASSUME NEW i \in 1 .. Len(queue')
        PROVE  /\ i + 1 \in 1 .. Len(queue) /\ queue'[i] = queue[i + 1]
               /\ queue[i + 1].operator # queue[1].operator
    <3>1. i + 1 \in 1 .. Len(queue) /\ 1 < i + 1 /\ queue'[i] = queue[i + 1]
      BY <2>1
    <3>2. queue[i + 1].operator = queue[1].operator => queue[1].from[2] < queue[i + 1].from[2]
      BY <1>1, <3>1 DEF OrderInv, InOrder
    <3>3. queue[i + 1].from[2] <= asked[queue[i + 1].operator] /\ queue[i + 1].from[2] \in Nat
      BY <3>1, EntryNumber
    <3>4. asked[queue[1].operator] \in Nat
      BY <1>1, EntryNumber DEF RequestInv, OperatorsTyped
    <3> QED
      BY <2>1, <3>1, <3>2, <3>3, <3>4
  <2>4. AppliedBefore'
    <3> SUFFICES ASSUME NEW i \in 1 .. Len(queue'), NEW k \in Nat, k >= queue'[i].from[2]
                 PROVE  <<queue'[i].operator, k>> \notin applied'
      BY DEF AppliedBefore
    <3>0. i + 1 \in 1 .. Len(queue) /\ queue'[i] = queue[i + 1]
      BY <2>3
    <3>1. <<queue'[i].operator, k>> \notin applied
      BY <3>0 DEF OrderInv, AppliedBefore
    <3>2. <<queue'[i].operator, k>> # queue[1].from
      BY <1>1, <2>3, EntryNumber
    <3> QED
      BY <1>1, <3>1, <3>2
  <2>5. NothingBehind'
    <3> SUFFICES ASSUME NEW d \in Operators, told'[d] \in Answered, NEW i \in 1 .. Len(queue')
                 PROVE  queue'[i].operator # d
      BY DEF NothingBehind
    <3> QED
      BY <2>1, <2>3 DEF OrderInv, NothingBehind
  <2> QED
    BY <2>2, <2>4, <2>5 DEF OrderInv
<1> QED
  BY <1>2, <1>3

LEMMA NextOrder == RequestInv /\ OrderInv /\ [Next]_vars => OrderInv'
<1> SUFFICES ASSUME RequestInv, OrderInv, [Next]_vars PROVE OrderInv'
  OBVIOUS
<1>1. CASE /\ queue' = queue /\ applied' = applied
           /\ \A o \in Operators : told'[o] = told[o] \/ told'[o] = "unavailable"
  BY <1>1 DEF OrderInv, InOrder, AppliedBefore, NothingBehind, Answered
<1>2. ASSUME NEW o \in Operators, give_up(o) PROVE OrderInv'
  BY <1>1, <1>2 DEF give_up, RequestInv, OperatorsTyped
<1>3. \/ UNCHANGED <<queue, applied, told>> \/ ScheduleStore_update
      \/ \E o \in Operators : give_up(o) \/ \E desired \in Schedules : update(o, desired)
  BY DEF Next, vars, get, worker_restart, bootstrap_legacy_source, update_source_read,
         update_source_write
<1> QED
  BY <1>1, <1>2, <1>3, UpdateOrder, ServeOrder

(***************************************************************************)
(* Edits of one operator take effect in their order, and none after a      *)
(* later one was answered, though the client of api/schedule_client.py     *)
(* gives up on requests that the worker still serves.                      *)
(***************************************************************************)
THEOREM InOrderApplied == Spec => EditsInOrder
<1> DEFINE A == \A o \in Operators : \A n \in 1 .. asked[o] :
                    <<o, n>> \in applied' \ applied =>
                        /\ \A k \in n + 1 .. asked[o] : <<o, k>> \notin applied
                        /\ told[o] \notin {"saved", "conflict", "invalid", "failed"}
<1> DEFINE IInv == RequestInv /\ OrderInv
<1>1. IInv /\ [Next]_vars => [A]_vars
  <2> SUFFICES ASSUME RequestInv, OrderInv, [Next]_vars,
                      NEW o \in Operators, NEW n \in 1 .. asked[o], <<o, n>> \in applied' \ applied
               PROVE  /\ \A k \in n + 1 .. asked[o] : <<o, k>> \notin applied
                      /\ told[o] \notin Answered
    BY DEF Answered
  <2>1. ScheduleStore_update
    BY DEF Next, vars, get, give_up, update, worker_restart, bootstrap_legacy_source,
           update_source_read, update_source_write
  <2>2. 1 \in 1 .. Len(queue) /\ <<o, n>> = queue[1].from
    BY <2>1, ServeQueue
  <2>3. queue[1].operator = o /\ queue[1].from[2] = n /\ asked[o] \in Nat
    BY <2>2, EntryNumber DEF RequestInv, OperatorsTyped
  <2> QED
    BY <2>2, <2>3 DEF OrderInv, AppliedBefore, NothingBehind
<1>2. Init => IInv
  BY InitRequests, InitOrder
<1>3. IInv /\ [Next]_vars => IInv'
  BY NextRequests, NextOrder
<1> HIDE DEF IInv
<1> QED
  BY <1>1, <1>2, <1>3, PTL DEF Spec, EditsInOrder

(***************************************************************************)
(* Registry updates.  The version of the row grows with every change of    *)
(* config, so an update whose read has the version of the row has its      *)
(* config too.                                                             *)
(***************************************************************************)
RowTyped == DOMAIN row = Columns \cup {"version"} /\ row.version \in Nat

ReadInv(b) ==
    /\ DOMAIN boot[b] = {"at", "changes", "read"}
    /\ boot[b].read.version \in Nat /\ boot[b].read.version <= row.version
    /\ boot[b].read.version = row.version => boot[b].read["config"] = row["config"]

RegistryInv == RowTyped /\ DOMAIN boot = Bootstraps /\ \A b \in Bootstraps : ReadInv(b)

LEMMA InitRegistry == Init => RegistryInv
<1> SUFFICES ASSUME Init PROVE RegistryInv
  OBVIOUS
<1>1. RowTyped /\ DOMAIN boot = Bootstraps
  BY RowAssumption DEF Init, RowTyped
<1>2. ASSUME NEW b \in Bootstraps PROVE ReadInv(b)
  <2>1. boot[b] = [at |-> "start", changes |-> {}, read |-> FirstRow] /\ row = FirstRow
    BY DEF Init
  <2> QED
    BY <2>1, RowAssumption DEF ReadInv
<1> QED
  BY <1>1, <1>2 DEF RegistryInv

LEMMA NextRegistry == RegistryInv /\ [Next]_vars => RegistryInv'
<1> SUFFICES ASSUME RegistryInv, [Next]_vars PROVE RegistryInv'
  OBVIOUS
<1> USE DEF RegistryInv
<1>1. ASSUME boot' = boot, DOMAIN row' = DOMAIN row, row'.version = row.version,
             row'["config"] = row["config"]
      PROVE  RegistryInv'
  BY <1>1 DEF RowTyped, ReadInv
<1>2. CASE UNCHANGED <<row, boot>>
  BY <1>1, <1>2
<1>3. CASE ScheduleStore_update
  <2>1. boot' = boot /\ (row' = row \/ \E x, y : row' = [row EXCEPT !.sync = x, !.interval = y])
    BY <1>3 DEF ScheduleStore_update, Apply
  <2>2. DOMAIN row' = DOMAIN row /\ row'.version = row.version /\ row'["config"] = row["config"]
    BY <2>1 DEF RowTyped, Columns
  <2> QED
    BY <1>1, <2>1, <2>2
<1>4. ASSUME NEW b \in Bootstraps, bootstrap_legacy_source(b) \/ update_source_read(b)
      PROVE  RegistryInv'
  <2>0. DOMAIN boot[b] = {"at", "changes", "read"}
    BY DEF ReadInv
  <2>1. PICK r : /\ boot' = [boot EXCEPT ![b] = r] /\ DOMAIN r = {"at", "changes", "read"}
                 /\ r.read = row \/ r.read = boot[b].read
    <3>1. CASE bootstrap_legacy_source(b)
      <4> DEFINE r == [boot[b] EXCEPT !.at = IF Differs(row, b) = {} THEN "done" ELSE "changes",
                                      !.changes = Differs(row, b)]
      <4>1. boot' = [boot EXCEPT ![b] = r]
        BY <3>1 DEF bootstrap_legacy_source
      <4>2. DOMAIN r = {"at", "changes", "read"} /\ r.read = boot[b].read
        BY <2>0
      <4> QED
        BY <4>1, <4>2
    <3>2. CASE update_source_read(b)
      <4> DEFINE r == [boot[b] EXCEPT
                          !.at = IF Differs(row, b) \cap boot[b].changes = {} THEN "done" ELSE "write",
                          !.read = row]
      <4>1. boot' = [boot EXCEPT ![b] = r]
        BY <3>2 DEF update_source_read
      <4>2. DOMAIN r = {"at", "changes", "read"} /\ r.read = row
        BY <2>0
      <4> QED
        BY <4>1, <4>2
    <3> QED
      BY <1>4, <3>1, <3>2
  <2>2. row' = row /\ DOMAIN boot' = Bootstraps
    BY <1>4, <2>1 DEF bootstrap_legacy_source, update_source_read
  <2>3. /\ boot'[b] = r
        /\ \A d \in Bootstraps \ {b} : boot'[d] = boot[d]
    BY <2>1
  <2>4. ReadInv(b)'
    BY <2>1, <2>2, <2>3 DEF RowTyped, ReadInv
  <2>5. \A d \in Bootstraps \ {b} : ReadInv(d)'
    BY <2>2, <2>3 DEF ReadInv
  <2> QED
    BY <2>2, <2>4, <2>5 DEF RowTyped
<1>5. ASSUME NEW b \in Bootstraps, update_source_write(b) PROVE RegistryInv'
  <2>1. PICK at : boot' = [boot EXCEPT ![b].at = at]
    BY <1>5 DEF update_source_write
  <2>2. /\ DOMAIN boot' = Bootstraps /\ \A d \in Bootstraps \ {b} : boot'[d] = boot[d]
        /\ DOMAIN boot'[b] = {"at", "changes", "read"} /\ boot'[b].read = boot[b].read
    BY <2>1 DEF ReadInv
  <2>3. row' = row \/ (DOMAIN row' = DOMAIN row /\ row'.version = row.version + 1)
    BY <1>5 DEF update_source_write, RowTyped
  <2>4. RowTyped'
    BY <2>3 DEF RowTyped
  <2>5. ASSUME NEW d \in Bootstraps PROVE ReadInv(d)'
    BY <2>2, <2>3 DEF RowTyped, ReadInv
  <2> QED
    BY <2>2, <2>4, <2>5
<1>6. \/ UNCHANGED <<row, boot>> \/ ScheduleStore_update
      \/ \E b \in Bootstraps :
             bootstrap_legacy_source(b) \/ update_source_read(b) \/ update_source_write(b)
  BY DEF Next, vars, get, give_up, update, worker_restart
<1> QED
  BY <1>2, <1>3, <1>4, <1>5, <1>6

(***************************************************************************)
(* Two updates of source_registry.py never lose each other's columns:      *)
(* updated_at moves with each of them.  (Schedule changes leave it alone,  *)
(* so the same does not hold of the schedule columns.)                     *)
(***************************************************************************)
THEOREM ConfigKept == Spec => ConfigUpdatesKept
<1> DEFINE A == \A b \in Bootstraps : ~Overwrites(b, "config")
<1>1. RegistryInv /\ [Next]_vars => [A]_vars
  <2> SUFFICES ASSUME RegistryInv, [Next]_vars, NEW b \in Bootstraps,
                      boot[b].at = "write", boot'[b].at = "done"
               PROVE  row["config"] = boot[b].read["config"]
    BY DEF Overwrites
  <2>1. ReadInv(b) /\ DOMAIN boot[b] = {"at", "changes", "read"}
    BY DEF RegistryInv, ReadInv
  <2>2. \A d \in Bootstraps \ {b} :
            ~bootstrap_legacy_source(d) /\ ~update_source_read(d) /\ ~update_source_write(d)
    BY DEF RegistryInv, bootstrap_legacy_source, update_source_read, update_source_write
  <2>3. update_source_write(b)
    BY <2>2 DEF Next, vars, get, give_up, update, worker_restart, ScheduleStore_update,
                bootstrap_legacy_source, update_source_read
  <2>4. Unchanged(b)
    <3> SUFFICES ASSUME ~Unchanged(b) PROVE FALSE
      OBVIOUS
    <3>1. boot' = [boot EXCEPT ![b].at = "concurrent"]
      BY <2>3 DEF update_source_write
    <3>2. boot'[b].at = "concurrent"
      BY <2>1, <3>1 DEF RegistryInv
    <3> QED
      BY <3>2
  <2> QED
    BY <2>1, <2>4 DEF Unchanged, ReadInv
<1> QED
  BY <1>1, InitRegistry, NextRegistry, PTL DEF Spec, ConfigUpdatesKept
=============================================================================
