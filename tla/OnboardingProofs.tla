-------------------------- MODULE OnboardingProofs --------------------------
(***************************************************************************)
(* Registry and secret directory behave as one store (RegisteredSources),  *)
(* and secrets are write-once, for any number of calls, keys, attempts,    *)
(* sources and crashes.                                                    *)
(***************************************************************************)
EXTENDS Onboarding, SequenceTheorems, TLAPS

(***************************************************************************)
(* Types.                                                                  *)
(***************************************************************************)
Points == {"idle", "find", "key", "create", "insert", "returned", "reconcile", "undo",
           "answered", "gone"}

Op == (Clients \X Nat) \cup ({"earlier"} \X Keys)
Receipt == {Nothing} \cup (Op \X Nat) \cup Op
Value == {Nothing} \cup ((Tokens \cup {"earlier"}) \X Nat)

CallRecord == [at : Points, source : Sources \cup {Nothing}, token : Tokens \cup {Nothing},
               keys : Seq(Keys), receipts : Seq(Receipt), err : {"none", "failed", "denied", "uncertain"},
               clean : BOOLEAN, answer : {"none", "created", "failed", "uncertain"}]

Message == [client : Clients, action : {"create", "rollback"}, op : Clients \X Nat, id : Nat,
            key : Keys, value : Value, receipt : Receipt]

File == [op : Op, receipt : Receipt, value : Value, complete : BOOLEAN]

ReplyRecord == [ok : {TRUE}, receipt : Receipt, code : {"none"}]
               \cup [ok : {FALSE}, receipt : Receipt, code : {"failed", "denied", "uncertain"}]

CallTyped == call \in [Clients -> CallRecord]

DiskTyped == queue \in Seq(Message) /\ \A k \in DOMAIN files : files[k] \in File

WireTyped ==
    /\ awaited \in [Clients -> Message \cup {Nothing}]
    /\ reply \in [Clients -> ReplyRecord \cup {Nothing}]
    /\ tries \in [Clients -> Nat] /\ submitted \in [Clients -> BOOLEAN]

Typed ==
    /\ CallTyped /\ DiskTyped /\ WireTyped
    /\ pending \subseteq Tokens /\ late \subseteq Clients

(***************************************************************************)
(* The inductive invariant.  A call that may still be registered owns the  *)
(* files of its receipts, and only calls that can no longer be have a      *)
(* rollback under way; both are needed to see that the row of a source     *)
(* never loses a file.                                                     *)
(***************************************************************************)
NoRow(c) == \A s \in DOMAIN rows : rows[s].call # c

Past(c) == call[c].at \in {"undo", "answered", "gone"} /\ c \notin late /\ NoRow(c)

Own(c, i) ==
    /\ call[c].keys[i] \in DOMAIN files
    /\ files[call[c].keys[i]].complete
    /\ files[call[c].keys[i]].op = <<c, i>>
    /\ files[call[c].keys[i]].value = SecretValue(call[c].token, i)

(* What a call has put together so far.                                    *)
Progress(c) ==
    /\ call[c].at # "answered" => call[c].answer = "none"
    /\ call[c].at \in {"find", "key", "create", "insert", "returned", "reconcile"} \/ c \in late
          => call[c].token \in Tokens /\ call[c].source \in Sources
    /\ call[c].at \in {"idle", "find"} => call[c].keys = <<>> /\ call[c].receipts = <<>>
    /\ call[c].at = "key" =>
          Len(call[c].keys) = Len(call[c].receipts) /\ Label(c) \in Labels(call[c].token)
    /\ call[c].at = "create" =>
          Len(call[c].keys) = Label(c) /\ Label(c) \in Labels(call[c].token)
    /\ call[c].at = "insert" \/ c \in late =>
          \A i \in Labels(call[c].token) : i \in 1 .. Len(call[c].receipts)
    /\ call[c].at \in {"insert", "undo"} => Len(call[c].receipts) <= Len(call[c].keys)
    /\ call[c].at = "undo" => call[c].err \in {"failed", "denied", "uncertain"}

(* Whether the registry knows the call.                                    *)
Registration(c) ==
    /\ call[c].at \in {"idle", "find", "key", "create", "insert", "undo"} => c \notin late /\ NoRow(c)
    /\ c \in late => /\ NoRow(c) /\ call[c].answer # "failed"
                     /\ call[c].at \in {"reconcile", "answered", "gone"}
    /\ call[c].answer = "failed" => c \notin late /\ NoRow(c)
    /\ call[c].at = "returned" => ~NoRow(c)

Secrets(c) ==
    call[c].at \in {"key", "create", "insert"} \/ c \in late =>
        \A i \in 1 .. Len(call[c].receipts) : Own(c, i)

(* What the call asked for, and what a positive answer means.              *)
Asked(c) ==
    call[c].at = "create" /\ awaited[c] # Nothing =>
        /\ awaited[c].op = <<c, Label(c)>> /\ awaited[c].key = call[c].keys[Label(c)]
        /\ awaited[c].value = SecretValue(call[c].token, Label(c))
        /\ awaited[c].action = "create"

Told(c) ==
    call[c].at = "create" /\ reply[c] # Nothing /\ reply[c].ok => Own(c, Label(c))

ClientInv(c) == Progress(c) /\ Registration(c) /\ Secrets(c) /\ Asked(c) /\ Told(c)

QueueInv ==
    \A i \in DOMAIN queue :
        /\ queue[i].op[1] = queue[i].client
        /\ queue[i].action = "rollback" => Past(queue[i].client)

Writing ==
    broker = "writing" =>
        /\ queue # <<>> /\ Head(queue).action = "create" /\ Head(queue).key \in DOMAIN files
        /\ ~files[Head(queue).key].complete
        /\ files[Head(queue).key].op = Head(queue).op
        /\ files[Head(queue).key].value = Head(queue).value

RowUsable(s) ==
    \A i \in Labels(rows[s].token) :
        /\ rows[s].keys[i] \in DOMAIN files
        /\ files[rows[s].keys[i]].complete
        /\ files[rows[s].keys[i]].value = SecretValue(rows[s].token, i)
        /\ files[rows[s].keys[i]].op[1] \in Clients =>
               files[rows[s].keys[i]].op[1] = rows[s].call

RowsUsable == \A s \in DOMAIN rows : RowUsable(s)

Inv ==
    /\ Typed
    /\ \A c \in Clients : ClientInv(c)
    /\ QueueInv /\ Writing /\ RowsUsable

(***************************************************************************)
(* Small facts.                                                            *)
(***************************************************************************)
LEMMA MessageIsSomething ==
    \A m \in Message : m # Nothing
BY SMTT(30) DEF Message, Nothing

LEMMA LabelsAre == \A t : Labels(t) \subseteq {1, 2} /\ 1 \in Labels(t)
BY DEF Labels

LEMMA HeadOfQueue ==
    ASSUME Typed, QueueInv, queue # <<>>
    PROVE  /\ Head(queue) \in Message /\ Tail(queue) \in Seq(Message)
           /\ Head(queue) = queue[1] /\ 1 \in DOMAIN queue
           /\ \A i \in DOMAIN Tail(queue) : i + 1 \in DOMAIN queue /\ Tail(queue)[i] = queue[i + 1]
           /\ Head(queue).op[1] = Head(queue).client
           /\ Head(queue).action = "rollback" => Past(Head(queue).client)
<1>1. queue \in Seq(Message)
  BY DEF Typed, DiskTyped
<1>2. /\ Head(queue) \in Message /\ Tail(queue) \in Seq(Message)
      /\ Head(queue) = queue[1] /\ 1 \in DOMAIN queue
      /\ \A i \in DOMAIN Tail(queue) : i + 1 \in DOMAIN queue /\ Tail(queue)[i] = queue[i + 1]
  BY <1>1
<1> QED
  BY <1>2 DEF QueueInv

(* The initial states.                                                     *)
LEMMA InitInv == Init => Inv
<1> SUFFICES ASSUME Init PROVE Inv
  OBVIOUS
<1> USE DEF Init, BrokerInit, NewCall
<1>1. Typed
  <2>1. NewCall \in CallRecord
    BY DEF CallRecord, Points, NewCall
  <2>2. \A k \in DOMAIN EarlierFiles : EarlierFiles[k] \in File
    BY EarlierAssumption DEF EarlierFiles, File, Op, Receipt, Value, SecretValue
  <2> QED
    BY <2>1, <2>2 DEF Typed, CallTyped, DiskTyped, WireTyped, NewCall
<1>2. \A c \in Clients : ClientInv(c)
  BY EarlierAssumption DEF ClientInv, Progress, Registration, Secrets, Asked, Told, NoRow, Nothing
<1>3. QueueInv /\ Writing
  BY DEF QueueInv, Writing
<1>4. RowsUsable
  <2> SUFFICES ASSUME NEW s \in DOMAIN EarlierRows, NEW i \in Labels("earlier")
               PROVE  /\ EarlierRows[s].keys[i] \in DOMAIN EarlierFiles
                      /\ EarlierFiles[EarlierRows[s].keys[i]].complete
                      /\ EarlierFiles[EarlierRows[s].keys[i]].value = SecretValue("earlier", i)
                      /\ EarlierFiles[EarlierRows[s].keys[i]].op[1] \notin Clients
    BY EarlierAssumption DEF RowsUsable, RowUsable
  <2>1. i = 1
    BY EarlierAssumption, OnboardingAssumption DEF Labels
  <2> QED
    BY <2>1, EarlierAssumption DEF EarlierFiles
<1> QED
  BY <1>1, <1>2, <1>3, <1>4 DEF Inv

(***************************************************************************)
(* Complete files.                                                         *)
(***************************************************************************)
Kept(k) == k \in DOMAIN files' /\ files'[k] = files[k]

Undone(k) ==
    k \notin DOMAIN files' /\ files[k].op[1] \in Clients /\ Past(files[k].op[1])

CompleteFilesStay == \A k \in DOMAIN files : files[k].complete => Kept(k) \/ Undone(k)

LEMMA BrokerKeepsFiles ==
    ASSUME Inv, BrokerNext
    PROVE  CompleteFilesStay
<1> USE DEF CompleteFilesStay, Kept, Undone
<1> DEFINE m == Head(queue)
<1> HIDE DEF m
<1>0. Typed /\ QueueInv /\ Writing
  BY DEF Inv
<1>1. CASE CreateExclusive
  BY <1>1 DEF CreateExclusive, Vacant, With
<1>2. CASE CreateCompletes
  <2>1. ~files[m.key].complete /\ files' = [files EXCEPT ![m.key].complete = TRUE]
    BY <1>0, <1>2 DEF CreateCompletes, Writing, m
  <2> QED
    BY <2>1
<1>3. CASE CreateFails
  <2>1. ~files[m.key].complete /\ files' \in {Without(m.key), files}
    BY <1>0, <1>3 DEF CreateFails, Writing, m
  <2> QED
    BY <2>1 DEF Without
<1>4. CASE RepeatCreate
  BY <1>4 DEF RepeatCreate
<1>5. CASE Rollback
  <2>1. \/ files' = files
        \/ files' = Without(m.key) /\ m.key \in DOMAIN files /\ files[m.key].op = m.op
    BY <1>5 DEF Rollback, Authorized, m
  <2>2. m.op[1] \in Clients /\ Past(m.op[1])
    <3>1. queue # <<>> /\ m.action = "rollback"
      BY <1>5 DEF Rollback, Serving, m
    <3>2. m \in Message /\ m.op[1] = m.client /\ Past(m.client)
      BY <3>1, <1>0, HeadOfQueue DEF m
    <3>3. m.client \in Clients
      BY <3>2 DEF Message
    <3> QED
      BY <3>2, <3>3
  <2> QED
    BY <2>1, <2>2 DEF Without
<1>6. CASE BrokerCrash \/ BrokerRestart
  BY <1>6 DEF BrokerCrash, BrokerRestart
<1> QED
  BY <1>1, <1>2, <1>3, <1>4, <1>5, <1>6 DEF BrokerNext

(* A call that is not past keeps its files.                                *)
LEMMA OwnStays ==
    ASSUME CompleteFilesStay, NEW c \in Clients, NEW i \in Nat, Own(c, i), ~Past(c),
           call'[c].keys[i] = call[c].keys[i], call'[c].token = call[c].token
    PROVE  Own(c, i)'
<1> DEFINE k == call[c].keys[i]
<1>1. k \in DOMAIN files /\ files[k].complete /\ files[k].op = <<c, i>>
  BY DEF Own
<1>2. files[k].op[1] = c
  BY <1>1
<1>3. Kept(k)
  BY <1>1, <1>2 DEF CompleteFilesStay, Undone
<1> QED
  BY <1>1, <1>3 DEF Own, Kept, SecretValue

(* Neither does a row lose one.                                            *)
LEMMA RowsStay ==
    ASSUME CompleteFilesStay, RowsUsable, rows' = rows
    PROVE  RowsUsable'
<1> SUFFICES ASSUME NEW s \in DOMAIN rows, NEW i \in Labels(rows[s].token)
             PROVE  /\ rows[s].keys[i] \in DOMAIN files'
                    /\ files'[rows[s].keys[i]] = files[rows[s].keys[i]]
  BY DEF RowsUsable, RowUsable
<1> DEFINE k == rows[s].keys[i]
<1>1. /\ k \in DOMAIN files /\ files[k].complete
      /\ files[k].op[1] \in Clients => files[k].op[1] = rows[s].call
  BY DEF RowsUsable, RowUsable
<1>2. ~Undone(k)
  BY <1>1 DEF Undone, Past, NoRow
<1> QED
  BY <1>1, <1>2 DEF CompleteFilesStay, Kept

(***************************************************************************)
(* Steps of the broker.                                                    *)
(***************************************************************************)
LEMMA FilesTyped ==
    ASSUME Inv, BrokerNext
    PROVE  \A k \in DOMAIN files' : files'[k] \in File
<1> DEFINE m == Head(queue)
<1> HIDE DEF m
<1>0. Typed /\ QueueInv /\ Writing /\ \A k \in DOMAIN files : files[k] \in File
  BY DEF Inv, Typed, DiskTyped
<1>1. CASE CreateExclusive
  <2>1. m \in Message
    BY <1>0, <1>1, HeadOfQueue DEF CreateExclusive, Serving, m
  <2>2. [op |-> m.op, receipt |-> <<m.op, m.id>>, value |-> m.value, complete |-> FALSE] \in File
    BY <2>1 DEF Message, File, Op, Receipt
  <2> QED
    BY <1>0, <1>1, <2>2 DEF CreateExclusive, With, m
<1>2. CASE CreateCompletes
  <2>1. m.key \in DOMAIN files /\ files' = [files EXCEPT ![m.key].complete = TRUE]
    BY <1>0, <1>2 DEF CreateCompletes, Writing, m
  <2>2. [files[m.key] EXCEPT !.complete = TRUE] \in File
    BY <2>1, <1>0 DEF File
  <2>3. files' = [files EXCEPT ![m.key] = [files[m.key] EXCEPT !.complete = TRUE]]
    BY <2>1
  <2> QED
    BY <1>0, <2>2, <2>3
<1>3. CASE CreateFails
  BY <1>0, <1>3 DEF CreateFails, Without
<1>4. CASE RepeatCreate \/ BrokerCrash \/ BrokerRestart
  BY <1>0, <1>4 DEF RepeatCreate, BrokerCrash, BrokerRestart
<1>5. CASE Rollback
  BY <1>0, <1>5 DEF Rollback, Without
<1> QED
  BY <1>1, <1>2, <1>3, <1>4, <1>5 DEF BrokerNext

(* An answer goes to the client that waits for it, and a positive answer   *)
(* to a create means the file is there.                                    *)
Answered(m, answer) ==
    /\ m \in Message /\ answer \in ReplyRecord /\ queue # <<>> /\ queue' = Tail(queue)
    /\ reply' = IF awaited[m.client] = m THEN [reply EXCEPT ![m.client] = answer] ELSE reply
    /\ m.action = "create" /\ answer.ok =>
          /\ m.key \in DOMAIN files' /\ files'[m.key].complete
          /\ files'[m.key].op = m.op /\ files'[m.key].value = m.value

LEMMA BrokerAnswers ==
    ASSUME Inv, BrokerNext
    PROVE  \/ queue' = queue /\ reply' = reply
           \/ queue' = <<>> /\ reply' = reply
           \/ \E answer : Answered(Head(queue), answer)
<1> DEFINE m == Head(queue)
<1> HIDE DEF m
<1>0. Typed /\ QueueInv /\ Writing /\ \A k \in DOMAIN files : files[k] \in File
  BY DEF Inv, Typed, DiskTyped
<1>a. ASSUME queue # <<>> PROVE m \in Message
  BY <1>0, <1>a, HeadOfQueue DEF m
<1>b. /\ Refused \in ReplyRecord /\ Broken \in ReplyRecord /\ Denied \in ReplyRecord
      /\ Ok(Nothing) \in ReplyRecord
  BY DEF Refused, Broken, Denied, Ok, ReplyRecord, Receipt
<1>d. ~Refused.ok /\ ~Broken.ok /\ ~Denied.ok
  BY DEF Refused, Broken, Denied
<1>c. \A k \in DOMAIN files : Ok(files[k].receipt) \in ReplyRecord
  BY <1>0 DEF Ok, ReplyRecord, File
<1>1. CASE CreateExclusive
  BY <1>1 DEF CreateExclusive, wire
<1>2. CASE CreateCompletes
  <2>1. /\ queue # <<>> /\ m.key \in DOMAIN files /\ files[m.key].op = m.op
        /\ files[m.key].value = m.value /\ files' = [files EXCEPT ![m.key].complete = TRUE]
    BY <1>0, <1>2 DEF CreateCompletes, Writing, m
  <2>2. files[m.key] \in File
    BY <1>0, <2>1
  <2>3. /\ m.key \in DOMAIN files' /\ files'[m.key].complete
        /\ files'[m.key].op = m.op /\ files'[m.key].value = m.value
    BY <2>1, <2>2 DEF File
  <2>4. \E answer \in ReplyRecord : Reply(m, answer)
    BY <1>2, <1>b, <1>c, <2>1 DEF CreateCompletes, m
  <2> QED
    BY <2>1, <2>3, <2>4, <1>a DEF Reply, Answered, m
<1>3. CASE CreateFails
  <2>1. queue # <<>> /\ Reply(m, Broken)
    BY <1>0, <1>3 DEF CreateFails, Writing, m
  <2>2. Answered(m, Broken)
    BY <2>1, <1>a, <1>b, <1>d DEF Reply, Answered
  <2> QED
    BY <2>2 DEF m
<1>4. CASE RepeatCreate
  <2>1. /\ queue # <<>> /\ m.key \in DOMAIN files /\ files' = files
        /\ \/ SameAttempt(files[m.key], m) /\ Reply(m, Ok(files[m.key].receipt))
           \/ Reply(m, Refused) \/ Reply(m, Denied)
    BY <1>4 DEF RepeatCreate, Serving, m
  <2>2. CASE SameAttempt(files[m.key], m) /\ Reply(m, Ok(files[m.key].receipt))
    BY <2>1, <2>2, <1>a, <1>c DEF Reply, Answered, SameAttempt, m
  <2>3. CASE Reply(m, Refused) \/ Reply(m, Denied)
    <3>1. Answered(m, Refused) \/ Answered(m, Denied)
      BY <2>1, <2>3, <1>a, <1>b, <1>d DEF Reply, Answered
    <3> QED
      BY <3>1 DEF m
  <2> QED
    BY <2>1, <2>2, <2>3
<1>5. CASE Rollback
  <2>1. queue # <<>> /\ m.action = "rollback" /\ \E answer \in ReplyRecord : Reply(m, answer)
    BY <1>5, <1>b DEF Rollback, Serving, m
  <2> QED
    BY <2>1, <1>a DEF Reply, Answered, m
<1>6. CASE BrokerCrash \/ BrokerRestart
  BY <1>6 DEF BrokerCrash, BrokerRestart, wire
<1> QED
  BY <1>1, <1>2, <1>3, <1>4, <1>5, <1>6 DEF BrokerNext

LEMMA BrokerStep ==
    ASSUME Inv, BrokerNext, UNCHANGED <<pending, issued, call, rows, late>>
    PROVE  Inv'
<1> DEFINE m == Head(queue)
<1> HIDE DEF m
<1>0. Typed /\ QueueInv /\ Writing /\ RowsUsable /\ \A c \in Clients : ClientInv(c)
  BY DEF Inv
<1>1. CompleteFilesStay /\ \A k \in DOMAIN files' : files'[k] \in File
  BY BrokerKeepsFiles, FilesTyped
<1>2. \/ queue' = queue /\ reply' = reply
      \/ queue' = <<>> /\ reply' = reply
      \/ \E answer : Answered(m, answer)
  BY BrokerAnswers DEF m
<1>3. awaited' = awaited /\ tries' = tries /\ submitted' = submitted
  BY DEF BrokerNext, CreateExclusive, CreateCompletes, CreateFails, RepeatCreate, Rollback,
         BrokerCrash, BrokerRestart, Reply, wire
<1>4. Typed'
  <2>1. queue' \in Seq(Message) /\ reply' \in [Clients -> ReplyRecord \cup {Nothing}]
    <3>1. queue \in Seq(Message) /\ reply \in [Clients -> ReplyRecord \cup {Nothing}]
      BY <1>0 DEF Typed, DiskTyped, WireTyped
    <3>2. ASSUME NEW answer, Answered(m, answer)
          PROVE  queue' \in Seq(Message) /\ reply' \in [Clients -> ReplyRecord \cup {Nothing}]
      <4>1. queue' = Tail(queue) /\ queue # <<>> /\ answer \in ReplyRecord
        BY <3>2 DEF Answered
      <4>2. reply' = reply \/ reply' = [reply EXCEPT ![m.client] = answer]
        BY <3>2 DEF Answered
      <4> QED
        BY <3>1, <4>1, <4>2
    <3>3. <<>> \in Seq(Message)
      OBVIOUS
    <3>4. CASE reply' = reply /\ (queue' = queue \/ queue' = <<>>)
      BY <3>1, <3>3, <3>4
    <3> QED
      BY <3>2, <3>4, <1>2
  <2> QED
    BY <1>0, <1>1, <1>3, <2>1 DEF Typed, CallTyped, DiskTyped, WireTyped
<1>5. ASSUME NEW c \in Clients PROVE Past(c)' <=> Past(c)
  BY DEF Past, NoRow
<1>6. ASSUME NEW c \in Clients PROVE ClientInv(c)'
  <2>0. ClientInv(c) /\ call'[c] = call[c]
    BY <1>0
  <2>1. Progress(c)' /\ Registration(c)' /\ Asked(c)'
    BY <2>0, <1>3 DEF ClientInv, Progress, Registration, Asked, NoRow, Label
  <2>2. Secrets(c)'
    BY <2>0, <1>1, OwnStays DEF ClientInv, Secrets, Past
  <2>3. Told(c)'
    <3> SUFFICES ASSUME call[c].at = "create", reply'[c] # Nothing, reply'[c].ok
                 PROVE  Own(c, Label(c))'
      BY DEF Told, Label
    <3>0. Label(c)' = Label(c) /\ Label(c) \in Nat
      BY <2>0, LabelsAre, SMTT(30) DEF ClientInv, Progress, Label
    <3>1. CASE reply'[c] = reply[c]
      <4>1. Own(c, Label(c))
        BY <3>1, <2>0 DEF ClientInv, Told
      <4>2. ~Past(c)
        BY DEF Past
      <4> HIDE DEF Own
      <4>3. \A i \in Nat : Own(c, i) => Own(c, i)'
        BY <4>2, <1>1, OwnStays
      <4> QED
        BY <4>1, <4>3, <3>0 DEF Own
    <3>2. CASE reply'[c] # reply[c]
      <4>1. PICK answer : Answered(m, answer)
        BY <1>2, <3>2
      <4>2. awaited[c] = m /\ reply'[c] = answer
        BY <4>1, <3>2, <1>0 DEF Answered, Typed, WireTyped, Message
      <4>3. m # Nothing
        BY <4>1, MessageIsSomething DEF Answered
      <4>4. /\ m.op = <<c, Label(c)>> /\ m.key = call[c].keys[Label(c)]
            /\ m.value = SecretValue(call[c].token, Label(c)) /\ m.action = "create"
        BY <4>2, <4>3, <2>0 DEF ClientInv, Asked
      <4>5. /\ m.key \in DOMAIN files' /\ files'[m.key].complete
            /\ files'[m.key].op = m.op /\ files'[m.key].value = m.value
        BY <4>1, <4>2, <4>4 DEF Answered
      <4> QED
        BY <4>4, <4>5, <3>0 DEF Own
    <3> QED
      BY <3>1, <3>2
  <2> QED
    BY <2>1, <2>2, <2>3 DEF ClientInv
<1>7. QueueInv'
  <2>0. \A i \in DOMAIN queue : queue[i].client \in Clients
    <3>1. \A i \in DOMAIN queue : queue[i] \in Message
      BY <1>0 DEF Typed, DiskTyped
    <3> QED
      BY <3>1 DEF Message
  <2>1. CASE queue' = queue
    BY <2>0, <2>1, <1>0, <1>5 DEF QueueInv
  <2>2. CASE queue' = <<>>
    BY <2>2 DEF QueueInv
  <2>3. CASE queue' = Tail(queue) /\ queue # <<>>
    <3>1. \A i \in DOMAIN queue' : i + 1 \in DOMAIN queue /\ queue'[i] = queue[i + 1]
      BY <2>3, <1>0, HeadOfQueue
    <3> QED
      BY <3>1, <2>0, <1>0, <1>5 DEF QueueInv
  <2> QED
    BY <1>2, <2>1, <2>2, <2>3 DEF Answered
<1>8. Writing'
  <2> SUFFICES ASSUME broker' = "writing" PROVE Writing'
    BY DEF Writing
  <2>1. CreateExclusive
    BY DEF BrokerNext, CreateExclusive, CreateCompletes, CreateFails, RepeatCreate, Rollback,
           BrokerCrash, BrokerRestart, Serving
  <2>2. /\ queue' = queue /\ queue # <<>> /\ m.action = "create"
        /\ files' = With(m.key, [op |-> m.op, receipt |-> <<m.op, m.id>>, value |-> m.value,
                                 complete |-> FALSE])
    BY <2>1 DEF CreateExclusive, Serving, m
  <2> QED
    BY <2>2 DEF Writing, With, m
<1>9. RowsUsable'
  BY <1>0, <1>1, RowsStay
<1> QED
  BY <1>4, <1>6, <1>7, <1>8, <1>9 DEF Inv

(***************************************************************************)
(* Steps of a call.  What one call does to the others, and to the queue    *)
(* and the registry they share.                                            *)
(***************************************************************************)
OthersUntouched(c) ==
    \A d \in Clients \ {c} :
        /\ call'[d] = call[d] /\ awaited'[d] = awaited[d] /\ reply'[d] = reply[d]
        /\ d \in late' <=> d \in late

(* The request of c that a step may add.                                   *)
Requested(c) ==
    \/ queue' = queue
    \/ \E m \in Message :
          /\ queue' = Append(queue, m) /\ m.client = c /\ m.op[1] = c
          /\ m.action = "rollback" => Past(c)'

(* The row of c that a step may add.                                       *)
Registered(c) ==
    \/ rows' = rows
    \/ \E s : /\ rows' = [x \in DOMAIN rows \cup {s} |-> IF x = s THEN Row(c) ELSE rows[x]]
              /\ s \notin DOMAIN rows
              /\ \A i \in Labels(call[c].token) : Own(c, i)

LEMMA StepOf ==
    ASSUME Inv, NEW c \in Clients, files' = files, broker' = broker, Typed',
           OthersUntouched(c), Requested(c), Registered(c), Past(c) => Past(c)', ClientInv(c)'
    PROVE  Inv'
<1>0. Typed /\ QueueInv /\ Writing /\ RowsUsable /\ \A d \in Clients : ClientInv(d)
  BY DEF Inv
<1>1. ASSUME NEW d \in Clients \ {c} PROVE NoRow(d)' <=> NoRow(d)
  <2>1. CASE rows' = rows
    BY <2>1 DEF NoRow
  <2>2. CASE rows' # rows
    <3>1. PICK s : /\ rows' = [x \in DOMAIN rows \cup {s} |-> IF x = s THEN Row(c) ELSE rows[x]]
                   /\ s \notin DOMAIN rows
      BY <2>2 DEF Registered
    <3>2. Row(c).call = c
      BY DEF Row
    <3> QED
      BY <3>1, <3>2 DEF NoRow
  <2> QED
    BY <2>1, <2>2
<1>2. ASSUME NEW d \in Clients \ {c} PROVE ClientInv(d)' /\ (Past(d) => Past(d)')
  <2>1. /\ call'[d] = call[d] /\ awaited'[d] = awaited[d] /\ reply'[d] = reply[d]
        /\ d \in late' <=> d \in late
    BY DEF OthersUntouched
  <2>2. ClientInv(d)
    BY <1>0
  <2>3. Label(d)' = Label(d) /\ \A i : Own(d, i)' <=> Own(d, i)
    BY <2>1 DEF Label, Own, SecretValue
  <2>4. Progress(d)' /\ Registration(d)'
    BY <1>1, <2>1, <2>2, <2>3 DEF ClientInv, Progress, Registration
  <2>5. Secrets(d)' /\ Asked(d)' /\ Told(d)'
    BY <2>1, <2>2, <2>3 DEF ClientInv, Secrets, Asked, Told
  <2> QED
    BY <1>1, <2>1, <2>4, <2>5 DEF ClientInv, Past
<1>3. QueueInv'
  <2>1. queue \in Seq(Message) /\ \A i \in DOMAIN queue : queue[i].client \in Clients
    <3>1. queue \in Seq(Message)
      BY <1>0 DEF Typed, DiskTyped
    <3>2. \A i \in DOMAIN queue : queue[i] \in Message
      BY <3>1
    <3> QED
      BY <3>1, <3>2 DEF Message
  <2>2. ASSUME NEW d \in Clients, Past(d) PROVE Past(d)'
    BY <1>2, <2>2
  <2>3. ASSUME NEW i \in DOMAIN queue' PROVE /\ queue'[i].op[1] = queue'[i].client
                                             /\ queue'[i].action = "rollback" => Past(queue[i].client)'
    <3>1. CASE i \in DOMAIN queue /\ queue'[i] = queue[i]
      BY <1>0, <2>1, <2>2, <3>1 DEF QueueInv
    <3>2. CASE ~(i \in DOMAIN queue /\ queue'[i] = queue[i])
      <4>1. PICK m \in Message : /\ queue' = Append(queue, m) /\ m.client = c /\ m.op[1] = c
                                 /\ m.action = "rollback" => Past(c)'
        BY <3>2 DEF Requested
      <4>2. queue'[i] = m
        BY <2>1, <3>2, <4>1
      <4> QED
        BY <4>1, <4>2
    <3> QED
      BY <3>1, <3>2
  <2> QED
    BY <2>3 DEF QueueInv
<1>4. Writing'
  <2>1. queue # <<>> => queue' # <<>> /\ Head(queue') = Head(queue)
    BY <1>0 DEF Requested, Typed, DiskTyped
  <2> QED
    BY <1>0, <2>1 DEF Writing
<1>5. RowsUsable'
  <2>1. ASSUME NEW s \in DOMAIN rows, rows'[s] = rows[s] PROVE RowUsable(s)'
    BY <1>0, <2>1 DEF RowsUsable, RowUsable, Labels, SecretValue
  <2>2. CASE rows' = rows
    <3>1. ASSUME NEW s \in DOMAIN rows' PROVE RowUsable(s)'
      BY <2>1, <2>2
    <3> QED
      BY <3>1 DEF RowsUsable
  <2>3. CASE rows' # rows
    <3>1. PICK s : /\ rows' = [x \in DOMAIN rows \cup {s} |-> IF x = s THEN Row(c) ELSE rows[x]]
                   /\ s \notin DOMAIN rows
                   /\ \A i \in Labels(call[c].token) : Own(c, i)
      BY <2>3 DEF Registered
    <3>2. /\ rows'[s].call = c /\ rows'[s].token = call[c].token
          /\ rows'[s].keys = call[c].keys
      BY <3>1 DEF Row
    <3>3. RowUsable(s)'
      BY <3>1, <3>2 DEF RowUsable, Own, Labels, SecretValue
    <3>4. ASSUME NEW x \in DOMAIN rows' PROVE RowUsable(x)'
      BY <2>1, <3>1, <3>3
    <3> QED
      BY <3>4 DEF RowsUsable
  <2> QED
    BY <2>2, <2>3
<1> QED
  BY <1>0, <1>2, <1>3, <1>4, <1>5 DEF Inv

(* Where a call goes, with what it has collected.                          *)
Moved(c, at, err, answer) ==
    /\ CallTyped' /\ \A d \in Clients \ {c} : call'[d] = call[d]
    /\ call'[c].at = at /\ call'[c].err = err /\ call'[c].answer = answer
    /\ call'[c].source = call[c].source /\ call'[c].token = call[c].token
    /\ call'[c].keys = call[c].keys /\ call'[c].receipts = call[c].receipts
    /\ call'[c].clean = call[c].clean

LEMMA Moves ==
    ASSUME CallTyped, NEW c \in Clients
    PROVE  /\ \A at \in Points : Goto(c, at) => Moved(c, at, call[c].err, call[c].answer)
           /\ \A answer \in {"created", "failed", "uncertain"} :
                  Answer(c, answer) => Moved(c, "answered", call[c].err, answer)
           /\ \A err \in {"failed", "denied", "uncertain"} :
                  Fail(c, err) => Moved(c, "undo", err, call[c].answer)
<1>0. call[c] \in CallRecord
  BY DEF CallTyped
<1>1. ASSUME NEW at \in Points, Goto(c, at) PROVE Moved(c, at, call[c].err, call[c].answer)
  <2>1. [call[c] EXCEPT !.at = at] \in CallRecord
    BY <1>0 DEF CallRecord
  <2>2. call' = [call EXCEPT ![c] = [call[c] EXCEPT !.at = at]]
    BY <1>1 DEF Goto
  <2>3. call'[c] = [call[c] EXCEPT !.at = at] /\ CallTyped'
        /\ \A d \in Clients \ {c} : call'[d] = call[d]
    BY <2>1, <2>2 DEF CallTyped
  <2> QED
    BY <1>0, <2>3 DEF Moved, CallRecord
<1>2. ASSUME NEW answer \in {"created", "failed", "uncertain"}, Answer(c, answer)
      PROVE  Moved(c, "answered", call[c].err, answer)
  <2>1. [call[c] EXCEPT !.at = "answered", !.answer = answer] \in CallRecord
    BY <1>0 DEF CallRecord, Points
  <2>2. call' = [call EXCEPT ![c] = [call[c] EXCEPT !.at = "answered", !.answer = answer]]
    BY <1>0, <1>2 DEF Answer, CallTyped, CallRecord
  <2>3. call'[c] = [call[c] EXCEPT !.at = "answered", !.answer = answer] /\ CallTyped'
        /\ \A d \in Clients \ {c} : call'[d] = call[d]
    BY <2>1, <2>2 DEF CallTyped
  <2> QED
    BY <1>0, <2>3 DEF Moved, CallRecord
<1>3. ASSUME NEW err \in {"failed", "denied", "uncertain"}, Fail(c, err)
      PROVE  Moved(c, "undo", err, call[c].answer)
  <2>1. [call[c] EXCEPT !.at = "undo", !.err = err] \in CallRecord
    BY <1>0 DEF CallRecord, Points
  <2>2. call' = [call EXCEPT ![c] = [call[c] EXCEPT !.at = "undo", !.err = err]]
    BY <1>0, <1>3 DEF Fail, CallTyped, CallRecord
  <2>3. call'[c] = [call[c] EXCEPT !.at = "undo", !.err = err] /\ CallTyped'
        /\ \A d \in Clients \ {c} : call'[d] = call[d]
    BY <2>1, <2>2 DEF CallTyped
  <2> QED
    BY <1>0, <2>3 DEF Moved, CallRecord
<1> QED
  BY <1>1, <1>2, <1>3

(* A step that moves c and leaves disk and wire alone.                     *)
LEMMA MoveStep ==
    ASSUME Inv, NEW c \in Clients, NEW at, NEW err, NEW answer, Moved(c, at, err, answer),
           UNCHANGED brokerVars, pending' \subseteq Tokens,
           late' = late \/ late' = late \cup {c} \/ late' = late \ {c},
           Registered(c), Past(c) => Past(c)',
           Progress(c)', Registration(c)', Secrets(c)', Asked(c)', Told(c)'
    PROVE  Inv'
<1>0. Typed
  BY DEF Inv
<1>1. Typed'
  BY <1>0 DEF Typed, Moved, DiskTyped, WireTyped, brokerVars, disk, wire
<1>2. OthersUntouched(c) /\ Requested(c) /\ files' = files /\ broker' = broker
  BY DEF OthersUntouched, Requested, Moved, brokerVars, disk, wire
<1>3. ClientInv(c)'
  BY DEF ClientInv
<1> QED
  BY <1>1, <1>2, <1>3, StepOf

LEMMA FindStep ==
    ASSUME Inv, NEW c \in Clients, find(c)
    PROVE  Inv'
<1>0. Typed /\ ClientInv(c) /\ CallTyped /\ call[c] \in CallRecord
  BY DEF Inv, Typed, CallTyped
<1> USE DEF ClientInv, Progress, Registration, Secrets, Asked, Told, NoRow, Past, Label
<1>1. UNCHANGED brokerVars /\ pending' = pending /\ rows' = rows /\ late' = late
  BY DEF find
<1>2. awaited' = awaited /\ reply' = reply /\ call[c].at = "find"
  BY <1>1 DEF find, brokerVars, wire
<1>3. CASE Answer(c, "failed")
  <2>1. Moved(c, "answered", call[c].err, "failed")
    BY <1>0, <1>3, Moves
  <2>2. Progress(c)' /\ Registration(c)' /\ Secrets(c)' /\ Asked(c)' /\ Told(c)'
    BY <1>0, <1>1, <1>2, <2>1 DEF Moved
  <2> QED
    BY <1>0, <1>1, <1>2, <2>1, <2>2, MoveStep DEF Registered, Typed
<1>4. CASE Goto(c, "key")
  <2>1. Moved(c, "key", call[c].err, call[c].answer)
    BY <1>0, <1>4, Moves DEF Points
  <2>2. Progress(c)' /\ Registration(c)' /\ Secrets(c)' /\ Asked(c)' /\ Told(c)'
    BY <1>0, <1>1, <1>2, <2>1, LabelsAre DEF Moved
  <2> QED
    BY <1>0, <1>1, <1>2, <2>1, <2>2, MoveStep DEF Registered, Typed
<1> QED
  BY <1>3, <1>4 DEF find

(* The insert adds a row whose files are all there.                        *)
LEMMA InsertedIsRegistered ==
    ASSUME Inv, NEW c \in Clients, call[c].at = "insert" \/ c \in late, Free(c),
           rows' = Inserted(c)
    PROVE  Registered(c) /\ ~NoRow(c)'
<1>0. Typed /\ ClientInv(c)
  BY DEF Inv
<1>1. \A i \in Labels(call[c].token) : Own(c, i)
  BY <1>0 DEF ClientInv, Progress, Secrets
<1>2. Row(c).call = c
  BY DEF Row
<1>3. /\ rows' = [x \in DOMAIN rows \cup {call[c].source} |->
                     IF x = call[c].source THEN Row(c) ELSE rows[x]]
      /\ call[c].source \notin DOMAIN rows
  BY DEF Inserted, Free
<1> HIDE DEF Row, Own
<1> QED
  BY <1>1, <1>2, <1>3 DEF Registered, NoRow

LEMMA InsertStep ==
    ASSUME Inv, NEW c \in Clients, insert(c)
    PROVE  Inv'
<1>0. Typed /\ ClientInv(c) /\ CallTyped /\ call[c] \in CallRecord
  BY DEF Inv, Typed, CallTyped
<1>1. UNCHANGED brokerVars /\ pending' = pending /\ call[c].at = "insert"
  BY DEF insert
<1>2. files' = files /\ awaited' = awaited /\ reply' = reply
  BY <1>1 DEF brokerVars, disk, wire
<1>3. /\ call[c].token \in Tokens /\ call[c].source \in Sources /\ call[c].answer = "none"
      /\ \A i \in Labels(call[c].token) : i \in 1 .. Len(call[c].receipts)
      /\ Len(call[c].receipts) <= Len(call[c].keys) /\ c \notin late /\ NoRow(c) /\ ~Past(c)
      /\ \A i \in 1 .. Len(call[c].receipts) : Own(c, i)
  BY <1>0, <1>1 DEF ClientInv, Progress, Registration, Secrets, Past
<1>4. CASE Fail(c, "failed") /\ UNCHANGED <<rows, late>>
  <2>1. Moved(c, "undo", "failed", call[c].answer)
    BY <1>0, <1>4, Moves
  <2>2. Progress(c)' /\ Registration(c)' /\ Secrets(c)' /\ Asked(c)' /\ Told(c)'
    BY <1>2, <1>3, <1>4, <2>1 DEF Moved, Progress, Registration, Secrets, Asked, Told, NoRow
  <2> QED
    BY <1>0, <1>1, <1>3, <1>4, <2>1, <2>2, MoveStep DEF Registered, Typed
<1>5. CASE Free(c) /\ rows' = Inserted(c) /\ late' = late /\ Goto(c, "returned")
  <2>1. Moved(c, "returned", call[c].err, call[c].answer)
    BY <1>0, <1>5, Moves DEF Points
  <2>2. Registered(c) /\ ~NoRow(c)'
    BY <1>1, <1>5, InsertedIsRegistered
  <2>3. Progress(c)' /\ Registration(c)' /\ Secrets(c)' /\ Asked(c)' /\ Told(c)'
    BY <1>2, <1>3, <1>5, <2>1, <2>2 DEF Moved, Progress, Registration, Secrets, Asked, Told
  <2> QED
    BY <1>0, <1>1, <1>3, <1>5, <2>1, <2>2, <2>3, MoveStep DEF Typed
<1>6. CASE /\ Goto(c, "reconcile")
           /\ \/ UNCHANGED <<rows, late>>
              \/ Free(c) /\ rows' = Inserted(c) /\ late' = late
              \/ late' = late \cup {c} /\ rows' = rows
  <2>1. Moved(c, "reconcile", call[c].err, call[c].answer)
    BY <1>0, <1>6, Moves DEF Points
  <2>2. Registered(c)
    BY <1>1, <1>6, InsertedIsRegistered DEF Registered
  <2>3. Progress(c)' /\ Registration(c)' /\ Asked(c)' /\ Told(c)'
    BY <1>2, <1>3, <1>6, <2>1 DEF Moved, Progress, Registration, Asked, Told, NoRow, Labels
  <2>4. Secrets(c)'
    BY <1>2, <1>3, <2>1 DEF Moved, Secrets, Own, SecretValue
  <2> QED
    BY <1>0, <1>1, <1>3, <1>6, <2>1, <2>2, <2>3, <2>4, MoveStep DEF Typed
<1> QED
  BY <1>4, <1>5, <1>6 DEF insert, AfterLostAck

LEMMA CommitLateStep ==
    ASSUME Inv, NEW c \in Clients, commit_late(c)
    PROVE  Inv'
<1>0. Typed /\ ClientInv(c) /\ CallTyped /\ call[c] \in CallRecord
  BY DEF Inv, Typed, CallTyped
<1>1. /\ UNCHANGED brokerVars /\ pending' = pending /\ call' = call /\ c \in late
      /\ late' = late \ {c} /\ rows' = IF Free(c) THEN Inserted(c) ELSE rows
  BY DEF commit_late
<1>2. files' = files /\ awaited' = awaited /\ reply' = reply
  BY <1>1 DEF brokerVars, disk, wire
<1>3. Moved(c, call[c].at, call[c].err, call[c].answer)
  BY <1>0, <1>1 DEF Moved, CallTyped
<1>4. /\ call[c].at \in {"reconcile", "answered", "gone"} /\ call[c].answer # "failed" /\ ~Past(c)
      /\ call[c].at # "answered" => call[c].answer = "none"
      /\ call[c].token \in Tokens /\ call[c].source \in Sources
  BY <1>0, <1>1 DEF ClientInv, Progress, Registration, Past
<1>5. Registered(c)
  <2>1. CASE Free(c)
    <3>1. rows' = Inserted(c)
      BY <1>1, <2>1
    <3> QED
      BY <1>1, <2>1, <3>1, InsertedIsRegistered
  <2>2. CASE ~Free(c)
    BY <1>1, <2>2 DEF Registered
  <2> QED
    BY <2>1, <2>2
<1>6. Progress(c)' /\ Registration(c)' /\ Secrets(c)' /\ Asked(c)' /\ Told(c)'
  <2>1. c \notin late' /\ call'[c] = call[c]
    BY <1>1
  <2> QED
    BY <2>1, <1>2, <1>4 DEF Progress, Registration, Secrets, Asked, Told
<1> QED
  BY <1>0, <1>1, <1>3, <1>4, <1>5, <1>6, MoveStep DEF Typed

LEMMA AnswerStep ==
    ASSUME Inv, NEW c \in Clients, returned(c) \/ reconcile(c) \/ undone(c)
    PROVE  Inv'
<1>0. Typed /\ ClientInv(c) /\ CallTyped /\ call[c] \in CallRecord
  BY DEF Inv, Typed, CallTyped
<1>1. UNCHANGED brokerVars /\ pending' = pending /\ rows' = rows /\ late' = late
  BY DEF returned, reconcile, undone
<1>2. files' = files /\ awaited' = awaited /\ reply' = reply
  BY <1>1 DEF brokerVars, disk, wire
<1>3. PICK answer \in {"created", "failed", "uncertain"} :
          /\ Answer(c, answer)
          /\ answer = "failed" => call[c].at = "undo"
  <2>1. CASE returned(c) \/ reconcile(c)
    BY <2>1 DEF returned, reconcile
  <2>2. CASE undone(c)
    <3>1. call[c].at = "undo" /\ call[c].err \in {"failed", "denied", "uncertain"}
      BY <2>2, <1>0 DEF undone, ClientInv, Progress
    <3> QED
      BY <2>2, <3>1 DEF undone, AnswerOf
  <2> QED
    BY <2>1, <2>2
<1>4. call[c].at \in {"returned", "reconcile", "undo"}
  BY DEF returned, reconcile, undone
<1>5. Moved(c, "answered", call[c].err, answer)
  BY <1>0, <1>3, Moves
<1>6. /\ c \in late => /\ call[c].at = "reconcile" /\ NoRow(c)
                       /\ call[c].token \in Tokens /\ call[c].source \in Sources
                       /\ \A i \in Labels(call[c].token) : i \in 1 .. Len(call[c].receipts)
                       /\ \A i \in 1 .. Len(call[c].receipts) : Own(c, i)
      /\ call[c].at = "undo" => c \notin late /\ NoRow(c)
  BY <1>0, <1>4 DEF ClientInv, Progress, Registration, Secrets
<1>7. Progress(c)' /\ Registration(c)' /\ Asked(c)' /\ Told(c)'
  BY <1>1, <1>3, <1>5, <1>6, SMTT(30) DEF Moved, Progress, Registration, Asked, Told, NoRow, Labels
<1>8. Secrets(c)'
  BY <1>1, <1>2, <1>5, <1>6 DEF Moved, Secrets, Own, SecretValue
<1>9. Past(c) => Past(c)'
  BY <1>1, <1>5 DEF Past, Moved, NoRow
<1> QED
  BY <1>0, <1>1, <1>5, <1>7, <1>8, <1>9, MoveStep DEF Typed, Registered

(* A step that changes only what is pending.                               *)
LEMMA PendingStep ==
    ASSUME Inv, UNCHANGED <<brokerVars, call, rows, late>>, pending' \subseteq Tokens
    PROVE  Inv'
<1>0. /\ files' = files /\ queue' = queue /\ broker' = broker /\ awaited' = awaited
      /\ reply' = reply /\ tries' = tries /\ submitted' = submitted
      /\ call' = call /\ rows' = rows /\ late' = late
  BY DEF brokerVars, disk, wire
<1>1. Typed'
  BY <1>0 DEF Inv, Typed, CallTyped, DiskTyped, WireTyped
<1>2. ASSUME NEW c \in Clients PROVE ClientInv(c)'
  <2>0. ClientInv(c)
    BY DEF Inv
  <2>1. Progress(c)' /\ Registration(c)'
    BY <1>0, <2>0 DEF ClientInv, Progress, Registration, NoRow, Label, Labels
  <2>2. Secrets(c)'
    BY <1>0, <2>0, SMTT(30) DEF ClientInv, Secrets, Own, SecretValue
  <2>3. Asked(c)' /\ Told(c)'
    BY <1>0, <2>0 DEF ClientInv, Asked, Told, Own, Label, SecretValue
  <2> QED
    BY <2>1, <2>2, <2>3 DEF ClientInv
<1>3. QueueInv'
  BY <1>0 DEF Inv, QueueInv, Past, NoRow
<1>4. Writing' /\ RowsUsable'
  BY <1>0 DEF Inv, Writing, RowsUsable, RowUsable, Labels, SecretValue
<1> QED
  BY <1>1, <1>2, <1>3, <1>4 DEF Inv

LEMMA RegisterStep ==
    ASSUME Inv, NEW c \in Clients, NEW s \in Sources, NEW t \in Tokens, register(c, s, t)
    PROVE  Inv'
<1>0. Typed /\ ClientInv(c) /\ CallTyped /\ call[c] \in CallRecord
  BY DEF Inv, Typed, CallTyped
<1>1. /\ UNCHANGED brokerVars /\ pending' \subseteq Tokens /\ rows' = rows /\ late' = late
      /\ call[c].at = "idle"
  BY <1>0 DEF register, consume, Typed
<1>2. /\ files' = files /\ queue' = queue /\ broker' = broker /\ awaited' = awaited
      /\ reply' = reply /\ tries' = tries /\ submitted' = submitted
  BY <1>1 DEF brokerVars, disk, wire
<1>3. call[c].keys = <<>> /\ call[c].receipts = <<>> /\ c \notin late /\ NoRow(c) /\ ~Past(c)
      /\ call[c].answer = "none"
  BY <1>0, <1>1 DEF ClientInv, Progress, Registration, Past
<1>4. CASE Answer(c, "failed")
  <2>1. Moved(c, "answered", call[c].err, "failed")
    BY <1>0, <1>4, Moves
  <2>2. Progress(c)' /\ Registration(c)' /\ Secrets(c)' /\ Asked(c)' /\ Told(c)'
    BY <1>1, <1>2, <1>3, <2>1 DEF Moved, Progress, Registration, Secrets, Asked, Told, NoRow
  <2> QED
    BY <1>0, <1>1, <1>3, <2>1, <2>2, MoveStep DEF Registered, Typed
<1>5. CASE call' = [call EXCEPT ![c].at = "find", ![c].source = s, ![c].token = t]
  <2>1. [call[c] EXCEPT !.at = "find", !.source = s, !.token = t] \in CallRecord
    BY <1>0 DEF CallRecord, Points
  <2>2. call' = [call EXCEPT ![c] = [call[c] EXCEPT !.at = "find", !.source = s, !.token = t]]
    BY <1>0, <1>5 DEF CallTyped, CallRecord
  <2>3. /\ call'[c] = [call[c] EXCEPT !.at = "find", !.source = s, !.token = t] /\ CallTyped'
        /\ \A d \in Clients \ {c} : call'[d] = call[d]
    BY <2>1, <2>2, <1>0 DEF CallTyped
  <2>4. /\ call'[c].at = "find" /\ call'[c].source = s /\ call'[c].token = t
        /\ call'[c].keys = <<>> /\ call'[c].receipts = <<>> /\ call'[c].answer = "none"
    BY <1>0, <1>3, <2>3 DEF CallRecord
  <2>5. ClientInv(c)'
    BY <1>1, <1>2, <1>3, <2>4
    DEF ClientInv, Progress, Registration, Secrets, Asked, Told, NoRow
  <2>6. Typed'
    BY <1>0, <1>1, <1>2, <2>3 DEF Typed, DiskTyped, WireTyped
  <2>7. OthersUntouched(c) /\ Requested(c) /\ Registered(c)
    BY <1>1, <1>2, <2>3 DEF OthersUntouched, Requested, Registered
  <2> QED
    BY <1>2, <1>3, <2>5, <2>6, <2>7, StepOf
<1> QED
  BY <1>4, <1>5 DEF register

(* A new request: nothing awaited, nothing answered.                       *)
LEMMA FreshTyped ==
    ASSUME WireTyped, NEW c \in Clients, Fresh(c)
    PROVE  /\ WireTyped' /\ awaited'[c] = Nothing /\ reply'[c] = Nothing
           /\ \A d \in Clients \ {c} : awaited'[d] = awaited[d] /\ reply'[d] = reply[d]
BY DEF WireTyped, Fresh

LEMMA DrawKeyStep ==
    ASSUME Inv, NEW c \in Clients, NEW key \in Keys, draw_key(c, key)
    PROVE  Inv'
<1>0. Typed /\ ClientInv(c) /\ CallTyped /\ WireTyped /\ call[c] \in CallRecord
  BY DEF Inv, Typed, CallTyped
<1>1. /\ files' = files /\ queue' = queue /\ broker' = broker /\ pending' = pending
      /\ rows' = rows /\ late' = late /\ call[c].at = "key" /\ Fresh(c)
  BY DEF draw_key, disk
<1>2. /\ WireTyped' /\ awaited'[c] = Nothing /\ reply'[c] = Nothing
      /\ \A d \in Clients \ {c} : awaited'[d] = awaited[d] /\ reply'[d] = reply[d]
  BY <1>0, <1>1, FreshTyped
<1>3. /\ c \notin late /\ NoRow(c) /\ ~Past(c) /\ call[c].answer = "none"
      /\ call[c].token \in Tokens /\ call[c].source \in Sources
      /\ Len(call[c].keys) = Len(call[c].receipts) /\ Label(c) \in Labels(call[c].token)
      /\ \A i \in 1 .. Len(call[c].receipts) : Own(c, i)
  BY <1>0, <1>1 DEF ClientInv, Progress, Registration, Past, Secrets
<1>4. call[c].keys \in Seq(Keys) /\ call[c].receipts \in Seq(Receipt)
  BY <1>0 DEF CallRecord
<1>5. /\ Append(call[c].keys, key) \in Seq(Keys)
      /\ Len(Append(call[c].keys, key)) = Len(call[c].receipts) + 1
      /\ \A i \in 1 .. Len(call[c].receipts) : Append(call[c].keys, key)[i] = call[c].keys[i]
  BY <1>3, <1>4
<1> DEFINE r == [call[c] EXCEPT !.at = "create", !.keys = Append(call[c].keys, key)]
<1>6. r \in CallRecord
  BY <1>0, <1>5 DEF CallRecord, Points
<1>7. call' = [call EXCEPT ![c] = r]
  BY <1>0 DEF draw_key, CallTyped, CallRecord
<1>8. call'[c] = r /\ CallTyped' /\ \A d \in Clients \ {c} : call'[d] = call[d]
  BY <1>0, <1>6, <1>7 DEF CallTyped
<1>9. /\ call'[c].at = "create" /\ call'[c].keys = Append(call[c].keys, key)
      /\ call'[c].receipts = call[c].receipts /\ call'[c].answer = "none"
      /\ call'[c].token = call[c].token /\ call'[c].source = call[c].source
  BY <1>0, <1>3, <1>8 DEF CallRecord
<1>10. Progress(c)' /\ Registration(c)' /\ Asked(c)' /\ Told(c)'
  BY <1>1, <1>2, <1>3, <1>5, <1>9, SMTT(30)
  DEF Progress, Registration, Asked, Told, NoRow, Label, Labels
<1>11. Secrets(c)'
  BY <1>1, <1>3, <1>5, <1>9 DEF Secrets, Own, SecretValue
<1>12. Typed'
  BY <1>0, <1>1, <1>2, <1>8 DEF Typed, DiskTyped
<1>13. OthersUntouched(c) /\ Requested(c) /\ Registered(c)
  BY <1>1, <1>2, <1>8 DEF OthersUntouched, Requested, Registered
<1> QED
  BY <1>1, <1>3, <1>10, <1>11, <1>12, <1>13, StepOf DEF ClientInv

(* A request is sent, once the message is known to be one.                 *)
LEMMA SendTyped ==
    ASSUME Typed, NEW c \in Clients, NEW m \in Message, Send(c, m)
    PROVE  /\ WireTyped' /\ queue' \in Seq(Message) /\ files' = files /\ broker' = broker
           /\ reply' = reply /\ (awaited'[c] = awaited[c] \/ awaited'[c] = m)
           /\ \A d \in Clients \ {c} : awaited'[d] = awaited[d]
           /\ queue' = queue \/ queue' = Append(queue, m)
<1>1. queue \in Seq(Message) /\ WireTyped
  BY DEF Typed, DiskTyped
<1>2. CASE broker = "down"
  BY <1>1, <1>2 DEF Send, WireTyped
<1>3. CASE broker # "down"
  <2>1. /\ queue' = Append(queue, m) /\ awaited' = [awaited EXCEPT ![c] = m]
        /\ tries' = [tries EXCEPT ![c] = @ + 1]
        /\ submitted' = [submitted EXCEPT ![c] = TRUE] /\ UNCHANGED <<files, broker, reply>>
    BY <1>3 DEF Send
  <2>2. WireTyped'
    BY <1>1, <2>1 DEF WireTyped
  <2> QED
    BY <1>1, <2>1, <2>2 DEF WireTyped
<1> QED
  BY <1>2, <1>3

LEMMA CreateSendStep ==
    ASSUME Inv, NEW c \in Clients, create_send(c)
    PROVE  Inv'
<1> DEFINE m == CreateRequest(c, <<c, Label(c)>>, tries[c] + 1, call[c].keys[Label(c)],
                              SecretValue(call[c].token, Label(c)))
<1>0. Typed /\ ClientInv(c) /\ CallTyped /\ WireTyped /\ call[c] \in CallRecord
  BY DEF Inv, Typed, CallTyped
<1>1. /\ Send(c, m) /\ pending' = pending /\ call' = call /\ rows' = rows /\ late' = late
      /\ call[c].at = "create"
  BY DEF create_send
<1>2. /\ call[c].token \in Tokens /\ Len(call[c].keys) = Label(c)
      /\ Label(c) \in Labels(call[c].token) /\ ~Past(c) /\ c \notin late
  BY <1>0, <1>1 DEF ClientInv, Progress, Past, Registration
<1>3. Label(c) \in Nat \ {0}
  BY <1>2, LabelsAre
<1>4. call[c].keys[Label(c)] \in Keys
  <2>1. call[c].keys \in Seq(Keys)
    BY <1>0 DEF CallRecord
  <2> QED
    BY <1>2, <1>3, <2>1
<1>5. tries[c] + 1 \in Nat
  BY <1>0 DEF WireTyped
<1>6. m \in Message
  BY <1>2, <1>3, <1>4, <1>5 DEF CreateRequest, Message, Value, SecretValue, Receipt
<1>7. /\ m.op = <<c, Label(c)>> /\ m.key = call[c].keys[Label(c)] /\ m.client = c
      /\ m.value = SecretValue(call[c].token, Label(c)) /\ m.action = "create"
  BY DEF CreateRequest
<1> HIDE DEF m
<1>8. /\ WireTyped' /\ queue' \in Seq(Message) /\ files' = files /\ broker' = broker
      /\ reply' = reply /\ (awaited'[c] = awaited[c] \/ awaited'[c] = m)
      /\ \A d \in Clients \ {c} : awaited'[d] = awaited[d]
      /\ queue' = queue \/ queue' = Append(queue, m)
  BY <1>0, <1>1, <1>6, SendTyped
<1>9. Label(c)' = Label(c) /\ \A i : Own(c, i)' <=> Own(c, i)
  BY <1>1, <1>8 DEF Label, Own, SecretValue
<1>10. Progress(c)' /\ Registration(c)'
  BY <1>0, <1>1, <1>9 DEF ClientInv, Progress, Registration, NoRow, Labels
<1>11. Secrets(c)' /\ Told(c)'
  BY <1>0, <1>1, <1>8, <1>9 DEF ClientInv, Secrets, Told
<1>12. Asked(c)'
  BY <1>0, <1>1, <1>7, <1>8, <1>9 DEF ClientInv, Asked, SecretValue
<1>13. Typed'
  BY <1>0, <1>1, <1>8 DEF Typed, DiskTyped, CallTyped
<1>14. m.op[1] = c
  BY <1>7
<1>15. OthersUntouched(c) /\ Requested(c) /\ Registered(c)
  BY <1>1, <1>6, <1>7, <1>8, <1>14 DEF OthersUntouched, Requested, Registered
<1> QED
  BY <1>2, <1>8, <1>10, <1>11, <1>12, <1>13, <1>15, StepOf DEF ClientInv

LEMMA UndoSendStep ==
    ASSUME Inv, NEW c \in Clients, undo_send(c)
    PROVE  Inv'
<1> DEFINE n == Len(call[c].receipts)
           m == RollbackRequest(c, <<c, n>>, tries[c] + 1, call[c].keys[n], call[c].receipts[n])
<1>0. Typed /\ ClientInv(c) /\ CallTyped /\ WireTyped /\ call[c] \in CallRecord
  BY DEF Inv, Typed, CallTyped
<1>1. /\ Send(c, m) /\ pending' = pending /\ call' = call /\ rows' = rows /\ late' = late
      /\ call[c].at = "undo" /\ n > 0
  BY DEF undo_send
<1>2. n <= Len(call[c].keys) /\ c \notin late /\ NoRow(c)
  BY <1>0, <1>1 DEF ClientInv, Progress, Registration
<1>3. /\ n \in Nat /\ call[c].keys[n] \in Keys /\ call[c].receipts[n] \in Receipt
  <2>1. call[c].keys \in Seq(Keys) /\ call[c].receipts \in Seq(Receipt)
    BY <1>0 DEF CallRecord
  <2> QED
    BY <1>1, <1>2, <2>1
<1>4. tries[c] + 1 \in Nat
  BY <1>0 DEF WireTyped
<1>5. m \in Message
  BY <1>3, <1>4 DEF RollbackRequest, Message, Value
<1>6. m.op[1] = c /\ m.client = c
  BY DEF RollbackRequest
<1> HIDE DEF m
<1>7. /\ WireTyped' /\ queue' \in Seq(Message) /\ files' = files /\ broker' = broker
      /\ reply' = reply /\ \A d \in Clients \ {c} : awaited'[d] = awaited[d]
      /\ queue' = queue \/ queue' = Append(queue, m)
  BY <1>0, <1>1, <1>5, SendTyped
<1>8. Past(c)'
  BY <1>1, <1>2 DEF Past, NoRow
<1>9. ClientInv(c)'
  BY <1>0, <1>1 DEF ClientInv, Progress, Registration, NoRow, Secrets, Asked, Told
<1>10. Typed'
  BY <1>0, <1>1, <1>7 DEF Typed, DiskTyped, CallTyped
<1>11. OthersUntouched(c) /\ Requested(c) /\ Registered(c)
  BY <1>1, <1>5, <1>6, <1>7, <1>8 DEF OthersUntouched, Requested, Registered
<1> QED
  BY <1>7, <1>8, <1>9, <1>10, <1>11, StepOf

LEMMA WaitEndsStep ==
    ASSUME Inv, NEW c \in Clients, wait_ends(c)
    PROVE  Inv'
<1>0. Typed /\ ClientInv(c) /\ CallTyped /\ WireTyped
  BY DEF Inv, Typed
<1>1. /\ files' = files /\ queue' = queue /\ broker' = broker /\ reply' = reply
      /\ tries' = tries /\ submitted' = submitted
      /\ pending' = pending /\ call' = call /\ rows' = rows /\ late' = late
      /\ awaited' = [awaited EXCEPT ![c] = Nothing]
  BY DEF wait_ends, GiveUp, disk
<1>2. /\ WireTyped' /\ awaited'[c] = Nothing
      /\ \A d \in Clients \ {c} : awaited'[d] = awaited[d]
  BY <1>0, <1>1 DEF WireTyped
<1>3. Label(c)' = Label(c) /\ \A i : Own(c, i)' <=> Own(c, i)
  BY <1>1 DEF Label, Own, SecretValue
<1>4. Progress(c)' /\ Registration(c)' /\ (Past(c) => Past(c)')
  BY <1>0, <1>1, <1>3 DEF ClientInv, Progress, Registration, NoRow, Labels, Past
<1>5. Secrets(c)' /\ Told(c)' /\ Asked(c)'
  BY <1>0, <1>1, <1>2, <1>3 DEF ClientInv, Secrets, Told, Asked
<1>6. Typed'
  BY <1>0, <1>1, <1>2 DEF Typed, DiskTyped, CallTyped
<1>7. OthersUntouched(c) /\ Requested(c) /\ Registered(c)
  BY <1>1, <1>2 DEF OthersUntouched, Requested, Registered
<1> QED
  BY <1>1, <1>4, <1>5, <1>6, <1>7, StepOf DEF ClientInv

LEMMA RefusalHasCode ==
    ASSUME WireTyped, NEW c \in Clients, reply[c] # Nothing, ~reply[c].ok
    PROVE  reply[c].code \in {"failed", "denied", "uncertain"}
BY DEF WireTyped, ReplyRecord

LEMMA CreateDoneStep ==
    ASSUME Inv, NEW c \in Clients, create_done(c)
    PROVE  Inv'
<1>0. Typed /\ ClientInv(c) /\ CallTyped /\ WireTyped /\ call[c] \in CallRecord
  BY DEF Inv, Typed, CallTyped
<1>1. /\ files' = files /\ queue' = queue /\ broker' = broker /\ pending' = pending
      /\ rows' = rows /\ late' = late /\ call[c].at = "create" /\ Fresh(c)
  BY DEF create_done, disk
<1>2. /\ WireTyped' /\ awaited'[c] = Nothing /\ reply'[c] = Nothing
      /\ \A d \in Clients \ {c} : awaited'[d] = awaited[d] /\ reply'[d] = reply[d]
  BY <1>0, <1>1, FreshTyped
<1>3. /\ c \notin late /\ NoRow(c) /\ ~Past(c) /\ call[c].answer = "none"
      /\ call[c].token \in Tokens /\ call[c].source \in Sources
      /\ Len(call[c].keys) = Label(c) /\ Label(c) \in Labels(call[c].token)
      /\ \A i \in 1 .. Len(call[c].receipts) : Own(c, i)
  BY <1>0, <1>1 DEF ClientInv, Progress, Registration, Past, Secrets
<1>4. call[c].keys \in Seq(Keys) /\ call[c].receipts \in Seq(Receipt)
  BY <1>0 DEF CallRecord
<1>5. CASE /\ reply[c] # Nothing /\ reply[c].ok
           /\ call' = [call EXCEPT ![c].receipts = Append(@, reply[c].receipt),
                                   ![c].at = IF Label(c) \in Labels(call[c].token)
                                                /\ Label(c) + 1 \in Labels(call[c].token)
                                             THEN "key" ELSE "insert"]
  <2> DEFINE at == IF Label(c) + 1 \in Labels(call[c].token) THEN "key" ELSE "insert"
             rs == Append(call[c].receipts, reply[c].receipt)
             r == [call[c] EXCEPT !.receipts = rs, !.at = at]
  <2>1. Own(c, Label(c))
    BY <1>0, <1>1, <1>5 DEF ClientInv, Told
  <2>2. reply[c].receipt \in Receipt
    BY <1>0, <1>5 DEF WireTyped, ReplyRecord
  <2>3. rs \in Seq(Receipt) /\ Len(rs) = Label(c)
    BY <1>4, <2>2 DEF Label
  <2>4. r \in CallRecord
    BY <1>0, <2>3 DEF CallRecord, Points
  <2>5. call' = [call EXCEPT ![c] = r]
    BY <1>0, <1>3, <1>5 DEF CallTyped, CallRecord
  <2>6. call'[c] = r /\ CallTyped' /\ \A d \in Clients \ {c} : call'[d] = call[d]
    BY <1>0, <2>4, <2>5 DEF CallTyped
  <2>7. /\ call'[c].at = at /\ call'[c].keys = call[c].keys
        /\ call'[c].receipts = rs /\ call'[c].answer = "none"
        /\ call'[c].token = call[c].token /\ call'[c].source = call[c].source
    BY <1>0, <1>3, <2>6 DEF CallRecord
  <2>8. \A i \in 1 .. Len(rs) : Own(c, i)'
    <3>1. \A i \in 1 .. Len(rs) : i \in 1 .. Len(call[c].receipts) \/ i = Label(c)
      BY <1>4, <2>3 DEF Label
    <3>2. \A i : Own(c, i) => Own(c, i)'
      BY <1>1, <2>7 DEF Own, SecretValue
    <3> QED
      BY <1>3, <2>1, <3>1, <3>2
  <2>9. Progress(c)'
    <3>1. Label(c)' = Label(c) + 1
      BY <2>3, <2>7 DEF Label
    <3>2. Label(c) \in {1, 2}
      BY <1>3, LabelsAre
    <3> HIDE DEF rs
    <3>3. CASE Label(c) + 1 \in Labels(call[c].token)
      BY <1>3, <1>1, <2>3, <2>7, <3>1, <3>3 DEF Progress, Labels
    <3>4. CASE Label(c) + 1 \notin Labels(call[c].token)
      <4>1. \A i \in Labels(call[c].token) : i \in 1 .. Label(c)
        BY <1>3, <3>2, <3>4 DEF Labels
      <4> QED
        BY <1>3, <1>1, <2>3, <2>7, <3>1, <3>4, <4>1 DEF Progress, Labels
    <3> QED
      BY <3>3, <3>4
  <2>10. Registration(c)' /\ Asked(c)' /\ Told(c)'
    BY <1>1, <1>2, <1>3, <2>7 DEF Registration, Asked, Told, NoRow
  <2>11. Secrets(c)'
    BY <2>7, <2>8 DEF Secrets
  <2>12. Typed'
    BY <1>0, <1>1, <1>2, <2>6 DEF Typed, DiskTyped
  <2>13. OthersUntouched(c) /\ Requested(c) /\ Registered(c)
    BY <1>1, <1>2, <2>6 DEF OthersUntouched, Requested, Registered
  <2> QED
    BY <1>1, <1>3, <2>9, <2>10, <2>11, <2>12, <2>13, StepOf DEF ClientInv
<1>6. CASE \E err \in {"failed", "denied", "uncertain"} : Fail(c, err)
  <2>1. PICK err \in {"failed", "denied", "uncertain"} : Fail(c, err)
    BY <1>6
  <2>2. Moved(c, "undo", err, call[c].answer)
    BY <1>0, <2>1, Moves
  <2>3. Len(call[c].receipts) <= Len(call[c].keys)
    BY <1>3, <1>4 DEF Label
  <2>4. ClientInv(c)'
    BY <1>1, <1>2, <1>3, <2>2, <2>3
    DEF ClientInv, Moved, Progress, Registration, Secrets, Asked, Told, NoRow
  <2>5. Typed'
    BY <1>0, <1>1, <1>2, <2>2 DEF Typed, DiskTyped, Moved
  <2>6. OthersUntouched(c) /\ Requested(c) /\ Registered(c)
    BY <1>1, <1>2, <2>2 DEF OthersUntouched, Requested, Registered, Moved
  <2> QED
    BY <1>1, <1>3, <2>4, <2>5, <2>6, StepOf
<1> QED
  BY <1>0, <1>5, <1>6, RefusalHasCode DEF create_done, CodeWhenExhausted, Typed

LEMMA UndoDoneStep ==
    ASSUME Inv, NEW c \in Clients, undo_done(c)
    PROVE  Inv'
<1>0. Typed /\ ClientInv(c) /\ CallTyped /\ WireTyped /\ call[c] \in CallRecord
  BY DEF Inv, Typed, CallTyped
<1>1. /\ files' = files /\ queue' = queue /\ broker' = broker /\ pending' = pending
      /\ rows' = rows /\ late' = late /\ call[c].at = "undo" /\ Fresh(c)
      /\ call[c].receipts # <<>>
  BY DEF undo_done, disk
<1>2. /\ WireTyped' /\ awaited'[c] = Nothing /\ reply'[c] = Nothing
      /\ \A d \in Clients \ {c} : awaited'[d] = awaited[d] /\ reply'[d] = reply[d]
  BY <1>0, <1>1, FreshTyped
<1>3. /\ c \notin late /\ NoRow(c) /\ call[c].answer = "none"
      /\ Len(call[c].receipts) <= Len(call[c].keys) /\ call[c].err \in {"failed", "denied", "uncertain"}
  BY <1>0, <1>1 DEF ClientInv, Progress, Registration
<1> DEFINE rs == SubSeq(call[c].receipts, 1, Len(call[c].receipts) - 1)
           clean == call[c].clean /\ reply[c] # Nothing /\ reply[c].ok
           r == [call[c] EXCEPT !.receipts = rs, !.clean = clean]
<1>4. rs \in Seq(Receipt) /\ Len(rs) <= Len(call[c].keys)
  <2>1. call[c].keys \in Seq(Keys) /\ call[c].receipts \in Seq(Receipt)
    BY <1>0 DEF CallRecord
  <2> QED
    BY <1>1, <1>3, <2>1
<1>5. clean \in BOOLEAN
  OBVIOUS
<1>6. r \in CallRecord
  BY <1>0, <1>4, <1>5 DEF CallRecord
<1>7. call' = [call EXCEPT ![c] = r]
  BY <1>0 DEF undo_done, CallTyped, CallRecord
<1>8. call'[c] = r /\ CallTyped' /\ \A d \in Clients \ {c} : call'[d] = call[d]
  BY <1>0, <1>6, <1>7 DEF CallTyped
<1>9. /\ call'[c].at = "undo" /\ call'[c].keys = call[c].keys /\ call'[c].receipts = rs
      /\ call'[c].answer = "none" /\ call'[c].err = call[c].err
  BY <1>0, <1>1, <1>3, <1>8 DEF CallRecord
<1>10. ClientInv(c)' /\ Past(c)'
  BY <1>1, <1>2, <1>3, <1>4, <1>9
  DEF ClientInv, Progress, Registration, Secrets, Asked, Told, NoRow, Past
<1>11. Typed'
  BY <1>0, <1>1, <1>2, <1>8 DEF Typed, DiskTyped
<1>12. OthersUntouched(c) /\ Requested(c) /\ Registered(c)
  BY <1>1, <1>2, <1>8 DEF OthersUntouched, Requested, Registered
<1> QED
  BY <1>1, <1>10, <1>11, <1>12, StepOf

(* The process dies: calls that were under way are gone, and with them     *)
(* only what they might still have asked for.                              *)
LEMMA ApiCrashStep ==
    ASSUME Inv, ApiCrash
    PROVE  Inv'
<1>0. Typed /\ QueueInv /\ Writing /\ RowsUsable /\ \A c \in Clients : ClientInv(c)
  BY DEF Inv
<1>1. /\ files' = files /\ queue' = queue /\ broker' = broker /\ tries' = tries
      /\ submitted' = submitted /\ rows' = rows /\ late' = late /\ pending' = {}
      /\ awaited' = [c \in Clients |-> Nothing] /\ reply' = [c \in Clients |-> Nothing]
  BY DEF ApiCrash, disk
<1>2. ASSUME NEW c \in Clients
      PROVE  /\ call'[c] \in CallRecord /\ call'[c].keys = call[c].keys
             /\ call'[c].token = call[c].token /\ call'[c].receipts = call[c].receipts
             /\ call'[c].source = call[c].source /\ call'[c].answer = call[c].answer
             /\ IF Active(c) THEN call'[c].at = "gone" ELSE call'[c].at = call[c].at
  <2>1. call[c] \in CallRecord
    BY <1>0 DEF Typed, CallTyped
  <2>2. call'[c] = IF Active(c) THEN [call[c] EXCEPT !.at = "gone"] ELSE call[c]
    BY DEF ApiCrash
  <2> QED
    BY <2>1, <2>2 DEF CallRecord, Points
<1>3. Typed'
  <2>1. CallTyped'
    BY <1>2 DEF ApiCrash, CallTyped
  <2>2. WireTyped'
    BY <1>0, <1>1 DEF Typed, WireTyped
  <2> QED
    BY <1>0, <1>1, <2>1, <2>2 DEF Typed, DiskTyped
<1>4. ASSUME NEW c \in Clients PROVE ClientInv(c)' /\ (Past(c) => Past(c)')
  <2>0. ClientInv(c)
    BY <1>0
  <2>1. call'[c].at \in {"idle", "answered", "gone"}
    BY <1>2 DEF Active
  <2>2. call'[c].at # "gone" => call'[c].at = call[c].at
    BY <1>2
  <2>3. Progress(c)'
    BY <1>1, <1>2, <2>0, <2>1, <2>2 DEF ClientInv, Progress, Active, Labels
  <2>4. Registration(c)' /\ Asked(c)' /\ Told(c)'
    BY <1>1, <1>2, <2>0, <2>1, <2>2 DEF ClientInv, Registration, Asked, Told, NoRow
  <2>5. Secrets(c)'
    <3>1. \A i : Own(c, i)' <=> Own(c, i)
      BY <1>1, <1>2 DEF Own, SecretValue
    <3> QED
      BY <1>1, <1>2, <2>0, <2>1, <3>1 DEF ClientInv, Secrets
  <2>6. Past(c) => Past(c)'
    BY <1>1, <1>2 DEF Past, NoRow
  <2> QED
    BY <2>3, <2>4, <2>5, <2>6 DEF ClientInv
<1>5. QueueInv'
  <2>1. \A i \in DOMAIN queue : queue[i].client \in Clients
    <3>1. \A i \in DOMAIN queue : queue[i] \in Message
      BY <1>0 DEF Typed, DiskTyped
    <3> QED
      BY <3>1 DEF Message
  <2> QED
    BY <1>0, <1>1, <1>4, <2>1 DEF QueueInv
<1>6. Writing' /\ RowsUsable'
  BY <1>0, <1>1 DEF Writing, RowsUsable, RowUsable, Labels, SecretValue
<1> QED
  BY <1>3, <1>4, <1>5, <1>6 DEF Inv

(***************************************************************************)
(* The invariant is inductive.                                             *)
(***************************************************************************)
LEMMA NextInv == Inv /\ [Next]_vars => Inv'
<1> SUFFICES ASSUME Inv, [Next]_vars PROVE Inv'
  OBVIOUS
<1>0. pending \subseteq Tokens
  BY DEF Inv, Typed
<1>1. CASE UNCHANGED vars
  BY <1>0, <1>1, PendingStep DEF vars
<1>2. ASSUME NEW t \in Tokens, test_connection(t) \/ expire_or_cancel(t) PROVE Inv'
  <2>1. UNCHANGED <<brokerVars, call, rows, late>> /\ pending' \subseteq Tokens
    BY <1>0, <1>2 DEF test_connection, expire_or_cancel
  <2> QED
    BY <2>1, PendingStep
<1>3. ASSUME NEW c \in Clients, NEW s \in Sources, NEW t \in Tokens, register(c, s, t) PROVE Inv'
  BY <1>3, RegisterStep
<1>4. ASSUME NEW c \in Clients, CallStep(c) PROVE Inv'
  BY <1>4, FindStep, DrawKeyStep, CreateSendStep, WaitEndsStep, CreateDoneStep, InsertStep,
     AnswerStep, UndoSendStep, UndoDoneStep DEF CallStep
<1>5. ASSUME NEW c \in Clients, commit_late(c) PROVE Inv'
  BY <1>5, CommitLateStep
<1>6. CASE BrokerNext /\ UNCHANGED <<pending, issued, call, rows, late>>
  BY <1>6, BrokerStep
<1>7. CASE ApiCrash
  BY <1>7, ApiCrashStep
<1> QED
  BY <1>1, <1>2, <1>3, <1>4, <1>5, <1>6, <1>7 DEF Next

LEMMA Invariance == Spec => []Inv
BY InitInv, NextInv, PTL DEF Spec

(* Only the broker touches the secret directory.                           *)
LEMMA FilesOfOthers ==
    ASSUME [Next]_vars
    PROVE  files' = files \/ BrokerNext
BY ZenonT(60) DEF Next, vars, brokerVars, disk, test_connection, expire_or_cancel, register, CallStep, find,
       draw_key, create_send, wait_ends, create_done, insert, returned, reconcile, undo_send,
       undo_done, undone, commit_late, ApiCrash, Send, GiveUp

(***************************************************************************)
(* Completed secrets are write-once: secret_broker.py creates exclusively, *)
(* replays only the same attempt, and removes a file only for the call     *)
(* that created it, and onboarding.py asks for that only while the call is *)
(* not, and can no longer be, registered.                                  *)
(***************************************************************************)
THEOREM WriteOnce == Spec => SecretsAreWriteOnce
<1> DEFINE A == \A k \in DOMAIN files : files[k].complete =>
                    \/ k \in DOMAIN files' /\ files'[k] = files[k]
                    \/ /\ k \notin DOMAIN files'
                       /\ \A s \in DOMAIN rows : rows[s].call # files[k].op[1]
<1>1. Inv /\ [Next]_vars => [A]_vars
  <2> SUFFICES ASSUME Inv, [Next]_vars PROVE A
    OBVIOUS
  <2>1. CASE files' = files
    BY <2>1
  <2>2. CASE BrokerNext
    BY <2>2, BrokerKeepsFiles DEF CompleteFilesStay, Kept, Undone, Past, NoRow
  <2> QED
    BY <2>1, <2>2, FilesOfOthers
<1> QED
  BY <1>1, Invariance, PTL DEF Spec, SecretsAreWriteOnce

(***************************************************************************)
(* The refinement.  Every row is usable, so the abstract registry is the   *)
(* registry; an insert, in time or late, is Register, an answer is Tell,   *)
(* and everything else is hidden.                                          *)
(***************************************************************************)
Mapped == [s \in DOMAIN rows |-> IF Usable(rows[s]) THEN rows[s].call ELSE "unusable"]

LEMMA MappedIs ==
    ASSUME Inv
    PROVE  Mapped = [s \in DOMAIN rows |-> rows[s].call]
<1>1. \A s \in DOMAIN rows : Usable(rows[s])
  BY DEF Inv, RowsUsable, RowUsable, Usable
<1> QED
  BY <1>1 DEF Mapped

(* What a step does to the registry and to the answers.                    *)
Registers(c) ==
    /\ call[c].source \in Sources /\ call[c].source \notin DOMAIN rows /\ NoRow(c)
    /\ call[c].answer # "failed" /\ rows' = Inserted(c)
    /\ \A d \in Clients : call'[d].answer = call[d].answer

Tells(c, answer) ==
    /\ call[c].answer = "none" /\ rows' = rows
    /\ answer = "created" => ~NoRow(c)
    /\ answer = "failed" => NoRow(c)
    /\ \A d \in Clients : call'[d].answer = IF d = c THEN answer ELSE call[d].answer

Hidden == rows' = rows /\ \A d \in Clients : call'[d].answer = call[d].answer

LEMMA MovedAnswers ==
    ASSUME NEW c \in Clients, NEW at, NEW err, NEW answer, Moved(c, at, err, answer)
    PROVE  \A d \in Clients : call'[d].answer = IF d = c THEN answer ELSE call[d].answer
BY DEF Moved

LEMMA CallStepIs ==
    ASSUME Inv, NEW c \in Clients, CallStep(c)
    PROVE  Hidden \/ Registers(c) \/ \E answer \in {"created", "failed", "uncertain"} : Tells(c, answer)
<1>0. ClientInv(c) /\ CallTyped /\ call[c] \in CallRecord
  BY DEF Inv, Typed, CallTyped
<1>1. CASE find(c)
  <2>1. /\ rows' = rows /\ call[c].at = "find" /\ NoRow(c) /\ call[c].answer = "none"
        /\ Answer(c, "failed") \/ Goto(c, "key")
    BY <1>0, <1>1 DEF find, ClientInv, Registration, Progress
  <2>2. CASE Answer(c, "failed")
    BY <1>0, <2>1, <2>2, Moves, MovedAnswers DEF Tells
  <2>3. CASE Goto(c, "key")
    BY <1>0, <2>1, <2>3, Moves, MovedAnswers DEF Hidden, Points
  <2> QED
    BY <2>1, <2>2, <2>3
<1>2. ASSUME NEW r, call' = [call EXCEPT ![c] = r], r.answer = call[c].answer, rows' = rows
      PROVE  Hidden
  BY <1>0, <1>2 DEF Hidden, CallTyped
<1>9. CASE \E key \in Keys : draw_key(c, key)
  <2>1. PICK key \in Keys : draw_key(c, key)
    BY <1>9
  <2> DEFINE r == [call[c] EXCEPT !.at = "create", !.keys = Append(call[c].keys, key)]
  <2>2. call' = [call EXCEPT ![c] = r] /\ rows' = rows
    BY <1>0, <2>1 DEF draw_key, CallTyped, CallRecord
  <2>3. r.answer = call[c].answer
    BY <1>0 DEF CallRecord
  <2> QED
    BY <1>2, <2>2, <2>3
<1>10. CASE undo_done(c)
  <2> DEFINE r == [call[c] EXCEPT
                      !.receipts = SubSeq(call[c].receipts, 1, Len(call[c].receipts) - 1),
                      !.clean = call[c].clean /\ reply[c] # Nothing /\ reply[c].ok]
  <2>2. call' = [call EXCEPT ![c] = r] /\ rows' = rows
    BY <1>0, <1>10 DEF undo_done, CallTyped, CallRecord
  <2>3. r.answer = call[c].answer
    BY <1>0 DEF CallRecord
  <2> QED
    BY <1>2, <2>2, <2>3
<1>3. CASE create_send(c) \/ wait_ends(c) \/ undo_send(c)
  BY <1>3 DEF create_send, wait_ends, undo_send, Hidden
<1>4. CASE create_done(c)
  <2>1. CASE \E err \in {"failed", "denied", "uncertain"} : Fail(c, err)
    BY <1>0, <1>4, <2>1, Moves, MovedAnswers DEF create_done, Hidden
  <2>2. CASE ~ \E err \in {"failed", "denied", "uncertain"} : Fail(c, err)
    <3> DEFINE at == IF Label(c) \in Labels(call[c].token) /\ Label(c) + 1 \in Labels(call[c].token)
                     THEN "key" ELSE "insert"
               r == [call[c] EXCEPT !.receipts = Append(call[c].receipts, reply[c].receipt),
                                    !.at = at]
    <3>1. call' = [call EXCEPT ![c].receipts = Append(@, reply[c].receipt), ![c].at = at]
      BY <1>0, <1>4, <2>2, RefusalHasCode DEF create_done, CodeWhenExhausted, Inv, Typed
    <3>2. call' = [call EXCEPT ![c] = r] /\ rows' = rows
      BY <1>0, <1>4, <3>1 DEF create_done, CallTyped, CallRecord
    <3>3. r.answer = call[c].answer
      BY <1>0 DEF CallRecord
    <3> QED
      BY <1>2, <3>2, <3>3
  <2> QED
    BY <2>1, <2>2
<1>5. CASE insert(c)
  <2>1. /\ call[c].source \in Sources /\ NoRow(c) /\ call[c].answer = "none"
    BY <1>0, <1>5 DEF insert, ClientInv, Registration, Progress
  <2>2. rows' = rows \/ (Free(c) /\ rows' = Inserted(c))
    BY <1>5 DEF insert
  <2>3. \A d \in Clients : call'[d].answer = call[d].answer
    <3>1. Fail(c, "failed") \/ Goto(c, "returned") \/ Goto(c, "reconcile")
      BY <1>5 DEF insert, AfterLostAck
    <3> QED
      BY <1>0, <3>1, Moves, MovedAnswers DEF Points
  <2> QED
    BY <2>1, <2>2, <2>3 DEF Hidden, Registers, Free
<1>6. CASE returned(c)
  <2>1. /\ rows' = rows /\ call[c].answer = "none" /\ ~NoRow(c) /\ Answer(c, "created")
    BY <1>0, <1>6 DEF returned, ClientInv, Registration, Progress
  <2> QED
    BY <1>0, <2>1, Moves, MovedAnswers DEF Tells
<1>7. CASE reconcile(c)
  <2>1. rows' = rows /\ call[c].answer = "none"
    BY <1>0, <1>7 DEF reconcile, ClientInv, Progress
  <2>2. CASE IsCommitted(c) /\ Answer(c, "created")
    <3>1. Row(c).call = c
      BY DEF Row
    <3>2. ~NoRow(c)
      BY <2>2, <3>1 DEF IsCommitted, NoRow
    <3> QED
      BY <1>0, <2>1, <2>2, <3>2, Moves, MovedAnswers DEF Tells
  <2>3. CASE Answer(c, "uncertain")
    BY <1>0, <2>1, <2>3, Moves, MovedAnswers DEF Tells
  <2> QED
    BY <1>7, <2>2, <2>3 DEF reconcile
<1>8. CASE undone(c)
  <2>1. /\ rows' = rows /\ call[c].answer = "none" /\ NoRow(c)
        /\ call[c].err \in {"failed", "denied", "uncertain"}
    BY <1>0, <1>8 DEF undone, ClientInv, Registration, Progress
  <2>2. \E answer \in {"failed", "uncertain"} : Answer(c, answer)
    BY <1>8, <2>1 DEF undone, AnswerOf
  <2> QED
    BY <1>0, <2>1, <2>2, Moves, MovedAnswers DEF Tells
<1> QED
  BY <1>1, <1>3, <1>4, <1>5, <1>6, <1>7, <1>8, <1>9, <1>10 DEF CallStep

LEMMA EveryStepIs ==
    ASSUME Inv, [Next]_vars
    PROVE  Hidden \/ \E c \in Clients :
               Registers(c) \/ \E answer \in {"created", "failed", "uncertain"} : Tells(c, answer)
<1>1. CASE UNCHANGED vars
  BY <1>1 DEF vars, Hidden
<1>2. ASSUME NEW t \in Tokens, test_connection(t) \/ expire_or_cancel(t) PROVE Hidden
  BY <1>2 DEF test_connection, expire_or_cancel, Hidden
<1>3. ASSUME NEW c \in Clients, NEW s \in Sources, NEW t \in Tokens, register(c, s, t)
      PROVE  Hidden \/ Tells(c, "failed")
  <2>0. ClientInv(c) /\ CallTyped /\ call[c] \in CallRecord
    BY DEF Inv, Typed, CallTyped
  <2>1. rows' = rows /\ NoRow(c) /\ call[c].answer = "none"
    BY <1>3, <2>0 DEF register, ClientInv, Registration, Progress
  <2>2. CASE Answer(c, "failed")
    BY <2>0, <2>1, <2>2, Moves, MovedAnswers DEF Tells
  <2>3. CASE call' = [call EXCEPT ![c].at = "find", ![c].source = s, ![c].token = t]
    BY <2>0, <2>1, <2>3 DEF Hidden, CallTyped, CallRecord
  <2> QED
    BY <1>3, <2>2, <2>3 DEF register
<1>4. ASSUME NEW c \in Clients, commit_late(c) PROVE Hidden \/ Registers(c)
  <2>0. ClientInv(c)
    BY DEF Inv
  <2>1. call[c].source \in Sources /\ NoRow(c) /\ call[c].answer # "failed"
    BY <1>4, <2>0 DEF commit_late, ClientInv, Registration, Progress
  <2> QED
    BY <1>4, <2>1 DEF commit_late, Hidden, Registers, Free
<1>5. CASE BrokerNext /\ UNCHANGED <<pending, issued, call, rows, late>>
  BY <1>5 DEF Hidden
<1>6. CASE ApiCrash
  <2>1. \A d \in Clients : call[d] \in CallRecord
    BY DEF Inv, Typed, CallTyped
  <2> QED
    BY <1>6, <2>1 DEF ApiCrash, Hidden, CallRecord
<1> QED
  BY <1>1, <1>2, <1>3, <1>4, <1>5, <1>6, CallStepIs DEF Next

LEMMA StepRefines ==
    ASSUME Inv, Inv', [Next]_vars
    PROVE  [Promise!Next]_<<Mapped, [c \in Clients |-> call[c].answer]>>
<1> DEFINE ans == [c \in Clients |-> call[c].answer]
<1>1. Mapped = [s \in DOMAIN rows |-> rows[s].call]
  BY MappedIs
<1>2. Mapped' = [s \in DOMAIN rows' |-> rows'[s].call]
  <2>1. \A s \in DOMAIN rows' : Usable(rows[s])'
    BY DEF Inv, RowsUsable, RowUsable, Usable
  <2> QED
    BY <2>1 DEF Mapped
<1>3. CASE Hidden
  BY <1>1, <1>2, <1>3 DEF Hidden
<1>4. ASSUME NEW c \in Clients, Registers(c) PROVE Promise!Next
  <2>0. PICK s : s = call[c].source
    OBVIOUS
  <2>1. /\ s \in Sources /\ s \notin DOMAIN rows /\ \A x \in DOMAIN rows : rows[x].call # c
        /\ ans[c] # "failed" /\ ans' = ans
    BY <1>4, <2>0 DEF Registers, NoRow
  <2>2. DOMAIN rows' = DOMAIN rows \cup {s}
        /\ \A x \in DOMAIN rows' : rows'[x].call = IF x = s THEN c ELSE rows[x].call
    BY <1>4, <2>0 DEF Registers, Inserted, Row
  <2>3. Promise!Register(c, s)
    <3>1. /\ s \notin DOMAIN Mapped /\ c \notin {Mapped[x] : x \in DOMAIN Mapped}
          /\ Mapped' = [x \in DOMAIN Mapped \cup {s} |-> IF x = s THEN c ELSE Mapped[x]]
      BY <1>1, <1>2, <2>1, <2>2
    <3> QED
      BY <2>1, <3>1 DEF Promise!Register, Promise!Registrants, Mapped
  <2> QED
    BY <2>1, <2>3 DEF Promise!Next
<1>5. ASSUME NEW c \in Clients, NEW answer \in {"created", "failed", "uncertain"}, Tells(c, answer)
      PROVE  Promise!Next
  <2>1. /\ ans[c] = "none" /\ ans' = [ans EXCEPT ![c] = answer] /\ rows' = rows
        /\ answer = "created" => \E x \in DOMAIN rows : rows[x].call = c
        /\ answer = "failed" => \A x \in DOMAIN rows : rows[x].call # c
    BY <1>5 DEF Tells, NoRow
  <2>2. Promise!Tell(c, answer)
    BY <1>1, <1>2, <2>1 DEF Promise!Tell, Promise!Registrants, Mapped
  <2> QED
    BY <2>2 DEF Promise!Next
<1> QED
  BY <1>3, <1>4, <1>5, EveryStepIs

(***************************************************************************)
(* Registry and secret directory are one store to the outside              *)
(* (RegisteredSources): onboarding.py registers a source in one step with  *)
(* the credentials of one call, nothing takes them away, and no definite   *)
(* answer is ever wrong.                                                   *)
(***************************************************************************)
THEOREM Atomicity == Spec => RegistrationIsAtomic
<1>1. Init => Promise!Init
  <2> SUFFICES ASSUME Init PROVE Promise!Init
    OBVIOUS
  <2>1. Mapped = [s \in DOMAIN rows |-> rows[s].call]
    BY InitInv, MappedIs
  <2>2. rows = EarlierRows /\ \A s \in DOMAIN rows : rows[s].call \notin Clients
    BY EarlierAssumption DEF Init
  <2>3. [c \in Clients |-> call[c].answer] = [c \in Clients |-> "none"]
    BY DEF Init, NewCall
  <2> QED
    BY <2>1, <2>2, <2>3 DEF Promise!Init, Promise!Registrants, Mapped
<1>2. Inv /\ Inv' /\ [Next]_vars => [Promise!Next]_<<Mapped, [c \in Clients |-> call[c].answer]>>
  BY StepRefines
<1> QED
  BY <1>1, <1>2, Invariance, PTL DEF Spec, RegistrationIsAtomic, Promise!Spec, Mapped

(***************************************************************************)
(* Tokens.  A token that a call holds was issued, is no longer pending and *)
(* is held by no other call; the rows registered here carry the token and  *)
(* the source of their call, which never change again.                     *)
(***************************************************************************)
Holds(c) == call[c].token # Nothing

RowIsOfCall(s) ==
    rows[s].token \in Tokens =>
        /\ rows[s].call \in Clients
        /\ rows[s].token = call[rows[s].call].token /\ s = call[rows[s].call].source

TokenInv ==
    /\ pending \subseteq issued
    /\ \A c \in Clients : Holds(c) => call[c].token \in issued \ pending
    /\ \A c, d \in Clients : Holds(c) /\ call[c].token = call[d].token => c = d
    /\ \A s \in DOMAIN rows : RowIsOfCall(s)

SameIdentity(c) == call'[c].token = call[c].token /\ call'[c].source = call[c].source

LEMMA MovedIdentity ==
    ASSUME NEW c \in Clients, NEW at, NEW err, NEW answer, Moved(c, at, err, answer)
    PROVE  \A d \in Clients : SameIdentity(d)
BY DEF Moved, SameIdentity

(* Past its first step a call keeps its token and its source.              *)
LEMMA CallStepKeepsIdentity ==
    ASSUME Inv, NEW c \in Clients, CallStep(c)
    PROVE  \A d \in Clients : SameIdentity(d)
<1>0. ClientInv(c) /\ CallTyped /\ call[c] \in CallRecord
  BY DEF Inv, Typed, CallTyped
<1>1. ASSUME NEW r, call' = [call EXCEPT ![c] = r], r.token = call[c].token,
             r.source = call[c].source
      PROVE  \A d \in Clients : SameIdentity(d)
  BY <1>0, <1>1 DEF SameIdentity, CallTyped
<1>2. CASE \/ \E at \in Points : Goto(c, at)
           \/ \E answer \in {"created", "failed", "uncertain"} : Answer(c, answer)
           \/ \E err \in {"failed", "denied", "uncertain"} : Fail(c, err)
  <2>1. \E at, err, answer : Moved(c, at, err, answer)
    BY <1>0, <1>2, Moves
  <2> QED
    BY <2>1, MovedIdentity
<1>3. CASE find(c) \/ returned(c) \/ reconcile(c) \/ insert(c)
  BY <1>2, <1>3 DEF find, returned, reconcile, insert, AfterLostAck, Points
<1>4. CASE undone(c)
  <2>1. call[c].err \in {"failed", "denied", "uncertain"}
    BY <1>0, <1>4 DEF undone, ClientInv, Progress
  <2> QED
    BY <1>2, <1>4, <2>1 DEF undone, AnswerOf
<1>5. CASE create_send(c) \/ wait_ends(c) \/ undo_send(c)
  BY <1>5 DEF create_send, wait_ends, undo_send, SameIdentity
<1>6. CASE \E key \in Keys : draw_key(c, key)
  <2>1. PICK key \in Keys : draw_key(c, key)
    BY <1>6
  <2> DEFINE r == [call[c] EXCEPT !.at = "create", !.keys = Append(call[c].keys, key)]
  <2>2. call' = [call EXCEPT ![c] = r]
    BY <1>0, <2>1 DEF draw_key, CallTyped, CallRecord
  <2>3. r.token = call[c].token /\ r.source = call[c].source
    BY <1>0 DEF CallRecord
  <2> QED
    BY <1>1, <2>2, <2>3
<1>7. CASE undo_done(c)
  <2> DEFINE r == [call[c] EXCEPT
                      !.receipts = SubSeq(call[c].receipts, 1, Len(call[c].receipts) - 1),
                      !.clean = call[c].clean /\ reply[c] # Nothing /\ reply[c].ok]
  <2>2. call' = [call EXCEPT ![c] = r]
    BY <1>0, <1>7 DEF undo_done, CallTyped, CallRecord
  <2>3. r.token = call[c].token /\ r.source = call[c].source
    BY <1>0 DEF CallRecord
  <2> QED
    BY <1>1, <2>2, <2>3
<1>8. CASE create_done(c)
  <2>1. CASE \E err \in {"failed", "denied", "uncertain"} : Fail(c, err)
    BY <1>2, <2>1
  <2>2. CASE ~ \E err \in {"failed", "denied", "uncertain"} : Fail(c, err)
    <3> DEFINE at == IF Label(c) \in Labels(call[c].token) /\ Label(c) + 1 \in Labels(call[c].token)
                     THEN "key" ELSE "insert"
               r == [call[c] EXCEPT !.receipts = Append(call[c].receipts, reply[c].receipt),
                                    !.at = at]
    <3>1. call' = [call EXCEPT ![c].receipts = Append(@, reply[c].receipt), ![c].at = at]
      BY <1>0, <1>8, <2>2, RefusalHasCode DEF create_done, CodeWhenExhausted, Inv, Typed
    <3>2. call' = [call EXCEPT ![c] = r]
      BY <1>0, <3>1 DEF CallTyped, CallRecord
    <3>3. r.token = call[c].token /\ r.source = call[c].source
      BY <1>0 DEF CallRecord
    <3> QED
      BY <1>1, <3>2, <3>3
  <2> QED
    BY <2>1, <2>2
<1> QED
  BY <1>3, <1>4, <1>5, <1>6, <1>7, <1>8 DEF CallStep

(* A step in which no call takes a token.                                  *)
Takes == \E c \in Clients, s \in Sources, t \in pending :
             /\ call[c].at = "idle" /\ pending' = pending \ {t} /\ issued' = issued /\ rows' = rows
             /\ \A d \in Clients \ {c} : SameIdentity(d)
             /\ call'[c].token = t /\ call'[c].source = s

Issues == \/ pending' \subseteq pending /\ issued' = issued
          \/ \E t : t \notin issued /\ issued' = issued \cup {t} /\ pending' \subseteq pending \cup {t}

LEMMA TokensMove ==
    ASSUME Inv, [Next]_vars
    PROVE  Takes \/ (Issues /\ \A d \in Clients : SameIdentity(d))
<1>0. CallTyped /\ \A c \in Clients : call[c] \in CallRecord
  BY DEF Inv, Typed, CallTyped
<1>1. CASE UNCHANGED vars
  BY <1>1 DEF vars, Issues, SameIdentity
<1>2. ASSUME NEW t \in Tokens, test_connection(t) PROVE Issues /\ \A d \in Clients : SameIdentity(d)
  <2>1. /\ t \notin issued /\ issued' = issued \cup {t} /\ pending' \subseteq pending \cup {t}
        /\ call' = call
    BY <1>2 DEF test_connection
  <2> QED
    BY <2>1 DEF Issues, SameIdentity
<1>3. ASSUME NEW t \in Tokens, expire_or_cancel(t) PROVE Issues /\ \A d \in Clients : SameIdentity(d)
  BY <1>3 DEF expire_or_cancel, Issues, SameIdentity
<1>4. ASSUME NEW c \in Clients, NEW s \in Sources, NEW t \in Tokens, register(c, s, t)
      PROVE  Takes \/ (Issues /\ \A d \in Clients : SameIdentity(d))
  <2>1. /\ issued' = issued /\ rows' = rows /\ call[c].at = "idle" /\ pending' \subseteq pending
    BY <1>4 DEF register, consume
  <2>2. CASE Answer(c, "failed")
    BY <1>0, <2>1, <2>2, Moves, MovedIdentity DEF Issues
  <2>3. CASE /\ t \in pending /\ pending' = consume(t)
             /\ call' = [call EXCEPT ![c].at = "find", ![c].source = s, ![c].token = t]
    <3>1. /\ call'[c].token = t /\ call'[c].source = s
          /\ \A d \in Clients \ {c} : call'[d] = call[d]
      <4>1. call' = [call EXCEPT ![c] = [call[c] EXCEPT !.at = "find", !.source = s, !.token = t]]
        BY <1>0, <2>3 DEF CallTyped, CallRecord
      <4>2. call'[c] = [call[c] EXCEPT !.at = "find", !.source = s, !.token = t]
            /\ \A d \in Clients \ {c} : call'[d] = call[d]
        BY <1>0, <4>1 DEF CallTyped
      <4> QED
        BY <1>0, <4>2 DEF CallRecord
    <3> QED
      BY <2>1, <2>3, <3>1 DEF Takes, SameIdentity, consume
  <2> QED
    BY <1>4, <2>2, <2>3 DEF register
<1>5. ASSUME NEW c \in Clients, CallStep(c) PROVE Issues /\ \A d \in Clients : SameIdentity(d)
  <2>1. pending' = pending /\ issued' = issued
    BY <1>5 DEF CallStep, find, draw_key, create_send, wait_ends, create_done, insert, returned,
                reconcile, undo_send, undo_done, undone
  <2> QED
    BY <1>5, <2>1, CallStepKeepsIdentity DEF Issues
<1>6. ASSUME NEW c \in Clients, commit_late(c) PROVE Issues /\ \A d \in Clients : SameIdentity(d)
  BY <1>6 DEF commit_late, Issues, SameIdentity
<1>7. CASE BrokerNext /\ UNCHANGED <<pending, issued, call, rows, late>>
  BY <1>7 DEF Issues, SameIdentity
<1>8. CASE ApiCrash
  BY <1>0, <1>8 DEF ApiCrash, Issues, SameIdentity, CallRecord
<1> QED
  BY <1>1, <1>2, <1>3, <1>4, <1>5, <1>6, <1>7, <1>8 DEF Next

LEMMA TokenStep == Inv /\ TokenInv /\ [Next]_vars => TokenInv'
<1> SUFFICES ASSUME Inv, TokenInv, [Next]_vars PROVE TokenInv'
  OBVIOUS
<1>1. \A c \in Clients : Holds(c) => call[c].token \in issued \ pending
  BY DEF TokenInv
<1>2. CASE Takes
  <2>1. PICK c \in Clients, s \in Sources, t \in pending :
             /\ call[c].at = "idle" /\ pending' = pending \ {t} /\ issued' = issued /\ rows' = rows
             /\ \A d \in Clients \ {c} : SameIdentity(d)
             /\ call'[c].token = t /\ call'[c].source = s
    BY <1>2 DEF Takes
  <2>2. t \in issued /\ t # Nothing
    BY OnboardingAssumption DEF TokenInv, Inv, Typed
  <2>3. \A d \in Clients : call[d].token # t
    BY <1>1, <2>2 DEF Holds
  <2>4. \A d \in Clients \ {c} : call'[d].token = call[d].token /\ call'[d].source = call[d].source
    BY <2>1 DEF SameIdentity
  <2>5. \A x \in DOMAIN rows : rows[x].call # c
    BY <2>1 DEF Inv, ClientInv, Registration, NoRow
  <2>6. pending' \subseteq issued' /\ \A d \in Clients : Holds(d)' => call'[d].token \in issued' \ pending'
    BY <1>1, <2>1, <2>2, <2>4 DEF TokenInv, Holds
  <2>7. \A d, e \in Clients : Holds(d)' /\ call'[d].token = call'[e].token => d = e
    BY <2>1, <2>3, <2>4 DEF TokenInv, Holds
  <2>8. ASSUME NEW x \in DOMAIN rows' PROVE RowIsOfCall(x)'
    BY <2>1, <2>4, <2>5 DEF TokenInv, RowIsOfCall
  <2> QED
    BY <2>6, <2>7, <2>8 DEF TokenInv
<1>3. CASE Issues /\ \A d \in Clients : SameIdentity(d)
  <2>1. \A d \in Clients : call'[d].token = call[d].token /\ call'[d].source = call[d].source
    BY <1>3 DEF SameIdentity
  <2>2. pending' \subseteq issued' /\ \A d \in Clients : Holds(d)' => call'[d].token \in issued' \ pending'
    BY <1>1, <1>3, <2>1 DEF Issues, TokenInv, Holds
  <2>3. \A d, e \in Clients : Holds(d)' /\ call'[d].token = call'[e].token => d = e
    BY <2>1 DEF TokenInv, Holds
  <2>4. ASSUME NEW x \in DOMAIN rows, rows'[x] = rows[x] PROVE RowIsOfCall(x)'
    BY <2>1, <2>4 DEF TokenInv, RowIsOfCall
  <2>5. CASE rows' = rows
    BY <2>2, <2>3, <2>4, <2>5 DEF TokenInv
  <2>6. ASSUME NEW c \in Clients, Registers(c) PROVE TokenInv'
    <3>1. PICK y : y = call[c].source
      OBVIOUS
    <3>2. /\ DOMAIN rows' = DOMAIN rows \cup {y}
          /\ \A x \in DOMAIN rows : rows'[x] = rows[x]
          /\ rows'[y].call = c /\ rows'[y].token = call[c].token
      BY <2>6, <3>1 DEF Registers, Inserted, Row
    <3>3. RowIsOfCall(y)'
      BY <2>1, <3>1, <3>2 DEF RowIsOfCall
    <3>4. ASSUME NEW x \in DOMAIN rows' PROVE RowIsOfCall(x)'
      BY <2>4, <3>2, <3>3
    <3> QED
      BY <2>2, <2>3, <3>4 DEF TokenInv
  <2> QED
    BY <2>5, <2>6, EveryStepIs DEF Hidden, Tells
<1> QED
  BY <1>2, <1>3, TokensMove

(***************************************************************************)
(* Tested credentials are registered at most once: onboarding.py consumes  *)
(* the token before anything else happens, so that no two calls, retried   *)
(* or late, can ever insert a row for it.                                  *)
(***************************************************************************)
THEOREM RegisteredOnce == Spec => []OneRegistrationPerTest
<1>1. Init => TokenInv
  <2> SUFFICES ASSUME Init PROVE TokenInv
    OBVIOUS
  <2>1. \A c \in Clients : ~Holds(c)
    BY DEF Init, Holds, NewCall
  <2>2. \A s \in DOMAIN rows : rows[s].token \notin Tokens
    BY EarlierAssumption DEF Init
  <2> QED
    BY <2>1, <2>2 DEF Init, TokenInv, RowIsOfCall
<1>2. TokenInv => OneRegistrationPerTest
  <2> SUFFICES ASSUME TokenInv, NEW r \in DOMAIN rows, NEW s \in DOMAIN rows,
                      rows[r].token \in Tokens, rows[r].token = rows[s].token
               PROVE  r = s
    BY DEF OneRegistrationPerTest
  <2>1. RowIsOfCall(r) /\ RowIsOfCall(s)
    BY DEF TokenInv
  <2>2. PICK c, d : c = rows[r].call /\ d = rows[s].call
    OBVIOUS
  <2>3. /\ c \in Clients /\ d \in Clients /\ call[c].token = call[d].token /\ Holds(c)
        /\ r = call[c].source /\ s = call[d].source
    BY <2>1, <2>2, OnboardingAssumption DEF RowIsOfCall, Holds
  <2> QED
    BY <2>3 DEF TokenInv
<1> QED
  BY <1>1, <1>2, TokenStep, Invariance, PTL DEF Spec

(***************************************************************************)
(* What a call leaves behind.  Its files and the requests that may create  *)
(* some lie under its own keys and labels.  The attempts at one secret are *)
(* served in the order they were sent and only the last one is waited for, *)
(* so that an answer tells what became of all of them.                     *)
(***************************************************************************)
IsCreateOf(c, i) == queue[i].client = c /\ queue[i].action = "create"

FilesOf(c) ==
    \A k \in DOMAIN files : files[k].op[1] = c =>
        /\ files[k].op[2] \in 1 .. Len(call[c].keys)
        /\ k = call[c].keys[files[k].op[2]]
        /\ files[k].value = SecretValue(call[c].token, files[k].op[2])

CreatesOf(c) ==
    \A i \in DOMAIN queue : IsCreateOf(c, i) =>
        /\ queue[i].op[2] \in 1 .. Len(call[c].keys)
        /\ queue[i].key = call[c].keys[queue[i].op[2]]
        /\ queue[i].value = SecretValue(call[c].token, queue[i].op[2])

(* No request of c would still create a file.                              *)
Quiet(c) == \A i \in DOMAIN queue : ~IsCreateOf(c, i)

NoFile(c, label) == \A k \in DOMAIN files : files[k].op # <<c, label>>

NoSecret(c, label) == \A k \in DOMAIN files : files[k].complete => files[k].op # <<c, label>>

(* What is complete has a label up to n, but for the create that was denied. *)
NoSecretAbove(c, n, err) ==
    \A k \in DOMAIN files : files[k].complete /\ files[k].op[1] = c =>
        \/ files[k].op[2] <= n
        \/ err = "denied" /\ files[k].op[2] = Len(call[c].keys)

AwaitedIsLast(c) ==
    \A i, j \in DOMAIN queue : i < j /\ IsCreateOf(c, j) => queue[i] # awaited[c]

Numbered(c) ==
    \A i \in DOMAIN queue : IsCreateOf(c, i) /\ queue[i].op[2] = Label(c) => queue[i].id <= tries[c]

Creating(c) ==
    call[c].at = "create" =>
        /\ Numbered(c) /\ AwaitedIsLast(c)
        /\ ~submitted[c] => Quiet(c) /\ NoFile(c, Label(c))
        /\ reply[c] # Nothing => Quiet(c)
        /\ reply[c] # Nothing /\ ~reply[c].ok /\ reply[c].code = "failed" => NoSecret(c, Label(c))

BetweenSecrets(c) ==
    /\ call[c].at \in {"idle", "find", "key", "insert"} => Quiet(c) /\ awaited[c] = Nothing
    /\ call[c].at = "insert" => Len(call[c].keys) = Len(call[c].receipts)

(* The undoing of a call that is to be answered as failed.                 *)
Undoing(c) ==
    call[c].at = "undo" /\ call[c].err \in {"failed", "denied"} =>
        /\ Quiet(c)
        /\ call[c].clean => NoSecretAbove(c, Len(call[c].receipts), call[c].err)
        /\ awaited[c] # Nothing => /\ awaited[c].action = "rollback"
                                   /\ awaited[c].key = call[c].keys[Len(call[c].receipts)]
        /\ reply[c] # Nothing /\ reply[c].ok => NoSecret(c, Len(call[c].receipts))

Failed(c) == call[c].answer = "failed" => Quiet(c) /\ NoSecretAbove(c, 0, call[c].err)

Waiting(c) == IF awaited[c] = Nothing THEN reply[c] = Nothing ELSE awaited[c].client = c

CleanInv(c) ==
    /\ FilesOf(c) /\ CreatesOf(c) /\ Waiting(c)
    /\ Creating(c) /\ BetweenSecrets(c) /\ Undoing(c) /\ Failed(c)

(* A file with an operation of c, as the broker leaves it.                 *)
OldFile(k) ==
    /\ k \in DOMAIN files /\ files'[k].op = files[k].op /\ files'[k].value = files[k].value
    /\ files'[k].complete => files[k].complete

CreatedFile(c, k) ==
    \E i \in DOMAIN queue : /\ IsCreateOf(c, i) /\ k = queue[i].key
                            /\ files'[k].op = queue[i].op /\ files'[k].value = queue[i].value

(* The requests of c that are left, after n were served.                   *)
LeftOf(c, n) ==
    \A i \in DOMAIN queue' : queue'[i].client = c => i + n \in DOMAIN queue /\ queue'[i] = queue[i + n]

(* An answer to c, and what it is worth.                                   *)
Learns(c) ==
    /\ awaited[c] # Nothing
    /\ call[c].at = "create" =>
          /\ Quiet(c)'
          /\ ~reply'[c].ok /\ reply'[c].code = "failed" => NoSecret(c, Label(c))'
    /\ call[c].at = "undo" /\ call[c].err \in {"failed", "denied"} /\ reply'[c].ok =>
          NoSecret(c, Len(call[c].receipts))'

(* A step that is not of call c keeps all this.                            *)
LEMMA CleanKept ==
    ASSUME Typed, Typed', NEW c \in Clients, CleanInv(c), NEW n \in {0, 1}, LeftOf(c, n),
           call'[c] = call[c], awaited'[c] = awaited[c], tries'[c] = tries[c],
           submitted'[c] = submitted[c], reply'[c] = reply[c] \/ Learns(c),
           \A k \in DOMAIN files' : files'[k].op[1] = c => OldFile(k) \/ CreatedFile(c, k)
    PROVE  CleanInv(c)'
<1>1. FilesOf(c)'
  <2> SUFFICES ASSUME NEW k \in DOMAIN files', files'[k].op[1] = c
               PROVE  /\ files'[k].op[2] \in 1 .. Len(call[c].keys)
                      /\ k = call[c].keys[files'[k].op[2]]
                      /\ files'[k].value = SecretValue(call[c].token, files'[k].op[2])
    BY DEF FilesOf, SecretValue
  <2>1. CASE OldFile(k)
    BY <2>1 DEF OldFile, CleanInv, FilesOf
  <2>2. CASE CreatedFile(c, k)
    BY <2>2 DEF CreatedFile, CleanInv, CreatesOf
  <2> QED
    BY <2>1, <2>2
<1>2. \A i \in DOMAIN queue' : IsCreateOf(c, i)' =>
          i + n \in DOMAIN queue /\ queue'[i] = queue[i + n] /\ IsCreateOf(c, i + n)
  BY DEF LeftOf, IsCreateOf
<1>3. CreatesOf(c)'
  BY <1>2 DEF CleanInv, CreatesOf, SecretValue
<1>4. Quiet(c) => Quiet(c)'
  BY <1>2 DEF Quiet
<1>5. Quiet(c) => \A k \in DOMAIN files' : files'[k].op[1] = c => OldFile(k)
  BY DEF Quiet, CreatedFile
<1>6. ASSUME Quiet(c), NEW l
      PROVE  /\ NoFile(c, l) => \A k \in DOMAIN files' : files'[k].op # <<c, l>>
             /\ NoSecret(c, l) => \A k \in DOMAIN files' : files'[k].complete => files'[k].op # <<c, l>>
             /\ \A err : NoSecretAbove(c, l, err) => NoSecretAbove(c, l, err)'
  <2>1. \A k \in DOMAIN files' : files'[k].op = <<c, l>> => files'[k].op[1] = c
    OBVIOUS
  <2> QED
    BY <1>5, <1>6, <2>1 DEF OldFile, NoFile, NoSecret, NoSecretAbove
<1>7. Creating(c)'
  <2> SUFFICES ASSUME call[c].at = "create" PROVE Creating(c)'
    BY DEF Creating
  <2>0. Label(c)' = Label(c)
    BY DEF Label
  <2>1. Numbered(c)'
    BY <1>2, <2>0 DEF CleanInv, Creating, Numbered
  <2>2. AwaitedIsLast(c)'
    <3> SUFFICES ASSUME NEW i \in DOMAIN queue', NEW j \in DOMAIN queue', i < j,
                        IsCreateOf(c, j)', queue'[i] = awaited[c]
                 PROVE  FALSE
      BY DEF AwaitedIsLast
    <3>1. queue' \in Seq(Message) /\ queue'[i] \in Message /\ i \in Nat /\ j \in Nat
      BY DEF Typed, DiskTyped
    <3>2. queue'[i].client = c
      <4>1. awaited[c] # Nothing
        BY <3>1, MessageIsSomething
      <4> QED
        BY <4>1 DEF CleanInv, Waiting
    <3>3. i + n \in DOMAIN queue /\ queue[i + n] = awaited[c]
      BY <3>2 DEF LeftOf
    <3>4. j + n \in DOMAIN queue /\ IsCreateOf(c, j + n) /\ i + n < j + n
      BY <1>2, <3>1
    <3> QED
      BY <3>3, <3>4 DEF CleanInv, Creating, AwaitedIsLast
  <2>3. ~submitted'[c] => Quiet(c)' /\ NoFile(c, Label(c))'
    BY <1>4, <1>6, <2>0 DEF CleanInv, Creating, NoFile
  <2>4. reply'[c] # Nothing => Quiet(c)'
    BY <1>4 DEF CleanInv, Creating, Learns
  <2>5. reply'[c] # Nothing /\ ~reply'[c].ok /\ reply'[c].code = "failed" => NoSecret(c, Label(c))'
    <3>1. CASE reply'[c] = reply[c]
      BY <1>6, <2>0, <3>1 DEF CleanInv, Creating, NoSecret
    <3> QED
      BY <3>1 DEF Learns
  <2> QED
    BY <2>1, <2>2, <2>3, <2>4, <2>5 DEF Creating
<1>8. BetweenSecrets(c)'
  BY <1>4 DEF CleanInv, BetweenSecrets
<1>9. Undoing(c)'
  <2> SUFFICES ASSUME call[c].at = "undo", call[c].err \in {"failed", "denied"} PROVE Undoing(c)'
    BY DEF Undoing
  <2>1. Quiet(c)
    BY DEF CleanInv, Undoing
  <2>2. call[c].clean => NoSecretAbove(c, Len(call[c].receipts), call[c].err)'
    BY <1>6, <2>1, ZenonT(60) DEF CleanInv, Undoing, NoSecretAbove
  <2>3. reply'[c] # Nothing /\ reply'[c].ok => NoSecret(c, Len(call[c].receipts))'
    <3>1. CASE reply'[c] = reply[c]
      BY <1>6, <2>1, <3>1 DEF CleanInv, Undoing, NoSecret
    <3> QED
      BY <3>1 DEF Learns
  <2> QED
    BY <1>4, <2>1, <2>2, <2>3 DEF CleanInv, Undoing
<1>10. Failed(c)'
  BY <1>4, <1>6 DEF CleanInv, Failed, NoSecretAbove
<1>11. Waiting(c)'
  BY DEF CleanInv, Waiting, Learns
<1> QED
  BY <1>1, <1>3, <1>7, <1>8, <1>9, <1>10, <1>11 DEF CleanInv

(* New files, and completed ones, come from the request that is served.    *)
LEMMA BrokerFiles ==
    ASSUME Inv, BrokerNext
    PROVE  \A k \in DOMAIN files' :
               \/ OldFile(k)
               \/ /\ queue # <<>> /\ Head(queue).action = "create" /\ k = Head(queue).key
                  /\ files'[k].op = Head(queue).op /\ files'[k].value = Head(queue).value
<1> USE DEF OldFile
<1> DEFINE m == Head(queue)
<1> HIDE DEF m
<1>0. Writing /\ \A k \in DOMAIN files : files[k] \in File
  BY DEF Inv, Typed, DiskTyped
<1>1. CASE CreateExclusive
  <2>1. /\ queue # <<>> /\ m.action = "create"
        /\ files' = With(m.key, [op |-> m.op, receipt |-> <<m.op, m.id>>, value |-> m.value,
                                 complete |-> FALSE])
    BY <1>1 DEF CreateExclusive, Serving, m
  <2> QED
    BY <2>1 DEF With, m
<1>2. CASE CreateCompletes
  <2>1. /\ queue # <<>> /\ m.action = "create" /\ m.key \in DOMAIN files
        /\ files[m.key].op = m.op /\ files[m.key].value = m.value /\ files[m.key] \in File
        /\ files' = [files EXCEPT ![m.key].complete = TRUE]
    BY <1>0, <1>2 DEF CreateCompletes, Writing, m
  <2>2. \A k \in DOMAIN files' : k # m.key => k \in DOMAIN files /\ files'[k] = files[k]
    BY <2>1
  <2>3. files'[m.key].op = m.op /\ files'[m.key].value = m.value
    BY <2>1 DEF File
  <2> QED
    BY <2>1, <2>2, <2>3 DEF m
<1>3. CASE CreateFails
  BY <1>3 DEF CreateFails, Without
<1>4. CASE RepeatCreate \/ BrokerCrash \/ BrokerRestart
  BY <1>4 DEF RepeatCreate, BrokerCrash, BrokerRestart
<1>5. CASE Rollback
  BY <1>5 DEF Rollback, Without
<1> QED
  BY <1>1, <1>2, <1>3, <1>4, <1>5 DEF BrokerNext

(* A refusal of a create comes from a file that is not the call's own, and *)
(* a rollback that is granted has removed the file.                        *)
LEMMA BrokerReplies ==
    ASSUME Inv, BrokerNext, NEW c \in Clients, reply'[c] # reply[c]
    PROVE  /\ queue # <<>> /\ queue' = Tail(queue) /\ awaited[c] = Head(queue)
           /\ Head(queue).action = "create" /\ ~reply'[c].ok /\ reply'[c].code = "failed" =>
                 /\ files' = files /\ Head(queue).key \in DOMAIN files
                 /\ ~SameAttempt(files[Head(queue).key], Head(queue))
           /\ Head(queue).action = "rollback" /\ reply'[c].ok =>
                 Head(queue).key \notin DOMAIN files'
<1> DEFINE m == Head(queue)
<1> HIDE DEF m
<1>0. Writing /\ reply \in [Clients -> ReplyRecord \cup {Nothing}]
  BY DEF Inv, Typed, WireTyped
<1>1. ASSUME NEW a, Reply(m, a)
      PROVE  queue' = Tail(queue) /\ awaited[c] = m /\ reply'[c] = a
  BY <1>0, <1>1 DEF Reply
<1>2. /\ \A r : Ok(r).ok
      /\ Broken.code # "failed" /\ Denied.code # "failed" /\ ~Refused.ok
  BY DEF Ok, Broken, Denied, Refused
<1>3. CASE CreateCompletes \/ CreateFails
  <2>1. queue # <<>> /\ m.action = "create"
    BY <1>0, <1>3 DEF CreateCompletes, CreateFails, Writing, m
  <2>2. \E a : Reply(m, a) /\ (a.ok \/ a.code # "failed")
    <3>1. Reply(m, Broken) \/ Reply(m, Ok(files[m.key].receipt))
      BY <1>3 DEF CreateCompletes, CreateFails, m
    <3> QED
      BY <1>2, <3>1
  <2>3. queue' = Tail(queue) /\ awaited[c] = m /\ (reply'[c].ok \/ reply'[c].code # "failed")
    BY <1>1, <2>2
  <2> QED
    BY <2>1, <2>3 DEF m
<1>4. CASE RepeatCreate
  <2>1. /\ queue # <<>> /\ m.action = "create" /\ m.key \in DOMAIN files /\ files' = files
        /\ IF SameAttempt(files[m.key], m)
           THEN Reply(m, Ok(files[m.key].receipt)) \/ Reply(m, Denied)
           ELSE Reply(m, Refused)
    BY <1>4 DEF RepeatCreate, Serving, m
  <2>2. /\ queue' = Tail(queue) /\ awaited[c] = m
        /\ SameAttempt(files[m.key], m) => reply'[c].ok \/ reply'[c].code # "failed"
    BY <1>1, <1>2, <2>1
  <2> QED
    BY <2>1, <2>2 DEF m
<1>5. CASE Rollback
  <2>1. queue # <<>> /\ m.action = "rollback"
    BY <1>5 DEF Rollback, Serving, m
  <2>2. Reply(m, Refused) \/ (Reply(m, Ok(Nothing)) /\ files' = Without(m.key))
    BY <1>5 DEF Rollback, m
  <2>3. CASE Reply(m, Refused)
    BY <1>1, <1>2, <2>1, <2>3 DEF m
  <2>4. CASE Reply(m, Ok(Nothing)) /\ files' = Without(m.key)
    <3>1. m.key \notin DOMAIN files'
      BY <2>4 DEF Without
    <3> QED
      BY <1>1, <2>1, <2>4, <3>1 DEF m
  <2> QED
    BY <2>2, <2>3, <2>4
<1>6. CASE CreateExclusive \/ BrokerCrash \/ BrokerRestart
  BY <1>6 DEF CreateExclusive, BrokerCrash, BrokerRestart, wire
<1> QED
  BY <1>3, <1>4, <1>5, <1>6 DEF BrokerNext

LEMMA BrokerLearns ==
    ASSUME Inv, BrokerNext, UNCHANGED <<pending, issued, call, rows, late>>, Inv',
           NEW c \in Clients, CleanInv(c), reply'[c] # reply[c], FilesOf(c)'
    PROVE  Learns(c)
<1> DEFINE m == Head(queue)
<1> HIDE DEF m
<1>0. Typed /\ QueueInv /\ ClientInv(c)
  BY DEF Inv
<1>1. /\ queue # <<>> /\ queue' = Tail(queue) /\ awaited[c] = m
      /\ m.action = "create" /\ ~reply'[c].ok /\ reply'[c].code = "failed" =>
            files' = files /\ m.key \in DOMAIN files /\ ~SameAttempt(files[m.key], m)
      /\ m.action = "rollback" /\ reply'[c].ok => m.key \notin DOMAIN files'
  BY BrokerReplies DEF m
<1>2. m \in Message /\ m = queue[1] /\ 1 \in DOMAIN queue
      /\ \A i \in DOMAIN queue' : i + 1 \in DOMAIN queue /\ queue'[i] = queue[i + 1]
  BY <1>0, <1>1, HeadOfQueue DEF m
<1>3. awaited[c] # Nothing
  BY <1>1, <1>2, MessageIsSomething
<1>4. ASSUME call[c].at = "create"
      PROVE  /\ Quiet(c)'
             /\ ~reply'[c].ok /\ reply'[c].code = "failed" => NoSecret(c, Label(c))'
  <2>1. AwaitedIsLast(c)
    BY <1>4 DEF CleanInv, Creating
  <2>2. Quiet(c)'
    <3> SUFFICES ASSUME NEW i \in DOMAIN queue', IsCreateOf(c, i)' PROVE FALSE
      BY DEF Quiet
    <3>1. i + 1 \in DOMAIN queue /\ IsCreateOf(c, i + 1)
      BY <1>2 DEF IsCreateOf
    <3>2. i \in Nat /\ 1 < i + 1
      <4>1. queue' \in Seq(Message)
        BY DEF Inv, Typed, DiskTyped
      <4> QED
        BY <4>1
    <3> QED
      BY <1>1, <1>2, <2>1, <3>1, <3>2 DEF AwaitedIsLast
  <2>3. ASSUME ~reply'[c].ok, reply'[c].code = "failed" PROVE NoSecret(c, Label(c))'
    <3>1. /\ m.op = <<c, Label(c)>> /\ m.key = call[c].keys[Label(c)]
          /\ m.value = SecretValue(call[c].token, Label(c)) /\ m.action = "create"
      BY <1>0, <1>1, <1>3, <1>4 DEF ClientInv, Asked
    <3>2. files' = files /\ m.key \in DOMAIN files /\ ~SameAttempt(files[m.key], m)
      BY <1>1, <2>3, <3>1
    <3>3. ASSUME NEW k \in DOMAIN files, files[k].complete, files[k].op = <<c, Label(c)>>
          PROVE  FALSE
      <4>1. files[k].op[1] = c /\ files[k].op[2] = Label(c)
        BY <3>3
      <4>2. k = m.key /\ files[k].value = m.value
        BY <3>1, <4>1 DEF CleanInv, FilesOf
      <4> QED
        BY <3>1, <3>2, <3>3, <4>2 DEF SameAttempt
    <3> QED
      BY <3>2, <3>3 DEF NoSecret, Label
  <2> QED
    BY <2>2, <2>3
<1>5. ASSUME call[c].at = "undo", call[c].err \in {"failed", "denied"}, reply'[c].ok
      PROVE  NoSecret(c, Len(call[c].receipts))'
  <2>1. m.action = "rollback" /\ m.key = call[c].keys[Len(call[c].receipts)]
    BY <1>1, <1>3, <1>5 DEF CleanInv, Undoing
  <2>2. m.key \notin DOMAIN files'
    BY <1>1, <1>5, <2>1
  <2>3. ASSUME NEW k \in DOMAIN files', files'[k].op = <<c, Len(call[c].receipts)>>
        PROVE  k = call[c].keys[Len(call[c].receipts)]
    <3>1. files'[k].op[1] = c /\ files'[k].op[2] = Len(call[c].receipts)
      BY <2>3
    <3> QED
      BY <3>1 DEF FilesOf
  <2> QED
    BY <2>1, <2>2, <2>3 DEF NoSecret
<1> QED
  BY <1>3, <1>4, <1>5 DEF Learns

LEMMA BrokerClean ==
    ASSUME Inv, BrokerNext, UNCHANGED <<pending, issued, call, rows, late>>, Inv',
           NEW c \in Clients, CleanInv(c)
    PROVE  CleanInv(c)'
<1>0. Typed /\ Typed' /\ QueueInv
  BY DEF Inv
<1>1. awaited' = awaited /\ tries' = tries /\ submitted' = submitted /\ call' = call
  BY DEF BrokerNext, CreateExclusive, CreateCompletes, CreateFails, RepeatCreate, Rollback,
         BrokerCrash, BrokerRestart, Reply, wire
<1>2. \A k \in DOMAIN files' : files'[k].op[1] = c => OldFile(k) \/ CreatedFile(c, k)
  <2> SUFFICES ASSUME NEW k \in DOMAIN files', files'[k].op[1] = c, ~OldFile(k)
               PROVE  CreatedFile(c, k)
    OBVIOUS
  <2>1. /\ queue # <<>> /\ Head(queue).action = "create" /\ k = Head(queue).key
        /\ files'[k].op = Head(queue).op /\ files'[k].value = Head(queue).value
    BY BrokerFiles
  <2>2. Head(queue) = queue[1] /\ 1 \in DOMAIN queue /\ Head(queue).op[1] = Head(queue).client
    BY <1>0, <2>1, HeadOfQueue
  <2>3. IsCreateOf(c, 1)
    BY <2>1, <2>2 DEF IsCreateOf
  <2> QED
    BY <2>1, <2>2, <2>3 DEF CreatedFile
<1>3. \E n \in {0, 1} : LeftOf(c, n)
  <2>0. queue \in Seq(Message)
    BY <1>0 DEF Typed, DiskTyped
  <2>1. CASE queue' = queue
    <3>1. \A i \in DOMAIN queue : i + 0 = i
      BY <2>0
    <3>2. LeftOf(c, 0)
      BY <2>1, <3>1 DEF LeftOf
    <3> QED
      BY <3>2
  <2>2. CASE queue' = <<>>
    <3>2. LeftOf(c, 0)
      BY <2>2 DEF LeftOf
    <3> QED
      BY <3>2
  <2>3. CASE queue # <<>> /\ queue' = Tail(queue)
    <3>2. LeftOf(c, 1)
      BY <1>0, <2>3, HeadOfQueue DEF LeftOf
    <3> QED
      BY <3>2
  <2> QED
    BY <2>1, <2>2, <2>3, BrokerAnswers DEF Answered
<1>4. FilesOf(c)'
  <2> SUFFICES ASSUME NEW k \in DOMAIN files', files'[k].op[1] = c
               PROVE  /\ files'[k].op[2] \in 1 .. Len(call[c].keys)
                      /\ k = call[c].keys[files'[k].op[2]]
                      /\ files'[k].value = SecretValue(call[c].token, files'[k].op[2])
    BY <1>1 DEF FilesOf, SecretValue
  <2> QED
    BY <1>2 DEF OldFile, CreatedFile, CleanInv, FilesOf, CreatesOf
<1>5. reply'[c] = reply[c] \/ Learns(c)
  BY <1>4, BrokerLearns
<1> QED
  BY <1>0, <1>1, <1>2, <1>3, <1>5, CleanKept

(* Another call's step.                                                    *)
Alone(c) ==
    \A d \in Clients \ {c} :
        /\ call'[d] = call[d] /\ awaited'[d] = awaited[d] /\ reply'[d] = reply[d]
        /\ tries'[d] = tries[d] /\ submitted'[d] = submitted[d]

LEMMA OthersClean ==
    ASSUME Typed, Typed', NEW c \in Clients, files' = files, Alone(c),
           queue' = queue \/ \E m : queue' = Append(queue, m) /\ m.client = c,
           NEW d \in Clients \ {c}, CleanInv(d)
    PROVE  CleanInv(d)'
<1>1. LeftOf(d, 0)
  <2>0. queue \in Seq(Message)
    BY DEF Typed, DiskTyped
  <2>1. CASE queue' = queue
    BY <2>0, <2>1 DEF LeftOf
  <2>2. ASSUME NEW m, queue' = Append(queue, m), m.client = c PROVE LeftOf(d, 0)
    <3>0. queue \in Seq(Message \cup {m})
      BY <2>0
    <3>1. \A i \in DOMAIN queue' : \/ i \in DOMAIN queue /\ i + 0 = i /\ queue'[i] = queue[i]
                                  \/ queue'[i] = m
      BY <2>2, <3>0
    <3> QED
      BY <2>2, <3>1 DEF LeftOf
  <2> QED
    BY <2>1, <2>2
<1>2. \A k \in DOMAIN files' : OldFile(k)
  BY DEF OldFile
<1> QED
  BY <1>1, <1>2, CleanKept DEF Alone

(* Files and requests of c stay where they were while it draws no key.     *)
LEMMA SameDisk ==
    ASSUME NEW c \in Clients, files' = files, queue' = queue, FilesOf(c), CreatesOf(c),
           call'[c].token = call[c].token, Len(call[c].keys) \in Nat, Len(call'[c].keys) \in Nat,
           Len(call[c].keys) <= Len(call'[c].keys),
           \A i \in 1 .. Len(call[c].keys) : call'[c].keys[i] = call[c].keys[i]
    PROVE  /\ FilesOf(c)' /\ CreatesOf(c)' /\ (Quiet(c)' <=> Quiet(c))
           /\ \A i \in DOMAIN queue : IsCreateOf(c, i)' <=> IsCreateOf(c, i)
<1>1. \A i \in DOMAIN queue : IsCreateOf(c, i)' <=> IsCreateOf(c, i)
  BY DEF IsCreateOf
<1>2. \A i \in 1 .. Len(call[c].keys) : i \in 1 .. Len(call'[c].keys)
  OBVIOUS
<1>3. FilesOf(c)'
  BY <1>2 DEF FilesOf, SecretValue
<1>4. CreatesOf(c)'
  BY <1>1, <1>2 DEF CreatesOf, SecretValue
<1> QED
  BY <1>1, <1>3, <1>4 DEF Quiet

(* A call that moves on without a word to the broker.                      *)
LEMMA MovedClean ==
    ASSUME Typed, NEW c \in Clients, CleanInv(c), NEW at, NEW err, NEW answer,
           Moved(c, at, err, answer), UNCHANGED brokerVars, at \notin {"create", "insert"},
           at \in {"idle", "find", "key"} => Quiet(c) /\ awaited[c] = Nothing,
           at = "undo" /\ err \in {"failed", "denied"} =>
               /\ Quiet(c) /\ awaited[c] = Nothing
               /\ NoSecretAbove(c, Len(call[c].receipts), err),
           answer = "failed" => Quiet(c) /\ NoSecretAbove(c, 0, err)
    PROVE  CleanInv(c)'
<1>1. /\ files' = files /\ queue' = queue /\ awaited' = awaited /\ reply' = reply
  BY DEF brokerVars, disk, wire
<1>2. /\ call'[c].at = at /\ call'[c].err = err /\ call'[c].answer = answer
      /\ call'[c].token = call[c].token /\ call'[c].keys = call[c].keys
      /\ call'[c].receipts = call[c].receipts
  BY DEF Moved
<1>3. Len(call[c].keys) \in Nat
  <2>1. call[c] \in CallRecord
    BY DEF Typed, CallTyped
  <2> QED
    BY <2>1 DEF CallRecord
<1>4. FilesOf(c)' /\ CreatesOf(c)' /\ (Quiet(c)' <=> Quiet(c))
  BY <1>1, <1>2, <1>3, SameDisk DEF CleanInv
<1>5. Waiting(c)' /\ Creating(c)' /\ BetweenSecrets(c)'
  BY <1>1, <1>2, <1>4 DEF CleanInv, Waiting, Creating, BetweenSecrets
<1>6. Undoing(c)' /\ Failed(c)'
  BY <1>1, <1>2, <1>4 DEF CleanInv, Waiting, Undoing, Failed, NoSecretAbove
<1> QED
  BY <1>4, <1>5, <1>6 DEF CleanInv

(* Without keys there are neither files nor requests.                      *)
LEMMA NoKeysNoFiles ==
    ASSUME NEW c \in Clients, CleanInv(c), call[c].keys = <<>>
    PROVE  Quiet(c) /\ \A k \in DOMAIN files : files[k].op[1] # c
<1>1. Len(call[c].keys) = 0
  OBVIOUS
<1> QED
  BY <1>1 DEF CleanInv, FilesOf, CreatesOf, Quiet

LEMMA FindClean ==
    ASSUME Inv, NEW c \in Clients, CleanInv(c), find(c)
    PROVE  CleanInv(c)'
<1>0. Typed /\ ClientInv(c) /\ CallTyped
  BY DEF Inv, Typed
<1>1. UNCHANGED brokerVars /\ call[c].at = "find"
  BY DEF find
<1>2. call[c].keys = <<>> /\ call[c].answer = "none"
  BY <1>0, <1>1 DEF ClientInv, Progress
<1>3. Quiet(c) /\ awaited[c] = Nothing /\ \A err : NoSecretAbove(c, 0, err)
  BY <1>1, <1>2, NoKeysNoFiles DEF CleanInv, BetweenSecrets, NoSecretAbove
<1>4. Moved(c, "answered", call[c].err, "failed") \/ Moved(c, "key", call[c].err, "none")
  BY <1>0, <1>2, Moves DEF find, Points
<1> QED
  BY <1>0, <1>1, <1>3, <1>4, MovedClean

LEMMA InsertClean ==
    ASSUME Inv, NEW c \in Clients, CleanInv(c), insert(c)
    PROVE  CleanInv(c)'
<1>0. Typed /\ ClientInv(c) /\ CallTyped
  BY DEF Inv, Typed
<1>1. UNCHANGED brokerVars /\ call[c].at = "insert"
  BY DEF insert
<1>2. /\ call[c].answer = "none" /\ Quiet(c) /\ awaited[c] = Nothing
      /\ Len(call[c].keys) = Len(call[c].receipts)
  BY <1>0, <1>1 DEF ClientInv, Progress, CleanInv, BetweenSecrets
<1>3. \A err : NoSecretAbove(c, Len(call[c].receipts), err)
  <2>1. Len(call[c].receipts) \in Nat
    BY <1>0 DEF CallTyped, CallRecord
  <2> QED
    BY <1>2, <2>1 DEF CleanInv, FilesOf, NoSecretAbove
<1>4. \/ Moved(c, "undo", "failed", "none")
      \/ Moved(c, "returned", call[c].err, "none") \/ Moved(c, "reconcile", call[c].err, "none")
  BY <1>0, <1>2, Moves DEF insert, AfterLostAck, Points
<1> QED
  BY <1>0, <1>1, <1>2, <1>3, <1>4, MovedClean

LEMMA AnswerClean ==
    ASSUME Inv, NEW c \in Clients, CleanInv(c), returned(c) \/ reconcile(c) \/ undone(c)
    PROVE  CleanInv(c)'
<1>0. Typed /\ ClientInv(c) /\ CallTyped
  BY DEF Inv, Typed
<1>1. UNCHANGED brokerVars
  BY DEF returned, reconcile, undone
<1>2. CASE returned(c) \/ reconcile(c)
  <2>1. Moved(c, "answered", call[c].err, "created") \/ Moved(c, "answered", call[c].err, "uncertain")
    BY <1>0, <1>2, Moves DEF returned, reconcile
  <2> QED
    BY <1>0, <1>1, <2>1, MovedClean
<1>3. CASE undone(c)
  <2>1. call[c].at = "undo" /\ call[c].receipts = <<>> /\ call[c].err \in {"failed", "denied", "uncertain"}
    BY <1>0, <1>3 DEF undone, ClientInv, Progress
  <2>2. PICK answer \in {"failed", "uncertain"} :
            Answer(c, answer) /\ (answer = "failed" => call[c].clean /\ call[c].err \in {"failed", "denied"})
    BY <1>3, <2>1 DEF undone, AnswerOf
  <2>3. Moved(c, "answered", call[c].err, answer)
    BY <1>0, <2>2, Moves
  <2>4. Len(call[c].receipts) = 0
    BY <2>1
  <2>5. answer = "failed" => Quiet(c) /\ NoSecretAbove(c, 0, call[c].err)
    BY <2>1, <2>2, <2>4 DEF CleanInv, Undoing
  <2> QED
    BY <1>0, <1>1, <2>3, <2>5, MovedClean
<1> QED
  BY <1>2, <1>3

LEMMA RegisterClean ==
    ASSUME Inv, NEW c \in Clients, CleanInv(c), NEW s \in Sources, NEW t \in Tokens, register(c, s, t)
    PROVE  CleanInv(c)'
<1>0. Typed /\ ClientInv(c) /\ CallTyped /\ call[c] \in CallRecord
  BY DEF Inv, Typed, CallTyped
<1>1. UNCHANGED brokerVars /\ call[c].at = "idle"
  BY DEF register
<1>2. call[c].keys = <<>> /\ call[c].answer = "none"
  BY <1>0, <1>1 DEF ClientInv, Progress
<1>3. Quiet(c) /\ awaited[c] = Nothing
      /\ (\A err : NoSecretAbove(c, 0, err)) /\ \A k \in DOMAIN files : files[k].op[1] # c
  BY <1>1, <1>2, NoKeysNoFiles DEF CleanInv, BetweenSecrets, NoSecretAbove
<1>4. CASE Answer(c, "failed")
  BY <1>0, <1>1, <1>3, <1>4, Moves, MovedClean
<1>5. CASE call' = [call EXCEPT ![c].at = "find", ![c].source = s, ![c].token = t]
  <2>1. call'[c].at = "find" /\ call'[c].answer = "none"
    <3>1. call' = [call EXCEPT ![c] = [call[c] EXCEPT !.at = "find", !.source = s, !.token = t]]
      BY <1>0, <1>5 DEF CallTyped, CallRecord
    <3>2. call'[c] = [call[c] EXCEPT !.at = "find", !.source = s, !.token = t]
      BY <1>0, <3>1 DEF CallTyped
    <3> QED
      BY <1>0, <1>2, <3>2 DEF CallRecord
  <2>2. files' = files /\ queue' = queue /\ awaited' = awaited /\ reply' = reply
    BY <1>1 DEF brokerVars, disk, wire
  <2>3. Quiet(c)' /\ FilesOf(c)' /\ CreatesOf(c)'
    BY <1>3, <2>2 DEF Quiet, FilesOf, CreatesOf, IsCreateOf
  <2> QED
    BY <1>3, <2>1, <2>2, <2>3 DEF CleanInv, Waiting, Creating, BetweenSecrets, Undoing, Failed
<1> QED
  BY <1>4, <1>5 DEF register

(* A fresh request leaves nothing awaited.                                 *)
LEMMA FreshIs ==
    ASSUME WireTyped, NEW c \in Clients, Fresh(c)
    PROVE  /\ awaited'[c] = Nothing /\ reply'[c] = Nothing
           /\ tries'[c] = 0 /\ submitted'[c] = FALSE
BY DEF WireTyped, Fresh

LEMMA DrawKeyClean ==
    ASSUME Inv, NEW c \in Clients, CleanInv(c), NEW key \in Keys, draw_key(c, key)
    PROVE  CleanInv(c)'
<1>0. Typed /\ ClientInv(c) /\ CallTyped /\ WireTyped /\ call[c] \in CallRecord
  BY DEF Inv, Typed, CallTyped
<1>1. files' = files /\ queue' = queue /\ call[c].at = "key" /\ Fresh(c)
  BY DEF draw_key, disk
<1>2. awaited'[c] = Nothing /\ reply'[c] = Nothing
  BY <1>0, <1>1, FreshIs
<1>3. /\ call[c].answer = "none" /\ Len(call[c].keys) = Len(call[c].receipts) /\ Quiet(c)
  BY <1>0, <1>1 DEF ClientInv, Progress, CleanInv, BetweenSecrets
<1>4. call[c].keys \in Seq(Keys) /\ call[c].receipts \in Seq(Receipt)
  BY <1>0 DEF CallRecord
<1>5. /\ Len(call[c].keys) \in Nat /\ Len(Append(call[c].keys, key)) = Len(call[c].keys) + 1
      /\ \A i \in 1 .. Len(call[c].keys) : Append(call[c].keys, key)[i] = call[c].keys[i]
  BY <1>4
<1>6. /\ call'[c].at = "create" /\ call'[c].keys = Append(call[c].keys, key)
      /\ call'[c].receipts = call[c].receipts /\ call'[c].answer = "none"
      /\ call'[c].token = call[c].token
  <2>1. call' = [call EXCEPT ![c] = [call[c] EXCEPT !.at = "create",
                                                    !.keys = Append(call[c].keys, key)]]
    BY <1>0 DEF draw_key, CallTyped, CallRecord
  <2>2. call'[c] = [call[c] EXCEPT !.at = "create", !.keys = Append(call[c].keys, key)]
    BY <1>0, <2>1 DEF CallTyped
  <2> QED
    BY <1>0, <1>3, <2>2 DEF CallRecord
<1>7. FilesOf(c)' /\ CreatesOf(c)' /\ Quiet(c)'
  BY <1>1, <1>3, <1>5, <1>6, SameDisk DEF CleanInv
<1>8. NoFile(c, Label(c))'
  <2>1. Label(c)' = Len(call[c].keys) + 1
    BY <1>3, <1>6 DEF Label
  <2>2. ASSUME NEW k \in DOMAIN files, NEW l, l = Len(call[c].keys) + 1, files[k].op = <<c, l>>
        PROVE  FALSE
    <3>1. files[k].op[1] = c /\ files[k].op[2] = l
      BY <2>2
    <3> QED
      BY <1>5, <2>2, <3>1 DEF CleanInv, FilesOf
  <2> QED
    BY <1>1, <2>1, <2>2 DEF NoFile
<1>9. Creating(c)'
  BY <1>2, <1>7, <1>8 DEF Creating, Numbered, AwaitedIsLast, Quiet
<1> QED
  BY <1>2, <1>6, <1>7, <1>9 DEF CleanInv, Waiting, BetweenSecrets, Undoing, Failed

(* A request that may have been sent.                                      *)
LEMMA SendIs ==
    ASSUME Typed, NEW c \in Clients, NEW m \in Message, Send(c, m)
    PROVE  /\ awaited[c] = Nothing /\ files' = files /\ reply' = reply /\ tries'[c] = tries[c] + 1
           /\ \/ queue' = queue /\ awaited' = awaited /\ submitted' = submitted
              \/ /\ queue' = Append(queue, m) /\ awaited'[c] = m /\ submitted'[c] = TRUE
                 /\ Len(queue) \in Nat /\ Len(queue') = Len(queue) + 1
                 /\ DOMAIN queue = 1 .. Len(queue) /\ DOMAIN queue' = 1 .. Len(queue')
                 /\ \A i \in DOMAIN queue : queue'[i] = queue[i]
                 /\ queue'[Len(queue')] = m
<1>1. queue \in Seq(Message) /\ WireTyped
  BY DEF Typed, DiskTyped
<1>2. awaited[c] = Nothing /\ files' = files /\ reply' = reply /\ tries'[c] = tries[c] + 1
  BY <1>1 DEF Send, WireTyped
<1>3. CASE broker = "down"
  BY <1>2, <1>3 DEF Send
<1>4. CASE broker # "down"
  <2>1. queue' = Append(queue, m) /\ awaited'[c] = m /\ submitted'[c] = TRUE
    BY <1>1, <1>4 DEF Send, WireTyped
  <2> QED
    BY <1>1, <1>2, <2>1
<1> QED
  BY <1>3, <1>4

LEMMA CreateSendClean ==
    ASSUME Inv, NEW c \in Clients, CleanInv(c), create_send(c)
    PROVE  CleanInv(c)'
<1> DEFINE m == CreateRequest(c, <<c, Label(c)>>, tries[c] + 1, call[c].keys[Label(c)],
                              SecretValue(call[c].token, Label(c)))
<1>0. Typed /\ ClientInv(c) /\ CallTyped /\ WireTyped /\ call[c] \in CallRecord
  BY DEF Inv, Typed, CallTyped
<1>1. Send(c, m) /\ call' = call /\ call[c].at = "create"
  BY DEF create_send
<1>2. /\ call[c].token \in Tokens /\ Len(call[c].keys) = Label(c) /\ call[c].answer = "none"
      /\ Label(c) \in Labels(call[c].token)
  BY <1>0, <1>1 DEF ClientInv, Progress
<1>3. Label(c) \in Nat \ {0} /\ tries[c] \in Nat
  BY <1>0, <1>2, LabelsAre DEF WireTyped
<1>4. call[c].keys[Label(c)] \in Keys
  <2>1. call[c].keys \in Seq(Keys)
    BY <1>0 DEF CallRecord
  <2> QED
    BY <1>2, <1>3, <2>1
<1>5. m \in Message
  BY <1>2, <1>3, <1>4 DEF CreateRequest, Message, Value, SecretValue, Receipt
<1>6. /\ m.op = <<c, Label(c)>> /\ m.key = call[c].keys[Label(c)] /\ m.client = c
      /\ m.value = SecretValue(call[c].token, Label(c)) /\ m.action = "create"
      /\ m.id = tries[c] + 1
  BY DEF CreateRequest
<1>7. m.op[2] = Label(c)
  BY <1>6
<1> HIDE DEF m
<1>8. /\ awaited[c] = Nothing /\ reply[c] = Nothing /\ files' = files /\ reply' = reply
      /\ tries'[c] = tries[c] + 1
  BY <1>0, <1>1, <1>5, SendIs DEF CleanInv, Waiting
<1>9. FilesOf(c)' /\ Label(c)' = Label(c)
  BY <1>1, <1>8 DEF CleanInv, FilesOf, SecretValue, Label
<1>10. Numbered(c) /\ AwaitedIsLast(c) /\ CreatesOf(c)
  BY <1>1 DEF CleanInv, Creating
<1>11. \A i \in DOMAIN queue : queue[i] \in Message /\ queue[i].id \in Nat
  <2>1. \A i \in DOMAIN queue : queue[i] \in Message
    BY <1>0 DEF Typed, DiskTyped
  <2> QED
    BY <2>1 DEF Message
<1>12. CASE queue' = queue /\ awaited' = awaited /\ submitted' = submitted
  <2>1. CreatesOf(c)' /\ (Quiet(c)' <=> Quiet(c)) /\ AwaitedIsLast(c)'
    BY <1>1, <1>10, <1>12 DEF CreatesOf, IsCreateOf, Quiet, AwaitedIsLast, SecretValue
  <2>2. Numbered(c)'
    <3> SUFFICES ASSUME NEW i \in DOMAIN queue, IsCreateOf(c, i), queue[i].op[2] = Label(c)
                 PROVE  queue[i].id <= tries[c] + 1
      BY <1>8, <1>9, <1>12 DEF Numbered, IsCreateOf
    <3>1. queue[i].id <= tries[c]
      BY <1>10 DEF Numbered
    <3> QED
      BY <1>3, <1>11, <3>1
  <2>3. ~submitted'[c] => Quiet(c)' /\ NoFile(c, Label(c))'
    BY <1>1, <1>8, <1>9, <1>12, <2>1 DEF CleanInv, Creating, NoFile
  <2>4. Creating(c)'
    BY <1>8, <2>1, <2>2, <2>3 DEF Creating
  <2> QED
    BY <1>1, <1>2, <1>8, <1>9, <1>12, <2>1, <2>4
    DEF CleanInv, Waiting, BetweenSecrets, Undoing, Failed
<1>13. CASE /\ queue' = Append(queue, m) /\ awaited'[c] = m /\ submitted'[c] = TRUE
            /\ Len(queue) \in Nat /\ Len(queue') = Len(queue) + 1
            /\ DOMAIN queue = 1 .. Len(queue) /\ DOMAIN queue' = 1 .. Len(queue')
            /\ \A i \in DOMAIN queue : queue'[i] = queue[i]
            /\ queue'[Len(queue')] = m
  <2>1. \A i \in DOMAIN queue' : (i \in DOMAIN queue /\ queue'[i] = queue[i]) \/ queue'[i] = m
    BY <1>13
  <2>2. \A i \in DOMAIN queue : IsCreateOf(c, i)' <=> IsCreateOf(c, i)
    BY <1>13 DEF IsCreateOf
  <2>3. CreatesOf(c)'
    <3> SUFFICES ASSUME NEW i \in DOMAIN queue', IsCreateOf(c, i)'
                 PROVE  /\ queue'[i].op[2] \in 1 .. Len(call[c].keys)
                        /\ queue'[i].key = call[c].keys[queue'[i].op[2]]
                        /\ queue'[i].value = SecretValue(call[c].token, queue'[i].op[2])
      BY <1>1 DEF CreatesOf, SecretValue
    <3>1. CASE i \in DOMAIN queue /\ queue'[i] = queue[i]
      BY <1>10, <2>2, <3>1 DEF CreatesOf
    <3>2. CASE queue'[i] = m
      BY <1>2, <1>3, <1>6, <1>7, <3>2
    <3> QED
      BY <2>1, <3>1, <3>2
  <2>4. Numbered(c)'
    <3> SUFFICES ASSUME NEW i \in DOMAIN queue', IsCreateOf(c, i)', queue'[i].op[2] = Label(c)
                 PROVE  queue'[i].id <= tries[c] + 1
      BY <1>8, <1>9 DEF Numbered
    <3>1. CASE i \in DOMAIN queue /\ queue'[i] = queue[i]
      <4>1. queue[i].id <= tries[c]
        BY <1>10, <2>2, <3>1 DEF Numbered
      <4> QED
        BY <1>3, <1>11, <3>1, <4>1
    <3>2. CASE queue'[i] = m
      BY <1>3, <1>6, <3>2
    <3> QED
      BY <2>1, <3>1, <3>2
  <2>5. AwaitedIsLast(c)'
    <3>1. ASSUME NEW i \in DOMAIN queue, queue[i] = m PROVE FALSE
      <4>1. IsCreateOf(c, i) /\ queue[i].op[2] = Label(c) /\ queue[i].id = tries[c] + 1
        BY <1>6, <1>7, <3>1 DEF IsCreateOf
      <4>2. tries[c] + 1 <= tries[c]
        BY <1>10, <4>1 DEF Numbered
      <4> QED
        BY <1>3, <4>2
    <3>2. \A i, j \in DOMAIN queue' : i < j => i \in DOMAIN queue
      BY <1>13
    <3>3. \A i \in DOMAIN queue : queue'[i] # m
      BY <1>13, <3>1
    <3> QED
      BY <1>13, <3>2, <3>3 DEF AwaitedIsLast
  <2>6. Creating(c)'
    BY <1>8, <1>13, <2>4, <2>5 DEF Creating
  <2>7. Waiting(c)'
    BY <1>5, <1>6, <1>13, MessageIsSomething DEF Waiting
  <2> QED
    BY <1>1, <1>2, <1>9, <2>3, <2>6, <2>7 DEF CleanInv, BetweenSecrets, Undoing, Failed
<1> QED
  BY <1>0, <1>1, <1>5, <1>12, <1>13, SendIs

LEMMA WaitEndsClean ==
    ASSUME Inv, NEW c \in Clients, CleanInv(c), wait_ends(c)
    PROVE  CleanInv(c)'
<1>0. Typed /\ WireTyped /\ \A i \in DOMAIN queue : queue[i] \in Message
  BY DEF Inv, Typed, DiskTyped
<1>1. /\ files' = files /\ queue' = queue /\ reply' = reply /\ tries' = tries
      /\ submitted' = submitted /\ call' = call /\ awaited' = [awaited EXCEPT ![c] = Nothing]
      /\ reply[c] = Nothing /\ call[c].at \in {"create", "undo"}
  BY DEF wait_ends, GiveUp, disk
<1>2. awaited'[c] = Nothing
  BY <1>0, <1>1 DEF WireTyped
<1>3. /\ FilesOf(c)' /\ CreatesOf(c)' /\ (Quiet(c)' <=> Quiet(c)) /\ (Numbered(c)' <=> Numbered(c))
  BY <1>1 DEF CleanInv, FilesOf, CreatesOf, Quiet, Numbered, IsCreateOf, Label, SecretValue
<1>4. AwaitedIsLast(c)'
  BY <1>0, <1>1, <1>2, MessageIsSomething DEF AwaitedIsLast
<1>5. Creating(c)'
  BY <1>1, <1>3, <1>4 DEF CleanInv, Creating, NoFile, Label
<1>6. Undoing(c)' /\ Failed(c)' /\ Waiting(c)' /\ BetweenSecrets(c)'
  BY <1>1, <1>2, <1>3
  DEF CleanInv, Undoing, Failed, Waiting, BetweenSecrets, NoSecretAbove
<1> QED
  BY <1>3, <1>5, <1>6 DEF CleanInv

LEMMA CreateDoneClean ==
    ASSUME Inv, NEW c \in Clients, CleanInv(c), create_done(c)
    PROVE  CleanInv(c)'
<1>0. Typed /\ ClientInv(c) /\ CallTyped /\ WireTyped /\ call[c] \in CallRecord
  BY DEF Inv, Typed, CallTyped
<1>1. files' = files /\ queue' = queue /\ call[c].at = "create" /\ Fresh(c)
  BY DEF create_done, disk
<1>2. awaited'[c] = Nothing /\ reply'[c] = Nothing
  BY <1>0, <1>1, FreshIs
<1>3. /\ call[c].answer = "none" /\ Len(call[c].keys) = Label(c)
      /\ call[c].keys \in Seq(Keys) /\ call[c].receipts \in Seq(Receipt)
  BY <1>0, <1>1 DEF ClientInv, Progress, CallRecord
<1>4. Len(call[c].keys) \in Nat /\ Len(call[c].receipts) \in Nat
      /\ Len(call[c].keys) = Len(call[c].receipts) + 1
  BY <1>3 DEF Label
<1>5. CASE /\ reply[c] # Nothing /\ reply[c].ok
           /\ call' = [call EXCEPT ![c].receipts = Append(@, reply[c].receipt),
                                   ![c].at = IF Label(c) \in Labels(call[c].token)
                                                /\ Label(c) + 1 \in Labels(call[c].token)
                                             THEN "key" ELSE "insert"]
  <2> DEFINE at == IF Label(c) \in Labels(call[c].token) /\ Label(c) + 1 \in Labels(call[c].token)
                   THEN "key" ELSE "insert"
             rs == Append(call[c].receipts, reply[c].receipt)
             r == [call[c] EXCEPT !.receipts = rs, !.at = at]
  <2>1. call' = [call EXCEPT ![c] = r]
    BY <1>0, <1>5 DEF CallTyped, CallRecord
  <2>2. call'[c] = r
    BY <1>0, <2>1 DEF CallTyped
  <2>3. /\ call'[c].at \in {"key", "insert"} /\ call'[c].keys = call[c].keys
        /\ call'[c].receipts = rs /\ call'[c].answer = "none"
        /\ call'[c].token = call[c].token
    BY <1>0, <1>3, <2>2 DEF CallRecord
  <2>4. Len(rs) = Len(call[c].keys)
    BY <1>3, <1>4
  <2>5. Quiet(c)
    BY <1>1, <1>5 DEF CleanInv, Creating
  <2>6. FilesOf(c)' /\ CreatesOf(c)' /\ Quiet(c)'
    BY <1>1, <1>4, <2>3, <2>5, SameDisk DEF CleanInv
  <2> HIDE DEF rs
  <2> QED
    BY <1>2, <2>3, <2>4, <2>6 DEF CleanInv, Waiting, Creating, BetweenSecrets, Undoing, Failed
<1>6. ASSUME NEW err \in {"failed", "denied", "uncertain"}, Fail(c, err),
             err \in {"failed", "denied"} => Quiet(c),
             err = "failed" => NoSecret(c, Label(c))
      PROVE  CleanInv(c)'
  <2>1. Moved(c, "undo", err, "none")
    BY <1>0, <1>3, <1>6, Moves
  <2>2. /\ call'[c].at = "undo" /\ call'[c].err = err /\ call'[c].answer = "none"
        /\ call'[c].token = call[c].token /\ call'[c].keys = call[c].keys
        /\ call'[c].receipts = call[c].receipts
    BY <2>1 DEF Moved
  <2>3. FilesOf(c)' /\ CreatesOf(c)' /\ (Quiet(c)' <=> Quiet(c))
    BY <1>1, <1>4, <2>2, SameDisk DEF CleanInv
  <2>4. err \in {"failed", "denied"} => NoSecretAbove(c, Len(call[c].receipts), err)'
    <3> SUFFICES ASSUME err \in {"failed", "denied"},
                        NEW k \in DOMAIN files, files[k].complete, files[k].op[1] = c
                 PROVE  \/ files[k].op[2] <= Len(call[c].receipts)
                        \/ err = "denied" /\ files[k].op[2] = Len(call[c].keys)
      BY <1>1, <2>2 DEF NoSecretAbove
    <3>1. files[k].op[2] \in 1 .. Len(call[c].keys)
      BY DEF CleanInv, FilesOf
    <3>2. err = "failed" => files[k].op[2] # Label(c)
      <4>1. files[k] \in File
        BY <1>0 DEF Typed, DiskTyped
      <4>2. files[k].op \in Op
        BY <4>1 DEF File
      <4>3. files[k].op = <<files[k].op[1], files[k].op[2]>>
        BY <4>2 DEF Op
      <4> QED
        BY <1>6, <4>3 DEF NoSecret
    <3> QED
      BY <1>3, <1>4, <3>1, <3>2
  <2>5. Undoing(c)'
    BY <1>1, <1>2, <1>6, <2>2, <2>3, <2>4 DEF Undoing
  <2> QED
    BY <1>2, <2>2, <2>3, <2>5 DEF CleanInv, Waiting, Creating, BetweenSecrets, Failed
<1>7. CASE reply[c] # Nothing /\ ~reply[c].ok /\ Fail(c, reply[c].code)
  <2>1. Quiet(c) /\ (reply[c].code = "failed" => NoSecret(c, Label(c)))
    BY <1>1, <1>7 DEF CleanInv, Creating
  <2> QED
    BY <1>0, <1>6, <1>7, <2>1, RefusalHasCode
<1>8. CASE Exhausted(c) /\ Fail(c, CodeWhenExhausted(c))
  <2>1. ~submitted[c] => Quiet(c) /\ NoSecret(c, Label(c))
    BY <1>1 DEF CleanInv, Creating, NoFile, NoSecret
  <2> QED
    BY <1>6, <1>8, <2>1 DEF CodeWhenExhausted
<1> QED
  BY <1>5, <1>7, <1>8 DEF create_done

LEMMA UndoSendClean ==
    ASSUME Inv, NEW c \in Clients, CleanInv(c), undo_send(c)
    PROVE  CleanInv(c)'
<1> DEFINE n == Len(call[c].receipts)
           m == RollbackRequest(c, <<c, n>>, tries[c] + 1, call[c].keys[n], call[c].receipts[n])
<1>0. Typed /\ ClientInv(c) /\ CallTyped /\ WireTyped /\ call[c] \in CallRecord
  BY DEF Inv, Typed, CallTyped
<1>1. Send(c, m) /\ call' = call /\ call[c].at = "undo" /\ n > 0
  BY DEF undo_send
<1>2. n <= Len(call[c].keys) /\ call[c].answer = "none"
  BY <1>0, <1>1 DEF ClientInv, Progress
<1>3. /\ n \in Nat /\ call[c].keys[n] \in Keys /\ call[c].receipts[n] \in Receipt
  <2>1. call[c].keys \in Seq(Keys) /\ call[c].receipts \in Seq(Receipt)
    BY <1>0 DEF CallRecord
  <2> QED
    BY <1>1, <1>2, <2>1
<1>4. tries[c] + 1 \in Nat
  BY <1>0 DEF WireTyped
<1>5. m \in Message
  BY <1>3, <1>4 DEF RollbackRequest, Message, Value
<1>6. m.client = c /\ m.action = "rollback" /\ m.key = call[c].keys[n]
  BY DEF RollbackRequest
<1> HIDE DEF m, n
<1>7. awaited[c] = Nothing /\ reply[c] = Nothing /\ files' = files /\ reply' = reply
  BY <1>0, <1>1, <1>5, SendIs DEF CleanInv, Waiting
<1>8. /\ \A i \in DOMAIN queue' : IsCreateOf(c, i)' => i \in DOMAIN queue /\ queue'[i] = queue[i]
      /\ awaited'[c] \in {Nothing, m}
  <2>1. CASE queue' = queue /\ awaited' = awaited
    BY <1>7, <2>1
  <2>2. CASE /\ queue' = Append(queue, m) /\ awaited'[c] = m
             /\ Len(queue) \in Nat /\ Len(queue') = Len(queue) + 1
             /\ DOMAIN queue = 1 .. Len(queue) /\ DOMAIN queue' = 1 .. Len(queue')
             /\ \A i \in DOMAIN queue : queue'[i] = queue[i]
             /\ queue'[Len(queue')] = m
    <3>1. \A i \in DOMAIN queue' : (i \in DOMAIN queue /\ queue'[i] = queue[i]) \/ queue'[i] = m
      BY <2>2
    <3> QED
      BY <1>6, <2>2, <3>1 DEF IsCreateOf
  <2> QED
    BY <1>0, <1>1, <1>5, <2>1, <2>2, SendIs
<1>9. FilesOf(c)' /\ CreatesOf(c)' /\ (Quiet(c) => Quiet(c)')
  BY <1>1, <1>7, <1>8 DEF CleanInv, FilesOf, CreatesOf, Quiet, IsCreateOf, SecretValue
<1>10. Waiting(c)'
  BY <1>5, <1>6, <1>7, <1>8, MessageIsSomething DEF Waiting
<1>11. Undoing(c)'
  BY <1>1, <1>6, <1>7, <1>8, <1>9 DEF CleanInv, Undoing, NoSecretAbove, n
<1> QED
  BY <1>1, <1>2, <1>9, <1>10, <1>11 DEF CleanInv, Creating, BetweenSecrets, Failed

LEMMA UndoDoneClean ==
    ASSUME Inv, NEW c \in Clients, CleanInv(c), undo_done(c)
    PROVE  CleanInv(c)'
<1>0. Typed /\ ClientInv(c) /\ CallTyped /\ WireTyped /\ call[c] \in CallRecord
  BY DEF Inv, Typed, CallTyped
<1>1. files' = files /\ queue' = queue /\ call[c].at = "undo" /\ Fresh(c) /\ call[c].receipts # <<>>
  BY DEF undo_done, disk
<1>2. awaited'[c] = Nothing /\ reply'[c] = Nothing
  BY <1>0, <1>1, FreshIs
<1> DEFINE rs == SubSeq(call[c].receipts, 1, Len(call[c].receipts) - 1)
           clean == call[c].clean /\ reply[c] # Nothing /\ reply[c].ok
           r == [call[c] EXCEPT !.receipts = rs, !.clean = clean]
<1>3. /\ call[c].keys \in Seq(Keys) /\ call[c].receipts \in Seq(Receipt) /\ call[c].answer = "none"
  BY <1>0, <1>1 DEF CallRecord, ClientInv, Progress
<1>4. Len(call[c].keys) \in Nat /\ Len(call[c].receipts) \in Nat
      /\ Len(rs) = Len(call[c].receipts) - 1
  BY <1>1, <1>3
<1>5. call' = [call EXCEPT ![c] = r]
  BY <1>0 DEF undo_done, CallTyped, CallRecord
<1>6. call'[c] = r
  BY <1>0, <1>5 DEF CallTyped
<1>7. /\ call'[c].at = "undo" /\ call'[c].keys = call[c].keys /\ call'[c].receipts = rs
      /\ call'[c].answer = "none" /\ call'[c].err = call[c].err /\ call'[c].token = call[c].token
      /\ call'[c].clean => call[c].clean /\ reply[c] # Nothing /\ reply[c].ok
  BY <1>0, <1>1, <1>3, <1>6 DEF CallRecord
<1>8. FilesOf(c)' /\ CreatesOf(c)' /\ (Quiet(c)' <=> Quiet(c))
  BY <1>1, <1>4, <1>7, SameDisk DEF CleanInv
<1>9. ASSUME call[c].err \in {"failed", "denied"}, call[c].clean, reply[c] # Nothing, reply[c].ok
      PROVE  NoSecretAbove(c, Len(call[c].receipts) - 1, call[c].err)
  <2>1. NoSecretAbove(c, Len(call[c].receipts), call[c].err) /\ NoSecret(c, Len(call[c].receipts))
    BY <1>1, <1>9 DEF CleanInv, Undoing
  <2> SUFFICES ASSUME NEW k \in DOMAIN files, files[k].complete, files[k].op[1] = c
               PROVE  \/ files[k].op[2] <= Len(call[c].receipts) - 1
                      \/ call[c].err = "denied" /\ files[k].op[2] = Len(call[c].keys)
    BY DEF NoSecretAbove
  <2>2. /\ files[k].op[2] \in 1 .. Len(call[c].keys)
        /\ \/ files[k].op[2] <= Len(call[c].receipts)
           \/ call[c].err = "denied" /\ files[k].op[2] = Len(call[c].keys)
    BY <2>1 DEF CleanInv, FilesOf, NoSecretAbove
  <2>3. files[k].op[2] # Len(call[c].receipts)
    <3>1. files[k] \in File
      BY <1>0 DEF Typed, DiskTyped
    <3>2. files[k].op \in Op
      BY <3>1 DEF File
    <3>3. files[k].op = <<files[k].op[1], files[k].op[2]>>
      BY <3>2 DEF Op
    <3> QED
      BY <2>1, <3>3 DEF NoSecret
  <2> QED
    BY <1>4, <2>2, <2>3
<1> HIDE DEF rs, r, clean
<1>10. Undoing(c)'
  <2>1. call'[c].err \in {"failed", "denied"} /\ call'[c].clean =>
            NoSecretAbove(c, Len(call[c].receipts), call[c].err)'
    BY <1>1, <1>4, <1>7, <1>9 DEF NoSecretAbove
  <2> QED
    BY <1>1, <1>2, <1>7, <1>8, <2>1 DEF CleanInv, Undoing
<1> QED
  BY <1>2, <1>7, <1>8, <1>10 DEF CleanInv, Waiting, Creating, BetweenSecrets, Failed

LEMMA ApiCrashClean ==
    ASSUME Inv, ApiCrash, NEW c \in Clients, CleanInv(c)
    PROVE  CleanInv(c)'
<1>0. Typed /\ ClientInv(c) /\ CallTyped /\ call[c] \in CallRecord
  BY DEF Inv, Typed, CallTyped
<1>1. /\ files' = files /\ queue' = queue /\ awaited'[c] = Nothing /\ reply'[c] = Nothing
  BY DEF ApiCrash, disk
<1>2. /\ call'[c].at \in {"idle", "answered", "gone"} /\ call'[c].keys = call[c].keys
      /\ call'[c].token = call[c].token /\ call'[c].answer = call[c].answer
      /\ call'[c].at = "idle" => call[c].at = "idle"
      /\ call'[c].err = call[c].err
  <2>1. call'[c] = IF Active(c) THEN [call[c] EXCEPT !.at = "gone"] ELSE call[c]
    BY DEF ApiCrash
  <2> QED
    BY <1>0, <2>1 DEF CallRecord, Active
<1>3. Len(call[c].keys) \in Nat
  BY <1>0 DEF CallRecord
<1>4. FilesOf(c)' /\ CreatesOf(c)' /\ (Quiet(c)' <=> Quiet(c))
  BY <1>1, <1>2, <1>3, SameDisk DEF CleanInv
<1> QED
  BY <1>1, <1>2, <1>4
  DEF CleanInv, Waiting, Creating, BetweenSecrets, Undoing, Failed, NoSecretAbove

(* The steps of a call are its own.                                        *)
LEMMA CallStepAlone ==
    ASSUME Inv, NEW c \in Clients, CallStep(c)
    PROVE  /\ files' = files /\ Alone(c)
           /\ queue' = queue \/ \E m : queue' = Append(queue, m) /\ m.client = c
<1>0. CallTyped /\ WireTyped
  BY DEF Inv, Typed
<1>1. \A d \in Clients \ {c} : call'[d] = call[d]
  BY <1>0 DEF CallStep, CallTyped, find, draw_key, create_send, wait_ends, create_done, insert,
              returned, reconcile, undo_send, undo_done, undone, Goto, Answer, Fail, AfterLostAck
<1>2. CASE create_send(c)
  <2>1. PICK m : Send(c, m) /\ m.client = c
    BY <1>2 DEF create_send, CreateRequest
  <2> QED
    BY <1>0, <1>1, <2>1 DEF Send, Alone, WireTyped
<1>3. CASE undo_send(c)
  <2>1. PICK m : Send(c, m) /\ m.client = c
    BY <1>3 DEF undo_send, RollbackRequest
  <2> QED
    BY <1>0, <1>1, <2>1 DEF Send, Alone, WireTyped
<1>4. CASE wait_ends(c)
  BY <1>0, <1>1, <1>4 DEF wait_ends, GiveUp, Alone, WireTyped, disk
<1>5. CASE (\E key \in Keys : draw_key(c, key)) \/ create_done(c) \/ undo_done(c)
  <2>1. Fresh(c) /\ files' = files /\ queue' = queue
    BY <1>5 DEF draw_key, create_done, undo_done, disk
  <2> QED
    BY <1>0, <1>1, <2>1 DEF Fresh, Alone, WireTyped
<1>6. CASE find(c) \/ insert(c) \/ returned(c) \/ reconcile(c) \/ undone(c)
  BY <1>1, <1>6
  DEF find, insert, returned, reconcile, undone, Alone, brokerVars, disk, wire
<1> QED
  BY <1>2, <1>3, <1>4, <1>5, <1>6 DEF CallStep

AllClean == \A c \in Clients : CleanInv(c)

(* A step that leaves the calls, the disk and the wire alone.              *)
LEMMA IdleClean ==
    ASSUME Inv, Inv', AllClean, UNCHANGED <<brokerVars, call>>
    PROVE  AllClean'
<1> SUFFICES ASSUME NEW c \in Clients PROVE CleanInv(c)'
  BY DEF AllClean
<1>1. /\ files' = files /\ queue' = queue /\ awaited' = awaited /\ reply' = reply
      /\ tries' = tries /\ submitted' = submitted /\ call' = call /\ CleanInv(c)
  BY DEF brokerVars, disk, wire, AllClean
<1>2. LeftOf(c, 0)
  <2>1. queue \in Seq(Message)
    BY DEF Inv, Typed, DiskTyped
  <2> QED
    BY <1>1, <2>1 DEF LeftOf
<1>3. \A k \in DOMAIN files' : OldFile(k)
  BY <1>1 DEF OldFile
<1> QED
  BY <1>1, <1>2, <1>3, CleanKept DEF Inv

LEMMA CleanStep == Inv /\ Inv' /\ AllClean /\ [Next]_vars => AllClean'
<1> SUFFICES ASSUME Inv, Inv', AllClean, [Next]_vars PROVE AllClean'
  OBVIOUS
<1>0. Typed /\ Typed' /\ CallTyped /\ \A c \in Clients : CleanInv(c)
  BY DEF Inv, Typed, AllClean
<1>1. CASE UNCHANGED vars
  BY <1>1, IdleClean DEF vars
<1>2. ASSUME NEW t \in Tokens, test_connection(t) \/ expire_or_cancel(t) PROVE AllClean'
  BY <1>2, IdleClean DEF test_connection, expire_or_cancel
<1>3. ASSUME NEW c \in Clients, NEW s \in Sources, NEW t \in Tokens, register(c, s, t)
      PROVE  AllClean'
  <2>1. CleanInv(c)'
    BY <1>0, <1>3, RegisterClean
  <2>2. files' = files /\ queue' = queue /\ Alone(c)
    <3>1. \A d \in Clients \ {c} : call'[d] = call[d]
      BY <1>0, <1>3 DEF register, Answer, CallTyped
    <3> QED
      BY <1>3, <3>1 DEF register, Alone, brokerVars, disk, wire
  <2>3. \A d \in Clients \ {c} : CleanInv(d)'
    BY <1>0, <2>2, OthersClean
  <2> QED
    BY <2>1, <2>3 DEF AllClean
<1>4. ASSUME NEW c \in Clients, CallStep(c) PROVE AllClean'
  <2>1. CleanInv(c)'
    BY <1>0, <1>4, FindClean, DrawKeyClean, CreateSendClean, WaitEndsClean, CreateDoneClean,
       InsertClean, AnswerClean, UndoSendClean, UndoDoneClean DEF CallStep
  <2>2. \A d \in Clients \ {c} : CleanInv(d)'
    BY <1>0, <1>4, CallStepAlone, OthersClean
  <2> QED
    BY <2>1, <2>2 DEF AllClean
<1>5. ASSUME NEW c \in Clients, commit_late(c) PROVE AllClean'
  BY <1>5, IdleClean DEF commit_late
<1>6. CASE BrokerNext /\ UNCHANGED <<pending, issued, call, rows, late>>
  BY <1>0, <1>6, BrokerClean DEF AllClean
<1>7. CASE ApiCrash
  BY <1>0, <1>7, ApiCrashClean DEF AllClean
<1> QED
  BY <1>1, <1>2, <1>3, <1>4, <1>5, <1>6, <1>7 DEF Next

(***************************************************************************)
(* A definite failure of onboarding.py leaves nothing: no complete secret  *)
(* of the call is on the disk and no attempt of it that would create one   *)
(* is still in the broker's queue, however often it was retried, given up  *)
(* or overtaken by a crash.  The one exception is stated in the property:  *)
(* the last secret, whose completion the broker denied on a disk error.    *)
(***************************************************************************)
THEOREM NothingLeft == Spec => []FailureLeavesNoSecret
<1>1. Init => AllClean
  <2> SUFFICES ASSUME Init, NEW c \in Clients PROVE CleanInv(c)
    BY DEF AllClean
  <2>1. /\ files = EarlierFiles /\ queue = <<>> /\ awaited[c] = Nothing /\ reply[c] = Nothing
        /\ call[c] = NewCall
    BY DEF Init, BrokerInit
  <2>2. \A k \in DOMAIN files : files[k].op[1] # c
    BY <2>1, EarlierAssumption DEF EarlierFiles
  <2>3. FilesOf(c) /\ CreatesOf(c) /\ Quiet(c)
    BY <2>1, <2>2 DEF FilesOf, CreatesOf, Quiet
  <2> QED
    BY <2>1, <2>3 DEF NewCall, CleanInv, Waiting, Creating, BetweenSecrets, Undoing, Failed
<1>2. AllClean => FailureLeavesNoSecret
  <2> SUFFICES ASSUME NEW c \in Clients, CleanInv(c), call[c].answer = "failed"
               PROVE  /\ \A k \in DOMAIN files : files[k].complete /\ files[k].op[1] = c =>
                             call[c].err = "denied" /\ files[k].op[2] = Len(call[c].keys)
                      /\ \A i \in DOMAIN queue : queue[i].client = c => queue[i].action # "create"
    BY DEF AllClean, FailureLeavesNoSecret
  <2>1. Quiet(c) /\ NoSecretAbove(c, 0, call[c].err) /\ FilesOf(c)
    BY DEF CleanInv, Failed
  <2>2. ASSUME NEW k \in DOMAIN files, files[k].complete, files[k].op[1] = c
        PROVE  call[c].err = "denied" /\ files[k].op[2] = Len(call[c].keys)
    <3>1. /\ \/ files[k].op[2] <= 0
             \/ call[c].err = "denied" /\ files[k].op[2] = Len(call[c].keys)
          /\ files[k].op[2] \in 1 .. Len(call[c].keys)
      BY <2>1, <2>2 DEF NoSecretAbove, FilesOf
    <3> QED
      BY <3>1
  <2> QED
    BY <2>1, <2>2 DEF Quiet, IsCreateOf
<1> QED
  BY <1>1, <1>2, CleanStep, Invariance, PTL DEF Spec
=============================================================================
