------------------------------ MODULE TaskQueue ------------------------------
(***************************************************************************)
(* Tasks of whimo/contrib/tasks/notifications.py and users.py on their way   *)
(* through the broker and the Celery workers: pushes to phones, e-mails and  *)
(* text messages.  With Celery's defaults a task is acknowledged when it      *)
(* begins, so a worker that dies takes it along, and a task that raises is   *)
(* put back and run again from its first line.                              *)
(***************************************************************************)
EXTENDS Naturals, FiniteSets, Functions

CONSTANTS
  Users, Trades,
  Notices,                       \* primary keys of table notifications
  Phones,                        \* devices that receive GCM pushes
  Tablets,                       \* devices that receive APNS pushes
  Slots,                         \* bound: tasks in the broker and running
  Concurrency,                   \* tasks that run at the same time
  MaxRetries,                    \* option max_retries of every task
  MaxFaults,                     \* bound: failures and deaths of one behaviour
  NoUser, NoTrade, NoNotice

ASSUME QueueAssumption ==
  /\ MaxRetries \in Nat /\ MaxFaults \in Nat /\ Concurrency \in Nat \ {0}
  /\ Phones \cap Tablets = {}
  /\ NoUser \notin Users /\ NoTrade \notin Trades /\ NoNotice \notin Notices
  /\ IsFiniteSet(Notices) /\ IsFiniteSet(Slots)

\* Registration ids are no mail addresses.
ASSUME DeviceAssumption == (Phones \cup Tablets) \cap Users = {}

Devices == Phones \cup Tablets
Kinds == {"gcm", "apns", "mail"}
Types == {"transaction_pending", "geodata_missing", "geodata_updated"}

\* A row per user and type, made with the user; the model keeps those enabled.
SettingsTable == SUBSET (Users \X Types)

VARIABLES
  owner,      \* users whose devices these are, NoUser before they are added
  enabled,    \* rows of notification_settings with is_enabled
  task,       \* what each slot holds
  delivered,  \* how often each notification reached each device or mailbox
  attempts,   \* how often a task for a notification was put into the broker
  faults      \* failures and deaths so far

queueVars == <<owner, enabled, task, delivered, attempts, faults>>

-----------------------------------------------------------------------------
\* The message carries the whole notification, not a key.
NoTask == [kind |-> "mail", state |-> "free", notice |-> NoNotice, type |-> "transaction_pending",
           receiver |-> NoUser, tries |-> 0, left |-> {}]

Free == {s \in Slots : task[s].state = "free"}

Fresh(kind, n, row) ==
  [kind |-> kind, state |-> "queued", notice |-> n, type |-> row.type,
   receiver |-> row.receiver, tries |-> 0, left |-> {}]

\* delay() of one task for each member of messages, pairs of a kind and a notice;
\* which slots they take is of no consequence.
Enqueue(messages, rowOf) ==
  LET slot == CHOOSE f \in Injection(messages, Free) : TRUE IN
    /\ Cardinality(messages) <= Cardinality(Free)
    /\ task' = [s \in Slots |->
                  IF \E m \in messages : slot[m] = s
                  THEN LET m == CHOOSE k \in messages : slot[k] = s
                       IN Fresh(m[1], m[2], rowOf[m[2]])
                  ELSE task[s]]
    /\ attempts' = [a \in DOMAIN attempts |-> attempts[a] + (IF a \in messages THEN 1 ELSE 0)]

\* Who a task sends to: the devices of its kind, or the mailbox of the user.
Targets(t) ==
  CASE t.kind = "gcm"  -> {d \in Phones : owner[d] = t.receiver}
    [] t.kind = "apns" -> {d \in Tablets : owner[d] = t.receiver}
    [] t.kind = "mail" -> {t.receiver}

-----------------------------------------------------------------------------
\* Mutant: a task that has nobody to send to raises.
TaskBeginRaising(s) ==
  /\ task[s].state = "queued"
  /\ Cardinality({r \in Slots : task[r].state = "running"}) < Concurrency
  /\ Targets(task[s]) # {}
  /\ task' = [task EXCEPT ![s].state = "running", ![s].left = Targets(task[s])]
  /\ UNCHANGED <<owner, enabled, delivered, attempts, faults>>

\* A worker takes a task.  The setting is looked up again, and the devices are
\* read once; mail has no setting.
TaskBegin(s) ==
  /\ task[s].state = "queued"
  /\ Cardinality({r \in Slots : task[r].state = "running"}) < Concurrency
  /\ task' = [task EXCEPT ![s] =
       IF (task[s].kind # "mail" /\ <<task[s].receiver, task[s].type>> \notin enabled)
            \/ Targets(task[s]) = {}
       THEN NoTask
       ELSE [@ EXCEPT !.state = "running", !.left = Targets(task[s])]]
  /\ UNCHANGED <<owner, enabled, delivered, attempts, faults>>

Delivered(s, d) == delivered' = [delivered EXCEPT ![<<task[s].notice, d>>] = @ + 1]

\* The gateway takes the message; the task ends with its last target.
TaskSends(s, d) ==
  /\ task[s].state = "running"
  /\ d \in task[s].left
  /\ Delivered(s, d)
  /\ task' = [task EXCEPT ![s] = IF @.left = {d} THEN NoTask ELSE [@ EXCEPT !.left = task[s].left \ {d}]]
  /\ UNCHANGED <<owner, enabled, attempts, faults>>

Fault == faults < MaxFaults /\ faults' = faults + 1

\* Mutant: retries without end.
RetriedForever(s) ==
  /\ task' = [task EXCEPT ![s].state = "queued", ![s].left = {}, ![s].tries = @ + 1]
  /\ attempts' = [attempts EXCEPT ![<<task[s].kind, task[s].notice>>] = @ + 1]

Retried(s) ==
  IF task[s].tries < MaxRetries
  THEN /\ task' = [task EXCEPT ![s].state = "queued", ![s].left = {}, ![s].tries = @ + 1]
       /\ attempts' = [attempts EXCEPT ![<<task[s].kind, task[s].notice>>] = @ + 1]
  ELSE /\ task' = [task EXCEPT ![s] = NoTask]
       /\ UNCHANGED attempts

\* Mutant: the loop catches the error and tries the same device again.
TaskTriesAgain(s, d) ==
  /\ task[s].state = "running"
  /\ d \in task[s].left
  /\ Delivered(s, d)
  /\ Fault
  /\ UNCHANGED <<owner, enabled, task, attempts>>

\* The call raises, before the gateway has the message or after: autoretry puts
\* the task back, or gives up.
TaskFails(s, d) ==
  /\ task[s].state = "running"
  /\ d \in task[s].left
  /\ UNCHANGED delivered \/ Delivered(s, d)
  /\ Retried(s)
  /\ Fault
  /\ UNCHANGED <<owner, enabled>>

\* The worker dies.
TaskLost(s) ==
  /\ task[s].state = "running"
  /\ task' = [task EXCEPT ![s] = NoTask]
  /\ Fault
  /\ UNCHANGED <<owner, enabled, delivered, attempts>>

TaskStep(s) ==
  \/ TaskBegin(s)
  \/ \E d \in Devices \cup Users : TaskSends(s, d) \/ TaskFails(s, d)
  \/ TaskLost(s)

-----------------------------------------------------------------------------
\* update_notification_settings: one transaction enables, then disables.
UpdateSettings(u, on, off) ==
  /\ enabled' = (enabled \cup ({u} \X on)) \ ({u} \X off)
  /\ UNCHANGED <<owner, task, delivered, attempts, faults>>

\* add_device: a registration id that is known, whoever has it, is refused.
AddDevice(u, d) ==
  /\ owner[d] = NoUser
  /\ owner' = [owner EXCEPT ![d] = u]
  /\ UNCHANGED <<enabled, task, delivered, attempts, faults>>

QueueTypeOK ==
  /\ owner \in [Devices -> Users \cup {NoUser}]
  /\ enabled \in SettingsTable
  /\ task \in [Slots -> {NoTask} \cup
       [kind : Kinds, state : {"queued", "running"}, notice : Notices, type : Types,
        receiver : Users, tries : 0 .. MaxRetries, left : SUBSET (Devices \cup Users)]]
  /\ delivered \in [Notices \X (Devices \cup Users) -> Nat]
  /\ attempts \in [Kinds \X Notices -> Nat]
  /\ faults \in 0 .. MaxFaults

QueueInit ==
  /\ owner \in [Devices -> Users \cup {NoUser}]
  /\ enabled = Users \X Types
  /\ task = [s \in Slots |-> NoTask]
  /\ delivered = [p \in Notices \X (Devices \cup Users) |-> 0]
  /\ attempts = [a \in Kinds \X Notices |-> 0]
  /\ faults = 0
=============================================================================
