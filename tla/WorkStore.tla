------------------------------ MODULE WorkStore ------------------------------
(***************************************************************************)
(* Operative work, src/crates/foundation/work/src/lib.rs: cases and their  *)
(* participants, tasks with dependencies and checklists, queues that are   *)
(* claimed from, and escalation of tasks that break their SLA.             *)
(*                                                                         *)
(* Every call is atomic; what interleaves are the principals who make the  *)
(* calls, in any order, and the clock.  Operations carry the names of the  *)
(* providers.  The n-th entry of a sequence has the id n.                  *)
(*                                                                         *)
(* Abstracted: one organization; the type and the priority of a task, by   *)
(* which SLA targets are matched, are one kind; breaches are escalated as  *)
(* of now, never as of another instant.  Left out: due_at, which only      *)
(* task_overdue reads, and notes, decisions and work logs, which are       *)
(* recorded and listed.                                                    *)
(*                                                                         *)
(* Definitions named Bug... are not the code: each is a mistake that a     *)
(* property below must notice when it replaces the definition after it.    *)
(***************************************************************************)
EXTENDS Naturals, Sequences

CONSTANTS
    Principals, Groups, Kinds, Queues,
    AcceptedKinds,       \* AcceptedKinds[q]: accepted_task_types of queue q, {} for None
    Nobody,              \* an Option that is None
    Resolutions,         \* values of resolution_minutes
    MaxCases, MaxTasks, MaxItems, MaxTargets, MaxParticipants, MaxWorkTime

ASSUME WorkStoreAssumption ==
    /\ Nobody \notin Principals \cup Groups \cup Kinds \cup Queues
    /\ AcceptedKinds \in [Queues -> SUBSET Kinds]
    /\ Resolutions \subseteq Nat
    /\ {MaxCases, MaxTasks, MaxItems, MaxTargets, MaxParticipants, MaxWorkTime}
         \subseteq Nat

VARIABLES
    cases, tasks, dependencies, checklist, queues, slaTargets, participants,
    workClock

taskVars == <<tasks, dependencies, checklist>>
workVars == <<cases, taskVars, queues, slaTargets, participants, workClock>>

CaseState == {"Open", "OnHold", "Resolved", "Closed", "Cancelled"}
TaskState == {"Open", "InProgress", "Blocked", "Completed", "Cancelled"}

Optional(S) == S \cup {Nobody}

Task == [case : Nat,               \* 0: no case
         kind : Kinds, state : TaskState, created : Nat,
         queue : Optional(Queues), principal : Optional(Principals),
         group : Optional(Groups)]

(* late: when it was added the task was under way or at its end (history). *)
Dependency == [task : Nat, on : Nat, late : BOOLEAN]
ChecklistItem == [task : Nat, required : BOOLEAN, completed : BOOLEAN]
SlaTarget == [kind : Optional(Kinds), resolution : Resolutions,
              queue : Optional(Queues)]

(* removed: 0 for None; instants begin at 1.                               *)
Participant == [case : Nat, added : Nat, removed : Nat]

WorkTypeOK ==
    /\ cases \in Seq(CaseState)
    /\ tasks \in Seq(Task)
    /\ \A t \in DOMAIN tasks : tasks[t].case \in 0..Len(cases)
    /\ dependencies \subseteq Dependency
    /\ \A d \in dependencies : {d.task, d.on} \subseteq DOMAIN tasks /\ d.task # d.on
    /\ checklist \in Seq(ChecklistItem)
    /\ \A i \in DOMAIN checklist : checklist[i].task \in DOMAIN tasks
    /\ queues \subseteq Queues
    /\ slaTargets \in Seq(SlaTarget)
    /\ participants \in Seq(Participant)
    /\ \A p \in DOMAIN participants : participants[p].case \in DOMAIN cases
    /\ workClock \in Nat

WorkInit ==
    /\ cases = <<>> /\ tasks = <<>> /\ checklist = <<>> /\ slaTargets = <<>>
    /\ participants = <<>>
    /\ dependencies = {} /\ queues = {}
    /\ workClock = 1

Terminal(state) == state \in {"Completed", "Cancelled"}

-----------------------------------------------------------------------------
(* CaseProvider and ParticipantProvider.                                   *)

CaseCreate ==
    /\ Len(cases) < MaxCases
    /\ cases' = Append(cases, "Open")
    /\ UNCHANGED <<taskVars, queues, slaTargets, participants, workClock>>

CaseAllows ==
    [Open |-> {"OnHold", "Resolved", "Cancelled"},
     OnHold |-> {"Open", "Resolved", "Cancelled"},
     Resolved |-> {"Open", "Closed"},
     Closed |-> {}, Cancelled |-> {}]

CaseTransition(c, state) ==
    /\ state \in CaseAllows[cases[c]]
    /\ cases' = [cases EXCEPT ![c] = state]
    /\ UNCHANGED <<taskVars, queues, slaTargets, participants, workClock>>

ParticipantAdd(c) ==
    /\ Len(participants) < MaxParticipants
    /\ participants' = Append(participants,
                              [case |-> c, added |-> workClock, removed |-> 0])
    /\ UNCHANGED <<cases, taskVars, queues, slaTargets, workClock>>

(* One who was removed may be removed again.                               *)
ParticipantRemove(p) ==
    /\ participants' = [participants EXCEPT ![p].removed = workClock]
    /\ UNCHANGED <<cases, taskVars, queues, slaTargets, workClock>>

-----------------------------------------------------------------------------
(* TaskProvider and ChecklistProvider.                                     *)

(* Neither the queue nor the assignees that a new task names are checked.  *)
TaskCreate(task) ==
    /\ Len(tasks) < MaxTasks
    /\ task.case \in 0..Len(cases)
    /\ tasks' = Append(tasks, task)
    /\ UNCHANGED <<cases, dependencies, checklist, queues, slaTargets, participants,
                   workClock>>

TaskAssign(t, principal, group) ==
    /\ (principal = Nobody) # (group = Nobody)
    /\ tasks' = [tasks EXCEPT ![t].principal = principal, ![t].group = group]
    /\ UNCHANGED <<cases, dependencies, checklist, queues, slaTargets, participants,
                   workClock>>

BugTaskAllows ==
    [Open |-> {"InProgress", "Blocked", "Completed", "Cancelled"},
     InProgress |-> {"Blocked", "Completed", "Cancelled"},
     Blocked |-> {"Open", "InProgress", "Cancelled"},
     Completed |-> {}, Cancelled |-> {"Open"}]

TaskAllows ==
    [Open |-> {"InProgress", "Blocked", "Completed", "Cancelled"},
     InProgress |-> {"Blocked", "Completed", "Cancelled"},
     Blocked |-> {"Open", "InProgress", "Cancelled"},
     Completed |-> {}, Cancelled |-> {}]

BugOpenItems(t) ==
    {i \in DOMAIN checklist : checklist[i].task = t /\ ~checklist[i].completed}

OpenItems(t) ==
    {i \in DOMAIN checklist :
       checklist[i].task = t /\ checklist[i].required /\ ~checklist[i].completed}

WaitsFor(t) ==
    {d.on : d \in {e \in dependencies :
                     e.task = t /\ tasks[e.on].state # "Completed"}}

BugTaskTransition(t, state) ==
    /\ state \in TaskAllows[tasks[t].state]
    /\ state = "Completed" => OpenItems(t) = {} /\ WaitsFor(t) = {}
    /\ tasks' = [tasks EXCEPT ![t].state = state]
    /\ UNCHANGED <<cases, dependencies, checklist, queues, slaTargets,
                   participants, workClock>>

TaskTransition(t, state) ==
    /\ state \in TaskAllows[tasks[t].state]
    /\ state = "Completed" => OpenItems(t) = {}
    /\ state \in {"InProgress", "Completed"} => WaitsFor(t) = {}
    /\ tasks' = [tasks EXCEPT ![t].state = state]
    /\ UNCHANGED <<cases, dependencies, checklist, queues, slaTargets,
                   participants, workClock>>

TaskAddDependency(t, on) ==
    /\ t # on
    /\ dependencies' = dependencies \cup
         {[task |-> t, on |-> on, late |-> tasks[t].state \notin {"Open", "Blocked"}]}
    /\ UNCHANGED <<cases, tasks, checklist, queues, slaTargets, participants,
                   workClock>>

ChecklistAdd(t, required) ==
    /\ Len(checklist) < MaxItems
    /\ checklist' = Append(checklist,
                           [task |-> t, required |-> required, completed |-> FALSE])
    /\ UNCHANGED <<cases, tasks, dependencies, queues, slaTargets,
                   participants, workClock>>

ChecklistComplete(i) ==
    /\ checklist' = [checklist EXCEPT ![i].completed = TRUE]
    /\ UNCHANGED <<cases, tasks, dependencies, queues, slaTargets,
                   participants, workClock>>

-----------------------------------------------------------------------------
(* QueueProvider.                                                          *)

QueueCreate(q) ==
    /\ q \notin queues
    /\ queues' = queues \cup {q}
    /\ UNCHANGED <<cases, taskVars, slaTargets, participants, workClock>>

Moved(task, q) == [task EXCEPT !.queue = q, !.principal = Nobody]

QueueEnqueue(q, t) ==
    /\ q \in queues
    /\ AcceptedKinds[q] = {} \/ tasks[t].kind \in AcceptedKinds[q]
    /\ tasks' = [tasks EXCEPT ![t] = Moved(@, q)]
    /\ UNCHANGED <<cases, dependencies, checklist, queues, slaTargets, participants,
                   workClock>>

(* Whether the task has an assignee or is at its end is not asked.         *)
Claimed(task, principal) == [task EXCEPT !.principal = principal, !.queue = Nobody]

QueueClaim(q, t, principal) ==
    /\ q \in queues
    /\ tasks[t].queue = q
    /\ tasks' = [tasks EXCEPT ![t] = Claimed(@, principal)]
    /\ UNCHANGED <<cases, dependencies, checklist, queues, slaTargets, participants,
                   workClock>>

-----------------------------------------------------------------------------
(* SlaProvider.                                                            *)

SlaAddTarget(target) ==
    /\ Len(slaTargets) < MaxTargets
    /\ slaTargets' = Append(slaTargets, target)
    /\ UNCHANGED <<cases, taskVars, queues, participants, workClock>>

(* match_sla takes the first target that fits.                             *)
Matches(task, n) == slaTargets[n].kind \in {Nobody, task.kind}

MatchedTarget(task, n) ==
    /\ Matches(task, n)
    /\ \A m \in 1..n - 1 : ~Matches(task, m)

BugBreached(task, n) ==
    /\ task.state = "Open"
    /\ workClock > task.created + slaTargets[n].resolution

Breached(task, n) ==
    /\ ~Terminal(task.state)
    /\ workClock > task.created + slaTargets[n].resolution

(* The queues, one at most, to which task t is to be escalated now.        *)
EscalatesTo(t) ==
    {slaTargets[n].queue :
       n \in {m \in DOMAIN slaTargets :
               MatchedTarget(tasks[t], m) /\ Breached(tasks[t], m)}} \ {Nobody}

(* Neither that the queue exists nor that it accepts the task is asked.    *)
SlaEscalateBreaches ==
    /\ tasks' = [t \in DOMAIN tasks |->
                   IF EscalatesTo(t) = {} THEN tasks[t]
                   ELSE Moved(tasks[t], CHOOSE q \in EscalatesTo(t) : TRUE)]
    /\ UNCHANGED <<cases, dependencies, checklist, queues, slaTargets, participants,
                   workClock>>

WorkTick ==
    /\ workClock < MaxWorkTime
    /\ workClock' = workClock + 1
    /\ UNCHANGED <<cases, taskVars, queues, slaTargets, participants>>

-----------------------------------------------------------------------------
NewTasks ==
    [case : 0..MaxCases, kind : Kinds, state : {"Open"}, created : {workClock},
     queue : Optional(Queues), principal : Optional(Principals),
     group : Optional(Groups)]

ManageCases ==
    \/ CaseCreate
    \/ \E c \in DOMAIN cases :
         \/ \E state \in CaseState : CaseTransition(c, state)
         \/ ParticipantAdd(c)
    \/ \E p \in DOMAIN participants : ParticipantRemove(p)

ManageTasks ==
    \/ \E task \in NewTasks : TaskCreate(task)
    \/ \E t \in DOMAIN tasks :
         \/ \E principal \in Optional(Principals), group \in Optional(Groups) :
              TaskAssign(t, principal, group)
         \/ \E state \in TaskState : TaskTransition(t, state)
         \/ \E on \in DOMAIN tasks : TaskAddDependency(t, on)
         \/ \E required \in BOOLEAN : ChecklistAdd(t, required)
    \/ \E i \in DOMAIN checklist : ChecklistComplete(i)

ManageQueues ==
    \/ \E q \in Queues : QueueCreate(q)
    \/ \E q \in Queues, t \in DOMAIN tasks :
         \/ QueueEnqueue(q, t)
         \/ \E principal \in Principals : QueueClaim(q, t, principal)
    \/ \E target \in SlaTarget : SlaAddTarget(target)
    \/ SlaEscalateBreaches

WorkNext == ManageCases \/ ManageTasks \/ ManageQueues \/ WorkTick

(* Breaches are escalated now and then.                                    *)
WorkSpec == WorkInit /\ [][WorkNext]_workVars /\ WF_workVars(SlaEscalateBreaches)

-----------------------------------------------------------------------------
(* A task that is under way or completed has had all completed that it     *)
(* depended on when it began, and keeps it so.                             *)
StartedAfterPrerequisites ==
    \A d \in dependencies :
      ~d.late /\ tasks[d.task].state \in {"InProgress", "Completed"}
        => tasks[d.on].state = "Completed"

(* Every state is well formed, and no task began too early.                *)
WorkInv == WorkTypeOK /\ StartedAfterPrerequisites

(* A set of tasks none of which can complete, as each is cancelled or      *)
(* waits for another of them.                                              *)
Stuck(t) ==
    \E S \in SUBSET DOMAIN tasks :
      /\ t \in S
      /\ \A u \in S :
           /\ tasks[u].state # "Completed"
           /\ \/ tasks[u].state = "Cancelled"
              \/ WaitsFor(u) \cap S # {}

(* Nothing resolves such a deadlock: dependencies are refused only of a    *)
(* task on itself, are never removed, and a cancelled task blocks for ever.*)
StuckForGood == [][\A t \in DOMAIN tasks : Stuck(t) => Stuck(t)']_workVars

(* Every other task comes to its end, however it is blocked, reopened,     *)
(* queued, claimed and escalated meanwhile, if somebody works: what is     *)
(* blocked is reopened, required items are ticked off, and a task that can *)
(* be completed again and again is completed in the end.                   *)
Finish(t) == t \in DOMAIN tasks /\ TaskTransition(t, "Completed")
Reopen(t) == t \in DOMAIN tasks /\ TaskTransition(t, "Open")
TickOff(i) == i \in DOMAIN checklist /\ checklist[i].required /\ ChecklistComplete(i)

Worked ==
    /\ \A t \in 1..MaxTasks : SF_workVars(Finish(t)) /\ WF_workVars(Reopen(t))
    /\ \A i \in 1..MaxItems : WF_workVars(TickOff(i))

AtEnd(t) == t \in DOMAIN tasks /\ (Terminal(tasks[t].state) \/ Stuck(t))

WorkFinishes ==
    Worked => \A t \in 1..MaxTasks : (t \in DOMAIN tasks) ~> AtEnd(t)

(* A task that is not finished when its time by the first target that fits *)
(* it is over ends up with nobody in the escalation queue of that target,  *)
(* unless it is finished first, and however often it is claimed.           *)
Overdue(t, q) ==
    /\ t \in DOMAIN tasks
    /\ ~Terminal(tasks[t].state)
    /\ \E n \in DOMAIN slaTargets :
         /\ slaTargets[n].queue = q
         /\ MatchedTarget(tasks[t], n)
         /\ workClock > tasks[t].created + slaTargets[n].resolution

Escalated(t, q) ==
    /\ t \in DOMAIN tasks
    /\ \/ tasks[t].principal = Nobody /\ tasks[t].queue = q
       \/ Terminal(tasks[t].state)

OverdueIsEscalated ==
    \A t \in 1..MaxTasks, q \in Queues : Overdue(t, q) ~> Escalated(t, q)

=============================================================================
