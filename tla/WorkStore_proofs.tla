-------------------------- MODULE WorkStore_proofs --------------------------
(***************************************************************************)
(* For any principals, kinds, queues, targets and bounds: WorkStore is of  *)
(* its type, tasks begin after what they depend on, and a deadlock of      *)
(* dependencies is for good.                                               *)
(***************************************************************************)
EXTENDS WorkStore, TLAPS

(* The last conjuncts of WorkTypeOK, about tasks and about the rest.       *)
TasksOK ==
    /\ tasks \in Seq(Task)
    /\ \A t \in DOMAIN tasks : tasks[t].case \in 0..Len(cases)

DependenciesOK ==
    /\ dependencies \subseteq Dependency
    /\ \A d \in dependencies : {d.task, d.on} \subseteq DOMAIN tasks /\ d.task # d.on

ChecklistOK ==
    /\ checklist \in Seq(ChecklistItem)
    /\ \A i \in DOMAIN checklist : checklist[i].task \in DOMAIN tasks

ParticipantsOK ==
    /\ participants \in Seq(Participant)
    /\ \A p \in DOMAIN participants : participants[p].case \in DOMAIN cases

OthersOK ==
    /\ cases \in Seq(CaseState) /\ queues \subseteq Queues
    /\ slaTargets \in Seq(SlaTarget) /\ workClock \in Nat

LEMMA TypeInParts ==
    WorkTypeOK <=>
      TasksOK /\ DependenciesOK /\ ChecklistOK /\ ParticipantsOK /\ OthersOK
BY DEF WorkTypeOK, TasksOK, DependenciesOK, ChecklistOK, ParticipantsOK, OthersOK

-----------------------------------------------------------------------------
(* What steps do to the tasks.                                             *)

(* The same tasks, each in the state it was in and of the same case.       *)
SameStates ==
    /\ tasks' \in Seq(Task) /\ DOMAIN tasks' = DOMAIN tasks
    /\ \A t \in DOMAIN tasks :
         tasks'[t].state = tasks[t].state /\ tasks'[t].case = tasks[t].case

LEMMA SameTasks == TasksOK /\ UNCHANGED tasks => SameStates
BY DEF TasksOK, SameStates

LEMMA ReplacedTask ==
    ASSUME TasksOK, NEW t \in DOMAIN tasks, NEW task \in Task,
           tasks' = [tasks EXCEPT ![t] = task],
           task.state = tasks[t].state, task.case = tasks[t].case
    PROVE  SameStates
BY DEF TasksOK, SameStates

LEMMA SameStatesKeepsTasks ==
    ASSUME TasksOK, SameStates, UNCHANGED cases PROVE TasksOK'
BY DEF TasksOK, SameStates

LEMMA SameStatesKeepsOthers ==
    ASSUME SameStates, UNCHANGED <<dependencies, checklist>>
    PROVE  /\ DependenciesOK => DependenciesOK'
           /\ ChecklistOK => ChecklistOK'
           /\ DependenciesOK /\ StartedAfterPrerequisites => StartedAfterPrerequisites'
BY DEF SameStates, DependenciesOK, ChecklistOK, StartedAfterPrerequisites

LEMMA AppendedTask ==
    ASSUME TasksOK, NEW task \in Task, task.case \in 0..Len(cases),
           tasks' = Append(tasks, task), UNCHANGED cases
    PROVE  /\ TasksOK' /\ DOMAIN tasks \subseteq DOMAIN tasks'
           /\ \A t \in DOMAIN tasks : tasks'[t] = tasks[t]
BY DEF TasksOK

-----------------------------------------------------------------------------
(* Records and options of the operations.                                  *)

LEMMA Records ==
    ASSUME NEW task \in Task
    PROVE  /\ \A q \in Optional(Queues) : Moved(task, q) \in Task
           /\ \A q : /\ Moved(task, q).state = task.state
                     /\ Moved(task, q).case = task.case
           /\ \A p \in Principals :
                /\ Claimed(task, p) \in Task
                /\ Claimed(task, p).state = task.state
                /\ Claimed(task, p).case = task.case
           /\ \A s \in TaskState : [task EXCEPT !.state = s] \in Task
           /\ \A p \in Optional(Principals), g \in Optional(Groups) :
                [task EXCEPT !.principal = p, !.group = g] \in Task
BY DEF Task, Moved, Claimed, Optional

LEMMA Allowed ==
    /\ TaskAllows["Completed"] = {} /\ TaskAllows["Cancelled"] = {}
    /\ \A s \in TaskState : TaskAllows[s] \subseteq TaskState
BY DEF TaskAllows, TaskState

LEMMA EscalationQueues ==
    ASSUME OthersOK, NEW t
    PROVE  EscalatesTo(t) \subseteq Queues
<1>1. ASSUME NEW n \in DOMAIN slaTargets PROVE slaTargets[n].queue \in Queues \cup {Nobody}
  <2>1. slaTargets[n] \in SlaTarget
    BY DEF OthersOK
  <2> QED
    BY <2>1 DEF SlaTarget, Optional
<1> QED
  BY <1>1 DEF EscalatesTo

-----------------------------------------------------------------------------
(* Operations that leave the states of tasks alone.                        *)

AllBut == <<cases, dependencies, checklist, queues, slaTargets, participants, workClock>>

LEMMA SameStatesKeepInv ==
    ASSUME WorkInv, SameStates, UNCHANGED AllBut PROVE WorkInv'
<1>1. TasksOK /\ DependenciesOK /\ ChecklistOK /\ ParticipantsOK /\ OthersOK
  BY TypeInParts DEF WorkInv
<1>2. TasksOK' /\ DependenciesOK' /\ ChecklistOK' /\ StartedAfterPrerequisites'
  BY <1>1, SameStatesKeepsTasks, SameStatesKeepsOthers DEF AllBut, WorkInv
<1>3. ParticipantsOK' /\ OthersOK'
  BY <1>1 DEF AllBut, ParticipantsOK, OthersOK
<1>4. WorkTypeOK'
  BY <1>2, <1>3 DEF WorkTypeOK, TasksOK, DependenciesOK, ChecklistOK, ParticipantsOK,
                    OthersOK
<1> QED
  BY <1>2, <1>4 DEF WorkInv

LEMMA EscalationKeepsStates ==
    WorkInv /\ SlaEscalateBreaches => SameStates
<1> SUFFICES ASSUME WorkInv, SlaEscalateBreaches PROVE SameStates
  OBVIOUS
<1>1. TasksOK /\ OthersOK
  BY TypeInParts DEF WorkInv
<1>2. DOMAIN tasks' = DOMAIN tasks /\ DOMAIN tasks = 1..Len(tasks) /\ Len(tasks) \in Nat
  BY <1>1 DEF SlaEscalateBreaches, TasksOK
<1>3. ASSUME NEW t \in DOMAIN tasks
      PROVE  /\ tasks'[t] \in Task
             /\ tasks'[t].state = tasks[t].state /\ tasks'[t].case = tasks[t].case
  <2>1. tasks[t] \in Task
    BY <1>1 DEF TasksOK
  <2> DEFINE to == CHOOSE q \in EscalatesTo(t) : TRUE
  <2>2. EscalatesTo(t) # {} => to \in Optional(Queues)
    BY <1>1, EscalationQueues DEF Optional
  <2>3. tasks'[t] = IF EscalatesTo(t) = {} THEN tasks[t] ELSE Moved(tasks[t], to)
    BY DEF SlaEscalateBreaches
  <2> HIDE DEF to
  <2>4. CASE EscalatesTo(t) = {}
    BY <2>1, <2>3, <2>4
  <2>5. CASE EscalatesTo(t) # {}
    <3>1. /\ \A q \in Optional(Queues) : Moved(tasks[t], q) \in Task
          /\ \A q : /\ Moved(tasks[t], q).state = tasks[t].state
                    /\ Moved(tasks[t], q).case = tasks[t].case
      BY <2>1, Records
    <3>2. tasks'[t] = Moved(tasks[t], to) /\ to \in Optional(Queues)
      BY <2>2, <2>3, <2>5
    <3> QED
      BY <3>1, <3>2
  <2> QED
    BY <2>4, <2>5
<1>4. tasks' = [t \in 1..Len(tasks) |-> tasks'[t]]
  BY <1>2 DEF SlaEscalateBreaches
<1>5. tasks' \in Seq(Task)
  BY <1>2, <1>3, <1>4
<1> QED
  BY <1>2, <1>3, <1>5 DEF SameStates

LEMMA AssignmentsKeepStates ==
    ASSUME WorkInv, NEW t \in DOMAIN tasks
    PROVE  /\ \A p \in Optional(Principals), g \in Optional(Groups) :
                TaskAssign(t, p, g) => SameStates
           /\ \A q \in Queues : QueueEnqueue(q, t) => SameStates
           /\ \A q \in Queues, p \in Principals : QueueClaim(q, t, p) => SameStates
<1>1. TasksOK /\ tasks[t] \in Task
  BY TypeInParts DEF WorkInv, TasksOK
<1>2. ASSUME NEW p \in Optional(Principals), NEW g \in Optional(Groups),
             TaskAssign(t, p, g)
      PROVE  SameStates
  <2>1. tasks' = [tasks EXCEPT ![t] = [tasks[t] EXCEPT !.principal = p, !.group = g]]
    BY <1>1, <1>2 DEF TaskAssign, Task
  <2>2. /\ [tasks[t] EXCEPT !.principal = p, !.group = g].state = tasks[t].state
        /\ [tasks[t] EXCEPT !.principal = p, !.group = g].case = tasks[t].case
    BY <1>1 DEF Task
  <2> QED
    BY <1>1, <2>1, <2>2, Records, ReplacedTask
<1>3. ASSUME NEW q \in Queues, QueueEnqueue(q, t) PROVE SameStates
  <2>1. tasks' = [tasks EXCEPT ![t] = Moved(tasks[t], q)] /\ q \in Optional(Queues)
    BY <1>3 DEF QueueEnqueue, Optional
  <2> QED
    BY <1>1, <2>1, Records, ReplacedTask
<1>4. ASSUME NEW q \in Queues, NEW p \in Principals, QueueClaim(q, t, p) PROVE SameStates
  <2>1. tasks' = [tasks EXCEPT ![t] = Claimed(tasks[t], p)]
    BY <1>4 DEF QueueClaim
  <2> QED
    BY <1>1, <2>1, Records, ReplacedTask
<1> QED
  BY <1>2, <1>3, <1>4

-----------------------------------------------------------------------------
(* Operations that move, make or tie tasks.                                *)

LEMMA TransitionKeepsInv ==
    ASSUME WorkInv, NEW t \in DOMAIN tasks, NEW state \in TaskState,
           TaskTransition(t, state)
    PROVE  WorkInv'
<1>1. TasksOK /\ DependenciesOK /\ ChecklistOK /\ ParticipantsOK /\ OthersOK
  BY TypeInParts DEF WorkInv
<1>2. /\ tasks' = [tasks EXCEPT ![t] = [tasks[t] EXCEPT !.state = state]]
      /\ [tasks[t] EXCEPT !.state = state] \in Task
      /\ [tasks[t] EXCEPT !.state = state].state = state
      /\ [tasks[t] EXCEPT !.state = state].case = tasks[t].case
  <2>1. tasks[t] \in Task
    BY <1>1 DEF TasksOK
  <2>2. tasks' = [tasks EXCEPT ![t] = [tasks[t] EXCEPT !.state = state]]
    BY DEF TaskTransition
  <2>3. /\ [tasks[t] EXCEPT !.state = state].state = state
        /\ [tasks[t] EXCEPT !.state = state].case = tasks[t].case
    BY <2>1 DEF Task
  <2> QED
    BY <2>1, <2>2, <2>3, Records
<1>3. /\ tasks' \in Seq(Task) /\ DOMAIN tasks' = DOMAIN tasks
      /\ \A u \in DOMAIN tasks : tasks'[u].case = tasks[u].case
      /\ \A u \in DOMAIN tasks : tasks'[u].state = IF u = t THEN state ELSE tasks[u].state
  BY <1>1, <1>2 DEF TasksOK
<1>4. UNCHANGED AllBut
  BY DEF TaskTransition, AllBut
<1>5. WorkTypeOK'
  BY <1>1, <1>3, <1>4 DEF AllBut, WorkTypeOK, TasksOK, DependenciesOK, ChecklistOK,
                          ParticipantsOK, OthersOK
<1>6. tasks[t].state # "Completed"
  BY Allowed DEF TaskTransition
<1>7. state \in {"InProgress", "Completed"} =>
        \A d \in dependencies : d.task = t => tasks[d.on].state = "Completed"
  BY DEF TaskTransition, WaitsFor
<1>8. ASSUME NEW d \in dependencies, ~d.late,
             tasks'[d.task].state \in {"InProgress", "Completed"}
      PROVE  tasks'[d.on].state = "Completed"
  <2>1. d.task \in DOMAIN tasks /\ d.on \in DOMAIN tasks /\ d.task # d.on
    BY <1>1 DEF DependenciesOK
  <2>2. tasks[d.on].state = "Completed"
    BY <1>3, <1>7, <1>8, <2>1 DEF WorkInv, StartedAfterPrerequisites
  <2> QED
    BY <1>3, <1>6, <2>1, <2>2
<1>9. StartedAfterPrerequisites'
  BY <1>4, <1>8 DEF StartedAfterPrerequisites, AllBut
<1> QED
  BY <1>5, <1>9 DEF WorkInv

LEMMA CreationKeepsInv ==
    ASSUME WorkInv, NEW task \in NewTasks, TaskCreate(task) PROVE WorkInv'
<1>1. TasksOK /\ DependenciesOK /\ ChecklistOK /\ ParticipantsOK /\ OthersOK
  BY TypeInParts DEF WorkInv
<1>2. task \in Task
  BY <1>1, WorkStoreAssumption DEF NewTasks, Task, TaskState, OthersOK
<1>3. /\ TasksOK' /\ DOMAIN tasks \subseteq DOMAIN tasks'
      /\ \A t \in DOMAIN tasks : tasks'[t] = tasks[t]
  BY <1>1, <1>2, AppendedTask DEF TaskCreate
<1>4. WorkTypeOK'
  BY <1>1, <1>3 DEF TaskCreate, WorkTypeOK, TasksOK, DependenciesOK, ChecklistOK,
                    ParticipantsOK, OthersOK
<1>5. StartedAfterPrerequisites'
  BY <1>1, <1>3 DEF TaskCreate, WorkInv, StartedAfterPrerequisites, DependenciesOK
<1> QED
  BY <1>4, <1>5 DEF WorkInv

LEMMA DependencyKeepsInv ==
    ASSUME WorkInv, NEW t \in DOMAIN tasks, NEW on \in DOMAIN tasks,
           TaskAddDependency(t, on)
    PROVE  WorkInv'
<1> DEFINE new == [task |-> t, on |-> on, late |-> tasks[t].state \notin {"Open", "Blocked"}]
<1>1. TasksOK /\ DependenciesOK /\ ChecklistOK /\ ParticipantsOK /\ OthersOK
  BY TypeInParts DEF WorkInv
<1>2. t \in Nat /\ on \in Nat
  BY <1>1 DEF TasksOK
<1>3. new \in Dependency /\ t # on
  BY <1>2 DEF Dependency, TaskAddDependency
<1>4. dependencies' = dependencies \cup {new}
  BY DEF TaskAddDependency
<1>5. UNCHANGED <<cases, tasks, checklist, queues, slaTargets, participants, workClock>>
  BY DEF TaskAddDependency
<1>6. new.task = t /\ new.on = on /\ new.late = (tasks[t].state \notin {"Open", "Blocked"})
  OBVIOUS
<1> HIDE DEF new
<1>7. DependenciesOK'
  BY <1>1, <1>3, <1>4, <1>5, <1>6 DEF DependenciesOK
<1>8. WorkTypeOK'
  BY <1>1, <1>5, <1>7 DEF WorkTypeOK, TasksOK, DependenciesOK, ChecklistOK,
                          ParticipantsOK, OthersOK
<1>9. StartedAfterPrerequisites'
  BY <1>4, <1>5, <1>6 DEF WorkInv, StartedAfterPrerequisites
<1> QED
  BY <1>8, <1>9 DEF WorkInv

-----------------------------------------------------------------------------
(* Operations that leave tasks alone.                                      *)

LEMMA TasksUntouched ==
    ASSUME WorkInv, UNCHANGED <<tasks, dependencies>>, WorkTypeOK' PROVE WorkInv'
BY DEF WorkInv, StartedAfterPrerequisites

LEMMA ChecklistKeepsInv ==
    ASSUME WorkInv
    PROVE  /\ \A t \in DOMAIN tasks, required \in BOOLEAN :
                ChecklistAdd(t, required) => WorkInv'
           /\ \A i \in DOMAIN checklist : ChecklistComplete(i) => WorkInv'
<1>1. TasksOK /\ DependenciesOK /\ ChecklistOK /\ ParticipantsOK /\ OthersOK
  BY TypeInParts DEF WorkInv
<1>2. ASSUME NEW t \in DOMAIN tasks, NEW required \in BOOLEAN, ChecklistAdd(t, required)
      PROVE  ChecklistOK'
  <2>1. [task |-> t, required |-> required, completed |-> FALSE] \in ChecklistItem
    BY <1>1 DEF ChecklistItem, TasksOK
  <2> QED
    BY <1>1, <1>2, <2>1 DEF ChecklistAdd, ChecklistOK
<1>3. ASSUME NEW i \in DOMAIN checklist, ChecklistComplete(i) PROVE ChecklistOK'
  <2>1. checklist[i] \in ChecklistItem
    BY <1>1 DEF ChecklistOK
  <2>2. /\ [checklist[i] EXCEPT !.completed = TRUE] \in ChecklistItem
        /\ [checklist[i] EXCEPT !.completed = TRUE].task = checklist[i].task
    BY <2>1 DEF ChecklistItem
  <2>3. checklist' = [checklist EXCEPT ![i] = [checklist[i] EXCEPT !.completed = TRUE]]
    BY <1>3 DEF ChecklistComplete
  <2> QED
    BY <1>1, <1>3, <2>2, <2>3 DEF ChecklistComplete, ChecklistOK
<1>4. ASSUME NEW t \in DOMAIN tasks, NEW required \in BOOLEAN, ChecklistAdd(t, required)
      PROVE  WorkInv'
  BY <1>1, <1>2, <1>4, TasksUntouched
     DEF ChecklistAdd, WorkTypeOK, TasksOK, DependenciesOK, ChecklistOK,
         ParticipantsOK, OthersOK
<1>5. ASSUME NEW i \in DOMAIN checklist, ChecklistComplete(i) PROVE WorkInv'
  BY <1>1, <1>3, <1>5, TasksUntouched
     DEF ChecklistComplete, WorkTypeOK, TasksOK, DependenciesOK, ChecklistOK,
         ParticipantsOK, OthersOK
<1> QED
  BY <1>4, <1>5

LEMMA CasesKeepInv ==
    WorkInv /\ ManageCases => WorkInv'
<1> SUFFICES ASSUME WorkInv, ManageCases PROVE WorkInv'
  OBVIOUS
<1>1. TasksOK /\ DependenciesOK /\ ChecklistOK /\ ParticipantsOK /\ OthersOK
  BY TypeInParts DEF WorkInv
<1>2. UNCHANGED <<taskVars, queues, slaTargets, workClock>>
  BY DEF ManageCases, CaseCreate, CaseTransition, ParticipantAdd, ParticipantRemove
<1>3. cases' \in Seq(CaseState) /\ Len(cases) <= Len(cases')
  <2>1. CASE CaseCreate
    BY <1>1, <2>1 DEF CaseCreate, OthersOK, CaseState
  <2>2. ASSUME NEW c \in DOMAIN cases, NEW state \in CaseState, CaseTransition(c, state)
        PROVE  cases' \in Seq(CaseState) /\ Len(cases) <= Len(cases')
    BY <1>1, <2>2 DEF CaseTransition, OthersOK
  <2>3. CASE UNCHANGED cases
    BY <1>1, <2>3 DEF OthersOK
  <2> QED
    BY <2>1, <2>2, <2>3 DEF ManageCases, ParticipantAdd, ParticipantRemove
<1>4. Len(cases) \in Nat /\ Len(cases') \in Nat /\ DOMAIN cases \subseteq DOMAIN cases'
  BY <1>1, <1>3 DEF OthersOK
<1>5. ParticipantsOK'
  <2>1. ASSUME NEW c \in DOMAIN cases, ParticipantAdd(c) PROVE ParticipantsOK'
    <3>1. [case |-> c, added |-> workClock, removed |-> 0] \in Participant
      BY <1>1 DEF Participant, OthersOK
    <3> QED
      BY <1>1, <1>4, <2>1, <3>1 DEF ParticipantAdd, ParticipantsOK
  <2>2. ASSUME NEW p \in DOMAIN participants, ParticipantRemove(p) PROVE ParticipantsOK'
    <3>1. participants[p] \in Participant
      BY <1>1 DEF ParticipantsOK
    <3>2. /\ [participants[p] EXCEPT !.removed = workClock] \in Participant
          /\ [participants[p] EXCEPT !.removed = workClock].case = participants[p].case
      BY <1>1, <3>1 DEF Participant, OthersOK
    <3>3. participants' =
            [participants EXCEPT ![p] = [participants[p] EXCEPT !.removed = workClock]]
      BY <2>2 DEF ParticipantRemove
    <3> QED
      BY <1>1, <1>4, <3>2, <3>3 DEF ParticipantsOK
  <2>3. CASE UNCHANGED participants
    BY <1>1, <1>4, <2>3 DEF ParticipantsOK
  <2> QED
    BY <2>1, <2>2, <2>3 DEF ManageCases, CaseCreate, CaseTransition
<1>6. WorkTypeOK'
  BY <1>1, <1>2, <1>3, <1>4, <1>5
     DEF taskVars, WorkTypeOK, TasksOK, DependenciesOK, ChecklistOK, ParticipantsOK,
         OthersOK
<1> QED
  BY <1>2, <1>6, TasksUntouched DEF taskVars

LEMMA OthersKeepInv ==
    ASSUME WorkInv
    PROVE  /\ \A q \in Queues : QueueCreate(q) => WorkInv'
           /\ \A target \in SlaTarget : SlaAddTarget(target) => WorkInv'
           /\ WorkTick => WorkInv'
<1>1. TasksOK /\ DependenciesOK /\ ChecklistOK /\ ParticipantsOK /\ OthersOK
  BY TypeInParts DEF WorkInv
<1>2. ASSUME OthersOK', UNCHANGED <<cases, taskVars, participants>> PROVE WorkInv'
  BY <1>1, <1>2, TasksUntouched
     DEF taskVars, WorkTypeOK, TasksOK, DependenciesOK, ChecklistOK, ParticipantsOK,
         OthersOK
<1>3. ASSUME NEW q \in Queues, QueueCreate(q)
      PROVE  OthersOK' /\ UNCHANGED <<cases, taskVars, participants>>
  BY <1>1, <1>3 DEF QueueCreate, OthersOK
<1>4. ASSUME NEW target \in SlaTarget, SlaAddTarget(target)
      PROVE  OthersOK' /\ UNCHANGED <<cases, taskVars, participants>>
  BY <1>1, <1>4 DEF SlaAddTarget, OthersOK
<1>5. ASSUME WorkTick PROVE OthersOK' /\ UNCHANGED <<cases, taskVars, participants>>
  BY <1>1, <1>5 DEF WorkTick, OthersOK
<1> QED
  BY <1>2, <1>3, <1>4, <1>5

-----------------------------------------------------------------------------
LEMMA InitInv == WorkInit => WorkInv
BY WorkStoreAssumption
   DEF WorkInit, WorkInv, WorkTypeOK, StartedAfterPrerequisites, Task, Dependency

LEMMA TasksKeepInv == WorkInv /\ ManageTasks => WorkInv'
<1> SUFFICES ASSUME WorkInv, ManageTasks PROVE WorkInv'
  OBVIOUS
<1>1. ASSUME NEW task \in NewTasks, TaskCreate(task) PROVE WorkInv'
  BY <1>1, CreationKeepsInv
<1>2. ASSUME NEW t \in DOMAIN tasks,
             NEW p \in Optional(Principals), NEW g \in Optional(Groups),
             TaskAssign(t, p, g)
      PROVE  WorkInv'
  BY <1>2, AssignmentsKeepStates, SameStatesKeepInv DEF TaskAssign, AllBut
<1>3. ASSUME NEW t \in DOMAIN tasks, NEW state \in TaskState, TaskTransition(t, state)
      PROVE  WorkInv'
  BY <1>3, TransitionKeepsInv
<1>4. ASSUME NEW t \in DOMAIN tasks, NEW on \in DOMAIN tasks, TaskAddDependency(t, on)
      PROVE  WorkInv'
  BY <1>4, DependencyKeepsInv
<1> QED
  BY <1>1, <1>2, <1>3, <1>4, ChecklistKeepsInv DEF ManageTasks

LEMMA QueuesKeepInv == WorkInv /\ ManageQueues => WorkInv'
<1> SUFFICES ASSUME WorkInv, ManageQueues PROVE WorkInv'
  OBVIOUS
<1>1. ASSUME NEW q \in Queues, NEW t \in DOMAIN tasks, QueueEnqueue(q, t) PROVE WorkInv'
  BY <1>1, AssignmentsKeepStates, SameStatesKeepInv DEF QueueEnqueue, AllBut
<1>2. ASSUME NEW q \in Queues, NEW t \in DOMAIN tasks, NEW p \in Principals,
             QueueClaim(q, t, p)
      PROVE  WorkInv'
  BY <1>2, AssignmentsKeepStates, SameStatesKeepInv DEF QueueClaim, AllBut
<1>3. ASSUME SlaEscalateBreaches PROVE WorkInv'
  BY <1>3, EscalationKeepsStates, SameStatesKeepInv DEF SlaEscalateBreaches, AllBut
<1> QED
  BY <1>1, <1>2, <1>3, OthersKeepInv DEF ManageQueues

LEMMA StepInv == WorkInv /\ [WorkNext]_workVars => WorkInv'
<1> SUFFICES ASSUME WorkInv, [WorkNext]_workVars PROVE WorkInv'
  OBVIOUS
<1>1. CASE UNCHANGED workVars
  BY <1>1 DEF workVars, taskVars, WorkInv, WorkTypeOK, StartedAfterPrerequisites
<1> QED
  BY <1>1, CasesKeepInv, TasksKeepInv, QueuesKeepInv, OthersKeepInv DEF WorkNext

(* Of every behaviour of the store: it is well formed, and a task that is  *)
(* under way or completed had all completed that it depended on when it    *)
(* began, and keeps it so.                                                 *)
THEOREM WorkInvHolds == WorkSpec => []WorkInv
BY InitInv, StepInv, PTL DEF WorkSpec

-----------------------------------------------------------------------------
(* Tasks and dependencies stay, what is cancelled stays so, and nothing    *)
(* completes that waits for another task.                                  *)
BlockersStay ==
    /\ DOMAIN tasks \subseteq DOMAIN tasks' /\ dependencies \subseteq dependencies'
    /\ \A u \in DOMAIN tasks :
         /\ tasks[u].state = "Cancelled" => tasks'[u].state = "Cancelled"
         /\ tasks[u].state # "Completed" /\ tasks'[u].state = "Completed"
              => WaitsFor(u) = {}

LEMMA WaitsForMembers ==
    ASSUME NEW u, NEW v
    PROVE  v \in WaitsFor(u) <=>
             \E d \in dependencies :
               d.task = u /\ d.on = v /\ tasks[d.on].state # "Completed"
BY DEF WaitsFor

LEMMA BlockersKeepStuck ==
    ASSUME BlockersStay, NEW t \in DOMAIN tasks, Stuck(t) PROVE Stuck(t)'
<1>1. PICK S \in SUBSET DOMAIN tasks :
        /\ t \in S
        /\ \A u \in S : /\ tasks[u].state # "Completed"
                        /\ tasks[u].state = "Cancelled" \/ WaitsFor(u) \cap S # {}
  BY DEF Stuck
<1>2. ASSUME NEW u \in S PROVE tasks'[u].state # "Completed"
  BY <1>1 DEF BlockersStay
<1>3. ASSUME NEW u \in S, tasks[u].state # "Cancelled"
      PROVE  WaitsFor(u)' \cap S # {}
  <2>1. PICK v \in S : v \in WaitsFor(u)
    BY <1>1, <1>3
  <2>2. PICK d \in dependencies : d.task = u /\ d.on = v
    BY <2>1, WaitsForMembers
  <2>3. d \in dependencies' /\ tasks'[d.on].state # "Completed"
    BY <1>2, <2>2 DEF BlockersStay
  <2>4. v \in WaitsFor(u)'
    BY <2>2, <2>3 DEF WaitsFor
  <2> QED
    BY <2>4
<1>4. S \in SUBSET DOMAIN tasks' /\ t \in S
  BY <1>1 DEF BlockersStay
<1>5. ASSUME NEW u \in S
      PROVE  /\ tasks'[u].state # "Completed"
             /\ tasks'[u].state = "Cancelled" \/ WaitsFor(u)' \cap S # {}
  BY <1>1, <1>2, <1>3, <1>5 DEF BlockersStay
<1> QED
  BY <1>4, <1>5 DEF Stuck

LEMMA SameStatesKeepBlockers ==
    SameStates /\ UNCHANGED dependencies => BlockersStay
BY DEF SameStates, BlockersStay

LEMMA TransitionKeepsBlockers ==
    ASSUME WorkInv, NEW t \in DOMAIN tasks, NEW state \in TaskState,
           TaskTransition(t, state)
    PROVE  BlockersStay
<1>1. TasksOK
  BY TypeInParts DEF WorkInv
<1>2. /\ DOMAIN tasks' = DOMAIN tasks
      /\ \A u \in DOMAIN tasks :
           tasks'[u].state = IF u = t THEN state ELSE tasks[u].state
  <2>1. tasks[t] \in Task
    BY <1>1 DEF TasksOK
  <2>2. [tasks[t] EXCEPT !.state = state].state = state
    BY <2>1 DEF Task
  <2>3. tasks' = [tasks EXCEPT ![t] = [tasks[t] EXCEPT !.state = state]]
    BY DEF TaskTransition
  <2> QED
    BY <1>1, <2>2, <2>3 DEF TasksOK
<1>3. tasks[t].state # "Cancelled" /\ (state = "Completed" => WaitsFor(t) = {})
  BY Allowed DEF TaskTransition
<1>4. UNCHANGED dependencies
  BY DEF TaskTransition
<1> QED
  BY <1>2, <1>3, <1>4 DEF BlockersStay

LEMMA StepKeepsBlockers == WorkInv /\ [WorkNext]_workVars => BlockersStay
<1> SUFFICES ASSUME WorkInv, [WorkNext]_workVars PROVE BlockersStay
  OBVIOUS
<1>1. TasksOK
  BY TypeInParts DEF WorkInv
<1>2. CASE UNCHANGED <<tasks, dependencies>>
  BY <1>2 DEF BlockersStay
<1>3. ASSUME NEW task \in NewTasks, TaskCreate(task) PROVE BlockersStay
  <2>1. task \in Task
    BY TypeInParts, WorkStoreAssumption DEF WorkInv, OthersOK, NewTasks, Task, TaskState
  <2>2. DOMAIN tasks \subseteq DOMAIN tasks' /\ \A t \in DOMAIN tasks : tasks'[t] = tasks[t]
    BY <1>1, <1>3, <2>1, AppendedTask DEF TaskCreate
  <2> QED
    BY <1>3, <2>2 DEF TaskCreate, BlockersStay
<1>4. ASSUME NEW t \in DOMAIN tasks, NEW on \in DOMAIN tasks, TaskAddDependency(t, on)
      PROVE  BlockersStay
  BY <1>4 DEF TaskAddDependency, BlockersStay
<1>5. ASSUME NEW t \in DOMAIN tasks,
             NEW p \in Optional(Principals), NEW g \in Optional(Groups),
             TaskAssign(t, p, g)
      PROVE  BlockersStay
  BY <1>5, AssignmentsKeepStates, SameStatesKeepBlockers DEF TaskAssign
<1>6. ASSUME ManageTasks PROVE BlockersStay
  BY <1>2, <1>3, <1>4, <1>5, <1>6, TransitionKeepsBlockers
     DEF ManageTasks, ChecklistAdd, ChecklistComplete
<1>7. ASSUME ManageQueues PROVE BlockersStay
  <2>1. ASSUME NEW q \in Queues, NEW t \in DOMAIN tasks, QueueEnqueue(q, t)
        PROVE  BlockersStay
    BY <2>1, AssignmentsKeepStates, SameStatesKeepBlockers DEF QueueEnqueue
  <2>2. ASSUME NEW q \in Queues, NEW t \in DOMAIN tasks, NEW p \in Principals,
               QueueClaim(q, t, p)
        PROVE  BlockersStay
    BY <2>2, AssignmentsKeepStates, SameStatesKeepBlockers DEF QueueClaim
  <2>3. CASE SlaEscalateBreaches
    BY <2>3, EscalationKeepsStates, SameStatesKeepBlockers DEF SlaEscalateBreaches
  <2> QED
    BY <1>2, <1>7, <2>1, <2>2, <2>3
       DEF ManageQueues, QueueCreate, SlaAddTarget, taskVars
<1>8. ManageCases \/ WorkTick \/ UNCHANGED workVars => UNCHANGED <<tasks, dependencies>>
  BY DEF ManageCases, CaseCreate, CaseTransition, ParticipantAdd, ParticipantRemove,
         WorkTick, workVars, taskVars
<1> QED
  BY <1>2, <1>6, <1>7, <1>8 DEF WorkNext

(* Of every behaviour of the store: tasks that wait for each other in a    *)
(* circle, or for a cancelled one, are never freed, as no operation drops  *)
(* a dependency, revives what is cancelled or completes what still waits.  *)
THEOREM StuckForGoodHolds == WorkSpec => StuckForGood
<1>1. WorkInv /\ [WorkNext]_workVars
        => [\A t \in DOMAIN tasks : Stuck(t) => Stuck(t)']_workVars
  BY StepKeepsBlockers, BlockersKeepStuck
<1> QED
  BY <1>1, WorkInvHolds, PTL DEF WorkSpec, StuckForGood

=============================================================================
