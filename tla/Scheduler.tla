------------------------------ MODULE Scheduler ------------------------------
(***************************************************************************)
(* The uniprocessor FIFO scheduler of the kernel: TaskManager              *)
(* (os/src/task/manager.rs), Processor (os/src/task/processor.rs) and the  *)
(* two ways a task gives the processor up (os/src/task/mod.rs).            *)
(*                                                                         *)
(* The operators below are the scheduler's part of a step.  A system call  *)
(* or interrupt handler that wakes tasks and then gives up the processor   *)
(* does so without being interleaved with another task, so the three       *)
(* operators that change the scheduler state take the sequence `woken' of  *)
(* the tasks for which the handler calls wakeup_task, in call order.       *)
(***************************************************************************)
EXTENDS Integers, Sequences, Functions

CONSTANTS
  Tasks,      \* the TaskControlBlocks
  NoTask      \* Processor::current == None: the idle control flow runs

ASSUME NoTaskAssumption == NoTask \notin Tasks

VARIABLES
  current,      \* Processor::current
  ready_queue,  \* TaskManager::ready_queue
  task_status   \* TaskControlBlockInner::task_status

schedVars == <<current, ready_queue, task_status>>

TaskStatus == {"Ready", "Running", "Blocked"}

SchedTypeOK ==
  /\ current \in Tasks \cup {NoTask}
  /\ ready_queue \in Seq(Tasks)
  /\ task_status \in [Tasks -> TaskStatus]

\* Every task has been created and added with add_task; the idle control flow
\* is about to pick the first one.
SchedInit(order) ==
  /\ current = NoTask
  /\ ready_queue = order
  /\ task_status = [t \in Tasks |-> "Ready"]

-----------------------------------------------------------------------------
Woken(woken) ==
  [t \in Tasks |-> IF t \in Range(woken) THEN "Ready" ELSE task_status[t]]

wakeup_task(woken) ==
  /\ ready_queue' = ready_queue \o woken
  /\ task_status' = Woken(woken)
  /\ UNCHANGED current

\* A suspend that forgets to put the task back on the ready queue.
suspend_drops_task(woken) ==
  /\ ready_queue' = ready_queue \o woken
  /\ task_status' = [Woken(woken) EXCEPT ![current] = "Ready"]
  /\ current' = NoTask

suspend_current_and_run_next(woken) ==
  /\ ready_queue' = Append(ready_queue \o woken, current)
  /\ task_status' = [Woken(woken) EXCEPT ![current] = "Ready"]
  /\ current' = NoTask

block_current_and_run_next(woken) ==
  /\ ready_queue' = ready_queue \o woken
  /\ task_status' = [Woken(woken) EXCEPT ![current] = "Blocked"]
  /\ current' = NoTask

\* A scheduler that picks the task that became ready last.
run_tasks_lifo ==
  /\ current = NoTask
  /\ ready_queue # <<>>
  /\ current' = ready_queue[Len(ready_queue)]
  /\ ready_queue' = SubSeq(ready_queue, 1, Len(ready_queue) - 1)
  /\ task_status' = [task_status EXCEPT ![current'] = "Running"]

\* One round of the idle loop that finds a task; the round that finds none
\* only prints a line.
run_tasks ==
  /\ current = NoTask
  /\ ready_queue # <<>>
  /\ current' = Head(ready_queue)
  /\ ready_queue' = Tail(ready_queue)
  /\ task_status' = [task_status EXCEPT ![Head(ready_queue)] = "Running"]
=============================================================================
