------------------------------- MODULE Signals -------------------------------
(***************************************************************************)
(* Signals as one process sees them: the pending set, the process mask,    *)
(* the actions installed with sigaction, and the saved user context of its *)
(* main thread, the only one that handles signals on the way back to user  *)
(* mode.  Sources: os/src/task/mod.rs, os/src/task/signal.rs,              *)
(* os/src/task/action.rs, os/src/syscall/process.rs, os/src/trap/mod.rs.   *)
(*                                                                         *)
(* A signal is its number, because check_pending_signals visits them in    *)
(* numeric order.  A user context is Main, the program proper, or the      *)
(* signal whose handler is running.  The kernel runs one task at a time,   *)
(* so while the main thread is in user mode nobody else is running: what   *)
(* other threads and processes do always finds it in the kernel, suspended *)
(* before handle_signals or blocked in a system call.                      *)
(***************************************************************************)
EXTENDS Integers, FiniteSetsExt

CONSTANTS Sigs,         \* the signals sent in this instance
          Masks,        \* the masks the program passes to sigprocmask
          NewActions    \* the actions it installs: a handler or none, and a mask

SIGDEF == 0
SIGINT == 2
SIGILL == 4
SIGKILL == 9
SIGSEGV == 11
SIGCONT == 18
SIGSTOP == 19

\* Signals only the kernel handles, and those check_error kills for.
KernelSigs == {SIGKILL, SIGSTOP, SIGCONT, SIGDEF}
FatalSigs == {SIGINT, SIGILL, 6, 8, SIGKILL, SIGSEGV}
UserSigs == Sigs \ KernelSigs

ASSUME SigsAssumption == /\ Sigs \subseteq 0..31
                         /\ {SIGKILL, SIGSTOP, SIGCONT} \subseteq Sigs
ASSUME ActionsAssumption == NewActions \subseteq [handler : BOOLEAN, mask : SUBSET Sigs]

Main == -1
NoContext == -2

\* SignalAction::default: no handler; mask 40 is SIGQUIT and SIGTRAP.
DefaultAction == [handler |-> FALSE, mask |-> {3, 5} \cap Sigs]

VARIABLES
  signals,          \* pending
  signal_mask,
  actions,          \* signal_actions.table
  handling_sig,     \* -1: no handler in progress
  frozen, killed,
  trap_cx,          \* the user context the main thread returns to
  trap_ctx_backup,
  mode              \* the main thread: in "user" mode, in the "kernel" before
                    \* handle_signals, "blocked" in a system call, "exited"

vars == <<signals, signal_mask, actions, handling_sig, frozen, killed,
          trap_cx, trap_ctx_backup, mode>>

Contexts == {Main} \cup UserSigs
Actions == NewActions \cup {DefaultAction}

\* Every variable has its type; the main thread always has a context to return to.
TypeOK ==
  /\ signals \subseteq Sigs
  /\ signal_mask \in Masks \cup {{}}
  /\ actions \in [Sigs -> Actions]
  /\ handling_sig \in {-1} \cup UserSigs
  /\ frozen \in BOOLEAN
  /\ killed \in BOOLEAN
  /\ trap_cx \in Contexts
  /\ trap_ctx_backup \in {NoContext} \cup Contexts
  /\ mode \in {"user", "kernel", "blocked", "exited"}

Init ==
  /\ signals = {}
  /\ signal_mask = {}
  /\ actions = [s \in Sigs |-> DefaultAction]
  /\ handling_sig = -1
  /\ frozen = FALSE
  /\ killed = FALSE
  /\ trap_cx = Main
  /\ trap_ctx_backup = NoContext
  /\ mode = "user"

-----------------------------------------------------------------------------
(* System calls and traps.  Each ends in the kernel, before handle_signals. *)

\* Of the main thread, or of another thread or process while it is in the kernel.
Enter == mode # "exited" /\ mode' = IF mode = "user" THEN "kernel" ELSE mode

\* kill(), by the process itself or by another.
\* A signal already pending is refused with -1.
sys_kill(s) ==
  /\ s \notin signals
  /\ signals' = signals \cup {s}
  /\ Enter
  /\ UNCHANGED <<signal_mask, actions, handling_sig, frozen, killed,
                 trap_cx, trap_ctx_backup>>

\* A fault in a thread of the program: current_add_signal(SIGSEGV).  The main
\* thread sees to it, and another thread that faulted only faults again.
Faults ==
  /\ SIGSEGV \in Sigs
  /\ signals' = signals \cup {SIGSEGV}
  /\ Enter
  /\ UNCHANGED <<signal_mask, actions, handling_sig, frozen, killed,
                 trap_cx, trap_ctx_backup>>

\* Any other system call or interrupt; the timer makes this unavoidable.
Traps ==
  /\ mode = "user"
  /\ mode' = "kernel"
  /\ UNCHANGED <<signals, signal_mask, actions, handling_sig, frozen, killed,
                 trap_cx, trap_ctx_backup>>

\* A system call that waits for a lock, a timer, a device or another thread.
Blocks ==
  /\ mode = "user"
  /\ mode' = "blocked"
  /\ UNCHANGED <<signals, signal_mask, actions, handling_sig, frozen, killed,
                 trap_cx, trap_ctx_backup>>

\* What it waited for has come; wakeup_task is never called because of a signal.
Wakes ==
  /\ mode = "blocked"
  /\ mode' = "kernel"
  /\ UNCHANGED <<signals, signal_mask, actions, handling_sig, frozen, killed,
                 trap_cx, trap_ctx_backup>>

sys_sigprocmask(mask) ==
  /\ signal_mask' = mask
  /\ Enter
  /\ UNCHANGED <<signals, actions, handling_sig, frozen, killed,
                 trap_cx, trap_ctx_backup>>

check_sigaction_error(s) == s \in {SIGKILL, SIGSTOP}

sys_sigaction(s, action) ==
  /\ ~check_sigaction_error(s)
  /\ actions' = [actions EXCEPT ![s] = action]
  /\ Enter
  /\ UNCHANGED <<signals, signal_mask, handling_sig, frozen, killed,
                 trap_cx, trap_ctx_backup>>

\* Called at the end of a handler; the program does not call it elsewhere.
sys_sigreturn ==
  /\ mode = "user"
  /\ trap_cx # Main
  /\ handling_sig' = -1
  /\ trap_cx' = trap_ctx_backup
  /\ mode' = "kernel"
  /\ UNCHANGED <<signals, signal_mask, actions, frozen, killed, trap_ctx_backup>>

sys_exit ==
  /\ mode = "user"
  /\ mode' = "exited"
  /\ UNCHANGED <<signals, signal_mask, actions, handling_sig, frozen, killed,
                 trap_cx, trap_ctx_backup>>

-----------------------------------------------------------------------------
(* handle_signals: one pass of its loop.                                   *)

\* A bug: the mask of the running handler's action is not consulted.
Deliverable_in_handler == signals \ signal_mask

\* Pending, not masked, and not masked by the handler in progress.
Deliverable ==
  {s \in signals \ signal_mask :
     handling_sig # -1 => s \notin actions[handling_sig].mask}

\* The pass stops at the first deliverable user signal, handled or not.
UserSignal == Deliverable \ KernelSigs
Visited == {s \in Deliverable : \A u \in UserSignal : s <= u}

\* A bug: SIGCONT is cleared and the process stays stopped.
frozen_never_thawed == frozen \/ SIGSTOP \in Visited
\* call_kernel_signal_handler.  Of SIGSTOP and SIGCONT both visited, SIGSTOP is last.
frozen_after == SIGSTOP \in Visited \/ (frozen /\ SIGCONT \notin Visited)
killed_after == killed \/ Visited \cap {SIGKILL, SIGDEF} # {}

\* The user signal whose handler is called, if the pass meets one with a handler.
Handled == {s \in Visited \cap UserSigs : actions[s].handler}

\* A bug: a signal whose default action is to be ignored is dropped.
Cleared_ignored == Visited \cap (UserSigs \cup {SIGSTOP, SIGCONT})
\* What the pass takes out of the pending set: SIGKILL, SIGDEF and a user signal
\* without a handler stay pending.
Cleared == Handled \cup (Visited \cap {SIGSTOP, SIGCONT})

call_user_signal_handler ==
  IF Handled = {} THEN UNCHANGED <<handling_sig, trap_cx, trap_ctx_backup>>
  ELSE /\ handling_sig' = Min(Handled)
       /\ trap_ctx_backup' = trap_cx
       /\ trap_cx' = Min(Handled)

check_pending_signals ==
  /\ frozen' = frozen_after
  /\ killed' = killed_after
  /\ signals' = signals \ Cleared
  /\ call_user_signal_handler

\* A bug: check_error does not know SIGKILL.
check_error_no_kill(pending) == pending \cap (FatalSigs \ {SIGKILL}) # {}
\* check_error looks at pending signals only: neither mask nor handler matters.
check_error(pending) == pending \cap FatalSigs # {}

\* A pass; then the loop goes on after a suspension if the process is frozen
\* and not killed, and otherwise the process exits or goes back to user mode.
handle_signals ==
  /\ mode = "kernel"
  /\ check_pending_signals
  /\ mode' = IF frozen' /\ ~killed' THEN "kernel"
             ELSE IF check_error(signals') THEN "exited" ELSE "user"
  /\ UNCHANGED <<signal_mask, actions>>

Next ==
  \/ \E s \in Sigs : sys_kill(s)
  \/ Faults
  \/ Traps
  \/ Blocks
  \/ Wakes
  \/ \E m \in Masks : sys_sigprocmask(m)
  \/ \E s \in UserSigs, a \in NewActions : sys_sigaction(s, a)
  \/ sys_sigreturn
  \/ sys_exit
  \/ handle_signals

Spec == Init /\ [][Next]_vars

\* The timer interrupts user mode, and a suspended main thread is scheduled
\* again, so it gets to handle_signals.  A blocked one may stay so for ever.
FairSpec == Spec /\ WF_vars(Traps \/ Blocks) /\ WF_vars(handle_signals)

-----------------------------------------------------------------------------
(* Properties                                                              *)

\* The program is running, or the handler handling_sig names runs on top of it.
ContextIntact ==
  IF handling_sig = -1 THEN trap_cx = Main
  ELSE trap_cx = handling_sig /\ trap_ctx_backup = Main

\* A handler is called on top of one whose action does not mask its signal.
Nests ==
  /\ handling_sig # -1
  /\ trap_cx' \in UserSigs \ actions[handling_sig].mask
  /\ trap_cx' = handling_sig' /\ trap_ctx_backup' = trap_cx

\* The interrupted program is lost in one way only.  There is one backup per
\* thread (task/mod.rs:250), and it is overwritten only when a handler is called
\* while another runs whose action does not mask the signal (task/mod.rs:271-281).
\* No other order of signals, masks, new actions, stops and sigreturns loses it.
ContextKept == [][ContextIntact => ContextIntact' \/ Nests]_vars

\* The program executes nothing while a fatal signal is pending, masked or not,
\* also when the signal found it stopped or blocked: what is left of the system
\* call it is in is the last thing its main thread does (trap/mod.rs:141-147).
FatalRunsNothing == mode = "user" => signals \cap FatalSigs = {}

\* A user signal leaves the pending set only when its handler starts, on top of
\* the context that was interrupted: it is never dropped and never handled twice.
SignalConsumedByHandler ==
  [][\A s \in UserSigs :
       (s \in signals /\ s \notin signals')
         => /\ trap_cx' = s
            /\ trap_ctx_backup' = trap_cx
            /\ handling_sig' = s]_vars

\* A signal at which a pass stops before it reaches SIGCONT; it stays there when
\* it has no handler (task/mod.rs:298-299).
Starving == \E s \in UserSignal : s < SIGCONT

\* A stopped process that is sent SIGCONT resumes, unless it masks SIGCONT, a
\* lower user signal keeps the pass from reaching it, or SIGSTOP is pending
\* too: the pass visits SIGSTOP after SIGCONT, whichever was sent last.
\* SIGDEF ends the stop as well, without killing the process, which may then
\* block with the stop still recorded.
ContinueResumes ==
  (frozen /\ SIGCONT \in signals)
    ~> (~frozen \/ mode \in {"exited", "blocked"} \/ SIGCONT \in signal_mask
          \/ Starving \/ SIGSTOP \in signals)

\* handle_signals says its loop ends when the process "收到 SIGKILL 而被杀掉"
\* (task/mod.rs:316): a stopped process sent SIGKILL exits.
StoppedIsKilled == (frozen /\ SIGKILL \in signals) ~> (mode = "exited")
=============================================================================
