---------------------------- MODULE Signals_proofs ----------------------------
(***************************************************************************)
(* Proofs about Signals, for any set of signals and any masks of the       *)
(* process and of the actions it installs: the one way in which the        *)
(* interrupted context can be lost, who consumes a user signal, and what a *)
(* pending fatal signal keeps from running.                                *)
(***************************************************************************)
EXTENDS Signals, TLAPS

\* A handler finds a context in the backup: the unwrap of sys_sigreturn.
BackupTaken == trap_cx # Main => trap_ctx_backup # NoContext

IInv == TypeOK /\ BackupTaken /\ FatalRunsNothing

\* A pass of check_pending_signals stops at the first user signal, so that at
\* most one handler is called.
LEMMA OneHandled ==
  ASSUME NEW s \in Handled
  PROVE  /\ Handled = {s} /\ Min(Handled) = s
         /\ s \in UserSigs /\ s \in signals /\ actions[s].handler
         /\ handling_sig # -1 => s \notin actions[handling_sig].mask
<1>1. /\ s \in UserSigs /\ s \in signals /\ actions[s].handler
      /\ handling_sig # -1 => s \notin actions[handling_sig].mask
  BY DEF Handled, Visited, Deliverable
<1>2. ASSUME NEW u \in Handled PROVE u = s
  <2>1. u \in UserSignal /\ s \in UserSignal
    BY DEF Handled, Visited, UserSignal, UserSigs
  <2>2. u <= s /\ s <= u
    BY <2>1 DEF Handled, Visited
  <2>3. u \in Sigs /\ s \in Sigs
    BY DEF Handled, UserSigs
  <2> QED
    BY <2>2, <2>3, SigsAssumption
<1>3. Handled = {s}
  BY <1>2
<1>4. s <= s
  BY SigsAssumption, <1>1 DEF UserSigs
<1> QED
  BY <1>1, <1>3, <1>4 DEF Min

-----------------------------------------------------------------------------
(* The invariant                                                           *)

LEMMA InitIInv == Init => IInv
<1> SUFFICES ASSUME Init PROVE IInv
  OBVIOUS
<1>1. actions \in [Sigs -> Actions]
  BY DEF Init, Actions
<1> QED
  BY <1>1 DEF Init, IInv, TypeOK, BackupTaken, FatalRunsNothing, Contexts

\* The calls of the program and of others leave user mode.
LEMMA CallKeeps ==
  ASSUME IInv,
         \/ \E s \in Sigs : sys_kill(s)
         \/ Faults \/ Traps \/ Blocks \/ Wakes \/ sys_exit
         \/ \E m \in Masks : sys_sigprocmask(m)
         \/ \E s \in UserSigs, a \in NewActions : sys_sigaction(s, a)
  PROVE  IInv'
<1>1. /\ handling_sig' = handling_sig /\ frozen' = frozen
      /\ killed' = killed /\ trap_cx' = trap_cx /\ trap_ctx_backup' = trap_ctx_backup
  BY DEF sys_kill, Faults, Traps, Blocks, Wakes, sys_exit, sys_sigprocmask, sys_sigaction
<1>2. mode' \in {"kernel", "blocked", "exited"}
  BY DEF IInv, TypeOK, sys_kill, Faults, Traps, Blocks, Wakes, sys_exit,
         sys_sigprocmask, sys_sigaction, Enter
<1>3. /\ signals' \subseteq Sigs
      /\ signal_mask' \in Masks \cup {{}}
  BY DEF IInv, TypeOK, sys_kill, Faults, Traps, Blocks, Wakes, sys_exit,
         sys_sigprocmask, sys_sigaction
<1>4. actions' \in [Sigs -> Actions]
  BY DEF IInv, TypeOK, Actions, sys_kill, Faults, Traps, Blocks, Wakes, sys_exit,
         sys_sigprocmask, sys_sigaction
<1> QED
  BY <1>1, <1>2, <1>3, <1>4 DEF IInv, TypeOK, BackupTaken, FatalRunsNothing

LEMMA SigreturnKeeps ==
  ASSUME IInv, sys_sigreturn
  PROVE  IInv'
BY DEF IInv, TypeOK, BackupTaken, FatalRunsNothing, sys_sigreturn

\* A pass calls at most one handler, and check_error decides what follows it.
LEMMA PassKeeps ==
  ASSUME IInv, handle_signals
  PROVE  IInv'
<1>1. /\ signals' \subseteq Sigs /\ frozen' \in BOOLEAN /\ killed' \in BOOLEAN
      /\ signal_mask' = signal_mask /\ actions' = actions
  BY DEF IInv, TypeOK, handle_signals, check_pending_signals, frozen_after, killed_after
<1>2. /\ mode' \in {"user", "kernel", "blocked", "exited"}
      /\ FatalRunsNothing'
  BY DEF handle_signals, FatalRunsNothing, check_error
<1>3. CASE Handled = {}
  <2>1. UNCHANGED <<handling_sig, trap_cx, trap_ctx_backup>>
    BY <1>3 DEF handle_signals, check_pending_signals, call_user_signal_handler
  <2> QED
    BY <1>1, <1>2, <2>1 DEF IInv, TypeOK, BackupTaken
<1>4. CASE Handled # {}
  <2>1. PICK s \in Handled : TRUE
    BY <1>4
  <2>2. Min(Handled) = s /\ s \in UserSigs
    BY <2>1, OneHandled
  <2>3. handling_sig' = s /\ trap_cx' = s /\ trap_ctx_backup' = trap_cx
    BY <1>4, <2>2 DEF handle_signals, check_pending_signals, call_user_signal_handler
  <2>4. TypeOK'
    BY <1>1, <1>2, <2>2, <2>3 DEF IInv, TypeOK, Contexts
  <2>5. trap_cx # NoContext
    BY SigsAssumption DEF IInv, TypeOK, Contexts, Main, NoContext, UserSigs
  <2> QED
    BY <1>2, <2>3, <2>4, <2>5 DEF IInv, BackupTaken
<1> QED
  BY <1>3, <1>4

LEMMA NextIInv == IInv /\ [Next]_vars => IInv'
<1> SUFFICES ASSUME IInv, [Next]_vars PROVE IInv'
  OBVIOUS
<1>1. CASE UNCHANGED vars
  BY <1>1 DEF vars, IInv, TypeOK, BackupTaken, FatalRunsNothing
<1>2. CASE sys_sigreturn
  BY <1>2, SigreturnKeeps
<1>3. CASE handle_signals
  BY <1>3, PassKeeps
<1> QED
  BY <1>1, <1>2, <1>3, CallKeeps DEF Next

LEMMA Invariance == Spec => []IInv
BY InitIInv, NextIInv, PTL DEF Spec

-----------------------------------------------------------------------------
(* Theorems                                                                *)

\* The signal state keeps its types, and sys_sigreturn always finds a context
\* to restore (its unwrap, syscall/process.rs:198).
THEOREM TypeCorrect == Spec => [](TypeOK /\ BackupTaken)
<1>1. IInv => TypeOK /\ BackupTaken
  BY DEF IInv
<1> QED
  BY <1>1, Invariance, PTL

\* No instruction of the program is executed while a fatal signal is pending,
\* whatever it masks and wherever the signal found it (handle_signals,
\* check_signals_error_of_current).
THEOREM NothingAfterFatal == Spec => []FatalRunsNothing
<1>1. IInv => FatalRunsNothing
  BY DEF IInv
<1> QED
  BY <1>1, Invariance, PTL

\* A step that disturbs the contexts returns from a handler or starts one.
LEMMA ContextStep ==
  ASSUME IInv, [Next]_vars, ContextIntact
  PROVE  ContextIntact' \/ Nests
<1>1. CASE sys_sigreturn
  <2>1. handling_sig # -1 /\ trap_ctx_backup = Main
    BY <1>1 DEF ContextIntact, sys_sigreturn
  <2> QED
    BY <1>1, <2>1 DEF ContextIntact, sys_sigreturn
<1>2. CASE handle_signals
  <2>1. CASE Handled = {}
    BY <1>2, <2>1 DEF handle_signals, check_pending_signals, call_user_signal_handler,
         ContextIntact
  <2>2. CASE Handled # {}
    <3>1. PICK s \in Handled : TRUE
      BY <2>2
    <3>2. /\ Min(Handled) = s /\ s \in UserSigs
          /\ handling_sig # -1 => s \notin actions[handling_sig].mask
      BY <3>1, OneHandled
    <3>3. handling_sig' = s /\ trap_cx' = s /\ trap_ctx_backup' = trap_cx
      BY <1>2, <2>2, <3>2 DEF handle_signals, check_pending_signals,
           call_user_signal_handler
    <3>4. s # -1
      BY <3>2, SigsAssumption DEF UserSigs
    <3> QED
      BY <3>2, <3>3, <3>4 DEF ContextIntact, Nests
  <2> QED
    BY <2>1, <2>2
<1>3. CASE UNCHANGED <<handling_sig, trap_cx, trap_ctx_backup>>
  BY <1>3 DEF ContextIntact
<1> QED
  BY <1>1, <1>2, <1>3 DEF Next, vars, sys_kill, Faults, Traps, Blocks, Wakes, sys_exit,
       sys_sigprocmask, sys_sigaction

\* The context that a handler interrupts is lost in one way only, for any masks:
\* a second handler starts on top of a first whose action lets its signal in.
THEOREM ContextsKept == Spec => ContextKept
<1>1. IInv /\ [Next]_vars => [ContextIntact => ContextIntact' \/ Nests]_vars
  BY ContextStep
<1> QED
  BY <1>1, Invariance, PTL DEF Spec, ContextKept

\* The action of the handler in progress masks the user signals.
HandlersMask == handling_sig # -1 => UserSigs \subseteq actions[handling_sig].mask

\* The program is never lost if that is always so: handling_sig tells which
\* handler runs, and the program waits in the one backup.
THEOREM MaskedProgramsKept == Spec /\ []HandlersMask => []ContextIntact
<1>1. Init => ContextIntact
  BY DEF Init, ContextIntact
<1>2. IInv /\ HandlersMask /\ ContextIntact /\ [Next]_vars => ContextIntact'
  BY ContextStep DEF HandlersMask, Nests
<1> QED
  BY <1>1, <1>2, Invariance, PTL DEF Spec

\* A user signal leaves the pending set only when its handler is called, on top
\* of the context that was interrupted, whatever the masks of the handlers are.
THEOREM SignalsConsumed == Spec => SignalConsumedByHandler
<1>1. ASSUME [Next]_vars,
             NEW s \in UserSigs, s \in signals, s \notin signals'
      PROVE  trap_cx' = s /\ trap_ctx_backup' = trap_cx /\ handling_sig' = s
  <2>1. handle_signals
    BY <1>1 DEF Next, vars, sys_kill, Faults, Traps, Blocks, Wakes, sys_exit,
         sys_sigprocmask, sys_sigaction, sys_sigreturn
  <2>2. s \in Handled
    BY <1>1, <2>1 DEF handle_signals, check_pending_signals, Cleared, UserSigs,
         KernelSigs
  <2>3. Min(Handled) = s
    BY <2>2, OneHandled
  <2> QED
    BY <2>1, <2>2, <2>3 DEF handle_signals, check_pending_signals,
         call_user_signal_handler
<1>2. [Next]_vars =>
        [\A s \in UserSigs :
           (s \in signals /\ s \notin signals')
             => /\ trap_cx' = s
                /\ trap_ctx_backup' = trap_cx
                /\ handling_sig' = s]_vars
  BY <1>1
<1> QED
  BY <1>2, PTL DEF Spec, SignalConsumedByHandler
=============================================================================
