------------------------------ MODULE Interrupts ------------------------------
(***************************************************************************)
(* IntrMaskingInfo of os/src/sync/up.rs: interrupts are off while a cell   *)
(* that interrupt handlers also use is borrowed, and sessions nest.  A     *)
(* masking state m has the sie bit of the processor and the two fields of  *)
(* INTR_MASKING_INFO.                                                      *)
(***************************************************************************)
EXTENDS Integers

Unmasked(sie) == [sie |-> sie, nested_level |-> 0, sie_before_masking |-> FALSE]

enter(m) ==
  [sie |-> FALSE,
   nested_level |-> m.nested_level + 1,
   sie_before_masking |-> IF m.nested_level = 0 THEN m.sie ELSE m.sie_before_masking]

\* A bug: the end of an inner session already turns interrupts on.
exit_unnested(m) ==
  [m EXCEPT !.nested_level = @ - 1, !.sie = @ \/ m.sie_before_masking]

exit(m) ==
  [m EXCEPT !.nested_level = @ - 1,
            !.sie = @ \/ (m.nested_level = 1 /\ m.sie_before_masking)]

\* A whole session inside another one, or of an interrupt handler.
session(m) == exit(enter(m))
=============================================================================
