-------------------------------- MODULE Memory --------------------------------
(***************************************************************************)
(* The address spaces of the processes: frame allocator, page tables and   *)
(* map areas, and the system calls that change them (fork, exec, thread    *)
(* creation and exit, process exit and reaping, the frame buffer).         *)
(* Sources: os/src/mm/{frame_allocator,page_table,memory_set}.rs,          *)
(* os/src/task/{id,process}.rs and os/src/syscall/{thread,gui}.rs.         *)
(*                                                                         *)
(* The kernel does not give up the processor inside these calls, so each   *)
(* is one action.  A page holds one value instead of 4096 bytes, a page    *)
(* table has Fanout entries instead of 512.  Kernel stacks are module      *)
(* Process.                                                                *)
(***************************************************************************)
EXTENDS FrameAllocator, SequencesExt

CONSTANTS Procs, initproc,
          Frames,           \* number of physical frames
          Fanout,           \* entries of a page table
          ImageSizes,       \* pages of the programs
          USER_STACK_PAGES,
          MaxThreads,       \* bound on the threads of a process
          MaxCalls,         \* bound on the number of system calls
          Values, Stored    \* what programs write, and to which pages

Tids == INSTANCE RecycleAllocator

\* Virtual pages.  Programs start at page 0; the trampoline is the last page.
TRAMPOLINE == Fanout ^ 3 - 1
FB_VADDR == Fanout * Fanout - 1
trap_cx_bottom_from_tid(tid) == TRAMPOLINE - 1 - tid
ustack_bottom_from_tid(ustack_base, tid) == ustack_base + tid * (1 + USER_STACK_PAGES)

ASSUME SizeAssumption ==
  /\ initproc \in Procs
  /\ {Frames, USER_STACK_PAGES, MaxThreads, MaxCalls} \cup ImageSizes \subseteq Nat \ {0}
  /\ Stored \subseteq 0 .. FB_VADDR - 1

\* The frames of the allocator are 1 to Frames.
KernelFrame == 0     \* holds the trampoline
DeviceFrame == -1    \* graphics memory

\* Contents: a cleared page, a page of a program's image, the arguments on top
\* of a fresh stack, a trap context.  Programs write members of Values.
Fresh == {"zero", "context"}
Contents == Fresh \cup {"image", "arguments"} \cup Values

VARIABLES
  frame_allocator,  \* FRAME_ALLOCATOR
  mem,              \* frame -> contents
  space,            \* process -> its MemorySet
  task_res,         \* process -> task_res_allocator, which numbers its threads
  ustack_base,      \* process -> first page of the first user stack
  state,            \* process -> "unused", "running", "zombie"
  panicked,         \* "no", or the reason of the panic that ended the system
  calls             \* system calls so far

vars == <<frame_allocator, mem, space, task_res, ustack_base, state, panicked, calls>>

NoSpace == [tables |-> <<>>, ptes |-> <<>>, areas |-> <<>>]

-----------------------------------------------------------------------------
(* One memory set under work: s has the allocator fa, the frame contents   *)
(* mem, the memory set ms and the panic raised so far, after which nothing *)
(* happens.                                                                *)

Panics(s, why) == [s EXCEPT !.panicked = why]

\* A bug: FrameTracker::new does not clear the page.
frame_alloc_dirty(s, n) ==
  IF n > available(s.fa) THEN Panics(s, "oom") ELSE [s EXCEPT !.fa = alloc(@, n)]

\* n frames, cleared.
frame_alloc(s, n) ==
  IF n > available(s.fa) THEN Panics(s, "oom")
  ELSE LET got == {nth(s.fa, i) : i \in 1..n}
       IN  [s EXCEPT !.fa = alloc(@, n),
                     !.mem = [f \in DOMAIN @ |-> IF f \in got THEN "zero" ELSE @[f]]]

frame_dealloc(s, ppns) ==
  IF s.panicked # "no" THEN s
  ELSE IF dealloc_panics(s.fa, ppns) THEN Panics(s, "frame")
  ELSE [s EXCEPT !.fa = dealloc(@, ppns)]

\* The tables on the way from the root to the entry of vpn, by level and index.
Root == <<3, 0>>
TablesOf(vpn) == << <<2, vpn \div (Fanout * Fanout)>>, <<1, vpn \div Fanout>> >>

\* The tables that find_pte_create adds for the i-th page of vpns.
MissingTables(ms, vpns, i) ==
  SelectSeq(TablesOf(vpns[i]),
            LAMBDA at : /\ \A k \in DOMAIN ms.tables : ms.tables[k].at # at
                        /\ \A j \in 1 .. i - 1 : at \notin Range(TablesOf(vpns[j])))

Concat(seqs) == FoldLeft(LAMBDA a, b : a \o b, <<>>, seqs)

\* Map the pages of vpns one after the other, each to a new frame if owned
\* (map_one of a framed area: first the frame, then the missing tables), else to ppn.
MapPages(s, vpns, owned, ppn) ==
  LET Slots(i) == (IF owned THEN << <<0, vpns[i]>> >> ELSE <<>>) \o MissingTables(s.ms, vpns, i)
      slots == Concat([i \in DOMAIN vpns |-> Slots(i)])
      frame == [k \in DOMAIN slots |-> [at |-> slots[k], ppn |-> nth(s.fa, k)]]
      Index(vpn) == CHOOSE k \in DOMAIN slots : slots[k] = <<0, vpn>>
      t == frame_alloc(s, Len(slots))
      mapped == [vpn \in Range(vpns) |-> IF owned THEN nth(s.fa, Index(vpn)) ELSE ppn]
  IN  IF s.panicked # "no" \/ t.panicked # "no" THEN t
      ELSE IF Range(vpns) \cap DOMAIN s.ms.ptes # {} \/ ~IsInjective(vpns)
           THEN Panics(s, "mapped")
      ELSE [t EXCEPT !.ms.tables = @ \o SelectSeq(frame, LAMBDA f : f.at[1] # 0),
                     !.ms.ptes = @ @@ mapped]

-----------------------------------------------------------------------------
(* MemorySet                                                               *)

MapArea(start, pages, type) == [start |-> start, pages |-> pages, type |-> type]

vpn_range(area) == [i \in 1 .. area.pages |-> area.start + i - 1]

\* The frames an area owns, in the order it drops them.
data_frames(area) ==
  IF area.type = "Noalloc" THEN <<>> ELSE [i \in 1 .. area.pages |-> area.frames[i]]

\* push of one area after the other; Noalloc areas cannot be pushed.
push(s, areas) ==
  LET t == MapPages(s, Concat([i \in DOMAIN areas |-> vpn_range(areas[i])]), TRUE, 0)
      WithFrames(area) == [start |-> area.start, pages |-> area.pages, type |-> area.type,
                           frames |-> [k \in 1 .. area.pages |-> t.ms.ptes[area.start + k - 1]]]
  IN  IF s.panicked # "no" THEN s
      ELSE IF \E i \in DOMAIN areas : areas[i].type = "Noalloc" THEN Panics(s, "noalloc")
      ELSE IF t.panicked # "no" THEN t
      ELSE [t EXCEPT !.ms.areas = @ \o [i \in DOMAIN areas |-> WithFrames(areas[i])]]

push_noalloc(s, area) ==
  LET t == MapPages(s, vpn_range(area), FALSE, DeviceFrame)
  IN  IF t.panicked # "no" THEN t ELSE [t EXCEPT !.ms.areas = Append(@, area)]

\* A bug: the frames are given back and the entries stay.
remove_areas_keeps_ptes(s, starts) ==
  LET gone == SelectSeq(s.ms.areas, LAMBDA a : a.start \in Range(starts))
  IN  [frame_dealloc(s, Concat([i \in DOMAIN gone |-> data_frames(gone[i])]))
         EXCEPT !.ms.areas = SelectSeq(@, LAMBDA a : a.start \notin Range(starts))]

\* remove_area_with_start_vpn for each of starts: no effect where no area starts.
remove_areas(s, starts) ==
  LET At(start) == SelectSeq(s.ms.areas, LAMBDA a : a.start = start)
      gone == Concat([i \in DOMAIN starts |-> At(starts[i])])
      vpns == Range(Concat([i \in DOMAIN gone |-> vpn_range(gone[i])]))
      t == frame_dealloc(s, Concat([i \in DOMAIN gone |-> data_frames(gone[i])]))
  IN  IF t.panicked # "no" THEN t
      ELSE IF ~(vpns \subseteq DOMAIN s.ms.ptes) THEN Panics(t, "unmapped")
      ELSE [t EXCEPT !.ms.ptes = Restrict(@, DOMAIN @ \ vpns),
                     !.ms.areas = SelectSeq(@, LAMBDA a : a.start \notin Range(starts))]

\* The frames of a memory set in the order its fields are dropped.
TableFrames(ms) == [i \in DOMAIN ms.tables |-> ms.tables[i].ppn]
AreaFrames(ms) == Concat([i \in DOMAIN ms.areas |-> data_frames(ms.areas[i])])
drop(s, ms) == frame_dealloc(s, TableFrames(ms) \o AreaFrames(ms))

recycle_data_pages(s) == [frame_dealloc(s, AreaFrames(s.ms)) EXCEPT !.ms.areas = <<>>]

\* new_bare, which allocates the root, and map_trampoline
new_bare(s) ==
  IF s.panicked # "no" THEN s
  ELSE LET t == frame_alloc(s, 1)
           root == [at |-> Root, ppn |-> nth(s.fa, 1)]
       IN  MapPages([t EXCEPT !.ms = [tables |-> <<root>>, ptes |-> <<>>, areas |-> <<>>]],
                    <<TRAMPOLINE>>, FALSE, KernelFrame)

\* Give the pages of vpns their contents.
Fill(s, vpns, Content(_)) ==
  IF s.panicked # "no" THEN s
  ELSE [s EXCEPT !.mem = [f \in DOMAIN @ |->
          IF \E v \in vpns : s.ms.ptes[v] = f
          THEN Content(CHOOSE v \in vpns : s.ms.ptes[v] = f) ELSE @[f]]]

copy_data(s, pages) == Fill(s, 0 .. pages - 1, LAMBDA v : "image")

from_elf(s, pages) == copy_data(push(new_bare(s), <<MapArea(0, pages, "Framed")>>), pages)

Pages(ms) == DOMAIN ms.ptes \ {TRAMPOLINE}

from_existed_user(s, user_space) ==
  Fill(push(new_bare(s), user_space.areas), Pages(user_space),
       LAMBDA v : s.mem[user_space.ptes[v]])

-----------------------------------------------------------------------------
(* TaskUserRes: the user stack and the trap context of a thread            *)

alloc_user_res(s, base, tid) ==
  push(s, <<MapArea(ustack_bottom_from_tid(base, tid), USER_STACK_PAGES, "Framed"),
            MapArea(trap_cx_bottom_from_tid(tid), 1, "Framed")>>)

\* A bug: the trap context stays.
dealloc_ustack_only(s, base, tids) ==
  remove_areas(s, [i \in DOMAIN tids |-> ustack_bottom_from_tid(base, tids[i])])

\* For several threads, one after the other.
dealloc_user_res(s, base, tids) ==
  remove_areas(s, Concat([i \in DOMAIN tids |->
    <<ustack_bottom_from_tid(base, tids[i]), trap_cx_bottom_from_tid(tids[i])>>]))

app_init_context(s, tid) == Fill(s, {trap_cx_bottom_from_tid(tid)}, LAMBDA v : "context")

-----------------------------------------------------------------------------
(* System calls                                                            *)

Work(p) == [fa |-> frame_allocator, mem |-> mem, ms |-> space[p], panicked |-> "no"]

\* The end of a call that worked on process p: its results, or the panic.
Done(s, p, res, base, st) ==
  calls < MaxCalls /\ calls' = calls + 1 /\
  IF s.panicked # "no"
  THEN /\ panicked' = s.panicked
       /\ UNCHANGED <<frame_allocator, mem, space, task_res, ustack_base, state>>
  ELSE /\ frame_allocator' = s.fa
       /\ mem' = s.mem
       /\ space' = [space EXCEPT ![p] = s.ms]
       /\ task_res' = [task_res EXCEPT ![p] = res]
       /\ ustack_base' = [ustack_base EXCEPT ![p] = base]
       /\ state' = [state EXCEPT ![p] = st]
       /\ UNCHANGED panicked

Runs(p) == panicked = "no" /\ state[p] = "running"

\* The length of the tasks vector, which a thread's exit does not shorten.
thread_count(p) == task_res[p].current

AssertSingle(s, p) == IF thread_count(p) # 1 THEN Panics(s, "threads") ELSE s

sys_fork(p, q) ==
  /\ Runs(p) /\ state[q] = "unused"
  /\ Done(from_existed_user(AssertSingle(Work(q), p), space[p]), q,
          Tids!alloc(Tids!NewAllocator), ustack_base[p], "running")

\* A program of so many pages replaces the one that runs.
Exec(s, old, pages) ==
  LET base == pages + 1   \* one guard page after the image
      loaded == alloc_user_res(drop(from_elf(s, pages), old), base, 0)
      top == ustack_bottom_from_tid(base, 0) + USER_STACK_PAGES - 1
  IN  app_init_context(Fill(loaded, {top}, LAMBDA v : "arguments"), 0)

sys_exec(p, pages) ==
  /\ Runs(p)
  /\ Done(Exec(AssertSingle(Work(p), p), space[p], pages), p,
          task_res[p], pages + 1, "running")

sys_thread_create(p) ==
  LET tid == Tids!NextId(task_res[p])
  IN  /\ Runs(p) /\ Cardinality(Tids!InUse(task_res[p])) < MaxThreads
      /\ Done(app_init_context(alloc_user_res(Work(p), ustack_base[p], tid), tid), p,
              Tids!alloc(task_res[p]), ustack_base[p], "running")

\* exit_current_and_run_next of a thread that is not the main one.
thread_exit(p, tid) ==
  /\ Runs(p) /\ tid \in Tids!InUse(task_res[p]) \ {0}
  /\ Done(dealloc_user_res(Work(p), ustack_base[p], <<tid>>), p,
          Tids!dealloc(task_res[p], tid), ustack_base[p], "running")

\* exit_current_and_run_next of the main thread: the resources of all threads
\* go first, then the remaining areas.  The exit of initproc is a shutdown.
process_exit(p) ==
  LET live == Tids!InUse(task_res[p])
      tids == SelectSeq([i \in 1 .. task_res[p].current |-> i - 1], LAMBDA t : t \in live)
  IN  /\ Runs(p) /\ p # initproc
      /\ Done(recycle_data_pages(dealloc_user_res(Work(p), ustack_base[p], tids)), p, Tids!NewAllocator, 0, "zombie")

\* The parent reaps the process: the last reference to its PCB goes.
waitpid(p) ==
  /\ panicked = "no" /\ state[p] = "zombie"
  /\ Done([drop(Work(p), space[p]) EXCEPT !.ms = NoSpace], p, Tids!NewAllocator, 0, "unused")

sys_framebuffer(p) ==
  /\ Runs(p)
  /\ Done(push_noalloc(Work(p), MapArea(FB_VADDR, 1, "Noalloc")), p,
          task_res[p], ustack_base[p], "running")

\* A program writes one of its pages: image, stacks and not the trap contexts.
store(p, vpn, v) ==
  /\ Runs(p) /\ vpn \in DOMAIN space[p].ptes
  /\ mem' = [mem EXCEPT ![space[p].ptes[vpn]] = v]
  /\ UNCHANGED <<frame_allocator, space, task_res, ustack_base, state, panicked, calls>>

-----------------------------------------------------------------------------
\* initproc was loaded at boot.
Init ==
  \E pages \in ImageSizes :
    LET bare == [fa |-> init(1, Frames + 1), mem |-> [f \in 1..Frames |-> "zero"],
                 ms |-> NoSpace, panicked |-> "no"]
        s == Exec(bare, NoSpace, pages)
    IN  /\ frame_allocator = s.fa /\ mem = s.mem /\ panicked = s.panicked /\ calls = 0
        /\ space = [p \in Procs |-> IF p = initproc THEN s.ms ELSE NoSpace]
        /\ task_res = [p \in Procs |-> IF p = initproc THEN Tids!alloc(Tids!NewAllocator)
                                       ELSE Tids!NewAllocator]
        /\ ustack_base = [p \in Procs |-> IF p = initproc THEN pages + 1 ELSE 0]
        /\ state = [p \in Procs |-> IF p = initproc THEN "running" ELSE "unused"]

Next ==
  \E p \in Procs :
    \/ \E q \in Procs : sys_fork(p, q)
    \/ \E pages \in ImageSizes : sys_exec(p, pages)
    \/ sys_thread_create(p)
    \/ \E tid \in 1 .. task_res[p].current - 1 : thread_exit(p, tid)
    \/ process_exit(p)
    \/ waitpid(p)
    \/ sys_framebuffer(p)
    \/ \E vpn \in Stored, v \in Values : store(p, vpn, v)

Spec == Init /\ [][Next]_vars

-----------------------------------------------------------------------------
(* Properties                                                              *)

\* The frames that process p holds, page tables and areas.
OwnedBy(p) == TableFrames(space[p]) \o AreaFrames(space[p])

\* Types: allocator and page tables within the machine's frames and pages.
TypeOK ==
  /\ frame_allocator.current \in 1 .. Frames + 1
  /\ frame_allocator.recycled \in Seq(1..Frames)
  /\ mem \in [1..Frames -> Contents]
  /\ \A p \in Procs :
       /\ DOMAIN space[p].ptes \subseteq 0 .. TRAMPOLINE
       /\ Range(space[p].ptes) \subseteq (1..Frames) \cup {KernelFrame, DeviceFrame}
       /\ ustack_base[p] \in Nat
  /\ state \in [Procs -> {"unused", "running", "zombie"}]
  /\ panicked \in {"no", "oom", "threads", "noalloc", "mapped", "unmapped", "frame"}

\* Every frame is in exactly one place: free, or held by one page table or one
\* area of one process.  Drops of exec, thread exit, process exit and reaping
\* give back each frame once, and none is lost.
FramesOwned ==
  TypeOK /\ \A f \in 1..Frames :
    LET Copies(seq) == Cardinality({i \in DOMAIN seq : seq[i] = f})
    IN  Copies(frame_allocator.recycled)
          + (IF f >= frame_allocator.current THEN 1 ELSE 0)
          + FoldSet(LAMBDA p, n : n + Copies(OwnedBy(p)), 0, Procs) = 1

\* The page table of a running process translates exactly the pages of its
\* areas, each to the frame the area holds, and areas do not overlap: after any
\* sequence of calls no entry leads to a frame that was given back.
PagesMapped ==
  \A p \in Procs :
    state[p] = "running" =>
      LET areas == space[p].areas
          ptes == space[p].ptes
          pages == Concat([i \in DOMAIN areas |-> vpn_range(areas[i])])
      IN  /\ DOMAIN ptes = Range(pages) \cup {TRAMPOLINE}
          /\ Cardinality(Range(pages)) = Len(pages)
          /\ \A i \in DOMAIN areas : \A vpn \in Range(vpn_range(areas[i])) :
               ptes[vpn] = IF areas[i].type = "Noalloc" THEN DeviceFrame
                           ELSE areas[i].frames[vpn - areas[i].start + 1]

\* The check of frame dealloc and the asserts of map and unmap hold, except that
\* a process may ask for the frame buffer twice; only the frame buffer cannot be
\* copied by fork.
AssertionsHold ==
  /\ panicked \notin {"frame", "unmapped"}
  /\ panicked \in {"mapped", "noalloc"} =>
       \E p \in Procs : FB_VADDR \in DOMAIN space[p].ptes

\* What a program sees of its memory, through its page table.
View(p) ==
  IF state[p] # "running" THEN << >>
  ELSE [vpn \in DOMAIN space[p].ptes \ {TRAMPOLINE, FB_VADDR} |-> mem[space[p].ptes[vpn]]]

\* The memory of a program that has just been loaded.
Image(pages) ==
  LET stack == ustack_bottom_from_tid(pages + 1, 0)
  IN  [vpn \in 0 .. pages - 1 |-> "image"]
        @@ [vpn \in stack .. stack + USER_STACK_PAGES - 2 |-> "zero"]
        @@ (stack + USER_STACK_PAGES - 1 :> "arguments")
        @@ (trap_cx_bottom_from_tid(0) :> "context")

Spaces == INSTANCE AddressSpaces
  WITH memory <- [p \in Procs |-> View(p)],
       Images <- {Image(pages) : pages \in ImageSizes}

\* Memory management implements private memories: a store is seen by its own
\* process only, fork gives an equal copy, new stacks hold nothing of anybody's,
\* and no call changes another process's pages.
ImplementsSpaces == Spaces!Spec
=============================================================================
