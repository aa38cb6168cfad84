----------------------------- MODULE UserBuffers -----------------------------
(***************************************************************************)
(* How the kernel reaches the memory of a program: translation of virtual  *)
(* addresses by a walk through the page table of Memory, the slices of a   *)
(* buffer that crosses pages, and the iterator over them.                  *)
(* Sources: os/src/mm/page_table.rs and os/src/mm/address.rs.              *)
(*                                                                         *)
(* A page has PAGE_SIZE bytes; a physical byte is a frame and an offset.   *)
(* Programs pass addresses of the lower half, where VirtAddr is a number.  *)
(***************************************************************************)
EXTENDS Memory

CONSTANTS PAGE_SIZE,  \* bytes of a page
          RefSizes    \* sizes of the values that are passed by reference

ASSUME PageAssumption ==
  /\ PAGE_SIZE \in Nat \ {0}
  /\ \A n \in RefSizes : n \in 1 .. PAGE_SIZE /\ PAGE_SIZE % n = 0

floor(va) == va \div PAGE_SIZE
page_offset(va) == va % PAGE_SIZE
VirtAddr(vpn) == vpn * PAGE_SIZE

\* The walk stops with None, which callers unwrap, where a table is missing.  The last entry is not
\* asked whether it is valid: an empty one leads to frame 0.
NoEntry == -2
EmptyEntry == 0
find_pte(ms, vpn) ==
  IF \E at \in Range(TablesOf(vpn)) : \A k \in DOMAIN ms.tables : ms.tables[k].at # at
  THEN NoEntry
  ELSE IF vpn \in DOMAIN ms.ptes THEN ms.ptes[vpn] ELSE EmptyEntry

translate(ms, vpn) == find_pte(ms, vpn)

translate_va(ms, va) == [ppn |-> find_pte(ms, floor(va)), offset |-> page_offset(va)]

\* A reference to a value, and the bytes of a string whose terminator is the
\* size-th one: every byte is translated by itself.
translated_refmut(ms, ptr) == translate_va(ms, ptr)
translated_str(ms, ptr, size) == [n \in 0 .. size - 1 |-> translate_va(ms, ptr + n)]

\* A bug: the end of a slice at the end of its page is offset 0.
slice_end_at_zero(end_va) == page_offset(end_va)

\* Where the slice of a page ends: a slice up to the end of the page is open.
slice_end(end_va) == IF page_offset(end_va) = 0 THEN PAGE_SIZE ELSE page_offset(end_va)

\* The slices of the buffer from start to end, one for each page.
translated_byte_buffer(ms, start, end) ==
  LET v[va \in start .. end] ==
        IF va >= end THEN <<>>
        ELSE LET end_va == Min({VirtAddr(floor(va) + 1), end})
             IN  <<[ppn |-> translate(ms, floor(va)),
                    from |-> page_offset(va), to |-> slice_end(end_va)]>> \o v[end_va]
  IN  v[start]

\* len of a slice, and of the whole UserBuffer.
slice_len(slice) == slice.to - slice.from
len(buffers) == FoldLeft(LAMBDA total, slice : total + slice_len(slice), 0, buffers)

\* UserBufferIterator: the pointer it returns, and where it goes then.
Pointer(buffers, at) ==
  [ppn |-> buffers[at.current_buffer].ppn,
   offset |-> buffers[at.current_buffer].from + at.current_idx]

next(buffers, at) ==
  IF at.current_idx + 1 = slice_len(buffers[at.current_buffer])
  THEN [current_buffer |-> at.current_buffer + 1, current_idx |-> 0]
  ELSE [at EXCEPT !.current_idx = @ + 1]

\* The state of the iterator after so many calls of next.
Iterator(buffers, count) ==
  LET at[n \in 0 .. count] == IF n = 0 THEN [current_buffer |-> 1, current_idx |-> 0]
                              ELSE next(buffers, at[n - 1])
  IN  at

-----------------------------------------------------------------------------
(* Properties                                                              *)

\* The frame and offset where the hardware finds the byte at va.
ByteAt(p, va) == [ppn |-> space[p].ptes[va \div PAGE_SIZE], offset |-> va % PAGE_SIZE]

\* The buffers of a process that lie in its image or in one of its stacks.
Buffers(p) ==
  LET area(a) == {<<s, e>> \in (VirtAddr(a.start) .. VirtAddr(a.start + a.pages))
                               \X (VirtAddr(a.start) .. VirtAddr(a.start + a.pages)) : s <= e}
  IN  UNION {area(a) : a \in {b \in Range(space[p].areas) :
                                b.type = "Framed" /\ b.start < FB_VADDR}}

\* A system call reaches exactly the bytes that the program means: the iterator
\* over the slices of a buffer gives the byte of each of its addresses, in their
\* order, and ends with the last one, wherever the buffer starts, ends and
\* crosses pages, and whatever the process has mapped and unmapped before.
BuffersTranslated ==
  \A p \in Procs : state[p] = "running" => \A b \in Buffers(p) :
    LET buffers == translated_byte_buffer(space[p], b[1], b[2])
        size == b[2] - b[1]
        at == Iterator(buffers, size)
    IN  /\ len(buffers) = size
        /\ \A n \in 0 .. size - 1 : Pointer(buffers, at[n]) = ByteAt(p, b[1] + n)
        /\ at[size] = [current_buffer |-> Len(buffers) + 1, current_idx |-> 0]
        /\ translated_str(space[p], b[1], size) = [n \in 0 .. size - 1 |-> ByteAt(p, b[1] + n)]
        \* A reference to an aligned value reaches all of it in one frame.
        /\ \A n \in RefSizes : size = n /\ b[1] % n = 0 =>
             LET pa == translated_refmut(space[p], b[1])
             IN  \A k \in 0 .. n - 1 :
                   [pa EXCEPT !.offset = @ + k] = ByteAt(p, b[1] + k)
=============================================================================
