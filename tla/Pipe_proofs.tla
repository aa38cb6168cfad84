----------------------------- MODULE Pipe_proofs -----------------------------
(***************************************************************************)
(* Proofs about Pipe, for a ring of any size, any set of processes and     *)
(* threads, and any bytes and buffers: the inductive invariant IInv, and   *)
(* that the pipe implements BoundedFifo.                                   *)
(***************************************************************************)
EXTENDS Pipe, SequenceTheorems, TLAPS

RingOK == RingTypeOK /\ StatusAgrees

\* The two values of a remainder that the indices of the ring take.
LEMMA Remainder ==
  ASSUME NEW x \in Nat, x < 2 * RING_BUFFER_SIZE
  PROVE  /\ x % RING_BUFFER_SIZE \in Indices
         /\ x < RING_BUFFER_SIZE => x % RING_BUFFER_SIZE = x
         /\ x >= RING_BUFFER_SIZE => x % RING_BUFFER_SIZE = x - RING_BUFFER_SIZE
  BY RingAssumption DEF Indices

\* available_read and available_write count the used and the free slots.
LEMMA Availability ==
  ASSUME RingOK
  PROVE  /\ available_read \in 0..RING_BUFFER_SIZE
         /\ available_write = RING_BUFFER_SIZE - available_read
         /\ status = "Empty" <=> available_read = 0
         /\ status = "Full" <=> available_read = RING_BUFFER_SIZE
  BY RingAssumption DEF RingOK, RingTypeOK, StatusAgrees, Indices, available_read, available_write

SlotsHoldContents ==
  /\ Contents \in Seq(Bytes) /\ Len(Contents) = available_read
  /\ \A i \in 1..available_read : Slot(head, i) \in Indices /\ Contents[i] = arr[Slot(head, i)]

\* Contents is a sequence of bytes, as long as available_read says.
LEMMA ContentsType == RingOK => SlotsHoldContents
  <1> SUFFICES ASSUME RingOK PROVE SlotsHoldContents
    OBVIOUS
  <1>1. available_read \in 0..RING_BUFFER_SIZE
    BY Availability
  <1>2. \A i \in 1..available_read : Slot(head, i) \in Indices
    <2> SUFFICES ASSUME NEW i \in 1..available_read PROVE Slot(head, i) \in Indices
      OBVIOUS
    <2>1. head + i - 1 \in Nat /\ head + i - 1 < 2 * RING_BUFFER_SIZE
      BY <1>1, RingAssumption DEF RingOK, RingTypeOK, Indices
    <2> QED BY <2>1, Remainder DEF Slot
  <1>3. Contents \in [1..available_read -> Bytes]
    BY <1>2 DEF Contents, RingOK, RingTypeOK
  <1> QED BY <1>1, <1>2, <1>3 DEF Contents, SlotsHoldContents

\* The same after a step.
LEMMA ContentsTypePrime == RingOK' => SlotsHoldContents'
  BY ContentsType, PTL

\* write_byte, called when a slot is free, appends to the contents.
LEMMA WriteByte ==
  ASSUME RingOK, available_write > 0, NEW b \in Bytes, write_byte(b)
  PROVE  /\ RingOK'
         /\ available_read' = available_read + 1
         /\ available_write' = available_write - 1
         /\ Contents' = Append(Contents, b)
  <1>1. available_read \in 0..(RING_BUFFER_SIZE - 1) /\ status # "Full"
    BY Availability, RingAssumption
  <1>2. /\ head \in Indices /\ tail \in Indices /\ head' = head
        /\ head \in Nat /\ tail \in Nat /\ head < RING_BUFFER_SIZE /\ tail < RING_BUFFER_SIZE
    BY RingAssumption DEF RingOK, RingTypeOK, Indices, write_byte
  <1>3. /\ tail' \in Indices
        /\ tail + 1 < RING_BUFFER_SIZE => tail' = tail + 1
        /\ tail + 1 = RING_BUFFER_SIZE => tail' = 0
    BY <1>2, Remainder, RingAssumption DEF write_byte
  <1>4. RingOK'
    BY <1>2, <1>3 DEF RingOK, RingTypeOK, StatusAgrees, write_byte
  <1>5. available_read' = available_read + 1
    BY <1>1, <1>2, <1>3, RingAssumption
      DEF RingOK, RingTypeOK, StatusAgrees, Indices, available_read, write_byte
  <1>6. available_write' = available_write - 1
    <2>1. status' = "Full" => available_read' = RING_BUFFER_SIZE
      BY <1>2, <1>4, RingAssumption DEF RingOK, StatusAgrees, available_read
    <2>2. available_write' = RING_BUFFER_SIZE - available_read'
      BY <2>1, <1>1, <1>5, RingAssumption DEF available_write
    <2> QED BY <2>2, <1>5, <1>1, Availability, RingAssumption
  <1>7. Slot(head', available_read + 1) = tail
    <2>1. Slot(head', available_read + 1) = (head + available_read) % RING_BUFFER_SIZE
      BY <1>1, <1>2, <1>5 DEF Slot
    <2>2. head + available_read \in Nat /\ head + available_read < 2 * RING_BUFFER_SIZE
      BY <1>1, <1>2, RingAssumption
    <2>3. \/ head + available_read = tail
          \/ head + available_read = tail + RING_BUFFER_SIZE
      BY <1>1, <1>2, RingAssumption DEF RingOK, RingTypeOK, StatusAgrees, available_read
    <2> QED BY <2>1, <2>2, <2>3, <1>2, Remainder, RingAssumption
  <1>8. \A i \in 1..available_read : Slot(head', i) = Slot(head, i) /\ Slot(head, i) # tail
    <2> SUFFICES ASSUME NEW i \in 1..available_read PROVE Slot(head', i) = Slot(head, i) /\ Slot(head, i) # tail
      OBVIOUS
    <2>1. Slot(head', i) = Slot(head, i)
      BY <1>2 DEF Slot
    <2>2. head + i - 1 \in Nat /\ head + i - 1 < 2 * RING_BUFFER_SIZE
      BY <1>1, <1>2, RingAssumption
    <2>3. head + i - 1 # tail /\ head + i - 1 # tail + RING_BUFFER_SIZE
      BY <1>1, <1>2, RingAssumption DEF RingOK, RingTypeOK, StatusAgrees, available_read
    <2> QED BY <2>1, <2>2, <2>3, <1>2, Remainder, RingAssumption DEF Slot
  <1>9. Contents' = Append(Contents, b)
    <2>1. /\ Contents \in Seq(Bytes) /\ Len(Contents) = available_read
          /\ \A i \in 1..available_read : Slot(head, i) \in Indices /\ Contents[i] = arr[Slot(head, i)]
      BY ContentsType DEF SlotsHoldContents
    <2>2. \A i \in 1..available_read : arr'[Slot(head', i)] = Contents[i]
      BY <2>1, <1>8, <1>2 DEF write_byte, RingOK, RingTypeOK
    <2>3. arr'[Slot(head', available_read + 1)] = b
      BY <1>7, <1>2 DEF write_byte, RingOK, RingTypeOK
    <2>4. /\ Append(Contents, b) \in Seq(Bytes) /\ Len(Append(Contents, b)) = available_read + 1
          /\ \A i \in 1..available_read : Append(Contents, b)[i] = Contents[i]
          /\ Append(Contents, b)[available_read + 1] = b
      BY <2>1, AppendProperties
    <2>5. /\ Contents' \in Seq(Bytes) /\ Len(Contents') = available_read + 1
          /\ \A i \in 1..(available_read + 1) : Contents'[i] = arr'[Slot(head', i)]
      BY <1>4, <1>5, ContentsTypePrime DEF SlotsHoldContents
    <2>6. \A i \in 1..(available_read + 1) : Contents'[i] = Append(Contents, b)[i]
      <3> SUFFICES ASSUME NEW i \in 1..(available_read + 1)
                   PROVE  Contents'[i] = Append(Contents, b)[i]
        OBVIOUS
      <3>1. i \in 1..available_read \/ i = available_read + 1
        BY <1>1
      <3> QED BY <3>1, <2>2, <2>3, <2>4, <2>5
    <2> QED BY <2>4, <2>5, <2>6, SeqEqual
  <1> QED BY <1>4, <1>5, <1>6, <1>9

\* read_byte, called when a byte is there, takes the first one.
LEMMA ReadByte ==
  ASSUME RingOK, available_read > 0, read_byte
  PROVE  /\ RingOK'
         /\ available_read' = available_read - 1
         /\ available_write' = available_write + 1
         /\ Contents # <<>> /\ arr[head] = Head(Contents) /\ arr[head] \in Bytes
         /\ Contents' = Tail(Contents)
  <1>1. available_read \in 1..RING_BUFFER_SIZE /\ status # "Empty"
    BY Availability, RingAssumption
  <1>2. /\ head \in Indices /\ tail \in Indices /\ tail' = tail /\ arr' = arr
        /\ head \in Nat /\ tail \in Nat /\ head < RING_BUFFER_SIZE /\ tail < RING_BUFFER_SIZE
    BY RingAssumption DEF RingOK, RingTypeOK, Indices, read_byte
  <1>3. /\ head' \in Indices
        /\ head + 1 < RING_BUFFER_SIZE => head' = head + 1
        /\ head + 1 = RING_BUFFER_SIZE => head' = 0
    BY <1>2, Remainder, RingAssumption DEF read_byte
  <1>4. RingOK'
    BY <1>2, <1>3 DEF RingOK, RingTypeOK, StatusAgrees, read_byte
  <1>5. available_read' = available_read - 1
    BY <1>1, <1>2, <1>3, RingAssumption
      DEF RingOK, RingTypeOK, StatusAgrees, Indices, available_read, read_byte
  <1>6. available_write' = available_write + 1
    <2>1. status' # "Full"
      BY DEF read_byte
    <2>2. available_write' = RING_BUFFER_SIZE - available_read'
      BY <2>1 DEF available_write
    <2> QED BY <2>2, <1>5, <1>1, Availability, RingAssumption
  <1>7. /\ Contents \in Seq(Bytes) /\ Len(Contents) = available_read
        /\ \A i \in 1..available_read : Slot(head, i) \in Indices /\ Contents[i] = arr[Slot(head, i)]
    BY ContentsType DEF SlotsHoldContents
  <1>8. Slot(head, 1) = head
    BY <1>2, Remainder, RingAssumption DEF Slot
  <1>9. \A i \in 1..(available_read - 1) : Slot(head', i) = Slot(head, i + 1)
    <2> SUFFICES ASSUME NEW i \in 1..(available_read - 1) PROVE Slot(head', i) = Slot(head, i + 1)
      OBVIOUS
    <2>1. Slot(head', i) = (head' + i - 1) % RING_BUFFER_SIZE /\ Slot(head, i + 1) = (head + i) % RING_BUFFER_SIZE
      BY <1>1, <1>2 DEF Slot
    <2>2. head' = head + 1 \/ (head + 1 = RING_BUFFER_SIZE /\ head' = 0)
      BY <1>2, <1>3, RingAssumption
    <2>3. i \in Nat /\ i > 0 /\ i < RING_BUFFER_SIZE
      BY <1>1, RingAssumption
    <2>4. head + i \in Nat /\ head + i < 2 * RING_BUFFER_SIZE
      BY <1>2, <2>3, RingAssumption
    <2>5. CASE head' = head + 1
      <3>1. head' + i - 1 = head + i
        BY <2>5, <2>3, <1>2
      <3> QED BY <2>1, <3>1
    <2>6. CASE head + 1 = RING_BUFFER_SIZE /\ head' = 0
      <3>1. (head + i) % RING_BUFFER_SIZE = i - 1
        BY <2>3, <2>4, <2>6, <1>2, Remainder, RingAssumption
      <3>2. (head' + i - 1) % RING_BUFFER_SIZE = i - 1
        BY <2>3, <2>6, Remainder, RingAssumption
      <3> QED BY <2>1, <3>1, <3>2
    <2> QED BY <2>2, <2>5, <2>6
  <1>10. Contents' = Tail(Contents)
    <2>1. /\ Contents' \in Seq(Bytes) /\ Len(Contents') = available_read - 1
          /\ \A i \in 1..(available_read - 1) : Contents'[i] = arr[Slot(head', i)]
      BY <1>2, <1>4, <1>5, ContentsTypePrime DEF SlotsHoldContents
    <2>2. /\ Tail(Contents) \in Seq(Bytes) /\ Len(Tail(Contents)) = available_read - 1
          /\ \A i \in 1..(available_read - 1) : Tail(Contents)[i] = Contents[i + 1]
      BY <1>7, <1>1, HeadTailProperties, EmptySeq
    <2>3. \A i \in 1..(available_read - 1) : arr[Slot(head', i)] = Contents[i + 1]
      BY <1>7, <1>9, <1>1
    <2> QED BY <2>1, <2>2, <2>3, SeqEqual
  <1>11. Contents # <<>> /\ arr[head] = Head(Contents) /\ arr[head] \in Bytes
    BY <1>7, <1>8, <1>1, <1>2 DEF RingOK, RingTypeOK
  <1> QED BY <1>4, <1>5, <1>6, <1>10, <1>11

\* A step that does not touch the ring leaves all there is to see of it.
LEMMA RingIdle ==
  ASSUME UNCHANGED ringVars
  PROVE  /\ RingTypeOK => RingTypeOK'
         /\ StatusAgrees => StatusAgrees'
         /\ available_read' = available_read
         /\ available_write' = available_write
         /\ \A t : op'[t] = op[t] => available(t)' = available(t)
         /\ Contents' = Contents
  BY DEF ringVars, RingTypeOK, StatusAgrees, available_read, available_write, available,
         Contents, Slot

-----------------------------------------------------------------------------
(* The inductive invariant                                                 *)

LEMMA InitIInv == Init => IInv
  <1> SUFFICES ASSUME Init PROVE IInv
    OBVIOUS
  <1>1. RingTypeOK /\ StatusAgrees
    BY RingAssumption DEF Init, RingNew, RingTypeOK, StatusAgrees, Indices
  <1>2. TypeOK
    BY Zenon, <1>1, RingAssumption DEF Init, TypeOK, Ops, NoOp
  <1>3. LoopWithinRing
    BY PipeAssumption DEF Init, LoopWithinRing, NoOp
  <1> QED BY <1>1, <1>2, <1>3 DEF Init, IInv

\* Steps that leave the ring, the loop and the operations alone.
LEMMA QuietStep ==
  ASSUME IInv, UNCHANGED <<ringVars, op, loopVars>>, leaked' \in BOOLEAN, made' \in BOOLEAN,
         fd_table' \in [Procs -> [Ends -> Nat]],
         life' \in [Tasks -> {"unborn", "live", "dead"}],
         ~made' => ~made /\ fd_table' = fd_table
  PROVE  IInv'
  <1>1. RingTypeOK' /\ StatusAgrees'
    BY RingIdle DEF IInv, TypeOK
  <1>2. TypeOK'
    BY <1>1 DEF IInv, TypeOK, loopVars
  <1>3. LoopWithinRing'
    BY RingIdle DEF IInv, LoopWithinRing, loopVars
  <1> QED BY <1>1, <1>2, <1>3 DEF IInv, loopVars

\* A task that enters Pipe::read or Pipe::write, or comes back to its loop.
LEMMA EnterStep ==
  ASSUME IInv, NEW t \in Tasks, NEW o \in Ops, made,
         o.kind # "none", o.done <= o.want, o.kind = "write" => o.want = Len(o.buf),
         op' = [op EXCEPT ![t] = o], cpu' = t, left' = 0, sent' \in Nat,
         UNCHANGED <<ringVars, made, fd_table, life, leaked, taken, eof>>
  PROVE  IInv'
  <1>1. RingTypeOK' /\ StatusAgrees'
    BY RingIdle DEF IInv, TypeOK
  <1>2. TypeOK'
    BY <1>1 DEF IInv, TypeOK
  <1>3. RingOK'
    BY <1>1 DEF RingOK
  <1>4. available_read' \in Nat /\ available_write' \in Nat
    BY RingIdle, Availability, RingAssumption DEF IInv, TypeOK, RingOK
  <1>5. LoopWithinRing'
    <2> SUFFICES ASSUME NEW u \in Tasks
                 PROVE  /\ cpu' = u => op'[u].kind # "none" /\ left' <= available(u)'
                        /\ op'[u].done <= op'[u].want
                        /\ op'[u].kind = "write" => op'[u].want = Len(op'[u].buf)
      BY DEF LoopWithinRing
    <2>1. available(u)' \in Nat
      BY <1>4 DEF available
    <2>2. op'[u] = IF u = t THEN o ELSE op[u]
      BY DEF IInv, TypeOK
    <2> QED BY <2>1, <2>2 DEF IInv, LoopWithinRing
  <1> QED BY <1>1, <1>2, <1>5, PipeAssumption DEF IInv

\* A task that leaves its loop, for good or until it is resumed.
LEMMA LeaveStep ==
  ASSUME IInv, NEW t \in Tasks, cpu = t,
         op' = op \/ op' = [op EXCEPT ![t] = NoOp],
         cpu' = NoTask, left' = 0, eof' \in BOOLEAN,
         UNCHANGED <<ringVars, made, fd_table, life, leaked, sent, taken>>
  PROVE  IInv'
  <1>1. RingTypeOK' /\ StatusAgrees'
    BY RingIdle DEF IInv, TypeOK
  <1>2. NoOp \in Ops /\ NoOp.done <= NoOp.want /\ NoOp.kind # "write"
    BY DEF NoOp, Ops
  <1>3. op' \in [Tasks -> Ops]
    BY <1>2 DEF IInv, TypeOK
  <1>4. TypeOK'
    BY <1>1, <1>3 DEF IInv, TypeOK
  <1>5. \A u \in Tasks : op'[u] = op[u] \/ op'[u] = NoOp
    BY DEF IInv, TypeOK
  <1>6. LoopWithinRing'
    BY <1>2, <1>5, PipeAssumption DEF IInv, LoopWithinRing
  <1> QED BY <1>1, <1>4, <1>5, <1>6 DEF IInv

\* The start of a round: the budget is what the ring offers.
LEMMA RoundStep ==
  ASSUME IInv, NEW t \in Tasks, cpu = t, left' = available(t),
         UNCHANGED <<ringVars, op, cpu, eof, made, fd_table, life, leaked, sent, taken>>
  PROVE  IInv'
  <1>1. RingTypeOK' /\ StatusAgrees'
    BY RingIdle DEF IInv, TypeOK
  <1>2. available(t) \in Nat /\ available(t)' = available(t)
    BY RingIdle, Availability, RingAssumption DEF IInv, TypeOK, RingOK, available
  <1>3. TypeOK'
    BY <1>1, <1>2 DEF IInv, TypeOK
  <1>4. LoopWithinRing'
    BY <1>2 DEF IInv, LoopWithinRing
  <1> QED BY <1>1, <1>3, <1>4, PipeAssumption DEF IInv

\* What a task knows when it moves a byte.
LEMMA MoveFacts ==
  ASSUME IInv, NEW t \in Tasks, MoveByte(t)
  PROVE  /\ RingOK /\ op[t] \in Ops
         /\ left \in Nat /\ left > 0 /\ left <= available(t)
         /\ op[t].done \in Nat /\ op[t].want \in Nat /\ op[t].done < op[t].want
         /\ op[t].kind = "write" => op[t].buf[op[t].done + 1] \in Bytes
  <1>1. RingOK /\ op[t] \in Ops /\ left \in Nat
    BY DEF IInv, TypeOK, RingOK
  <1>2. op[t].done \in Nat /\ op[t].want \in Nat
    BY <1>1 DEF Ops, NoOp
  <1>3. left > 0 /\ left <= available(t)
    BY DEF MoveByte, IInv, LoopWithinRing
  <1>4. op[t].done < op[t].want
    BY <1>1, <1>2, <1>3 DEF MoveByte, BufferEnds, IInv, LoopWithinRing
  <1>5. ASSUME op[t].kind = "write" PROVE op[t].buf[op[t].done + 1] \in Bytes
    <2>1. op[t].buf \in Seq(Bytes)
      BY <1>1, <1>5 DEF Ops, NoOp
    <2>2. op[t].want = Len(op[t].buf)
      BY <1>5 DEF IInv, LoopWithinRing
    <2> QED BY <2>1, <2>2, <1>2, <1>4
  <1> QED BY <1>1, <1>2, <1>3, <1>4, <1>5

\* What moving a byte does to the ring.
LEMMA MoveStep ==
  ASSUME IInv, NEW t \in Tasks, MoveByte(t)
  PROVE  /\ RingOK'
         /\ available(t)' = available(t) - 1
         /\ taken' \in Bytes
         /\ \/ /\ op[t].kind = "read"
               /\ Contents # <<>> /\ taken' = Head(Contents) /\ Contents' = Tail(Contents)
            \/ /\ op[t].kind = "write" /\ Len(Contents) < RING_BUFFER_SIZE
               /\ \E b \in Bytes : Contents' = Append(Contents, b)
               /\ taken' = taken
  <1>1. /\ RingOK /\ left > 0 /\ left <= available(t) /\ left \in Nat /\ op[t] \in Ops
        /\ op[t].kind = "write" => op[t].buf[op[t].done + 1] \in Bytes
    BY MoveFacts
  <1>2. available_read \in Nat /\ available_write \in Nat /\ available(t) > 0
    BY <1>1, Availability, RingAssumption DEF available
  <1>3. op'[t].kind = op[t].kind
    BY <1>1 DEF MoveByte, IInv, TypeOK, Ops, NoOp
  <1>4. CASE op[t].kind = "read" /\ read_byte /\ taken' = arr[head]
    <2>1. available_read > 0
      BY <1>2, <1>4 DEF available
    <2>2. /\ RingOK' /\ available_read' = available_read - 1
          /\ Contents # <<>> /\ arr[head] = Head(Contents) /\ arr[head] \in Bytes
          /\ Contents' = Tail(Contents)
      BY <1>1, <2>1, <1>4, ReadByte
    <2> QED BY <2>2, <1>3, <1>4 DEF available
  <1>5. CASE /\ op[t].kind = "write" /\ write_byte(op[t].buf[op[t].done + 1])
             /\ UNCHANGED taken
    <2>1. available_write > 0
      BY <1>2, <1>5 DEF available
    <2>2. /\ RingOK' /\ available_write' = available_write - 1
          /\ Contents' = Append(Contents, op[t].buf[op[t].done + 1])
      BY <1>1, <2>1, <1>5, WriteByte
    <2>3. Len(Contents) < RING_BUFFER_SIZE
      BY <1>1, <2>1, Availability, ContentsType, RingAssumption DEF SlotsHoldContents
    <2> QED BY <1>1, <2>2, <2>3, <1>3, <1>5 DEF available, IInv, TypeOK
  <1> QED BY <1>4, <1>5 DEF MoveByte

LEMMA MoveIInv ==
  ASSUME IInv, NEW t \in Tasks, MoveByte(t)
  PROVE  IInv'
  <1>1. /\ RingOK' /\ available(t)' = available(t) - 1 /\ taken' \in Bytes
    BY MoveStep
  <1>2. /\ op[t] \in Ops /\ left \in Nat /\ left > 0 /\ left <= available(t)
        /\ op[t].done \in Nat /\ op[t].want \in Nat /\ op[t].done < op[t].want
        /\ op[t].kind \in {"read", "write"}
    BY Zenon, MoveFacts DEF MoveByte
  <1>3. /\ op' = [op EXCEPT ![t].done = op[t].done + 1]
        /\ left' = left - 1 /\ cpu = t
        /\ UNCHANGED <<made, fd_table, life, cpu, leaked, sent, eof>>
    BY DEF MoveByte
  <1>4. /\ op'[t] = [op[t] EXCEPT !.done = op[t].done + 1]
        /\ \A u \in Tasks : u # t => op'[u] = op[u]
        /\ DOMAIN op' = Tasks
    BY <1>3 DEF IInv, TypeOK
  <1>5. /\ op'[t] \in Ops /\ op'[t].done = op[t].done + 1
        /\ op'[t].want = op[t].want /\ op'[t].kind = op[t].kind /\ op'[t].buf = op[t].buf
    BY <1>2, <1>4 DEF Ops, NoOp
  <1>6. op' \in [Tasks -> Ops]
    BY <1>3, <1>4, <1>5 DEF IInv, TypeOK
  <1>7. TypeOK'
    BY <1>1, <1>2, <1>3, <1>6 DEF IInv, TypeOK, RingOK
  <1>8. available(t) \in Int
    BY Availability, RingAssumption, MoveFacts DEF available
  <1>9. left' <= available(t)'
    BY <1>1, <1>2, <1>3, <1>8
  <1>10. LoopWithinRing'
    <2> SUFFICES ASSUME NEW u \in Tasks
                 PROVE  /\ cpu' = u => op'[u].kind # "none" /\ left' <= available(u)'
                        /\ op'[u].done <= op'[u].want
                        /\ op'[u].kind = "write" => op'[u].want = Len(op'[u].buf)
      BY DEF LoopWithinRing
    <2>1. CASE u = t
      BY <2>1, <1>2, <1>5, <1>9 DEF IInv, LoopWithinRing
    <2>2. CASE u # t
      BY <2>2, <1>3, <1>4 DEF IInv, LoopWithinRing
    <2> QED BY <2>1, <2>2
  <1>11. cpu' # NoTask /\ made'
    BY <1>2, <1>3, PipeAssumption DEF IInv, NoOp
  <1> QED BY <1>1, <1>7, <1>10, <1>11 DEF IInv, RingOK

\* The exit of a main thread, which ends the operations of its process.
LEMMA ExitStep ==
  ASSUME IInv, NEW t \in Tasks, exit_current_and_run_next(t)
  PROVE  IInv'
  <1>1. UNCHANGED <<ringVars, made, loopVars>> /\ cpu = NoTask
    BY DEF exit_current_and_run_next, Runs
  <1>2. CASE t[2] # 0 /\ life' = [life EXCEPT ![t] = "dead"] /\ UNCHANGED <<fd_table, op, leaked>>
    <2>1. life' \in [Tasks -> {"unborn", "live", "dead"}]
      BY <1>2 DEF IInv, TypeOK
    <2> QED BY <1>1, <1>2, <2>1, QuietStep DEF IInv, TypeOK
  <1>3. CASE /\ life' = [u \in Tasks |-> IF u[1] = t[1] THEN "dead" ELSE life[u]]
             /\ fd_table' = [fd_table EXCEPT ![t[1]] = [e \in Ends |-> 0]]
             /\ op' = [u \in Tasks |-> IF u[1] = t[1] THEN NoOp ELSE op[u]]
             /\ leaked' = (leaked \/ \E u \in Threads(t[1]) : op[u].kind = "write")
    <2>1. RingTypeOK' /\ StatusAgrees'
      BY <1>1, RingIdle DEF IInv, TypeOK
    <2>2. life' \in [Tasks -> {"unborn", "live", "dead"}] /\ leaked' \in BOOLEAN
      BY <1>3 DEF IInv, TypeOK
    <2>3. fd_table' \in [Procs -> [Ends -> Nat]]
      BY Zenon, <1>3 DEF IInv, TypeOK
    <2>4. op' \in [Tasks -> Ops] /\ \A u \in Tasks : op'[u] = op[u] \/ op'[u] = NoOp
      BY <1>3 DEF IInv, TypeOK, Ops
    <2>5. TypeOK'
      BY <1>1, <2>1, <2>2, <2>3, <2>4 DEF IInv, TypeOK, loopVars
    <2>6. LoopWithinRing'
      BY <1>1, <2>4, PipeAssumption DEF IInv, LoopWithinRing, loopVars, NoOp
    <2>7. ~made => fd_table' = fd_table
      BY <1>3, PipeAssumption DEF IInv
    <2> QED BY <1>1, <2>1, <2>4, <2>5, <2>6, <2>7 DEF IInv, loopVars
  <1> QED BY <1>2, <1>3 DEF exit_current_and_run_next

LEMMA LoopIInv ==
  ASSUME IInv, NEW t \in Tasks, InLoop(t)
  PROVE  IInv'
  <1>1. CASE LoopStarts(t)
    <2>1. CASE left' = available(t) /\ UNCHANGED <<op, cpu, eof>>
      BY <1>1, <2>1, RoundStep DEF LoopStarts
    <2>2. CASE Return(t) /\ eof' = TRUE
      BY Zenon, <1>1, <2>2, LeaveStep DEF LoopStarts, Return
    <2>3. CASE cpu' = NoTask /\ UNCHANGED <<op, left, eof>>
      BY <1>1, <2>3, LeaveStep DEF LoopStarts, IInv, TypeOK
    <2> QED BY Zenon, <1>1, <2>1, <2>2, <2>3 DEF LoopStarts
  <1>2. CASE MoveByte(t)
    BY <1>2, MoveIInv
  <1>3. CASE ReturnsAll(t)
    BY Zenon, <1>3, LeaveStep DEF ReturnsAll, Return, IInv, TypeOK
  <1> QED BY <1>1, <1>2, <1>3 DEF InLoop

LEMMA NextIInv == IInv /\ [Next]_vars => IInv'
  <1> SUFFICES ASSUME IInv, [Next]_vars PROVE IInv'
    OBVIOUS
  <1> DEFINE FdTables == [Procs -> [Ends -> Nat]]
  <1>1. /\ fd_table \in FdTables /\ life \in [Tasks -> {"unborn", "live", "dead"}]
        /\ leaked \in BOOLEAN /\ made \in BOOLEAN /\ sent \in Nat
    BY DEF IInv, TypeOK
  <1>2. \A t \in Tasks : t[1] \in Procs
    BY PipeAssumption
  <1>3. ASSUME NEW t \in Tasks, NEW e \in Ends, fd_table[t[1]][e] > 0 PROVE made
    BY <1>2, <1>3 DEF IInv
  <1>4. ASSUME NEW t \in Tasks, sys_pipe(t) PROVE IInv'
    <2>1. fd_table' \in FdTables
      BY Zenon, <1>1, <1>4 DEF sys_pipe
    <2> QED BY <1>1, <1>4, <2>1, QuietStep DEF sys_pipe
  <1>5. ASSUME NEW t \in Tasks, NEW e \in Ends, sys_dup(t, e) PROVE IInv'
    <2>1. fd_table[t[1]][e] \in Nat /\ fd_table[t[1]][e] > 0
      BY <1>1, <1>2, <1>5, PipeAssumption DEF sys_dup
    <2>2. fd_table' = [fd_table EXCEPT ![t[1]] = [fd_table[t[1]] EXCEPT ![e] = fd_table[t[1]][e] + 1]]
      BY <1>5 DEF sys_dup
    <2>3. [fd_table[t[1]] EXCEPT ![e] = fd_table[t[1]][e] + 1] \in [Ends -> Nat]
      BY <1>1, <1>2, <2>1
    <2>4. fd_table' \in FdTables
      BY Zenon, <1>1, <2>2, <2>3
    <2> QED BY <1>1, <1>5, <2>4, <2>1, <1>3, QuietStep DEF sys_dup
  <1>6. ASSUME NEW t \in Tasks, NEW e \in Ends, sys_close(t, e) PROVE IInv'
    <2>1. fd_table[t[1]][e] \in Nat /\ fd_table[t[1]][e] > 0
      BY <1>1, <1>2, <1>6 DEF sys_close
    <2>2. fd_table' = [fd_table EXCEPT ![t[1]] = [fd_table[t[1]] EXCEPT ![e] = fd_table[t[1]][e] - 1]]
      BY <1>6 DEF sys_close
    <2>3. [fd_table[t[1]] EXCEPT ![e] = fd_table[t[1]][e] - 1] \in [Ends -> Nat]
      BY <1>1, <1>2, <2>1
    <2>4. fd_table' \in FdTables
      BY Zenon, <1>1, <2>2, <2>3
    <2> QED BY <1>1, <1>6, <2>4, <2>1, <1>3, QuietStep DEF sys_close
  <1>7. ASSUME NEW t \in Tasks, NEW c \in Procs, fork(t, c) PROVE IInv'
    <2>1. fd_table' \in FdTables /\ life' \in [Tasks -> {"unborn", "live", "dead"}]
      BY Zenon, <1>1, <1>2, <1>7 DEF fork
    <2>2. ~made => fd_table' = fd_table
      BY <1>1, <1>2, <1>7 DEF fork, IInv
    <2> QED BY <1>1, <1>7, <2>1, <2>2, QuietStep DEF fork
  <1>8. ASSUME NEW t \in Tasks, NEW u \in Tasks, sys_thread_create(t, u) PROVE IInv'
    <2>1. life' \in [Tasks -> {"unborn", "live", "dead"}]
      BY <1>1, <1>8 DEF sys_thread_create
    <2> QED BY <1>1, <1>8, <2>1, QuietStep DEF sys_thread_create
  <1>9. ASSUME NEW t \in Tasks, NEW n \in ReadSizes, sys_read(t, n) PROVE IInv'
    <2> DEFINE o == [kind |-> "read", want |-> n, done |-> 0, buf |-> <<>>]
    <2>1. o \in Ops /\ n \in Nat
      BY PipeAssumption DEF Ops
    <2>2. made
      BY <1>3, <1>9 DEF sys_read, Ends
    <2>3. o.kind # "none" /\ o.done <= o.want /\ o.kind # "write"
      BY <2>1
    <2>4. /\ op' = [op EXCEPT ![t] = o] /\ cpu' = t /\ left' = 0 /\ sent' \in Nat
          /\ UNCHANGED <<ringVars, made, fd_table, life, leaked, taken, eof>>
      BY <1>1, <1>9 DEF sys_read
    <2> HIDE DEF o
    <2> QED BY Zenon, <2>1, <2>2, <2>3, <2>4, EnterStep
  <1>10. ASSUME NEW t \in Tasks, NEW buf \in Buffers, sys_write(t, buf) PROVE IInv'
    <2> DEFINE o == [kind |-> "write", want |-> Len(buf), done |-> 0, buf |-> buf]
    <2>1. o \in Ops /\ Len(buf) \in Nat
      <3>1. buf \in Seq(Bytes) /\ Len(buf) \in Nat
        BY PipeAssumption
      <3> QED BY <3>1 DEF Ops
    <2>2. made
      BY <1>3, <1>10 DEF sys_write, Ends
    <2>3. o.kind # "none" /\ o.done <= o.want /\ o.want = Len(o.buf)
      BY <2>1
    <2>4. sent' \in Nat
      BY <1>1, <1>10, <2>1 DEF sys_write
    <2>5. /\ op' = [op EXCEPT ![t] = o] /\ cpu' = t /\ left' = 0
          /\ UNCHANGED <<ringVars, made, fd_table, life, leaked, taken, eof>>
      BY Zenon, <1>10 DEF sys_write
    <2> HIDE DEF o
    <2> QED BY Zenon, <2>1, <2>2, <2>3, <2>4, <2>5, EnterStep
  <1>11. ASSUME NEW t \in Tasks, Resume(t) PROVE IInv'
    <2>1. op[t] \in Ops /\ op[t] # NoOp /\ op' = [op EXCEPT ![t] = op[t]]
      BY <1>11 DEF Resume, IInv, TypeOK
    <2>2. op[t].kind # "none"
      BY <2>1 DEF Ops, NoOp
    <2>3. made /\ left = 0
      BY <1>11, <2>1 DEF Resume, IInv
    <2>4. op[t].done <= op[t].want /\ (op[t].kind = "write" => op[t].want = Len(op[t].buf))
      BY DEF IInv, LoopWithinRing
    <2> QED BY Zenon, <1>1, <1>11, <2>1, <2>2, <2>3, <2>4, EnterStep DEF Resume
  <1>12. CASE UNCHANGED vars
    BY <1>1, <1>12, QuietStep DEF vars, loopVars
  <1> QED
    BY <1>4, <1>5, <1>6, <1>7, <1>8, <1>9, <1>10, <1>11, <1>12, ExitStep, LoopIInv DEF Next

\* The invariant holds in every reachable state, whatever the size of the ring.
THEOREM Invariance == Spec => []IInv
  BY InitIInv, NextIInv, PTL DEF Spec

\* Every variable keeps its type; in particular the indices stay in the ring.
THEOREM TypeCorrect == Spec => []TypeOK
  <1>1. IInv => TypeOK
    BY DEF IInv
  <1> QED BY <1>1, Invariance, PTL

-----------------------------------------------------------------------------
(* The pipe implements the bounded FIFO                                    *)

fifoVars == <<Contents, taken, Writable, eof>>

\* A step that moves no byte and tells no reader of the end may only close the
\* write end.
LEMMA FifoQuiet ==
  ASSUME UNCHANGED <<ringVars, taken, eof>>,
         made => made', made /\ all_write_ends_closed => all_write_ends_closed'
  PROVE  [Fifo!Next]_fifoVars
  <1>1. Contents' = Contents
    BY RingIdle
  <1>2. Writable' => Writable
    BY DEF Writable
  <1>3. CASE Writable' <=> Writable
    BY <1>1, <1>3 DEF fifoVars, Writable
  <1>4. CASE Writable /\ ~Writable'
    <2>1. Fifo!LastWriterLeaves
      BY <1>1, <1>4 DEF Fifo!LastWriterLeaves
    <2> QED BY <2>1 DEF Fifo!Next
  <1> QED BY <1>2, <1>3, <1>4

LEMMA FifoMove ==
  ASSUME IInv, NEW t \in Tasks, MoveByte(t)
  PROVE  Fifo!Next
  <1>1. /\ UNCHANGED <<made, fd_table, leaked, eof>> /\ op[t] \in Ops
        /\ op' = [op EXCEPT ![t].done = op[t].done + 1]
    BY Zenon, MoveFacts DEF MoveByte
  <1>2. \A u \in Tasks : op'[u].kind = op[u].kind
    BY <1>1 DEF IInv, TypeOK, Ops, NoOp
  <1>3. all_write_ends_closed' <=> all_write_ends_closed
    BY <1>1, <1>2 DEF all_write_ends_closed
  <1>4. Writable' = Writable
    BY <1>1, <1>3 DEF Writable
  <1>5. CASE Contents # <<>> /\ taken' = Head(Contents) /\ Contents' = Tail(Contents)
    BY <1>1, <1>4, <1>5 DEF Fifo!Next, Fifo!Take
  <1>6. CASE /\ op[t].kind = "write" /\ Len(Contents) < RING_BUFFER_SIZE
             /\ \E b \in Bytes : Contents' = Append(Contents, b)
             /\ taken' = taken
    <2>1. Writable
      BY <1>6 DEF Writable, all_write_ends_closed
    <2>2. PICK b \in Bytes : Contents' = Append(Contents, b)
      BY <1>6
    <2>3. Fifo!Put(b)
      BY <1>1, <1>4, <1>6, <2>1, <2>2 DEF Fifo!Put
    <2> QED BY <2>3 DEF Fifo!Next
  <1> QED BY <1>5, <1>6, MoveStep

LEMMA FifoLoop ==
  ASSUME IInv, NEW t \in Tasks, InLoop(t)
  PROVE  [Fifo!Next]_fifoVars
  <1>1. CASE MoveByte(t)
    BY <1>1, FifoMove
  <1>2. ASSUME UNCHANGED <<made, fd_table, leaked>>, op' = op \/ op' = [op EXCEPT ![t] = NoOp]
        PROVE  all_write_ends_closed => all_write_ends_closed'
    <2>1. \A u \in Tasks : op'[u] = op[u] \/ op'[u] = NoOp
      BY <1>2 DEF IInv, TypeOK
    <2> QED BY <1>2, <2>1 DEF all_write_ends_closed, NoOp
  <1>3. CASE ReturnsAll(t)
    <2>1. /\ UNCHANGED <<ringVars, taken, eof, made, fd_table, leaked>>
          /\ op' = [op EXCEPT ![t] = NoOp]
      BY <1>3 DEF ReturnsAll, Return
    <2> QED BY <2>1, <1>2, FifoQuiet
  <1>4. CASE LoopStarts(t)
    <2>1. UNCHANGED <<ringVars, taken, made, fd_table, leaked>>
      BY <1>4 DEF LoopStarts
    <2>2. CASE UNCHANGED <<op, eof>>
      BY <2>1, <2>2, <1>2, FifoQuiet
    <2>3. CASE /\ available(t) = 0 /\ op[t].kind = "read" /\ all_write_ends_closed
               /\ Return(t) /\ eof' = TRUE
      <3>1. made /\ ~Writable
        BY <2>3 DEF IInv, NoOp, Writable
      <3>2. all_write_ends_closed'
        BY <1>2, <2>1, <2>3 DEF Return
      <3>3. Writable' = Writable
        BY <2>1, <3>1, <3>2 DEF Writable
      <3>4. RingOK /\ available_read = 0
        BY <2>3 DEF IInv, TypeOK, RingOK, available
      <3>5. Contents \in Seq(Bytes) /\ Len(Contents) = 0
        BY <3>4, ContentsType DEF SlotsHoldContents
      <3>6. Contents = <<>> /\ Contents' = Contents
        BY <2>1, <3>5, EmptySeq, RingIdle
      <3> QED BY <2>1, <2>3, <3>1, <3>3, <3>6 DEF Fifo!Next, Fifo!EndOfFile
    <2> QED BY Zenon, <1>4, <2>2, <2>3 DEF LoopStarts
  <1> QED BY <1>1, <1>3, <1>4 DEF InLoop

\* Steps that change no operation and open no write end.
LEMMA FifoDescriptors ==
  ASSUME UNCHANGED <<ringVars, op, leaked, taken, eof>>, made => made',
         no_write_descriptor /\ made => no_write_descriptor'
  PROVE  [Fifo!Next]_fifoVars
  <1>1. made /\ all_write_ends_closed => all_write_ends_closed'
    BY DEF all_write_ends_closed, no_write_descriptor
  <1> QED BY <1>1, FifoQuiet

LEMMA FifoStep == IInv /\ [Next]_vars => [Fifo!Next]_fifoVars
  <1> SUFFICES ASSUME IInv, [Next]_vars PROVE [Fifo!Next]_fifoVars
    OBVIOUS
  <1>1. /\ fd_table \in [Procs -> [Ends -> Nat]] /\ op \in [Tasks -> Ops]
        /\ \A t \in Tasks : t[1] \in Procs
    BY PipeAssumption DEF IInv, TypeOK
  <1>2. ASSUME NEW t \in Tasks, sys_pipe(t) PROVE [Fifo!Next]_fifoVars
    BY <1>2, FifoDescriptors DEF sys_pipe, loopVars
  <1>3. ASSUME NEW t \in Tasks, NEW e \in Ends, sys_dup(t, e) PROVE [Fifo!Next]_fifoVars
    <2>1. fd_table[t[1]][e] > 0
      BY <1>1, <1>3, PipeAssumption DEF sys_dup
    <2>2. no_write_descriptor => no_write_descriptor'
      BY <1>1, <1>3, <2>1 DEF sys_dup, no_write_descriptor, Ends
    <2> QED BY <1>3, <2>2, FifoDescriptors DEF sys_dup, loopVars
  <1>4. ASSUME NEW t \in Tasks, NEW e \in Ends, sys_close(t, e) PROVE [Fifo!Next]_fifoVars
    <2>1. no_write_descriptor => no_write_descriptor'
      BY <1>1, <1>4 DEF sys_close, no_write_descriptor, Ends
    <2> QED BY <1>4, <2>1, FifoDescriptors DEF sys_close, loopVars
  <1>5. ASSUME NEW t \in Tasks, NEW c \in Procs, fork(t, c) PROVE [Fifo!Next]_fifoVars
    <2>1. no_write_descriptor => no_write_descriptor'
      BY <1>1, <1>5 DEF fork, no_write_descriptor, Ends
    <2> QED BY <1>5, <2>1, FifoDescriptors DEF fork, loopVars
  <1>6. ASSUME NEW t \in Tasks, NEW u \in Tasks, sys_thread_create(t, u)
        PROVE  [Fifo!Next]_fifoVars
    BY <1>6, FifoDescriptors DEF sys_thread_create, loopVars, no_write_descriptor
  <1>7. ASSUME NEW t \in Tasks, exit_current_and_run_next(t) PROVE [Fifo!Next]_fifoVars
    <2>1. UNCHANGED <<ringVars, taken, eof, made>>
      BY <1>7 DEF exit_current_and_run_next, loopVars
    <2>2. ASSUME all_write_ends_closed PROVE all_write_ends_closed'
      <3>1. \A p \in Procs : fd_table'[p]["write"] = 0
        BY <1>1, <1>7, <2>2 DEF exit_current_and_run_next, all_write_ends_closed, Ends
      <3>2. \A u \in Tasks : op'[u] = op[u] \/ op'[u].kind = "none"
        BY <1>1, <1>7 DEF exit_current_and_run_next, NoOp
      <3>3. \A u \in Threads(t[1]) : op[u].kind # "write"
        BY <2>2 DEF all_write_ends_closed, Threads
      <3>4. ~leaked'
        BY Zenon, <1>7, <2>2, <3>3 DEF exit_current_and_run_next, all_write_ends_closed
      <3> QED BY <2>2, <3>1, <3>2, <3>4 DEF all_write_ends_closed
    <2> QED BY <2>1, <2>2, FifoQuiet
  <1>8. ASSUME NEW t \in Tasks, NEW n \in ReadSizes, sys_read(t, n) PROVE [Fifo!Next]_fifoVars
    <2>1. all_write_ends_closed => all_write_ends_closed'
      BY <1>1, <1>8 DEF sys_read, all_write_ends_closed
    <2> QED BY <1>8, <2>1, FifoQuiet DEF sys_read
  <1>9. ASSUME NEW t \in Tasks, NEW buf \in Buffers, sys_write(t, buf)
        PROVE  [Fifo!Next]_fifoVars
    <2>1. ~all_write_ends_closed
      BY <1>1, <1>9 DEF sys_write, all_write_ends_closed
    <2> QED BY <1>9, <2>1, FifoQuiet DEF sys_write
  <1>10. ASSUME NEW t \in Tasks, Resume(t) PROVE [Fifo!Next]_fifoVars
    BY <1>10, FifoDescriptors DEF Resume, no_write_descriptor
  <1>11. CASE UNCHANGED vars
    BY <1>11, FifoDescriptors DEF vars, loopVars, no_write_descriptor
  <1> QED
    BY <1>2, <1>3, <1>4, <1>5, <1>6, <1>7, <1>8, <1>9, <1>10, <1>11, FifoLoop DEF Next

LEMMA FifoInit == Init => Fifo!Init
  <1> SUFFICES ASSUME Init PROVE Fifo!Init
    OBVIOUS
  <1>1. Contents = <<>>
    BY DEF Init, RingNew, Contents, available_read
  <1>2. Writable = TRUE
    BY DEF Init, Writable
  <1> QED BY <1>1, <1>2 DEF Init, Fifo!Init

\* Whatever the size of the ring, the number of processes and threads and the
\* way they suspend, resume, fork, close and die, read_byte and write_byte under
\* the loops of Pipe::read and Pipe::write are the operations of a bounded FIFO,
\* and a short read means that the pipe is empty and closed for writing.
THEOREM PipeIsFifo == Spec => ImplementsFifo
  <1>1. Init => Fifo!Init
    BY FifoInit
  <1>2. IInv /\ [Next]_vars => [Fifo!Next]_fifoVars
    BY FifoStep
  <1> QED BY <1>1, <1>2, Invariance, PTL DEF Spec, ImplementsFifo, Fifo!Spec, fifoVars
=============================================================================
