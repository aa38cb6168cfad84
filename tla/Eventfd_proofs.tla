--------------------------- MODULE Eventfd_proofs ---------------------------
(***************************************************************************)
(* Proofs about Eventfd: for any number of tasks and any width of a u32,   *)
(* no wakeup is lost and the eventfd implements a counter.                 *)
(***************************************************************************)
EXTENDS Eventfd, Queue_lemmas, FiniteSetTheorems

-----------------------------------------------------------------------------
(* What a step of the scheduler does to the ready queue                    *)

\* The tasks a step wakes are queued nowhere the scheduler can see.
FreshlyWoken(woken) ==
  /\ woken \in Seq(Tasks)
  /\ IsInjective(woken)
  /\ Range(woken) \cap Range(ready_queue) = {}

\* wakeup_task queues exactly the woken tasks.
LEMMA WakeupStep ==
  ASSUME SchedTypeOK, IsInjective(ready_queue),
         NEW woken, FreshlyWoken(woken), wakeup_task(woken)
  PROVE  /\ SchedTypeOK' /\ current' = current
         /\ Range(ready_queue') = Range(ready_queue) \cup Range(woken)
         /\ IsInjective(ready_queue')
<1>1. /\ ready_queue \o woken \in Seq(Tasks)
      /\ Range(ready_queue \o woken) = Range(ready_queue) \cup Range(woken)
      /\ IsInjective(ready_queue \o woken)
  BY QueueConcat DEF SchedTypeOK, FreshlyWoken
<1>2. task_status' \in [Tasks -> TaskStatus]
  BY DEF wakeup_task, Woken, SchedTypeOK, TaskStatus
<1> QED
  BY <1>1, <1>2 DEF wakeup_task, SchedTypeOK

\* block_current_and_run_next does too, and the current task leaves.
LEMMA BlockStep ==
  ASSUME SchedTypeOK, IsInjective(ready_queue),
         NEW woken, FreshlyWoken(woken), block_current_and_run_next(woken)
  PROVE  /\ SchedTypeOK' /\ current' = NoTask
         /\ Range(ready_queue') = Range(ready_queue) \cup Range(woken)
         /\ IsInjective(ready_queue')
<1>1. /\ ready_queue \o woken \in Seq(Tasks)
      /\ Range(ready_queue \o woken) = Range(ready_queue) \cup Range(woken)
      /\ IsInjective(ready_queue \o woken)
  BY QueueConcat DEF SchedTypeOK, FreshlyWoken
<1>2. task_status' \in [Tasks -> TaskStatus]
  BY Zenon DEF block_current_and_run_next, Woken, SchedTypeOK, TaskStatus
<1> QED
  BY <1>1, <1>2 DEF block_current_and_run_next, SchedTypeOK

\* suspend_current_and_run_next queues the current task after them.
LEMMA SuspendStep ==
  ASSUME SchedTypeOK, IsInjective(ready_queue), current \in Tasks,
         current \notin Range(ready_queue),
         NEW woken, FreshlyWoken(woken), current \notin Range(woken),
         suspend_current_and_run_next(woken)
  PROVE  /\ SchedTypeOK' /\ current' = NoTask
         /\ Range(ready_queue') = Range(ready_queue) \cup Range(woken) \cup {current}
         /\ IsInjective(ready_queue')
<1> DEFINE q == ready_queue \o woken
<1>1. /\ q \in Seq(Tasks)
      /\ Range(q) = Range(ready_queue) \cup Range(woken)
      /\ IsInjective(q)
  BY QueueConcat DEF SchedTypeOK, FreshlyWoken
<1> HIDE DEF q
<1>2. /\ Append(q, current) \in Seq(Tasks)
      /\ Range(Append(q, current)) = Range(q) \cup {current}
      /\ IsInjective(Append(q, current))
  BY <1>1, QueuePush
<1>3. task_status' \in [Tasks -> TaskStatus]
  BY DEF suspend_current_and_run_next, Woken, SchedTypeOK, TaskStatus
<1> QED
  BY <1>1, <1>2, <1>3 DEF suspend_current_and_run_next, SchedTypeOK, q

\* run_tasks moves the head of the ready queue to the processor.
LEMMA RunStep ==
  ASSUME SchedTypeOK, IsInjective(ready_queue), run_tasks
  PROVE  /\ SchedTypeOK'
         /\ current' \in Range(ready_queue)
         /\ Range(ready_queue') = Range(ready_queue) \ {current'}
         /\ IsInjective(ready_queue')
<1>1. /\ Head(ready_queue) \in Tasks
      /\ Head(ready_queue) \in Range(ready_queue)
      /\ Tail(ready_queue) \in Seq(Tasks)
      /\ Range(Tail(ready_queue)) = Range(ready_queue) \ {Head(ready_queue)}
      /\ IsInjective(Tail(ready_queue))
  BY QueuePop DEF run_tasks, SchedTypeOK
<1>2. task_status' \in [Tasks -> TaskStatus]
  BY <1>1 DEF run_tasks, SchedTypeOK, TaskStatus
<1> QED
  BY <1>1, <1>2 DEF run_tasks, SchedTypeOK

\* Nobody is woken.
LEMMA NobodyWoken == FreshlyWoken(<<>>) /\ Range(<<>>) = {}
BY DEF FreshlyWoken, Range, IsInjective

-----------------------------------------------------------------------------
(* Remainders                                                              *)

LEMMA DivMod ==
  \A n \in Nat \ {0}, c \in Nat :
    c = n * (c \div n) + (c % n) /\ c % n \in 0 .. n - 1 /\ c \div n \in Nat
BY SMT

LEMMA UniqueMul ==
  \A n \in Nat \ {0}, q, p \in Int : q < p => n * q + n <= n * p
BY SMT

\* A number has one remainder.
LEMMA UniqueMod ==
  ASSUME NEW n \in Nat \ {0}, NEW c \in Nat, NEW q \in Int, NEW r \in 0 .. n - 1,
         c = n * q + r
  PROVE  c % n = r
<1> DEFINE p == c \div n
           s == c % n
<1>0. c = n * p + s /\ s \in 0 .. n - 1 /\ p \in Nat
  BY DivMod
<1> HIDE DEF p, s
<1>1. c = n * p + s /\ s \in 0 .. n - 1 /\ p \in Int
  BY <1>0
<1>2. CASE p = q
  BY <1>1, <1>2 DEF s
<1>3. CASE p < q
  <2>1. n * p + n <= n * q
    BY <1>1, <1>3, UniqueMul
  <2>2. n * p \in Int /\ n * q \in Int
    BY <1>1
  <2> DEFINE a == n * p
             b == n * q
  <2> HIDE DEF a, b
  <2>3. a + s = b + r /\ a + n <= b /\ a \in Int /\ b \in Int
    BY <1>1, <2>1, <2>2 DEF a, b
  <2> QED BY <1>1, <2>3
<1>4. CASE q < p
  <2>1. n * q + n <= n * p
    BY <1>1, <1>4, UniqueMul
  <2>2. n * p \in Int /\ n * q \in Int
    BY <1>1
  <2> DEFINE a == n * p
             b == n * q
  <2> HIDE DEF a, b
  <2>3. a + s = b + r /\ b + n <= a /\ a \in Int /\ b \in Int
    BY <1>1, <2>1, <2>2 DEF a, b
  <2> QED BY <1>1, <2>3
<1> QED BY <1>1, <1>2, <1>3, <1>4

\* A number below the modulus is its own remainder.
LEMMA SmallMod ==
  ASSUME NEW n \in Nat \ {0}, NEW r \in 0 .. n - 1
  PROVE  r % n = r
<1>1. r = n * 0 + r
  BY SMT
<1> QED BY <1>1, UniqueMod

\* The remainder of a sum is that of the remainder's sum.
LEMMA ModAdd ==
  ASSUME NEW n \in Nat \ {0}, NEW c \in Nat, NEW v \in Nat
  PROVE  (c + v) % n = ((c % n) + v) % n
<1> DEFINE q == c \div n
           d == (c % n) + v
           p == d \div n
           s == d % n
<1>1. c = n * q + (c % n) /\ c % n \in 0 .. n - 1 /\ q \in Nat
  BY DivMod
<1>2. d \in Nat
  BY <1>1
<1>3. d = n * p + s /\ s \in 0 .. n - 1 /\ p \in Nat
  BY <1>2, DivMod
<1> HIDE DEF q, p, s
<1>4. n * q \in Int /\ n * p \in Int /\ n * (q + p) = n * q + n * p
  BY <1>1, <1>3, SMT
<1>5. c + v = n * (q + p) + s
  <2> DEFINE a == n * q
             b == n * p
  <2> HIDE DEF a, b
  <2>1. /\ c = a + (c % n) /\ (c % n) + v = b + s /\ a \in Int /\ b \in Int
        /\ n * (q + p) = a + b
    BY <1>1, <1>3, <1>4 DEF a, b
  <2> QED BY <1>1, <1>3, <2>1
<1>6. c + v \in Nat /\ q + p \in Int
  BY <1>1, <1>3
<1>7. (c + v) % n = s
  BY <1>3, <1>5, <1>6, UniqueMod
<1> QED BY <1>7 DEF s

\* Counting up adds at most 1 to the remainder.
LEMMA ModInc ==
  ASSUME NEW n \in Nat \ {0, 1}, NEW c \in Nat
  PROVE  (c + 1) % n <= (c % n) + 1
<1>1. c % n \in 0 .. n - 1
  BY DivMod
<1>2. (c + 1) % n = ((c % n) + 1) % n
  BY ModAdd
<1>3. CASE (c % n) + 1 \in 0 .. n - 1
  BY <1>1, <1>2, <1>3, SmallMod
<1>4. CASE (c % n) + 1 \notin 0 .. n - 1
  <2>1. (c + 1) % n \in 0 .. n - 1
    BY DivMod
  <2> QED BY <1>1, <1>4, <2>1
<1> QED BY <1>3, <1>4

\* Counting down takes 1 off a remainder that is not 0.
LEMMA ModDec ==
  ASSUME NEW n \in Nat \ {0}, NEW c \in Nat, c % n # 0
  PROVE  c - 1 \in Nat /\ (c - 1) % n = (c % n) - 1
<1> DEFINE q == c \div n
           s == c % n
<1>1. c = n * q + s /\ s \in 0 .. n - 1 /\ q \in Nat
  BY DivMod
<1>2. n * q \in Nat
  BY <1>1, SMT
<1> HIDE DEF q, s
<1>3. c - 1 \in Nat /\ c - 1 = n * q + (s - 1) /\ s - 1 \in 0 .. n - 1
  <2> DEFINE a == n * q
  <2> HIDE DEF a
  <2>1. c = a + s /\ a \in Nat /\ s # 0
    BY <1>1, <1>2 DEF a, s
  <2>2. c - 1 \in Nat /\ c - 1 = a + (s - 1) /\ s - 1 \in 0 .. n - 1
    BY <1>1, <2>1
  <2> QED BY <2>2 DEF a
<1>4. (c - 1) % n = s - 1
  BY <1>1, <1>3, UniqueMod
<1> QED BY <1>3, <1>4 DEF s

-----------------------------------------------------------------------------
(* The invariant                                                           *)

\* Nobody waits for an eventfd that does not exist.
Unused == ~Created => wait_queue = <<>> /\ \A t \in Tasks : kont[t] = "user"

IInv == TypeOK /\ OnePlace /\ NoWakeupLost /\ Unused

LEMMA ValueType == ASSUME TypeOK PROVE value \in 0 .. U32 - 1
BY DivMod, EventfdAssumption DEF TypeOK, value

\* The readers that are on their way can be counted.
LEMMA PendingFinite ==
  /\ IsFiniteSet(Pending)
  /\ Cardinality(Pending) \in Nat
  /\ Pending = {} => Cardinality(Pending) = 0
  /\ Pending # {} => Cardinality(Pending) >= 1
<1>1. Pending \subseteq Tasks
  BY DEF Pending
<1>2. IsFiniteSet(Pending)
  BY <1>1, FS_Subset, EventfdAssumption
<1>3. Cardinality(Pending) \in Nat /\ (Cardinality(Pending) = 0 <=> Pending = {})
  BY <1>2, FS_CardinalityType, FS_EmptySet
<1> QED BY <1>2, <1>3

\* The readers of the same queue are the same.
LEMMA SamePending ==
  ASSUME UNCHANGED <<kont, wait_queue>>
  PROVE  Pending' = Pending
BY DEF Pending, InQueue

LEMMA Initial == Init => IInv
<1> SUFFICES ASSUME Init PROVE IInv
  OBVIOUS
<1> DEFINE n == Cardinality(Tasks)
<1>1. PICK order \in Bijection(1..n, Tasks) : SchedInit(order)
  BY DEF Init
<1>2. n \in Nat
  BY FS_CardinalityType, EventfdAssumption
<1> HIDE DEF n
<1>3. order \in [1..n -> Tasks] /\ IsInjective(order) /\ Range(order) = Tasks
  <2>1. order \in [1..n -> Tasks]
    BY <1>1, Zenon DEF Bijection, Injection
  <2>2. IsInjective(order)
    BY <1>1, Zenon DEF Bijection, Injection
  <2>3. \A t \in Tasks : \E i \in 1..n : order[i] = t
    BY <1>1, Zenon DEF Bijection, Surjection
  <2>4. DOMAIN order = 1..n
    BY <2>1
  <2> QED BY <2>1, <2>2, <2>3, <2>4 DEF Range
<1>4. order \in Seq(Tasks)
  BY <1>2, <1>3
<1>5. Range(<<>>) = {} /\ IsInjective(<<>>)
  BY DEF Range, IsInjective
<1>6. TypeOK
  <2>1. SchedTypeOK
    BY <1>1, <1>4 DEF SchedInit, SchedTypeOK, TaskStatus
  <2>2. wait_queue \in Seq(Tasks)
    BY DEF Init
  <2> QED BY <2>1, <2>2 DEF Init, TypeOK
<1>7. OnePlace
  BY <1>1, <1>3, <1>5, NoTaskAssumption DEF SchedInit, Init, OnePlace, InQueue
<1>8. NoWakeupLost /\ Unused
  BY DEF Init, NoWakeupLost, Unused, Created
<1> QED BY <1>6, <1>7, <1>8 DEF IInv

-----------------------------------------------------------------------------
(* Each step preserves it                                                  *)

LEMMA CreateStep ==
  ASSUME IInv, NEW t \in Tasks, NEW initval \in 0 .. U32 - 1, NEW fl \in Flags,
         sys_eventfd(t, initval, fl)
  PROVE  IInv'
<1>1. /\ UNCHANGED <<schedVars, wait_queue, kont, buf>>
      /\ flags' = fl /\ count' = initval /\ wait_queue = <<>>
  BY DEF sys_eventfd, IInv, Unused
<1>2. TypeOK'
  <2>1. SchedTypeOK'
    BY <1>1 DEF IInv, TypeOK, SchedTypeOK, schedVars
  <2>2. count' \in Nat
    BY <1>1, EventfdAssumption
  <2> QED BY <1>1, <2>1, <2>2 DEF IInv, TypeOK
<1>3. OnePlace'
  BY <1>1 DEF IInv, OnePlace, InQueue, schedVars
<1>4. NoWakeupLost' /\ Unused'
  BY <1>1, EventfdAssumption DEF NoWakeupLost, Unused, Created
<1> QED BY <1>2, <1>3, <1>4 DEF IInv

LEMMA BlocksStep ==
  ASSUME IInv, NEW t \in Tasks, current = t, Created, ReadBlocks(t)
  PROVE  IInv'
<1>1. /\ UNCHANGED <<flags, count, buf>> /\ value = 0
      /\ kont' = [kont EXCEPT ![t] = "read"]
      /\ wait_queue' = Append(wait_queue, t)
      /\ block_current_and_run_next(<<>>)
  BY DEF ReadBlocks, Goto
<1>2. /\ SchedTypeOK /\ IsInjective(ready_queue) /\ IsInjective(wait_queue)
      /\ wait_queue \in Seq(Tasks) /\ kont \in [Tasks -> {"user", "read"}]
      /\ ~InQueue(t, ready_queue) /\ ~InQueue(t, wait_queue)
  BY DEF IInv, TypeOK, OnePlace
<1>3. /\ SchedTypeOK' /\ current' = NoTask
      /\ Range(ready_queue') = Range(ready_queue)
      /\ IsInjective(ready_queue')
  BY <1>1, <1>2, NobodyWoken, BlockStep
<1>4. /\ wait_queue' \in Seq(Tasks) /\ IsInjective(wait_queue')
      /\ Range(wait_queue') = Range(wait_queue) \cup {t}
  BY <1>1, <1>2, QueuePush DEF InQueue
<1>5. TypeOK'
  BY <1>1, <1>2, <1>3, <1>4 DEF IInv, TypeOK
<1>6. OnePlace'
  BY <1>1, <1>2, <1>3, <1>4, NoTaskAssumption DEF IInv, OnePlace, InQueue
<1>7. NoWakeupLost'
  <2>1. value' = 0
    BY <1>1 DEF value
  <2>2. Cardinality(Pending') \in Nat
    BY FS_Subset, FS_CardinalityType, EventfdAssumption DEF Pending
  <2> QED BY <2>1, <2>2 DEF NoWakeupLost
<1>8. Unused'
  BY <1>1 DEF Unused, Created
<1> QED BY <1>5, <1>6, <1>7, <1>8 DEF IInv

\* What a reader does to itself when it returns.
LEMMA ReturnStep ==
  ASSUME IInv, NEW t \in Tasks, current = t, Created,
         UNCHANGED <<schedVars, flags, wait_queue>>,
         kont' = [kont EXCEPT ![t] = "user"]
  PROVE  /\ SchedTypeOK' /\ OnePlace' /\ Unused'
         /\ kont' \in [Tasks -> {"user", "read"}]
         /\ Pending' = Pending \ {t}
<1>1. SchedTypeOK' /\ kont' \in [Tasks -> {"user", "read"}]
  BY DEF IInv, TypeOK, SchedTypeOK, schedVars
<1>2. kont \in [Tasks -> {"user", "read"}] /\ ~InQueue(t, wait_queue)
  BY DEF IInv, TypeOK, OnePlace
<1>3. OnePlace'
  BY <1>2 DEF IInv, OnePlace, InQueue, schedVars
<1>4. Unused'
  BY DEF Unused, Created
<1>5. Pending' = Pending \ {t}
  BY <1>2 DEF Pending, InQueue
<1> QED BY <1>1, <1>3, <1>4, <1>5

LEMMA RefusedStep ==
  ASSUME IInv, NEW t \in Tasks, current = t, Created, ReadRefused(t)
  PROVE  IInv'
<1>1. /\ UNCHANGED <<schedVars, flags, count, wait_queue, buf>> /\ value = 0
      /\ kont' = [kont EXCEPT ![t] = "user"]
  BY DEF ReadRefused, Goto, efdVars
<1>2. /\ SchedTypeOK' /\ OnePlace' /\ Unused'
      /\ kont' \in [Tasks -> {"user", "read"}]
  BY <1>1, ReturnStep
<1>3. TypeOK'
  BY <1>1, <1>2 DEF IInv, TypeOK
<1>4. value' = 0 /\ Cardinality(Pending') \in Nat
  BY <1>1, FS_Subset, FS_CardinalityType, EventfdAssumption DEF Pending, value
<1>5. NoWakeupLost'
  BY <1>4 DEF NoWakeupLost
<1> QED BY <1>2, <1>3, <1>5 DEF IInv

\* What a read that succeeds does to the value and to the buffer.
LEMMA TakesValue ==
  ASSUME IInv, NEW t \in Tasks, ReadTakes(t)
  PROVE  /\ count' \in Nat
         /\ value # 0 /\ value \in 0 .. U32 - 1
         /\ value' = IF semaphore THEN value - 1 ELSE 0
         /\ buf' \in [Tasks -> Bytes \cup {<<>>}]
         /\ from_be_bytes(buf'[t]) = IF semaphore THEN 1 ELSE value
         /\ \A u \in Tasks \ {t} : buf'[u] = buf[u]
         /\ buf'[t] \in Bytes
<1>1. /\ count \in Nat /\ value # 0 /\ value \in 0 .. U32 - 1
      /\ buf \in [Tasks -> Bytes \cup {<<>>}]
      /\ U32 \in Nat \ {0, 1}
  BY ValueType, EventfdAssumption DEF IInv, TypeOK, ReadTakes
<1> DEFINE n == IF semaphore THEN 1 ELSE value
<1>2. n \in 0 .. U32 - 1
  BY <1>1
<1>3. to_be_bytes(n) \in Bytes /\ from_be_bytes(to_be_bytes(n)) = n
  BY <1>2, BytesAssumption
<1>4. buf' = [buf EXCEPT ![t] = to_be_bytes(n)]
  BY DEF ReadTakes
<1> HIDE DEF n
<1>5. /\ buf' \in [Tasks -> Bytes \cup {<<>>}] /\ buf'[t] = to_be_bytes(n)
      /\ \A u \in Tasks \ {t} : buf'[u] = buf[u]
  BY <1>1, <1>3, <1>4
<1>6. count' \in Nat /\ value' = IF semaphore THEN value - 1 ELSE 0
  <2>1. CASE semaphore
    <3>1. count - 1 \in Nat /\ (count - 1) % U32 = value - 1
      BY <1>1, ModDec DEF value
    <3>2. count' = count - 1
      BY <2>1 DEF ReadTakes
    <3>3. value' = value - 1
      BY <3>1, <3>2 DEF value
    <3> QED BY <2>1, <3>1, <3>2, <3>3
  <2>2. CASE ~semaphore
    <3>1. count' = 0
      BY <2>2 DEF ReadTakes
    <3>2. 0 % U32 = 0
      BY <1>1, SmallMod
    <3>3. value' = 0
      BY <3>1, <3>2 DEF value
    <3> QED BY <2>2, <3>1, <3>3
  <2> QED BY <2>1, <2>2
<1>7. n = IF semaphore THEN 1 ELSE value
  BY DEF n
<1> QED BY <1>1, <1>3, <1>5, <1>6, <1>7

LEMMA TakesStep ==
  ASSUME IInv, NEW t \in Tasks, current = t, Created, ReadTakes(t)
  PROVE  IInv'
<1>1. /\ UNCHANGED <<schedVars, flags, wait_queue>>
      /\ kont' = [kont EXCEPT ![t] = "user"]
  BY DEF ReadTakes, Goto
<1>2. /\ SchedTypeOK' /\ OnePlace' /\ Unused'
      /\ kont' \in [Tasks -> {"user", "read"}]
      /\ Pending' = Pending \ {t}
  BY <1>1, ReturnStep
<1>3. /\ count' \in Nat /\ value # 0 /\ value \in 0 .. U32 - 1
      /\ value' = (IF semaphore THEN value - 1 ELSE 0)
      /\ buf' \in [Tasks -> Bytes \cup {<<>>}]
  BY TakesValue
<1>4. TypeOK'
  BY <1>1, <1>2, <1>3 DEF IInv, TypeOK
<1>5. NoWakeupLost'
  <2> SUFFICES ASSUME wait_queue # <<>>
               PROVE  IF semaphore THEN value' <= Cardinality(Pending')
                      ELSE value' # 0 => Pending' # {}
    BY <1>1 DEF NoWakeupLost, semaphore
  <2>1. CASE ~semaphore
    BY <1>3, <2>1
  <2>2. CASE semaphore
    <3>1. value <= Cardinality(Pending)
      BY <2>2 DEF IInv, NoWakeupLost
    <3>2. /\ Cardinality(Pending) \in Nat
          /\ Cardinality(Pending \ {t}) \in {Cardinality(Pending), Cardinality(Pending) - 1}
      BY PendingFinite, FS_RemoveElement
    <3> QED BY <1>2, <1>3, <2>2, <3>1, <3>2, EventfdAssumption
  <2> QED BY <2>1, <2>2
<1> QED BY <1>2, <1>4, <1>5 DEF IInv

\* What a write does to the value.
LEMMA WriteValue ==
  ASSUME IInv, NEW t \in Tasks, NEW bytes \in Bytes, sys_write(t, bytes)
  PROVE  /\ count' \in Nat
         /\ value' = (value + (IF semaphore THEN 1 ELSE from_be_bytes(bytes))) % U32
         /\ semaphore => value' <= value + 1
<1> DEFINE n == IF semaphore THEN 1 ELSE from_be_bytes(bytes)
<1>1. count \in Nat /\ U32 \in Nat \ {0, 1} /\ n \in Nat
  BY BytesAssumption, EventfdAssumption DEF IInv, TypeOK
<1>2. count' = count + n
  BY DEF sys_write
<1>3. semaphore => n = 1
  OBVIOUS
<1> HIDE DEF n
<1>4. (count + n) % U32 = ((count % U32) + n) % U32
  BY Zenon, <1>1, ModAdd
<1>5. (count + 1) % U32 <= (count % U32) + 1
  BY <1>1, ModInc
<1>6. count' \in Nat /\ value' = (value + n) % U32 /\ (semaphore => value' <= value + 1)
  BY <1>1, <1>2, <1>3, <1>4, <1>5 DEF value
<1> QED BY <1>6 DEF n

LEMMA WriteStep ==
  ASSUME IInv, NEW t \in Tasks, NEW bytes \in Bytes, sys_write(t, bytes)
  PROVE  IInv'
<1>1. /\ UNCHANGED <<flags, kont, buf>> /\ Created /\ current = t
      /\ wait_queue' = (IF Popped = <<>> THEN wait_queue ELSE Tail(wait_queue))
      /\ wakeup_task(Popped)
  BY DEF sys_write, Calls
<1>2. /\ SchedTypeOK /\ IsInjective(ready_queue) /\ IsInjective(wait_queue)
      /\ wait_queue \in Seq(Tasks) /\ kont \in [Tasks -> {"user", "read"}]
  BY DEF IInv, TypeOK, OnePlace
<1>3. count' \in Nat /\ (semaphore => value' <= value + 1)
  BY WriteValue
<1>4. Unused'
  BY <1>1 DEF Unused, Created
<1>5. CASE wait_queue = <<>>
  <2>1. Popped = <<>> /\ wait_queue' = wait_queue
    BY <1>1, <1>5 DEF Popped
  <2>2. /\ SchedTypeOK' /\ current' = current /\ IsInjective(ready_queue')
        /\ Range(ready_queue') = Range(ready_queue)
    BY Zenon, <1>1, <1>2, <2>1, NobodyWoken, WakeupStep
  <2>3. TypeOK'
    BY <1>1, <1>3, <2>1, <2>2 DEF IInv, TypeOK
  <2>4. OnePlace'
    BY <1>1, <2>1, <2>2 DEF IInv, OnePlace, InQueue
  <2> QED BY <1>4, <1>5, <2>1, <2>3, <2>4 DEF IInv, NoWakeupLost
<1>6. CASE wait_queue # <<>>
  <2> DEFINE h == Head(wait_queue)
  <2>1. Popped = <<h>> /\ Popped # <<>> /\ wait_queue' = Tail(wait_queue)
    BY <1>1, <1>6 DEF Popped
  <2>2. /\ h \in Tasks /\ h \in Range(wait_queue)
        /\ wait_queue' \in Seq(Tasks) /\ IsInjective(wait_queue')
        /\ Range(wait_queue') = Range(wait_queue) \ {h}
    BY <1>2, <1>6, <2>1, QueuePop
  <2> HIDE DEF h
  <2>3. kont[h] = "read" /\ ~InQueue(h, ready_queue) /\ current # h
    BY <2>2 DEF IInv, OnePlace, InQueue
  <2>4. Range(Popped) = {h} /\ FreshlyWoken(Popped)
    BY <2>1, <2>2, <2>3, QueueEmpty DEF FreshlyWoken, InQueue
  <2>5. /\ SchedTypeOK' /\ current' = current /\ IsInjective(ready_queue')
        /\ Range(ready_queue') = Range(ready_queue) \cup {h}
    BY <1>1, <1>2, <2>4, WakeupStep
  <2>6. TypeOK'
    BY <1>1, <1>3, <2>2, <2>5 DEF IInv, TypeOK
  <2>7. OnePlace'
    BY <1>1, <2>2, <2>3, <2>5 DEF IInv, OnePlace, InQueue
  <2>8. h \notin Pending /\ Pending' = Pending \cup {h}
    BY <1>1, <2>2, <2>3 DEF Pending, InQueue
  <2>9. Cardinality(Pending') = Cardinality(Pending) + 1 /\ Cardinality(Pending) \in Nat
    BY <2>8, PendingFinite, FS_AddElement
  <2>10. semaphore => value <= Cardinality(Pending)
    BY <1>6 DEF IInv, NoWakeupLost
  <2>11. value \in 0 .. U32 - 1
    BY ValueType DEF IInv
  <2>12. semaphore' = semaphore /\ value' \in Int
    BY <1>1, <1>3, DivMod, EventfdAssumption DEF semaphore, value
  <2>13. NoWakeupLost'
    <3>1. CASE semaphore
      BY <1>3, <2>9, <2>10, <2>11, <2>12, <3>1, EventfdAssumption DEF NoWakeupLost
    <3>2. CASE ~semaphore
      BY <2>8, <2>12, <3>2 DEF NoWakeupLost
    <3> QED BY <3>1, <3>2
  <2> QED BY <1>4, <2>6, <2>7, <2>13 DEF IInv
<1> QED BY <1>5, <1>6

\* The processor changes hands.
LEMMA SwitchStep ==
  ASSUME IInv, UNCHANGED <<efdVars, kont, buf>>, SchedTypeOK', OnePlace'
  PROVE  IInv'
<1>1. TypeOK'
  BY DEF IInv, TypeOK, efdVars
<1>2. Pending' = Pending
  BY SamePending DEF efdVars
<1>3. NoWakeupLost' /\ Unused'
  BY <1>2 DEF IInv, NoWakeupLost, Unused, Created, semaphore, value, efdVars
<1> QED BY <1>1, <1>3 DEF IInv

LEMMA YieldsStep ==
  ASSUME IInv, NEW t \in Tasks, Yields(t)
  PROVE  IInv'
<1>1. /\ UNCHANGED <<efdVars, kont, buf>> /\ current = t
      /\ suspend_current_and_run_next(<<>>)
  BY DEF Yields, Calls
<1>2. /\ SchedTypeOK /\ IsInjective(ready_queue) /\ t \notin Range(ready_queue)
      /\ t \notin Range(wait_queue)
  BY <1>1 DEF IInv, TypeOK, OnePlace, InQueue
<1>3. /\ SchedTypeOK' /\ current' = NoTask /\ IsInjective(ready_queue')
      /\ Range(ready_queue') = Range(ready_queue) \cup {t}
  BY <1>1, <1>2, NobodyWoken, SuspendStep
<1>4. OnePlace'
  BY <1>1, <1>2, <1>3, NoTaskAssumption DEF IInv, OnePlace, InQueue, efdVars
<1> QED BY <1>1, <1>3, <1>4, SwitchStep

LEMMA RunTasksStep ==
  ASSUME IInv, RunTasks
  PROVE  IInv'
<1>1. UNCHANGED <<efdVars, kont, buf>> /\ run_tasks /\ current = NoTask
  BY DEF RunTasks, run_tasks
<1>2. SchedTypeOK /\ IsInjective(ready_queue)
  BY DEF IInv, TypeOK, OnePlace
<1>3. /\ SchedTypeOK' /\ current' \in Range(ready_queue) /\ IsInjective(ready_queue')
      /\ Range(ready_queue') = Range(ready_queue) \ {current'}
  BY <1>1, <1>2, RunStep
<1>4. OnePlace'
  BY <1>1, <1>3, NoTaskAssumption DEF IInv, OnePlace, InQueue, efdVars
<1> QED BY <1>1, <1>3, <1>4, SwitchStep

\* A read, from its beginning or from where it has been blocked, is made of an
\* eventfd that exists.
LEMMA ReadCase ==
  ASSUME IInv, NEW t \in Tasks, sys_read(t) \/ ReadResumes(t)
  PROVE  current = t /\ Created /\ (ReadBlocks(t) \/ ReadRefused(t) \/ ReadTakes(t))
BY DEF IInv, Unused, sys_read, ReadResumes, Calls, read

LEMMA Step == IInv /\ [Next]_vars => IInv'
<1> SUFFICES ASSUME IInv, [Next]_vars PROVE IInv'
  OBVIOUS
<1>1. ASSUME NEW t \in Tasks, sys_read(t) \/ ReadResumes(t) PROVE IInv'
  BY <1>1, ReadCase, BlocksStep, RefusedStep, TakesStep
<1>2. CASE UNCHANGED vars
  <2>1. UNCHANGED <<schedVars, efdVars, kont, buf>>
    BY <1>2 DEF vars
  <2>2. SchedTypeOK' /\ OnePlace'
    BY <2>1 DEF IInv, TypeOK, SchedTypeOK, OnePlace, InQueue, schedVars, efdVars
  <2> QED BY <2>1, <2>2, SwitchStep
<1> QED
  BY <1>1, <1>2, RunTasksStep, CreateStep, WriteStep, YieldsStep DEF Next

LEMMA Invariance == Spec => []IInv
BY Initial, Step, PTL DEF Spec

\* For any number of tasks, every task is running, ready or waiting in read, and
\* only there (eventfd.rs:89-93, 144-146).
THEOREM ReadersInOnePlace == Spec => []OnePlace
<1>1. IInv => OnePlace
  BY DEF IInv
<1> QED BY <1>1, Invariance, PTL

\* For any number of tasks, any width of a u32 and any sequence of reads and
\* writes, the readers that write has woken are enough for the value while others
\* still wait (eventfd.rs:80-149).
THEOREM WakeupsArrive == Spec => []NoWakeupLost
<1>1. IInv => NoWakeupLost
  BY DEF IInv
<1> QED BY <1>1, Invariance, PTL

-----------------------------------------------------------------------------
(* The eventfd implements EventCounter                                     *)

modeOf == IF ~Created THEN NoFlags ELSE IF non_block THEN "nonblock"
          ELSE IF semaphore THEN "semaphore" ELSE "default"
resultOf == [t \in Tasks |-> IF buf[t] = <<>> THEN NoFlags ELSE from_be_bytes(buf[t])]
counterVars == <<modeOf, value, resultOf>>

LEMMA CounterInit == Init => Counter!Init
<1> SUFFICES ASSUME Init PROVE Counter!Init
  OBVIOUS
<1>1. value = 0
  BY SmallMod, EventfdAssumption DEF Init, value
<1>2. ~Created /\ \A t \in Tasks : buf[t] = <<>>
  BY DEF Init, Created
<1> QED BY <1>1, <1>2 DEF Counter!Init

\* The modes are three, and only semaphore mode is called semaphore.
LEMMA Modes ==
  ASSUME TypeOK, Created
  PROVE  /\ modeOf \in {"default", "semaphore", "nonblock"}
         /\ modeOf # NoFlags
         /\ modeOf = "semaphore" <=> semaphore
<1>1. semaphore => ~non_block
  BY DEF semaphore, non_block
<1>2. modeOf \in {"default", "semaphore", "nonblock"}
  BY DEF modeOf
<1> QED BY <1>1, <1>2, EventfdAssumption DEF modeOf

LEMMA SameMode == UNCHANGED flags => UNCHANGED modeOf
BY DEF modeOf, Created, non_block, semaphore

LEMMA SameResult == UNCHANGED buf => UNCHANGED resultOf
BY DEF resultOf

\* A step that changes neither the count, the flags nor a buffer.
LEMMA CounterQuiet ==
  ASSUME UNCHANGED <<flags, count, buf>>
  PROVE  UNCHANGED counterVars
BY SameMode, SameResult DEF counterVars, value

LEMMA CounterCreate ==
  ASSUME IInv, NEW t \in Tasks, NEW initval \in 0 .. U32 - 1, NEW fl \in Flags,
         sys_eventfd(t, initval, fl)
  PROVE  Counter!Next
<1>1. /\ ~Created /\ Created' /\ UNCHANGED resultOf /\ TypeOK'
      /\ count' = initval
  BY CreateStep, SameResult, EventfdAssumption DEF sys_eventfd, Created, IInv
<1>2. modeOf = NoFlags
  BY <1>1 DEF modeOf
<1>3. modeOf' \in {"default", "semaphore", "nonblock"}
  BY <1>1 DEF modeOf
<1>4. value' \in 0 .. U32 - 1
  BY <1>1, SmallMod, EventfdAssumption DEF value
<1> QED BY <1>1, <1>2, <1>3, <1>4 DEF Counter!Next, Counter!Create, modeOf, resultOf

LEMMA CounterTakes ==
  ASSUME IInv, NEW t \in Tasks, Created, ReadTakes(t)
  PROVE  Counter!Next
<1>1. /\ value # 0 /\ value \in 0 .. U32 - 1
      /\ value' = (IF semaphore THEN value - 1 ELSE 0)
      /\ from_be_bytes(buf'[t]) = (IF semaphore THEN 1 ELSE value)
      /\ \A u \in Tasks \ {t} : buf'[u] = buf[u]
      /\ buf'[t] \in Bytes
  BY TakesValue
<1>2. UNCHANGED modeOf
  BY SameMode DEF ReadTakes
<1>3. modeOf # NoFlags /\ (modeOf = "semaphore" <=> semaphore)
  BY Modes DEF IInv
<1>4. buf'[t] # <<>>
  <2>1. DOMAIN buf'[t] = 1..U32_BYTE_SIZE /\ 1 \in 1..U32_BYTE_SIZE
    BY <1>1, EventfdAssumption DEF Bytes
  <2>2. DOMAIN <<>> = {}
    OBVIOUS
  <2> QED BY Zenon, <2>1, <2>2
<1> DEFINE taken == IF modeOf = "semaphore" THEN 1 ELSE value
<1>5. resultOf' = [resultOf EXCEPT ![t] = taken]
  BY Zenon, <1>1, <1>3, <1>4 DEF resultOf
<1>6. value' = value - taken
  BY <1>1, <1>3
<1> QED BY Zenon, <1>1, <1>2, <1>3, <1>5, <1>6
        DEF Counter!Next, Counter!Read, Counter!Taken, modeOf, resultOf

LEMMA CounterWrite ==
  ASSUME IInv, NEW t \in Tasks, NEW bytes \in Bytes, sys_write(t, bytes)
  PROVE  Counter!Next
<1>1. value' = (value + (IF semaphore THEN 1 ELSE from_be_bytes(bytes))) % U32
  BY WriteValue
<1>2. UNCHANGED modeOf /\ UNCHANGED resultOf
  BY SameMode, SameResult DEF sys_write
<1>3. modeOf # NoFlags /\ (modeOf = "semaphore" <=> semaphore)
  BY Modes DEF IInv, sys_write
<1>4. from_be_bytes(bytes) \in 0 .. U32 - 1
  BY BytesAssumption
<1> QED BY <1>1, <1>2, <1>3, <1>4 DEF Counter!Next, Counter!Write, modeOf, resultOf

LEMMA CounterStep == IInv /\ [Next]_vars => [Counter!Next]_counterVars
<1> SUFFICES ASSUME IInv, [Next]_vars PROVE [Counter!Next]_counterVars
  OBVIOUS
<1>1. ASSUME NEW t \in Tasks, sys_read(t) \/ ReadResumes(t)
      PROVE  [Counter!Next]_counterVars
  <2>1. Created /\ (ReadBlocks(t) \/ ReadRefused(t) \/ ReadTakes(t))
    BY <1>1, ReadCase
  <2>2. ReadBlocks(t) \/ ReadRefused(t) => UNCHANGED <<flags, count, buf>>
    BY DEF ReadBlocks, ReadRefused, efdVars
  <2> QED BY <2>1, <2>2, CounterQuiet, CounterTakes
<1>2. ASSUME NEW t \in Tasks, Yields(t) PROVE UNCHANGED counterVars
  BY <1>2, CounterQuiet DEF Yields, efdVars
<1>3. CASE RunTasks \/ UNCHANGED vars
  BY <1>3, CounterQuiet DEF RunTasks, efdVars, vars
<1> QED BY <1>1, <1>2, <1>3, CounterCreate, CounterWrite DEF Next

\* For any number of tasks, any width of a u32 and any interleaving of readers
\* that block and are woken, the eventfd is one counter modulo 2^32: what a read
\* puts into the buffer is what it takes off (eventfd.rs:80-149).
THEOREM EventfdIsCounter == Spec => ImplementsCounter
<1> QED BY CounterInit, CounterStep, Invariance, PTL
        DEF Spec, ImplementsCounter, Counter!Spec, Counter!vars, counterVars, modeOf, resultOf
=============================================================================
