---------------------------- MODULE Process_proofs ----------------------------
(***************************************************************************)
(* Processes and threads, for any processes and any number of threads: the *)
(* family tree stays a tree, no process id, thread id or kernel stack has  *)
(* two owners, and only those of threads blocked at an exit have none.     *)
(***************************************************************************)
EXTENDS Process, Queue_lemmas, FiniteSetTheorems, SequenceTheorems

-----------------------------------------------------------------------------
(* The inductive invariant                                                 *)

\* What dealloc asserts holds of all that was given back.
AllocatorOK(a) ==
  /\ a \in Allocators
  /\ IsInjective(a.recycled) /\ \A id \in Range(a.recycled) : id < a.current

Tree ==
  /\ \A p \in Procs : IsInjective(children[p])
  /\ \A c, p \in Procs : c \in Range(children[p])
                           <=> c # InitProc /\ status[c] # "none" /\ parent[c] = p
  /\ \A c \in Procs \ {InitProc} :
       status[c] # "none" => parent[c] # NoProc /\ status[parent[c]] = "live"

PidsOwned ==
  /\ \A p \in Procs : status[p] # "none" => pid[p] \in InUse(pids)
  /\ \A n \in InUse(pids) : \E p \in Procs : status[p] # "none" /\ n = pid[p]
  /\ \A p, q \in Procs :
       status[p] # "none" /\ status[q] # "none" /\ pid[p] = pid[q] => p = q

KstacksOwned ==
  /\ \A p \in Procs, i \in Tids : HasTcb(p, i) => Kstack(p, i) \in InUse(kstacks)
  /\ \A e \in stranded : e[2] \in InUse(kstacks)
  /\ \A k \in InUse(kstacks) :
       \/ \E p \in Procs, i \in Tids : HasTcb(p, i) /\ k = Kstack(p, i)
       \/ \E e \in stranded : k = e[2]
  /\ \A p, q \in Procs, i, j \in Tids :
       HasTcb(p, i) /\ HasTcb(q, j) /\ Kstack(p, i) = Kstack(q, j) => p = q /\ i = j
  /\ \A e, f \in stranded : e[2] = f[2] => e = f
  /\ \A p \in Procs, i \in Tids, f \in stranded : HasTcb(p, i) => Kstack(p, i) # f[2]

TidsOwned ==
  \A p \in Procs : status[p] = "live" =>
    InUse(tids[p]) = {i \in Tids : HasTcb(p, i) /\ At(p, i) # "exited"}

AllocatorsOK ==
  AllocatorOK(pids) /\ AllocatorOK(kstacks) /\ \A p \in Procs : AllocatorOK(tids[p])

\* INITPROC lives, and a process that does not has no threads.
Lives ==
  /\ status[InitProc] = "live"
  /\ \A p \in Procs : status[p] # "live" => tasks[p] = <<>>

\* The Arcs of PID2PCB are those of the processes that have not exited.
Listed == \A p \in Procs : p \in PID2PCB <=> status[p] = "live"

IInv ==
  /\ TypeOK /\ AllocatorsOK /\ Lives /\ Listed /\ PanicIsLeftArc
  /\ ~panicked => Tree
  /\ PidsOwned /\ KstacksOwned /\ TidsOwned

\* The properties follow from the invariant.
LEMMA IInvImplies == IInv => FamilyTree /\ IdsAccountedFor
<1>1. IInv => FamilyTree
  BY Zenon DEF IInv, FamilyTree, Tree
<1>2. ASSUME IInv PROVE IdsAccountedFor
  <2>1. InUse(pids) = {pid[p] : p \in Allocated}
    BY <1>2 DEF IInv, PidsOwned, Allocated
  <2>2. \A p, q \in Allocated : pid[p] = pid[q] => p = q
    BY <1>2 DEF IInv, PidsOwned, Allocated
  <2>3. \A e \in Threads : e[1] \in Procs /\ e[2] \in Tids /\ e = <<e[1], e[2]>> /\ HasTcb(e[1], e[2])
    BY DEF Threads
  <2>4. \A p \in Procs, i \in Tids : HasTcb(p, i) => <<p, i>> \in Threads /\ <<p, i>>[1] = p /\ <<p, i>>[2] = i
    BY DEF Threads
  <2>5. InUse(kstacks) = {Kstack(e[1], e[2]) : e \in Threads} \cup {e[2] : e \in stranded}
    <3>1. ASSUME NEW k \in InUse(kstacks)
          PROVE  k \in {Kstack(e[1], e[2]) : e \in Threads} \cup {e[2] : e \in stranded}
      <4>1. CASE \E e \in stranded : k = e[2]
        BY Zenon, <4>1
      <4>2. ASSUME NEW p \in Procs, NEW i \in Tids, HasTcb(p, i), k = Kstack(p, i)
            PROVE  \E e \in Threads : k = Kstack(e[1], e[2])
        <5>1. k = Kstack(<<p, i>>[1], <<p, i>>[2])
          BY <2>4, <4>2
        <5> QED
          BY <2>4, <4>2, <5>1
      <4> QED
        BY Zenon, <1>2, <4>1, <4>2 DEF IInv, KstacksOwned
    <3>2. ASSUME NEW e \in Threads PROVE Kstack(e[1], e[2]) \in InUse(kstacks)
      BY Zenon, <1>2, <2>3 DEF IInv, KstacksOwned
    <3>3. ASSUME NEW e \in stranded PROVE e[2] \in InUse(kstacks)
      BY Zenon, <1>2 DEF IInv, KstacksOwned
    <3> QED
      BY Zenon, <3>1, <3>2, <3>3
  <2>6. \A e, f \in Threads : Kstack(e[1], e[2]) = Kstack(f[1], f[2]) => e = f
    <3> SUFFICES ASSUME NEW e \in Threads, NEW f \in Threads,
                        Kstack(e[1], e[2]) = Kstack(f[1], f[2])
                 PROVE  e = f
      OBVIOUS
    <3>1. e[1] = f[1] /\ e[2] = f[2]
      BY <1>2, <2>3 DEF IInv, KstacksOwned
    <3> QED
      BY <2>3, <3>1
  <2>7. /\ \A e, f \in stranded : e[2] = f[2] => e = f
        /\ \A e \in Threads, f \in stranded : Kstack(e[1], e[2]) # f[2]
    BY <1>2, <2>3 DEF IInv, KstacksOwned
  <2> QED
    BY Zenon, <1>2, <2>1, <2>2, <2>5, <2>6, <2>7 DEF IInv, TidsOwned, IdsAccountedFor
<1> QED
  BY <1>1, <1>2

-----------------------------------------------------------------------------
(* The allocator of ids                                                    *)

\* A new one has given out nothing, and then 0.
LEMMA NewAllocatorFacts ==
  /\ AllocatorOK(NewAllocator) /\ InUse(NewAllocator) = {}
  /\ AllocatorOK(alloc(NewAllocator)) /\ InUse(alloc(NewAllocator)) = {0}
<1>1. NewAllocator.current = 0 /\ NewAllocator.recycled = <<>>
  BY DEF NewAllocator
<1>2. alloc(NewAllocator) = [current |-> 1, recycled |-> <<>>]
  BY DEF alloc, NewAllocator
<1>3. <<>> \in Seq(Nat) /\ IsInjective(<<>>) /\ Range(<<>>) = {}
  BY QueueEmpty
<1>4. ASSUME NEW n \in Nat, NEW r \in Seq(Nat), IsInjective(r), Range(r) = {}
      PROVE  LET a == [current |-> n, recycled |-> r]
             IN  AllocatorOK(a) /\ InUse(a) = 0..(n - 1)
  BY <1>4 DEF AllocatorOK, Allocators, InUse
<1>5. AllocatorOK(NewAllocator) /\ InUse(NewAllocator) = 0..(0 - 1)
  BY <1>3, <1>4 DEF NewAllocator
<1>6. AllocatorOK(alloc(NewAllocator)) /\ InUse(alloc(NewAllocator)) = 0..(1 - 1)
  BY <1>2, <1>3, <1>4
<1> QED
  BY <1>5, <1>6

\* alloc returns an id that is not in use, and puts it in use.
LEMMA AllocFacts ==
  ASSUME NEW a, AllocatorOK(a)
  PROVE  /\ NextId(a) \in Nat /\ NextId(a) \notin InUse(a)
         /\ AllocatorOK(alloc(a)) /\ InUse(alloc(a)) = InUse(a) \cup {NextId(a)}
<1> DEFINE r == a.recycled
           n == Len(r)
<1>1. r \in Seq(Nat) /\ a.current \in Nat /\ n \in Nat /\ DOMAIN r = 1..n
  BY DEF AllocatorOK, Allocators
<1>2. CASE r = <<>>
  <2>1. /\ NextId(a) = a.current /\ Range(r) = {}
        /\ alloc(a) = [a EXCEPT !.current = a.current + 1]
    BY <1>2 DEF NextId, alloc, Range
  <2>2. /\ alloc(a).current = a.current + 1 /\ alloc(a).recycled = r
        /\ alloc(a) \in Allocators
    BY <2>1 DEF AllocatorOK, Allocators
  <2> QED
    BY <1>1, <2>1, <2>2 DEF InUse, AllocatorOK
<1>3. CASE r # <<>>
  <2> DEFINE s == SubSeq(r, 1, n - 1)
  <2>1. NextId(a) = r[n] /\ alloc(a) = [a EXCEPT !.recycled = s] /\ n >= 1
    BY <1>1, <1>3 DEF NextId, alloc
  <2>2. /\ s \in Seq(Nat) /\ DOMAIN s = 1..(n - 1) /\ \A i \in 1..(n - 1) : s[i] = r[i]
    BY <1>1, <2>1
  <2>3. alloc(a).current = a.current /\ alloc(a).recycled = s /\ alloc(a) \in Allocators
    BY <2>1, <2>2 DEF AllocatorOK, Allocators
  <2> HIDE DEF s
  <2>4. r[n] \in Nat /\ r[n] \in Range(r) /\ r[n] < a.current
    BY <1>1, <2>1 DEF Range, AllocatorOK
  <2>5. Range(r) = Range(s) \cup {r[n]} /\ r[n] \notin Range(s) /\ IsInjective(s)
    <3>1. \A i, j \in 1..n : r[i] = r[j] => i = j
      BY <1>1 DEF AllocatorOK, IsInjective
    <3> HIDE DEF r, n
    <3>2. Range(s) = {r[i] : i \in 1..(n - 1)} /\ Range(r) = {r[i] : i \in 1..n}
      BY <1>1, <2>2 DEF Range
    <3>3. n \in 1..n /\ n \notin 1..(n - 1) /\ 1..n = (1..(n - 1)) \cup {n}
      BY <1>1, <2>1
    <3> HIDE DEF r, n
    <3>4. IsInjective(s)
      BY <2>2, <3>1, <3>3 DEF IsInjective
    <3> QED
      BY <3>1, <3>2, <3>3, <3>4
  <2>6. InUse(a) = (0..(a.current - 1)) \ Range(r) /\ InUse(alloc(a)) = (0..(a.current - 1)) \ Range(s)
    BY <2>3 DEF InUse
  <2>7. \A id \in Range(s) : id < a.current
    BY <2>5 DEF AllocatorOK
  <2> QED
    BY <1>1, <2>1, <2>3, <2>4, <2>5, <2>6, <2>7 DEF AllocatorOK
<1> QED
  BY <1>2, <1>3

\* The asserts of dealloc hold for ids in use, one after the other, and what is
\* given back is not in use.
LEMMA DeallocFacts ==
  ASSUME NEW a, AllocatorOK(a), NEW s \in Seq(Nat), IsInjective(s), Range(s) \subseteq InUse(a),
         NEW b, b = [a EXCEPT !.recycled = @ \o s]
  PROVE  AllocatorOK(b) /\ InUse(b) = InUse(a) \ Range(s)
<1>1. a.recycled \in Seq(Nat) /\ a.current \in Nat
  BY DEF AllocatorOK, Allocators
<1>2. Range(a.recycled) \cap Range(s) = {} /\ \A id \in Range(s) : id < a.current
  BY <1>1 DEF InUse
<1>3. /\ a.recycled \o s \in Seq(Nat) /\ Range(a.recycled \o s) = Range(a.recycled) \cup Range(s)
      /\ IsInjective(a.recycled \o s)
  BY <1>1, <1>2, QueueConcat DEF AllocatorOK
<1>4. b.current = a.current /\ b.recycled = a.recycled \o s /\ b \in Allocators
  BY <1>1, <1>3 DEF AllocatorOK, Allocators
<1>5. AllocatorOK(b)
  BY <1>2, <1>3, <1>4 DEF AllocatorOK
<1>6. InUse(b) = InUse(a) \ Range(s)
  BY <1>3, <1>4 DEF InUse
<1> QED
  BY <1>5, <1>6

\* The same for one id.
LEMMA DeallocOne ==
  ASSUME NEW a, AllocatorOK(a), NEW id \in InUse(a)
  PROVE  AllocatorOK(dealloc(a, id)) /\ InUse(dealloc(a, id)) = InUse(a) \ {id}
<1>1. id \in Nat /\ a.recycled \in Seq(Nat)
  BY DEF InUse, AllocatorOK, Allocators
<1>2. <<id>> \in Seq(Nat) /\ IsInjective(<<id>>) /\ Range(<<id>>) = {id}
  BY <1>1, QueueEmpty
<1>3. dealloc(a, id) = [a EXCEPT !.recycled = @ \o <<id>>]
  <2>1. Append(a.recycled, id) = a.recycled \o <<id>>
    BY Zenon, <1>1, AppendIsConcat
  <2> QED
    BY Zenon, <2>1 DEF dealloc
<1> DEFINE s == <<id>>
<1>4. s \in Seq(Nat) /\ IsInjective(s) /\ Range(s) = {id} /\ Range(s) \subseteq InUse(a)
  BY Zenon, <1>2
<1>5. dealloc(a, id) = [a EXCEPT !.recycled = @ \o s]
  BY <1>3
<1> HIDE DEF s
<1> QED
  BY Zenon, <1>4, <1>5, DeallocFacts

-----------------------------------------------------------------------------
(* The threads of a process                                                *)

\* The types of a thread.
LEMMA ThreadTypes ==
  ASSUME TypeOK, NEW p \in Procs, NEW i \in Tids, HasTcb(p, i)
  PROVE  /\ tasks[p][i + 1] \in TCBs /\ Kstack(p, i) \in Nat /\ At(p, i) \in Points
<1>1. tasks[p] \in Seq(TCBs \cup {NoTcb})
  BY DEF TypeOK
<1>2. tasks[p][i + 1] \in TCBs
  BY <1>1 DEF HasTcb
<1> QED
  BY <1>2 DEF TCBs, Kstack, At

\* A thread that moves from one point to another is the only one that does.
LEMMA MoveFacts ==
  ASSUME TypeOK, NEW p \in Procs, NEW i \in Tids, HasTcb(p, i),
         NEW point \in Points, MovesTo(p, i, point)
  PROVE  /\ tasks' \in [Procs -> Seq(TCBs \cup {NoTcb})]
         /\ \A q \in Procs : q # p => tasks'[q] = tasks[q]
         /\ \A q \in Procs, j \in Tids :
              /\ HasTcb(q, j)' <=> HasTcb(q, j)
              /\ HasTcb(q, j) =>
                   /\ Kstack(q, j)' = Kstack(q, j)
                   /\ At(q, j)' = IF q = p /\ j = i THEN point ELSE At(q, j)
<1> DEFINE S == TCBs \cup {NoTcb}
           old == tasks[p][i + 1]
           new == [old EXCEPT !.at = point]
           t == [tasks[p] EXCEPT ![i + 1] = new]
<1>1. tasks \in [Procs -> Seq(S)] /\ tasks[p] \in Seq(S)
  BY DEF TypeOK
<1>2. tasks' = [tasks EXCEPT ![p] = t]
  BY DEF MovesTo
<1>3. i + 1 \in DOMAIN tasks[p] /\ old # NoTcb /\ old \in TCBs
  BY ThreadTypes DEF HasTcb
<1>4. new \in TCBs /\ new.kstack = old.kstack /\ new.at = point
  BY <1>3 DEF TCBs
<1>5. new # NoTcb
  BY <1>4, ProcessAssumption
<1> HIDE DEF new
<1>6. /\ t \in Seq(S) /\ DOMAIN t = DOMAIN tasks[p] /\ t[i + 1] = new
      /\ \A m \in DOMAIN tasks[p] : m # i + 1 => t[m] = tasks[p][m]
  BY <1>1, <1>3, <1>4
<1> HIDE DEF t, S
<1>7. tasks' \in [Procs -> Seq(S)] /\ tasks'[p] = t /\ \A q \in Procs : q # p => tasks'[q] = tasks[q]
  BY <1>1, <1>2, <1>6
<1>8. ASSUME NEW j \in Tids
      PROVE  /\ HasTcb(p, j)' <=> HasTcb(p, j)
             /\ HasTcb(p, j) =>
                  /\ Kstack(p, j)' = Kstack(p, j)
                  /\ At(p, j)' = IF j = i THEN point ELSE At(p, j)
  <2>1. CASE j = i
    BY <1>3, <1>4, <1>5, <1>6, <1>7, <2>1 DEF HasTcb, Kstack, At
  <2>2. CASE j # i
    <3>1. j + 1 # i + 1
      BY <2>2 DEF Tids
    <3> QED
      BY <1>6, <1>7, <2>2, <3>1 DEF HasTcb, Kstack, At
  <2> QED
    BY <2>1, <2>2
<1>9. ASSUME NEW q \in Procs, q # p, NEW j \in Tids
      PROVE  /\ HasTcb(q, j)' <=> HasTcb(q, j)
             /\ Kstack(q, j)' = Kstack(q, j) /\ At(q, j)' = At(q, j)
  BY Zenon, <1>7, <1>9 DEF HasTcb, Kstack, At
<1> QED
  BY <1>7, <1>8, <1>9 DEF S

\* A new thread takes its place in the vector, which grows if it has to, and an
\* exited thread that had the place is gone.
LEMMA PadFacts ==
  ASSUME NEW s \in Seq(TCBs \cup {NoTcb}), NEW n \in Nat \ {0}, NEW tcb \in TCBs
  PROVE  LET t == [PadTo(s, n) EXCEPT ![n] = tcb]
         IN  /\ t \in Seq(TCBs \cup {NoTcb})
             /\ n \in DOMAIN t /\ t[n] = tcb
             /\ \A m \in Nat : m # n =>
                  /\ m \in DOMAIN t /\ t[m] # NoTcb <=> m \in DOMAIN s /\ s[m] # NoTcb
                  /\ m \in DOMAIN s => t[m] = s[m]
<1> DEFINE S == TCBs \cup {NoTcb}
           l == IF Len(s) < n THEN n ELSE Len(s)
           pad == PadTo(s, n)
           t == [pad EXCEPT ![n] = tcb]
<1>1. Len(s) \in Nat /\ DOMAIN s = 1..Len(s) /\ \A m \in 1..Len(s) : s[m] \in S
  OBVIOUS
<1>2. l \in Nat /\ Len(s) <= l /\ n \in 1..l
  BY <1>1
<1>3. pad = [m \in 1..l |-> IF m <= Len(s) THEN s[m] ELSE NoTcb]
  BY DEF PadTo
<1> HIDE DEF l, pad
<1>4. /\ DOMAIN t = 1..l /\ t[n] = tcb
      /\ \A m \in 1..l : m # n => t[m] = IF m <= Len(s) THEN s[m] ELSE NoTcb
  BY <1>2, <1>3
<1>5. \A m \in 1..l : t[m] \in S
  BY <1>1, <1>4
<1>6. t = [m \in 1..l |-> t[m]]
  BY <1>3
<1> HIDE DEF t
<1>7. t \in Seq(S)
  BY <1>2, <1>5, <1>6
<1> QED
  BY <1>1, <1>2, <1>4, <1>7 DEF t, pad

-----------------------------------------------------------------------------
(* What most steps leave alone                                             *)

\* The process tree and the pids, when no process comes, exits or is reaped.
LEMMA TreeKept ==
  ASSUME IInv, UNCHANGED treeVars, panicked' = panicked, pins' = pins
  PROVE  /\ (~panicked' => Tree') /\ PidsOwned' /\ AllocatorOK(pids')
         /\ Listed' /\ PanicIsLeftArc'
<1>1. UNCHANGED <<status, pid, parent, children, PID2PCB, pids>>
  BY DEF treeVars
<1>2. ~panicked' => Tree'
  BY Zenon, <1>1 DEF IInv, Tree
<1>3. PidsOwned'
  BY Zenon, <1>1 DEF IInv, PidsOwned
<1>4. Listed' /\ PanicIsLeftArc'
  BY Zenon, <1>1 DEF IInv, Listed, PanicIsLeftArc
<1> QED
  BY Zenon, <1>1, <1>2, <1>3, <1>4 DEF IInv, AllocatorsOK

\* The kernel stacks, when no thread comes or goes.
LEMMA KstacksKept ==
  ASSUME IInv, UNCHANGED <<kstacks, stranded>>,
         \A q \in Procs, j \in Tids :
           /\ HasTcb(q, j)' <=> HasTcb(q, j)
           /\ HasTcb(q, j) => Kstack(q, j)' = Kstack(q, j)
  PROVE  KstacksOwned'
<1> DEFINE H(q, j) == HasTcb(q, j)'
           K(q, j) == Kstack(q, j)'
<1>1. Tids' = Tids
  BY DEF Tids
<1>2. /\ \A q \in Procs, j \in Tids : H(q, j) <=> HasTcb(q, j)
      /\ \A q \in Procs, j \in Tids : HasTcb(q, j) => K(q, j) = Kstack(q, j)
  OBVIOUS
<1> HIDE DEF H, K
<1>3. /\ \A p \in Procs, i \in Tids : H(p, i) => K(p, i) \in InUse(kstacks)
      /\ \A e \in stranded : e[2] \in InUse(kstacks)
      /\ \A k \in InUse(kstacks) :
           \/ \E p \in Procs, i \in Tids : H(p, i) /\ k = K(p, i)
           \/ \E e \in stranded : k = e[2]
      /\ \A p, q \in Procs, i, j \in Tids :
           H(p, i) /\ H(q, j) /\ K(p, i) = K(q, j) => p = q /\ i = j
      /\ \A e, f \in stranded : e[2] = f[2] => e = f
      /\ \A p \in Procs, i \in Tids, f \in stranded : H(p, i) => K(p, i) # f[2]
  BY <1>2 DEF IInv, KstacksOwned
<1> QED
  BY Zenon, <1>1, <1>3 DEF KstacksOwned, H, K

\* Thread t of p takes the kernel stack k, and the one of an exited thread that
\* had the same place is given back.
LEMMA KstackGiven ==
  ASSUME IInv, NEW p \in Procs, NEW t \in Tids, NEW k, k \notin InUse(kstacks),
         UNCHANGED stranded,
         InUse(kstacks') = (InUse(kstacks) \cup {k})
                             \ (IF HasTcb(p, t) THEN {Kstack(p, t)} ELSE {}),
         HasTcb(p, t)', Kstack(p, t)' = k,
         \A q \in Procs, j \in Tids : ~(q = p /\ j = t) =>
           /\ HasTcb(q, j)' <=> HasTcb(q, j)
           /\ HasTcb(q, j) => Kstack(q, j)' = Kstack(q, j)
  PROVE  KstacksOwned'
<1> DEFINE H(q, j) == HasTcb(q, j)'
           K(q, j) == Kstack(q, j)'
           Old == IF HasTcb(p, t) THEN {Kstack(p, t)} ELSE {}
           new == InUse(kstacks')
<1>1. Tids' = Tids
  BY DEF Tids
<1>2. /\ \A q \in Procs, j \in Tids : ~(q = p /\ j = t) => (H(q, j) <=> HasTcb(q, j))
      /\ \A q \in Procs, j \in Tids :
           ~(q = p /\ j = t) /\ HasTcb(q, j) => K(q, j) = Kstack(q, j)
      /\ H(p, t) /\ K(p, t) = k
      /\ new = (InUse(kstacks) \cup {k}) \ Old
  OBVIOUS
<1>3. /\ HasTcb(p, t) => Old = {Kstack(p, t)} /\ Kstack(p, t) \in InUse(kstacks)
      /\ ~HasTcb(p, t) => Old = {}
  BY DEF IInv, KstacksOwned
<1>4. k \notin Old /\ k \in new
  BY <1>2, <1>3
<1> HIDE DEF H, K, Old, new
<1>5. /\ \A q \in Procs, j \in Tids : HasTcb(q, j) => Kstack(q, j) \in InUse(kstacks)
      /\ \A e \in stranded : e[2] \in InUse(kstacks)
      /\ \A m \in InUse(kstacks) :
           \/ \E q \in Procs, j \in Tids : HasTcb(q, j) /\ m = Kstack(q, j)
           \/ \E e \in stranded : m = e[2]
      /\ \A q, r \in Procs, i, j \in Tids :
           HasTcb(q, i) /\ HasTcb(r, j) /\ Kstack(q, i) = Kstack(r, j) => q = r /\ i = j
      /\ \A e, f \in stranded : e[2] = f[2] => e = f
      /\ \A q \in Procs, j \in Tids, f \in stranded : HasTcb(q, j) => Kstack(q, j) # f[2]
  BY Zenon DEF IInv, KstacksOwned
<1>6. \A q \in Procs, j \in Tids : H(q, j) => K(q, j) \in new
  BY <1>2, <1>3, <1>4, <1>5
<1>7. \A e \in stranded : e[2] \in new /\ e[2] # k
  BY <1>2, <1>3, <1>5
<1>8. \A m \in new :
        \/ \E q \in Procs, j \in Tids : H(q, j) /\ m = K(q, j)
        \/ \E e \in stranded : m = e[2]
  BY <1>2, <1>3, <1>5
<1>9. \A q, r \in Procs, i, j \in Tids :
        H(q, i) /\ H(r, j) /\ K(q, i) = K(r, j) => q = r /\ i = j
  BY <1>2, <1>3, <1>5
<1>10. \A q \in Procs, j \in Tids, f \in stranded : H(q, j) => K(q, j) # f[2]
  BY <1>2, <1>5, <1>7
<1>11. /\ \A e \in stranded : e[2] \in new
       /\ \A e, f \in stranded : e[2] = f[2] => e = f
  BY Zenon, <1>5, <1>7
<1> QED
  BY <1>1, <1>6, <1>8, <1>9, <1>10, <1>11 DEF KstacksOwned, H, K, new

-----------------------------------------------------------------------------
(* The steps of the threads                                                *)

\* A thread blocks, or reads a pipe, or comes back from it.
LEMMA MoveIInv ==
  ASSUME IInv, NEW p \in Procs, NEW i \in Tids, HasTcb(p, i), At(p, i) # "exited",
         NEW point \in Points, point # "exited", MovesTo(p, i, point), status[p] = "live",
         UNCHANGED <<treeVars, tids, kstacks, leakVars, exiting, panicked>>
  PROVE  IInv'
<1>0. /\ TypeOK /\ UNCHANGED <<status, pid, parent, children, PID2PCB, pids, pins, stranded>>
      /\ Tids' = Tids
  BY DEF IInv, treeVars, leakVars, Tids
<1>1. /\ tasks' \in [Procs -> Seq(TCBs \cup {NoTcb})]
      /\ \A q \in Procs : q # p => tasks'[q] = tasks[q]
      /\ \A q \in Procs, j \in Tids :
           /\ HasTcb(q, j)' <=> HasTcb(q, j)
           /\ HasTcb(q, j) =>
                /\ Kstack(q, j)' = Kstack(q, j)
                /\ At(q, j)' = IF q = p /\ j = i THEN point ELSE At(q, j)
  BY ZenonT(30), <1>0, MoveFacts
<1>2. TypeOK'
  BY Zenon, <1>0, <1>1 DEF TypeOK
<1>3. AllocatorsOK'
  BY Zenon, <1>0 DEF IInv, AllocatorsOK
<1>4. Lives'
  BY Zenon, <1>0, <1>1 DEF IInv, Lives
<1>5. TidsOwned'
  <2>1. \A q \in Procs, j \in Tids :
          HasTcb(q, j)' /\ At(q, j)' # "exited" <=> HasTcb(q, j) /\ At(q, j) # "exited"
    BY Zenon, <1>1
  <2> QED
    BY Zenon, <1>0, <2>1 DEF IInv, TidsOwned
<1> QED
  BY Zenon, <1>0, <1>1, <1>2, <1>3, <1>4, <1>5, TreeKept, KstacksKept DEF IInv

LEMMA SuspendsIInv ==
  ASSUME IInv, NEW p \in Procs, NEW i \in Tids, NEW point \in {"lock", "down", "read"},
         Suspends(p, i, point)
  PROVE  IInv'
<1>1. point \in Points /\ point # "exited" /\ "user" # "exited"
  BY DEF Points
<1>2. HasTcb(p, i) /\ At(p, i) # "exited" /\ status[p] = "live"
  BY <1>1 DEF Suspends, Calls
<1> QED
  BY Zenon, <1>1, <1>2, MoveIInv DEF Suspends

LEMMA ResumesIInv ==
  ASSUME IInv, NEW p \in Procs, NEW i \in Tids, Resumes(p, i)
  PROVE  IInv'
<1>1. "user" \in Points /\ "user" # "exited" /\ "exited" \notin Blocked \cup {"read"}
  BY DEF Points, Blocked
<1>2. HasTcb(p, i) /\ At(p, i) # "exited" /\ status[p] = "live"
  BY <1>1 DEF Resumes
<1> QED
  BY Zenon, <1>1, <1>2, MoveIInv DEF Resumes

LEMMA ThreadExitsIInv ==
  ASSUME IInv, NEW p \in Procs, NEW i \in Tids, ThreadExits(p, i)
  PROVE  IInv'
<1>0. /\ TypeOK /\ UNCHANGED <<status, pid, parent, children, PID2PCB, pids, pins, stranded>>
      /\ UNCHANGED <<treeVars, kstacks, exiting, panicked>> /\ Tids' = Tids
      /\ HasTcb(p, i) /\ At(p, i) = "user" /\ status[p] = "live"
      /\ tids' = [tids EXCEPT ![p] = dealloc(@, i)]
  BY DEF IInv, treeVars, leakVars, Tids, ThreadExits, Calls
<1>a. "exited" \in Points /\ "user" # "exited"
  BY DEF Points
<1>1. /\ tasks' \in [Procs -> Seq(TCBs \cup {NoTcb})]
      /\ \A q \in Procs : q # p => tasks'[q] = tasks[q]
      /\ \A q \in Procs, j \in Tids :
           /\ HasTcb(q, j)' <=> HasTcb(q, j)
           /\ HasTcb(q, j) =>
                /\ Kstack(q, j)' = Kstack(q, j)
                /\ At(q, j)' = IF q = p /\ j = i THEN "exited" ELSE At(q, j)
  BY Zenon, <1>0, <1>a, MoveFacts DEF ThreadExits
<1>2. i \in InUse(tids[p]) /\ AllocatorOK(tids[p])
  BY Zenon, <1>0, <1>a DEF IInv, TidsOwned, AllocatorsOK
<1>3. AllocatorOK(dealloc(tids[p], i)) /\ InUse(dealloc(tids[p], i)) = InUse(tids[p]) \ {i}
  BY <1>2, DeallocOne
<1>4. /\ tids'[p] = dealloc(tids[p], i) /\ tids' \in [Procs -> Allocators]
      /\ \A q \in Procs : q # p => tids'[q] = tids[q]
  BY <1>0, <1>3 DEF TypeOK, AllocatorOK
<1>5. TypeOK'
  BY Zenon, <1>0, <1>1, <1>4 DEF TypeOK
<1>6. AllocatorsOK'
  <2>1. \A q \in Procs : AllocatorOK(tids'[q])
    BY Zenon, <1>3, <1>4 DEF IInv, AllocatorsOK
  <2> QED
    BY Zenon, <1>0, <2>1 DEF IInv, AllocatorsOK
<1>7. Lives'
  BY Zenon, <1>0, <1>1 DEF IInv, Lives
<1>8. TidsOwned'
  <2>1. \A q \in Procs, j \in Tids :
          HasTcb(q, j)' /\ At(q, j)' # "exited"
            <=> HasTcb(q, j) /\ At(q, j) # "exited" /\ ~(q = p /\ j = i)
    BY Zenon, <1>1
  <2>2. ASSUME NEW q \in Procs, status[q] = "live"
        PROVE  InUse(tids'[q]) = {j \in Tids : HasTcb(q, j)' /\ At(q, j)' # "exited"}
    <3>1. InUse(tids[q]) = {j \in Tids : HasTcb(q, j) /\ At(q, j) # "exited"}
      BY Zenon, <2>2 DEF IInv, TidsOwned
    <3>2. CASE q = p
      BY Zenon, <1>3, <1>4, <2>1, <3>1, <3>2
    <3>3. CASE q # p
      BY Zenon, <1>4, <2>1, <3>1, <3>3
    <3> QED
      BY <3>2, <3>3
  <2> QED
    BY Zenon, <1>0, <2>2 DEF TidsOwned
<1> QED
  BY Zenon, <1>0, <1>1, <1>5, <1>6, <1>7, <1>8, TreeKept, KstacksKept DEF IInv

\* A thread that its process has removed is not one of the tree's, and the
\* vector keeps the others.
LEMMA sys_waittidIInv ==
  ASSUME IInv, NEW p \in Procs, NEW i \in Tids, NEW tid \in Tids, sys_waittid(p, i, tid)
  PROVE  IInv'
<1> DEFINE S == TCBs \cup {NoTcb}
           t == [tasks[p] EXCEPT ![tid + 1] = NoTcb]
           old == Kstack(p, tid)
           H(q, j) == HasTcb(q, j)'
           K(q, j) == Kstack(q, j)'
           A(q, j) == At(q, j)'
           Kept(q, j) == HasTcb(q, j) /\ ~(q = p /\ j = tid)
<1>0. /\ TypeOK /\ UNCHANGED <<status, pid, parent, children, PID2PCB, pids, pins, stranded>>
      /\ UNCHANGED <<treeVars, tids, exiting, panicked>> /\ Tids' = Tids
      /\ HasTcb(p, tid) /\ At(p, tid) = "exited" /\ status[p] = "live"
      /\ tasks' = [tasks EXCEPT ![p] = t]
      /\ kstacks' = dealloc(kstacks, old)
  BY DEF IInv, treeVars, leakVars, Tids, sys_waittid, Calls
<1>1. tasks \in [Procs -> Seq(S)] /\ tasks[p] \in Seq(S) /\ tid + 1 \in DOMAIN tasks[p]
  BY <1>0 DEF TypeOK, HasTcb
<1>2. /\ t \in Seq(S) /\ DOMAIN t = DOMAIN tasks[p] /\ t[tid + 1] = NoTcb
      /\ \A m \in DOMAIN tasks[p] : m # tid + 1 => t[m] = tasks[p][m]
  BY <1>1
<1> HIDE DEF t, S
<1>3. tasks' \in [Procs -> Seq(S)] /\ tasks'[p] = t /\ \A q \in Procs : q # p => tasks'[q] = tasks[q]
  BY <1>0, <1>1, <1>2
<1>4. ASSUME NEW q \in Procs, NEW j \in Tids
      PROVE  /\ H(q, j) <=> Kept(q, j)
             /\ Kept(q, j) => K(q, j) = Kstack(q, j) /\ A(q, j) = At(q, j)
  <2>1. CASE q # p
    BY Zenon, <1>3, <2>1 DEF HasTcb, Kstack, At
  <2>2. CASE q = p /\ j = tid
    BY <1>2, <1>3, <2>2 DEF HasTcb
  <2>3. CASE q = p /\ j # tid
    <3>1. j + 1 # tid + 1
      BY <2>3 DEF Tids
    <3> QED
      BY <1>2, <1>3, <2>3, <3>1 DEF HasTcb, Kstack, At
  <2> QED
    BY Zenon, <2>1, <2>2, <2>3
<1>5. old \in InUse(kstacks) /\ AllocatorOK(kstacks)
  BY Zenon, <1>0 DEF IInv, KstacksOwned, AllocatorsOK
<1>6. AllocatorOK(kstacks') /\ InUse(kstacks') = InUse(kstacks) \ {old}
  BY <1>0, <1>5, DeallocOne
<1>7. TypeOK'
  <2>1. kstacks' \in Allocators
    BY Zenon, <1>6 DEF AllocatorOK
  <2> QED
    BY Zenon, <1>0, <1>3, <2>1 DEF TypeOK, S
<1>8. AllocatorsOK'
  BY Zenon, <1>0, <1>6 DEF IInv, AllocatorsOK
<1>9. Lives'
  BY Zenon, <1>0, <1>3 DEF IInv, Lives
<1>10. TidsOwned'
  <2>1. \A q \in Procs, j \in Tids :
          H(q, j) /\ A(q, j) # "exited" <=> HasTcb(q, j) /\ At(q, j) # "exited"
    BY Zenon, <1>0, <1>4
  <2> QED
    BY Zenon, <1>0, <2>1 DEF IInv, TidsOwned
<1>11. KstacksOwned'
  <2> DEFINE new == InUse(kstacks')
  <2> HIDE DEF H, K, new
  <2>1. /\ \A q \in Procs, j \in Tids : HasTcb(q, j) => Kstack(q, j) \in InUse(kstacks)
        /\ \A e \in stranded : e[2] \in InUse(kstacks)
        /\ \A m \in InUse(kstacks) :
             \/ \E q \in Procs, j \in Tids : HasTcb(q, j) /\ m = Kstack(q, j)
             \/ \E e \in stranded : m = e[2]
        /\ \A q, r \in Procs, m, n \in Tids :
             HasTcb(q, m) /\ HasTcb(r, n) /\ Kstack(q, m) = Kstack(r, n) => q = r /\ m = n
        /\ \A e, f \in stranded : e[2] = f[2] => e = f
        /\ \A q \in Procs, j \in Tids, f \in stranded : HasTcb(q, j) => Kstack(q, j) # f[2]
    BY Zenon DEF IInv, KstacksOwned
  <2>2. new = InUse(kstacks) \ {old}
    BY <1>6 DEF new
  <2>3. \A q \in Procs, j \in Tids : H(q, j) => K(q, j) \in new
    BY <1>0, <1>4, <2>1, <2>2
  <2>4. \A e \in stranded : e[2] \in new
    BY <1>0, <2>1, <2>2
  <2>5. \A m \in new :
          \/ \E q \in Procs, j \in Tids : H(q, j) /\ m = K(q, j)
          \/ \E e \in stranded : m = e[2]
    BY <1>4, <2>1, <2>2
  <2>6. \A q, r \in Procs, m, n \in Tids :
          H(q, m) /\ H(r, n) /\ K(q, m) = K(r, n) => q = r /\ m = n
    BY <1>4, <2>1
  <2>7. \A q \in Procs, j \in Tids, f \in stranded : H(q, j) => K(q, j) # f[2]
    BY <1>4, <2>1
  <2>8. \A e, f \in stranded : e[2] = f[2] => e = f
    BY Zenon, <2>1
  <2> QED
    BY Zenon, <1>0, <2>3, <2>4, <2>5, <2>6, <2>7, <2>8 DEF KstacksOwned, H, K, new
<1> QED
  BY Zenon, <1>0, <1>7, <1>8, <1>9, <1>10, <1>11, TreeKept DEF IInv

\* A new thread's tid is that of no running thread, so the TCB it may overwrite is
\* that of an exited one.
LEMMA sys_thread_createIInv ==
  ASSUME IInv, NEW p \in Procs, NEW i \in Tids, sys_thread_create(p, i)
  PROVE  IInv'
<1>a. /\ AllocatorOK(tids[p]) /\ AllocatorOK(kstacks)
      /\ NextId(tids[p]) \in Nat /\ NextId(kstacks) \in Nat
  BY Zenon, AllocFacts DEF IInv, AllocatorsOK
<1>b. PICK tid \in Nat : tid = NextId(tids[p])
  BY Zenon, <1>a
<1>c. PICK k \in Nat : k = NextId(kstacks)
  BY Zenon, <1>a
<1> DEFINE S == TCBs \cup {NoTcb}
           after == alloc(kstacks)
           t == [PadTo(tasks[p], tid + 1) EXCEPT ![tid + 1] = Tcb(k)]
           H(q, j) == HasTcb(q, j)'
           K(q, j) == Kstack(q, j)'
           A(q, j) == At(q, j)'
<1>0. /\ TypeOK /\ UNCHANGED <<status, pid, parent, children, PID2PCB, pids, pins, stranded>>
      /\ UNCHANGED <<treeVars, exiting, panicked>> /\ Tids' = Tids
      /\ status[p] = "live" /\ tid <= MaxTid
      /\ tids' = [tids EXCEPT ![p] = alloc(tids[p])]
      /\ tasks' = [tasks EXCEPT ![p] = t]
      /\ kstacks' = IF HasTcb(p, tid) THEN dealloc(after, Kstack(p, tid)) ELSE after
  BY <1>b, <1>c DEF IInv, treeVars, leakVars, Tids, sys_thread_create, Calls
<1>1. /\ tid \notin InUse(tids[p])
      /\ AllocatorOK(alloc(tids[p])) /\ InUse(alloc(tids[p])) = InUse(tids[p]) \cup {tid}
      /\ k \notin InUse(kstacks)
      /\ AllocatorOK(after) /\ InUse(after) = InUse(kstacks) \cup {k}
  BY Zenon, <1>a, <1>b, <1>c, AllocFacts
<1> HIDE DEF after
<1>2. tid \in Tids
  BY <1>0, <1>1, ProcessAssumption DEF Tids
<1>3. HasTcb(p, tid) => At(p, tid) = "exited" /\ Kstack(p, tid) \in InUse(kstacks)
  <2>1. InUse(tids[p]) = {j \in Tids : HasTcb(p, j) /\ At(p, j) # "exited"}
    BY Zenon, <1>0 DEF IInv, TidsOwned
  <2>2. HasTcb(p, tid) => Kstack(p, tid) \in InUse(kstacks)
    BY Zenon, <1>2 DEF IInv, KstacksOwned
  <2> QED
    BY Zenon, <1>1, <1>2, <2>1, <2>2
<1>4. /\ AllocatorOK(kstacks')
      /\ InUse(kstacks') = (InUse(kstacks) \cup {k})
                             \ (IF HasTcb(p, tid) THEN {Kstack(p, tid)} ELSE {})
  <2>1. CASE HasTcb(p, tid)
    BY <1>0, <1>1, <1>3, <2>1, DeallocOne
  <2>2. CASE ~HasTcb(p, tid)
    BY <1>0, <1>1, <2>2
  <2> QED
    BY <2>1, <2>2
<1>5. /\ tids'[p] = alloc(tids[p]) /\ tids' \in [Procs -> Allocators]
      /\ \A q \in Procs : q # p => tids'[q] = tids[q]
  BY <1>0, <1>1 DEF TypeOK, AllocatorOK
<1>6. Tcb(k) \in TCBs /\ Tcb(k).kstack = k /\ Tcb(k).at = "user" /\ Tcb(k) # NoTcb
  BY <1>1, ProcessAssumption DEF Tcb, TCBs, Points
<1>7. tasks \in [Procs -> Seq(S)] /\ tasks[p] \in Seq(S) /\ tid + 1 \in Nat \ {0}
  BY <1>0, <1>1 DEF TypeOK
<1>8. /\ t \in Seq(S)
      /\ tid + 1 \in DOMAIN t /\ t[tid + 1] = Tcb(k)
      /\ \A m \in Nat : m # tid + 1 =>
           /\ m \in DOMAIN t /\ t[m] # NoTcb <=> m \in DOMAIN tasks[p] /\ tasks[p][m] # NoTcb
           /\ m \in DOMAIN tasks[p] => t[m] = tasks[p][m]
  BY Zenon, <1>6, <1>7, PadFacts
<1> HIDE DEF t, S
<1>9. tasks' \in [Procs -> Seq(S)] /\ tasks'[p] = t /\ \A q \in Procs : q # p => tasks'[q] = tasks[q]
  BY <1>0, <1>7, <1>8
<1>10. H(p, tid) /\ K(p, tid) = k /\ A(p, tid) = "user"
  BY <1>6, <1>8, <1>9 DEF HasTcb, Kstack, At
<1>11. ASSUME NEW q \in Procs, NEW j \in Tids, ~(q = p /\ j = tid)
       PROVE  /\ H(q, j) <=> HasTcb(q, j)
              /\ HasTcb(q, j) => K(q, j) = Kstack(q, j) /\ A(q, j) = At(q, j)
  <2>1. CASE q # p
    BY Zenon, <1>9, <2>1 DEF HasTcb, Kstack, At
  <2>2. CASE q = p /\ j # tid
    <3>1. j + 1 # tid + 1 /\ j + 1 \in Nat
      BY <1>2, <2>2 DEF Tids
    <3> QED
      BY <1>8, <1>9, <2>2, <3>1 DEF HasTcb, Kstack, At
  <2> QED
    BY Zenon, <1>11, <2>1, <2>2
<1>12. TypeOK'
  <2>1. kstacks' \in Allocators
    BY Zenon, <1>4 DEF AllocatorOK
  <2> QED
    BY Zenon, <1>0, <1>5, <1>9, <2>1 DEF TypeOK, S
<1>13. AllocatorsOK'
  <2>1. \A q \in Procs : AllocatorOK(tids'[q])
    BY Zenon, <1>1, <1>5 DEF IInv, AllocatorsOK
  <2> QED
    BY Zenon, <1>0, <1>4, <2>1 DEF IInv, AllocatorsOK
<1>14. Lives'
  BY Zenon, <1>0, <1>9 DEF IInv, Lives
<1>15. TidsOwned'
  <2>1. "user" # "exited"
    OBVIOUS
  <2>2. ASSUME NEW q \in Procs, status[q] = "live"
        PROVE  InUse(tids'[q]) = {j \in Tids : H(q, j) /\ A(q, j) # "exited"}
    <3>1. InUse(tids[q]) = {j \in Tids : HasTcb(q, j) /\ At(q, j) # "exited"}
      BY Zenon, <2>2 DEF IInv, TidsOwned
    <3> HIDE DEF H, K, A
    <3>2. CASE q = p
      <4>1. InUse(tids'[p]) = {j \in Tids : HasTcb(p, j) /\ At(p, j) # "exited"} \cup {tid}
        BY Zenon, <1>1, <1>5, <3>1, <3>2
      <4>2. ASSUME NEW j \in Tids
            PROVE  H(p, j) /\ A(p, j) # "exited"
                     <=> (HasTcb(p, j) /\ At(p, j) # "exited") \/ j = tid
        <5>1. CASE j = tid
          BY Zenon, <1>10, <2>1, <5>1
        <5>2. CASE j # tid
          BY Zenon, <1>11, <5>2
        <5> QED
          BY <5>1, <5>2
      <4> QED
        BY <1>2, <3>2, <4>1, <4>2
    <3>3. CASE q # p
      BY Zenon, <1>5, <1>11, <3>1, <3>3
    <3> QED
      BY <3>2, <3>3
  <2> QED
    BY Zenon, <1>0, <2>2 DEF TidsOwned
<1>16. KstacksOwned'
  BY <1>0, <1>1, <1>2, <1>4, <1>10, <1>11, KstackGiven
<1> QED
  BY Zenon, <1>0, <1>12, <1>13, <1>14, <1>15, <1>16, TreeKept DEF IInv

-----------------------------------------------------------------------------
(* The steps of the processes                                              *)

\* Two facts that hold in every state: only INITPROC and its descendants are in
\* the lists, and a process that is not allocated is in none and has none.
LEMMA TreeFacts ==
  ASSUME IInv, ~panicked, NEW c \in Procs, status[c] # "live"
  PROVE  /\ c # InitProc /\ Range(children[c]) = {} /\ children[c] = <<>>
         /\ \A j \in Tids : ~HasTcb(c, j)
         /\ status[c] = "none" => \A q \in Procs : c \notin Range(children[q])
<1>1. TypeOK /\ Tree /\ Lives
  BY DEF IInv
<1>2. c # InitProc /\ tasks[c] = <<>>
  BY <1>1 DEF Lives
<1>3. children[c] \in Seq(Procs) /\ Range(children[c]) \subseteq Procs
  BY <1>1, QueueEmptyRange DEF TypeOK
<1>4. ASSUME NEW d \in Range(children[c]) PROVE FALSE
  <2>1. d \in Procs /\ d # InitProc /\ status[d] # "none" /\ parent[d] = c
    BY Zenon, <1>1, <1>3, <1>4 DEF Tree
  <2>2. status[parent[d]] = "live"
    BY Zenon, <1>1, <2>1 DEF Tree
  <2> QED
    BY Zenon, <2>1, <2>2
<1>5. Range(children[c]) = {} /\ children[c] = <<>>
  BY <1>3, <1>4, QueueEmptyRange
<1>6. \A j \in Tids : ~HasTcb(c, j)
  BY <1>2 DEF HasTcb
<1> QED
  BY Zenon, <1>1, <1>2, <1>5, <1>6 DEF Tree

LEMMA forkIInv ==
  ASSUME IInv, NEW p \in Procs, NEW i \in Tids, NEW c \in Procs, fork(p, i, c)
  PROVE  IInv'
<1>a. AllocatorOK(pids) /\ AllocatorOK(kstacks) /\ NextId(pids) \in Nat /\ NextId(kstacks) \in Nat
  BY Zenon, AllocFacts DEF IInv, AllocatorsOK
<1>b. PICK n \in Nat : n = NextId(pids)
  BY Zenon, <1>a
<1>c. PICK k \in Nat : k = NextId(kstacks)
  BY Zenon, <1>a
<1>0. /\ TypeOK /\ Tree /\ Lives /\ PidsOwned /\ ~panicked
      /\ status[p] = "live" /\ status[c] = "none"
      /\ status' = [status EXCEPT ![c] = "live"]
      /\ pid' = [pid EXCEPT ![c] = n]
      /\ pids' = alloc(pids)
      /\ parent' = [parent EXCEPT ![c] = p]
      /\ children' = [children EXCEPT ![p] = Append(children[p], c), ![c] = <<>>]
      /\ PID2PCB' = PID2PCB \cup {c}
      /\ tids' = [tids EXCEPT ![c] = alloc(NewAllocator)]
      /\ tasks' = [tasks EXCEPT ![c] = <<Tcb(k)>>]
      /\ kstacks' = alloc(kstacks)
      /\ UNCHANGED <<pins, stranded, exiting, panicked>> /\ Tids' = Tids
  <2>1. c # p
    BY DEF fork, Calls
  <2> QED
    BY <1>b, <1>c, <2>1 DEF IInv, fork, Calls, leakVars, Tids
<1>1. /\ n \notin InUse(pids) /\ AllocatorOK(pids') /\ InUse(pids') = InUse(pids) \cup {n}
      /\ k \notin InUse(kstacks) /\ AllocatorOK(kstacks')
      /\ InUse(kstacks') = InUse(kstacks) \cup {k}
  BY Zenon, <1>0, <1>a, <1>b, <1>c, AllocFacts
<1>2. /\ c # InitProc /\ c # p /\ children[c] = <<>> /\ \A j \in Tids : ~HasTcb(c, j)
      /\ \A q \in Procs : c \notin Range(children[q])
  <2>1. "none" # "live"
    OBVIOUS
  <2> QED
    BY Zenon, <1>0, <2>1, TreeFacts
<1>3. /\ status' \in [Procs -> {"none", "live", "zombie"}] /\ status'[c] = "live"
      /\ \A q \in Procs : q # c => status'[q] = status[q]
  BY <1>0 DEF TypeOK
<1>4. /\ pid' \in [Procs -> Nat] /\ pid'[c] = n
      /\ \A q \in Procs : q # c => pid'[q] = pid[q]
  BY <1>0 DEF TypeOK
<1>5. /\ parent' \in [Procs -> Procs \cup {NoProc}] /\ parent'[c] = p
      /\ \A q \in Procs : q # c => parent'[q] = parent[q]
  BY <1>0 DEF TypeOK
<1>6. /\ children' \in [Procs -> Seq(Procs)]
      /\ children'[p] = Append(children[p], c)
      /\ \A q \in Procs : q # p => children'[q] = children[q]
  <2>1. children \in [Procs -> Seq(Procs)] /\ Append(children[p], c) \in Seq(Procs)
    BY <1>0, QueuePush DEF TypeOK
  <2>2. children' = [children EXCEPT ![p] = Append(children[p], c)]
    BY <1>0, <1>2, <2>1
  <2> QED
    BY <2>1, <2>2
<1>7. /\ tids' \in [Procs -> Allocators] /\ tids'[c] = alloc(NewAllocator)
      /\ \A q \in Procs : q # c => tids'[q] = tids[q]
  BY <1>0, NewAllocatorFacts DEF TypeOK, AllocatorOK
<1>8. Tcb(k) \in TCBs /\ Tcb(k).kstack = k /\ Tcb(k).at = "user" /\ Tcb(k) # NoTcb
  BY ProcessAssumption DEF Tcb, TCBs, Points
<1>9. /\ tasks' \in [Procs -> Seq(TCBs \cup {NoTcb})] /\ tasks'[c] = <<Tcb(k)>>
      /\ \A q \in Procs : q # c => tasks'[q] = tasks[q]
  BY <1>0, <1>8 DEF TypeOK
<1>10. TypeOK'
  BY Zenon, <1>0, <1>1, <1>3, <1>4, <1>5, <1>6, <1>7, <1>9 DEF TypeOK, AllocatorOK
<1>11. AllocatorsOK'
  <2>1. \A q \in Procs : AllocatorOK(tids'[q])
    BY Zenon, <1>7, NewAllocatorFacts DEF IInv, AllocatorsOK
  <2> QED
    BY Zenon, <1>1, <2>1 DEF AllocatorsOK
<1>12. Lives'
  BY Zenon, <1>0, <1>2, <1>3, <1>9, ProcessAssumption DEF Lives
<1>13. Tree'
  <2>1. Range(children'[p]) = Range(children[p]) \cup {c} /\ IsInjective(children'[p])
    <3>1. children[p] \in Seq(Procs) /\ IsInjective(children[p]) /\ c \notin Range(children[p])
      BY Zenon, <1>0, <1>2 DEF TypeOK, Tree
    <3> QED
      BY <1>6, <3>1, QueuePush
  <2>2. \A q \in Procs : IsInjective(children'[q])
    BY Zenon, <1>0, <1>6, <2>1 DEF Tree
  <2>3. "live" # "none"
    OBVIOUS
  <2>4. ASSUME NEW d \in Procs, NEW q \in Procs
        PROVE  d \in Range(children'[q]) <=> d # InitProc /\ status'[d] # "none" /\ parent'[d] = q
    <3>1. CASE d = c
      BY Zenon, <1>2, <1>3, <1>5, <1>6, <2>1, <2>3, <3>1
    <3>2. CASE d # c
      <4>1. d \in Range(children'[q]) <=> d \in Range(children[q])
        BY Zenon, <1>6, <2>1, <3>2
      <4>2. d \in Range(children[q]) <=> d # InitProc /\ status[d] # "none" /\ parent[d] = q
        BY Zenon, <1>0 DEF Tree
      <4> QED
        BY Zenon, <1>3, <1>5, <3>2, <4>1, <4>2
    <3> QED
      BY <3>1, <3>2
  <2>5. ASSUME NEW d \in Procs \ {InitProc}, status'[d] # "none"
        PROVE  parent'[d] # NoProc /\ status'[parent'[d]] = "live"
    <3>1. CASE d = c
      BY Zenon, <1>0, <1>2, <1>3, <1>5, <3>1, ProcessAssumption
    <3>2. CASE d # c
      <4>1. parent[d] # NoProc /\ status[parent[d]] = "live" /\ parent'[d] = parent[d]
        BY Zenon, <1>0, <1>3, <1>5, <2>5, <3>2 DEF Tree
      <4>2. parent[d] \in Procs
        BY <1>0, <4>1 DEF TypeOK
      <4> QED
        BY Zenon, <1>3, <4>1, <4>2
    <3> QED
      BY <3>1, <3>2
  <2> QED
    BY Zenon, <2>2, <2>4, <2>5 DEF Tree
<1>14. PidsOwned'
  <2>1. ASSUME NEW q \in Procs, status'[q] # "none" PROVE pid'[q] \in InUse(pids')
    BY Zenon, <1>0, <1>1, <1>3, <1>4, <2>1 DEF PidsOwned
  <2>2. ASSUME NEW m \in InUse(pids') PROVE \E q \in Procs : status'[q] # "none" /\ m = pid'[q]
    <3>1. CASE m = n
      BY <1>3, <1>4, <3>1
    <3>2. CASE m # n
      BY <1>0, <1>1, <1>3, <1>4, <2>2, <3>2 DEF PidsOwned
    <3> QED
      BY <3>1, <3>2
  <2>3. ASSUME NEW q \in Procs, NEW r \in Procs,
               status'[q] # "none", status'[r] # "none", pid'[q] = pid'[r]
        PROVE  q = r
    BY <1>0, <1>1, <1>3, <1>4, <2>3 DEF PidsOwned
  <2> QED
    BY Zenon, <2>1, <2>2, <2>3 DEF PidsOwned
<1>15. 0 \in Tids /\ HasTcb(c, 0)' /\ Kstack(c, 0)' = k /\ At(c, 0)' = "user"
  BY <1>8, <1>9, ProcessAssumption DEF Tids, HasTcb, Kstack, At
<1>16. ASSUME NEW q \in Procs, NEW j \in Tids, ~(q = c /\ j = 0)
       PROVE  /\ HasTcb(q, j)' <=> HasTcb(q, j)
              /\ HasTcb(q, j) => Kstack(q, j)' = Kstack(q, j) /\ At(q, j)' = At(q, j)
  <2>1. CASE q # c
    BY Zenon, <1>9, <2>1 DEF HasTcb, Kstack, At
  <2>2. CASE q = c /\ j # 0
    <3>1. j + 1 \notin DOMAIN tasks'[q]
      BY <1>9, <2>2 DEF Tids
    <3> QED
      BY Zenon, <1>2, <2>2, <3>1 DEF HasTcb
  <2> QED
    BY Zenon, <1>16, <2>1, <2>2
<1>17. KstacksOwned'
  <2>1. InUse(kstacks') = (InUse(kstacks) \cup {k}) \ (IF HasTcb(c, 0) THEN {Kstack(c, 0)} ELSE {})
    BY <1>1, <1>2, <1>15
  <2> QED
    BY <1>0, <1>1, <1>15, <1>16, <2>1, KstackGiven
<1>18. TidsOwned'
  <2>1. "user" # "exited"
    OBVIOUS
  <2>2. ASSUME NEW q \in Procs, status'[q] = "live"
        PROVE  InUse(tids'[q]) = {j \in Tids : HasTcb(q, j)' /\ At(q, j)' # "exited"}
    <3>1. CASE q = c
      <4>1. InUse(tids'[c]) = {0}
        BY Zenon, <1>7, NewAllocatorFacts
      <4>2. \A j \in Tids : HasTcb(c, j)' /\ At(c, j)' # "exited" <=> j = 0
        BY Zenon, <1>2, <1>15, <1>16, <2>1
      <4> QED
        BY Zenon, <1>15, <3>1, <4>1, <4>2
    <3>2. CASE q # c
      <4>1. InUse(tids[q]) = {j \in Tids : HasTcb(q, j) /\ At(q, j) # "exited"}
        BY Zenon, <1>3, <2>2, <3>2 DEF IInv, TidsOwned
      <4>2. \A j \in Tids : HasTcb(q, j)' /\ At(q, j)' # "exited"
                              <=> HasTcb(q, j) /\ At(q, j) # "exited"
        BY Zenon, <1>16, <3>2
      <4> QED
        BY Zenon, <1>7, <3>2, <4>1, <4>2
    <3> QED
      BY <3>1, <3>2
  <2> QED
    BY Zenon, <1>0, <2>2 DEF TidsOwned
<1>19. Listed' /\ PanicIsLeftArc'
  <2>1. "none" # "zombie"
    OBVIOUS
  <2>2. Listed'
    BY Zenon, <1>0, <1>3 DEF IInv, Listed
  <2>3. PanicIsLeftArc'
    BY Zenon, <1>0, <1>3, <2>1 DEF IInv, PanicIsLeftArc
  <2> QED
    BY <2>2, <2>3
<1> QED
  BY Zenon, <1>10, <1>11, <1>12, <1>13, <1>14, <1>17, <1>18, <1>19 DEF IInv

\* The children of a process that exits, after those that INITPROC has.
LEMMA ReparentTree ==
  ASSUME TypeOK, Tree, Lives, NEW p \in Procs, p # InitProc, status[p] = "live", Reparent(p),
         status' = [status EXCEPT ![p] = "zombie"]
  PROVE  /\ Tree' /\ parent' \in [Procs -> Procs \cup {NoProc}]
         /\ children' \in [Procs -> Seq(Procs)]
<1> DEFINE s == children[p]
           l == children[InitProc]
<1>0. InitProc \in Procs /\ NoProc \notin Procs
  BY ProcessAssumption
<1>1. /\ s \in Seq(Procs) /\ l \in Seq(Procs) /\ IsInjective(s) /\ IsInjective(l)
      /\ children \in [Procs -> Seq(Procs)]
  BY <1>0 DEF TypeOK, Tree
<1>2. \A c \in Procs :
        /\ c \in Range(s) <=> c # InitProc /\ status[c] # "none" /\ parent[c] = p
        /\ c \in Range(l) <=> c # InitProc /\ status[c] # "none" /\ parent[c] = InitProc
  BY Zenon, <1>0 DEF Tree
<1>3. Range(s) \subseteq Procs /\ Range(l) \subseteq Procs
  BY <1>1, QueueEmptyRange
<1>4. Range(l) \cap Range(s) = {}
  BY <1>2, <1>3
<1>5. l \o s \in Seq(Procs) /\ Range(l \o s) = Range(l) \cup Range(s) /\ IsInjective(l \o s)
  BY <1>1, <1>4, QueueConcat
<1>6. <<>> \in Seq(Procs) /\ Range(<<>>) = {} /\ IsInjective(<<>>)
  BY <1>0, QueueEmpty
<1>7. children' = [[children EXCEPT ![InitProc] = l \o s] EXCEPT ![p] = <<>>]
  BY DEF Reparent
<1>8. /\ children' \in [Procs -> Seq(Procs)]
      /\ children'[InitProc] = l \o s /\ children'[p] = <<>>
      /\ \A q \in Procs : q # InitProc /\ q # p => children'[q] = children[q]
  BY <1>0, <1>1, <1>5, <1>6, <1>7
<1>9. /\ parent' \in [Procs -> Procs \cup {NoProc}]
      /\ \A c \in Procs : c \in Range(s) => parent'[c] = InitProc
      /\ \A c \in Procs : c \notin Range(s) => parent'[c] = parent[c]
  BY <1>0 DEF Reparent, TypeOK
<1>10. /\ status'[p] = "zombie" /\ \A q \in Procs : q # p => status'[q] = status[q]
       /\ \A q \in Procs : status'[q] # "none" <=> status[q] # "none"
  BY DEF TypeOK
<1> HIDE DEF s, l
<1>11. \A q \in Procs : IsInjective(children'[q])
  BY Zenon, <1>5, <1>6, <1>8 DEF Tree
<1>12. ASSUME NEW c \in Procs, NEW q \in Procs
       PROVE  c \in Range(children'[q]) <=> c # InitProc /\ status'[c] # "none" /\ parent'[c] = q
  <2>1. c \in Range(children[q]) <=> c # InitProc /\ status[c] # "none" /\ parent[c] = q
    BY Zenon DEF Tree
  <2>2. CASE q = InitProc
    BY Zenon, <1>2, <1>5, <1>8, <1>9, <1>10, <2>2
  <2>3. CASE q = p
    <3>1. c \notin Range(children'[p])
      BY Zenon, <1>6, <1>8
    <3>2. ASSUME c # InitProc, status'[c] # "none", parent'[c] = p PROVE FALSE
      <4>1. c \in Range(s)
        BY Zenon, <1>2, <1>9, <1>10, <3>2
      <4> QED
        BY Zenon, <1>9, <3>2, <4>1
    <3> QED
      BY Zenon, <2>3, <3>1, <3>2
  <2>4. CASE q # InitProc /\ q # p
    BY Zenon, <1>2, <1>8, <1>9, <1>10, <2>1, <2>4
  <2> QED
    BY Zenon, <2>2, <2>3, <2>4
<1>13. ASSUME NEW c \in Procs \ {InitProc}, status'[c] # "none"
       PROVE  parent'[c] # NoProc /\ status'[parent'[c]] = "live"
  <2>1. status[c] # "none" /\ parent[c] # NoProc /\ status[parent[c]] = "live"
    BY Zenon, <1>10, <1>13 DEF Tree
  <2>2. parent[c] \in Procs
    BY <2>1 DEF TypeOK
  <2>3. CASE c \in Range(s)
    <3>1. status'[InitProc] = "live"
      BY Zenon, <1>0, <1>10 DEF Lives
    <3> QED
      BY Zenon, <1>0, <1>9, <2>3, <3>1
  <2>4. CASE c \notin Range(s)
    BY Zenon, <1>2, <1>9, <1>10, <2>1, <2>2, <2>4
  <2> QED
    BY <2>3, <2>4
<1> QED
  BY Zenon, <1>8, <1>9, <1>11, <1>12, <1>13 DEF Tree

\* The kernel stacks that an exit frees are those of the threads it drops, each
\* of them once.
LEMMA FreedStacks ==
  ASSUME IInv, NEW p \in Procs,
         NEW order \in Bijection(1..Cardinality(Dropped(p)), Dropped(p)),
         kstacks' = [kstacks EXCEPT !.recycled =
                       @ \o [k \in DOMAIN order |-> Kstack(p, order[k])]]
  PROVE  /\ AllocatorOK(kstacks')
         /\ InUse(kstacks') = InUse(kstacks) \ {Kstack(p, i) : i \in Dropped(p)}
<1> DEFINE n == Cardinality(Dropped(p))
           freed == [k \in DOMAIN order |-> Kstack(p, order[k])]
<1>1. n \in Nat
  <2>1. IsFiniteSet(Tids)
    <3>1. 0 \in Int /\ MaxTid \in Int
      BY ProcessAssumption
    <3> QED
      BY Zenon, <3>1, FS_Interval DEF Tids
  <2>2. IsFiniteSet(Dropped(p))
    BY <2>1, FS_Subset DEF Dropped
  <2> QED
    BY <2>2, FS_CardinalityType
<1> HIDE DEF n
<1>2. /\ DOMAIN order = 1..n /\ \A k \in 1..n : order[k] \in Dropped(p)
      /\ \A j, k \in 1..n : order[j] = order[k] => j = k
      /\ \A i \in Dropped(p) : \E k \in 1..n : order[k] = i
  BY DEF n, Bijection, Injection, Surjection, IsInjective
<1>3. \A i \in Dropped(p) : i \in Tids /\ HasTcb(p, i)
  BY DEF Dropped
<1>4. \A i \in Dropped(p) : Kstack(p, i) \in Nat /\ Kstack(p, i) \in InUse(kstacks)
  <2>1. TypeOK
    BY DEF IInv
  <2> QED
    BY Zenon, <1>3, <2>1, ThreadTypes DEF IInv, KstacksOwned
<1>5. freed \in Seq(Nat) /\ DOMAIN freed = 1..n /\ \A k \in 1..n : freed[k] = Kstack(p, order[k])
  BY <1>1, <1>2, <1>4
<1> HIDE DEF freed
<1>6. IsInjective(freed)
  <2>1. ASSUME NEW j \in 1..n, NEW k \in 1..n, freed[j] = freed[k] PROVE j = k
    <3>1. order[j] \in Tids /\ order[k] \in Tids /\ HasTcb(p, order[j]) /\ HasTcb(p, order[k])
      BY Zenon, <1>2, <1>3
    <3>2. Kstack(p, order[j]) = Kstack(p, order[k])
      BY Zenon, <1>5, <2>1
    <3>3. order[j] = order[k]
      BY Zenon, <3>1, <3>2 DEF IInv, KstacksOwned
    <3> QED
      BY Zenon, <1>2, <3>3
  <2> QED
    BY <1>5, <2>1 DEF IsInjective
<1>7. Range(freed) = {Kstack(p, i) : i \in Dropped(p)}
  BY <1>2, <1>5 DEF Range
<1>8. Range(freed) \subseteq InUse(kstacks) /\ AllocatorOK(kstacks)
  BY Zenon, <1>4, <1>7 DEF IInv, AllocatorsOK
<1>9. kstacks' = [kstacks EXCEPT !.recycled = @ \o freed]
  BY DEF freed
<1> QED
  BY <1>5, <1>6, <1>7, <1>8, <1>9, DeallocFacts

\* The kernel stacks of the threads that an exit drops are free, those of the
\* blocked ones are stranded.
LEMMA ExitKstacks ==
  ASSUME IInv, NEW p \in Procs,
         \A q \in Procs, j \in Tids :
           /\ HasTcb(q, j)' <=> HasTcb(q, j) /\ q # p
           /\ q # p => Kstack(q, j)' = Kstack(q, j),
         stranded' = stranded \cup StrandedBy(p),
         InUse(kstacks') = InUse(kstacks) \ {Kstack(p, i) : i \in Dropped(p)}
  PROVE  KstacksOwned'
<1> DEFINE H(q, j) == HasTcb(q, j)'
           K(q, j) == Kstack(q, j)'
           new == InUse(kstacks')
           left == StrandedBy(p)
<1>1. /\ \A q \in Procs, j \in Tids : H(q, j) <=> HasTcb(q, j) /\ q # p
      /\ \A q \in Procs, j \in Tids : q # p => K(q, j) = Kstack(q, j)
      /\ Tids' = Tids /\ stranded' = stranded \cup left
      /\ new = InUse(kstacks) \ {Kstack(p, i) : i \in Dropped(p)}
  BY DEF Tids
<1>2. \A i \in Tids : HasTcb(p, i) => (i \in Dropped(p) <=> At(p, i) \notin Blocked)
  BY DEF Dropped
<1>3. \A i \in Dropped(p) : i \in Tids /\ HasTcb(p, i)
  BY DEF Dropped
<1>4. /\ \A e \in left : \E i \in Tids : HasTcb(p, i) /\ i \notin Dropped(p) /\ e = <<p, Kstack(p, i)>>
      /\ \A i \in Tids : HasTcb(p, i) /\ i \notin Dropped(p) => <<p, Kstack(p, i)>> \in left
  BY <1>2 DEF StrandedBy
<1> HIDE DEF H, K, new, left
<1>5. /\ \A q \in Procs, j \in Tids : HasTcb(q, j) => Kstack(q, j) \in InUse(kstacks)
      /\ \A e \in stranded : e[2] \in InUse(kstacks)
      /\ \A m \in InUse(kstacks) :
           \/ \E q \in Procs, j \in Tids : HasTcb(q, j) /\ m = Kstack(q, j)
           \/ \E e \in stranded : m = e[2]
      /\ \A q, r \in Procs, m, n \in Tids :
           HasTcb(q, m) /\ HasTcb(r, n) /\ Kstack(q, m) = Kstack(r, n) => q = r /\ m = n
      /\ \A e, f \in stranded : e[2] = f[2] => e = f
      /\ \A q \in Procs, j \in Tids, f \in stranded : HasTcb(q, j) => Kstack(q, j) # f[2]
  BY Zenon DEF IInv, KstacksOwned
<1>6. ASSUME NEW e \in left
      PROVE  \E i \in Tids : HasTcb(p, i) /\ i \notin Dropped(p) /\ e[2] = Kstack(p, i)
                               /\ e = <<p, Kstack(p, i)>>
  BY <1>4, <1>6
<1>7. ASSUME NEW q \in Procs, NEW j \in Tids, HasTcb(q, j), q # p \/ j \notin Dropped(p)
      PROVE  Kstack(q, j) \in new
  BY <1>1, <1>3, <1>5, <1>7
<1>8. ASSUME NEW q \in Procs, NEW j \in Tids, H(q, j) PROVE K(q, j) \in new
  BY Zenon, <1>1, <1>7, <1>8
<1>9. ASSUME NEW e \in stranded \cup left PROVE e[2] \in new
  <2>1. CASE e \in left
    BY Zenon, <1>6, <1>7, <2>1
  <2>2. CASE e \in stranded
    BY <1>1, <1>3, <1>5, <2>2
  <2> QED
    BY Zenon, <1>9, <2>1, <2>2
<1>10. ASSUME NEW m \in new
       PROVE  \/ \E q \in Procs, j \in Tids : H(q, j) /\ m = K(q, j)
              \/ \E e \in stranded \cup left : m = e[2]
  <2>1. m \in InUse(kstacks)
    BY <1>1, <1>10
  <2>2. CASE \E e \in stranded : m = e[2]
    BY Zenon, <2>2
  <2>3. ASSUME NEW q \in Procs, NEW j \in Tids, HasTcb(q, j), m = Kstack(q, j)
        PROVE  \/ \E r \in Procs, n \in Tids : H(r, n) /\ m = K(r, n)
               \/ \E e \in stranded \cup left : m = e[2]
    <3>1. CASE q # p
      BY Zenon, <1>1, <2>3, <3>1
    <3>2. CASE q = p
      <4>1. j \notin Dropped(p)
        BY <1>1, <1>10, <2>3, <3>2
      <4>2. <<p, Kstack(p, j)>> \in left /\ <<p, Kstack(p, j)>>[2] = m
        BY <1>4, <2>3, <3>2, <4>1
      <4> QED
        BY Zenon, <4>2
    <3> QED
      BY <3>1, <3>2
  <2> QED
    BY Zenon, <1>5, <2>1, <2>2, <2>3
<1>11. ASSUME NEW q \in Procs, NEW r \in Procs, NEW m \in Tids, NEW n \in Tids,
              H(q, m), H(r, n), K(q, m) = K(r, n)
       PROVE  q = r /\ m = n
  BY <1>1, <1>5, <1>11
<1>12. ASSUME NEW e \in stranded \cup left, NEW f \in stranded \cup left, e[2] = f[2]
       PROVE  e = f
  <2>1. CASE e \in stranded /\ f \in stranded
    BY Zenon, <1>5, <1>12, <2>1
  <2>2. CASE e \in left /\ f \in left
    BY <1>5, <1>6, <1>12, <2>2
  <2>3. CASE e \in left /\ f \in stranded
    BY <1>5, <1>6, <1>12, <2>3
  <2>4. CASE e \in stranded /\ f \in left
    <3>1. PICK i \in Tids : HasTcb(p, i) /\ f[2] = Kstack(p, i)
      BY Zenon, <1>6, <2>4
    <3> QED
      BY <1>5, <1>12, <2>4, <3>1
  <2> QED
    BY Zenon, <1>12, <2>1, <2>2, <2>3, <2>4
<1>13. ASSUME NEW q \in Procs, NEW j \in Tids, NEW f \in stranded \cup left, H(q, j)
       PROVE  K(q, j) # f[2]
  <2>1. CASE f \in stranded
    BY <1>1, <1>5, <1>13, <2>1
  <2>2. CASE f \in left
    BY <1>1, <1>5, <1>6, <1>13, <2>2
  <2> QED
    BY Zenon, <1>13, <2>1, <2>2
<1>14. Tids' = Tids /\ stranded' = stranded \cup left
  BY Zenon, <1>1
<1> QED
  BY <1>8, <1>9, <1>10, <1>11, <1>12, <1>13, <1>14 DEF KstacksOwned, H, K, new

LEMMA ProcessExitsIInv ==
  ASSUME IInv, NEW p \in Procs, ProcessExits(p)
  PROVE  IInv'
<1> DEFINE holding == {i \in Tids : HasTcb(p, i) /\ At(p, i) \in HoldsProcess}
<1>0. /\ TypeOK /\ Tree /\ Lives /\ PidsOwned /\ ~panicked /\ p # InitProc
      /\ status[p] = "live" /\ HasTcb(p, 0)
      /\ status' = [status EXCEPT ![p] = "zombie"]
      /\ PID2PCB' = PID2PCB \ {p} /\ Reparent(p)
      /\ stranded' = stranded \cup StrandedBy(p)
      /\ pins' = [pins EXCEPT ![p] = @ + Cardinality(holding)]
      /\ tasks' = [tasks EXCEPT ![p] = <<>>]
      /\ tids' = [tids EXCEPT ![p] = NewAllocator]
      /\ exiting' = Kstack(p, 0)
      /\ UNCHANGED <<pid, pids, panicked>> /\ Tids' = Tids /\ 0 \in Tids
  BY ProcessAssumption DEF IInv, ProcessExits, remove_from_pid2process, Calls, Tids
<1>1. PICK order \in Bijection(1..Cardinality(Dropped(p)), Dropped(p)) :
        kstacks' = [kstacks EXCEPT !.recycled =
                      @ \o [k \in DOMAIN order |-> Kstack(p, order[k])]]
  BY DEF ProcessExits, remove_from_pid2process
<1>2. /\ AllocatorOK(kstacks')
      /\ InUse(kstacks') = InUse(kstacks) \ {Kstack(p, i) : i \in Dropped(p)}
  BY Zenon, <1>1, FreedStacks
<1>3. /\ Tree' /\ parent' \in [Procs -> Procs \cup {NoProc}]
      /\ children' \in [Procs -> Seq(Procs)]
  BY <1>0, ReparentTree
<1>4. /\ status' \in [Procs -> {"none", "live", "zombie"}] /\ status'[p] = "zombie"
      /\ \A q \in Procs : q # p => status'[q] = status[q]
  BY <1>0 DEF TypeOK
<1>5. /\ tasks' \in [Procs -> Seq(TCBs \cup {NoTcb})] /\ tasks'[p] = <<>>
      /\ \A q \in Procs : q # p => tasks'[q] = tasks[q]
  <2>1. <<>> \in Seq(TCBs \cup {NoTcb})
    OBVIOUS
  <2> QED
    BY <1>0, <2>1 DEF TypeOK
<1>6. /\ tids' \in [Procs -> Allocators] /\ tids'[p] = NewAllocator
      /\ \A q \in Procs : q # p => tids'[q] = tids[q]
  BY <1>0, NewAllocatorFacts DEF TypeOK, AllocatorOK
<1>7. pins' \in [Procs -> Nat] /\ \A q \in Procs : q # p => pins'[q] = pins[q]
  <2>1. 0 \in Int /\ MaxTid \in Int
    BY ProcessAssumption
  <2>2. IsFiniteSet(Tids)
    BY Zenon, <2>1, FS_Interval DEF Tids
  <2>3. IsFiniteSet(holding)
    BY <2>2, FS_Subset
  <2>4. Cardinality(holding) \in Nat
    BY Zenon, <2>3, FS_CardinalityType
  <2> HIDE DEF holding
  <2> QED
    BY <1>0, <2>4 DEF TypeOK
<1>8. stranded' \subseteq Procs \X Nat
  <2>1. \A i \in Tids : HasTcb(p, i) => Kstack(p, i) \in Nat
    BY Zenon, <1>0, ThreadTypes
  <2>2. StrandedBy(p) \subseteq Procs \X Nat
    BY <2>1 DEF StrandedBy
  <2> QED
    BY Zenon, <1>0, <2>2 DEF TypeOK
<1>9. exiting' \in Nat \cup {NoTcb}
  BY Zenon, <1>0, ThreadTypes
<1>10. TypeOK'
  <2>1. /\ pid' \in [Procs -> Nat] /\ PID2PCB' \subseteq Procs /\ pids' \in Allocators
        /\ panicked' \in BOOLEAN /\ kstacks' \in Allocators
    BY Zenon, <1>0, <1>2 DEF TypeOK, AllocatorOK
  <2> QED
    BY Zenon, <1>3, <1>4, <1>5, <1>6, <1>7, <1>8, <1>9, <2>1 DEF TypeOK
<1>11. AllocatorsOK'
  <2>1. \A q \in Procs : AllocatorOK(tids'[q])
    BY Zenon, <1>6, NewAllocatorFacts DEF IInv, AllocatorsOK
  <2> QED
    BY Zenon, <1>0, <1>2, <2>1 DEF IInv, AllocatorsOK
<1>12. Lives'
  BY Zenon, <1>0, <1>4, <1>5, ProcessAssumption DEF Lives
<1>13. PidsOwned'
  <2>1. \A q \in Procs : status'[q] # "none" <=> status[q] # "none"
    BY <1>0, <1>4
  <2> QED
    BY Zenon, <1>0, <2>1 DEF PidsOwned
<1>14. ASSUME NEW q \in Procs, NEW j \in Tids
       PROVE  /\ HasTcb(q, j)' <=> HasTcb(q, j) /\ q # p
              /\ q # p => Kstack(q, j)' = Kstack(q, j) /\ At(q, j)' = At(q, j)
  <2>1. CASE q # p
    BY Zenon, <1>5, <2>1 DEF HasTcb, Kstack, At
  <2>2. CASE q = p
    BY <1>5, <2>2 DEF HasTcb
  <2> QED
    BY Zenon, <2>1, <2>2
<1>15. KstacksOwned'
  BY Zenon, <1>0, <1>2, <1>14, ExitKstacks
<1>16. TidsOwned'
  <2>1. "zombie" # "live"
    OBVIOUS
  <2>2. ASSUME NEW q \in Procs, status'[q] = "live"
        PROVE  InUse(tids'[q]) = {j \in Tids : HasTcb(q, j)' /\ At(q, j)' # "exited"}
    <3>1. q # p /\ status[q] = "live" /\ tids'[q] = tids[q]
      BY Zenon, <1>4, <1>6, <2>1, <2>2
    <3>2. InUse(tids[q]) = {j \in Tids : HasTcb(q, j) /\ At(q, j) # "exited"}
      BY Zenon, <3>1 DEF IInv, TidsOwned
    <3>3. \A j \in Tids : HasTcb(q, j)' /\ At(q, j)' # "exited"
                            <=> HasTcb(q, j) /\ At(q, j) # "exited"
      BY Zenon, <1>14, <3>1
    <3> QED
      BY Zenon, <3>1, <3>2, <3>3
  <2> QED
    BY Zenon, <1>0, <2>2 DEF TidsOwned
<1>17. Listed' /\ PanicIsLeftArc'
  <2>1. "zombie" # "live"
    OBVIOUS
  <2>2. Listed'
    BY Zenon, <1>0, <1>4, <2>1 DEF IInv, Listed
  <2>3. PanicIsLeftArc'
    BY Zenon, <1>0, <1>4, <1>7 DEF IInv, PanicIsLeftArc
  <2> QED
    BY <2>2, <2>3
<1> QED
  BY Zenon, <1>3, <1>10, <1>11, <1>12, <1>13, <1>15, <1>16, <1>17 DEF IInv

\* Vec::remove.
LEMMA WithoutFacts ==
  ASSUME NEW S, NEW s \in Seq(S), IsInjective(s), NEW k \in DOMAIN s
  PROVE  /\ Without(s, k) \in Seq(S) /\ IsInjective(Without(s, k))
         /\ Range(Without(s, k)) = Range(s) \ {s[k]}
<1> DEFINE n == Len(s)
           w == Without(s, k)
           at(j) == IF j < k THEN j ELSE j + 1
<1>1. n \in Nat /\ DOMAIN s = 1..n /\ k \in 1..n /\ n >= 1 /\ \A j \in 1..n : s[j] \in S
  OBVIOUS
<1>2. w = [j \in 1..(n - 1) |-> IF j < k THEN s[j] ELSE s[j + 1]]
  BY DEF Without
<1> HIDE DEF n, w
<1>3. \A j \in 1..(n - 1) : at(j) \in 1..n /\ at(j) # k
  BY <1>1
<1>4. \A i, j \in 1..(n - 1) : at(i) = at(j) => i = j
  BY <1>1
<1>5. \A m \in 1..n : m # k => \E j \in 1..(n - 1) : m = at(j)
  <2> SUFFICES ASSUME NEW m \in 1..n, m # k PROVE \E j \in 1..(n - 1) : m = at(j)
    OBVIOUS
  <2>1. CASE m < k
    <3>1. m \in 1..(n - 1) /\ m = at(m)
      BY <1>1, <2>1
    <3> QED
      BY Zenon, <3>1
  <2>2. CASE m > k
    <3>1. m - 1 \in 1..(n - 1) /\ m = at(m - 1)
      BY <1>1, <2>2
    <3> QED
      BY Zenon, <3>1
  <2> QED
    BY <1>1, <2>1, <2>2
<1>6. DOMAIN w = 1..(n - 1) /\ \A j \in 1..(n - 1) : w[j] = s[at(j)]
  BY <1>2
<1> HIDE DEF at
<1>7. w \in Seq(S)
  <2>1. n - 1 \in Nat /\ \A j \in 1..(n - 1) : w[j] \in S
    BY <1>1, <1>3, <1>6
  <2>2. w = [j \in 1..(n - 1) |-> w[j]]
    BY <1>2
  <2> QED
    BY <2>1, <2>2
<1>8. \A i, j \in 1..n : s[i] = s[j] => i = j
  BY <1>1 DEF IsInjective
<1>9. IsInjective(w)
  BY <1>3, <1>4, <1>6, <1>8 DEF IsInjective
<1>10. Range(w) = Range(s) \ {s[k]}
  <2>1. Range(s) = {s[j] : j \in 1..n} /\ Range(w) = {w[j] : j \in 1..(n - 1)}
    BY <1>1, <1>6 DEF Range
  <2> QED
    BY <1>1, <1>3, <1>5, <1>6, <1>8, <2>1
<1> QED
  BY <1>7, <1>9, <1>10 DEF w

\* What owns a zombie, apart from its parent's list, is on freed kernel stacks.
LEMMA ZombieArcs ==
  ASSUME IInv, NEW c \in Procs, status[c] = "zombie"
  PROVE  OtherArcs(c) = pins[c]
<1>1. c \notin PID2PCB /\ tasks[c] = <<>> /\ pins[c] \in Nat
  BY DEF IInv, Listed, Lives, TypeOK
<1>2. {i \in Tids : HasTcb(c, i) /\ At(c, i) \in HoldsProcess} = {}
  BY <1>1 DEF HasTcb
<1>3. Cardinality({i \in Tids : HasTcb(c, i) /\ At(c, i) \in HoldsProcess}) = 0
  BY Zenon, <1>2, FS_EmptySet
<1> QED
  BY <1>1, <1>3 DEF OtherArcs

\* A zombie that is reaped has no children left and no threads.
LEMMA ReapIInv ==
  ASSUME IInv, ~panicked, NEW p \in Procs, status[p] = "live",
         NEW k \in DOMAIN children[p], NEW c \in Procs, c = children[p][k],
         status[c] = "zombie", pins[c] = 0,
         children' = [children EXCEPT ![p] = Without(@, k)],
         status' = [status EXCEPT ![c] = "none"],
         pids' = dealloc(pids, pid[c]),
         pid' = [pid EXCEPT ![c] = 0],
         parent' = [parent EXCEPT ![c] = NoProc],
         UNCHANGED <<PID2PCB, taskVars, leakVars, exiting, panicked>>
  PROVE  IInv'
<1>0. /\ TypeOK /\ Tree /\ Lives /\ PidsOwned /\ AllocatorOK(pids)
      /\ UNCHANGED <<PID2PCB, tasks, tids, kstacks, pins, stranded, exiting, panicked>>
      /\ Tids' = Tids
  BY DEF IInv, AllocatorsOK, taskVars, leakVars, Tids
<1>a. "zombie" # "live" /\ "zombie" # "none" /\ "none" # "live"
  OBVIOUS
<1>1. /\ children \in [Procs -> Seq(Procs)] /\ children[p] \in Seq(Procs)
      /\ IsInjective(children[p]) /\ c \in Range(children[p])
  BY <1>0 DEF TypeOK, Tree, Range
<1>2. c # InitProc /\ parent[c] = p /\ tasks[c] = <<>>
  BY Zenon, <1>0, <1>1, <1>a DEF Tree, Lives
<1>3. \A d \in Procs \ {InitProc} : status[d] # "none" => parent[d] # c
  BY Zenon, <1>0, <1>a DEF Tree
<1>4. /\ children' \in [Procs -> Seq(Procs)] /\ IsInjective(children'[p])
      /\ Range(children'[p]) = Range(children[p]) \ {c}
      /\ \A q \in Procs : q # p => children'[q] = children[q]
  <2>1. /\ Without(children[p], k) \in Seq(Procs) /\ IsInjective(Without(children[p], k))
        /\ Range(Without(children[p], k)) = Range(children[p]) \ {c}
    BY <1>1, WithoutFacts
  <2> QED
    BY <1>1, <2>1
<1>5. /\ status' \in [Procs -> {"none", "live", "zombie"}] /\ status'[c] = "none"
      /\ \A q \in Procs : q # c => status'[q] = status[q]
  BY <1>0 DEF TypeOK
<1>6. /\ pid' \in [Procs -> Nat] /\ \A q \in Procs : q # c => pid'[q] = pid[q]
  BY <1>0 DEF TypeOK
<1>7. /\ parent' \in [Procs -> Procs \cup {NoProc}]
      /\ \A q \in Procs : q # c => parent'[q] = parent[q]
  BY <1>0 DEF TypeOK
<1>8. AllocatorOK(pids') /\ InUse(pids') = InUse(pids) \ {pid[c]}
  <2>1. pid[c] \in InUse(pids)
    BY Zenon, <1>0, <1>a DEF PidsOwned
  <2> QED
    BY <1>0, <2>1, DeallocOne
<1>9. TypeOK'
  BY Zenon, <1>0, <1>4, <1>5, <1>6, <1>7, <1>8 DEF TypeOK, AllocatorOK
<1>10. AllocatorsOK'
  BY Zenon, <1>0, <1>8 DEF IInv, AllocatorsOK
<1>11. Lives'
  BY Zenon, <1>0, <1>2, <1>5, ProcessAssumption DEF Lives
<1>12. Tree'
  <2>1. \A q \in Procs : IsInjective(children'[q])
    BY Zenon, <1>0, <1>4 DEF Tree
  <2>2. ASSUME NEW d \in Procs, NEW q \in Procs
        PROVE  d \in Range(children'[q]) <=> d # InitProc /\ status'[d] # "none" /\ parent'[d] = q
    <3>1. d \in Range(children[q]) <=> d # InitProc /\ status[d] # "none" /\ parent[d] = q
      BY Zenon, <1>0 DEF Tree
    <3>2. CASE d = c
      BY Zenon, <1>2, <1>4, <1>5, <3>1, <3>2
    <3>3. CASE d # c
      BY Zenon, <1>4, <1>5, <1>7, <3>1, <3>3
    <3> QED
      BY <3>2, <3>3
  <2>3. ASSUME NEW d \in Procs \ {InitProc}, status'[d] # "none"
        PROVE  parent'[d] # NoProc /\ status'[parent'[d]] = "live"
    <3>1. d # c /\ status[d] # "none" /\ parent'[d] = parent[d]
      BY Zenon, <1>5, <1>7, <2>3
    <3>2. parent[d] # NoProc /\ status[parent[d]] = "live" /\ parent[d] # c
      BY Zenon, <1>0, <1>3, <3>1 DEF Tree
    <3>3. parent[d] \in Procs
      BY <1>0, <3>2 DEF TypeOK
    <3> QED
      BY Zenon, <1>5, <3>1, <3>2, <3>3
  <2> QED
    BY Zenon, <2>1, <2>2, <2>3 DEF Tree
<1>13. PidsOwned'
  <2>1. \A q \in Procs : status'[q] # "none" <=> status[q] # "none" /\ q # c
    BY Zenon, <1>5
  <2>2. ASSUME NEW q \in Procs, status'[q] # "none" PROVE pid'[q] \in InUse(pids')
    <3>1. q # c /\ status[q] # "none" /\ pid'[q] = pid[q]
      BY Zenon, <1>6, <2>1, <2>2
    <3>2. pid[q] # pid[c] /\ pid[q] \in InUse(pids)
      BY Zenon, <1>0, <1>a, <3>1 DEF PidsOwned
    <3> QED
      BY <1>8, <3>1, <3>2
  <2>3. ASSUME NEW m \in InUse(pids') PROVE \E q \in Procs : status'[q] # "none" /\ m = pid'[q]
    <3>1. m \in InUse(pids) /\ m # pid[c]
      BY <1>8, <2>3
    <3>2. PICK q \in Procs : status[q] # "none" /\ m = pid[q]
      BY Zenon, <1>0, <3>1 DEF PidsOwned
    <3> QED
      BY Zenon, <1>6, <2>1, <3>1, <3>2
  <2>4. ASSUME NEW q \in Procs, NEW r \in Procs,
               status'[q] # "none", status'[r] # "none", pid'[q] = pid'[r]
        PROVE  q = r
    BY Zenon, <1>0, <1>6, <2>1, <2>4 DEF PidsOwned
  <2> QED
    BY Zenon, <2>2, <2>3, <2>4 DEF PidsOwned
<1>14. ASSUME NEW q \in Procs, NEW j \in Tids
       PROVE  /\ HasTcb(q, j)' <=> HasTcb(q, j)
              /\ Kstack(q, j)' = Kstack(q, j) /\ At(q, j)' = At(q, j)
  BY Zenon, <1>0 DEF HasTcb, Kstack, At
<1>15. KstacksOwned'
  BY Zenon, <1>0, <1>14, KstacksKept
<1>16. TidsOwned'
  <2>1. \A q \in Procs : status'[q] = "live" => status[q] = "live"
    BY Zenon, <1>5, <1>a
  <2> QED
    BY Zenon, <1>0, <1>14, <2>1 DEF IInv, TidsOwned
<1>17. Listed'
  BY Zenon, <1>0, <1>5, <1>a DEF IInv, Listed
<1>18. PanicIsLeftArc'
  <2>1. \A q \in Procs : pins[q] # 0 => q # c /\ status[q] = "zombie"
    BY Zenon DEF IInv, PanicIsLeftArc
  <2>2. ASSUME NEW q \in Procs, pins'[q] # 0 PROVE status'[q] = "zombie"
    BY Zenon, <1>0, <1>5, <2>1, <2>2
  <2>3. ~panicked'
    BY <1>0
  <2> QED
    BY Zenon, <2>2, <2>3 DEF PanicIsLeftArc
<1> QED
  BY Zenon, <1>9, <1>10, <1>11, <1>12, <1>13, <1>15, <1>16, <1>17, <1>18 DEF IInv

LEMMA sys_waitpidIInv ==
  ASSUME IInv, NEW p \in Procs, NEW i \in Tids, NEW any, NEW STATE n, sys_waitpid(p, i, any, n)
  PROVE  IInv'
<1>0. TypeOK /\ ~panicked /\ status[p] = "live" /\ Tree
      /\ UNCHANGED <<PID2PCB, taskVars, leakVars, exiting>>
  BY DEF IInv, sys_waitpid, Calls
<1>1. PICK k \in Found(p, any, n) :
        LET c == children[p][k]
        IN  /\ children' = [children EXCEPT ![p] = Without(@, k)]
            /\ \/ /\ OtherArcs(c) = 0
                  /\ status' = [status EXCEPT ![c] = "none"]
                  /\ pids' = dealloc(pids, pid[c])
                  /\ pid' = [pid EXCEPT ![c] = 0]
                  /\ parent' = [parent EXCEPT ![c] = NoProc]
                  /\ UNCHANGED panicked
               \/ OtherArcs(c) # 0 /\ panicked' = TRUE /\ UNCHANGED <<status, pids, pid, parent>>
  BY Zenon DEF sys_waitpid
<1>2. /\ k \in DOMAIN children[p] /\ children[p] \in Seq(Procs) /\ children[p][k] \in Procs
      /\ status[children[p][k]] = "zombie" /\ IsInjective(children[p])
      /\ children \in [Procs -> Seq(Procs)]
  BY <1>0, <1>1 DEF TypeOK, Tree, Found
<1>3. PICK c \in Procs : c = children[p][k]
  BY Zenon, <1>2
<1>a. OtherArcs(children[p][k]) = pins[c]
  BY <1>2, <1>3, ZombieArcs
<1>4. CASE /\ pins[c] = 0
           /\ status' = [status EXCEPT ![c] = "none"]
           /\ pids' = dealloc(pids, pid[c])
           /\ pid' = [pid EXCEPT ![c] = 0]
           /\ parent' = [parent EXCEPT ![c] = NoProc]
           /\ UNCHANGED panicked
  BY Zenon, <1>0, <1>1, <1>2, <1>3, <1>4, ReapIInv
<1>5. CASE pins[c] # 0 /\ panicked' = TRUE /\ UNCHANGED <<status, pids, pid, parent>>
  <2>1. UNCHANGED <<PID2PCB, tasks, tids, kstacks, pins, stranded, exiting>> /\ Tids' = Tids
    BY Zenon, <1>0 DEF taskVars, leakVars, Tids
  <2>2. children' \in [Procs -> Seq(Procs)]
    BY <1>1, <1>2, WithoutFacts
  <2>3. TypeOK'
    BY Zenon, <1>0, <1>5, <2>1, <2>2 DEF TypeOK
  <2>4. \A q \in Procs, j \in Tids :
          /\ HasTcb(q, j)' <=> HasTcb(q, j)
          /\ Kstack(q, j)' = Kstack(q, j) /\ At(q, j)' = At(q, j)
    BY Zenon, <2>1 DEF HasTcb, Kstack, At
  <2>5. KstacksOwned'
    BY Zenon, <2>1, <2>4, KstacksKept
  <2>6. AllocatorsOK' /\ Lives' /\ PidsOwned'
    BY Zenon, <1>5, <2>1 DEF IInv, AllocatorsOK, Lives, PidsOwned
  <2>7. TidsOwned'
    BY Zenon, <1>5, <2>1, <2>4 DEF IInv, TidsOwned
  <2>8. Listed' /\ PanicIsLeftArc'
    BY Zenon, <1>5, <2>1 DEF IInv, Listed, PanicIsLeftArc
  <2> QED
    BY Zenon, <1>5, <2>3, <2>5, <2>6, <2>7, <2>8 DEF IInv
<1> QED
  BY Zenon, <1>1, <1>3, <1>4, <1>5, <1>a

-----------------------------------------------------------------------------
(* The theorems                                                            *)

\* Nothing that the invariant speaks of changes when schedule leaves the stack of
\* a process that has exited, or when nothing happens.
LEMMA QuietIInv ==
  ASSUME IInv, UNCHANGED <<treeVars, taskVars, leakVars, panicked>>,
         exiting' \in Nat \cup {NoTcb}
  PROVE  IInv'
<1>1. /\ UNCHANGED <<status, pid, parent, children, PID2PCB, pids, tasks, tids, kstacks>>
      /\ UNCHANGED <<treeVars, pins, stranded, panicked>> /\ Tids' = Tids
  BY DEF treeVars, taskVars, leakVars, Tids
<1>2. \A q \in Procs, j \in Tids :
        /\ HasTcb(q, j)' <=> HasTcb(q, j)
        /\ Kstack(q, j)' = Kstack(q, j) /\ At(q, j)' = At(q, j)
  BY Zenon, <1>1 DEF HasTcb, Kstack, At
<1>3. TypeOK'
  BY Zenon, <1>1 DEF IInv, TypeOK
<1>4. AllocatorsOK' /\ Lives'
  BY Zenon, <1>1 DEF IInv, AllocatorsOK, Lives
<1>5. TidsOwned'
  BY Zenon, <1>1, <1>2 DEF IInv, TidsOwned
<1> QED
  BY Zenon, <1>1, <1>2, <1>3, <1>4, <1>5, TreeKept, KstacksKept DEF IInv

LEMMA InitIInv == Init => IInv
<1> SUFFICES ASSUME Init PROVE IInv
  OBVIOUS
<1>0. InitProc \in Procs /\ NoProc \notin Procs /\ 0 \in Tids
  BY ProcessAssumption DEF Tids
<1>a. /\ AllocatorOK(alloc(NewAllocator)) /\ InUse(alloc(NewAllocator)) = {0}
      /\ AllocatorOK(NewAllocator)
  BY NewAllocatorFacts
<1>b. Tcb(0) \in TCBs /\ Tcb(0).kstack = 0 /\ Tcb(0).at = "user" /\ Tcb(0) # NoTcb
  BY ProcessAssumption DEF Tcb, TCBs, Points
<1>1. /\ status \in [Procs -> {"none", "live", "zombie"}] /\ status[InitProc] = "live"
      /\ \A q \in Procs : q # InitProc => status[q] = "none"
  BY <1>0 DEF Init
<1>2. /\ tasks \in [Procs -> Seq(TCBs \cup {NoTcb})] /\ tasks[InitProc] = <<Tcb(0)>>
      /\ \A q \in Procs : q # InitProc => tasks[q] = <<>>
  <2>1. <<>> \in Seq(TCBs \cup {NoTcb}) /\ <<Tcb(0)>> \in Seq(TCBs \cup {NoTcb})
    BY <1>b
  <2> QED
    BY <1>0, <2>1 DEF Init
<1>3. /\ tids \in [Procs -> Allocators] /\ tids[InitProc] = alloc(NewAllocator)
      /\ \A q \in Procs : q # InitProc => tids[q] = NewAllocator
  BY <1>0, <1>a DEF Init, AllocatorOK
<1>4. children \in [Procs -> Seq(Procs)] /\ \A q \in Procs : children[q] = <<>>
  BY DEF Init
<1>5. TypeOK
  <2>1. pid \in [Procs -> Nat] /\ pins \in [Procs -> Nat] /\ parent \in [Procs -> Procs \cup {NoProc}]
    BY DEF Init
  <2>2. PID2PCB \subseteq Procs /\ stranded \subseteq Procs \X Nat /\ panicked \in BOOLEAN
    BY Zenon, <1>0 DEF Init
  <2>3. pids \in Allocators /\ kstacks \in Allocators /\ exiting \in Nat \cup {NoTcb}
    BY Zenon, <1>a DEF Init, AllocatorOK
  <2> QED
    BY Zenon, <1>1, <1>2, <1>3, <1>4, <2>1, <2>2, <2>3 DEF TypeOK
<1>6. AllocatorsOK
  BY Zenon, <1>3, <1>a DEF Init, AllocatorsOK
<1>7. Lives
  BY Zenon, <1>1, <1>2 DEF Lives
<1>8. Tree
  <2>1. IsInjective(<<>>) /\ Range(<<>>) = {}
    BY <1>0, QueueEmpty
  <2> QED
    BY Zenon, <1>1, <1>4, <2>1 DEF Tree
<1>9. PidsOwned
  <2>1. pids = alloc(NewAllocator) /\ \A q \in Procs : pid[q] = 0
    BY DEF Init
  <2>2. "live" # "none"
    OBVIOUS
  <2> QED
    BY Zenon, <1>0, <1>1, <1>a, <2>1, <2>2 DEF PidsOwned
<1>10. ASSUME NEW q \in Procs, NEW j \in Tids
       PROVE  HasTcb(q, j) <=> q = InitProc /\ j = 0
  <2>1. CASE q = InitProc /\ j = 0
    BY <1>2, <1>b, <2>1 DEF HasTcb
  <2>2. CASE q = InitProc /\ j # 0
    BY <1>2, <2>2 DEF HasTcb, Tids
  <2>3. CASE q # InitProc
    BY <1>2, <2>3 DEF HasTcb
  <2> QED
    BY Zenon, <2>1, <2>2, <2>3
<1>11. Kstack(InitProc, 0) = 0 /\ At(InitProc, 0) = "user"
  BY <1>2, <1>b DEF Kstack, At
<1>12. KstacksOwned
  <2>1. kstacks = alloc(NewAllocator) /\ stranded = {}
    BY DEF Init
  <2> QED
    BY Zenon, <1>0, <1>10, <1>11, <1>a, <2>1 DEF KstacksOwned
<1>13. TidsOwned
  <2>1. "user" # "exited" /\ "none" # "live"
    OBVIOUS
  <2>2. InUse(tids[InitProc]) = {0}
    BY Zenon, <1>3, <1>a
  <2>3. \A j \in Tids : HasTcb(InitProc, j) /\ At(InitProc, j) # "exited" <=> j = 0
    BY Zenon, <1>0, <1>10, <1>11, <2>1
  <2>4. InUse(tids[InitProc]) = {j \in Tids : HasTcb(InitProc, j) /\ At(InitProc, j) # "exited"}
    BY Zenon, <1>0, <2>2, <2>3
  <2> QED
    BY Zenon, <1>1, <2>1, <2>4 DEF TidsOwned
<1>14. Listed
  <2>1. "none" # "live"
    OBVIOUS
  <2> QED
    BY Zenon, <1>1, <2>1 DEF Init, Listed
<1>15. PanicIsLeftArc
  BY DEF Init, PanicIsLeftArc
<1> QED
  BY Zenon, <1>5, <1>6, <1>7, <1>8, <1>9, <1>12, <1>13, <1>14, <1>15 DEF IInv

LEMMA NextIInv == IInv /\ [Next]_vars => IInv'
<1> SUFFICES ASSUME IInv, [Next]_vars PROVE IInv'
  OBVIOUS
<1>1. CASE UNCHANGED vars
  BY Zenon, <1>1, QuietIInv DEF vars, IInv, TypeOK
<1>2. CASE schedule
  BY Zenon, <1>2, QuietIInv DEF schedule
<1>3. ASSUME NEW p \in Procs, ProcessExits(p) PROVE IInv'
  BY <1>3, ProcessExitsIInv
<1>4. ASSUME NEW p \in Procs, NEW i \in Tids,
             \/ \E point \in {"lock", "down", "read"} : Suspends(p, i, point)
             \/ Resumes(p, i)
             \/ sys_thread_create(p, i)
             \/ \E tid \in Tids : sys_waittid(p, i, tid)
             \/ ThreadExits(p, i)
             \/ \E c \in Procs : fork(p, i, c)
             \/ \E any \in BOOLEAN, c \in Procs : sys_waitpid(p, i, any, pid[c])
      PROVE  IInv'
  BY Zenon, <1>4, SuspendsIInv, ResumesIInv, sys_thread_createIInv, sys_waittidIInv,
     ThreadExitsIInv, forkIInv, sys_waitpidIInv
<1> QED
  BY Zenon, <1>1, <1>2, <1>3, <1>4 DEF Next

LEMMA Invariance == Spec => []IInv
BY InitIInv, NextIInv, PTL DEF Spec

\* For any set of processes and any number of threads: no process is lost, none
\* has two parents, and the parent of every process that is not yet reaped is
\* alive to wait for it, whatever the order in which processes fork, exit with
\* children of their own, and reap.
THEOREM EveryProcessHasALiveParent == Spec => []FamilyTree
BY Invariance, IInvImplies, PTL

\* For any set of processes and any number of threads: every pid, tid and kernel
\* stack that has an owner is in use and has no other owner, and a kernel stack
\* that is in use without one was left behind by a thread blocked at the exit of
\* its process; whether or not sys_waitpid's own assertion fails.
THEOREM EveryIdHasOneOwner == Spec => []IdsAccountedFor
BY Invariance, IInvImplies, PTL

\* The asserts of RecycleAllocator::dealloc hold in every allocator: nothing is
\* given back twice, and nothing that was not given out.
THEOREM NothingIsFreedTwice == Spec => []AllocatorsOK
<1>1. IInv => AllocatorsOK
  BY DEF IInv
<1> QED
  BY <1>1, Invariance, PTL

\* The assertion of sys_waitpid ("confirm that child will be deallocated after
\* being removed from children list") fails for one reason only: the child exited
\* while one of its threads was inside a call that keeps an Arc of the process on
\* its kernel stack, and such a child is never deallocated.
THEOREM PanicHasOneCause == Spec => []PanicIsLeftArc
<1>1. IInv => PanicIsLeftArc
  BY DEF IInv
<1> QED
  BY <1>1, Invariance, PTL
=============================================================================
