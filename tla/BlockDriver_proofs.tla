-------------------------- MODULE BlockDriver_proofs --------------------------
(***************************************************************************)
(* Device input and output, for any finite set of tasks, any scenario, any *)
(* data blocks and any cache of two blocks or more: sessions are masked    *)
(* exactly, the cache is transparent, what a call wrote is on the disk     *)
(* when it returns, and a poll of events never sleeps.                     *)
(***************************************************************************)
EXTENDS BlockDriver_lemmas, FiniteSetTheorems

-----------------------------------------------------------------------------
(* Calls of the file system                                                *)

\* Only the holder of the lock is inside, and only it has a request.
LEMMA OthersOutside ==
  ASSUME OneInside, NEW t \in FsUsers, pc[t] \in FsSteps \cup IoSteps,
         NEW u \in FsUsers, u # t
  PROVE  pc[u] \notin FsSteps /\ pc[u] \notin IoSteps /\ io[u].op = None
BY DEF OneInside

\* A step outside the file system does not change what a call has.
LEMMA QuietKeeps ==
  ASSUME CpuTypes, OneInside, CallsReady, FsQuiet
  PROVE  OneInside' /\ CallsReady'
<1>1. ASSUME NEW u \in FsUsers
      PROVE  /\ pc'[u] \in FsSteps \cup IoSteps <=> pc[u] \in FsSteps \cup IoSteps
             /\ pc'[u] \in IoSteps <=> pc[u] \in IoSteps
  BY DEF FsQuiet, CommonSteps, FsSteps, IoSteps
<1>2. OneInside'
  BY <1>1 DEF OneInside, FsQuiet, fs
<1>3. ASSUME NEW u \in FsUsers PROVE CallReady(u)'
  <2>1. CallReady(u)
    BY DEF CallsReady
  <2>2. CASE pc'[u] = pc[u]
    BY <2>1, <2>2 DEF CallReady, NextStep, Cached, Unsynced, FsQuiet, fs
  <2>3. CASE pc'[u] \in CommonSteps
    BY <2>3 DEF CallReady, NextStep, CommonSteps, IoSteps
  <2> QED
    BY <2>2, <2>3 DEF FsQuiet
<1> QED
  BY <1>2, <1>3 DEF CallsReady

\* A step of t inside the file system, as the other calls see it.
LEMMA InsideKeeps ==
  ASSUME CpuTypes, BlockTypes, OneInside, CallsReady,
         NEW t \in FsUsers, pc[t] \in FsSteps \cup IoSteps,
         NEW x \in FsSteps \cup IoSteps, Goto(t, x), UNCHANGED fs_lock,
         \A u \in FsUsers \ {t} : io'[u] = io[u] /\ call'[u] = call[u],
         x \notin IoSteps <=> io'[t].op = None,
         CallReady(t)'
  PROVE  OneInside' /\ CallsReady'
<1>1. pc'[t] = x /\ \A u \in FsUsers \ {t} : pc'[u] = pc[u]
  BY Zenon, Kinds DEF Goto, CpuTypes
<1>2. OneInside'
  BY <1>1 DEF OneInside
<1>3. ASSUME NEW u \in FsUsers, u # t PROVE CallReady(u)'
  <2>1. CallReady(u) /\ pc'[u] = pc[u] /\ io'[u] = io[u] /\ call'[u] = call[u]
    BY <1>1, <1>3 DEF CallsReady
  <2>2. pc[u] \notin FsSteps /\ pc[u] \notin IoSteps
    BY <1>3, OthersOutside
  <2> QED
    BY <2>1, <2>2 DEF CallReady, NextStep, FsSteps, IoSteps
<1> QED
  BY <1>2, <1>3 DEF CallsReady

\* The steps of a request that leave the request and the cache alone.
IoMoves(t) ==
  /\ pc[t] \in IoSteps /\ \E x \in IoSteps : Goto(t, x)
  /\ UNCHANGED <<io, disk, cache, fs_lock, call, written, panicked>>
  /\ Finished(t)' <=> Finished(t)
  /\ inflight' \ {t} = inflight \ {t}

\* The steps of a request before its end are such steps.
LEMMA IoSteppings ==
  ASSUME CpuTypes, InOnePlace, NEW t \in FsUsers,
         \/ schedule(t) /\ pc[t] = "switch_io"
         \/ io_enter(t) \/ io_submit(t) \/ io_drop(t)
  PROVE  IoMoves(t)
<1> USE DEF Goto, IoMoves, Finished, IoSteps
<1>p. pc \in [Tasks -> Steps] /\ t \in Tasks
  BY Kinds DEF CpuTypes
<1>1. CASE schedule(t) /\ pc[t] = "switch_io"
  BY <1>1, <1>p DEF schedule, Resume, blk, fs
<1>2. CASE io_enter(t)
  BY <1>2, <1>p DEF io_enter, blk, fs
<1>3. CASE io_submit(t)
  BY <1>3, <1>p DEF io_submit, fs
<1>4. CASE io_drop(t)
  BY <1>4, <1>p DEF io_drop, blk, fs
<1> QED
  BY <1>1, <1>2, <1>3, <1>4

\* One call is inside the file system at a time, and has what it needs next.
LEMMA CallsStep ==
  ASSUME CpuTypes, BlockTypes, InOnePlace, OneInside, CallsReady, ContentsKept, Next
  PROVE  OneInside' /\ CallsReady'
<1> DEFINE Goal == OneInside' /\ CallsReady'
<1>p. pc \in [Tasks -> Steps] /\ io \in [FsUsers -> Requests] /\ call \in [FsUsers -> FsCalls]
  BY DEF CpuTypes, BlockTypes
<1>1. CASE FsQuiet
  BY <1>1, QuietKeeps
<1>2. ASSUME NEW t \in FsUsers, trap_handler(t) PROVE Goal
  <2>1. PICK c \in FsCalls : /\ pc[t] = "user" /\ pc' = [pc EXCEPT ![t] = "lock"]
                             /\ call' = [call EXCEPT ![t] = c] /\ c.blocks # <<>>
                             /\ UNCHANGED <<io, inflight, disk, cache, fs_lock, written>>
    BY Zenon, <1>2, Kinds, BlockFacts DEF trap_handler, Goto, blk
  <2>2. OneInside'
    BY <1>p, <2>1, Kinds DEF OneInside, FsSteps, IoSteps
  <2>3. CallReady(t)'
    BY <1>p, <2>1, Kinds DEF CallReady, NextStep, IoSteps
  <2>4. ASSUME NEW u \in FsUsers, u # t PROVE CallReady(u)'
    <3>1. CallReady(u) /\ pc'[u] = pc[u] /\ call'[u] = call[u]
      BY <1>p, <2>1, <2>4, Kinds DEF CallsReady
    <3> QED
      BY <2>1, <3>1 DEF CallReady, NextStep, Cached, Unsynced
  <2> QED
    BY <2>2, <2>3, <2>4 DEF CallsReady
<1>3. ASSUME NEW t \in FsUsers, IoMoves(t) PROVE Goal
  <2>1. PICK x \in IoSteps : pc[t] \in IoSteps /\ Goto(t, x) /\ UNCHANGED <<io, cache, fs_lock, call>>
    BY <1>3 DEF IoMoves
  <2>2. pc'[t] \in IoSteps
    BY <1>p, <2>1, Kinds DEF Goto
  <2>3. CallReady(t)'
    <3>1. CallReady(t)
      BY DEF CallsReady
    <3> QED
      BY <2>1, <2>2, <3>1 DEF CallReady, NextStep, Cached, IoSteps
  <2>4. io[t].op # None
    BY <2>1 DEF OneInside
  <2> QED
    BY <2>1, <2>3, <2>4, InsideKeeps
<1>4. ASSUME NEW t \in FsUsers, io_done(t) PROVE Goal
  <2> DEFINE e == [block |-> io[t].block, data |-> io[t].data, modified |-> FALSE]
  <2>1. /\ pc[t] = "io_done" /\ pc' = [pc EXCEPT ![t] = io[t].then] /\ io' = [io EXCEPT ![t] = NoIo]
        /\ cache' = IF io[t].op = "read" THEN Append(cache, e) ELSE cache
        /\ UNCHANGED <<fs_lock, call>>
    BY Zenon, <1>4 DEF io_done, Goto
  <2>2. /\ CallReady(t) /\ pc[t] \in IoSteps /\ io[t].op \in {"read", "write"}
        /\ io[t].then \in {"get_inode", "get_data", "access", "sync"}
        /\ io[t].then \in FsSteps /\ io[t].then \notin IoSteps
    BY Zenon, <1>p, <2>1 DEF CallsReady, CallReady, OneInside, IoSteps, FsSteps, Requests
  <2>3. pc'[t] = io[t].then
    BY <1>p, <2>1, Kinds
  <2>4. io'[t].op = None
    BY <1>p, <2>1 DEF NoIo
  <2>5. ASSUME io[t].then = "access" PROVE Cached(Head(call[t].blocks))' # {}
    <3>1. io[t].op = "read" /\ io[t].block = Head(call[t].blocks)
      BY <2>2, <2>5 DEF CallReady
    <3>2. e \in Entries
      BY <1>p DEF Entries, Requests
    <3>3. /\ cache' = Append(cache, e) /\ Len(cache) + 1 \in DOMAIN cache'
          /\ cache'[Len(cache) + 1] = e
      BY <2>1, <3>1, <3>2, CacheFacts DEF BlockTypes
    <3>4. cache'[Len(cache) + 1].block = Head(call'[t].blocks)
      BY <2>1, <3>1, <3>3
    <3> QED
      BY <2>1, <3>3, <3>4 DEF Cached
  <2>6. CallReady(t)'
    <3>1. NextStep(t)' = io[t].then /\ NextStep(t) = io[t].then
      BY <2>2, <2>3 DEF NextStep
    <3> QED
      BY <2>1, <2>2, <2>3, <2>5, <3>1 DEF CallReady
  <2>7. \A u \in FsUsers \ {t} : io'[u] = io[u] /\ call'[u] = call[u]
    BY <1>p, <2>1
  <2> QED
    BY Zenon, <2>1, <2>2, <2>4, <2>6, <2>7, InsideKeeps DEF Goto
<1>5. ASSUME NEW t \in FsUsers, lock(t) PROVE Goal
  <2>1. /\ pc[t] = "lock" /\ fs_lock = None /\ fs_lock' = t /\ pc' = [pc EXCEPT ![t] = "get_inode"]
        /\ UNCHANGED <<io, cache, call>>
    BY <1>5 DEF lock, Goto, blk
  <2>2. OneInside'
    BY <1>p, <2>1, Kinds DEF OneInside, FsSteps, IoSteps
  <2>3. CallReady(t)'
    BY <1>p, <2>1, Kinds DEF CallsReady, CallReady, NextStep, IoSteps
  <2>4. ASSUME NEW u \in FsUsers, u # t PROVE CallReady(u)'
    <3>1. CallReady(u) /\ pc'[u] = pc[u]
      BY <1>p, <2>1, <2>4, Kinds DEF CallsReady
    <3> QED
      BY <2>1, <3>1 DEF CallReady, NextStep, Cached, Unsynced
  <2> QED
    BY <2>2, <2>3, <2>4 DEF CallsReady
<1>6. ASSUME NEW t \in FsUsers, get_block_cache(t) PROVE Goal
  <2>1. /\ pc[t] \in {"get_inode", "get_data"} /\ pc[t] \in FsSteps
        /\ call[t].blocks # <<>> /\ UNCHANGED <<fs_lock, call>>
        /\ Wanted(t) \in Blocks /\ After(t) \in {"get_data", "access"}
        /\ After(t) = "access" => Wanted(t) = Head(call[t].blocks)
    BY <1>6, GetBlockOutcomes DEF FsSteps, Wanted, After
  <2>2. CASE Cached(Wanted(t)) # {} /\ Goto(t, After(t)) /\ UNCHANGED <<io, cache>>
    <3>1. pc'[t] = After(t) /\ io[t].op = None
      BY <1>p, <2>1, <2>2, Kinds DEF Goto, OneInside, IoSteps
    <3>2. CallReady(t)'
      BY <2>1, <2>2, <3>1 DEF CallReady, NextStep, IoSteps, Cached
    <3> QED
      BY <2>1, <2>2, <3>1, <3>2, InsideKeeps DEF IoSteps, FsSteps
  <2>3. ASSUME NEW op \in {"read", "write"}, NEW b \in Blocks, NEW d, NEW s,
               Request(t, op, b, d, s), s \in {"get_inode", "get_data", "access"},
               op = "read" => /\ Cached(b)' = {} /\ Len(cache') < BLOCK_CACHE_SIZE
                              /\ s = "access" => b = Head(call[t].blocks),
               op = "write" => s # "access"
        PROVE  Goal
    <3>1. /\ Goto(t, "io_enter") /\ pc'[t] = "io_enter"
          /\ io'[t] = [op |-> op, block |-> b, data |-> d, then |-> s]
          /\ \A u \in FsUsers \ {t} : io'[u] = io[u]
      BY <1>p, <2>3, Kinds DEF Request, Goto
    <3>2. io'[t].op = op /\ io'[t].block = b /\ io'[t].then = s
      BY <3>1
    <3>3. CallReady(t)'
      BY <2>1, <2>3, <3>1, <3>2 DEF CallReady, NextStep, IoSteps, Cached
    <3> QED
      BY <2>1, <3>1, <3>2, <3>3, InsideKeeps DEF IoSteps, None
  <2>4. CASE /\ Cached(Wanted(t)) = {} /\ Len(cache) < BLOCK_CACHE_SIZE /\ UNCHANGED cache
             /\ Request(t, "read", Wanted(t), Blank, After(t))
    BY <2>1, <2>3, <2>4 DEF Cached
  <2>5. ASSUME NEW i \in DOMAIN cache, cache' = drain(cache, i)
        PROVE  /\ Len(cache') < BLOCK_CACHE_SIZE
               /\ \A b \in Blocks : Cached(b) = {} => {j \in DOMAIN cache' : cache'[j].block = b} = {}
    <3>1. /\ Len(cache') = Len(cache) - 1 /\ DOMAIN cache' = 1 .. Len(cache) - 1
          /\ \A j \in 1 .. Len(cache) - 1 : cache'[j] = IF j < i THEN cache[j] ELSE cache[j + 1]
          /\ DOMAIN cache = 1..Len(cache) /\ Len(cache) \in Nat
      BY <2>5, DrainOutcome DEF BlockTypes
    <3>2. \A j \in DOMAIN cache' : j \in DOMAIN cache /\ j + 1 \in DOMAIN cache
      BY <3>1
    <3> QED
      BY <3>1, <3>2, DeviceAssumption DEF BlockTypes, Cached
  <2>6. ASSUME NEW i \in DOMAIN cache, cache' = drain(cache, i),
               IF cache[i].modified
               THEN Request(t, "write", cache[i].block, cache[i].data, pc[t])
               ELSE /\ Cached(Wanted(t)) = {}
                    /\ Request(t, "read", Wanted(t), Blank, After(t))
        PROVE  Goal
    <3>1. CASE cache[i].modified
      <4>1. cache[i].block \in Blocks
        BY CacheFacts DEF Entries
      <4> QED
        BY <2>1, <2>3, <2>6, <3>1, <4>1
    <3>2. CASE ~cache[i].modified
      BY <2>1, <2>3, <2>5, <2>6, <3>2 DEF Cached
    <3> QED
      BY <3>1, <3>2
  <2> QED
    BY <1>6, <2>2, <2>4, <2>6, GetBlockOutcomes
<1>7. ASSUME NEW t \in FsUsers, access(t) PROVE Goal
  <2> DEFINE x == IF Tail(call[t].blocks) # <<>> THEN "get_data"
                  ELSE IF call[t].op = "read" THEN "unlock" ELSE "sync"
  <2>1. /\ pc[t] = "access" /\ Goto(t, x) /\ UNCHANGED <<io, fs_lock>>
        /\ call' = [call EXCEPT ![t].blocks = Tail(call[t].blocks)]
    BY Zenon, <1>7, AccessOutcome
  <2>2. /\ pc[t] \in FsSteps /\ pc[t] \notin IoSteps /\ x \in FsSteps /\ x \notin IoSteps
        /\ x \in {"get_data", "unlock", "sync"}
    BY <2>1 DEF FsSteps, IoSteps
  <2>3. io[t].op = None
    BY <2>2 DEF OneInside
  <2>4. /\ pc'[t] = x /\ call'[t].blocks = Tail(call[t].blocks) /\ call'[t].op = call[t].op
        /\ \A u \in FsUsers \ {t} : call'[u] = call[u]
    BY <1>p, <2>1, Kinds DEF Goto, FsCalls
  <2>5. CallReady(t)'
    BY Zenon, <2>2, <2>4 DEF CallReady, NextStep
  <2> HIDE DEF x
  <2> QED
    BY <2>1, <2>2, <2>3, <2>4, <2>5, InsideKeeps
<1>8. ASSUME NEW t \in FsUsers, block_cache_sync_all(t) PROVE Goal
  <2>1. /\ pc[t] = "sync" /\ pc[t] \in FsSteps /\ pc[t] \notin IoSteps /\ UNCHANGED <<fs_lock, call>>
    BY <1>8, SyncOutcomes DEF FsSteps, IoSteps
  <2>2. io[t].op = None
    BY <2>1 DEF OneInside
  <2>3. CASE Unsynced = {} /\ Goto(t, "unlock") /\ UNCHANGED <<io, cache>>
    <3>1. pc'[t] = "unlock"
      BY <1>p, <2>3, Kinds DEF Goto
    <3>2. CallReady(t)'
      BY <2>3, <3>1 DEF CallReady, NextStep, IoSteps, Unsynced
    <3> QED
      BY <2>1, <2>2, <2>3, <3>2, InsideKeeps DEF FsSteps, IoSteps
  <2>4. ASSUME NEW i \in DOMAIN cache, Request(t, "write", cache[i].block, cache[i].data, "sync")
        PROVE  Goal
    <3>1. /\ Goto(t, "io_enter") /\ pc'[t] = "io_enter"
          /\ io'[t] = [op |-> "write", block |-> cache[i].block, data |-> cache[i].data, then |-> "sync"]
          /\ \A u \in FsUsers \ {t} : io'[u] = io[u]
      BY <1>p, <2>4, Kinds DEF Request, Goto
    <3>2. io'[t].op = "write" /\ io'[t].then = "sync"
      BY <3>1
    <3>3. CallReady(t)'
      BY <3>1, <3>2 DEF CallReady, NextStep, IoSteps
    <3> QED
      BY <2>1, <3>1, <3>2, <3>3, InsideKeeps DEF IoSteps, None
  <2> QED
    BY <1>8, <2>3, <2>4, SyncOutcomes
<1>9. ASSUME NEW t \in FsUsers, unlock(t) PROVE Goal
  <2>1. /\ pc[t] = "unlock" /\ fs_lock' = None /\ pc' = [pc EXCEPT ![t] = "ret"]
        /\ call' = [call EXCEPT ![t] = NoCall] /\ UNCHANGED <<io, cache>>
    BY <1>9 DEF unlock, Goto, blk
  <2>2. \A u \in FsUsers \ {t} : pc'[u] = pc[u] /\ call'[u] = call[u]
    BY <1>p, <2>1, Kinds
  <2>3. pc'[t] = "ret"
    BY <1>p, <2>1, Kinds
  <2>4. OneInside'
    BY <2>1, <2>2, <2>3, Kinds DEF OneInside, FsSteps, IoSteps
  <2>5. CallReady(t)'
    BY <2>3 DEF CallReady, NextStep, IoSteps
  <2>6. ASSUME NEW u \in FsUsers, u # t PROVE CallReady(u)'
    <3>1. CallReady(u) /\ pc'[u] = pc[u] /\ call'[u] = call[u]
      BY <2>2, <2>6 DEF CallsReady
    <3> QED
      BY <2>1, <3>1 DEF CallReady, NextStep, Cached, Unsynced
  <2> QED
    BY <2>4, <2>5, <2>6 DEF CallsReady
<1>10. ASSUME NEW t \in FsUsers, device_done(t) PROVE Goal
  <2>1. t \in inflight /\ pc[t] \in IoSteps
    BY <1>10 DEF device_done, InOnePlace, IoSteps
  <2>2. UNCHANGED <<pc, cache, fs_lock, call>>
    BY <1>10 DEF device_done, cpu, fs
  <2>3. PICK d : io' = [io EXCEPT ![t].data = d]
    <3>1. io = [io EXCEPT ![t].data = io[t].data]
      BY <1>p DEF Requests
    <3> QED
      BY <1>10, <3>1 DEF device_done
  <2>4. /\ io'[t].op = io[t].op /\ io'[t].block = io[t].block /\ io'[t].then = io[t].then
        /\ \A u \in FsUsers \ {t} : io'[u] = io[u]
    BY <1>p, <2>3 DEF Requests
  <2>5. OneInside'
    BY <2>2, <2>4 DEF OneInside
  <2>6. ASSUME NEW u \in FsUsers PROVE CallReady(u)'
    <3>1. CallReady(u) /\ io'[u].op = io[u].op /\ io'[u].block = io[u].block /\ io'[u].then = io[u].then
      BY <2>4 DEF CallsReady
    <3> QED
      BY <2>2, <3>1 DEF CallReady, NextStep, Cached, Unsynced
  <2> QED
    BY <2>5, <2>6 DEF CallsReady
<1> HIDE DEF Goal
<1>11. ASSUME NEW t \in FsUsers, FsMoves(t) PROVE Goal
  <2>1. CASE (schedule(t) /\ pc[t] = "switch_io") \/ io_enter(t) \/ io_submit(t) \/ io_drop(t)
    BY <1>3, <2>1, IoSteppings
  <2> QED
    BY Zenon, <1>2, <1>4, <1>5, <1>6, <1>7, <1>8, <1>9, <1>10, <1>11, <2>1 DEF FsMoves
<1> QED
  BY <1>1, <1>11, Frames DEF Goal

-----------------------------------------------------------------------------
(* The contents of the blocks                                              *)

\* The part of ContentsKept that the holder of the lock sees, the only one with a
\* request.
ContentsFor(t) ==
  /\ \A i, j \in DOMAIN cache : cache[i].block = cache[j].block => i = j
  /\ \A i \in DOMAIN cache : cache[i].data = written[cache[i].block]
  /\ io[t].op = "write" => io[t].data = written[io[t].block]
  /\ io[t].op = "read" /\ Finished(t) => io[t].data = disk[io[t].block]
  /\ \A b \in Blocks :
       \/ disk[b] = written[b]
       \/ \E i \in DOMAIN cache : cache[i].block = b /\ cache[i].modified
       \/ io[t].op = "write" /\ io[t].block = b /\ ~Finished(t)

\* Inside the file system, the request of the caller is the only one.
LEMMA ContentsSeen ==
  ASSUME OneInside, ContentsKept, NEW t \in FsUsers, pc[t] \in FsSteps \cup IoSteps
  PROVE  ContentsFor(t)
<1>1. \A u \in FsUsers : u = t \/ io[u].op # "write"
  BY OthersOutside DEF None
<1>2. ASSUME NEW b \in Blocks, disk[b] # written[b],
             ~\E i \in DOMAIN cache : cache[i].block = b /\ cache[i].modified
      PROVE  io[t].op = "write" /\ io[t].block = b /\ ~Finished(t)
  <2>1. PICK u \in FsUsers : io[u].op = "write" /\ io[u].block = b /\ ~Finished(u)
    BY Zenon, <1>2 DEF ContentsKept
  <2>2. u = t
    BY <1>1, <2>1
  <2> QED
    BY Zenon, <2>1, <2>2
<1>3. /\ \A i, j \in DOMAIN cache : cache[i].block = cache[j].block => i = j
      /\ \A i \in DOMAIN cache : cache[i].data = written[cache[i].block]
      /\ io[t].op = "write" => io[t].data = written[io[t].block]
      /\ io[t].op = "read" /\ Finished(t) => io[t].data = disk[io[t].block]
  BY DEF ContentsKept
<1> QED
  BY Zenon, <1>2, <1>3 DEF ContentsFor

\* The same, after a step.
LEMMA ContentsSeenAfter ==
  ASSUME OneInside', NEW t \in FsUsers, pc'[t] \in FsSteps \cup IoSteps,
         ContentsFor(t)', panicked' # "Run out of BlockCache!"
  PROVE  ContentsKept'
<1>1. \A u \in FsUsers : u = t \/ io'[u].op \notin {"read", "write"}
  BY DEF OneInside, None
<1> QED
  BY Zenon, <1>1 DEF ContentsKept, ContentsFor

\* Steps that leave the requests, the cache and the disk alone.
LEMMA ContentsSame ==
  ASSUME ContentsKept, UNCHANGED <<io, disk, cache, written>>,
         panicked' # "Run out of BlockCache!",
         \A u \in FsUsers : Finished(u)' <=> Finished(u)
  PROVE  ContentsKept'
BY DEF ContentsKept

\* No entry to evict is never missing.
LEMMA NeverOut ==
  ASSUME CpuTypes, BlockTypes, CallsReady, ContentsKept, Next
  PROVE  panicked' # "Run out of BlockCache!"
<1>1. panicked # "Run out of BlockCache!"
  BY DEF ContentsKept
<1> QED
  BY <1>1, Frames, GetBlockOutcomes

\* No step loses the contents of a block.
LEMMA ContentsStep ==
  ASSUME CpuTypes, BlockTypes, InOnePlace, OneInside, CallsReady, ContentsKept, Next,
         OneInside'
  PROVE  ContentsKept'
<1>p. pc \in [Tasks -> Steps] /\ io \in [FsUsers -> Requests] /\ call \in [FsUsers -> FsCalls]
  BY DEF CpuTypes, BlockTypes
<1>0. panicked' # "Run out of BlockCache!"
  BY NeverOut
<1>1. CASE FsQuiet
  <2>1. \A u \in FsUsers : Finished(u)' <=> Finished(u)
    BY <1>1 DEF FsQuiet, Finished, CommonSteps
  <2> QED
    BY <1>0, <1>1, <2>1, ContentsSame DEF FsQuiet, fs
<1>2. ASSUME NEW t \in FsUsers, trap_handler(t) \/ lock(t) \/ unlock(t) PROVE ContentsKept'
  <2>1. /\ UNCHANGED <<io, inflight, disk, cache, written>>
        /\ pc[t] \in {"user", "lock", "unlock"} /\ \E x \in {"lock", "get_inode", "ret"} : Goto(t, x)
    BY Zenon, <1>2, Kinds DEF trap_handler, lock, unlock, blk
  <2>2. \A u \in FsUsers : Finished(u)' <=> Finished(u)
    BY <1>p, <2>1, Kinds DEF Goto, Finished
  <2> QED
    BY <1>0, <2>1, <2>2, ContentsSame
<1>3. ASSUME NEW t \in FsUsers, IoMoves(t) PROVE ContentsKept'
  <2>1. ASSUME NEW u \in FsUsers PROVE Finished(u)' <=> Finished(u)
    <3>1. u # t => pc'[u] = pc[u] /\ (u \in inflight' <=> u \in inflight)
      BY <1>3, <1>p, Kinds DEF IoMoves, Goto
    <3> QED
      BY <1>3, <3>1 DEF IoMoves, Finished
  <2> QED
    BY <1>0, <1>3, <2>1, ContentsSame DEF IoMoves
<1>4. ASSUME NEW t \in FsUsers, io_done(t) PROVE ContentsKept'
  <2> DEFINE e == [block |-> io[t].block, data |-> io[t].data, modified |-> FALSE]
  <2>1. /\ current = t /\ pc[t] = "io_done" /\ pc' = [pc EXCEPT ![t] = io[t].then]
        /\ io' = [io EXCEPT ![t] = NoIo]
        /\ cache' = IF io[t].op = "read" THEN Append(cache, e) ELSE cache
        /\ UNCHANGED <<disk, written, inflight>>
    BY Zenon, <1>4 DEF io_done, Goto, Runs
  <2>2. Finished(t)
    BY <2>1, Kinds DEF Finished, InOnePlace
  <2>3. ContentsFor(t) /\ pc[t] \in IoSteps /\ io[t].op \in {"read", "write"} /\ CallReady(t)
    BY <1>p, <2>1, ContentsSeen DEF CallsReady, OneInside, IoSteps, Requests
  <2>4. pc'[t] \in FsSteps
    <3>1. pc'[t] = io[t].then
      BY <1>p, <2>1, Kinds
    <3> QED
      BY <2>3, <3>1 DEF CallReady, FsSteps
  <2>5. io'[t].op \notin {"read", "write"}
    BY <1>p, <2>1 DEF NoIo, None
  <2>6. ContentsFor(t)'
    <3>1. CASE io[t].op = "write"
      BY Zenon, <2>1, <2>2, <2>3, <2>5, <3>1 DEF ContentsFor
    <3>2. CASE io[t].op = "read"
      <4>1. io[t].block \in Blocks /\ Cached(io[t].block) = {} /\ io[t].data = written[io[t].block]
        BY Zenon, <1>p, <2>2, <2>3, <3>2 DEF ContentsFor, CallReady, Cached, Requests
      <4>2. e \in Entries
        BY <1>p DEF Entries, Requests
      <4>3. /\ DOMAIN cache' = DOMAIN cache \cup {Len(cache) + 1} /\ Len(cache) + 1 \notin DOMAIN cache
            /\ \A i \in DOMAIN cache : cache'[i] = cache[i]
            /\ cache'[Len(cache) + 1] = e
        BY <2>1, <3>2, <4>2, CacheFacts DEF BlockTypes
      <4>4. e.block = io[t].block /\ e.data = io[t].data
        OBVIOUS
      <4> HIDE DEF e
      <4>5. \A i, j \in DOMAIN cache' : cache'[i].block = cache'[j].block => i = j
        BY <2>3, <4>1, <4>3, <4>4 DEF ContentsFor, Cached
      <4> QED
        BY <2>1, <2>3, <2>5, <3>2, <4>1, <4>3, <4>4, <4>5 DEF ContentsFor
    <3> QED
      BY <2>3, <3>1, <3>2
  <2> QED
    BY <1>0, <2>4, <2>6, ContentsSeenAfter
<1>5. ASSUME NEW t \in FsUsers, get_block_cache(t) PROVE ContentsKept'
  <2>1. /\ pc[t] \in FsSteps /\ pc[t] \notin IoSteps /\ After(t) \in FsSteps /\ After(t) \notin IoSteps
        /\ UNCHANGED <<inflight, disk, written>>
    BY Zenon, <1>5, GetBlockOutcomes DEF FsSteps, IoSteps, After
  <2>2. ContentsFor(t) /\ io[t].op = None
    BY Zenon, <2>1, ContentsSeen DEF OneInside
  <2>3. CASE Goto(t, After(t)) /\ UNCHANGED <<io, cache>>
    <3>1. pc'[t] = After(t)
      BY <1>p, <2>3, Kinds DEF Goto
    <3>2. ContentsFor(t)'
      BY <2>1, <2>2, <2>3 DEF ContentsFor, None
    <3> QED
      BY <1>0, <2>1, <3>1, <3>2, ContentsSeenAfter
  <2>4. ASSUME NEW op, NEW b, NEW d, NEW s, Request(t, op, b, d, s)
        PROVE  /\ io'[t].op = op /\ io'[t].block = b /\ io'[t].data = d
               /\ ~Finished(t)' /\ pc'[t] \in IoSteps
    <3>1. pc'[t] = "io_enter" /\ io'[t] = [op |-> op, block |-> b, data |-> d, then |-> s]
      BY <1>p, <2>4, Kinds DEF Request, Goto
    <3> QED
      BY <3>1 DEF Finished, IoSteps
  <2>5. ASSUME UNCHANGED cache, Request(t, "read", Wanted(t), Blank, After(t))
        PROVE  ContentsKept'
    <3>1. io'[t].op = "read" /\ ~Finished(t)' /\ pc'[t] \in IoSteps
      BY <2>4, <2>5
    <3>2. ContentsFor(t)'
      BY Zenon, <2>1, <2>2, <2>5, <3>1 DEF ContentsFor, None
    <3> QED
      BY <1>0, <3>1, <3>2, ContentsSeenAfter
  <2>6. ASSUME NEW i \in DOMAIN cache, cache' = drain(cache, i),
               IF cache[i].modified
               THEN Request(t, "write", cache[i].block, cache[i].data, pc[t])
               ELSE Request(t, "read", Wanted(t), Blank, After(t))
        PROVE  ContentsKept'
    <3>1. /\ DOMAIN cache' = 1 .. Len(cache) - 1 /\ DOMAIN cache = 1..Len(cache) /\ Len(cache) \in Nat
          /\ \A j \in 1 .. Len(cache) - 1 : cache'[j] = IF j < i THEN cache[j] ELSE cache[j + 1]
      BY Zenon, <2>6, DrainOutcome DEF BlockTypes
    <3>2. /\ ~Finished(t)' /\ pc'[t] \in IoSteps
          /\ IF cache[i].modified
             THEN io'[t].op = "write" /\ io'[t].block = cache[i].block /\ io'[t].data = cache[i].data
             ELSE io'[t].op = "read"
      BY Zenon, <2>4, <2>6
    <3>3. \A j \in DOMAIN cache' : \E k \in DOMAIN cache \ {i} :
            /\ cache'[j] = cache[k] /\ k = IF j < i THEN j ELSE j + 1
      BY <3>1
    <3>4. \A k \in DOMAIN cache \ {i} : \E j \in DOMAIN cache' : cache'[j] = cache[k]
      <4> TAKE k \in DOMAIN cache \ {i}
      <4>1. CASE k < i
        BY <3>1, <4>1
      <4>2. CASE ~(k < i)
        <5>1. k - 1 \in DOMAIN cache' /\ ~(k - 1 < i) /\ k - 1 + 1 = k
          BY <3>1, <4>2
        <5> QED
          BY <3>1, <5>1
      <4> QED
        BY <4>1, <4>2
    <3>5. ASSUME NEW j \in DOMAIN cache', NEW l \in DOMAIN cache', cache'[j].block = cache'[l].block
          PROVE  j = l
      <4>1. PICK k \in DOMAIN cache \ {i} : cache'[j] = cache[k] /\ k = IF j < i THEN j ELSE j + 1
        BY <3>3
      <4>2. PICK m \in DOMAIN cache \ {i} : cache'[l] = cache[m] /\ m = IF l < i THEN l ELSE l + 1
        BY <3>3
      <4>3. k = m
        BY <2>2, <3>5, <4>1, <4>2 DEF ContentsFor
      <4> QED
        BY <3>1, <4>1, <4>2, <4>3
    <3>6. \A j \in DOMAIN cache' : cache'[j].data = written'[cache'[j].block]
      BY <2>1, <2>2, <3>3 DEF ContentsFor
    <3>7. ASSUME NEW b \in Blocks, disk'[b] # written'[b]
          PROVE  \/ \E j \in DOMAIN cache' : cache'[j].block = b /\ cache'[j].modified
                 \/ io'[t].op = "write" /\ io'[t].block = b /\ ~Finished(t)'
      <4>1. PICK k \in DOMAIN cache : cache[k].block = b /\ cache[k].modified
        BY <2>1, <2>2, <3>7 DEF ContentsFor, None
      <4>2. CASE k = i
        BY Zenon, <3>2, <4>1, <4>2
      <4>3. CASE k # i
        BY <3>4, <4>1, <4>3
      <4> QED
        BY <4>2, <4>3
    <3>8. io'[t].op = "write" => io'[t].data = written'[io'[t].block]
      BY <2>1, <2>2, <3>2 DEF ContentsFor
    <3>9. ContentsFor(t)'
      BY Zenon, <3>2, <3>5, <3>6, <3>7, <3>8 DEF ContentsFor
    <3> QED
      BY <1>0, <3>2, <3>9, ContentsSeenAfter
  <2> QED
    BY Zenon, <1>5, <2>3, <2>5, <2>6, GetBlockOutcomes
<1>6. ASSUME NEW t \in FsUsers, access(t) PROVE ContentsKept'
  <2> DEFINE b == Head(call[t].blocks)
  <2>1. /\ pc[t] = "access" /\ pc[t] \in FsSteps /\ pc[t] \notin IoSteps /\ b \in Blocks
        /\ UNCHANGED <<io, inflight, disk>>
        /\ DOMAIN cache' = DOMAIN cache
        /\ \A i \in DOMAIN cache : cache'[i].block = cache[i].block
    BY <1>6, AccessOutcome, BlockFacts DEF FsSteps, IoSteps
  <2>2. pc'[t] \in FsSteps
    BY <1>6, <1>p, AccessOutcome, Kinds DEF Goto, FsSteps
  <2>3. ContentsFor(t) /\ io[t].op = None /\ CallReady(t)
    BY Zenon, <2>1, ContentsSeen DEF OneInside, CallsReady
  <2>4. PICK k \in DOMAIN cache : cache[k].block = b
    BY <2>1, <2>3 DEF CallReady, Cached
  <2>5. CASE call[t].op = "read"
    <3>1. UNCHANGED <<cache, written>>
      BY <1>6, <2>5, AccessOutcome
    <3>2. ContentsFor(t)'
      BY Zenon, <2>1, <2>3, <3>1 DEF ContentsFor, None
    <3> QED
      BY <1>0, <2>2, <3>2, ContentsSeenAfter
  <2>6. CASE call[t].op # "read"
    <3>1. /\ written' = [written EXCEPT ![b] = call[t].data]
          /\ \A i \in DOMAIN cache :
               /\ cache'[i].data = IF cache[i].block = b THEN call[t].data ELSE cache[i].data
               /\ cache[i].modified \/ cache[i].block = b => cache'[i].modified
      BY <1>6, <2>6, AccessOutcome
    <3> HIDE DEF b
    <3>2. /\ written'[b] = call[t].data /\ \A c \in Blocks : c # b => written'[c] = written[c]
      BY <2>1, <3>1 DEF BlockTypes
    <3>3. \A i \in DOMAIN cache : cache[i].block \in Blocks
      BY CacheFacts DEF Entries
    <3>4. \A i \in DOMAIN cache' : cache'[i].data = written'[cache'[i].block]
      <4> SUFFICES ASSUME NEW i \in DOMAIN cache
                   PROVE  cache'[i].data = written'[cache'[i].block]
        BY Zenon, <2>1
      <4>1. cache[i].data = written[cache[i].block] /\ cache'[i].block = cache[i].block
        BY Zenon, <2>1, <2>3 DEF ContentsFor
      <4>2. CASE cache[i].block = b
        BY Zenon, <3>1, <3>2, <4>1, <4>2
      <4>3. CASE cache[i].block # b
        BY Zenon, <3>1, <3>2, <3>3, <4>1, <4>3
      <4> QED
        BY Zenon, <4>2, <4>3
    <3>5. \A c \in Blocks : \/ disk'[c] = written'[c]
                            \/ \E i \in DOMAIN cache' : cache'[i].block = c /\ cache'[i].modified
      <4> SUFFICES ASSUME NEW c \in Blocks
                   PROVE  \/ disk'[c] = written'[c]
                          \/ \E i \in DOMAIN cache' : cache'[i].block = c /\ cache'[i].modified
        BY Zenon
      <4>1. CASE c = b
        BY Zenon, <2>1, <2>4, <3>1, <4>1
      <4>2. CASE c # b
        <5>1. io[t].op # "write"
          BY <2>3 DEF None
        <5>2. disk[c] = written[c] \/ \E i \in DOMAIN cache : cache[i].block = c /\ cache[i].modified
          BY Zenon, <2>3, <5>1 DEF ContentsFor
        <5>3. CASE disk[c] = written[c]
          BY Zenon, <2>1, <3>2, <4>2, <5>3
        <5>4. ASSUME NEW i \in DOMAIN cache, cache[i].block = c, cache[i].modified
              PROVE  i \in DOMAIN cache' /\ cache'[i].block = c /\ cache'[i].modified
          BY Zenon, <2>1, <3>1, <5>4
        <5> QED
          BY Zenon, <5>2, <5>3, <5>4
      <4> QED
        BY Zenon, <4>1, <4>2
    <3>6. \A i, j \in DOMAIN cache' : cache'[i].block = cache'[j].block => i = j
      BY <2>1, <2>3 DEF ContentsFor
    <3>7. ContentsFor(t)'
      BY Zenon, <2>1, <2>3, <3>4, <3>5, <3>6 DEF ContentsFor, None
    <3> QED
      BY <1>0, <2>2, <3>7, ContentsSeenAfter
  <2> QED
    BY <2>5, <2>6
<1>7. ASSUME NEW t \in FsUsers, block_cache_sync_all(t) PROVE ContentsKept'
  <2>1. pc[t] \in FsSteps /\ pc[t] \notin IoSteps /\ UNCHANGED <<inflight, disk, written>>
    BY <1>7, SyncOutcomes DEF FsSteps, IoSteps
  <2>2. ContentsFor(t) /\ io[t].op = None
    BY <2>1, ContentsSeen DEF OneInside
  <2>3. CASE Goto(t, "unlock") /\ UNCHANGED <<io, cache>>
    <3>1. pc'[t] = "unlock" /\ pc'[t] \in FsSteps
      BY <1>p, <2>3, Kinds DEF Goto, FsSteps
    <3>2. ContentsFor(t)'
      BY Zenon, <2>1, <2>2, <2>3 DEF ContentsFor, None
    <3> QED
      BY <1>0, <3>1, <3>2, ContentsSeenAfter
  <2>4. ASSUME NEW i \in DOMAIN cache, cache[i].modified,
               cache' = [cache EXCEPT ![i].modified = FALSE],
               Request(t, "write", cache[i].block, cache[i].data, "sync")
        PROVE  ContentsKept'
    <3>1. /\ pc'[t] = "io_enter"
          /\ io'[t] = [op |-> "write", block |-> cache[i].block, data |-> cache[i].data, then |-> "sync"]
      BY <1>p, <2>4, Kinds DEF Request, Goto
    <3>2. /\ io'[t].op = "write" /\ io'[t].block = cache[i].block /\ io'[t].data = cache[i].data
          /\ ~Finished(t)' /\ pc'[t] \in IoSteps
      BY <3>1 DEF Finished, IoSteps
    <3>3. /\ DOMAIN cache' = DOMAIN cache
          /\ \A j \in DOMAIN cache : cache'[j].block = cache[j].block /\ cache'[j].data = cache[j].data
          /\ \A j \in DOMAIN cache : j # i => cache'[j].modified = cache[j].modified
      BY <2>4, CacheFacts DEF Entries
    <3>4. ContentsFor(t)'
      BY <2>1, <2>2, <2>4, <3>2, <3>3 DEF ContentsFor, None
    <3> QED
      BY <1>0, <3>2, <3>4, ContentsSeenAfter
  <2> QED
    BY <1>7, <2>3, <2>4, SyncOutcomes
<1>8. ASSUME NEW t \in FsUsers, device_done(t) PROVE ContentsKept'
  <2>1. /\ t \in inflight /\ pc[t] \in {"io_queued", "switch_io", "io_done"}
        /\ inflight' = inflight \ {t} /\ UNCHANGED <<pc, cache, written>>
    BY <1>8 DEF device_done, InOnePlace, cpu, fs
  <2>2. ContentsFor(t) /\ io[t].block \in Blocks /\ pc'[t] \in IoSteps /\ Finished(t)' /\ ~Finished(t)
    BY <1>p, <2>1, ContentsSeen DEF IoSteps, Requests, Finished
  <2>3. CASE io[t].op = "write"
    <3>1. disk' = [disk EXCEPT ![io[t].block] = io[t].data] /\ UNCHANGED io
      BY <1>8, <2>3 DEF device_done
    <3>2. ContentsFor(t)'
      BY Zenon, <2>1, <2>2, <2>3, <3>1 DEF ContentsFor, BlockTypes
    <3> QED
      BY <1>0, <2>2, <3>2, ContentsSeenAfter
  <2>4. CASE io[t].op # "write"
    <3>1. io' = [io EXCEPT ![t].data = disk[io[t].block]] /\ UNCHANGED disk
      BY <1>8, <2>4 DEF device_done
    <3>2. io'[t].op = io[t].op /\ io'[t].block = io[t].block /\ io'[t].data = disk[io[t].block]
      BY <1>p, <3>1 DEF Requests
    <3>3. ContentsFor(t)'
      BY <2>1, <2>2, <2>4, <3>1, <3>2 DEF ContentsFor
    <3> QED
      BY <1>0, <2>2, <3>3, ContentsSeenAfter
  <2> QED
    BY <2>3, <2>4
<1>9. ASSUME NEW t \in FsUsers, FsMoves(t) PROVE ContentsKept'
  <2>1. CASE (schedule(t) /\ pc[t] = "switch_io") \/ io_enter(t) \/ io_submit(t) \/ io_drop(t)
    BY <1>3, <2>1, IoSteppings
  <2> QED
    BY Zenon, <1>2, <1>4, <1>5, <1>6, <1>7, <1>8, <1>9, <2>1 DEF FsMoves
<1> QED
  BY <1>1, <1>9, Frames
-----------------------------------------------------------------------------
(* The results                                                             *)

\* A queue without duplicates is not longer than the set it is filled from.
LEMMA QueueBound ==
  ASSUME NEW S, IsFiniteSet(S), NEW q \in Seq(S), IsInjective(q)
  PROVE  Len(q) <= Cardinality(S) /\ Len(q) \in Nat /\ Cardinality(S) \in Nat
<1>1. Len(q) \in Nat /\ q \in [1..Len(q) -> S]
  OBVIOUS
<1>2. q \in Injection(1..Len(q), S)
  BY <1>1 DEF Injection, IsInjective
<1>3. Cardinality(1..Len(q)) <= Cardinality(S)
  BY <1>2, FS_Injection DEF ExistsInjection
<1>4. Cardinality(1..Len(q)) = Len(q)
  BY <1>1, FS_Interval
<1> QED
  BY <1>1, <1>3, <1>4, FS_CardinalityType

\* The system boots in a state that satisfies the invariant.
LEMMA InitIInv == Init => IInv
<1> SUFFICES ASSUME Init PROVE IInv
  OBVIOUS
<1> USE Kinds
<1>1. PICK s \in Scenarios :
        /\ ready \in Bijection(1..Cardinality(s.tasks \cup {initproc}), s.tasks \cup {initproc})
        /\ coming = s.sent
  BY Zenon DEF Init
<1>2. ready \in Seq(Tasks) /\ IsInjective(ready)
  <2> DEFINE S == s.tasks \cup {initproc}
  <2>1. S \subseteq Tasks
    BY DeviceAssumption
  <2> HIDE DEF S
  <2>2. IsFiniteSet(S)
    BY <2>1, FS_Subset, DeviceAssumption
  <2>3. Cardinality(S) \in Nat
    BY <2>2, FS_CardinalityType
  <2>4. ready \in [1..Cardinality(S) -> S] /\ IsInjective(ready)
    BY Zenon, <1>1 DEF Bijection, Injection, S
  <2> QED
    BY <2>1, <2>3, <2>4
<1>3. CpuTypes
  <2>1. masking \in Maskings
    <3>1. masking = Unmasked(FALSE)
      BY Zenon DEF Init
    <3> QED
      BY <3>1 DEF Unmasked, Maskings
  <2>2. pc = [t \in Tasks |-> "user"] /\ current = Idle /\ idle_pc = "top" /\ used = <<>> /\ panicked = "no"
    BY Zenon DEF Init
  <2> QED
    BY <1>2, <2>1, <2>2 DEF CpuTypes, Steps, CommonSteps
<1>4. InputTypes
  <2>1. s.sent \in [Inputs -> Nat]
    BY DeviceAssumption
  <2> QED
    BY <1>1, <2>1 DEF Init, InputTypes, Inputs
<1>5. BlockTypes
  <2>1. NoIo \in Requests /\ NoCall \in FsCalls /\ Blank \in Bytes
    BY DEF NoIo, NoCall, Requests, FsCalls, Bytes, Blocks
  <2> QED
    BY <2>1, DeviceAssumption DEF Init, BlockTypes
<1>6. Masked
  BY Zenon DEF Init, Masked, Unmasked, SessionSteps
<1>7. InOnePlace
  <2>1. IsInjective(<<>>) /\ Range(<<>>) = {}
    BY DEF IsInjective, Range
  <2> QED
    BY Zenon, <1>2, <2>1 DEF Init, InOnePlace, Inputs
<1>8. EventSeen
  BY Zenon DEF Init, EventSeen
<1>9. OneInside /\ CallsReady
  BY Zenon DEF Init, OneInside, CallsReady, CallReady, NextStep, NoIo, FsSteps, IoSteps
<1>10. ContentsKept
  BY DEF Init, ContentsKept, NoIo, None
<1> QED
  BY <1>3, <1>4, <1>5, <1>6, <1>7, <1>8, <1>9, <1>10 DEF IInv

\* No step of the processor, of an interrupt or of a device leaves it.
LEMMA NextIInv == IInv /\ [Next]_vars => IInv'
<1>1. ASSUME IInv, Next PROVE IInv'
  <2>1. CpuTypes' /\ Masked' /\ InOnePlace'
    BY <1>1, CpuTypesStep, MaskedStep, InOnePlaceStep DEF IInv
  <2>2. InputTypes' /\ EventSeen'
    BY <1>1, InputTypesStep, EventSeenStep DEF IInv
  <2>3. BlockTypes' /\ OneInside' /\ CallsReady'
    BY <1>1, BlockTypesStep, CallsStep DEF IInv
  <2>4. ContentsKept'
    BY <1>1, <2>3, ContentsStep DEF IInv
  <2> QED
    BY <2>1, <2>2, <2>3, <2>4 DEF IInv
<1>2. ASSUME IInv, UNCHANGED vars PROVE IInv'
  <2> USE <1>2 DEF vars, cpu, input, blk, fs
  <2>1. CpuTypes' /\ Masked' /\ InOnePlace'
    BY DEF IInv, CpuTypes, Masked, InOnePlace
  <2>2. InputTypes' /\ EventSeen' /\ BlockTypes'
    BY DEF IInv, InputTypes, EventSeen, BlockTypes
  <2>3. OneInside' /\ CallsReady'
    BY Zenon DEF IInv, OneInside, CallsReady, CallReady, NextStep, Cached, Unsynced
  <2>4. ContentsKept'
    BY DEF IInv, ContentsKept, Finished
  <2> QED
    BY <2>1, <2>2, <2>3, <2>4 DEF IInv
<1> QED
  BY <1>1, <1>2

\* The inductive invariant holds throughout.
LEMMA Invariance == Spec => []IInv
BY InitIInv, NextIInv, PTL DEF Spec

\* In every reachable state, for any number of tasks, blocks and characters:
\* a session of a driver's cell is that of the task on the processor, interrupts
\* are off inside it, and no interrupt handler finds its driver's cell borrowed
\* (UPIntrFreeCell::exclusive_session, trap_from_kernel).
THEOREM MaskingExact == Spec => []SessionsMasked
<1>1. IInv => SessionsMasked
  <2> SUFFICES ASSUME IInv PROVE SessionsMasked
    OBVIOUS
  <2> USE Kinds
  <2>1. TypeOK
    <3>1. ready \in Seq(Tasks) /\ used \in Seq(Tasks) /\ IsInjective(ready) /\ inflight \subseteq Tasks
      BY DEF IInv, CpuTypes, InOnePlace, BlockTypes
    <3>2. Range(ready) \subseteq Tasks /\ Range(used) \subseteq Tasks
      BY <3>1, QueueEmptyRange
    <3>3. Len(ready) <= Cardinality(Tasks)
      BY Zenon, <3>1, QueueBound, DeviceAssumption
    <3>4. masking \in [sie : BOOLEAN, nested_level : 0..1, sie_before_masking : BOOLEAN]
      BY DEF IInv, CpuTypes, Maskings
    <3> QED
      BY <3>1, <3>2, <3>3, <3>4 DEF IInv, CpuTypes, InputTypes, BlockTypes, Bytes, TypeOK
  <2> DEFINE open == {t \in Tasks : pc[t] \in {"test", "leave", "queued", "io_inside", "io_queued"}}
  <2>2. ASSUME NEW t \in open
        PROVE  current = t /\ masking.nested_level = 1 /\ ~masking.sie
    BY Zenon DEF IInv, Masked, SessionSteps
  <2>3. open = {} => masking.nested_level = 0
    BY DEF IInv, Masked, SessionSteps
  <2>4. panicked # "device"
    BY DEF IInv, Masked
  <2> HIDE DEF open
  <2>5. masking.nested_level = Cardinality(open)
    <3>1. CASE open = {}
      BY <2>3, <3>1, FS_EmptySet
    <3>2. CASE open # {}
      <4>1. open = {current} /\ masking.nested_level = 1
        BY <2>2, <3>2
      <4> QED
        BY <4>1, FS_Singleton
    <3> QED
      BY <3>1, <3>2
  <2>6. open \subseteq {current} /\ (open # {} => ~masking.sie)
    BY <2>2
  <2> QED
    BY Zenon, <2>1, <2>4, <2>5, <2>6 DEF SessionsMasked, open
<1> QED
  BY <1>1, Invariance, PTL

\* In every reachable state, for a cache of any size from two entries on: a block
\* has the contents last written to it, wherever they are, it is cached once, and
\* the cache finds an entry to evict (BlockCacheManager::get_block_cache,
\* BlockCache::sync and drop).
THEOREM CacheIsTransparent == Spec => []CacheTransparent
<1>1. IInv => CacheTransparent
  <2> SUFFICES ASSUME IInv, NEW b \in Blocks
               PROVE  Contents(b) = written[b] /\ Cardinality(Cached(b)) <= 1
    BY DEF CacheTransparent, IInv, ContentsKept
  <2>0. ContentsKept /\ BlockTypes
    BY DEF IInv
  <2>1. \A i \in Cached(b) : i \in DOMAIN cache /\ cache[i].block = b
    BY DEF Cached
  <2>2. ASSUME NEW i \in Cached(b) PROVE cache[i].data = written[b]
    <3>1. cache[i].data = written[cache[i].block]
      BY <2>0, <2>1 DEF ContentsKept
    <3> QED
      BY Zenon, <2>1, <3>1
  <2>3. Cardinality(Cached(b)) <= 1
    <3>1. CASE Cached(b) = {}
      BY <3>1, FS_EmptySet
    <3>2. ASSUME NEW i \in Cached(b) PROVE Cardinality(Cached(b)) = 1
      <4>1. Cached(b) = {i}
        BY Zenon, <2>0, <2>1, <3>2 DEF ContentsKept
      <4> QED
        BY <4>1, FS_Singleton
    <3> QED
      BY <3>1, <3>2
  <2>4. CASE Cached(b) # {}
    <3>1. (CHOOSE i \in Cached(b) : TRUE) \in Cached(b)
      BY Zenon, <2>4
    <3>2. Contents(b) = cache[CHOOSE i \in Cached(b) : TRUE].data
      BY Zenon, <2>4 DEF Contents
    <3> QED
      BY Zenon, <2>2, <2>3, <3>1, <3>2
  <2>5. CASE Cached(b) = {} /\ \E t \in FsUsers : io[t].op = "write" /\ io[t].block = b
    <3> DEFINE t == CHOOSE t \in FsUsers : io[t].op = "write" /\ io[t].block = b
    <3>1. t \in FsUsers /\ io[t].op = "write" /\ io[t].block = b
      BY Zenon, <2>5
    <3>2. Contents(b) = io[t].data
      BY Zenon, <2>5 DEF Contents
    <3> HIDE DEF t
    <3> QED
      BY <2>0, <2>3, <3>1, <3>2 DEF ContentsKept
  <2>6. CASE Cached(b) = {} /\ ~\E t \in FsUsers : io[t].op = "write" /\ io[t].block = b
    <3>1. disk[b] = written[b]
      BY Zenon, <2>0, <2>6 DEF ContentsKept, Cached
    <3> QED
      BY Zenon, <2>3, <2>6, <3>1 DEF Contents
  <2> QED
    BY <2>4, <2>5, <2>6
<1> QED
  BY <1>1, Invariance, PTL

\* In every reachable state: when a call that writes is about to give up the lock
\* of the file system, the whole disk is as the programs wrote it
\* (block_cache_sync_all at the end of Inode::write_at).
THEOREM WritesAreDurable == Spec => []WritesDurable
<1>1. IInv => WritesDurable
  <2> SUFFICES ASSUME IInv, NEW t \in FsUsers, pc[t] = "unlock", call[t].op = "write"
               PROVE  disk = written
    BY DEF WritesDurable
  <2>1. Unsynced = {}
    BY DEF IInv, CallsReady, CallReady
  <2>2. pc[t] \in FsSteps /\ pc[t] \notin IoSteps
    BY DEF FsSteps, IoSteps
  <2>3. ContentsFor(t) /\ io[t].op # "write"
    BY <2>2, ContentsSeen DEF IInv, OneInside, None
  <2>4. \A b \in Blocks : disk[b] = written[b]
    BY Zenon, <2>1, <2>3 DEF ContentsFor, Unsynced
  <2> QED
    BY <2>4 DEF IInv, BlockTypes
<1> QED
  BY <1>1, Invariance, PTL

\* In every reachable state: no program that asks for an event sleeps, for any
\* number of pollers (sys_event_get, between is_empty and read_event).
THEOREM EventGetNeverSleeps == Spec => []EventGetAnswers
<1>1. IInv => EventGetAnswers
  BY DEF IInv, InOnePlace, Inputs, EventGetAnswers
<1> QED
  BY <1>1, Invariance, PTL
=============================================================================
