---------------------------- MODULE Queue_lemmas ----------------------------
(***************************************************************************)
(* Facts about queues without duplicates, which the proofs about the ready *)
(* queue, the wait queues and the lists of processes share.                *)
(***************************************************************************)
EXTENDS Integers, Sequences, Functions, TLAPS

\* An empty queue, and the queue of one task.
LEMMA QueueEmpty ==
  ASSUME NEW S, NEW e \in S
  PROVE  /\ <<>> \in Seq(S) /\ <<e>> \in Seq(S)
         /\ Range(<<>>) = {} /\ Range(<<e>>) = {e}
         /\ Len(<<>>) = 0 /\ Len(<<e>>) = 1
         /\ IsInjective(<<>>) /\ IsInjective(<<e>>)
BY DEF Range, IsInjective

\* A queue is empty exactly when it contains nothing.
LEMMA QueueEmptyRange ==
  ASSUME NEW S, NEW q \in Seq(S)
  PROVE  /\ q = <<>> <=> Range(q) = {}
         /\ q = <<>> <=> Len(q) = 0
         /\ Range(q) \subseteq S
         /\ Len(q) \in Nat
<1>1. Len(q) \in Nat /\ DOMAIN q = 1..Len(q) /\ \A i \in 1..Len(q) : q[i] \in S
  OBVIOUS
<1>2. q = <<>> <=> Len(q) = 0
  BY <1>1
<1>3. Len(q) # 0 => q[1] \in Range(q)
  BY <1>1 DEF Range
<1>4. Len(q) = 0 => Range(q) = {}
  BY <1>1 DEF Range
<1>5. Range(q) \subseteq S
  BY <1>1 DEF Range
<1> QED
  BY <1>1, <1>2, <1>3, <1>4, <1>5

\* The head of a sequence and the rest of it.
LEMMA QueueRest ==
  ASSUME NEW S, NEW q \in Seq(S), q # <<>>
  PROVE  Head(q) \in S /\ Tail(q) \in Seq(S)
OBVIOUS

\* The elements of two sequences one after the other.
LEMMA ConcatElements ==
  ASSUME NEW S, NEW p \in Seq(S), NEW q \in Seq(S)
  PROVE  /\ p \o q \in Seq(S)
         /\ Len(p \o q) = Len(p) + Len(q)
         /\ \A i \in 1 .. Len(p) + Len(q) :
              (p \o q)[i] = IF i <= Len(p) THEN p[i] ELSE q[i - Len(p)]
OBVIOUS

\* push_back of a task.
LEMMA QueuePush ==
  ASSUME NEW S, NEW q \in Seq(S), NEW e \in S
  PROVE  /\ Append(q, e) \in Seq(S)
         /\ Append(q, e) # <<>>
         /\ Len(Append(q, e)) = Len(q) + 1
         /\ Range(Append(q, e)) = Range(q) \cup {e}
         /\ IsInjective(q) /\ e \notin Range(q) => IsInjective(Append(q, e))
<1>1. /\ Append(q, e) \in Seq(S)
      /\ Append(q, e) # <<>>
      /\ Len(Append(q, e)) = Len(q) + 1
      /\ \A i \in 1..Len(q) : Append(q, e)[i] = q[i]
      /\ Append(q, e)[Len(q) + 1] = e
      /\ Len(q) \in Nat /\ DOMAIN q = 1..Len(q)
      /\ DOMAIN Append(q, e) = 1 .. Len(q) + 1
  OBVIOUS
<1>2. Range(Append(q, e)) = Range(q) \cup {e}
  BY <1>1 DEF Range
<1>3. IsInjective(q) /\ e \notin Range(q) => IsInjective(Append(q, e))
  BY <1>1 DEF Range, IsInjective
<1> QED
  BY <1>1, <1>2, <1>3

\* pop_front of a queue that contains no task twice.
LEMMA QueuePop ==
  ASSUME NEW S, NEW q \in Seq(S), q # <<>>, IsInjective(q)
  PROVE  /\ Head(q) \in S
         /\ Head(q) \in Range(q)
         /\ Tail(q) \in Seq(S)
         /\ Len(Tail(q)) = Len(q) - 1
         /\ Range(Tail(q)) = Range(q) \ {Head(q)}
         /\ IsInjective(Tail(q))
<1> DEFINE r == Tail(q)
           n == Len(q)
<1>1. /\ Head(q) \in S /\ Head(q) = q[1]
      /\ r \in Seq(S)
      /\ n \in Nat /\ n >= 1
      /\ Len(r) = n - 1
      /\ DOMAIN q = 1..n /\ DOMAIN r = 1..(n - 1)
      /\ \A i \in 1..(n - 1) : r[i] = q[i + 1]
  OBVIOUS
<1> HIDE DEF r, n
<1>2. IsInjective(r)
  <2> SUFFICES ASSUME NEW i \in 1..(n - 1), NEW j \in 1..(n - 1), r[i] = r[j]
               PROVE  i = j
    BY <1>1 DEF IsInjective
  <2>1. i + 1 \in 1..n /\ j + 1 \in 1..n /\ q[i + 1] = q[j + 1]
    BY <1>1
  <2>2. i + 1 = j + 1
    BY Zenon, <1>1, <2>1 DEF IsInjective
  <2> QED
    BY <2>2
<1>3. Head(q) \in Range(q)
  BY <1>1 DEF Range
<1>4. ASSUME NEW x \in Range(r) PROVE x \in Range(q) /\ x # Head(q)
  <2>1. PICK i \in 1..(n - 1) : x = r[i]
    BY <1>1 DEF Range
  <2>2. x = q[i + 1] /\ i + 1 \in 1..n /\ i + 1 # 1
    BY <1>1, <2>1
  <2>3. q[i + 1] # q[1]
    <3>1. 1 \in 1..n
      BY <1>1
    <3> QED
      BY <1>1, <2>2, <3>1 DEF IsInjective
  <2>4. q[i + 1] \in Range(q)
    BY <1>1, <2>2 DEF Range
  <2> QED
    BY <1>1, <2>2, <2>3, <2>4
<1>5. ASSUME NEW x \in Range(q), x # Head(q) PROVE x \in Range(r)
  <2>1. PICK i \in 1..n : x = q[i]
    BY <1>1 DEF Range
  <2>2. i - 1 \in 1..(n - 1) /\ (i - 1) + 1 = i
    BY <1>1, <1>5, <2>1
  <2>3. r[i - 1] = q[(i - 1) + 1]
    BY <1>1, <2>2
  <2> QED
    BY <1>1, <2>1, <2>2, <2>3 DEF Range
<1>6. Range(r) = Range(q) \ {Head(q)}
  BY <1>4, <1>5
<1> QED
  BY <1>1, <1>2, <1>3, <1>6 DEF r, n

\* A batch of tasks, none of them queued already, pushed back in order.
LEMMA QueueConcat ==
  ASSUME NEW S, NEW p \in Seq(S), NEW q \in Seq(S)
  PROVE  /\ p \o q \in Seq(S)
         /\ Len(p \o q) = Len(p) + Len(q)
         /\ Range(p \o q) = Range(p) \cup Range(q)
         /\ (IsInjective(p) /\ IsInjective(q) /\ Range(p) \cap Range(q) = {})
              => IsInjective(p \o q)
<1>1. /\ p \o q \in Seq(S)
      /\ Len(p \o q) = Len(p) + Len(q)
      /\ Len(p) \in Nat /\ DOMAIN p = 1..Len(p)
      /\ Len(q) \in Nat /\ DOMAIN q = 1..Len(q)
      /\ DOMAIN (p \o q) = 1 .. Len(p) + Len(q)
      /\ \A i \in 1 .. Len(p) + Len(q) :
           (p \o q)[i] = IF i <= Len(p) THEN p[i] ELSE q[i - Len(p)]
  OBVIOUS
<1>2. Range(p \o q) = Range(p) \cup Range(q)
  <2>1. \A i \in 1 .. Len(p) : i \in 1 .. Len(p) + Len(q) /\ (p \o q)[i] = p[i]
    BY <1>1
  <2>2. ASSUME NEW j \in 1 .. Len(q)
        PROVE  Len(p) + j \in 1 .. Len(p) + Len(q) /\ (p \o q)[Len(p) + j] = q[j]
    BY <1>1, <2>2
  <2>3. ASSUME NEW i \in 1 .. Len(p) + Len(q)
        PROVE  (p \o q)[i] \in Range(p) \cup Range(q)
    BY <1>1, <2>3 DEF Range
  <2>4. ASSUME NEW x \in Range(p) PROVE x \in Range(p \o q)
    <3>1. PICK i \in 1 .. Len(p) : x = p[i]
      BY <1>1 DEF Range
    <3> QED
      BY <1>1, <2>1, <3>1 DEF Range
  <2>5. ASSUME NEW x \in Range(q) PROVE x \in Range(p \o q)
    <3>1. PICK j \in 1 .. Len(q) : x = q[j]
      BY <1>1 DEF Range
    <3>2. Len(p) + j \in DOMAIN (p \o q) /\ (p \o q)[Len(p) + j] = x
      BY <1>1, <2>2, <3>1
    <3> QED
      BY Zenon, <3>2 DEF Range
  <2>6. ASSUME NEW x \in Range(p \o q) PROVE x \in Range(p) \cup Range(q)
    BY <1>1, <2>3 DEF Range
  <2> QED
    BY Zenon, <2>4, <2>5, <2>6
<1>3. ASSUME IsInjective(p), IsInjective(q), Range(p) \cap Range(q) = {}
      PROVE  IsInjective(p \o q)
  <2> SUFFICES ASSUME NEW i \in 1 .. Len(p) + Len(q),
                      NEW j \in 1 .. Len(p) + Len(q),
                      (p \o q)[i] = (p \o q)[j]
               PROVE  i = j
    BY <1>1 DEF IsInjective
  <2>1. CASE i <= Len(p) /\ j <= Len(p)
    BY <1>1, <1>3, <2>1 DEF IsInjective
  <2>2. CASE i > Len(p) /\ j > Len(p)
    <3>1. i - Len(p) \in 1..Len(q) /\ j - Len(p) \in 1..Len(q)
      BY <1>1, <2>2
    <3> QED
      BY <1>1, <1>3, <2>2, <3>1 DEF IsInjective
  <2>3. CASE i <= Len(p) /\ j > Len(p)
    <3>1. p[i] \in Range(p) /\ q[j - Len(p)] \in Range(q)
      BY <1>1, <2>3 DEF Range
    <3> QED
      BY <1>1, <1>3, <2>3, <3>1
  <2>4. CASE i > Len(p) /\ j <= Len(p)
    <3>1. p[j] \in Range(p) /\ q[i - Len(p)] \in Range(q)
      BY <1>1, <2>4 DEF Range
    <3> QED
      BY <1>1, <1>3, <2>4, <3>1
  <2> QED
    BY <1>1, <2>1, <2>2, <2>3, <2>4
<1> QED
  BY <1>1, <1>2, <1>3
=============================================================================
