---------------------------- MODULE KernelProofs ----------------------------
(***************************************************************************)
(* The invariants of the kernel of TaskSync.tla, hence of the one of       *)
(* TaskManage.tla, and that it schedules as PrioritySched.tla says.  Three *)
(* parts: lemmas about queues, the ready queues and p_schedtsk, and the    *)
(* wait queues; the kernel's invariant and its theorems; and what the      *)
(* proofs about kernels that extend this one (CommProofs.tla and           *)
(* MutexProofs.tla) need: how tasks come to the queue of an object and     *)
(* leave it.                                                               *)
(***************************************************************************)
EXTENDS TaskSync, SequenceTheorems, WellFoundedInduction, TLAPS

(* A queue is empty or has entries: queue_empty is the test for them.      *)
LEMMA QueueLinked ==
  ASSUME NEW T, NEW q \in Seq(T)
  PROVE  /\ q = <<>> <=> ~(\E x : Linked(q, x))
         /\ \A x : Linked(q, x) => x \in T
         /\ q # <<>> => Head(q) \in T /\ Linked(q, Head(q)) /\ q[1] = Head(q)
         /\ Len(q) \in Nat /\ DOMAIN q = 1 .. Len(q)
<1>1. Len(q) \in Nat /\ DOMAIN q = 1 .. Len(q) /\ q \in [1 .. Len(q) -> T]
  BY LenProperties
<1>2. ASSUME q # <<>>
      PROVE  Head(q) \in T /\ Linked(q, Head(q)) /\ q[1] = Head(q)
  <2>1. Len(q) >= 1
    BY <1>1, <1>2, EmptySeq
  <2>2. Head(q) = q[1]
    BY <1>2, HeadTailProperties
  <2>3. 1 \in DOMAIN q
    BY <1>1, <2>1
  <2> QED
    BY <1>1, <2>1, <2>2, <2>3 DEF Linked
<1>3. q = <<>> => ~(\E x : Linked(q, x))
  BY <1>1, EmptySeq DEF Linked
<1> QED
  BY <1>1, <1>2, <1>3 DEF Linked

(* Insertion at the tail.                                                  *)
LEMMA InsertPrev ==
  ASSUME NEW T, NEW q \in Seq(T), NEW x \in T, Unique(q), ~Linked(q, x)
  PROVE  /\ queue_insert_prev(q, x) \in Seq(T)
         /\ queue_insert_prev(q, x) # <<>>
         /\ Unique(queue_insert_prev(q, x))
         /\ \A y : Linked(queue_insert_prev(q, x), y) <=> Linked(q, y) \/ y = x
         /\ Head(queue_insert_prev(q, x)) = IF q = <<>> THEN x ELSE Head(q)
<1> DEFINE r == Append(q, x)
<1>1. /\ Len(q) \in Nat /\ DOMAIN q = 1 .. Len(q)
      /\ \A i \in 1 .. Len(q) : q[i] \in T
  BY LenProperties
<1>2. /\ r \in Seq(T) /\ Len(r) = Len(q) + 1
      /\ \A i \in 1 .. Len(q) : r[i] = q[i]
      /\ r[Len(q) + 1] = x
  BY <1>1
<1>3. DOMAIN r = 1 .. Len(q) + 1 /\ Len(r) # 0
  BY <1>1, <1>2, LenProperties
<1>4. r # <<>>
  BY <1>3, EmptySeq
<1>5. Unique(r)
  <2> SUFFICES ASSUME NEW i \in 1 .. Len(q) + 1, NEW j \in 1 .. Len(q) + 1,
                      r[i] = r[j]
               PROVE  i = j
    BY <1>3 DEF Unique
  <2>1. CASE i <= Len(q) /\ j <= Len(q)
    BY <1>1, <1>2, <2>1 DEF Unique
  <2>2. CASE i = Len(q) + 1 /\ j <= Len(q)
    BY <1>1, <1>2, <2>2 DEF Linked
  <2>3. CASE i <= Len(q) /\ j = Len(q) + 1
    BY <1>1, <1>2, <2>3 DEF Linked
  <2> QED
    BY <1>1, <2>1, <2>2, <2>3
<1>6. ASSUME NEW y
      PROVE  Linked(r, y) <=> Linked(q, y) \/ y = x
  <2>1. ASSUME Linked(r, y) PROVE Linked(q, y) \/ y = x
    <3>1. PICK i \in 1 .. Len(q) + 1 : r[i] = y
      BY <1>3, <2>1 DEF Linked
    <3>2. i \in 1 .. Len(q) \/ i = Len(q) + 1
      BY <1>1
    <3> QED
      BY <1>1, <1>2, <3>1, <3>2 DEF Linked
  <2>2. ASSUME Linked(q, y) PROVE Linked(r, y)
    <3>1. PICK i \in 1 .. Len(q) : q[i] = y
      BY <1>1, <2>2 DEF Linked
    <3> QED
      BY <1>1, <1>2, <1>3, <3>1 DEF Linked
  <2>3. Linked(r, x)
    BY <1>1, <1>2, <1>3 DEF Linked
  <2> QED
    BY <2>1, <2>2, <2>3
<1>7. Head(r) = r[1]
  BY <1>2, <1>4, QueueLinked
<1>8. Head(r) = IF q = <<>> THEN x ELSE Head(q)
  <2>1. CASE q = <<>>
    BY <1>2, <1>7, <2>1, EmptySeq
  <2>2. CASE q # <<>>
    BY <1>1, <1>2, <1>7, <2>2, EmptySeq, QueueLinked
  <2> QED
    BY <2>1, <2>2
<1> QED
  BY <1>2, <1>4, <1>5, <1>6, <1>8 DEF queue_insert_prev

(* r is q without the entry at p, and q with x inserted at p.              *)
Without(q, p, r) ==
  /\ Len(r) = Len(q) - 1
  /\ \A i \in 1 .. Len(q) - 1 : r[i] = IF i < p THEN q[i] ELSE q[i + 1]

With(q, p, x, r) ==
  /\ Len(r) = Len(q) + 1
  /\ \A i \in 1 .. Len(q) + 1 :
       r[i] = IF i < p THEN q[i] ELSE IF i = p THEN x ELSE q[i - 1]

LEMMA WithoutUnique ==
  ASSUME NEW T, NEW q \in Seq(T), Unique(q), NEW p \in 1 .. Len(q),
         NEW r \in Seq(T), Without(q, p, r)
  PROVE  /\ Unique(r)
         /\ \A y : Linked(r, y) <=> Linked(q, y) /\ y # q[p]
<1> DEFINE n == Len(q)
<1>1. n \in Nat /\ DOMAIN q = 1 .. n /\ DOMAIN r = 1 .. n - 1
  <2>1. Len(r) = n - 1 /\ Len(r) \in Nat /\ n \in Nat
    BY LenProperties DEF Without
  <2> QED
    BY <2>1, LenProperties
<1>2. \A i \in 1 .. n - 1 : r[i] = IF i < p THEN q[i] ELSE q[i + 1]
  BY DEF Without
<1>3. \A l, m \in 1 .. n : q[l] = q[m] => l = m
  BY <1>1 DEF Unique
<1> HIDE DEF n
<1>4. p \in 1 .. n
  BY DEF n
<1>5. Unique(r)
  BY <1>1, <1>2, <1>3, <1>4 DEF Unique
<1>6. ASSUME NEW y
      PROVE  Linked(r, y) <=> Linked(q, y) /\ y # q[p]
  <2>1. ASSUME Linked(r, y) PROVE Linked(q, y) /\ y # q[p]
    <3>1. PICK i \in 1 .. n - 1 : r[i] = y
      BY <1>1, <2>1 DEF Linked
    <3>2. PICK l \in 1 .. n : l # p /\ q[l] = y
      BY <1>1, <1>2, <1>4, <3>1
    <3> QED
      BY <1>1, <1>3, <1>4, <3>2 DEF Linked
  <2>2. ASSUME Linked(q, y), y # q[p] PROVE Linked(r, y)
    <3>1. PICK l \in 1 .. n : q[l] = y
      BY <1>1, <2>2 DEF Linked
    <3>2. CASE l < p
      <4>1. l \in 1 .. n - 1 /\ r[l] = y
        BY <1>1, <1>2, <1>4, <3>1, <3>2
      <4> QED
        BY <1>1, <4>1 DEF Linked
    <3>3. CASE l > p
      <4>1. l - 1 \in 1 .. n - 1 /\ r[l - 1] = y
        BY <1>1, <1>2, <1>4, <3>1, <3>3
      <4> QED
        BY <1>1, <4>1 DEF Linked
    <3> QED
      BY <1>1, <1>4, <2>2, <3>1, <3>2, <3>3
  <2> QED
    BY <2>1, <2>2
<1> QED
  BY <1>5, <1>6

LEMMA WithUnique ==
  ASSUME NEW T, NEW q \in Seq(T), Unique(q), NEW x \in T, ~Linked(q, x),
         NEW p \in 1 .. Len(q) + 1, NEW r \in Seq(T), With(q, p, x, r)
  PROVE  /\ Unique(r)
         /\ \A y : Linked(r, y) <=> Linked(q, y) \/ y = x
<1> DEFINE n == Len(q)
<1>1. n \in Nat /\ DOMAIN q = 1 .. n /\ DOMAIN r = 1 .. n + 1
  <2>1. Len(r) = n + 1 /\ n \in Nat
    BY LenProperties DEF With
  <2> QED
    BY <2>1, LenProperties
<1>2. \A i \in 1 .. n + 1 :
        r[i] = IF i < p THEN q[i] ELSE IF i = p THEN x ELSE q[i - 1]
  BY DEF With
<1>3. \A l, m \in 1 .. n : q[l] = q[m] => l = m
  BY <1>1 DEF Unique
<1>4. \A l \in 1 .. n : q[l] # x
  BY <1>1 DEF Linked
<1> HIDE DEF n
<1>5. p \in 1 .. n + 1
  BY DEF n
<1>6. Unique(r)
  <2> SUFFICES ASSUME NEW i \in 1 .. n + 1, NEW j \in 1 .. n + 1, r[i] = r[j],
                      i < j
               PROVE  FALSE
    BY <1>1 DEF Unique
  <2>1. CASE i = p
    <3>1. j - 1 \in 1 .. n /\ r[j] = q[j - 1] /\ r[i] = x
      BY <1>1, <1>2, <1>5, <2>1
    <3> QED
      BY <1>4, <3>1
  <2>2. CASE j = p
    <3>1. i \in 1 .. n /\ r[i] = q[i] /\ r[j] = x
      BY <1>1, <1>2, <1>5, <2>2
    <3> QED
      BY <1>4, <3>1
  <2>3. CASE i # p /\ j # p
    BY <1>1, <1>2, <1>3, <1>5, <2>3
  <2> QED
    BY <2>1, <2>2, <2>3
<1>7. ASSUME NEW y
      PROVE  Linked(r, y) <=> Linked(q, y) \/ y = x
  <2>1. ASSUME Linked(r, y) PROVE Linked(q, y) \/ y = x
    <3>1. PICK i \in 1 .. n + 1 : r[i] = y
      BY <1>1, <2>1 DEF Linked
    <3>2. y = x \/ \E l \in 1 .. n : q[l] = y
      <4>1. CASE i < p
        <5>1. i \in 1 .. n /\ q[i] = y
          BY <1>1, <1>2, <1>5, <3>1, <4>1
        <5> QED
          BY <5>1
      <4>2. CASE i = p
        BY <1>2, <3>1, <4>2
      <4>3. CASE i > p
        <5>1. i - 1 \in 1 .. n /\ q[i - 1] = y
          BY <1>1, <1>2, <1>5, <3>1, <4>3
        <5> QED
          BY <5>1
      <4> QED
        BY <1>1, <1>5, <4>1, <4>2, <4>3
    <3> QED
      BY <1>1, <3>2 DEF Linked
  <2>2. ASSUME Linked(q, y) PROVE Linked(r, y)
    <3>1. PICK l \in 1 .. n : q[l] = y
      BY <1>1, <2>2 DEF Linked
    <3>2. CASE l < p
      <4>1. l \in 1 .. n + 1 /\ r[l] = y
        BY <1>1, <1>2, <1>5, <3>1, <3>2
      <4> QED
        BY <1>1, <4>1 DEF Linked
    <3>3. CASE l >= p
      <4>1. l + 1 \in 1 .. n + 1 /\ r[l + 1] = y
        BY <1>1, <1>2, <1>5, <3>1, <3>3
      <4> QED
        BY <1>1, <4>1 DEF Linked
    <3> QED
      BY <1>1, <1>5, <3>1, <3>2, <3>3
  <2>3. Linked(r, x)
    BY <1>1, <1>2, <1>5 DEF Linked
  <2> QED
    BY <2>1, <2>2, <2>3
<1> QED
  BY <1>6, <1>7

(* queue_delete and queue_delete_next.                                     *)
LEMMA DeleteAt ==
  ASSUME NEW T, NEW q \in Seq(T), NEW x, Linked(q, x)
  PROVE  /\ queue_delete(q, x) \in Seq(T)
         /\ \E p \in 1 .. Len(q) : q[p] = x /\ Without(q, p, queue_delete(q, x))
<1> DEFINE n == Len(q)
           p == Position(q, x)
           a == SubSeq(q, 1, p - 1)
           b == SubSeq(q, p + 1, n)
           r == a \o b
<1>1. n \in Nat /\ DOMAIN q = 1 .. n /\ \A i \in 1 .. n : q[i] \in T
  BY LenProperties
<1>2. p \in 1 .. n /\ q[p] = x
  BY <1>1 DEF Position, Linked
<1>3. /\ a \in Seq(T) /\ Len(a) = p - 1
      /\ \A i \in 1 .. p - 1 : a[i] = q[i]
  <2>1. \A i \in 1 .. p - 1 : q[i] \in T
    BY <1>1, <1>2
  <2> HIDE DEF p
  <2> QED
    BY <1>1, <1>2, <2>1, SubSeqProperties, Z3T(30)
<1>4. /\ b \in Seq(T) /\ Len(b) = n - p
      /\ \A i \in 1 .. n - p : b[i] = q[p + i]
  <2>1. \A i \in p + 1 .. n : q[i] \in T
    BY <1>1, <1>2
  <2> HIDE DEF p, n
  <2>2. /\ b \in Seq(T) /\ Len(b) = IF p + 1 <= n THEN n - (p + 1) + 1 ELSE 0
        /\ \A i \in 1 .. n - (p + 1) + 1 : b[i] = q[p + 1 + i - 1]
    BY <1>1, <1>2, <2>1, SubSeqProperties, Z3T(30)
  <2> QED
    BY <1>1, <1>2, <2>2
<1> HIDE DEF p, a, b
<1>5. /\ r \in Seq(T) /\ Len(r) = n - 1
      /\ \A i \in 1 .. n - 1 : r[i] = IF i < p THEN q[i] ELSE q[i + 1]
  <2>1. /\ r \in Seq(T) /\ Len(r) = Len(a) + Len(b)
        /\ \A i \in 1 .. Len(a) + Len(b) :
             r[i] = IF i <= Len(a) THEN a[i] ELSE b[i - Len(a)]
    BY <1>3, <1>4, ConcatProperties
  <2> HIDE DEF r, n
  <2> QED
    BY <1>1, <1>2, <1>3, <1>4, <2>1
<1>6. queue_delete(q, x) = r
  BY DEF queue_delete, RemoveAt, a, b, p
<1> HIDE DEF r
<1> QED
  BY <1>2, <1>5, <1>6 DEF Without

LEMMA DeleteFirst ==
  ASSUME NEW T, NEW q \in Seq(T), q # <<>>
  PROVE  /\ queue_delete_next(q) \in Seq(T)
         /\ 1 \in 1 .. Len(q) /\ q[1] = Head(q)
         /\ Without(q, 1, queue_delete_next(q))
<1> DEFINE n == Len(q)
           t == Tail(q)
<1>1. n \in Nat /\ n # 0
  BY LenProperties, EmptySeq
<1>2. /\ t \in Seq(T) /\ Len(t) = n - 1 /\ Head(q) = q[1]
      /\ \A i \in 1 .. n - 1 : t[i] = q[i + 1]
  BY HeadTailProperties
<1> HIDE DEF t
<1>3. Without(q, 1, t)
  <2>1. \A i \in 1 .. n - 1 : t[i] = IF i < 1 THEN q[i] ELSE q[i + 1]
    BY <1>1, <1>2
  <2> QED
    BY <1>2, <2>1 DEF Without
<1> QED
  BY <1>1, <1>2, <1>3 DEF queue_delete_next, t

(* Deletion of a linked entry.                                             *)
LEMMA Delete ==
  ASSUME NEW T, NEW q \in Seq(T), NEW x \in T, Unique(q), Linked(q, x)
  PROVE  /\ queue_delete(q, x) \in Seq(T)
         /\ Unique(queue_delete(q, x))
         /\ \A y : Linked(queue_delete(q, x), y) <=> Linked(q, y) /\ y # x
         /\ Head(q) # x => /\ queue_delete(q, x) # <<>>
                           /\ Head(queue_delete(q, x)) = Head(q)
<1> DEFINE n == Len(q)
           r == queue_delete(q, x)
<1>1. r \in Seq(T)
  BY DeleteAt
<1>2. PICK p \in 1 .. n : q[p] = x /\ Without(q, p, r)
  BY DeleteAt
<1> HIDE DEF r
<1>3. Unique(r) /\ \A y : Linked(r, y) <=> Linked(q, y) /\ y # x
  BY <1>1, <1>2, WithoutUnique
<1>4. ASSUME Head(q) # x PROVE r # <<>> /\ Head(r) = Head(q)
  <2>1. q # <<>> /\ Head(q) = q[1] /\ n \in Nat
    BY QueueLinked
  <2>2. p > 1 /\ n - 1 >= 1
    BY <1>2, <1>4, <2>1
  <2>3. r[1] = q[1] /\ Len(r) = n - 1
    BY <1>2, <2>1, <2>2 DEF Without
  <2>4. r # <<>>
    BY <2>2, <2>3, EmptySeq
  <2> QED
    BY <1>1, <2>1, <2>3, <2>4, QueueLinked
<1> QED
  BY <1>1, <1>3, <1>4 DEF r

(* Insertion at any place.                                                 *)
LEMMA InsertAtWith ==
  ASSUME NEW T, NEW q \in Seq(T), NEW x \in T, NEW p \in 1 .. Len(q)
  PROVE  InsertAt(q, p, x) \in Seq(T) /\ With(q, p, x, InsertAt(q, p, x))
<1> DEFINE n == Len(q)
           a == SubSeq(q, 1, p - 1)
           b == SubSeq(q, p, n)
           c == a \o <<x>>
           r == c \o b
<1>1. n \in Nat /\ p \in 1 .. n /\ \A i \in 1 .. n : q[i] \in T
  BY LenProperties
<1>2. /\ a \in Seq(T) /\ Len(a) = p - 1
      /\ \A i \in 1 .. p - 1 : a[i] = q[i]
  <2>1. \A i \in 1 .. p - 1 : q[i] \in T
    BY <1>1
  <2> QED
    BY <1>1, <2>1, SubSeqProperties, Z3T(30)
<1>3. /\ b \in Seq(T) /\ Len(b) = n - p + 1
      /\ \A i \in 1 .. n - p + 1 : b[i] = q[p + i - 1]
  <2>1. \A i \in p .. n : q[i] \in T
    BY <1>1
  <2> QED
    BY <1>1, <2>1, SubSeqProperties, Z3T(30)
<1> HIDE DEF a, b
<1>4. /\ c \in Seq(T) /\ Len(c) = p
      /\ \A i \in 1 .. p : c[i] = IF i < p THEN q[i] ELSE x
  <2>1. <<x>> \in Seq(T) /\ Len(<<x>>) = 1 /\ <<x>>[1] = x
    OBVIOUS
  <2>2. /\ c \in Seq(T) /\ Len(c) = Len(a) + Len(<<x>>)
        /\ \A i \in 1 .. Len(a) + Len(<<x>>) :
             c[i] = IF i <= Len(a) THEN a[i] ELSE <<x>>[i - Len(a)]
    BY <1>2, <2>1, ConcatProperties
  <2> HIDE DEF c
  <2> QED
    BY <1>1, <1>2, <2>1, <2>2
<1> HIDE DEF c
<1>5. /\ r \in Seq(T) /\ Len(r) = Len(c) + Len(b)
      /\ \A i \in 1 .. Len(c) + Len(b) :
           r[i] = IF i <= Len(c) THEN c[i] ELSE b[i - Len(c)]
  BY <1>3, <1>4, ConcatProperties
<1>6. InsertAt(q, p, x) = r
  BY DEF InsertAt, a, b, c
<1> HIDE DEF r
<1>7. With(q, p, x, r)
  <2> HIDE DEF n
  <2>1. Len(r) = n + 1
    BY <1>1, <1>3, <1>4, <1>5
  <2>2. ASSUME NEW i \in 1 .. n + 1
        PROVE  r[i] = IF i < p THEN q[i] ELSE IF i = p THEN x ELSE q[i - 1]
    <3>1. CASE i <= p
      BY <1>1, <1>3, <1>4, <1>5, <3>1
    <3>2. CASE i > p
      <4>1. r[i] = b[i - p] /\ i - p \in 1 .. n - p + 1
        BY <1>1, <1>3, <1>4, <1>5, <3>2
      <4>2. b[i - p] = q[p + (i - p) - 1]
        BY <1>3, <4>1
      <4>3. p + (i - p) - 1 = i - 1 /\ ~(i < p) /\ i # p
        BY <1>1, <3>2
      <4> QED
        BY <4>1, <4>2, <4>3
    <3> QED
      BY <1>1, <3>1, <3>2
  <2> QED
    BY <2>1, <2>2 DEF With, n
<1> QED
  BY <1>5, <1>6, <1>7

(* Rotation: the first entry becomes the last.                             *)
LEMMA Rotate ==
  ASSUME NEW T, NEW q \in Seq(T), Unique(q), q # <<>>
  PROVE  LET r == queue_insert_prev(queue_delete_next(q), Head(q))
         IN /\ r \in Seq(T)
            /\ r # <<>>
            /\ Unique(r)
            /\ \A y : Linked(r, y) <=> Linked(q, y)
<1> DEFINE n == Len(q)
           t == Tail(q)
<1>1. n \in Nat /\ DOMAIN q = 1 .. n /\ n # 0 /\ \A i \in 1 .. n : q[i] \in T
  BY LenProperties, EmptySeq
<1>2. Head(q) \in T /\ Head(q) = q[1] /\ Linked(q, Head(q))
  BY QueueLinked
<1>3. /\ t \in Seq(T) /\ Len(t) = n - 1
      /\ \A i \in 1 .. n - 1 : t[i] = q[i + 1]
  BY HeadTailProperties
<1>4. DOMAIN t = 1 .. n - 1
  BY <1>3, LenProperties
<1> HIDE DEF n, t
<1>5. \A l, m \in 1 .. n : q[l] = q[m] => l = m
  BY <1>1 DEF Unique
<1>6. Unique(t)
  BY <1>1, <1>3, <1>4, <1>5 DEF Unique
<1>7. ~Linked(t, Head(q))
  BY <1>1, <1>2, <1>3, <1>4, <1>5 DEF Linked
<1>8. ASSUME NEW y PROVE Linked(q, y) <=> Linked(t, y) \/ y = Head(q)
  <2>1. ASSUME Linked(q, y) PROVE Linked(t, y) \/ y = Head(q)
    <3>1. PICK l \in 1 .. n : q[l] = y
      BY <1>1, <2>1 DEF Linked
    <3>2. CASE l = 1
      BY <1>2, <3>1, <3>2
    <3>3. CASE l > 1
      <4>1. l - 1 \in 1 .. n - 1 /\ t[l - 1] = y
        BY <1>1, <1>3, <3>1, <3>3
      <4> QED
        BY <1>4, <4>1 DEF Linked
    <3> QED
      BY <3>2, <3>3
  <2>2. ASSUME Linked(t, y) PROVE Linked(q, y)
    BY <1>1, <1>3, <1>4, <2>2 DEF Linked
  <2> QED
    BY <1>2, <2>1, <2>2
<1> QED
  BY <1>2, <1>3, <1>6, <1>7, <1>8, InsertPrev, ZenonT(60)
  DEF queue_delete_next, t

-----------------------------------------------------------------------------
(* The ready queues.                                                       *)

(* Some bit of the bitmap is set: bitmap_search finds the first one.       *)
LEMMA PrimapSearch ==
  ASSUME NEW S, S.primap \subseteq Pri, S.primap # {}
  PROVE  /\ primap_search(S) \in S.primap
         /\ primap_search(S) \in Pri
         /\ \A q \in S.primap : primap_search(S) <= q
<1>1. TNUM_TPRI \in Nat
  BY TaskAssumption
<1>2. \E p \in S.primap : \A q \in S.primap : p <= q
  <2>1. S.primap \subseteq Nat
    BY <1>1 DEF Pri
  <2>2. PICK p \in S.primap : \A q \in S.primap : <<q, p>> \notin OpToRel(<, Nat)
    BY <2>1, NatLessThanWellFounded, WFMin, Zenon
  <2>3. \A q \in S.primap : q \in Nat /\ p \in Nat => ~(q < p)
    BY <2>2, Zenon DEF OpToRel
  <2> QED
    BY <2>1, <2>3
<1> QED
  BY <1>2 DEF primap_search

(* What the operations on the ready queues leave alone.                    *)
Same(S, R) ==
  /\ R.tstat = S.tstat /\ R.tmo = S.tmo /\ R.waitq = S.waitq
  /\ R.texfrm = S.texfrm /\ R.texlp = S.texlp
  /\ R.runtsk = S.runtsk /\ R.reqflg = S.reqflg
  /\ R.dspflg = S.dspflg /\ R.disdsp = S.disdsp /\ R.ipmflg = S.ipmflg
  /\ R.handlers = S.handlers /\ R.ini = S.ini

(* What an operation returns tells whether a dispatch is needed: only with *)
(* dispatching enabled, and then whenever p_schedtsk has changed.          *)
Tells(S, r) ==
  /\ r.dsp \in BOOLEAN
  /\ r.dsp => S.dspflg
  /\ S.dspflg /\ ~r.dsp => r.st.schedtsk = S.schedtsk

(* Linking t, that is in no ready queue, at the tail of one.               *)
LEMMA LinkReady ==
  ASSUME NEW S \in KernelState, QueuesOK(S), NEW t \in Tasks, t \notin Ready(S),
         NEW pri, S.priority[t] = pri, NEW R, R = Enready(S, t)
  PROVE  /\ R \in KernelState
         /\ QueuesOK(R)
         /\ Ready(R) = Ready(S) \cup {t}
         /\ Same(S, R)
         /\ R.schedtsk = S.schedtsk /\ R.priority = S.priority
         /\ R.primap = S.primap \cup {pri}
         /\ \A p \in Pri : S.readyq[p] # <<>> => Head(R.readyq[p]) = Head(S.readyq[p])
         /\ S.readyq[pri] = <<>> => Head(R.readyq[pri]) = t
<1> DEFINE q == S.readyq[pri]
           a == queue_insert_prev(q, t)
<1>1. /\ S.readyq \in [Pri -> Seq(Tasks)] /\ S.priority \in [Tasks -> Pri]
      /\ S.primap \subseteq Pri /\ pri \in Pri
  BY DEF KernelState
<1>2. Unique(q) /\ ~Linked(q, t)
  BY <1>1 DEF QueuesOK, Ready
<1>3. /\ a \in Seq(Tasks) /\ a # <<>> /\ Unique(a)
      /\ \A y : Linked(a, y) <=> Linked(q, y) \/ y = t
      /\ Head(a) = IF q = <<>> THEN t ELSE Head(q)
  BY <1>1, <1>2, InsertPrev
<1>4. /\ R.readyq = [S.readyq EXCEPT ![pri] = a]
      /\ R.primap = S.primap \cup {pri}
      /\ R.schedtsk = S.schedtsk /\ R.priority = S.priority
      /\ Same(S, R)
  BY DEF KernelState, Same, Enready
<1>5. R \in KernelState
  BY <1>1, <1>3 DEF KernelState, Enready
<1> HIDE DEF a
<1>6. QueuesOK(R)
  <2>1. \A p \in Pri : Unique(R.readyq[p])
    BY <1>1, <1>3, <1>4 DEF QueuesOK
  <2>2. \A p \in Pri : \A i \in DOMAIN R.readyq[p] :
          R.priority[R.readyq[p][i]] = p
    <3> SUFFICES ASSUME NEW p \in Pri, NEW i \in DOMAIN R.readyq[p]
                 PROVE  S.priority[R.readyq[p][i]] = p
      BY <1>4
    <3>1. CASE p = pri
      <4>1. R.readyq[p] = a /\ i \in DOMAIN a
        BY <1>1, <1>4, <3>1
      <4>2. Linked(q, a[i]) \/ a[i] = t
        BY <1>3, <4>1 DEF Linked
      <4> QED
        BY <1>1, <1>4, <3>1, <4>1, <4>2 DEF QueuesOK, Linked
    <3>2. CASE p # pri
      BY <1>1, <1>4, <3>2 DEF QueuesOK
    <3> QED
      BY <3>1, <3>2
  <2>3. R.primap = {p \in Pri : R.readyq[p] # <<>>}
    BY <1>1, <1>3, <1>4 DEF QueuesOK
  <2> QED
    BY <2>1, <2>2, <2>3 DEF QueuesOK
<1>7. Ready(R) = Ready(S) \cup {t}
  <2>1. \A p \in Pri : R.readyq[p] = IF p = pri THEN a ELSE S.readyq[p]
    BY <1>1, <1>4
  <2>2. \A p \in Pri : \A x \in Tasks :
          Linked(R.readyq[p], x) <=> Linked(S.readyq[p], x) \/ (p = pri /\ x = t)
    BY <1>3, <2>1
  <2> HIDE DEF q
  <2> QED
    BY <1>1, <2>2 DEF Ready
<1> QED
  BY <1>1, <1>3, <1>4, <1>5, <1>6, <1>7

(* Unlinking a task from its ready queue.                                  *)
LEMMA UnlinkReady ==
  ASSUME NEW S \in KernelState, QueuesOK(S), NEW t \in Ready(S),
         NEW pri, S.priority[t] = pri, NEW R, R = Unready(S, t)
  PROVE  /\ R \in KernelState
         /\ QueuesOK(R)
         /\ Ready(R) = Ready(S) \ {t}
         /\ Same(S, R)
         /\ R.schedtsk = S.schedtsk /\ R.priority = S.priority
         /\ pri \in S.primap
         /\ \A p \in Pri : p # pri => R.readyq[p] = S.readyq[p]
         /\ Head(S.readyq[pri]) # t =>
              R.readyq[pri] # <<>> /\ Head(R.readyq[pri]) = Head(S.readyq[pri])
<1> DEFINE q == S.readyq[pri]
           d == queue_delete(q, t)
           map == IF queue_empty(d) THEN S.primap \ {pri} ELSE S.primap
<1>1. /\ S.readyq \in [Pri -> Seq(Tasks)] /\ S.priority \in [Tasks -> Pri]
      /\ S.primap \subseteq Pri /\ t \in Tasks /\ pri \in Pri
  BY DEF KernelState, Ready
<1>2. Unique(q) /\ Linked(q, t) /\ \A p \in Pri : Linked(S.readyq[p], t) => p = pri
  BY <1>1 DEF QueuesOK, Ready, Linked
<1>3. /\ d \in Seq(Tasks) /\ Unique(d)
      /\ \A y : Linked(d, y) <=> Linked(q, y) /\ y # t
      /\ Head(q) # t => d # <<>> /\ Head(d) = Head(q)
  BY <1>1, <1>2, Delete
<1>4. /\ R.readyq = [S.readyq EXCEPT ![pri] = d]
      /\ R.primap = map
      /\ R.schedtsk = S.schedtsk /\ R.priority = S.priority
      /\ Same(S, R)
  BY DEF KernelState, Same, Unready
<1>5. R \in KernelState
  BY <1>1, <1>3 DEF KernelState, Unready
<1>6. q # <<>> /\ pri \in S.primap
  BY <1>1, <1>2, QueueLinked DEF QueuesOK
<1> HIDE DEF d
<1>7. \A p \in Pri : R.readyq[p] = IF p = pri THEN d ELSE S.readyq[p]
  BY <1>1, <1>4
<1>8. QueuesOK(R)
  <2>1. \A p \in Pri : Unique(R.readyq[p])
    BY <1>3, <1>7 DEF QueuesOK
  <2>2. \A p \in Pri : \A i \in DOMAIN R.readyq[p] :
          R.priority[R.readyq[p][i]] = p
    <3> SUFFICES ASSUME NEW p \in Pri, NEW i \in DOMAIN R.readyq[p]
                 PROVE  S.priority[R.readyq[p][i]] = p
      BY <1>4
    <3>1. CASE p = pri
      <4>1. R.readyq[p] = d /\ i \in DOMAIN d
        BY <1>7, <3>1
      <4>2. Linked(q, d[i])
        BY <1>3, <4>1 DEF Linked
      <4> QED
        BY <1>1, <3>1, <4>1, <4>2 DEF QueuesOK, Linked
    <3>2. CASE p # pri
      BY <1>7, <3>2 DEF QueuesOK
    <3> QED
      BY <3>1, <3>2
  <2>3. R.primap = {p \in Pri : R.readyq[p] # <<>>}
    <3>1. S.primap = {p \in Pri : S.readyq[p] # <<>>}
      BY DEF QueuesOK
    <3>2. R.primap = IF d = <<>> THEN S.primap \ {pri} ELSE S.primap
      BY <1>4 DEF queue_empty
    <3>3. CASE d = <<>>
      BY <1>1, <1>7, <3>1, <3>2, <3>3
    <3>4. CASE d # <<>>
      BY <1>1, <1>6, <1>7, <3>1, <3>2, <3>4
    <3> QED
      BY <3>3, <3>4
  <2> QED
    BY <2>1, <2>2, <2>3 DEF QueuesOK
<1>9. Ready(R) = Ready(S) \ {t}
  <2>1. \A p \in Pri : \A x \in Tasks :
          Linked(R.readyq[p], x) <=> Linked(S.readyq[p], x) /\ x # t
    BY <1>2, <1>3, <1>7
  <2> QED
    BY <2>1 DEF Ready
<1> QED
  BY <1>1, <1>3, <1>4, <1>5, <1>6, <1>7, <1>8, <1>9

-----------------------------------------------------------------------------
(* p_schedtsk.                                                             *)

(* The first of the highest non-empty queue, found by whatever way.        *)
LEMMA SchedFirst ==
  ASSUME NEW S \in KernelState, QueuesOK(S), NEW p \in S.primap,
         \A q \in S.primap : p <= q
  PROVE  /\ primap_search(S) = p
         /\ search_schedtsk(S) = Head(S.readyq[p])
         /\ Head(S.readyq[p]) \in Ready(S)
         /\ SchedOK(S) <=> S.schedtsk = Head(S.readyq[p])
<1>1. /\ S.readyq \in [Pri -> Seq(Tasks)] /\ S.primap \subseteq Pri
      /\ TNUM_TPRI \in Nat /\ NULL \notin Tasks
  BY TaskAssumption DEF KernelState
<1>2. primap_search(S) = p
  <2>1. p \in Int /\ primap_search(S) \in Int
    BY <1>1, PrimapSearch, SMTT(30) DEF Pri
  <2> QED
    BY <1>1, <2>1, PrimapSearch
<1>3. S.readyq[p] # <<>> /\ S.readyq[p] \in Seq(Tasks) /\ p \in Pri
  BY <1>1 DEF QueuesOK
<1>4. Head(S.readyq[p]) \in Tasks /\ Linked(S.readyq[p], Head(S.readyq[p]))
  BY <1>3, QueueLinked
<1> QED
  BY <1>1, <1>2, <1>3, <1>4 DEF search_schedtsk, Ready, SchedOK

LEMMA PrimapFirst ==
  ASSUME NEW S \in KernelState, QueuesOK(S), S.primap # {}
  PROVE  search_schedtsk(S) \in Ready(S)
<1> DEFINE p == primap_search(S)
<1>1. p \in S.primap /\ \A q \in S.primap : p <= q
  BY PrimapSearch DEF KernelState
<1> QED
  BY <1>1, SchedFirst

(* The scheduled task is ready, and no ready task has a higher priority.   *)
LEMMA SchedTop ==
  ASSUME NEW S \in KernelState, QueuesOK(S), SchedOK(S)
  PROVE  /\ S.schedtsk = NULL <=> S.primap = {}
         /\ Ready(S) = {} <=> S.primap = {}
         /\ S.schedtsk # NULL =>
              LET p == primap_search(S)
              IN /\ p \in S.primap /\ p \in Pri
                 /\ \A q \in S.primap : p <= q
                 /\ S.schedtsk = Head(S.readyq[p])
                 /\ S.schedtsk \in Ready(S)
                 /\ S.priority[S.schedtsk] = p
                 /\ \A x \in Ready(S) : p <= S.priority[x]
<1>1. /\ S.readyq \in [Pri -> Seq(Tasks)] /\ S.primap \subseteq Pri
  BY DEF KernelState
<1>2. \A x \in Ready(S) : S.priority[x] \in S.primap
  <2> SUFFICES ASSUME NEW x \in Ready(S) PROVE S.priority[x] \in S.primap
    OBVIOUS
  <2>1. PICK p \in Pri : Linked(S.readyq[p], x)
    BY DEF Ready
  <2>2. S.priority[x] = p /\ S.readyq[p] # <<>>
    BY <1>1, <2>1, QueueLinked DEF QueuesOK, Linked
  <2> QED
    BY <2>2 DEF QueuesOK
<1>3. CASE S.primap = {}
  BY <1>2, <1>3 DEF SchedOK
<1>4. CASE S.primap # {}
  <2> DEFINE p == primap_search(S)
  <2>1. p \in S.primap /\ p \in Pri /\ \A q \in S.primap : p <= q
    BY <1>1, <1>4, PrimapSearch
  <2> HIDE DEF p
  <2>2. S.schedtsk = Head(S.readyq[p]) /\ S.schedtsk \in Ready(S)
    BY <2>1, SchedFirst
  <2>3. S.priority[S.schedtsk] = p
    <3>1. Linked(S.readyq[p], S.schedtsk)
      BY <1>1, <2>1, <2>2, QueueLinked DEF QueuesOK
    <3> QED
      BY <2>1, <3>1 DEF QueuesOK, Linked
  <2>4. S.schedtsk # NULL
    BY <1>4 DEF SchedOK
  <2> QED
    BY <1>2, <1>4, <2>1, <2>2, <2>3, <2>4 DEF p
<1> QED
  BY <1>3, <1>4

LEMMA MakeRunnable ==
  ASSUME NEW S \in KernelState, QueuesOK(S), SchedOK(S),
         NEW t \in Tasks, t \notin Ready(S),
         NEW r, r = make_runnable(S, t)
  PROVE  /\ r.st \in KernelState /\ QueuesOK(r.st) /\ SchedOK(r.st)
         /\ Ready(r.st) = Ready(S) \cup {t}
         /\ Same(S, r.st) /\ r.st.priority = S.priority
         /\ Tells(S, r)
<1> DEFINE pri == S.priority[t]
           Q == Enready(S, t)
           T == [Q EXCEPT !.schedtsk = t]
           first == S.schedtsk = NULL \/ pri < S.priority[S.schedtsk]
<1>1. /\ S.priority \in [Tasks -> Pri] /\ pri \in Pri /\ S.dspflg \in BOOLEAN
      /\ TNUM_TPRI \in Nat
  BY TaskAssumption DEF KernelState
<1>2. /\ Q \in KernelState
      /\ QueuesOK(Q)
      /\ Ready(Q) = Ready(S) \cup {t}
      /\ Same(S, Q)
      /\ Q.schedtsk = S.schedtsk /\ Q.priority = S.priority
      /\ Q.primap = S.primap \cup {pri}
      /\ \A p \in Pri : S.readyq[p] # <<>> => Head(Q.readyq[p]) = Head(S.readyq[p])
      /\ S.readyq[pri] = <<>> => Head(Q.readyq[pri]) = t
  BY LinkReady
<1>3. r = IF first THEN [st |-> T, dsp |-> S.dspflg]
          ELSE [st |-> Q, dsp |-> FALSE]
  BY DEF make_runnable
<1> HIDE DEF Q
<1>4. CASE first
  <2>1. /\ T \in KernelState /\ Same(Q, T) /\ T.schedtsk = t
        /\ T.readyq = Q.readyq /\ T.primap = Q.primap /\ T.priority = Q.priority
    BY <1>2 DEF KernelState, Same
  <2>2. QueuesOK(T) /\ Ready(T) = Ready(Q)
    BY <1>2, <2>1 DEF QueuesOK, Ready
  <2>3. S.readyq[pri] = <<>> /\ \A q \in T.primap : pri <= q
    <3>1. S.primap \subseteq Pri /\ Pri \subseteq Int
      BY <1>1 DEF KernelState, Pri
    <3>2. \A q \in S.primap : pri < q
      <4>1. CASE S.schedtsk = NULL
        BY <4>1, SchedTop
      <4>2. CASE S.schedtsk # NULL
        <5>1. pri < S.priority[S.schedtsk]
          BY <1>4, <4>2
        <5>2. \A q \in S.primap : S.priority[S.schedtsk] <= q
          BY <4>2, SchedTop
        <5>3. S.priority[S.schedtsk] \in Pri
          BY <4>2, SchedTop
        <5> HIDE DEF pri
        <5> QED
          BY <1>1, <3>1, <5>1, <5>2, <5>3 DEF Pri
      <4> QED
        BY <4>1, <4>2
    <3>3. pri \notin S.primap
      <4> HIDE DEF pri
      <4> QED
        BY <1>1, <3>1, <3>2
    <3> QED
      BY <1>1, <1>2, <2>1, <3>1, <3>2, <3>3 DEF QueuesOK
  <2>4. SchedOK(T)
    BY <1>2, <2>1, <2>2, <2>3, SchedFirst
  <2>5. Same(S, T)
    BY <1>2, <2>1 DEF Same
  <2>6. r.st = T /\ r.dsp = S.dspflg
    <3> HIDE DEF T
    <3>1. r = [st |-> T, dsp |-> S.dspflg]
      BY <1>3, <1>4
    <3> QED
      BY <3>1
  <2> QED
    BY <1>1, <1>2, <2>1, <2>2, <2>4, <2>5, <2>6 DEF Tells
<1>5. CASE ~first
  <2> DEFINE p == primap_search(S)
  <2>1. /\ p \in S.primap /\ p \in Pri /\ \A q \in S.primap : p <= q
        /\ S.schedtsk = Head(S.readyq[p]) /\ S.priority[S.schedtsk] = p
    BY <1>5, SchedTop
  <2> HIDE DEF p
  <2>2. p \in Q.primap /\ \A q \in Q.primap : p <= q
    BY <1>1, <1>2, <1>5, <2>1 DEF Pri
  <2>3. S.readyq[p] # <<>>
    BY <2>1 DEF QueuesOK
  <2>4. SchedOK(Q)
    BY <1>2, <2>1, <2>2, <2>3, SchedFirst
  <2>5. r.st = Q /\ r.dsp = FALSE
    BY <1>3, <1>5
  <2> QED
    BY <1>2, <2>4, <2>5 DEF Tells
<1> QED
  BY <1>4, <1>5

LEMMA MakeNonRunnable ==
  ASSUME NEW S \in KernelState, QueuesOK(S), SchedOK(S), NEW t \in Ready(S),
         NEW r, r = make_non_runnable(S, t)
  PROVE  /\ r.st \in KernelState /\ QueuesOK(r.st) /\ SchedOK(r.st)
         /\ Ready(r.st) = Ready(S) \ {t}
         /\ Same(S, r.st) /\ r.st.priority = S.priority
         /\ Tells(S, r)
         /\ r.dsp <=> S.dspflg /\ S.schedtsk = t
<1> DEFINE pri == S.priority[t]
           Q == Unready(S, t)
           q == Q.readyq[pri]
           next == IF ~queue_empty(q) THEN Head(q)
                   ELSE IF Q.primap = {} THEN NULL ELSE search_schedtsk(Q)
           N == [Q EXCEPT !.schedtsk = next]
<1>1. /\ S.readyq \in [Pri -> Seq(Tasks)] /\ S.priority \in [Tasks -> Pri]
      /\ S.primap \subseteq Pri /\ S.dspflg \in BOOLEAN
      /\ TNUM_TPRI \in Nat /\ t \in Tasks /\ pri \in Pri
  BY TaskAssumption DEF KernelState, Ready
<1>2. /\ Q \in KernelState
      /\ QueuesOK(Q)
      /\ Ready(Q) = Ready(S) \ {t}
      /\ Same(S, Q)
      /\ Q.schedtsk = S.schedtsk /\ Q.priority = S.priority
      /\ pri \in S.primap
      /\ \A p \in Pri : p # pri => Q.readyq[p] = S.readyq[p]
      /\ Head(S.readyq[pri]) # t =>
           Q.readyq[pri] # <<>> /\ Head(Q.readyq[pri]) = Head(S.readyq[pri])
  BY UnlinkReady
<1>3. r = IF S.schedtsk = t THEN [st |-> N, dsp |-> S.dspflg]
          ELSE [st |-> Q, dsp |-> FALSE]
  BY DEF make_non_runnable
<1>4. S.primap # {} /\ S.schedtsk # NULL
  BY <1>2, SchedTop
<1> DEFINE p0 == primap_search(S)
<1>5. /\ p0 \in S.primap /\ p0 \in Pri /\ \A x \in S.primap : p0 <= x
      /\ S.schedtsk = Head(S.readyq[p0]) /\ S.priority[S.schedtsk] = p0
  BY <1>4, SchedTop
<1> HIDE DEF Q, p0
<1>6. Q.readyq \in [Pri -> Seq(Tasks)] /\ Q.primap \subseteq S.primap
  BY <1>1, <1>2 DEF KernelState, QueuesOK
<1>7. CASE S.schedtsk = t
  <2>1. /\ Same(Q, N) /\ N.schedtsk = next
        /\ N.readyq = Q.readyq /\ N.primap = Q.primap /\ N.priority = Q.priority
    BY <1>2 DEF KernelState, Same
  <2>2. next \in Tasks \cup {NULL} /\ (Q.primap = {} => next = NULL)
        /\ (Q.primap # {} => next = search_schedtsk(Q))
    <3>1. CASE q # <<>>
      <4>1. pri \in Q.primap /\ \A x \in Q.primap : pri <= x
        BY <1>1, <1>2, <1>5, <1>6, <1>7, <3>1 DEF QueuesOK
      <4> QED
        BY <1>2, <3>1, <4>1, SchedFirst DEF queue_empty, Ready
    <3>2. CASE q = <<>> /\ Q.primap = {}
      BY <3>2 DEF queue_empty
    <3>3. CASE q = <<>> /\ Q.primap # {}
      <4>1. search_schedtsk(Q) \in Ready(Q)
        BY <1>1, <1>2, <1>6, <3>3, PrimapFirst
      <4>2. search_schedtsk(Q) \in Tasks
        BY <4>1 DEF Ready
      <4> QED
        BY <3>3, <4>2 DEF queue_empty
    <3> QED
      BY <3>1, <3>2, <3>3
  <2> HIDE DEF next
  <2>3. N \in KernelState
    BY <1>2, <2>2 DEF KernelState
  <2>4. QueuesOK(N) /\ Ready(N) = Ready(Q)
    BY <1>2, <2>1 DEF QueuesOK, Ready
  <2>5. search_schedtsk(N) = search_schedtsk(Q)
    BY <2>1 DEF search_schedtsk, primap_search
  <2>6. SchedOK(N)
    <3>1. CASE Q.primap = {}
      BY <2>1, <2>2, <3>1 DEF SchedOK
    <3>2. CASE Q.primap # {}
      <4>1. next \in Ready(Q)
        BY <1>1, <1>2, <1>6, <2>2, <3>2, PrimapFirst
      <4>2. next # NULL
        BY <4>1, TaskAssumption DEF Ready
      <4> QED
        BY <2>1, <2>2, <2>5, <3>2, <4>2 DEF SchedOK
    <3> QED
      BY <3>1, <3>2
  <2>7. r.st = N /\ r.dsp = S.dspflg
    BY <1>3, <1>7
  <2>8. Same(S, N)
    BY <1>2, <2>1 DEF Same
  <2> QED
    BY <1>1, <1>2, <1>7, <2>1, <2>3, <2>4, <2>6, <2>7, <2>8 DEF Tells
<1>8. CASE S.schedtsk # t
  <2>1. /\ Q.readyq[p0] # <<>> /\ Head(Q.readyq[p0]) = Head(S.readyq[p0])
    <3>1. CASE p0 = pri
      BY <1>2, <1>5, <1>8, <3>1
    <3>2. CASE p0 # pri
      BY <1>2, <1>5, <3>2 DEF QueuesOK
    <3> QED
      BY <3>1, <3>2
  <2>2. p0 \in Q.primap /\ \A x \in Q.primap : p0 <= x
    BY <1>2, <1>5, <1>6, <2>1 DEF QueuesOK
  <2>3. SchedOK(Q)
    BY <1>2, <1>5, <2>1, <2>2, SchedFirst
  <2>4. r.st = Q /\ r.dsp = FALSE
    BY <1>3, <1>8
  <2> QED
    BY <1>2, <1>8, <2>3, <2>4 DEF Tells
<1> QED
  BY <1>7, <1>8

LEMMA RotateReadyQueue ==
  ASSUME NEW S \in KernelState, QueuesOK(S), SchedOK(S), NEW pri \in Pri,
         NEW r, r = rotate_ready_queue(S, pri)
  PROVE  /\ r.st \in KernelState /\ QueuesOK(r.st) /\ SchedOK(r.st)
         /\ Ready(r.st) = Ready(S)
         /\ Same(S, r.st) /\ r.st.priority = S.priority
         /\ Tells(S, r)
<1> DEFINE q == S.readyq[pri]
           a == queue_insert_prev(queue_delete_next(q), Head(q))
           Q == [S EXCEPT !.readyq[pri] = a]
           N == [Q EXCEPT !.schedtsk = Head(Q.readyq[pri])]
<1>1. /\ S.readyq \in [Pri -> Seq(Tasks)] /\ S.priority \in [Tasks -> Pri]
      /\ S.primap \subseteq Pri /\ S.dspflg \in BOOLEAN /\ q \in Seq(Tasks)
  BY DEF KernelState
<1>2. r = IF Len(q) <= 1 THEN [st |-> S, dsp |-> FALSE]
          ELSE IF S.schedtsk = Head(q) THEN [st |-> N, dsp |-> S.dspflg]
          ELSE [st |-> Q, dsp |-> FALSE]
  BY DEF rotate_ready_queue
<1>3. CASE Len(q) <= 1
  BY <1>2, <1>3 DEF Same, Tells
<1>4. CASE ~(Len(q) <= 1)
  <2>1. q # <<>> /\ Unique(q)
    BY <1>1, <1>4, EmptySeq DEF QueuesOK
  <2>2. /\ a \in Seq(Tasks) /\ a # <<>> /\ Unique(a)
        /\ \A y : Linked(a, y) <=> Linked(q, y)
    BY <1>1, <2>1, Rotate
  <2> HIDE DEF a
  <2>3. Head(a) \in Tasks
    BY <2>2, QueueLinked
  <2>4. /\ Q \in KernelState /\ Same(S, Q)
        /\ Q.readyq = [S.readyq EXCEPT ![pri] = a]
        /\ Q.primap = S.primap /\ Q.priority = S.priority
        /\ Q.schedtsk = S.schedtsk
    BY <1>1, <2>2 DEF KernelState, Same
  <2>5. \A p \in Pri : Q.readyq[p] = IF p = pri THEN a ELSE S.readyq[p]
    BY <1>1, <2>4
  <2>6. /\ N \in KernelState /\ Same(S, N) /\ N.readyq = Q.readyq
        /\ N.primap = S.primap /\ N.priority = S.priority
        /\ N.schedtsk = Head(a)
    BY <2>3, <2>4, <2>5 DEF KernelState, Same
  <2> HIDE DEF Q, N
  <2>7. \A p \in Pri : \A y : Linked(Q.readyq[p], y) <=> Linked(S.readyq[p], y)
    BY <2>2, <2>5
  <2>8. Ready(Q) = Ready(S) /\ Ready(N) = Ready(S)
    BY <2>6, <2>7 DEF Ready
  <2>9. QueuesOK(Q) /\ QueuesOK(N)
    <3>1. \A p \in Pri : Unique(Q.readyq[p])
      BY <2>2, <2>5 DEF QueuesOK
    <3>2. \A p \in Pri : \A i \in DOMAIN Q.readyq[p] :
            S.priority[Q.readyq[p][i]] = p
      <4> SUFFICES ASSUME NEW p \in Pri, NEW i \in DOMAIN Q.readyq[p]
                   PROVE  S.priority[Q.readyq[p][i]] = p
        OBVIOUS
      <4>1. Linked(S.readyq[p], Q.readyq[p][i])
        BY <2>7 DEF Linked
      <4> QED
        BY <4>1 DEF QueuesOK, Linked
    <3>3. S.primap = {p \in Pri : Q.readyq[p] # <<>>}
      BY <1>1, <2>1, <2>2, <2>5 DEF QueuesOK
    <3> QED
      BY <2>4, <2>6, <3>1, <3>2, <3>3 DEF QueuesOK
  <2>10. pri \in S.primap /\ S.schedtsk # NULL
    <3>1. pri \in S.primap
      BY <1>1, <2>1 DEF QueuesOK
    <3> QED
      BY <3>1, SchedTop
  <2> DEFINE p0 == primap_search(S)
  <2>11. /\ p0 \in S.primap /\ p0 \in Pri /\ \A x \in S.primap : p0 <= x
         /\ S.schedtsk = Head(S.readyq[p0]) /\ S.priority[S.schedtsk] = p0
    BY <2>10, SchedTop
  <2> HIDE DEF p0
  <2>12. Head(q) = S.schedtsk => p0 = pri
    <3>1. Linked(q, Head(q))
      BY <1>1, <2>1, QueueLinked
    <3> QED
      BY <2>11, <3>1 DEF QueuesOK, Linked
  <2>13. CASE S.schedtsk = Head(q)
    <3>1. SchedOK(N)
      BY <2>5, <2>6, <2>9, <2>11, <2>12, <2>13, SchedFirst
    <3>2. r.st = N /\ r.dsp = S.dspflg
      BY <1>2, <1>4, <2>13
    <3> QED
      BY <1>1, <2>6, <2>8, <2>9, <3>1, <3>2 DEF Tells
  <2>14. CASE S.schedtsk # Head(q)
    <3>1. p0 # pri
      BY <2>11, <2>14
    <3>2. SchedOK(Q)
      BY <2>4, <2>5, <2>9, <2>11, <3>1, SchedFirst
    <3>3. r.st = Q /\ r.dsp = FALSE
      BY <1>2, <1>4, <2>14
    <3> QED
      BY <2>4, <2>8, <2>9, <3>2, <3>3, ZenonT(60) DEF Tells
  <2> QED
    BY <2>13, <2>14
<1> QED
  BY <1>3, <1>4

LEMMA ChangeReadyPriority ==
  ASSUME NEW S \in KernelState, QueuesOK(S), SchedOK(S), NEW t \in Ready(S),
         NEW newpri \in Pri, NEW r, r = change_ready_priority(S, t, newpri)
  PROVE  /\ r.st \in KernelState /\ QueuesOK(r.st) /\ SchedOK(r.st)
         /\ Ready(r.st) = Ready(S)
         /\ Same(S, r.st)
         /\ r.st.priority = [S.priority EXCEPT ![t] = newpri]
         /\ Tells(S, r)
<1> DEFINE pri == S.priority[t]
           U == Unready(S, t)
           V == [U EXCEPT !.priority[t] = newpri]
           Q == Enready(V, t)
           sched == search_schedtsk(Q)
           M == [Q EXCEPT !.schedtsk = sched]
           N == [Q EXCEPT !.schedtsk = t]
<1>1. /\ S.readyq \in [Pri -> Seq(Tasks)] /\ S.priority \in [Tasks -> Pri]
      /\ S.primap \subseteq Pri /\ S.dspflg \in BOOLEAN
      /\ t \in Tasks /\ pri \in Pri /\ Pri \subseteq Int
  <2>1. t \in Tasks
    BY DEF Ready
  <2>2. Pri \subseteq Int
    BY TaskAssumption DEF Pri
  <2> QED
    BY <2>1, <2>2 DEF KernelState
<1>2. r = IF S.schedtsk = t
          THEN IF newpri >= pri
               THEN [st |-> M, dsp |-> sched # t /\ S.dspflg]
               ELSE [st |-> Q, dsp |-> FALSE]
          ELSE IF newpri < S.priority[S.schedtsk]
               THEN [st |-> N, dsp |-> S.dspflg]
               ELSE [st |-> Q, dsp |-> FALSE]
  BY DEF change_ready_priority
<1>3. /\ U \in KernelState
      /\ QueuesOK(U)
      /\ Ready(U) = Ready(S) \ {t}
      /\ Same(S, U)
      /\ U.schedtsk = S.schedtsk /\ U.priority = S.priority
      /\ pri \in S.primap
      /\ \A p \in Pri : p # pri => U.readyq[p] = S.readyq[p]
      /\ Head(S.readyq[pri]) # t =>
           U.readyq[pri] # <<>> /\ Head(U.readyq[pri]) = Head(S.readyq[pri])
  BY UnlinkReady
<1> HIDE DEF U
<1>4. /\ V \in KernelState /\ Same(U, V)
      /\ V.readyq = U.readyq /\ V.primap = U.primap /\ V.schedtsk = U.schedtsk
      /\ V.priority = [U.priority EXCEPT ![t] = newpri]
      /\ V.priority[t] = newpri
  BY <1>1, <1>3 DEF KernelState, Same
<1> HIDE DEF V
<1>5. QueuesOK(V) /\ Ready(V) = Ready(U)
  <2>1. Ready(V) = Ready(U)
    BY <1>4 DEF Ready
  <2>2. \A p \in Pri : \A i \in DOMAIN U.readyq[p] : U.readyq[p][i] # t
    BY <1>1, <1>3 DEF Ready, Linked
  <2>3. \A p \in Pri : \A i \in DOMAIN U.readyq[p] : U.readyq[p][i] \in Tasks
    <3>1. U.readyq \in [Pri -> Seq(Tasks)]
      BY <1>3 DEF KernelState
    <3> QED
      BY <3>1, QueueLinked DEF Linked
  <2>4. U.priority \in [Tasks -> Pri]
    BY <1>3 DEF KernelState
  <2> QED
    BY <1>3, <1>4, <2>1, <2>2, <2>3, <2>4 DEF QueuesOK
<1>6. /\ Q \in KernelState
      /\ QueuesOK(Q)
      /\ Ready(Q) = Ready(V) \cup {t}
      /\ Same(V, Q)
      /\ Q.schedtsk = V.schedtsk /\ Q.priority = V.priority
      /\ Q.primap = V.primap \cup {newpri}
      /\ \A p \in Pri : V.readyq[p] # <<>> => Head(Q.readyq[p]) = Head(V.readyq[p])
      /\ V.readyq[newpri] = <<>> => Head(Q.readyq[newpri]) = t
  BY <1>1, <1>3, <1>4, <1>5, LinkReady
<1> HIDE DEF Q
<1>7. Ready(Q) = Ready(S) /\ Same(S, Q) /\ Q.schedtsk = S.schedtsk
  BY <1>3, <1>4, <1>5, <1>6 DEF Same
<1>7a. Q.priority = [S.priority EXCEPT ![t] = newpri]
  BY <1>3, <1>4, <1>6
<1>8. U.primap \subseteq S.primap
  BY <1>1, <1>3 DEF QueuesOK
<1> DEFINE p0 == primap_search(S)
<1>9. /\ p0 \in S.primap /\ p0 \in Pri /\ \A x \in S.primap : p0 <= x
      /\ S.schedtsk = Head(S.readyq[p0]) /\ S.priority[S.schedtsk] = p0
      /\ S.schedtsk \in Ready(S)
  BY <1>3, SchedTop
<1> HIDE DEF p0
(* A task that is moved above all the others is scheduled.                 *)
<1>10. ASSUME newpri < p0
       PROVE  SchedOK(N)
  <2>1. newpri \notin S.primap
    BY <1>1, <1>9, <1>10
  <2>2. newpri # pri
    BY <1>3, <2>1
  <2>3. V.readyq[newpri] = <<>>
    BY <1>3, <1>4, <2>1, <2>2 DEF QueuesOK
  <2>4. \A x \in Q.primap : newpri <= x
    <3>1. newpri \in Int /\ p0 \in Int /\ S.primap \subseteq Int
      BY <1>1, <1>9
    <3> SUFFICES ASSUME NEW x \in Q.primap PROVE newpri <= x
      OBVIOUS
    <3>2. x \in S.primap \/ x = newpri
      BY <1>4, <1>6, <1>8
    <3>3. CASE x \in S.primap
      <4>1. p0 <= x /\ x \in Int
        BY <1>9, <3>1, <3>3
      <4> QED
        BY <1>10, <3>1, <4>1
    <3>4. CASE x = newpri
      BY <3>1, <3>4
    <3> QED
      BY <3>2, <3>3, <3>4
  <2>5. /\ N \in KernelState /\ N.readyq = Q.readyq /\ N.primap = Q.primap
        /\ N.priority = Q.priority /\ N.schedtsk = t
    BY <1>1, <1>6 DEF KernelState
  <2>6. QueuesOK(N)
    BY <1>6, <2>5 DEF QueuesOK
  <2> QED
    BY <1>6, <2>3, <2>4, <2>5, <2>6, SchedFirst
<1>11. /\ N \in KernelState /\ Same(S, N) /\ N.readyq = Q.readyq
       /\ N.primap = Q.primap /\ N.priority = Q.priority /\ N.schedtsk = t
  BY <1>1, <1>6, <1>7 DEF KernelState, Same
<1>12. QueuesOK(N) /\ Ready(N) = Ready(S)
  BY <1>6, <1>7, <1>11 DEF QueuesOK, Ready
<1>13. CASE S.schedtsk = t /\ newpri >= pri
  <2>1. sched \in Ready(Q)
    <3>1. Q.primap # {}
      BY <1>6
    <3> QED
      BY <1>6, <3>1, PrimapFirst
  <2>2. sched \in Tasks /\ sched # NULL
    BY <2>1, TaskAssumption DEF Ready
  <2>3. search_schedtsk(M) = sched
    <3>1. M.readyq = Q.readyq /\ M.primap = Q.primap
      BY <1>6 DEF KernelState
    <3> QED
      BY <3>1 DEF search_schedtsk, primap_search
  <2> HIDE DEF sched
  <2>4. /\ M \in KernelState /\ Same(S, M) /\ M.readyq = Q.readyq
        /\ M.primap = Q.primap /\ M.priority = Q.priority /\ M.schedtsk = sched
    BY <1>6, <1>7, <2>2 DEF KernelState, Same
  <2>5. QueuesOK(M) /\ Ready(M) = Ready(S)
    BY <1>6, <1>7, <2>4 DEF QueuesOK, Ready
  <2>6. SchedOK(M)
    BY <1>6, <2>2, <2>3, <2>4 DEF SchedOK
  <2> HIDE DEF M
  <2>7. r = [st |-> M, dsp |-> sched # t /\ S.dspflg]
    BY <1>2, <1>13
  <2>8. Tells(S, r)
    BY <1>1, <1>13, <2>4, <2>7 DEF Tells
  <2>9. r.st = M
    BY <2>7
  <2> QED
    BY <1>7a, <2>4, <2>5, <2>6, <2>8, <2>9
<1>14. CASE S.schedtsk = t /\ ~(newpri >= pri)
  <2>1. newpri < p0
    BY <1>1, <1>9, <1>14
  <2>2. N = Q
    BY <1>6, <1>7, <1>14 DEF KernelState
  <2>3. r.st = Q /\ r.dsp = FALSE
    BY <1>2, <1>14
  <2> HIDE DEF N
  <2> QED
    BY <1>6, <1>7, <1>7a, <1>10, <2>1, <2>2, <2>3 DEF Tells
<1>15. CASE S.schedtsk # t /\ newpri < S.priority[S.schedtsk]
  <2>1. newpri < p0
    BY <1>9, <1>15
  <2>2. SchedOK(N)
    BY <1>10, <2>1
  <2> HIDE DEF N
  <2>3. r.st = N /\ r.dsp = S.dspflg
    BY <1>2, <1>15
  <2> QED
    BY <1>1, <1>7a, <1>11, <1>12, <2>2, <2>3 DEF Tells
<1>16. CASE S.schedtsk # t /\ ~(newpri < S.priority[S.schedtsk])
  <2>1. /\ U.readyq[p0] # <<>> /\ Head(U.readyq[p0]) = Head(S.readyq[p0])
    <3>1. CASE p0 = pri
      BY <1>3, <1>9, <1>16, <3>1
    <3>2. CASE p0 # pri
      BY <1>3, <1>9, <3>2 DEF QueuesOK
    <3> QED
      BY <3>1, <3>2
  <2>2. Head(Q.readyq[p0]) = S.schedtsk
    BY <1>4, <1>6, <1>9, <2>1
  <2>3. p0 \in Q.primap
    BY <1>3, <1>4, <1>6, <1>9, <2>1 DEF QueuesOK
  <2>4. \A x \in Q.primap : p0 <= x
    BY <1>1, <1>4, <1>6, <1>8, <1>9, <1>16
  <2>5. SchedOK(Q)
    BY <1>6, <1>7, <2>2, <2>3, <2>4, SchedFirst
  <2>6. r.st = Q /\ r.dsp = FALSE
    BY <1>2, <1>16
  <2> QED
    BY <1>6, <1>7, <1>7a, <2>5, <2>6 DEF Tells
<1> QED
  BY <1>13, <1>14, <1>15, <1>16

-----------------------------------------------------------------------------
(* The wait queues.                                                        *)

(* q is in the order of the priorities pr.                                 *)
Sorted(q, pr) == \A i, j \in DOMAIN q : i < j => pr[q[i]] <= pr[q[j]]

(* t belongs before the p-th of q.                                         *)
FitsAt(q, p, t, pr) ==
  \A i \in 1 .. Len(q) : IF i < p THEN pr[q[i]] <= pr[t]
                         ELSE pr[t] < pr[q[i]]

LEMMA AppendWith ==
  ASSUME NEW T, NEW q \in Seq(T), NEW x \in T
  PROVE  /\ queue_insert_prev(q, x) \in Seq(T)
         /\ Len(q) + 1 \in 1 .. Len(q) + 1
         /\ With(q, Len(q) + 1, x, queue_insert_prev(q, x))
<1> DEFINE n == Len(q)
           r == Append(q, x)
<1>1. n \in Nat
  BY LenProperties
<1>2. /\ r \in Seq(T) /\ Len(r) = n + 1 /\ r[n + 1] = x
      /\ \A i \in 1 .. n : r[i] = q[i]
  BY AppendProperties
<1> HIDE DEF r, n
<1>3. With(q, n + 1, x, r)
  <2>1. \A i \in 1 .. n + 1 :
          r[i] = IF i < n + 1 THEN q[i] ELSE IF i = n + 1 THEN x ELSE q[i - 1]
    BY <1>1, <1>2
  <2> QED
    BY <1>2, <2>1 DEF With, n
<1> QED
  BY <1>1, <1>2, <1>3 DEF queue_insert_prev, r, n

(* In the order of a queue nothing changes by taking an entry out.         *)
LEMMA WithoutSorted ==
  ASSUME NEW T, NEW q \in Seq(T), NEW p \in 1 .. Len(q),
         NEW r \in Seq(T), Without(q, p, r), NEW pr, Sorted(q, pr)
  PROVE  Sorted(r, pr)
<1> DEFINE n == Len(q)
<1>1. n \in Nat /\ DOMAIN q = 1 .. n /\ DOMAIN r = 1 .. n - 1
  <2>1. Len(r) = n - 1 /\ Len(r) \in Nat /\ n \in Nat
    BY LenProperties DEF Without
  <2> QED
    BY <2>1, LenProperties
<1>2. \A i \in 1 .. n - 1 : r[i] = IF i < p THEN q[i] ELSE q[i + 1]
  BY DEF Without
<1>3. \A i, j \in 1 .. n : i < j => pr[q[i]] <= pr[q[j]]
  BY <1>1 DEF Sorted
<1>4. p \in 1 .. n
  OBVIOUS
<1> HIDE DEF n
<1> SUFFICES ASSUME NEW i \in 1 .. n - 1, NEW j \in 1 .. n - 1, i < j
             PROVE  pr[r[i]] <= pr[r[j]]
  BY <1>1 DEF Sorted
<1> DEFINE a == IF i < p THEN i ELSE i + 1
           b == IF j < p THEN j ELSE j + 1
<1>5. a \in 1 .. n /\ b \in 1 .. n /\ a < b
  BY <1>1, <1>4
<1>6. r[i] = q[a] /\ r[j] = q[b]
  BY <1>1, <1>2, <1>4
<1> HIDE DEF a, b
<1> QED
  BY <1>3, <1>5, <1>6

LEMMA InsertTpri ==
  ASSUME NEW S, NEW T, S.priority \in [T -> Int], NEW q \in Seq(T), NEW t \in T,
         NEW r, r = queue_insert_tpri(S, q, t)
  PROVE  /\ r \in Seq(T)
         /\ \E p \in 1 .. Len(q) + 1 :
              /\ With(q, p, t, r)
              /\ \A i \in 1 .. Len(q) :
                   i = p => S.priority[t] < S.priority[q[i]]
         /\ Sorted(q, S.priority) =>
              \E p \in 1 .. Len(q) + 1 :
                With(q, p, t, r) /\ FitsAt(q, p, t, S.priority)
<1> DEFINE n == Len(q)
           pr == S.priority
           lower == {i \in DOMAIN q : pr[t] < pr[q[i]]}
           first == CHOOSE i \in lower : \A j \in lower : i <= j
<1>1. /\ n \in Nat /\ DOMAIN q = 1 .. n /\ pr \in [T -> Int]
      /\ \A i \in 1 .. n : q[i] \in T /\ pr[q[i]] \in Int
      /\ pr[t] \in Int
  <2>1. n \in Nat /\ DOMAIN q = 1 .. n /\ \A i \in 1 .. n : q[i] \in T
    BY LenProperties
  <2> QED
    BY <2>1
<1>2. r = IF lower = {} THEN Append(q, t) ELSE InsertAt(q, first, t)
  BY DEF queue_insert_tpri
<1>3. CASE lower = {}
  <2>1. r \in Seq(T) /\ With(q, n + 1, t, r) /\ n + 1 \in 1 .. n + 1
    BY <1>2, <1>3, AppendWith DEF queue_insert_prev
  <2>2. \A i \in 1 .. n : pr[q[i]] <= pr[t] /\ i < n + 1
    BY <1>1, <1>3
  <2> HIDE DEF n, pr
  <2>3. FitsAt(q, n + 1, t, pr)
    BY <2>2 DEF FitsAt, n
  <2>4. \A i \in 1 .. n : i = n + 1 => pr[t] < pr[q[i]]
    BY <1>1
  <2> QED
    BY <2>1, <2>3, <2>4 DEF n, pr
<1>4. CASE lower # {}
  <2>1. \E i \in lower : \A j \in lower : i <= j
    <3>1. lower \subseteq Nat
      BY <1>1
    <3> HIDE DEF lower
    <3>2. PICK i \in lower : \A j \in lower : <<j, i>> \notin OpToRel(<, Nat)
      BY <1>4, <3>1, NatLessThanWellFounded, WFMin, Zenon
    <3>3. \A j \in lower : j \in Nat /\ i \in Nat => ~(j < i)
      BY <3>2, Zenon DEF OpToRel
    <3> QED
      BY <3>1, <3>3
  <2>2. first \in lower /\ \A j \in lower : first <= j
    <3> HIDE DEF lower
    <3> QED
      BY <2>1
  <2> HIDE DEF first
  <2>3. first \in 1 .. n /\ pr[t] < pr[q[first]]
    BY <1>1, <2>2
  <2>4. r \in Seq(T) /\ With(q, first, t, r)
    BY <1>2, <1>4, <2>3, InsertAtWith
  <2>5. \A i \in 1 .. n : i < first => pr[q[i]] <= pr[t]
    BY <1>1, <2>2, <2>3
  <2>6. Sorted(q, pr) => \A i \in 1 .. n : first <= i => pr[t] < pr[q[i]]
    <3> SUFFICES ASSUME Sorted(q, pr), NEW i \in 1 .. n, first <= i
                 PROVE  pr[t] < pr[q[i]]
      OBVIOUS
    <3>1. pr[q[first]] <= pr[q[i]]
      BY <1>1, <2>3 DEF Sorted
    <3> QED
      BY <1>1, <2>3, <3>1
  <2> HIDE DEF n, pr, lower
  <2>7. first \in 1 .. n + 1
    BY <1>1, <2>3
  <2>8. Sorted(q, pr) => FitsAt(q, first, t, pr)
    <3> SUFFICES ASSUME Sorted(q, pr), NEW i \in 1 .. n
                 PROVE  IF i < first THEN pr[q[i]] <= pr[t]
                        ELSE pr[t] < pr[q[i]]
      BY DEF FitsAt, n
    <3>1. i < first \/ first <= i
      BY <1>1, <2>3
    <3> QED
      BY <2>5, <2>6, <3>1
  <2>9. \A i \in 1 .. n : i = first => pr[t] < pr[q[i]]
    BY <2>3
  <2> QED
    BY <2>4, <2>7, <2>8, <2>9 DEF n, pr
<1> QED
  BY <1>3, <1>4

LEMMA WithSorted ==
  ASSUME NEW T, NEW q \in Seq(T), NEW t \in T, NEW p \in 1 .. Len(q) + 1,
         NEW r \in Seq(T), With(q, p, t, r),
         NEW pr \in [T -> Int], Sorted(q, pr), FitsAt(q, p, t, pr)
  PROVE  Sorted(r, pr)
<1> DEFINE n == Len(q)
<1>1. n \in Nat /\ DOMAIN q = 1 .. n /\ DOMAIN r = 1 .. n + 1
      /\ \A i \in 1 .. n : pr[q[i]] \in Int
      /\ pr[t] \in Int
  <2>1. Len(r) = n + 1 /\ n \in Nat
    BY LenProperties DEF With
  <2>2. DOMAIN q = 1 .. n /\ DOMAIN r = 1 .. n + 1
        /\ \A i \in 1 .. n : q[i] \in T
    BY <2>1, LenProperties
  <2> QED
    BY <2>1, <2>2
<1>2. \A i \in 1 .. n + 1 :
        r[i] = IF i < p THEN q[i] ELSE IF i = p THEN t ELSE q[i - 1]
  BY DEF With
<1>3. \A i, j \in 1 .. n : i < j => pr[q[i]] <= pr[q[j]]
  BY <1>1 DEF Sorted
<1>4. p \in 1 .. n + 1 /\ \A i \in 1 .. n : IF i < p THEN pr[q[i]] <= pr[t]
                                            ELSE pr[t] < pr[q[i]]
  BY DEF FitsAt
<1> HIDE DEF n
<1> SUFFICES ASSUME NEW i \in 1 .. n + 1, NEW j \in 1 .. n + 1, i < j
             PROVE  pr[r[i]] <= pr[r[j]]
  BY <1>1 DEF Sorted
<1>5. CASE i = p
  <2>1. j - 1 \in 1 .. n /\ ~(j - 1 < p) /\ r[i] = t /\ r[j] = q[j - 1]
    BY <1>1, <1>2, <1>4, <1>5
  <2>2. pr[t] < pr[q[j - 1]] /\ pr[q[j - 1]] \in Int
    BY <1>1, <1>4, <2>1
  <2> QED
    BY <1>1, <2>1, <2>2
<1>6. CASE j = p
  <2>1. i \in 1 .. n /\ i < p /\ r[i] = q[i] /\ r[j] = t
    BY <1>1, <1>2, <1>4, <1>6
  <2> QED
    BY <1>4, <2>1
<1>7. CASE i # p /\ j # p
  <2> DEFINE a == IF i < p THEN i ELSE i - 1
             b == IF j < p THEN j ELSE j - 1
  <2>1. a \in 1 .. n /\ b \in 1 .. n /\ a < b
    BY <1>1, <1>4, <1>7
  <2>2. r[i] = q[a] /\ r[j] = q[b]
    BY <1>1, <1>2, <1>4, <1>7
  <2> HIDE DEF a, b
  <2> QED
    BY <1>3, <2>1, <2>2
<1> QED
  BY <1>5, <1>6, <1>7

(* A wait queue: no task is in it twice, and its order is the one it has.  *)
QueueOK(q, w, pr) ==
  /\ q \in Seq(Tasks) /\ Unique(q)
  /\ w \in TA_TPRI => Sorted(q, pr)

LEMMA EmptyQueue ==
  ASSUME NEW w, NEW pr
  PROVE  QueueOK(<<>>, w, pr) /\ \A y : ~Linked(<<>>, y)
BY DEF QueueOK, Unique, Sorted, Linked

LEMMA TakenOut ==
  ASSUME NEW q, NEW w, NEW pr, QueueOK(q, w, pr),
         NEW p \in 1 .. Len(q), NEW r \in Seq(Tasks), Without(q, p, r)
  PROVE  /\ QueueOK(r, w, pr)
         /\ \A y : Linked(r, y) <=> Linked(q, y) /\ y # q[p]
<1>1. q \in Seq(Tasks) /\ Unique(q)
  BY DEF QueueOK
<1>2. Unique(r) /\ \A y : Linked(r, y) <=> Linked(q, y) /\ y # q[p]
  BY <1>1, WithoutUnique
<1>3. w \in TA_TPRI => Sorted(r, pr)
  BY <1>1, WithoutSorted DEF QueueOK
<1> QED
  BY <1>2, <1>3 DEF QueueOK

LEMMA DeleteWaiting ==
  ASSUME NEW q, NEW w, NEW pr, QueueOK(q, w, pr), NEW t, Linked(q, t),
         NEW r, r = queue_delete(q, t)
  PROVE  /\ QueueOK(r, w, pr)
         /\ \A y : Linked(r, y) <=> Linked(q, y) /\ y # t
<1>1. q \in Seq(Tasks)
  BY DEF QueueOK
<1>2. r \in Seq(Tasks) /\ \E p \in 1 .. Len(q) : q[p] = t /\ Without(q, p, r)
  BY <1>1, DeleteAt
<1> QED
  BY <1>2, TakenOut

LEMMA FirstWaiting ==
  ASSUME NEW q, NEW w, NEW pr, QueueOK(q, w, pr), ~queue_empty(q),
         NEW r, r = queue_delete_next(q)
  PROVE  /\ Head(q) \in Tasks /\ Linked(q, Head(q))
         /\ QueueOK(r, w, pr)
         /\ \A y : Linked(r, y) <=> Linked(q, y) /\ y # Head(q)
<1>1. q \in Seq(Tasks) /\ q # <<>>
  BY DEF QueueOK, queue_empty
<1>2. /\ r \in Seq(Tasks) /\ 1 \in 1 .. Len(q) /\ q[1] = Head(q)
      /\ Without(q, 1, r)
  BY <1>1, DeleteFirst
<1>3. QueueOK(r, w, pr) /\ \A y : Linked(r, y) <=> Linked(q, y) /\ y # Head(q)
  BY <1>2, TakenOut
<1>4. Head(q) \in Tasks /\ Linked(q, Head(q))
  <2>1. 1 \in DOMAIN q /\ q[1] \in Tasks
    BY <1>1, <1>2, LenProperties
  <2> QED
    BY <1>2, <2>1 DEF Linked
<1> QED
  BY <1>3, <1>4

(* wobj_queue_insert and wobj_change_priority put a task in.               *)
LEMMA InsertWaiting ==
  ASSUME NEW S, S.priority \in [Tasks -> Pri],
         NEW q, NEW w, QueueOK(q, w, S.priority),
         NEW t \in Tasks, ~Linked(q, t),
         NEW r, r = IF w \in TA_TPRI THEN queue_insert_tpri(S, q, t)
                    ELSE queue_insert_prev(q, t)
  PROVE  /\ QueueOK(r, w, S.priority)
         /\ \A y : Linked(r, y) <=> Linked(q, y) \/ y = t
<1>1. q \in Seq(Tasks) /\ Unique(q) /\ S.priority \in [Tasks -> Int]
  BY TaskAssumption DEF QueueOK, Pri
<1>2. CASE w \in TA_TPRI
  <2>1. Sorted(q, S.priority) /\ r = queue_insert_tpri(S, q, t)
    BY <1>2 DEF QueueOK
  <2>2. r \in Seq(Tasks)
    BY <1>1, <2>1, InsertTpri
  <2>3. PICK p \in 1 .. Len(q) + 1 :
          With(q, p, t, r) /\ FitsAt(q, p, t, S.priority)
    BY <1>1, <2>1, InsertTpri
  <2>4. Sorted(r, S.priority)
    BY <1>1, <2>1, <2>2, <2>3, WithSorted
  <2>5. Unique(r) /\ \A y : Linked(r, y) <=> Linked(q, y) \/ y = t
    BY <1>1, <2>2, <2>3, WithUnique
  <2> QED
    BY <2>2, <2>4, <2>5 DEF QueueOK
<1>3. CASE w \notin TA_TPRI
  <2>1. r = queue_insert_prev(q, t)
    BY <1>3
  <2>2. /\ r \in Seq(Tasks) /\ Len(q) + 1 \in 1 .. Len(q) + 1
        /\ With(q, Len(q) + 1, t, r)
    BY <1>1, <2>1, AppendWith
  <2>3. Unique(r) /\ \A y : Linked(r, y) <=> Linked(q, y) \/ y = t
    BY <1>1, <2>2, WithUnique
  <2> QED
    BY <1>3, <2>2, <2>3 DEF QueueOK
<1> QED
  BY <1>2, <1>3

(* All wait queues: a task is in one of them at most.                      *)
InQueue(Q, t) == \E w \in WaitQueues : Linked(Q[w], t)

QueuedOK(Q, pr) ==
  /\ Q \in [WaitQueues -> Seq(Tasks)]
  /\ \A w \in WaitQueues : QueueOK(Q[w], w, pr)
  /\ \A t : \A v, w \in WaitQueues :
       Linked(Q[v], t) /\ Linked(Q[w], t) => v = w

(* One queue is changed, by tasks that are in no other.                    *)
Moved(Q, w, r, R) ==
  /\ R = [Q EXCEPT ![w] = r]
  /\ \A y : Linked(r, y) => Linked(Q[w], y) \/ ~InQueue(Q, y)

LEMMA SetQueue ==
  ASSUME NEW Q, NEW pr, QueuedOK(Q, pr), NEW w \in WaitQueues,
         NEW r, QueueOK(r, w, pr), NEW R, Moved(Q, w, r, R)
  PROVE  /\ QueuedOK(R, pr)
         /\ R[w] = r /\ \A v \in WaitQueues : v # w => R[v] = Q[v]
         /\ \A y : InQueue(R, y) <=> \/ Linked(r, y)
                                     \/ InQueue(Q, y) /\ ~Linked(Q[w], y)
<1> USE DEF Moved
<1>1. Q \in [WaitQueues -> Seq(Tasks)] /\ r \in Seq(Tasks)
  BY DEF QueuedOK, QueueOK
<1>2. /\ R \in [WaitQueues -> Seq(Tasks)]
      /\ R[w] = r /\ \A v \in WaitQueues : v # w => R[v] = Q[v]
  BY <1>1
<1>3. \A v \in WaitQueues : QueueOK(R[v], v, pr)
  BY <1>2 DEF QueuedOK
<1>4. \A y : \A v \in WaitQueues : Linked(Q[v], y) /\ Linked(r, y) => v = w
  BY DEF QueuedOK, InQueue
<1>5. \A y : \A v, u \in WaitQueues : Linked(R[v], y) /\ Linked(R[u], y) => v = u
  BY <1>2, <1>4 DEF QueuedOK
<1>6. \A y : InQueue(R, y) <=> \/ Linked(r, y)
                               \/ InQueue(Q, y) /\ ~Linked(Q[w], y)
  BY <1>2, <1>4 DEF InQueue, QueuedOK
<1> QED
  BY <1>2, <1>3, <1>5, <1>6 DEF QueuedOK

(* The priority of a task is changed that is in no queue in priority order.*)
LEMMA Reprioritized ==
  ASSUME NEW Q, NEW pr, QueuedOK(Q, pr), NEW t, NEW pr2,
         \A u \in Tasks : u # t => pr2[u] = pr[u],
         \A w \in TA_TPRI : ~Linked(Q[w], t)
  PROVE  QueuedOK(Q, pr2)
<1>1. \A w \in WaitQueues : QueueOK(Q[w], w, pr2)
  <2> SUFFICES ASSUME NEW w \in WaitQueues PROVE QueueOK(Q[w], w, pr2)
    OBVIOUS
  <2>1. QueueOK(Q[w], w, pr) /\ Q[w] \in Seq(Tasks)
    BY DEF QueuedOK
  <2>2. ASSUME w \in TA_TPRI PROVE Sorted(Q[w], pr2)
    <3>1. \A i \in DOMAIN Q[w] : Q[w][i] \in Tasks /\ Q[w][i] # t
      BY <2>1, <2>2, LenProperties DEF Linked
    <3> QED
      BY <2>1, <2>2, <3>1 DEF QueueOK, Sorted
  <2> QED
    BY <2>1, <2>2 DEF QueueOK
<1> QED
  BY <1>1 DEF QueuedOK

-----------------------------------------------------------------------------
(* The inductive invariant.  Core is about the queues alone; an operation  *)
(* may leave it true while the states of tasks are still to be adjusted.   *)
Core(S) == S \in KernelState /\ QueuesOK(S) /\ SchedOK(S)

(* Where a task waits it is linked, and nowhere else; in the middle of an  *)
(* operation the tasks of X have left the wait queues but not their waits. *)
WaitOK(S, X, t) ==
  /\ IF t \in X THEN TSTAT_WAITING(S.tstat[t]) /\ ~InQueue(S.waitq, t)
     ELSE /\ InQueue(S.waitq, t) <=> TSTAT_WAIT_WOBJ(S.tstat[t])
          /\ TS_WAIT_DLY \in S.tstat[t] => S.tmo[t] # -1
  /\ \A w \in TA_TPRI :
       Linked(S.waitq[w], t) => TSTAT_WAIT_WOBJCB(S.tstat[t])
  /\ S.tmo[t] >= -1
  /\ S.tmo[t] = 0 => Linked(S.handlers, "tick")

Waits(S, X) ==
  /\ X \subseteq Tasks
  /\ QueuedOK(S.waitq, S.priority)
  /\ \A t \in Tasks : WaitOK(S, X, t)

(* Only a task that waits has a time event.                                *)
TimersOK(S) == \A t \in Tasks : S.tmo[t] # -1 => TSTAT_WAITING(S.tstat[t])

(* A task switched out inside call_texrtn has an activation of it.         *)
TexFramesOK(S) == \A t \in Tasks : S.texlp[t] => S.texfrm[t] # <<>>

FlagsOK(S) == S.dspflg = (S.ipmflg /\ ~S.disdsp)

BaseBut(S, X) ==
  /\ Core(S) /\ RunnableOK(S)
  /\ Waits(S, X) /\ TimersOK(S) /\ TexFramesOK(S) /\ FlagsOK(S)

Base(S) ==
  /\ Core(S) /\ RunnableOK(S)
  /\ Waits(S, {}) /\ TimersOK(S) /\ TexFramesOK(S) /\ FlagsOK(S)

(* Between two steps: where the processor is, and that no dispatch that is *)
(* needed has been forgotten.                                              *)
Switched(S) ==
  /\ S.dspflg /\ S.runtsk # S.schedtsk =>
       S.reqflg /\ (S.handlers # <<>> \/ S.runtsk = NULL)
  /\ S.runtsk = NULL => S.dspflg
  /\ S.handlers = <<>> /\ S.runtsk # NULL => ~S.reqflg
  /\ S.runtsk # NULL => S.runtsk \in Ready(S)

(* Until start_dispatch nothing runs, and the tasks that initialize_task   *)
(* has not come to are dormant.                                            *)
Starting(S) ==
  /\ S.runtsk = NULL /\ S.handlers = <<>> /\ S.dspflg /\ ~S.reqflg
  /\ \A i \in DOMAIN torder : S.ini <= i => S.tstat[torder[i]] = TS_DORMANT

KernelInv(S) ==
  Base(S) /\ IF S.ini = 0 THEN Switched(S) ELSE Starting(S)

(* What most operations leave alone.                                       *)
Frame(S, R) ==
  /\ R.runtsk = S.runtsk /\ R.reqflg = S.reqflg
  /\ R.dspflg = S.dspflg /\ R.disdsp = S.disdsp /\ R.ipmflg = S.ipmflg
  /\ R.handlers = S.handlers /\ R.ini = S.ini

-----------------------------------------------------------------------------
(* Task states.                                                            *)

LEMMA TStatFacts ==
  ASSUME NEW ts \in TStat
  PROVE  /\ TSTAT_RUNNABLE(ts) <=> ts = TS_RUNNABLE
         /\ TSTAT_WAITING(ts) => ~TSTAT_RUNNABLE(ts) /\ ts \cup TS_SUSPENDED \in TStat
         /\ TSTAT_SUSPENDED(ts) => ~TSTAT_RUNNABLE(ts)
         /\ TSTAT_WAITING(ts) => ts \ TS_SUSPENDED \in TStat
         /\ \/ TSTAT_DORMANT(ts) \/ TSTAT_RUNNABLE(ts)
            \/ TSTAT_WAITING(ts) \/ ts = TS_SUSPENDED
<1> USE DEF TS_DORMANT, TS_RUNNABLE, TS_SUSPENDED, TS_WAITING,
            TSTAT_RUNNABLE, TSTAT_WAITING, TSTAT_SUSPENDED, TSTAT_DORMANT
<1>1. "RUNNABLE" \notin WaitReason /\ "SUSPENDED" \notin WaitReason
  BY DEF WaitReason, TS_WAIT_WOBJ, TS_WAIT_WOBJCB, TS_WAIT_DLY, TS_WAIT_SLP
<1>2. CASE ts \in {TS_DORMANT, TS_RUNNABLE, TS_SUSPENDED}
  BY <1>2
<1>3. ASSUME NEW r \in WaitReason, ts = TS_WAITING(r)
      PROVE  /\ "WAITING" \in ts /\ "RUNNABLE" \notin ts
             /\ "SUSPENDED" \notin ts
             /\ ts \ TS_SUSPENDED = ts
             /\ ts \cup TS_SUSPENDED \in TStat
  BY <1>1, <1>3 DEF TStat
<1>4. ASSUME NEW r \in WaitReason, ts = TS_WAITING(r) \cup TS_SUSPENDED
      PROVE  /\ "WAITING" \in ts /\ "RUNNABLE" \notin ts
             /\ ts \ TS_SUSPENDED = TS_WAITING(r)
             /\ ts \cup TS_SUSPENDED = ts
             /\ TS_WAITING(r) \in TStat
  BY <1>1, <1>4 DEF TStat
<1>5. \/ ts \in {TS_DORMANT, TS_RUNNABLE, TS_SUSPENDED}
      \/ \E r \in WaitReason : ts = TS_WAITING(r)
      \/ \E r \in WaitReason : ts = TS_WAITING(r) \cup TS_SUSPENDED
  BY DEF TStat
<1>6. CASE \E r \in WaitReason : ts = TS_WAITING(r)
  BY <1>3, <1>6
<1>7. CASE \E r \in WaitReason : ts = TS_WAITING(r) \cup TS_SUSPENDED
  BY <1>4, <1>7
<1> QED
  BY <1>2, <1>5, <1>6, <1>7

(* Which waits are for an object.                                          *)
LEMMA ObjectWaitFacts ==
  /\ \A ts \in TStat :
       TSTAT_WAIT_WOBJ(ts) \/ TS_WAIT_DLY \in ts => TSTAT_WAITING(ts)
  /\ \A ts : TSTAT_WAIT_WOBJCB(ts) => TSTAT_WAIT_WOBJ(ts)
  /\ \A ts \in TStat : TSTAT_WAIT_WOBJ(ts) => TS_WAIT_DLY \notin ts
  /\ \A ts \in {TS_DORMANT, TS_RUNNABLE, TS_SUSPENDED} :
       ~TSTAT_WAIT_WOBJ(ts) /\ ~TSTAT_WAIT_WOBJCB(ts) /\ TS_WAIT_DLY \notin ts
<1> USE DEF TS_DORMANT, TS_RUNNABLE, TS_SUSPENDED, TS_WAITING, TS_WAIT_DLY,
            TSTAT_WAITING, TSTAT_WAIT_WOBJ, TSTAT_WAIT_WOBJCB,
            TS_WAIT_WOBJ, TS_WAIT_WOBJCB
<1>1. \A ts \in TStat : \/ ts \in {TS_DORMANT, TS_RUNNABLE, TS_SUSPENDED}
                        \/ \E r \in WaitReason :
                             \/ ts = TS_WAITING(r)
                             \/ ts = TS_WAITING(r) \cup TS_SUSPENDED
  BY DEF TStat
<1>2. \A ts \in {TS_DORMANT, TS_RUNNABLE, TS_SUSPENDED} :
        ~TSTAT_WAIT_WOBJ(ts) /\ ~TSTAT_WAIT_WOBJCB(ts) /\ TS_WAIT_DLY \notin ts
  OBVIOUS
<1>3. \A r \in WaitReason :
        /\ "WAITING" \in TS_WAITING(r)
        /\ TSTAT_WAIT_WOBJ(TS_WAITING(r)) => r \in TS_WAIT_WOBJ
        /\ TSTAT_WAIT_WOBJ(TS_WAITING(r) \cup TS_SUSPENDED) => r \in TS_WAIT_WOBJ
        /\ TS_WAIT_DLY \in TS_WAITING(r) \cup TS_SUSPENDED => r = TS_WAIT_DLY
  BY DEF WaitReason
<1>4. \A ts \in TStat :
        TSTAT_WAIT_WOBJ(ts) \/ TS_WAIT_DLY \in ts => TSTAT_WAITING(ts)
  BY <1>1, <1>2, <1>3
<1>5. \A ts \in TStat : TSTAT_WAIT_WOBJ(ts) => TS_WAIT_DLY \notin ts
  BY <1>1, <1>2, <1>3
<1>6. \A ts : TSTAT_WAIT_WOBJCB(ts) => TSTAT_WAIT_WOBJ(ts)
  OBVIOUS
<1> QED
  BY <1>2, <1>4, <1>5, <1>6

LEMMA WaitFacts ==
  ASSUME NEW reason \in WaitReason
  PROVE  /\ TS_WAITING(reason) \in TStat
         /\ ~TSTAT_RUNNABLE(TS_WAITING(reason))
         /\ TSTAT_WAITING(TS_WAITING(reason))
         /\ TSTAT_WAIT_WOBJ(TS_WAITING(reason)) <=> reason \in TS_WAIT_WOBJ
         /\ TSTAT_WAIT_WOBJCB(TS_WAITING(reason)) <=> reason \in TS_WAIT_WOBJCB
         /\ TS_WAIT_DLY \in TS_WAITING(reason) <=> reason = TS_WAIT_DLY
<1>1. TS_WAITING(reason) \in TStat
  BY DEF TStat
<1> QED
  BY <1>1 DEF WaitReason, TS_WAITING, TS_WAIT_SLP, TS_WAIT_DLY,
       TSTAT_RUNNABLE, TSTAT_WAITING, TSTAT_WAIT_WOBJ, TS_WAIT_WOBJ,
       TSTAT_WAIT_WOBJCB, TS_WAIT_WOBJCB

-----------------------------------------------------------------------------
(* Waits.                                                                  *)

(* Nothing is changed that it is about, but for a handler's entry or end.  *)
LEMMA WaitsSame ==
  ASSUME NEW S, NEW X, Waits(S, X),
         NEW R, R.waitq = S.waitq, R.priority = S.priority,
         R.tstat = S.tstat, R.tmo = S.tmo,
         \/ R.handlers = S.handlers
         \/ \A t \in Tasks : S.tmo[t] = 0 => Linked(R.handlers, "tick")
  PROVE  Waits(R, X)
BY DEF Waits, WaitOK

(* What is changed is about t.                                             *)
OthersWait(S, X, R, Y, t) ==
  \A u \in Tasks \ {t} :
    /\ u \in Y <=> u \in X
    /\ R.tstat[u] = S.tstat[u] /\ R.tmo[u] = S.tmo[u]
    /\ InQueue(R.waitq, u) <=> InQueue(S.waitq, u)
    /\ \A w \in TA_TPRI : Linked(R.waitq[w], u) => Linked(S.waitq[w], u)

LEMMA WaitsMove ==
  ASSUME NEW S, NEW X, Waits(S, X), NEW R, NEW Y \in SUBSET Tasks,
         NEW t \in Tasks,
         QueuedOK(R.waitq, R.priority), R.handlers = S.handlers,
         OthersWait(S, X, R, Y, t), WaitOK(R, Y, t)
  PROVE  Waits(R, Y)
<1>1. ASSUME NEW u \in Tasks \ {t} PROVE WaitOK(R, Y, u)
  <2>1. WaitOK(S, X, u)
    BY DEF Waits
  <2> QED
    BY <2>1 DEF WaitOK, OthersWait
<1> QED
  BY <1>1 DEF Waits

(* The same where no queue is changed, nor the priority of any task.       *)
LEMMA WaitsState ==
  ASSUME NEW S, NEW X, Waits(S, X), NEW R, NEW Y \in SUBSET Tasks,
         NEW t \in Tasks,
         R.waitq = S.waitq, R.priority = S.priority, R.handlers = S.handlers,
         \A u \in Tasks \ {t} :
           /\ u \in Y <=> u \in X
           /\ R.tstat[u] = S.tstat[u] /\ R.tmo[u] = S.tmo[u],
         WaitOK(R, Y, t)
  PROVE  Waits(R, Y)
<1>1. OthersWait(S, X, R, Y, t)
  BY DEF OthersWait
<1>2. QueuedOK(R.waitq, R.priority)
  BY DEF Waits
<1> QED
  BY <1>1, <1>2, WaitsMove

-----------------------------------------------------------------------------
(* An assignment that touches no queue, nor the priority of a ready task.  *)
LEMMA SameQueues ==
  ASSUME NEW S, Core(S), NEW R \in KernelState,
         R.readyq = S.readyq, R.primap = S.primap, R.schedtsk = S.schedtsk,
         \A u \in Ready(S) : R.priority[u] = S.priority[u]
  PROVE  Core(R) /\ Ready(R) = Ready(S)
<1>1. Ready(R) = Ready(S)
  BY DEF Ready
<1>2. \A p \in Pri : \A i \in DOMAIN S.readyq[p] : S.readyq[p][i] \in Ready(S)
  <2> SUFFICES ASSUME NEW p \in Pri, NEW i \in DOMAIN S.readyq[p]
               PROVE  S.readyq[p][i] \in Ready(S)
    OBVIOUS
  <2>1. S.readyq[p] \in Seq(Tasks)
    BY DEF Core, KernelState
  <2> QED
    BY <2>1 DEF Ready, Linked
<1>3. QueuesOK(R)
  BY <1>2 DEF Core, QueuesOK
<1>4. SchedOK(R)
  BY DEF Core, SchedOK, search_schedtsk, primap_search
<1> QED
  BY <1>1, <1>3, <1>4 DEF Core

(* A task that does not wait, or whose wait has ended, is in no queue.     *)
LEMMA OutOfQueues ==
  ASSUME NEW S, NEW X, BaseBut(S, X), NEW t \in Tasks,
         ~TSTAT_WAITING(S.tstat[t]) \/ t \in X
  PROVE  /\ ~InQueue(S.waitq, t)
         /\ \A w \in TA_TPRI : ~Linked(S.waitq[w], t)
         /\ ~TSTAT_WAITING(S.tstat[t]) => t \notin X /\ S.tmo[t] = -1
<1>1. S.tstat[t] \in TStat
  BY DEF BaseBut, Core, KernelState
<1>2. ~TSTAT_WAITING(S.tstat[t]) => ~TSTAT_WAIT_WOBJ(S.tstat[t])
  BY <1>1, ObjectWaitFacts
<1>3. WaitOK(S, X, t)
  BY DEF BaseBut, Waits
<1>4. ~InQueue(S.waitq, t) /\ (~TSTAT_WAITING(S.tstat[t]) => t \notin X)
  BY <1>2, <1>3 DEF WaitOK
<1>5. ~TSTAT_WAITING(S.tstat[t]) => S.tmo[t] = -1
  BY DEF BaseBut, TimersOK
<1> QED
  BY <1>4, <1>5, WaitAssumption DEF InQueue

(* make_active; make_non_wait and rsm_tsk make a task ready the same way.  *)
ActivatedBut(S, X, t, r) ==
  /\ BaseBut(r.st, X \ {t}) /\ Frame(S, r.st) /\ Tells(S, r)
  /\ Ready(r.st) = Ready(S) \cup {t}
  /\ r.st.tstat = [S.tstat EXCEPT ![t] = TS_RUNNABLE]
  /\ r.st.waitq = S.waitq /\ r.st.tmo = S.tmo
  /\ r.st.priority = S.priority

LEMMA ActivateBut ==
  ASSUME NEW S, NEW X, BaseBut(S, X), NEW t \in Tasks,
         ~TSTAT_RUNNABLE(S.tstat[t]), S.tmo[t] = -1,
         ~TSTAT_WAITING(S.tstat[t]) \/ t \in X,
         NEW r, r = make_active(S, t)
  PROVE  ActivatedBut(S, X, t, r)
<1> DEFINE A == [S EXCEPT !.tstat[t] = TS_RUNNABLE]
           Y == X \ {t}
<1>1. S \in KernelState /\ t \notin Ready(S)
  BY DEF BaseBut, Core, RunnableOK
<1>2. /\ A \in KernelState /\ A.readyq = S.readyq /\ A.primap = S.primap
      /\ A.schedtsk = S.schedtsk /\ A.priority = S.priority
      /\ A.tstat = [S.tstat EXCEPT ![t] = TS_RUNNABLE]
      /\ Frame(S, A) /\ A.tmo = S.tmo
      /\ A.texfrm = S.texfrm /\ A.texlp = S.texlp
  BY <1>1 DEF KernelState, Frame, TStat
<1>2a. A.waitq = S.waitq
  BY <1>1 DEF KernelState
<1>3. r = make_runnable(A, t)
  BY DEF make_active
<1> HIDE DEF A
<1>4. Core(A) /\ Ready(A) = Ready(S)
  BY <1>2, SameQueues DEF BaseBut
<1>5. /\ r.st \in KernelState /\ QueuesOK(r.st) /\ SchedOK(r.st)
      /\ Ready(r.st) = Ready(S) \cup {t}
      /\ Same(A, r.st)
      /\ Tells(A, r)
      /\ r.st.priority = A.priority
  BY <1>1, <1>3, <1>4, MakeRunnable DEF Core
<1>6. /\ Frame(S, r.st) /\ Tells(S, r)
      /\ r.st.tstat = [S.tstat EXCEPT ![t] = TS_RUNNABLE]
      /\ r.st.texfrm = S.texfrm /\ r.st.texlp = S.texlp /\ r.st.tmo = S.tmo
  BY <1>2, <1>5 DEF Frame, Same, Tells
<1>6a. r.st.waitq = S.waitq /\ r.st.priority = S.priority
  BY <1>2, <1>2a, <1>5 DEF Same
<1>7. S.tstat \in [Tasks -> TStat]
  BY <1>1 DEF KernelState
<1>8. RunnableOK(r.st)
  BY <1>5, <1>6, <1>7 DEF BaseBut, RunnableOK, TSTAT_RUNNABLE, TS_RUNNABLE
<1>9. Waits(r.st, Y)
  <2> DEFINE R == r.st
  <2>1. /\ ~InQueue(S.waitq, t)
        /\ \A w \in TA_TPRI : ~Linked(S.waitq[w], t)
    BY OutOfQueues
  <2>2. /\ R.tstat[t] = TS_RUNNABLE
        /\ \A u \in Tasks \ {t} : R.tstat[u] = S.tstat[u]
    BY <1>6, <1>7
  <2>3. R.handlers = S.handlers
    BY <1>6 DEF Frame
  <2>4. Y \in SUBSET Tasks /\ \A u \in Tasks \ {t} : u \in Y <=> u \in X
    BY DEF BaseBut, Waits
  <2>5. t \notin Y
    OBVIOUS
  <2> HIDE DEF R, Y
  <2>6. WaitOK(R, Y, t)
    BY <1>6, <1>6a, <2>1, <2>2, <2>5, ObjectWaitFacts DEF WaitOK, R
  <2>7. Waits(S, X)
    BY DEF BaseBut
  <2>8. R.waitq = S.waitq /\ R.priority = S.priority /\ R.tmo = S.tmo
    BY <1>6, <1>6a DEF R
  <2>9. Waits(R, Y)
    BY <2>2, <2>3, <2>4, <2>6, <2>7, <2>8, WaitsState
  <2> QED
    BY <2>9 DEF R, Y
<1>10. TimersOK(r.st)
  BY <1>6, <1>7 DEF BaseBut, TimersOK
<1> QED
  BY <1>5, <1>6, <1>6a, <1>8, <1>9, <1>10
     DEF ActivatedBut, BaseBut, Core, TexFramesOK, FlagsOK, Frame

LEMMA BaseIsBut == \A S : Base(S) <=> BaseBut(S, {})
BY DEF Base, BaseBut

LEMMA Activate ==
  ASSUME NEW S, Base(S), NEW t \in Tasks, ~TSTAT_RUNNABLE(S.tstat[t]),
         ~TSTAT_WAITING(S.tstat[t]), NEW r, r = make_active(S, t)
  PROVE  /\ Base(r.st) /\ Frame(S, r.st) /\ Tells(S, r)
         /\ Ready(r.st) = Ready(S) \cup {t}
         /\ r.st.tstat = [S.tstat EXCEPT ![t] = TS_RUNNABLE]
<1> DEFINE X == {}
<1>1. BaseBut(S, X) /\ X = X \ {t}
  BY BaseIsBut
<1> HIDE DEF X
<1>2. S.tmo[t] = -1
  BY <1>1 DEF BaseBut, TimersOK
<1>3. ActivatedBut(S, X, t, r)
  BY <1>1, <1>2, ActivateBut
<1> QED
  BY <1>1, <1>3, BaseIsBut DEF ActivatedBut, X

(* A runnable task stops being runnable: it waits, or it is suspended.     *)
Deactivated(S, t, ts, r) ==
  /\ BaseBut(r.st, IF TSTAT_WAITING(ts) THEN {t} ELSE {})
  /\ Frame(S, r.st) /\ Tells(S, r)
  /\ Ready(r.st) = Ready(S) \ {t}
  /\ S.dspflg /\ S.schedtsk = t => r.dsp
  /\ r.st.tstat = [S.tstat EXCEPT ![t] = ts]
  /\ r.st.waitq = S.waitq /\ r.st.tmo = S.tmo
  /\ r.st.priority = S.priority

LEMMA Deactivate ==
  ASSUME NEW S, Base(S), NEW t \in Tasks, TSTAT_RUNNABLE(S.tstat[t]),
         NEW ts \in TStat, ~TSTAT_RUNNABLE(ts),
         TSTAT_WAITING(ts) \/ ts = TS_SUSPENDED,
         NEW r, r = make_non_runnable([S EXCEPT !.tstat[t] = ts], t)
  PROVE  Deactivated(S, t, ts, r)
<1> DEFINE A == [S EXCEPT !.tstat[t] = ts]
<1>1. S \in KernelState /\ t \in Ready(S) /\ S.tstat \in [Tasks -> TStat]
  BY DEF Base, Core, RunnableOK, KernelState
<1>2. /\ A \in KernelState /\ A.readyq = S.readyq /\ A.primap = S.primap
      /\ A.schedtsk = S.schedtsk /\ A.priority = S.priority
      /\ A.tstat = [S.tstat EXCEPT ![t] = ts]
      /\ Frame(S, A) /\ A.tmo = S.tmo
      /\ A.texfrm = S.texfrm /\ A.texlp = S.texlp
  BY <1>1 DEF KernelState, Frame
<1>2a. A.waitq = S.waitq
  BY <1>1 DEF KernelState
<1>3. r = make_non_runnable(A, t)
  OBVIOUS
<1> HIDE DEF A
<1>4. Core(A) /\ Ready(A) = Ready(S)
  BY <1>2, SameQueues DEF Base
<1>5. /\ r.st \in KernelState /\ QueuesOK(r.st) /\ SchedOK(r.st)
      /\ Ready(r.st) = Ready(S) \ {t}
      /\ Same(A, r.st)
      /\ Tells(A, r)
      /\ A.dspflg /\ A.schedtsk = t => r.dsp
      /\ r.st.priority = A.priority
  <2>1. t \in Ready(A)
    BY <1>1, <1>4
  <2>2. A \in KernelState /\ QueuesOK(A) /\ SchedOK(A)
    BY <1>4 DEF Core
  <2>3. /\ r.st \in KernelState /\ QueuesOK(r.st) /\ SchedOK(r.st)
        /\ Ready(r.st) = Ready(A) \ {t}
        /\ Same(A, r.st)
        /\ Tells(A, r)
        /\ r.dsp <=> A.dspflg /\ A.schedtsk = t
        /\ r.st.priority = A.priority
    BY ONLY <1>3, <2>1, <2>2, MakeNonRunnable
  <2> QED
    BY <1>4, <2>3
<1>6. /\ Frame(S, r.st) /\ Tells(S, r)
      /\ r.st.tstat = [S.tstat EXCEPT ![t] = ts]
      /\ r.st.texfrm = S.texfrm /\ r.st.texlp = S.texlp /\ r.st.tmo = S.tmo
      /\ S.dspflg /\ S.schedtsk = t => r.dsp
  BY <1>2, <1>5 DEF Frame, Same, Tells
<1>6a. r.st.waitq = S.waitq /\ r.st.priority = S.priority
  BY <1>2, <1>2a, <1>5 DEF Same
<1>7. \A u \in Tasks : r.st.tstat[u] = IF u = t THEN ts ELSE S.tstat[u]
  BY <1>1, <1>6
<1>8. RunnableOK(r.st)
  BY <1>5, <1>7 DEF Base, RunnableOK
<1>9. S.tmo[t] = -1 /\ ~TSTAT_WAITING(S.tstat[t])
  BY <1>1, TStatFacts DEF Base, TimersOK
<1>10. TimersOK(r.st)
  BY <1>6, <1>7, <1>9 DEF Base, TimersOK
<1> DEFINE Y == IF TSTAT_WAITING(ts) THEN {t} ELSE {}
<1>11. Waits(r.st, Y)
  <2> DEFINE R == r.st
  <2>1. /\ ~InQueue(S.waitq, t)
        /\ \A w \in TA_TPRI : ~Linked(S.waitq[w], t)
    BY <1>9, BaseIsBut, OutOfQueues
  <2>2. R.handlers = S.handlers
    BY <1>6 DEF Frame
  <2>3. /\ Y \in SUBSET Tasks /\ \A u \in Tasks \ {t} : u \in Y <=> u \in {}
        /\ t \in Y <=> TSTAT_WAITING(ts)
    OBVIOUS
  <2> HIDE DEF R, Y
  <2>4. Waits(S, {})
    BY DEF Base
  <2>5. R.waitq = S.waitq /\ R.priority = S.priority /\ R.tmo = S.tmo
    BY <1>6, <1>6a DEF R
  <2>6. R.tstat[t] = ts /\ \A u \in Tasks \ {t} : R.tstat[u] = S.tstat[u]
    BY <1>7 DEF R
  <2>7. WaitOK(R, Y, t)
    BY <1>9, <2>1, <2>3, <2>5, <2>6, ObjectWaitFacts DEF WaitOK
  <2>8. Waits(R, Y)
    BY <2>2, <2>3, <2>4, <2>5, <2>6, <2>7, WaitsState
  <2> QED
    BY <2>8 DEF R
<1> HIDE DEF Y
<1>12. BaseBut(r.st, Y)
  BY <1>5, <1>6, <1>8, <1>10, <1>11
     DEF Base, BaseBut, Core, TexFramesOK, FlagsOK, Frame
<1> QED
  BY <1>5, <1>6, <1>6a, <1>12 DEF Deactivated, Y

(* make_dormant of a task that has been taken out of the ready queues.     *)
NotLinked(S, t) ==
  ~InQueue(S.waitq, t) /\ \E X \in {{}, {t}} : Waits(S, X)

LEMMA MakeDormant ==
  ASSUME NEW S, Core(S), NEW t \in Tasks, t \notin Ready(S),
         \A u \in Tasks \ {t} : u \in Ready(S) <=> TSTAT_RUNNABLE(S.tstat[u]),
         NotLinked(S, t), TimersOK(S), S.tmo[t] = -1, TexFramesOK(S), FlagsOK(S),
         NEW D, D = make_dormant(S, t)
  PROVE  /\ Base(D) /\ Frame(S, D)
         /\ Ready(D) = Ready(S) /\ D.schedtsk = S.schedtsk
         /\ D.tstat = [S.tstat EXCEPT ![t] = TS_DORMANT]
         /\ D.actque = S.actque /\ D.tmo = S.tmo /\ D.waitq = S.waitq
<1>0. PICK X \in {{}, {t}} : Waits(S, X)
  BY DEF NotLinked
<1>0a. ~InQueue(S.waitq, t)
  BY DEF NotLinked
<1>1. S \in KernelState /\ S.tstat \in [Tasks -> TStat]
  BY DEF Core, KernelState
<1>2. D \in KernelState
  <2>1. ipriority[t] \in Pri /\ TS_DORMANT \in TStat /\ <<>> \in Seq(BOOLEAN)
    BY TaskAssumption DEF TStat
  <2> QED
    BY <1>1, <2>1, ZenonT(60) DEF make_dormant, KernelState
<1>3. /\ D.readyq = S.readyq /\ D.primap = S.primap
      /\ D.schedtsk = S.schedtsk
      /\ \A u \in Tasks \ {t} : D.priority[u] = S.priority[u]
      /\ D.tstat = [S.tstat EXCEPT ![t] = TS_DORMANT]
      /\ D.actque = S.actque /\ D.tmo = S.tmo
      /\ Frame(S, D)
  BY <1>1 DEF make_dormant, KernelState, Frame
<1>4. Core(D) /\ Ready(D) = Ready(S)
  <2>1. \A u \in Ready(S) : D.priority[u] = S.priority[u]
    BY <1>3 DEF Ready
  <2> QED
    BY <1>2, <1>3, <2>1, SameQueues
<1>5. ~TSTAT_RUNNABLE(TS_DORMANT)
  BY DEF TSTAT_RUNNABLE, TS_DORMANT
<1>6. \A u \in Tasks : D.tstat[u] = IF u = t THEN TS_DORMANT ELSE S.tstat[u]
  BY <1>1, <1>3
<1>7. RunnableOK(D)
  <2>1. Ready(S) \subseteq Tasks
    BY DEF Ready
  <2>2. \A u \in Tasks : u \in Ready(D) <=> TSTAT_RUNNABLE(D.tstat[u])
    BY <1>4, <1>5, <1>6
  <2> QED
    BY <1>4, <2>1, <2>2 DEF RunnableOK
<1>7a. D.waitq = S.waitq
  BY <1>1 DEF make_dormant, KernelState
<1>7b. Waits(D, {})
  <2>1. D.handlers = S.handlers
    BY <1>3 DEF Frame
  <2>2. \A w \in TA_TPRI : ~Linked(S.waitq[w], t)
    BY <1>0a, WaitAssumption DEF InQueue
  <2>3. QueuedOK(D.waitq, D.priority)
    <3>1. QueuedOK(S.waitq, S.priority)
      BY <1>0 DEF Waits
    <3>2. \A u \in Tasks : u # t => D.priority[u] = S.priority[u]
      BY <1>3
    <3> QED
      BY <1>7a, <2>2, <3>1, <3>2, Reprioritized
  <2>4. WaitOK(D, {}, t)
    BY <1>0a, <1>3, <1>6, <1>7a, <2>2, ObjectWaitFacts DEF WaitOK
  <2>5. OthersWait(S, X, D, {}, t)
    BY <1>0, <1>3, <1>6, <1>7a DEF OthersWait
  <2> QED
    BY <1>0, <2>1, <2>3, <2>4, <2>5, WaitsMove
<1>8. TexFramesOK(D)
  <2>1. \A u \in Tasks : D.texlp[u] => S.texlp[u] /\ D.texfrm[u] = S.texfrm[u]
    BY <1>1 DEF make_dormant, KernelState
  <2> QED
    BY <2>1 DEF TexFramesOK
<1>9. TimersOK(D)
  BY <1>3, <1>6 DEF TimersOK
<1> QED
  BY <1>3, <1>4, <1>7, <1>7a, <1>7b, <1>8, <1>9 DEF Base, FlagsOK, Frame

-----------------------------------------------------------------------------
(* Task exceptions and dispatching.                                        *)

(* What call_texrtn and the end of its loop change.                        *)
OnlyTex(S, R) ==
  /\ R \in KernelState /\ TexFramesOK(R)
  /\ Frame(S, R)
  /\ R.readyq = S.readyq /\ R.primap = S.primap /\ R.schedtsk = S.schedtsk
  /\ R.priority = S.priority /\ R.tstat = S.tstat /\ R.tmo = S.tmo
  /\ R.waitq = S.waitq

LEMMA TexRoutine ==
  ASSUME NEW S \in KernelState, TexFramesOK(S), S.runtsk \in Tasks
  PROVE  /\ OnlyTex(S, call_texrtn(S))
         /\ S.texfrm[S.runtsk] # <<>> => OnlyTex(S, call_texrtn_until(S))
         /\ OnlyTex(S, calltex(S))
         /\ OnlyTex(S, dispatch_r(S))
<1> DEFINE t == S.runtsk
<1>1. /\ S.texfrm \in [Tasks -> Seq(BOOLEAN)] /\ S.disdsp \in BOOLEAN
      /\ S.texlp \in [Tasks -> BOOLEAN]
  BY DEF KernelState
<1>2. /\ <<S.disdsp>> \o S.texfrm[t] \in Seq(BOOLEAN)
      /\ <<S.disdsp>> \o S.texfrm[t] # <<>>
  BY <1>1
<1>3. S.texfrm[t] # <<>> => Tail(S.texfrm[t]) \in Seq(BOOLEAN)
  <2>1. S.texfrm[t] \in Seq(BOOLEAN)
    BY <1>1
  <2> QED
    BY <2>1, HeadTailProperties
<1>4. OnlyTex(S, S)
  BY DEF OnlyTex, Frame
<1>5. OnlyTex(S, call_texrtn(S))
  <2> DEFINE R == call_texrtn(S)
  <2>1. R \in KernelState
    BY <1>1, <1>2 DEF call_texrtn, KernelState
  <2>2. /\ R.texlp = S.texlp
        /\ R.texfrm = [S.texfrm EXCEPT ![t] = <<S.disdsp>> \o @]
    BY DEF call_texrtn, KernelState
  <2>3. TexFramesOK(R)
    <3> HIDE DEF R
    <3> QED
      BY <1>1, <1>2, <2>2 DEF TexFramesOK
  <2> QED
    BY <2>1, <2>3 DEF OnlyTex, Frame, call_texrtn, KernelState
<1>6. ASSUME S.texfrm[t] # <<>>
      PROVE  OnlyTex(S, call_texrtn_until(S))
  <2> DEFINE R == call_texrtn_until(S)
  <2>1. R \in KernelState
    BY <1>1, <1>3, <1>6 DEF call_texrtn_until, KernelState
  <2>2. /\ R.texlp = [S.texlp EXCEPT ![t] = FALSE]
        /\ \A u \in Tasks \ {t} : R.texfrm[u] = S.texfrm[u]
    BY <1>1 DEF call_texrtn_until, KernelState
  <2>3. TexFramesOK(R)
    <3> HIDE DEF R
    <3> QED
      BY <1>1, <2>2 DEF TexFramesOK
  <2> QED
    BY <2>1, <2>3, ZenonT(60) DEF OnlyTex, Frame, call_texrtn_until, KernelState
<1>7. OnlyTex(S, calltex(S))
  BY <1>4, <1>5 DEF calltex
<1>8. OnlyTex(S, dispatch_r(S))
  BY <1>6, <1>7 DEF dispatch_r, TexFramesOK
<1> QED
  BY <1>5, <1>6, <1>7, <1>8

(* Such a change keeps the invariant.                                      *)
LEMMA TexKeepsBut ==
  ASSUME NEW S, NEW X, BaseBut(S, X), NEW R, OnlyTex(S, R)
  PROVE  BaseBut(R, X) /\ Ready(R) = Ready(S) /\ (Switched(S) => Switched(R))
<1>1. Core(R) /\ Ready(R) = Ready(S)
  BY SameQueues DEF BaseBut, OnlyTex
<1>2. Waits(R, X)
  BY WaitsSame DEF BaseBut, OnlyTex, Frame
<1> QED
  BY <1>1, <1>2 DEF BaseBut, OnlyTex, RunnableOK, TimersOK, FlagsOK, Frame,
                    Switched

LEMMA TexKeeps ==
  ASSUME NEW S, Base(S), NEW R, OnlyTex(S, R)
  PROVE  Base(R) /\ Ready(R) = Ready(S) /\ (Switched(S) => Switched(R))
BY BaseIsBut, TexKeepsBut

(* dispatch(): the scheduled task runs.                                    *)
LEMMA Dispatch ==
  ASSUME NEW S, Base(S), S.handlers = <<>>, ~S.reqflg, S.dspflg,
         NEW R, R = dispatch(S)
  PROVE  /\ Base(R) /\ Switched(R) /\ R.ini = S.ini
         /\ Ready(R) = Ready(S) /\ R.runtsk = S.schedtsk
         /\ R.handlers = <<>> /\ R.dspflg /\ ~R.reqflg
         /\ R.priority = S.priority /\ R.waitq = S.waitq
<1> DEFINE wercd == [t \in Tasks |-> IF t = S.runtsk THEN "none"
                                     ELSE S.wercd[t]]
           D == [S EXCEPT !.runtsk = S.schedtsk, !.wercd = wercd]
<1>1. S \in KernelState
  BY DEF Base, Core
<1>2. R = IF S.schedtsk = NULL THEN D ELSE dispatch_r(D)
  BY <1>1 DEF dispatch, KernelState
<1>3. wercd \in [Tasks -> {"none", "E_OK", "E_TMOUT", "E_RLWAI", "E_DLT"}]
  BY <1>1 DEF KernelState
<1> HIDE DEF wercd
<1>4. /\ D \in KernelState
      /\ D.readyq = S.readyq /\ D.primap = S.primap /\ D.schedtsk = S.schedtsk
      /\ D.priority = S.priority /\ D.tstat = S.tstat /\ D.tmo = S.tmo
      /\ D.texfrm = S.texfrm /\ D.texlp = S.texlp
      /\ D.dspflg = S.dspflg /\ D.disdsp = S.disdsp /\ D.ipmflg = S.ipmflg
      /\ D.reqflg = S.reqflg /\ D.handlers = S.handlers /\ D.ini = S.ini
      /\ D.runtsk = S.schedtsk
  BY <1>1, <1>3 DEF KernelState
<1>4a. D.waitq = S.waitq
  BY <1>1 DEF KernelState
<1> HIDE DEF D
<1>5. Core(D) /\ Ready(D) = Ready(S)
  BY <1>4, SameQueues DEF Base
<1>6. Base(D)
  <2>1. Waits(D, {})
    BY <1>4, <1>4a, WaitsSame DEF Base
  <2> QED
    BY <1>4, <1>5, <2>1 DEF Base, RunnableOK, TimersOK, TexFramesOK, FlagsOK
<1>7. Switched(D)
  BY <1>4, <1>5, SchedTop DEF Switched, Core
<1>8. D.runtsk = NULL \/ D.runtsk \in Tasks
  BY <1>4 DEF KernelState
<1>9. CASE S.schedtsk = NULL
  BY <1>2, <1>4, <1>4a, <1>5, <1>6, <1>7, <1>9
<1>10. CASE S.schedtsk # NULL
  <2>1. OnlyTex(D, R)
    BY <1>2, <1>4, <1>6, <1>8, <1>10, TexRoutine DEF Base
  <2> QED
    BY <1>4, <1>4a, <1>5, <1>6, <1>7, <2>1, TexKeeps DEF OnlyTex, Frame
<1> QED
  BY <1>9, <1>10

-----------------------------------------------------------------------------
(* What a step does: it keeps the invariant, and p_runtsk, unless it ends  *)
(* where nothing holds dispatching back.                                   *)
Free(S) == S.ini = 0 /\ S.dspflg /\ S.handlers = <<>> /\ ~S.reqflg

Step(S, R) == KernelInv(R) /\ (R.runtsk = S.runtsk \/ Free(R))

(* A step that touches neither the queues nor where the processor is.      *)
LEMMA AsideStep ==
  ASSUME NEW S, KernelInv(S), NEW R, OnlyTex(S, R)
  PROVE  Step(S, R)
<1>1. Base(R) /\ (Switched(S) => Switched(R)) /\ R.tstat = S.tstat /\ Frame(S, R)
  BY TexKeeps DEF KernelInv, OnlyTex
<1>2. Starting(S) => Starting(R)
  BY <1>1 DEF Starting, Frame
<1> QED
  BY <1>1, <1>2 DEF Step, KernelInv, Frame

LEMMA DispatchStep ==
  ASSUME NEW S, Base(S), S.ini = 0, S.handlers = <<>>, ~S.reqflg, S.dspflg,
         NEW S0
  PROVE  Step(S0, dispatch(S))
<1> DEFINE R == dispatch(S)
<1>1. /\ Base(R) /\ Switched(R) /\ R.ini = 0
      /\ R.handlers = <<>> /\ R.dspflg /\ ~R.reqflg
  BY Dispatch
<1> QED
  BY <1>1 DEF Step, KernelInv, Free

(* "if (r) { dispatch(); }" in a task.                                     *)
LEMMA DispatchIfStep ==
  ASSUME NEW S, Switched(S), S.ini = 0, S.handlers = <<>>, S.runtsk # NULL,
         NEW r, Base(r.st), Frame(S, r.st), Tells(S, r),
         S.runtsk \in Ready(r.st) \/ r.dsp
  PROVE  Step(S, DispatchIf(r))
<1>1. /\ r.st.ini = 0 /\ r.st.handlers = <<>> /\ r.st.reqflg = S.reqflg
      /\ r.st.dspflg = S.dspflg /\ r.st.runtsk = S.runtsk
  BY DEF Frame
<1>2. ~S.reqflg /\ (S.dspflg => S.runtsk = S.schedtsk)
  BY DEF Switched
<1>3. CASE r.dsp
  <2>1. r.st.dspflg
    BY <1>1, <1>3 DEF Tells
  <2>2. Step(S, dispatch(r.st))
    BY <1>1, <1>2, <2>1, DispatchStep
  <2> QED
    BY <1>3, <2>2 DEF DispatchIf
<1>4. CASE ~r.dsp
  <2>1. S.dspflg => r.st.schedtsk = S.schedtsk
    BY <1>4 DEF Tells
  <2>2. Switched(r.st)
    BY <1>1, <1>2, <1>4, <2>1 DEF Switched
  <2> QED
    BY <1>1, <1>4, <2>2 DEF Step, KernelInv, DispatchIf
<1> QED
  BY <1>3, <1>4

(* "if (r) { reqflg = true; }" in a handler.                               *)
LEMMA RequestIfStep ==
  ASSUME NEW S, Switched(S), S.ini = 0, S.handlers # <<>>,
         NEW r, Base(r.st), Frame(S, r.st), Tells(S, r),
         Ready(S) \subseteq Ready(r.st)
  PROVE  Step(S, RequestIf(r))
<1>1. /\ r.st.ini = 0 /\ r.st.handlers = S.handlers /\ r.st.reqflg = S.reqflg
      /\ r.st.dspflg = S.dspflg /\ r.st.runtsk = S.runtsk
  BY DEF Frame
<1>2. CASE r.dsp
  <2> DEFINE Q == [r.st EXCEPT !.reqflg = TRUE]
  <2>1. /\ Q \in KernelState
        /\ Q.readyq = r.st.readyq /\ Q.primap = r.st.primap
        /\ Q.schedtsk = r.st.schedtsk /\ Q.priority = r.st.priority
        /\ Q.tstat = r.st.tstat /\ Q.tmo = r.st.tmo
        /\ Q.texfrm = r.st.texfrm /\ Q.texlp = r.st.texlp
        /\ Q.dspflg = r.st.dspflg /\ Q.disdsp = r.st.disdsp
        /\ Q.ipmflg = r.st.ipmflg /\ Q.reqflg = TRUE /\ Q.ini = r.st.ini
        /\ Q.handlers = r.st.handlers /\ Q.runtsk = r.st.runtsk
    BY DEF Base, Core, KernelState
  <2>1a. Q.waitq = r.st.waitq
    BY DEF Base, Core, KernelState
  <2> HIDE DEF Q
  <2>2. Core(Q) /\ Ready(Q) = Ready(r.st)
    BY <2>1, SameQueues DEF Base
  <2>3. Base(Q)
    <3>1. Waits(Q, {})
      BY <2>1, <2>1a, WaitsSame DEF Base
    <3> QED
      BY <2>1, <2>2, <3>1 DEF Base, RunnableOK, TimersOK, TexFramesOK, FlagsOK
  <2>4. Switched(Q)
    BY <1>1, <2>1, <2>2 DEF Switched
  <2>5. RequestIf(r) = Q
    BY <1>2 DEF RequestIf, Q
  <2> QED
    BY <1>1, <2>1, <2>3, <2>4, <2>5 DEF Step, KernelInv
<1>3. CASE ~r.dsp
  <2>1. S.dspflg => r.st.schedtsk = S.schedtsk
    BY <1>3 DEF Tells
  <2>2. Switched(r.st)
    BY <1>1, <2>1 DEF Switched
  <2> QED
    BY <1>1, <1>3, <2>2 DEF Step, KernelInv, RequestIf
<1> QED
  BY <1>2, <1>3

(* A time event is entered or taken out.                                   *)
Retimed(S, R, t, x) ==
  /\ R \in KernelState
  /\ R.readyq = S.readyq /\ R.primap = S.primap
  /\ R.schedtsk = S.schedtsk /\ R.priority = S.priority
  /\ R.tstat = S.tstat /\ R.texfrm = S.texfrm /\ R.texlp = S.texlp
  /\ R.tmo[t] = x /\ \A u \in Tasks \ {t} : R.tmo[u] = S.tmo[u]
  /\ R.waitq = S.waitq /\ Frame(S, R)

LEMMA SetTmo ==
  ASSUME NEW S \in KernelState, NEW t \in Tasks, NEW x \in Int
  PROVE  Retimed(S, [S EXCEPT !.tmo[t] = x], t, x)
<1> DEFINE R == [S EXCEPT !.tmo[t] = x]
           tmo == [S.tmo EXCEPT ![t] = x]
<1>1. S.tmo \in [Tasks -> Int]
  BY DEF KernelState
<1>2. R = [S EXCEPT !.tmo = tmo] /\ tmo \in [Tasks -> Int]
  BY <1>1 DEF KernelState
<1>3. tmo[t] = x /\ \A u \in Tasks \ {t} : tmo[u] = S.tmo[u]
  BY <1>1
<1> HIDE DEF tmo, R
<1>4. R \in KernelState /\ R.tmo = tmo
  BY <1>2 DEF KernelState
<1>5. /\ R.readyq = S.readyq /\ R.primap = S.primap
      /\ R.schedtsk = S.schedtsk /\ R.priority = S.priority
      /\ R.tstat = S.tstat
      /\ R.texfrm = S.texfrm /\ R.texlp = S.texlp /\ Frame(S, R)
      /\ R.waitq = S.waitq
  BY <1>2 DEF KernelState, Frame
<1>6. Retimed(S, R, t, x)
  BY <1>3, <1>4, <1>5 DEF Retimed
<1> QED
  BY <1>6 DEF R

(* The event is that of a task that waits; it is taken out, or is not due. *)
LEMMA Dequeued ==
  ASSUME NEW S, NEW X, BaseBut(S, X), NEW t \in Tasks,
         \/ t \in X
         \/ TSTAT_WAITING(S.tstat[t]) /\ TS_WAIT_DLY \notin S.tstat[t],
         NEW x \in Int, x >= -1, x # 0, NEW R, Retimed(S, R, t, x)
  PROVE  BaseBut(R, X) /\ Ready(R) = Ready(S)
<1>1. Core(R) /\ Ready(R) = Ready(S)
  BY SameQueues DEF BaseBut, Retimed
<1>2. TSTAT_WAITING(S.tstat[t])
  BY DEF BaseBut, Waits, WaitOK
<1>3. TimersOK(R)
  BY <1>2 DEF BaseBut, Retimed, TimersOK
<1>4. Waits(R, X)
  <2>1. Waits(S, X) /\ X \in SUBSET Tasks /\ WaitOK(S, X, t)
    BY <1>2 DEF BaseBut, Waits
  <2>2. WaitOK(R, X, t)
    BY <2>1 DEF WaitOK, Retimed
  <2> QED
    BY <1>2, <2>1, <2>2, WaitsState DEF Retimed, Frame
<1> QED
  BY <1>1, <1>3, <1>4 DEF BaseBut, Retimed, RunnableOK, TexFramesOK, FlagsOK,
                          Frame

(* An assignment to flags that leaves queues and tasks alone.              *)
LEMMA Unmoved ==
  ASSUME NEW S, Base(S), NEW R \in KernelState, FlagsOK(R),
         R.readyq = S.readyq, R.primap = S.primap, R.schedtsk = S.schedtsk,
         R.priority = S.priority, R.tstat = S.tstat, R.tmo = S.tmo,
         R.waitq = S.waitq,
         \/ R.handlers = S.handlers
         \/ \A t \in Tasks : S.tmo[t] = 0 => Linked(R.handlers, "tick"),
         R.texfrm = S.texfrm, \A t \in Tasks : R.texlp[t] => S.texlp[t]
  PROVE  Base(R) /\ Ready(R) = Ready(S)
<1>1. Core(R) /\ Ready(R) = Ready(S)
  BY SameQueues DEF Base
<1>2. Waits(R, {})
  BY WaitsSame DEF Base
<1> QED
  BY <1>1, <1>2 DEF Base, RunnableOK, TimersOK, TexFramesOK

(* Only the wait queues differ.                                            *)
Alike(S, R) ==
  /\ R \in KernelState
  /\ R.readyq = S.readyq /\ R.primap = S.primap
  /\ R.schedtsk = S.schedtsk /\ R.priority = S.priority
  /\ R.tstat = S.tstat /\ R.tmo = S.tmo /\ R.wercd = S.wercd
  /\ R.texfrm = S.texfrm /\ R.texlp = S.texlp
  /\ Frame(S, R)

WithWaitq(S, w, q) == [S EXCEPT !.waitq[w] = q]

LEMMA SetWaitq ==
  ASSUME NEW S \in KernelState, NEW w \in WaitQueues, NEW q \in Seq(Tasks),
         NEW R, R = WithWaitq(S, w, q)
  PROVE  Alike(S, R) /\ R.waitq = [S.waitq EXCEPT ![w] = q]
<1> DEFINE waitq == [S.waitq EXCEPT ![w] = q]
<1>1. R = [S EXCEPT !.waitq = waitq] /\ waitq \in [WaitQueues -> Seq(Tasks)]
  BY DEF KernelState, WithWaitq
<1> HIDE DEF waitq
<1>2. R \in KernelState /\ R.waitq = waitq
  BY <1>1 DEF KernelState
<1>3. /\ R.readyq = S.readyq /\ R.primap = S.primap
      /\ R.schedtsk = S.schedtsk /\ R.priority = S.priority
      /\ R.tstat = S.tstat /\ R.tmo = S.tmo /\ R.wercd = S.wercd
      /\ R.texfrm = S.texfrm /\ R.texlp = S.texlp
      /\ Frame(S, R)
  BY <1>1 DEF KernelState, Frame
<1> QED
  BY <1>2, <1>3 DEF Alike, waitq

LEMMA AlikeBut ==
  ASSUME NEW S, NEW X, BaseBut(S, X), NEW R, Alike(S, R), NEW Y, Waits(R, Y)
  PROVE  BaseBut(R, Y) /\ Ready(R) = Ready(S)
<1>1. Core(R) /\ Ready(R) = Ready(S)
  BY SameQueues DEF BaseBut, Alike
<1> QED
  BY <1>1 DEF BaseBut, Alike, RunnableOK, TimersOK, TexFramesOK, FlagsOK, Frame

(* t is taken out of the wait queue w, of which r is left.                 *)
TakenFrom(q, t, r) == \A y : Linked(r, y) <=> Linked(q, y) /\ y # t

UnlinkedFrom(S, X, w, t, r, R) ==
  /\ BaseBut(R, X \cup {t}) /\ Ready(R) = Ready(S) /\ Alike(S, R)
  /\ R.waitq = [S.waitq EXCEPT ![w] = r]
  /\ t \notin X /\ TSTAT_WAIT_WOBJ(S.tstat[t])

LEMMA Unlink ==
  ASSUME NEW S, NEW X, BaseBut(S, X), NEW w \in WaitQueues, NEW t \in Tasks,
         Linked(S.waitq[w], t), NEW r, QueueOK(r, w, S.priority),
         TakenFrom(S.waitq[w], t, r),
         NEW R, R = WithWaitq(S, w, r)
  PROVE  UnlinkedFrom(S, X, w, t, r, R)
<1> DEFINE Y == X \cup {t}
<1> USE DEF TakenFrom
<1>1. S \in KernelState /\ r \in Seq(Tasks) /\ S.tstat[t] \in TStat
  BY DEF BaseBut, Core, KernelState, QueueOK
<1>2. Alike(S, R) /\ R.waitq = [S.waitq EXCEPT ![w] = r]
  BY <1>1, SetWaitq
<1>3. Waits(S, X) /\ QueuedOK(S.waitq, S.priority) /\ WaitOK(S, X, t)
      /\ InQueue(S.waitq, t)
  BY DEF BaseBut, Waits, InQueue
<1>4. t \notin X /\ TSTAT_WAIT_WOBJ(S.tstat[t]) /\ TSTAT_WAITING(S.tstat[t])
  BY <1>1, <1>3, ObjectWaitFacts DEF WaitOK
<1> DEFINE Q == S.waitq
           P == [Q EXCEPT ![w] = r]
           pr == S.priority
<1>5. /\ QueuedOK(P, pr)
      /\ P[w] = r /\ \A v \in WaitQueues : v # w => P[v] = Q[v]
      /\ \A y : InQueue(P, y) <=> \/ Linked(r, y)
                                  \/ InQueue(Q, y) /\ ~Linked(Q[w], y)
  <2>1. QueuedOK(Q, pr) /\ QueueOK(r, w, pr) /\ Moved(Q, w, r, P)
    BY <1>3 DEF Moved
  <2> HIDE DEF P, Q, pr
  <2> QED
    BY <2>1, SetQueue
<1> HIDE DEF P
<1>6. /\ ~InQueue(P, t)
      /\ \A u \in Tasks \ {t} :
           /\ InQueue(P, u) <=> InQueue(Q, u)
           /\ \A v \in TA_TPRI : Linked(P[v], u) => Linked(Q[v], u)
  BY <1>5, WaitAssumption DEF InQueue
<1>7. \A v \in TA_TPRI : ~Linked(P[v], t)
  BY <1>6, WaitAssumption DEF InQueue
<1>8. Waits(R, Y)
  <2>1. Y \in SUBSET Tasks /\ t \in Y /\ \A u \in Tasks \ {t} : u \in Y <=> u \in X
    BY <1>3 DEF Waits
  <2> HIDE DEF Y
  <2>2. /\ R.waitq = P /\ R.priority = S.priority /\ R.tstat = S.tstat
        /\ R.tmo = S.tmo /\ R.handlers = S.handlers
    BY <1>2 DEF Alike, Frame, P
  <2>3. WaitOK(R, Y, t)
    BY <1>3, <1>4, <1>6, <1>7, <2>1, <2>2 DEF WaitOK
  <2>4. OthersWait(S, X, R, Y, t)
    BY <1>6, <2>1, <2>2 DEF OthersWait
  <2>5. QueuedOK(R.waitq, R.priority)
    BY <1>5, <2>2
  <2> QED
    BY <1>3, <2>1, <2>2, <2>3, <2>4, <2>5, WaitsMove
<1> HIDE DEF Y
<1>9. BaseBut(R, Y) /\ Ready(R) = Ready(S)
  BY <1>2, <1>8, AlikeBut
<1> QED
  BY <1>2, <1>4, <1>9 DEF UnlinkedFrom, Y

(* A wait for no object is over.                                           *)
LEMMA NotQueued ==
  ASSUME NEW S, NEW X, BaseBut(S, X), NEW t \in Tasks,
         TSTAT_WAITING(S.tstat[t]), ~TSTAT_WAIT_WOBJ(S.tstat[t]), NEW Y, Y = X \cup {t}
  PROVE  BaseBut(S, Y)
<1>1. Waits(S, X) /\ X \in SUBSET Tasks /\ WaitOK(S, X, t)
  BY DEF BaseBut, Waits
<1>2. Y \in SUBSET Tasks /\ t \in Y /\ \A u \in Tasks \ {t} : u \in Y <=> u \in X
  BY <1>1
<1>3. WaitOK(S, Y, t)
  BY <1>1, <1>2 DEF WaitOK
<1>4. Waits(S, Y)
  BY <1>1, <1>2, <1>3, WaitsState
<1> QED
  BY <1>4 DEF BaseBut

(* wait_dequeue_wobj.                                                      *)
LEMMA DequeueWobj ==
  ASSUME NEW S, NEW X, BaseBut(S, X), NEW t \in Tasks,
         TSTAT_WAITING(S.tstat[t]), t \notin X,
         NEW D, D = wait_dequeue_wobj(S, t), NEW Y, Y = X \cup {t}
  PROVE  BaseBut(D, Y) /\ Ready(D) = Ready(S) /\ Alike(S, D)
<1>1. CASE TSTAT_WAIT_WOBJ(S.tstat[t])
  <2> DEFINE w == WaitQueueOf(S, t)
             r == queue_delete(S.waitq[w], t)
  <2>1. InQueue(S.waitq, t) /\ S \in KernelState
        /\ QueuedOK(S.waitq, S.priority)
    BY <1>1 DEF BaseBut, Core, Waits, WaitOK
  <2>2. w \in WaitQueues /\ Linked(S.waitq[w], t)
    BY <2>1 DEF InQueue, WaitQueueOf
  <2>3. D = WithWaitq(S, w, r)
    BY <1>1 DEF wait_dequeue_wobj, WithWaitq
  <2> HIDE DEF w
  <2>4. QueueOK(S.waitq[w], w, S.priority)
    BY <2>1, <2>2 DEF QueuedOK
  <2>5. /\ QueueOK(r, w, S.priority)
        /\ TakenFrom(S.waitq[w], t, r)
    BY <2>2, <2>4, DeleteWaiting DEF TakenFrom
  <2> HIDE DEF r
  <2>6. UnlinkedFrom(S, X, w, t, r, D)
    BY <2>2, <2>3, <2>5, Unlink
  <2> QED
    BY <2>6 DEF UnlinkedFrom
<1>2. CASE ~TSTAT_WAIT_WOBJ(S.tstat[t])
  <2>1. D = S
    BY <1>2 DEF wait_dequeue_wobj
  <2>2. Alike(S, S)
    BY DEF Alike, Frame, BaseBut, Core
  <2> QED
    BY <1>2, <2>1, <2>2, NotQueued
<1> QED
  BY <1>1, <1>2

(* The context of a task.                                                  *)
LEMMA TskCtxFacts ==
  ASSUME KernelInv(k), TskCtx
  PROVE  /\ Base(k) /\ Switched(k) /\ k \in KernelState
         /\ k.ini = 0 /\ k.handlers = <<>> /\ k.runtsk # NULL
         /\ k.runtsk \in Tasks /\ k.runtsk \in Ready(k)
         /\ ~k.reqflg /\ (k.dspflg => k.runtsk = k.schedtsk)
         /\ TSTAT_RUNNABLE(k.tstat[k.runtsk])
         /\ k.dspflg = (k.ipmflg /\ ~k.disdsp)
<1>1. Base(k) /\ Switched(k) /\ k \in KernelState
  BY DEF KernelInv, TskCtx, Base, Core
<1>2. k.runtsk \in Ready(k)
  BY <1>1 DEF TskCtx, Switched
<1>3. k.runtsk \in Tasks /\ TSTAT_RUNNABLE(k.tstat[k.runtsk])
  BY <1>1, <1>2 DEF Base, RunnableOK
<1> QED
  BY <1>1, <1>2, <1>3 DEF TskCtx, Switched, Base, FlagsOK

(* The context of a handler.                                               *)
LEMMA HandlerFacts ==
  ASSUME KernelInv(k), k.handlers # <<>>
  PROVE  /\ Base(k) /\ Switched(k) /\ k \in KernelState /\ k.ini = 0
BY DEF KernelInv, Starting, Base, Core

-----------------------------------------------------------------------------
(* task_manage.c                                                           *)

(* A dormant task neither runs nor has a time event.                       *)
LEMMA DormantFacts ==
  ASSUME NEW S, Base(S), NEW t \in Tasks, TSTAT_DORMANT(S.tstat[t])
  PROVE  /\ ~TSTAT_RUNNABLE(S.tstat[t]) /\ ~TSTAT_WAITING(S.tstat[t])
         /\ S.tmo[t] = -1
BY DEF Base, TimersOK, TSTAT_DORMANT, TS_DORMANT, TSTAT_RUNNABLE, TSTAT_WAITING

LEMMA ActTsk ==
  ASSUME KernelInv(k), NEW t \in Tasks, act_tsk(t)
  PROVE  Step(k, k')
<1>1. TskCtx /\ Base(k) /\ Switched(k) /\ k \in KernelState
  BY TskCtxFacts DEF act_tsk, TskCtxUnl
<1>2. CASE /\ TSTAT_DORMANT(k.tstat[t])
           /\ k' = DispatchIf(make_active(k, t))
  <2> DEFINE r == make_active(k, t)
  <2>1. /\ Base(r.st) /\ Frame(k, r.st) /\ Tells(k, r)
        /\ Ready(r.st) = Ready(k) \cup {t}
    BY <1>1, <1>2, DormantFacts, Activate
  <2> HIDE DEF r
  <2>2. Step(k, DispatchIf(r))
    BY <1>1, <2>1, TskCtxFacts, DispatchIfStep
  <2> QED
    BY <1>2, <2>2 DEF r
<1>3. CASE k' = [k EXCEPT !.actque[t] = TRUE]
  <2>1. OnlyTex(k, k')
    BY <1>1, <1>3 DEF OnlyTex, Base, TexFramesOK, Frame, KernelState
  <2> QED
    BY <2>1, AsideStep
<1> QED
  BY <1>2, <1>3 DEF act_tsk

LEMMA IactTsk ==
  ASSUME KernelInv(k), NEW t \in Tasks, iact_tsk(t)
  PROVE  Step(k, k')
<1>1. k.handlers # <<>> /\ Base(k) /\ Switched(k) /\ k \in KernelState /\ k.ini = 0
  BY HandlerFacts DEF iact_tsk, IntCtxUnl
<1>2. CASE /\ TSTAT_DORMANT(k.tstat[t])
           /\ k' = RequestIf(make_active(k, t))
  <2> DEFINE r == make_active(k, t)
  <2>0. ~TSTAT_RUNNABLE(k.tstat[t]) /\ ~TSTAT_WAITING(k.tstat[t])
    BY <1>1, <1>2, DormantFacts
  <2>1. /\ Base(r.st) /\ Frame(k, r.st) /\ Tells(k, r)
        /\ Ready(r.st) = Ready(k) \cup {t}
    BY <1>1, <2>0, Activate
  <2> HIDE DEF r
  <2>2. Step(k, RequestIf(r))
    BY <1>1, <2>1, RequestIfStep
  <2> QED
    BY <1>2, <2>2 DEF r
<1>3. CASE k' = [k EXCEPT !.actque[t] = TRUE]
  <2>1. OnlyTex(k, k')
    BY <1>1, <1>3 DEF OnlyTex, Base, TexFramesOK, Frame, KernelState
  <2> QED
    BY <2>1, AsideStep
<1> QED
  BY <1>2, <1>3 DEF iact_tsk

LEMMA CanAct ==
  ASSUME KernelInv(k), NEW t \in Tasks, can_act(t)
  PROVE  Step(k, k')
<1>1. k \in KernelState /\ TexFramesOK(k)
  BY DEF KernelInv, Base, Core
<1>2. OnlyTex(k, k')
  BY <1>1 DEF can_act, OnlyTex, TexFramesOK, Frame, KernelState
<1> QED
  BY <1>2, AsideStep

(* The restart of a task that is dormant.                                  *)
LEMMA RestartDormant ==
  ASSUME NEW S, Base(S), NEW t \in Tasks, TSTAT_DORMANT(S.tstat[t]),
         NEW r, r = Restart(S, t)
  PROVE  /\ Base(r.st) /\ Frame(S, r.st) /\ Tells(S, r)
         /\ Ready(S) \subseteq Ready(r.st)
<1>1. CASE S.actque[t]
  <2> DEFINE A == [S EXCEPT !.actque[t] = FALSE]
  <2>1. S \in KernelState
    BY DEF Base, Core
  <2>2. OnlyTex(S, A)
    BY <2>1 DEF OnlyTex, Base, TexFramesOK, Frame, KernelState
  <2>3. r = make_active(A, t)
    BY <1>1 DEF Restart
  <2> HIDE DEF A
  <2>4. Base(A) /\ Ready(A) = Ready(S)
    BY <2>2, TexKeeps
  <2>5. TSTAT_DORMANT(A.tstat[t])
    BY <2>2 DEF OnlyTex
  <2>7. ~TSTAT_RUNNABLE(A.tstat[t]) /\ ~TSTAT_WAITING(A.tstat[t])
    BY <2>4, <2>5, DormantFacts
  <2>6. /\ Base(r.st) /\ Frame(A, r.st) /\ Tells(A, r)
        /\ Ready(r.st) = Ready(A) \cup {t}
    BY <2>3, <2>4, <2>7, Activate
  <2> QED
    BY <2>2, <2>4, <2>6 DEF OnlyTex, Frame, Tells
<1>2. CASE ~S.actque[t]
  <2>1. r.st = S /\ r.dsp = FALSE
    BY <1>2 DEF Restart
  <2> QED
    BY <2>1 DEF Frame, Tells
<1> QED
  BY <1>1, <1>2

(* The state in which ext_tsk dispatches, and what ter_tsk ends with.      *)
Exited(S) ==
  LET E == [S EXCEPT !.disdsp = FALSE, !.ipmflg = TRUE, !.dspflg = TRUE,
                     !.lock = FALSE]
      D == make_dormant(make_non_runnable(E, S.runtsk).st, S.runtsk)
  IN Restart(D, S.runtsk).st

Terminated(S, t) ==
  LET E == IF TSTAT_RUNNABLE(S.tstat[t]) THEN make_non_runnable(S, t).st
           ELSE IF TSTAT_WAITING(S.tstat[t])
           THEN wait_dequeue_tmevtb(wait_dequeue_wobj(S, t), t)
           ELSE S
      D == [make_dormant(E, t) EXCEPT !.wercd[t] = "none"]
  IN Restart(D, t)

LEMMA ExitedBase ==
  ASSUME KernelInv(k), ext_tsk, NEW A, A = Exited(k)
  PROVE  /\ Base(A) /\ A.ini = 0 /\ A.handlers = <<>> /\ ~A.reqflg /\ A.dspflg
         /\ k' = dispatch(A)
<1> DEFINE t == k.runtsk
           E == [k EXCEPT !.disdsp = FALSE, !.ipmflg = TRUE, !.dspflg = TRUE,
                          !.lock = FALSE]
           N == make_non_runnable(E, t).st
           D == make_dormant(N, t)
<1>0. A = Restart(D, t).st
  BY DEF Exited
<1>1. /\ Base(k) /\ k \in KernelState /\ k.ini = 0 /\ k.handlers = <<>>
      /\ ~k.reqflg /\ t \in Tasks /\ t \in Ready(k) /\ TSTAT_RUNNABLE(k.tstat[t])
  BY TskCtxFacts DEF ext_tsk
<1>2. k' = dispatch(A)
  BY DEF ext_tsk, Exited
<1>3. /\ E \in KernelState
      /\ E.readyq = k.readyq /\ E.primap = k.primap
      /\ E.schedtsk = k.schedtsk /\ E.priority = k.priority
      /\ E.tstat = k.tstat /\ E.tmo = k.tmo
      /\ E.texfrm = k.texfrm /\ E.texlp = k.texlp
      /\ E.dspflg = TRUE /\ E.disdsp = FALSE /\ E.ipmflg = TRUE
      /\ E.reqflg = k.reqflg /\ E.handlers = k.handlers /\ E.ini = k.ini
      /\ FlagsOK(E)
  BY <1>1 DEF KernelState, FlagsOK
<1>3a. E.waitq = k.waitq
  BY <1>1 DEF KernelState
<1> HIDE DEF E
<1>4. Base(E) /\ Ready(E) = Ready(k)
  BY <1>1, <1>3, <1>3a, Unmoved
<1>5. /\ N \in KernelState /\ QueuesOK(N) /\ SchedOK(N)
      /\ Ready(N) = Ready(E) \ {t}
      /\ Same(E, N) /\ N.priority = E.priority
  <2>1. /\ E \in KernelState /\ QueuesOK(E) /\ SchedOK(E) /\ t \in Ready(E)
    BY <1>1, <1>4 DEF Base, Core
  <2> QED
    BY <2>1, MakeNonRunnable
<1> HIDE DEF N
<1>6. /\ Core(N) /\ t \notin Ready(N)
      /\ \A u \in Tasks \ {t} : u \in Ready(N) <=> TSTAT_RUNNABLE(N.tstat[u])
      /\ TimersOK(N) /\ TexFramesOK(N) /\ FlagsOK(N)
  BY <1>4, <1>5 DEF Base, Core, Same, RunnableOK, TimersOK,
                    TexFramesOK, FlagsOK
<1>7. N.tmo[t] = -1 /\ ~InQueue(N.waitq, t) /\ Waits(N, {})
  <2>1. ~TSTAT_WAITING(E.tstat[t])
    BY <1>1, <1>3, TStatFacts DEF KernelState
  <2>2. ~InQueue(E.waitq, t) /\ E.tmo[t] = -1
    BY <1>1, <1>4, <2>1, BaseIsBut, OutOfQueues
  <2>3. Waits(N, {})
    BY <1>4, <1>5, WaitsSame DEF Base, Same
  <2> QED
    BY <1>5, <2>2, <2>3 DEF Same
<1>8. /\ Base(D) /\ Frame(N, D)
      /\ D.tstat = [N.tstat EXCEPT ![t] = TS_DORMANT]
  <2>1. t \in Tasks /\ D = make_dormant(N, t)
    BY <1>1
  <2> HIDE DEF D, t
  <2>2. NotLinked(N, t)
    BY <1>6, <1>7 DEF NotLinked
  <2> QED
    BY <1>6, <1>7, <2>1, <2>2, MakeDormant
<1>9. TSTAT_DORMANT(D.tstat[t])
  BY <1>1, <1>5, <1>8 DEF TSTAT_DORMANT, KernelState
<1> HIDE DEF D
<1>10. Base(A) /\ Frame(D, A)
  <2> DEFINE r == Restart(D, t)
  <2>1. t \in Tasks
    BY <1>1
  <2> HIDE DEF D, t
  <2>2. Base(r.st) /\ Frame(D, r.st)
    BY <1>8, <1>9, <2>1, RestartDormant
  <2> QED
    BY <1>0, <2>2
<1>11. A.ini = 0 /\ A.handlers = <<>> /\ ~A.reqflg /\ A.dspflg
  BY <1>1, <1>3, <1>5, <1>8, <1>10 DEF Frame, Same
<1> QED
  BY <1>2, <1>10, <1>11

LEMMA ExtTsk ==
  ASSUME KernelInv(k), ext_tsk
  PROVE  Step(k, k')
BY ExitedBase, DispatchStep

LEMMA TerminatedBase ==
  ASSUME KernelInv(k), NEW t \in Tasks, ter_tsk(t),
         NEW r, r = Terminated(k, t)
  PROVE  /\ Base(r.st) /\ Frame(k, r.st) /\ k' = DispatchIf(r)
         /\ Step(k, DispatchIf(r))
<1> DEFINE E == IF TSTAT_RUNNABLE(k.tstat[t]) THEN make_non_runnable(k, t).st
                ELSE IF TSTAT_WAITING(k.tstat[t])
                THEN wait_dequeue_tmevtb(wait_dequeue_wobj(k, t), t)
                ELSE k
           M == make_dormant(E, t)
           D == [M EXCEPT !.wercd[t] = "none"]
<1>0. r = Restart(D, t)
  BY DEF Terminated
<1>1. /\ Base(k) /\ Switched(k) /\ k \in KernelState
      /\ k.ini = 0 /\ k.handlers = <<>> /\ k.runtsk # NULL
      /\ k.runtsk \in Ready(k) /\ ~k.reqflg
      /\ k.dspflg => k.runtsk = k.schedtsk
      /\ t # k.runtsk /\ ~TSTAT_DORMANT(k.tstat[t])
      /\ Core(k) /\ RunnableOK(k) /\ Waits(k, {}) /\ TimersOK(k)
      /\ TexFramesOK(k) /\ FlagsOK(k) /\ QueuesOK(k) /\ SchedOK(k)
  BY TskCtxFacts DEF ter_tsk, TskCtxUnl, Base, Core
<1>2. k' = DispatchIf(r)
  BY DEF ter_tsk, Terminated
<1> DEFINE Taken(R) == /\ Core(R) /\ t \notin Ready(R) /\ R.tmo[t] = -1
                       /\ Frame(k, R) /\ TimersOK(R)
                       /\ R.tstat = k.tstat /\ Ready(R) = Ready(k) \ {t}
                       /\ R.texfrm = k.texfrm /\ R.texlp = k.texlp
                       /\ k.dspflg => R.schedtsk = k.schedtsk
<1>3. Taken(E) /\ NotLinked(E, t)
  <2>1. CASE TSTAT_RUNNABLE(k.tstat[t])
    <3> DEFINE n == make_non_runnable(k, t)
    <3>1. t \in Ready(k)
      BY <1>1, <2>1 DEF RunnableOK
    <3>2. /\ n.st \in KernelState /\ QueuesOK(n.st) /\ SchedOK(n.st)
          /\ Ready(n.st) = Ready(k) \ {t}
          /\ Same(k, n.st)
          /\ Tells(k, n)
          /\ n.dsp => k.dspflg /\ k.schedtsk = t
          /\ n.st.priority = k.priority
      BY <1>1, <3>1, MakeNonRunnable
    <3>3. E = n.st
      BY <2>1
    <3> HIDE DEF n, E
    <3>4. k.dspflg => n.st.schedtsk = k.schedtsk
      BY <1>1, <3>2 DEF Tells
    <3>5. ~TSTAT_WAITING(k.tstat[t])
      BY <1>1, <2>1, TStatFacts DEF KernelState
    <3>6. n.st.tmo[t] = -1 /\ TimersOK(n.st)
      BY <1>1, <3>2, <3>5 DEF Same, TimersOK
    <3>7. ~InQueue(k.waitq, t)
      BY <1>1, <3>5, BaseIsBut, OutOfQueues
    <3>8. Waits(n.st, {})
      BY <1>1, <3>2, WaitsSame DEF Same
    <3>9. NotLinked(n.st, t)
      BY <3>2, <3>7, <3>8 DEF NotLinked, Same
    <3> QED
      BY <3>2, <3>3, <3>4, <3>6, <3>9 DEF Same, Frame, Core
  <2>2. CASE ~TSTAT_RUNNABLE(k.tstat[t]) /\ TSTAT_WAITING(k.tstat[t])
    <3> DEFINE Q == wait_dequeue_wobj(k, t)
               X == {} \cup {t}
    <3>1. E = [Q EXCEPT !.tmo[t] = -1]
      BY <2>2 DEF wait_dequeue_tmevtb
    <3>1a. BaseBut(k, {}) /\ TSTAT_WAITING(k.tstat[t]) /\ X = {} \cup {t}
      BY <1>1, <2>2, BaseIsBut
    <3>5. t \in X /\ X \in {{}, {t}}
      OBVIOUS
    <3> HIDE DEF Q, X
    <3>2. BaseBut(Q, X) /\ Ready(Q) = Ready(k) /\ Alike(k, Q)
      BY <3>1a, DequeueWobj DEF Q
    <3>3. Q \in KernelState
      BY <3>2 DEF Alike
    <3>4. Retimed(Q, E, t, -1)
      BY <3>1, <3>3, SetTmo
    <3> HIDE DEF E
    <3>6. BaseBut(E, X) /\ Ready(E) = Ready(Q)
      BY <3>2, <3>4, <3>5, Dequeued
    <3>7. ~InQueue(E.waitq, t) /\ t \notin Ready(k)
      BY <1>1, <2>2, <3>5, <3>6, OutOfQueues DEF RunnableOK
    <3>8. NotLinked(E, t)
      BY <3>5, <3>6, <3>7 DEF NotLinked, BaseBut
    <3>9. Frame(k, E)
      BY <3>2, <3>4 DEF Alike, Retimed, Frame
    <3> QED
      BY <3>2, <3>4, <3>6, <3>7, <3>8, <3>9 DEF BaseBut, Retimed, Alike
  <2>3. CASE ~TSTAT_RUNNABLE(k.tstat[t]) /\ ~TSTAT_WAITING(k.tstat[t])
    <3>1. E = k
      BY <2>3
    <3>2. t \notin Ready(k) /\ k.tmo[t] = -1
      BY <1>1, <2>3 DEF RunnableOK, TimersOK
    <3>3. ~InQueue(k.waitq, t)
      BY <1>1, <2>3, BaseIsBut, OutOfQueues
    <3> HIDE DEF E
    <3> QED
      BY <1>1, <3>1, <3>2, <3>3 DEF Frame, NotLinked
  <2> QED
    BY <2>1, <2>2, <2>3
<1> HIDE DEF E
<1>4. /\ \A u \in Tasks \ {t} : u \in Ready(E) <=> TSTAT_RUNNABLE(E.tstat[u])
      /\ TexFramesOK(E) /\ FlagsOK(E)
  BY <1>1, <1>3 DEF RunnableOK, TexFramesOK, FlagsOK, Frame
<1>5. /\ Base(M) /\ Frame(E, M)
      /\ Ready(M) = Ready(E) /\ M.schedtsk = E.schedtsk
      /\ M.tstat = [E.tstat EXCEPT ![t] = TS_DORMANT]
  <2>1. /\ Core(E) /\ t \notin Ready(E)
        /\ TimersOK(E) /\ E.tmo[t] = -1
    BY <1>3
  <2> QED
    BY <1>3, <1>4, <2>1, MakeDormant
<1> HIDE DEF M
<1>6. OnlyTex(M, D)
  <2>1. M \in KernelState /\ TexFramesOK(M)
    BY <1>5 DEF Base, Core
  <2> QED
    BY <2>1 DEF OnlyTex, TexFramesOK, Frame, KernelState
<1> HIDE DEF D
<1>7. /\ Base(D) /\ Ready(D) = Ready(k) \ {t} /\ Frame(k, D)
      /\ k.dspflg => D.schedtsk = k.schedtsk
      /\ TSTAT_DORMANT(D.tstat[t])
  <2>1. Base(D) /\ Ready(D) = Ready(M)
    BY <1>5, <1>6, TexKeeps
  <2>2. D.tstat[t] = TS_DORMANT
    BY <1>1, <1>3, <1>5, <1>6 DEF OnlyTex, KernelState
  <2> QED
    BY <1>3, <1>5, <1>6, <2>1, <2>2 DEF OnlyTex, Frame, TSTAT_DORMANT
<1>8. Switched(D)
  BY <1>1, <1>7 DEF Switched, Frame
<1>9. /\ Base(r.st) /\ Frame(D, r.st) /\ Tells(D, r)
      /\ Ready(D) \subseteq Ready(r.st)
  BY <1>0, <1>7, RestartDormant
<1>10. Step(D, DispatchIf(r))
  <2>1. D.ini = 0 /\ D.handlers = <<>> /\ D.runtsk # NULL /\ D.runtsk \in Ready(D)
    BY <1>1, <1>7 DEF Frame
  <2> QED
    BY <1>8, <1>9, <2>1, DispatchIfStep
<1> QED
  BY <1>2, <1>7, <1>9, <1>10 DEF Step, Frame

LEMMA TerTsk ==
  ASSUME KernelInv(k), NEW t \in Tasks, ter_tsk(t)
  PROVE  Step(k, k')
BY TerminatedBase

(* The priority of t is changed, and t put where it belongs in the queue   *)
(* that it waits in.                                                       *)
LEMMA WaitsPriority ==
  ASSUME NEW S, NEW X, Waits(S, X), NEW t,
         NEW R, R.waitq = S.waitq, R.tstat = S.tstat, R.tmo = S.tmo,
         R.handlers = S.handlers,
         \A u \in Tasks : u # t => R.priority[u] = S.priority[u],
         \A w \in TA_TPRI : ~Linked(S.waitq[w], t)
  PROVE  Waits(R, X)
<1>1. QueuedOK(S.waitq, S.priority)
  BY DEF Waits
<1>2. QueuedOK(R.waitq, R.priority)
  BY <1>1, Reprioritized
<1> QED
  BY <1>2 DEF Waits, WaitOK

SameMembers(S, R) ==
  \A w \in WaitQueues : \A y : Linked(R.waitq[w], y) <=> Linked(S.waitq[w], y)

LEMMA Requeue ==
  ASSUME NEW S, Waits(S, {}), NEW t \in Tasks, NEW P \in KernelState,
         P.waitq = S.waitq, P.tstat = S.tstat, P.tmo = S.tmo,
         P.handlers = S.handlers,
         \A u \in Tasks \ {t} : P.priority[u] = S.priority[u],
         NEW R, R = IF TSTAT_WAIT_WOBJCB(S.tstat[t])
                    THEN wobj_change_priority(P, t) ELSE P
  PROVE  Waits(R, {}) /\ Alike(P, R) /\ SameMembers(S, R)
<1> DEFINE Q == S.waitq
           w == WaitQueueOf(P, t)
<1>1. QueuedOK(Q, S.priority) /\ WaitOK(S, {}, t)
  BY DEF Waits
<1>2. /\ TSTAT_WAIT_WOBJCB(S.tstat[t]) => InQueue(Q, t)
      /\ ~TSTAT_WAIT_WOBJCB(S.tstat[t]) =>
           \A v \in TA_TPRI : ~Linked(Q[v], t)
  BY <1>1, ObjectWaitFacts DEF WaitOK
<1>3. InQueue(Q, t) => w \in WaitQueues /\ Linked(Q[w], t)
  BY DEF InQueue, WaitQueueOf
<1>4. Alike(P, P)
  BY DEF Alike, Frame
<1> HIDE DEF w
<1>5. CASE TSTAT_WAIT_WOBJCB(S.tstat[t]) /\ w \in TA_TPRI
  <2> DEFINE d == queue_delete(Q[w], t)
             q == queue_insert_tpri(P, d, t)
             D == [Q EXCEPT ![w] = d]
             E == [Q EXCEPT ![w] = q]
  <2>1. R = WithWaitq(P, w, q)
    BY <1>5 DEF wobj_change_priority, WithWaitq, w
  <2>2. w \in WaitQueues /\ Linked(Q[w], t) /\ InQueue(Q, t)
        /\ QueueOK(Q[w], w, S.priority)
    BY <1>1, <1>2, <1>3, <1>5 DEF QueuedOK
  <2>3. /\ QueueOK(d, w, S.priority)
        /\ \A y : Linked(d, y) <=> Linked(Q[w], y) /\ y # t
    BY <2>2, DeleteWaiting
  <2> HIDE DEF d
  <2>4. /\ QueuedOK(D, S.priority) /\ D[w] = d
        /\ \A v \in WaitQueues : v # w => D[v] = Q[v]
        /\ \A y : InQueue(D, y) <=> \/ Linked(d, y)
                                    \/ InQueue(Q, y) /\ ~Linked(Q[w], y)
    <3>1. Moved(Q, w, d, D)
      BY <2>3 DEF Moved
    <3> HIDE DEF Q, D
    <3> QED
      BY <1>1, <2>2, <2>3, <3>1, SetQueue
  <2>5. ~InQueue(D, t) /\ \A y : y # t => (InQueue(D, y) <=> InQueue(Q, y))
    BY <2>2, <2>3, <2>4 DEF InQueue
  <2>6. Q \in [WaitQueues -> Seq(Tasks)] /\ E = [D EXCEPT ![w] = q]
    BY <1>1, <2>2 DEF QueuedOK
  <2>7. QueuedOK(D, P.priority)
    <3> HIDE DEF D
    <3>1. \A v \in TA_TPRI : ~Linked(D[v], t)
      BY <2>5, WaitAssumption DEF InQueue
    <3>2. \A u \in Tasks : u # t => P.priority[u] = S.priority[u]
      OBVIOUS
    <3> QED
      BY <2>4, <3>1, <3>2, Reprioritized
  <2>8. QueueOK(d, w, P.priority) /\ ~Linked(d, t)
    BY <2>2, <2>3, <2>4, <2>7 DEF QueuedOK
  <2>9. /\ QueueOK(q, w, P.priority)
        /\ \A y : Linked(q, y) <=> Linked(d, y) \/ y = t
    <3>1. P.priority \in [Tasks -> Pri]
      BY DEF KernelState
    <3>2. q = IF w \in TA_TPRI THEN queue_insert_tpri(P, d, t)
              ELSE queue_insert_prev(d, t)
      BY <1>5
    <3> HIDE DEF q
    <3> QED
      BY <2>8, <3>1, <3>2, InsertWaiting
  <2> HIDE DEF q
  <2>10. Alike(P, R) /\ R.waitq = E
    <3>1. q \in Seq(Tasks)
      BY <2>9 DEF QueueOK
    <3> QED
      BY <2>1, <2>2, <3>1, SetWaitq
  <2> HIDE DEF D, E
  <2>11. /\ QueuedOK(E, P.priority) /\ E[w] = q
         /\ \A v \in WaitQueues : v # w => E[v] = D[v]
         /\ \A y : InQueue(E, y) <=> \/ Linked(q, y)
                                     \/ InQueue(D, y) /\ ~Linked(D[w], y)
    <3>1. Moved(D, w, q, E)
      BY <2>4, <2>5, <2>6, <2>9 DEF Moved
    <3> QED
      BY ONLY <2>2, <2>7, <2>9, <3>1, SetQueue
  <2>12. /\ InQueue(E, t)
         /\ \A u \in Tasks \ {t} : InQueue(E, u) <=> InQueue(Q, u)
    BY <2>4, <2>5, <2>9, <2>11
  <2>13. \A u \in Tasks \ {t} : \A v \in TA_TPRI :
           Linked(E[v], u) => Linked(Q[v], u)
    BY <2>2, <2>3, <2>4, <2>9, <2>11, WaitAssumption
  <2>13a. SameMembers(S, R)
    BY <2>2, <2>3, <2>4, <2>9, <2>10, <2>11 DEF SameMembers
  <2> HIDE DEF Q
  <2>14. WaitOK(R, {}, t)
    BY <1>1, <1>5, <2>2, <2>10, <2>12, ObjectWaitFacts
       DEF WaitOK, Alike, Frame, Q
  <2>15. Waits(R, {})
    <3>1. /\ R.tstat = S.tstat /\ R.tmo = S.tmo /\ R.handlers = S.handlers
          /\ QueuedOK(R.waitq, R.priority)
      BY <2>10, <2>11 DEF Alike, Frame
    <3>2. OthersWait(S, {}, R, {}, t)
      BY <2>10, <2>12, <2>13, <3>1 DEF OthersWait, Q
    <3> QED
      BY <2>14, <3>1, <3>2, WaitsMove
  <2> QED
    BY <2>10, <2>13a, <2>15
<1>6. CASE ~(TSTAT_WAIT_WOBJCB(S.tstat[t]) /\ w \in TA_TPRI)
  <2>1. R = P
    BY <1>6 DEF wobj_change_priority, w
  <2>2. \A v \in TA_TPRI : ~Linked(Q[v], t)
    BY <1>1, <1>2, <1>3, <1>6, WaitAssumption DEF QueuedOK
  <2>3. Waits(P, {})
    BY <2>2, WaitsPriority
  <2>4. SameMembers(S, P)
    BY DEF SameMembers
  <2> QED
    BY <1>4, <2>1, <2>3, <2>4
<1> QED
  BY <1>5, <1>6

(* What a change of the priority of t does, wherever t is.                 *)
Reprio(S, t, newpri, r) ==
  /\ Base(r.st) /\ Frame(S, r.st) /\ Tells(S, r)
  /\ Ready(r.st) = Ready(S) /\ r.st.tstat = S.tstat
  /\ r.st.priority = [S.priority EXCEPT ![t] = newpri]
  /\ SameMembers(S, r.st)

(* Of a ready task the ready queues are all that has to be cared for.      *)
LEMMA ReadyReprio ==
  ASSUME NEW S, Base(S), NEW t \in Ready(S), NEW newpri \in Pri, NEW r,
         r.st \in KernelState, QueuesOK(r.st), SchedOK(r.st),
         Ready(r.st) = Ready(S), Same(S, r.st), Tells(S, r),
         r.st.priority = [S.priority EXCEPT ![t] = newpri]
  PROVE  Reprio(S, t, newpri, r)
<1> DEFINE R == r.st
<1>1. S \in KernelState /\ t \in Tasks /\ TSTAT_RUNNABLE(S.tstat[t])
  BY DEF Base, Core, RunnableOK, Ready
<1>2. Waits(R, {})
  <2>1. ~TSTAT_WAITING(S.tstat[t])
    BY <1>1, TStatFacts DEF KernelState
  <2>2. \A w \in TA_TPRI : ~Linked(S.waitq[w], t)
    BY <1>1, <2>1, BaseIsBut, OutOfQueues
  <2>3. \A u \in Tasks : u # t => R.priority[u] = S.priority[u]
    BY <1>1 DEF KernelState
  <2> QED
    BY <2>2, <2>3, WaitsPriority DEF Base, Same
<1>3. SameMembers(S, R)
  BY DEF Same, SameMembers
<1>4. Base(R) /\ Frame(S, R)
  BY <1>2 DEF Base, Core, RunnableOK, TimersOK, TexFramesOK, FlagsOK, Same, Frame
<1> QED
  BY <1>3, <1>4 DEF Reprio, Same

LEMMA ChangePriority ==
  ASSUME NEW S, Base(S), NEW t \in Tasks, NEW newpri \in Pri,
         NEW r, r = change_priority(S, t, newpri)
  PROVE  Reprio(S, t, newpri, r)
<1> DEFINE P == [S EXCEPT !.priority[t] = newpri]
<1>1. S \in KernelState
  BY DEF Base, Core
<1>2. CASE TSTAT_RUNNABLE(S.tstat[t])
  <2>1. t \in Ready(S) /\ QueuesOK(S) /\ SchedOK(S)
    BY <1>1, <1>2 DEF Base, Core, RunnableOK
  <2>2. r = change_ready_priority(S, t, newpri)
    BY <1>2 DEF change_priority
  <2>3. /\ r.st \in KernelState /\ QueuesOK(r.st) /\ SchedOK(r.st)
        /\ Ready(r.st) = Ready(S) /\ Same(S, r.st)
        /\ r.st.priority = [S.priority EXCEPT ![t] = newpri]
        /\ Tells(S, r)
    BY <1>1, <2>1, <2>2, ChangeReadyPriority
  <2> QED
    BY <2>1, <2>3, ReadyReprio
<1>3. CASE ~TSTAT_RUNNABLE(S.tstat[t])
  <2> DEFINE R == r.st
  <2>1. r = [st |-> R, dsp |-> FALSE]
        /\ R = IF TSTAT_WAIT_WOBJCB(S.tstat[t])
               THEN wobj_change_priority(P, t) ELSE P
    BY <1>3 DEF change_priority
  <2>2. /\ P \in KernelState
        /\ P.readyq = S.readyq /\ P.primap = S.primap
        /\ P.schedtsk = S.schedtsk
        /\ \A u \in Tasks \ {t} : P.priority[u] = S.priority[u]
        /\ P.tstat = S.tstat /\ P.tmo = S.tmo
        /\ P.texfrm = S.texfrm /\ P.texlp = S.texlp
        /\ Frame(S, P)
    BY <1>1 DEF KernelState, Frame
  <2>2a. P.waitq = S.waitq
    BY <1>1 DEF KernelState
  <2> HIDE DEF P, R
  <2>3. Waits(R, {}) /\ Alike(P, R) /\ SameMembers(S, R)
    <3>1. Waits(S, {}) /\ P.handlers = S.handlers
      BY <1>1, <2>2 DEF Base, Frame
    <3> QED
      BY <2>1, <2>2, <2>2a, <3>1, Requeue
  <2>4. \A u \in Ready(S) : P.priority[u] = S.priority[u]
    BY <1>1, <1>3, <2>2 DEF Base, RunnableOK
  <2>5. Core(R) /\ Ready(R) = Ready(S)
    BY <1>1, <2>2, <2>3, <2>4, SameQueues DEF Base, Alike
  <2>6. Base(R)
    BY <1>1, <2>2, <2>3, <2>5 DEF Base, RunnableOK, TimersOK,
                            TexFramesOK, FlagsOK, Frame, Alike
  <2>7. r.st = R /\ r.dsp = FALSE
    BY <2>1
  <2>8. Frame(S, R) /\ R.schedtsk = S.schedtsk
    BY <2>2, <2>3 DEF Frame, Alike
  <2>9. R.priority = [S.priority EXCEPT ![t] = newpri] /\ R.tstat = S.tstat
    <3>1. P.priority = [S.priority EXCEPT ![t] = newpri]
      BY <1>1 DEF P, KernelState
    <3> QED
      BY <2>2, <2>3, <3>1 DEF Alike
  <2> QED
    BY <2>3, <2>5, <2>6, <2>7, <2>8, <2>9 DEF Reprio, Tells
<1> QED
  BY <1>2, <1>3

LEMMA ChgPri ==
  ASSUME KernelInv(k), NEW t \in Tasks, NEW newpri \in Pri, chg_pri(t, newpri)
  PROVE  Step(k, k')
<1> DEFINE r == change_priority(k, t, newpri)
<1>1. /\ Base(k) /\ Switched(k)
      /\ k.ini = 0 /\ k.handlers = <<>> /\ k.runtsk # NULL
      /\ k.runtsk \in Ready(k)
      /\ k' = DispatchIf(r)
  BY TskCtxFacts DEF chg_pri, TskCtxUnl
<1>2. /\ Base(r.st) /\ Frame(k, r.st) /\ Tells(k, r) /\ Ready(r.st) = Ready(k)
  <2>1. r = change_priority(k, t, newpri)
    OBVIOUS
  <2> HIDE DEF r
  <2>2. Reprio(k, t, newpri, r)
    BY <1>1, <2>1, ChangePriority
  <2> QED
    BY <2>2 DEF Reprio
<1> HIDE DEF r
<1>3. Step(k, DispatchIf(r))
  BY <1>1, <1>2, DispatchIfStep
<1> QED
  BY <1>1, <1>3

-----------------------------------------------------------------------------
(* sys_manage.c and interrupt.c                                            *)

LEMMA Rotated ==
  ASSUME NEW S, Base(S), NEW pri \in Pri, NEW r, r = rotate_ready_queue(S, pri)
  PROVE  /\ Base(r.st) /\ Frame(S, r.st) /\ Tells(S, r) /\ Ready(r.st) = Ready(S)
<1>1. S \in KernelState /\ QueuesOK(S) /\ SchedOK(S)
  BY DEF Base, Core
<1>2. /\ r.st \in KernelState /\ QueuesOK(r.st) /\ SchedOK(r.st)
      /\ Ready(r.st) = Ready(S)
      /\ Same(S, r.st) /\ r.st.priority = S.priority
      /\ Tells(S, r)
  BY <1>1, RotateReadyQueue
<1>3. Waits(r.st, {})
  BY <1>2, WaitsSame DEF Base, Same
<1> QED
  BY <1>2, <1>3 DEF Base, Core, RunnableOK, TimersOK,
                    TexFramesOK, FlagsOK, Same, Frame

LEMMA RotRdq ==
  ASSUME KernelInv(k), NEW pri \in Pri, rot_rdq(pri)
  PROVE  Step(k, k')
<1> DEFINE r == rotate_ready_queue(k, pri)
<1>1. /\ Base(k) /\ Switched(k) /\ k.ini = 0 /\ k.handlers = <<>>
      /\ k.runtsk # NULL /\ k.runtsk \in Ready(k)
      /\ k' = DispatchIf(r)
  BY TskCtxFacts DEF rot_rdq, TskCtxUnl
<1>2. /\ Base(r.st) /\ Frame(k, r.st) /\ Tells(k, r) /\ Ready(r.st) = Ready(k)
  BY <1>1, Rotated
<1> HIDE DEF r
<1>3. Step(k, DispatchIf(r))
  BY <1>1, <1>2, DispatchIfStep
<1> QED
  BY <1>1, <1>3

LEMMA IrotRdq ==
  ASSUME KernelInv(k), NEW pri \in Pri, irot_rdq(pri)
  PROVE  Step(k, k')
<1> DEFINE r == rotate_ready_queue(k, pri)
<1>1. /\ Base(k) /\ Switched(k) /\ k.ini = 0 /\ k.handlers # <<>>
      /\ k' = RequestIf(r)
  BY HandlerFacts DEF irot_rdq, IntCtxUnl
<1>2. /\ Base(r.st) /\ Frame(k, r.st) /\ Tells(k, r) /\ Ready(r.st) = Ready(k)
  BY <1>1, Rotated
<1> HIDE DEF r
<1>3. Step(k, RequestIf(r))
  BY <1>1, <1>2, RequestIfStep
<1> QED
  BY <1>1, <1>3

LEMMA CpuLock ==
  ASSUME KernelInv(k), loc_cpu \/ unl_cpu
  PROVE  Step(k, k')
<1>1. k \in KernelState /\ TexFramesOK(k)
  BY DEF KernelInv, Base, Core
<1>2. PICK b \in BOOLEAN : k' = [k EXCEPT !.lock = b]
  BY DEF loc_cpu, unl_cpu
<1>3. OnlyTex(k, k')
  BY <1>1, <1>2 DEF OnlyTex, TexFramesOK, Frame, KernelState
<1> QED
  BY <1>3, AsideStep

LEMMA HoldDispatching ==
  ASSUME KernelInv(k), dis_dsp \/ chg_ipm_mask
  PROVE  Step(k, k')
<1>1. /\ Base(k) /\ k \in KernelState /\ k.ini = 0 /\ k.handlers = <<>>
      /\ k.runtsk # NULL /\ k.runtsk \in Ready(k) /\ ~k.reqflg
  BY TskCtxFacts DEF dis_dsp, chg_ipm_mask, TskCtxUnl
<1> DEFINE Held1(S) ==
             /\ S \in KernelState /\ FlagsOK(S) /\ S.dspflg = FALSE
             /\ S.readyq = k.readyq /\ S.primap = k.primap
             /\ S.schedtsk = k.schedtsk /\ S.priority = k.priority
             /\ S.tstat = k.tstat /\ S.tmo = k.tmo /\ S.waitq = k.waitq
             /\ S.texfrm = k.texfrm /\ S.texlp = k.texlp
             /\ S.reqflg = k.reqflg /\ S.handlers = k.handlers
             /\ S.ini = k.ini /\ S.runtsk = k.runtsk
<1>2. Held1([k EXCEPT !.disdsp = TRUE, !.dspflg = FALSE])
  BY <1>1 DEF KernelState, FlagsOK
<1>3. Held1([k EXCEPT !.ipmflg = FALSE, !.dspflg = FALSE])
  BY <1>1 DEF KernelState, FlagsOK
<1>4. Held1(k')
  <2> HIDE DEF Held1
  <2> QED
    BY <1>2, <1>3 DEF dis_dsp, chg_ipm_mask
<1>5. /\ k' \in KernelState /\ FlagsOK(k') /\ k'.dspflg = FALSE
      /\ k'.readyq = k.readyq /\ k'.primap = k.primap
      /\ k'.schedtsk = k.schedtsk /\ k'.priority = k.priority
      /\ k'.tstat = k.tstat /\ k'.tmo = k.tmo /\ k'.waitq = k.waitq
      /\ k'.texfrm = k.texfrm /\ k'.texlp = k.texlp
      /\ k'.reqflg = k.reqflg /\ k'.handlers = k.handlers
      /\ k'.ini = k.ini /\ k'.runtsk = k.runtsk
  BY <1>4
<1> HIDE DEF Held1
<1>6. Base(k') /\ Ready(k') = Ready(k)
  BY <1>1, <1>5, Unmoved
<1> QED
  BY <1>1, <1>5, <1>6 DEF Step, KernelInv, Switched

(* Flags of the kernel are assigned, in a task.                            *)
Flagged(S, R) ==
  /\ R \in KernelState
  /\ R.readyq = S.readyq /\ R.primap = S.primap
  /\ R.schedtsk = S.schedtsk /\ R.priority = S.priority
  /\ R.tstat = S.tstat /\ R.tmo = S.tmo /\ R.waitq = S.waitq
  /\ R.texfrm = S.texfrm
  /\ R.runtsk = S.runtsk /\ R.handlers = S.handlers /\ R.ini = S.ini

LEMMA FlaggedBase ==
  ASSUME NEW S, Base(S), NEW R, Flagged(S, R), R.texlp = S.texlp, FlagsOK(R)
  PROVE  Base(R) /\ Ready(R) = Ready(S)
BY Unmoved DEF Flagged

LEMMA EnaDsp ==
  ASSUME KernelInv(k), ena_dsp
  PROVE  Step(k, k')
<1> DEFINE E == [k EXCEPT !.disdsp = FALSE, !.dspflg = k.ipmflg \/ @]
<1>1. /\ Base(k) /\ k \in KernelState /\ k.ini = 0 /\ k.handlers = <<>>
      /\ k.runtsk # NULL /\ k.runtsk \in Ready(k) /\ ~k.reqflg
      /\ k.dspflg = (k.ipmflg /\ ~k.disdsp)
  BY TskCtxFacts DEF ena_dsp, TskCtxUnl
<1>2. k' = IF k.ipmflg /\ k.runtsk # k.schedtsk THEN dispatch(E) ELSE E
  BY DEF ena_dsp
<1>3. /\ Flagged(k, E) /\ E.texlp = k.texlp
      /\ E.dspflg = k.ipmflg /\ E.disdsp = FALSE /\ E.ipmflg = k.ipmflg
      /\ E.reqflg = k.reqflg
  BY <1>1 DEF KernelState, Flagged
<1> HIDE DEF E
<1>4. Base(E) /\ Ready(E) = Ready(k)
  <2>1. FlagsOK(E)
    <3>1. k.ipmflg \in BOOLEAN
      BY <1>1 DEF KernelState
    <3> QED
      BY <1>3, <3>1 DEF FlagsOK
  <2> QED
    BY <1>1, <1>3, <2>1, FlaggedBase
<1>5. CASE k.ipmflg /\ k.runtsk # k.schedtsk
  <2>1. Step(k, dispatch(E))
    BY <1>1, <1>3, <1>4, <1>5, DispatchStep DEF Flagged
  <2> QED
    BY <1>2, <1>5, <2>1
<1>6. CASE ~(k.ipmflg /\ k.runtsk # k.schedtsk)
  <2>1. k' = E
    BY <1>2, <1>6
  <2> QED
    BY <1>1, <1>3, <1>4, <1>6, <2>1 DEF Flagged, Step, KernelInv, Switched
<1> QED
  BY <1>5, <1>6

LEMMA ChgIpmEnaall ==
  ASSUME KernelInv(k), chg_ipm_enaall
  PROVE  Step(k, k')
<1> DEFINE E == [k EXCEPT !.ipmflg = TRUE,
                          !.dspflg = IF k.disdsp THEN @ ELSE TRUE]
<1>1. /\ Base(k) /\ k \in KernelState /\ k.ini = 0 /\ k.handlers = <<>>
      /\ k.runtsk # NULL /\ k.runtsk \in Ready(k) /\ ~k.reqflg
      /\ k.dspflg = (k.ipmflg /\ ~k.disdsp) /\ k.runtsk \in Tasks
  BY TskCtxFacts DEF chg_ipm_enaall, TskCtxUnl
<1>2. k' = IF ~k.disdsp /\ k.runtsk # k.schedtsk THEN dispatch(E)
           ELSE IF k.enatex[k.runtsk] /\ k.texptn[k.runtsk]
           THEN call_texrtn(E) ELSE E
  BY DEF chg_ipm_enaall
<1>3. /\ Flagged(k, E) /\ E.texlp = k.texlp
      /\ E.dspflg = ~k.disdsp /\ E.disdsp = k.disdsp /\ E.ipmflg = TRUE
      /\ E.reqflg = k.reqflg
  BY <1>1 DEF KernelState, Flagged
<1> HIDE DEF E
<1>4. Base(E) /\ Ready(E) = Ready(k)
  BY <1>1, <1>3, FlaggedBase DEF FlagsOK
<1>5. CASE ~k.disdsp /\ k.runtsk # k.schedtsk
  <2>1. Step(k, dispatch(E))
    BY <1>1, <1>3, <1>4, <1>5, DispatchStep DEF Flagged
  <2> QED
    BY <1>2, <1>5, <2>1
<1>6. CASE ~(~k.disdsp /\ k.runtsk # k.schedtsk)
  <2>1. Step(k, E)
    BY <1>1, <1>3, <1>4, <1>6 DEF Flagged, Step, KernelInv, Switched
  <2>2. E \in KernelState /\ TexFramesOK(E) /\ E.runtsk \in Tasks
    BY <1>1, <1>3, <1>4 DEF Base, Core, Flagged
  <2>3. OnlyTex(E, call_texrtn(E))
    BY <2>2, TexRoutine
  <2>4. Step(E, call_texrtn(E))
    BY <2>1, <2>3, AsideStep DEF Step
  <2>5. k' = E \/ k' = call_texrtn(E)
    BY <1>2, <1>6
  <2> QED
    BY <1>3, <2>1, <2>4, <2>5 DEF Step, Flagged
<1> QED
  BY <1>5, <1>6

-----------------------------------------------------------------------------
(* task_except.c                                                           *)

LEMMA RasTex ==
  ASSUME KernelInv(k), NEW t \in Tasks, ras_tex(t)
  PROVE  Step(k, k')
<1> DEFINE R == [k EXCEPT !.texptn[t] = TRUE]
<1>1. k \in KernelState /\ TexFramesOK(k) /\ k.runtsk \in Tasks
  BY TskCtxFacts DEF ras_tex, TskCtxUnl, Base
<1>2. k' = IF t = k.runtsk THEN calltex(R) ELSE R
  BY DEF ras_tex
<1>3. OnlyTex(k, R)
  BY <1>1 DEF OnlyTex, TexFramesOK, Frame, KernelState
<1> HIDE DEF R
<1>4. OnlyTex(R, calltex(R))
  BY <1>1, <1>3, TexRoutine DEF OnlyTex, Frame
<1>5. OnlyTex(k, calltex(R))
  BY <1>3, <1>4 DEF OnlyTex, Frame
<1>6. Step(k, R) /\ Step(k, calltex(R))
  BY <1>3, <1>5, AsideStep
<1> QED
  BY <1>2, <1>6

LEMMA IrasTex ==
  ASSUME KernelInv(k), NEW t \in Tasks, iras_tex(t)
  PROVE  Step(k, k')
<1> DEFINE q == k.reqflg \/ (t = k.runtsk /\ k.enatex[t] /\ k.ipmflg)
           R == [k EXCEPT !.texptn[t] = TRUE, !.reqflg = q]
<1>1. /\ Base(k) /\ Switched(k) /\ k \in KernelState /\ k.ini = 0
      /\ k.handlers # <<>>
  BY HandlerFacts DEF iras_tex, IntCtxUnl
<1>2. k' = R
  BY DEF iras_tex
<1>3. q \in BOOLEAN /\ (k.reqflg => q)
  BY <1>1 DEF KernelState
<1> HIDE DEF q
<1>4. /\ Flagged(k, R) /\ R.texlp = k.texlp
      /\ R.dspflg = k.dspflg /\ R.disdsp = k.disdsp /\ R.ipmflg = k.ipmflg
      /\ R.reqflg = q
  BY <1>1, <1>3 DEF KernelState, Flagged
<1> HIDE DEF R
<1>5. Base(R) /\ Ready(R) = Ready(k)
  BY <1>1, <1>4, FlaggedBase DEF FlagsOK, Base
<1> QED
  BY <1>1, <1>2, <1>3, <1>4, <1>5 DEF Flagged, Step, KernelInv, Switched

LEMMA DisTex ==
  ASSUME KernelInv(k), dis_tex
  PROVE  Step(k, k')
<1>1. k \in KernelState /\ TexFramesOK(k) /\ k.runtsk \in Tasks
  BY TskCtxFacts DEF dis_tex, TskCtxUnl, Base
<1>2. OnlyTex(k, k')
  BY <1>1 DEF dis_tex, OnlyTex, TexFramesOK, Frame, KernelState
<1> QED
  BY <1>2, AsideStep

LEMMA EnaTex ==
  ASSUME KernelInv(k), ena_tex
  PROVE  Step(k, k')
<1> DEFINE R == [k EXCEPT !.enatex[k.runtsk] = TRUE]
<1>1. k \in KernelState /\ TexFramesOK(k) /\ k.runtsk \in Tasks
  BY TskCtxFacts DEF ena_tex, TskCtxUnl, Base
<1>2. k' = calltex(R)
  BY DEF ena_tex
<1>3. OnlyTex(k, R)
  BY <1>1 DEF OnlyTex, TexFramesOK, Frame, KernelState
<1> HIDE DEF R
<1>4. OnlyTex(R, calltex(R))
  BY <1>1, <1>3, TexRoutine DEF OnlyTex, Frame
<1>5. OnlyTex(k, calltex(R))
  BY <1>3, <1>4 DEF OnlyTex, Frame
<1> QED
  BY <1>2, <1>5, AsideStep

LEMMA TexrtnReturn ==
  ASSUME KernelInv(k), texrtn_return
  PROVE  Step(k, k')
<1> DEFINE t == k.runtsk
           saved == Head(k.texfrm[t])
           R == [k EXCEPT !.lock = FALSE, !.ipmflg = TRUE, !.disdsp = saved,
                          !.dspflg = ~saved, !.enatex[t] = FALSE]
           L == [R EXCEPT !.texlp[t] = TRUE]
<1>1. /\ Base(k) /\ Switched(k) /\ k \in KernelState
      /\ k.ini = 0 /\ k.handlers = <<>>
      /\ t # NULL /\ t \in Tasks /\ t \in Ready(k) /\ ~k.reqflg
  BY TskCtxFacts DEF texrtn_return
<1>2. k.texfrm[t] # <<>> /\ TexFramesOK(k)
  BY <1>1 DEF texrtn_return, Base
<1>3. saved \in BOOLEAN
  <2>1. k.texfrm[t] \in Seq(BOOLEAN)
    BY <1>1 DEF KernelState
  <2> QED
    BY <1>2, <2>1, HeadTailProperties
<1>4. k' = IF t # k.schedtsk /\ ~saved THEN dispatch(L)
           ELSE call_texrtn_until(R)
  BY DEF texrtn_return
<1> HIDE DEF saved
<1>5. /\ Flagged(k, R) /\ R.texlp = k.texlp
      /\ R.dspflg = ~saved /\ R.disdsp = saved /\ R.ipmflg = TRUE
      /\ R.reqflg = k.reqflg
  BY <1>1, <1>3 DEF KernelState, Flagged
<1> HIDE DEF R
<1>6. Base(R) /\ Ready(R) = Ready(k)
  BY <1>1, <1>3, <1>5, FlaggedBase DEF FlagsOK
<1>7. CASE t # k.schedtsk /\ ~saved
  <2>1. OnlyTex(R, L)
    <3>1. L \in KernelState
      BY <1>1, <1>5 DEF Flagged, KernelState
    <3>2. TexFramesOK(L)
      BY <1>1, <1>2, <1>5 DEF Flagged, KernelState, TexFramesOK
    <3> QED
      BY <1>5, <3>1, <3>2 DEF OnlyTex, Frame, Flagged, KernelState
  <2> HIDE DEF L
  <2>2. Base(L)
    BY <1>6, <2>1, TexKeeps
  <2>3. L.ini = 0 /\ L.handlers = <<>> /\ ~L.reqflg /\ L.dspflg
    BY <1>1, <1>5, <1>7, <2>1 DEF OnlyTex, Frame, Flagged
  <2>4. Step(k, dispatch(L))
    BY <2>2, <2>3, DispatchStep
  <2> QED
    BY <1>4, <1>7, <2>4
<1>8. CASE ~(t # k.schedtsk /\ ~saved)
  <2>1. k' = call_texrtn_until(R)
    BY <1>4, <1>8
  <2>2. KernelInv(R)
    BY <1>1, <1>3, <1>5, <1>6, <1>8 DEF Flagged, KernelInv, Switched
  <2>3. OnlyTex(R, call_texrtn_until(R))
    BY <1>1, <1>2, <1>5, <1>6, TexRoutine DEF Flagged, Base
  <2>4. Step(R, call_texrtn_until(R))
    BY <2>2, <2>3, AsideStep
  <2> QED
    BY <1>5, <2>1, <2>4 DEF Step, Flagged
<1> QED
  BY <1>7, <1>8

-----------------------------------------------------------------------------
(* Interrupts.                                                             *)

(* The kernel has started: the context of an interrupt or of the idle loop.*)
LEMMA StartedFacts ==
  ASSUME KernelInv(k), k.ini = 0
  PROVE  /\ Base(k) /\ Switched(k) /\ k \in KernelState
BY DEF KernelInv, Base, Core

(* Which handlers are in progress, as one begins and one ends.             *)
LEMMA EntryLinked ==
  ASSUME NEW h \in Seq({"int", "tick"}), NEW kind \in {"int", "tick"},
         NEW x, Linked(h, x) \/ x = kind
  PROVE  Linked(<<kind>> \o h, x)
<1> DEFINE g == <<kind>> \o h
           n == Len(h)
<1>1. n \in Nat /\ DOMAIN h = 1 .. n /\ DOMAIN g = 1 .. n + 1
      /\ g[1] = kind /\ \A i \in 1 .. n : g[i + 1] = h[i]
  OBVIOUS
<1> HIDE DEF g, n
<1>2. ASSUME Linked(h, x) PROVE Linked(g, x)
  <2>1. PICK i \in 1 .. n : h[i] = x
    BY <1>1, <1>2 DEF Linked
  <2>2. i + 1 \in DOMAIN g /\ g[i + 1] = x
    BY <1>1, <2>1
  <2> QED
    BY <2>2 DEF Linked
<1>3. ASSUME x = kind PROVE Linked(g, x)
  <2>1. 1 \in DOMAIN g /\ g[1] = x
    BY <1>1, <1>3
  <2> QED
    BY <2>1 DEF Linked
<1> QED
  BY <1>2, <1>3 DEF g

LEMMA EndLinked ==
  ASSUME NEW h \in Seq({"int", "tick"}), h # <<>>,
         NEW x, Linked(h, x), x # Head(h)
  PROVE  Linked(Tail(h), x)
<1> DEFINE g == Tail(h)
           n == Len(h)
<1>1. n \in Nat /\ DOMAIN h = 1 .. n /\ DOMAIN g = 1 .. n - 1
      /\ h[1] = Head(h) /\ \A i \in 1 .. n - 1 : g[i] = h[i + 1]
  BY HeadTailProperties
<1>2. PICK i \in 1 .. n : h[i] = x
  BY <1>1 DEF Linked
<1> HIDE DEF g, n
<1>3. i - 1 \in 1 .. n - 1 /\ i = (i - 1) + 1
  BY <1>1, <1>2
<1>4. g[i - 1] = x
  BY <1>1, <1>2, <1>3
<1> QED
  BY <1>1, <1>3, <1>4 DEF Linked, g

LEMMA InterruptStep ==
  ASSUME KernelInv(k), NEW kind \in {"int", "tick"}, k.ini = 0, NEW R,
         R.handlers = <<kind>> \o k.handlers,
         R \in KernelState,
         R.readyq = k.readyq, R.primap = k.primap, R.schedtsk = k.schedtsk,
         R.priority = k.priority, R.tstat = k.tstat,
         \A t \in Tasks : R.tmo[t] # -1 => k.tmo[t] # -1,
         Waits(R, {}), R.texfrm = k.texfrm, R.texlp = k.texlp,
         R.dspflg = k.dspflg, R.disdsp = k.disdsp, R.ipmflg = k.ipmflg,
         R.reqflg = k.reqflg, R.runtsk = k.runtsk, R.ini = k.ini
  PROVE  Step(k, R)
<1>1. /\ Base(k) /\ Switched(k) /\ k \in KernelState
  BY StartedFacts
<1>2. k.handlers \in Seq({"int", "tick"})
  BY <1>1 DEF KernelState
<1>3. R.handlers # <<>>
  BY <1>2
<1>4. Core(R) /\ Ready(R) = Ready(k)
  BY <1>1, SameQueues DEF Base
<1>5. Base(R)
  BY <1>1, <1>4 DEF Base, RunnableOK, TimersOK, TexFramesOK, FlagsOK
<1>6. Switched(R)
  BY <1>1, <1>3, <1>4 DEF Switched
<1> QED
  BY <1>5, <1>6 DEF Step, KernelInv

LEMMA IntEntry ==
  ASSUME KernelInv(k), int_entry
  PROVE  Step(k, k')
<1>1. k \in KernelState /\ k.ini = 0
  BY DEF int_entry, Interrupt, KernelInv, Base, Core
<1> DEFINE h == <<"int">> \o k.handlers
<1>2. k' = [k EXCEPT !.handlers = h]
  BY DEF int_entry, Interrupt
<1>3. h \in Seq({"int", "tick"})
  <2>1. k.handlers \in Seq({"int", "tick"})
    BY <1>1 DEF KernelState
  <2> QED
    BY <2>1
<1> HIDE DEF h
<1>4. /\ k' \in KernelState /\ k'.handlers = h
      /\ k'.readyq = k.readyq /\ k'.primap = k.primap
      /\ k'.schedtsk = k.schedtsk
      /\ k'.priority = k.priority /\ k'.tstat = k.tstat /\ k'.tmo = k.tmo
      /\ k'.texfrm = k.texfrm /\ k'.texlp = k.texlp
      /\ k'.dspflg = k.dspflg /\ k'.disdsp = k.disdsp /\ k'.ipmflg = k.ipmflg
      /\ k'.reqflg = k.reqflg /\ k'.runtsk = k.runtsk /\ k'.ini = k.ini
  BY <1>1, <1>2, <1>3 DEF KernelState
<1>5. k'.waitq = k.waitq
  BY <1>1, <1>2 DEF KernelState
<1>6. \A t \in Tasks : k.tmo[t] = 0 => Linked(k'.handlers, "tick")
  <2> SUFFICES ASSUME NEW t \in Tasks, k.tmo[t] = 0
               PROVE  Linked(k'.handlers, "tick")
    OBVIOUS
  <2>1. Linked(k.handlers, "tick") /\ k.handlers \in Seq({"int", "tick"})
    BY <1>1 DEF KernelInv, Base, Waits, WaitOK, KernelState
  <2> QED
    BY <1>4, <2>1, EntryLinked DEF h
<1>7. Waits(k', {})
  BY <1>4, <1>5, <1>6, WaitsSame DEF KernelInv, Base
<1> QED
  BY <1>1, <1>4, <1>7, InterruptStep DEF h

(* The end of a handler.                                                   *)
(* A handler may end: an event that is due waits for another one.         *)
LEMMA TickPending ==
  ASSUME Base(k), k.handlers # <<>>, Head(k.handlers) = "int" \/ Due = {}
  PROVE  \A u \in Tasks : k.tmo[u] = 0 => Linked(Tail(k.handlers), "tick")
<1> SUFFICES ASSUME NEW u \in Tasks, k.tmo[u] = 0
             PROVE  Linked(Tail(k.handlers), "tick")
  OBVIOUS
<1>1. Linked(k.handlers, "tick") /\ k.handlers \in Seq({"int", "tick"})
  BY DEF Base, Core, Waits, WaitOK, KernelState
<1>2. Head(k.handlers) # "tick"
  BY DEF Due
<1> QED
  BY <1>1, <1>2, EndLinked

LEMMA EndHandler ==
  ASSUME KernelInv(k), k.handlers # <<>>, Head(k.handlers) = "int" \/ Due = {},
         k' = end_int_handler(k)
  PROVE  Step(k, k')
<1> DEFINE H == [k EXCEPT !.handlers = Tail(@)]
           R == [H EXCEPT !.reqflg = FALSE]
           t == k.runtsk
<1>1. /\ Base(k) /\ Switched(k) /\ k \in KernelState /\ k.ini = 0
  BY HandlerFacts
<1>2. Tail(k.handlers) \in Seq({"int", "tick"})
  <2>1. k.handlers \in Seq({"int", "tick"})
    BY <1>1 DEF KernelState
  <2> QED
    BY <2>1, HeadTailProperties
<1>3. k' = IF H.handlers = <<>> /\ H.runtsk # NULL THEN return_to_task(H) ELSE H
  BY DEF end_int_handler
<1>4. /\ H \in KernelState
      /\ H.readyq = k.readyq /\ H.primap = k.primap
      /\ H.schedtsk = k.schedtsk /\ H.priority = k.priority
      /\ H.tstat = k.tstat /\ H.tmo = k.tmo
      /\ H.texfrm = k.texfrm /\ H.texlp = k.texlp
      /\ H.dspflg = k.dspflg /\ H.disdsp = k.disdsp /\ H.ipmflg = k.ipmflg
      /\ H.reqflg = k.reqflg /\ H.runtsk = k.runtsk /\ H.ini = k.ini
  BY <1>1, <1>2 DEF KernelState
<1>4a. H.waitq = k.waitq /\ H.handlers = Tail(k.handlers)
  BY <1>1, <1>2 DEF KernelState
<1> HIDE DEF H
<1>5. Base(H) /\ Ready(H) = Ready(k)
  <2>1. FlagsOK(H)
    BY <1>1, <1>4 DEF Base, FlagsOK
  <2>2. \A u \in Tasks : k.tmo[u] = 0 => Linked(H.handlers, "tick")
    BY <1>1, <1>4a, TickPending
  <2> QED
    BY <1>1, <1>4, <1>4a, <2>1, <2>2, Unmoved
<1>6. CASE ~(H.handlers = <<>> /\ H.runtsk # NULL)
  BY <1>1, <1>3, <1>4, <1>5, <1>6 DEF Step, KernelInv, Switched
<1>7. CASE H.handlers = <<>> /\ H.runtsk # NULL
  <2>1. /\ t \in Tasks /\ t # NULL /\ t \in Ready(k)
        /\ k.dspflg /\ t # k.schedtsk => k.reqflg
        /\ k.dspflg => k.ipmflg
    BY <1>1, <1>4, <1>7 DEF Switched, Base, FlagsOK, Ready
  <2>2. k' = IF ~k.reqflg THEN H
             ELSE IF k.dspflg /\ k.ipmflg /\ k.schedtsk # t THEN dispatch(R)
             ELSE IF H.enatex[t] /\ H.texptn[t] THEN call_texrtn(R) ELSE R
    BY <1>3, <1>4, <1>7 DEF return_to_task
  <2>3. /\ R \in KernelState
        /\ R.readyq = k.readyq /\ R.primap = k.primap
        /\ R.schedtsk = k.schedtsk /\ R.priority = k.priority
        /\ R.tstat = k.tstat /\ R.tmo = k.tmo
        /\ R.texfrm = k.texfrm /\ R.texlp = k.texlp
        /\ R.dspflg = k.dspflg /\ R.disdsp = k.disdsp /\ R.ipmflg = k.ipmflg
        /\ R.reqflg = FALSE /\ R.runtsk = k.runtsk /\ R.ini = k.ini
        /\ R.handlers = <<>>
    BY <1>4, <1>7 DEF KernelState
  <2>3a. R.waitq = H.waitq
    BY <1>4 DEF KernelState
  <2> HIDE DEF R
  <2>4. Base(R) /\ Ready(R) = Ready(k)
    <3>1. FlagsOK(R)
      BY <1>1, <2>3 DEF Base, FlagsOK
    <3> QED
      BY <1>4, <1>5, <1>7, <2>3, <2>3a, <3>1, Unmoved
  <2>5. CASE ~k.reqflg
    BY <1>1, <1>4, <1>5, <1>7, <2>1, <2>2, <2>5 DEF Step, KernelInv, Switched
  <2>6. CASE k.reqflg /\ k.dspflg /\ k.schedtsk # t
    <3>1. Step(k, dispatch(R))
      BY <1>1, <2>3, <2>4, <2>6, DispatchStep
    <3> QED
      BY <2>1, <2>2, <2>6, <3>1
  <2>7. CASE k.reqflg /\ ~(k.dspflg /\ k.schedtsk # t)
    <3>1. KernelInv(R)
      BY <1>1, <2>1, <2>3, <2>4, <2>7 DEF KernelInv, Switched
    <3>2. OnlyTex(R, call_texrtn(R))
      BY <2>1, <2>3, <2>4, TexRoutine DEF Base
    <3>3. Step(R, call_texrtn(R))
      BY <3>1, <3>2, AsideStep
    <3>4. k' = R \/ k' = call_texrtn(R)
      BY <2>2, <2>7
    <3> QED
      BY <2>3, <3>1, <3>3, <3>4 DEF Step
  <2> QED
    BY <2>5, <2>6, <2>7
<1> QED
  BY <1>6, <1>7

LEMMA IdleLoop ==
  ASSUME KernelInv(k), idle_loop
  PROVE  Step(k, k')
<1> DEFINE R == [k EXCEPT !.reqflg = FALSE]
<1>1. /\ Base(k) /\ Switched(k) /\ k \in KernelState
      /\ k.ini = 0 /\ k.handlers = <<>> /\ k.runtsk = NULL
  BY StartedFacts DEF idle_loop
<1>2. k' = dispatch(R)
  BY DEF idle_loop
<1>3. /\ Flagged(k, R) /\ R.texlp = k.texlp
      /\ R.dspflg = k.dspflg /\ R.disdsp = k.disdsp /\ R.ipmflg = k.ipmflg
      /\ R.reqflg = FALSE
  BY <1>1, ZenonT(60) DEF KernelState, Flagged
<1> HIDE DEF R
<1>4. Base(R)
  BY <1>1, <1>3, FlaggedBase DEF FlagsOK, Base
<1>5. R.dspflg
  BY <1>1, <1>3 DEF Switched
<1> QED
  BY <1>1, <1>2, <1>3, <1>4, <1>5, DispatchStep DEF Flagged

-----------------------------------------------------------------------------
(* Start-up.                                                               *)

LEMMA InitializeTask ==
  ASSUME KernelInv(k), initialize_task
  PROVE  Step(k, k')
<1> DEFINE t == torder[k.ini]
           D == make_dormant(k, t)
           I == [D EXCEPT !.ini = @ + 1]
           r == make_active(I, t)
<1>1. /\ k.ini \in DOMAIN torder /\ t \in Tasks
      /\ k.ini \in Nat /\ k.ini # 0 /\ k.ini + 1 # 0
      /\ \A i \in DOMAIN torder : k.ini + 1 <= i => k.ini <= i /\ torder[i] # t
  BY TaskManageAssumption DEF initialize_task, Unique
<1>2. /\ Base(k) /\ Starting(k) /\ k \in KernelState
      /\ k.tstat[t] = TS_DORMANT /\ TSTAT_DORMANT(k.tstat[t])
  BY <1>1 DEF KernelInv, Starting, Base, Core, TSTAT_DORMANT
<1>3. k' = IF t \in TA_ACT THEN r.st ELSE I
  BY DEF initialize_task
<1> HIDE DEF t
<1>4. /\ t \notin Ready(k) /\ k.tmo[t] = -1
      /\ \A u \in Tasks \ {t} : u \in Ready(k) <=> TSTAT_RUNNABLE(k.tstat[u])
      /\ Core(k) /\ TimersOK(k) /\ TexFramesOK(k) /\ FlagsOK(k)
  BY <1>1, <1>2, DormantFacts DEF Base, RunnableOK
<1>4a. Waits(k, {}) /\ ~InQueue(k.waitq, t)
  BY <1>1, <1>2, DormantFacts, BaseIsBut, OutOfQueues DEF Base
<1>5. /\ Base(D) /\ Frame(k, D) /\ D.tmo = k.tmo
      /\ D.tstat = [k.tstat EXCEPT ![t] = TS_DORMANT]
  <2>1. NotLinked(k, t)
    BY <1>4a DEF NotLinked
  <2> QED
    BY <1>1, <1>4, <2>1, MakeDormant
<1> HIDE DEF D
<1>6. /\ I \in KernelState
      /\ I.readyq = D.readyq /\ I.primap = D.primap
      /\ I.schedtsk = D.schedtsk /\ I.priority = D.priority
      /\ I.tstat = D.tstat /\ I.tmo = D.tmo
      /\ I.texfrm = D.texfrm /\ I.texlp = D.texlp
      /\ I.dspflg = D.dspflg /\ I.disdsp = D.disdsp /\ I.ipmflg = D.ipmflg
      /\ I.reqflg = D.reqflg /\ I.runtsk = D.runtsk
      /\ I.handlers = D.handlers /\ I.ini = k.ini + 1
      /\ I.waitq = D.waitq
  <2> DEFINE n == k.ini + 1
  <2>1. D \in KernelState /\ D.ini = k.ini /\ n \in Nat
    BY <1>1, <1>5 DEF Base, Core, Frame
  <2>2. I = [D EXCEPT !.ini = n]
    BY <2>1
  <2> HIDE DEF I, n
  <2>3. /\ I \in KernelState /\ I.ini = n
        /\ I.readyq = D.readyq /\ I.primap = D.primap
        /\ I.schedtsk = D.schedtsk /\ I.priority = D.priority
        /\ I.tstat = D.tstat /\ I.tmo = D.tmo
        /\ I.texfrm = D.texfrm /\ I.texlp = D.texlp
        /\ I.dspflg = D.dspflg /\ I.disdsp = D.disdsp /\ I.ipmflg = D.ipmflg
        /\ I.reqflg = D.reqflg /\ I.runtsk = D.runtsk
        /\ I.handlers = D.handlers
        /\ I.waitq = D.waitq
    BY <2>1, <2>2 DEF KernelState
  <2> QED
    BY <2>3 DEF n
<1> HIDE DEF I
<1>7. Base(I)
  BY <1>5, <1>6, Unmoved DEF Base, FlagsOK
<1>8. Starting(I)
  <2>1. \A i \in DOMAIN torder : I.ini <= i => I.tstat[torder[i]] = TS_DORMANT
    BY <1>1, <1>2, <1>5, <1>6, TaskManageAssumption DEF Starting, KernelState
  <2> QED
    BY <1>2, <1>5, <1>6, <2>1 DEF Starting, Frame
<1>9. CASE t \notin TA_ACT
  BY <1>1, <1>2, <1>3, <1>6, <1>7, <1>8, <1>9 DEF Step, KernelInv, Starting
<1>10. CASE t \in TA_ACT
  <2>1. ~TSTAT_RUNNABLE(I.tstat[t]) /\ ~TSTAT_WAITING(I.tstat[t])
    <3>1. TSTAT_DORMANT(I.tstat[t])
      BY <1>1, <1>2, <1>5, <1>6 DEF TSTAT_DORMANT, KernelState
    <3> QED
      BY <1>1, <1>7, <3>1, DormantFacts
  <2>2. /\ Base(r.st) /\ Frame(I, r.st)
        /\ r.st.tstat = [I.tstat EXCEPT ![t] = TS_RUNNABLE]
    BY <1>1, <1>7, <2>1, Activate
  <2> HIDE DEF r
  <2>3. Starting(r.st)
    <3>1. \A i \in DOMAIN torder :
            r.st.ini <= i => r.st.tstat[torder[i]] = TS_DORMANT
      BY <1>1, <1>6, <1>8, <2>2 DEF Starting, Frame
    <3> QED
      BY <1>8, <2>2, <3>1 DEF Starting, Frame
  <2> QED
    BY <1>1, <1>2, <1>3, <1>6, <1>10, <2>2, <2>3 DEF Step, KernelInv, Starting, Frame
<1> QED
  BY <1>9, <1>10

LEMMA StartDispatch ==
  ASSUME KernelInv(k), start_dispatch
  PROVE  Step(k, k')
<1> DEFINE D == dispatch(k)
<1>1. k.ini # 0
  BY TaskManageAssumption DEF start_dispatch
<1>2. /\ Base(k) /\ k.handlers = <<>> /\ ~k.reqflg /\ k.dspflg
  BY <1>1 DEF KernelInv, Starting
<1>3. k' = [D EXCEPT !.ini = 0]
  BY DEF start_dispatch
<1>4. /\ Base(D) /\ Switched(D)
      /\ D.handlers = <<>> /\ D.dspflg /\ ~D.reqflg
  BY <1>2, Dispatch
<1> HIDE DEF D
<1>5. /\ k' \in KernelState
      /\ k'.readyq = D.readyq /\ k'.primap = D.primap
      /\ k'.schedtsk = D.schedtsk /\ k'.priority = D.priority
      /\ k'.tstat = D.tstat /\ k'.tmo = D.tmo
      /\ k'.texfrm = D.texfrm /\ k'.texlp = D.texlp
      /\ k'.dspflg = D.dspflg /\ k'.disdsp = D.disdsp /\ k'.ipmflg = D.ipmflg
      /\ k'.reqflg = D.reqflg /\ k'.runtsk = D.runtsk
      /\ k'.handlers = D.handlers /\ k'.ini = 0
  BY <1>3, <1>4 DEF Base, Core, KernelState
<1>5a. k'.waitq = D.waitq
  BY <1>3, <1>4 DEF Base, Core, KernelState
<1>6. Base(k') /\ Ready(k') = Ready(D)
  BY <1>4, <1>5, <1>5a, Unmoved DEF Base, FlagsOK
<1>7. Switched(k')
  BY <1>4, <1>5, <1>6 DEF Switched
<1> QED
  BY <1>4, <1>5, <1>6, <1>7 DEF Step, KernelInv, Free

-----------------------------------------------------------------------------
(* task_sync.c                                                             *)

(* The state of a task changes, and it is ready neither before nor after:  *)
(* it goes on waiting, or its wait is over.                                *)
SameWait(ts, ts2) ==
  /\ TSTAT_WAITING(ts) /\ TSTAT_WAITING(ts2)
  /\ TSTAT_WAIT_WOBJ(ts) <=> TSTAT_WAIT_WOBJ(ts2)
  /\ TSTAT_WAIT_WOBJCB(ts) <=> TSTAT_WAIT_WOBJCB(ts2)
  /\ TS_WAIT_DLY \in ts <=> TS_WAIT_DLY \in ts2

LEMMA SetTstat ==
  ASSUME NEW S, NEW X, BaseBut(S, X), NEW t \in Tasks,
         ~TSTAT_RUNNABLE(S.tstat[t]),
         NEW ts \in TStat, ~TSTAT_RUNNABLE(ts), NEW Y,
         \/ SameWait(S.tstat[t], ts) /\ Y = X
         \/ ts = TS_SUSPENDED /\ t \in X /\ S.tmo[t] = -1 /\ Y = X \ {t},
         NEW R, R = [S EXCEPT !.tstat[t] = ts]
  PROVE  /\ BaseBut(R, Y) /\ Frame(S, R) /\ Ready(R) = Ready(S)
         /\ R.schedtsk = S.schedtsk
         /\ R.waitq = S.waitq /\ R.priority = S.priority /\ R.tmo = S.tmo
<1>1. S \in KernelState /\ S.tstat \in [Tasks -> TStat]
  BY DEF BaseBut, Core, KernelState
<1>2. /\ R \in KernelState /\ R.readyq = S.readyq /\ R.primap = S.primap
      /\ R.schedtsk = S.schedtsk /\ R.priority = S.priority
      /\ R.tstat = [S.tstat EXCEPT ![t] = ts]
      /\ Frame(S, R) /\ R.tmo = S.tmo
      /\ R.texfrm = S.texfrm /\ R.texlp = S.texlp
  BY <1>1 DEF KernelState, Frame
<1>2a. R.waitq = S.waitq
  BY <1>1 DEF KernelState
<1>3. Core(R) /\ Ready(R) = Ready(S)
  BY <1>2, SameQueues DEF BaseBut
<1>4. \A u \in Tasks : R.tstat[u] = IF u = t THEN ts ELSE S.tstat[u]
  BY <1>1, <1>2
<1>5. RunnableOK(R) /\ TimersOK(R)
  BY <1>2, <1>3, <1>4 DEF BaseBut, RunnableOK, TimersOK, SameWait
<1>6. Waits(R, Y)
  <2>1. /\ Waits(S, X) /\ WaitOK(S, X, t)
        /\ Y \in SUBSET Tasks /\ \A u \in Tasks \ {t} : u \in Y <=> u \in X
    BY DEF BaseBut, Waits
  <2>2. /\ R.handlers = S.handlers /\ OthersWait(S, X, R, Y, t)
        /\ QueuedOK(R.waitq, R.priority)
    BY <1>2, <1>2a, <1>4, <2>1 DEF Frame, OthersWait, Waits
  <2>3. CASE SameWait(S.tstat[t], ts) /\ Y = X
    <3>1. WaitOK(R, Y, t)
      BY <1>2, <1>2a, <1>4, <2>1, <2>2, <2>3 DEF WaitOK, SameWait
    <3> QED
      BY <2>1, <2>2, <3>1, WaitsMove
  <2>4. CASE ts = TS_SUSPENDED /\ t \in X /\ S.tmo[t] = -1 /\ Y = X \ {t}
    <3>1. ~InQueue(S.waitq, t) /\ \A w \in TA_TPRI : ~Linked(S.waitq[w], t)
      BY <2>4, OutOfQueues
    <3>2. WaitOK(R, Y, t)
      BY <1>2, <1>2a, <1>4, <2>2, <2>4, <3>1, ObjectWaitFacts DEF WaitOK
    <3> QED
      BY <2>1, <2>2, <3>2, WaitsMove
  <2> QED
    BY <2>3, <2>4
<1> QED
  BY <1>2, <1>2a, <1>3, <1>5, <1>6 DEF BaseBut, TexFramesOK, FlagsOK, Frame

LEMMA SuspendedFacts ==
  /\ TS_SUSPENDED \in TStat
  /\ ~TSTAT_RUNNABLE(TS_SUSPENDED)
  /\ ~TSTAT_WAITING(TS_SUSPENDED)
  /\ \A ts : TSTAT_WAITING(ts) =>
       SameWait(ts, ts \cup TS_SUSPENDED) /\ SameWait(ts, ts \ TS_SUSPENDED)
<1> USE DEF TS_SUSPENDED, TSTAT_RUNNABLE, TSTAT_WAITING, TSTAT_WAIT_WOBJ,
            TSTAT_WAIT_WOBJCB, TS_WAIT_DLY
<1>1. /\ "SUSPENDED" \notin TS_WAIT_WOBJ /\ "SUSPENDED" \notin TS_WAIT_WOBJCB
  BY DEF TS_WAIT_WOBJ, TS_WAIT_WOBJCB
<1>2. TS_SUSPENDED \in TStat
  BY DEF TStat
<1> QED
  BY <1>1, <1>2 DEF SameWait

(* make_wait: the task waits, and is not in a queue yet.                   *)
LEMMA MakeWait ==
  ASSUME NEW S, Base(S), S.runtsk \in Tasks,
         TSTAT_RUNNABLE(S.tstat[S.runtsk]), NEW reason \in WaitReason,
         NEW W, W = make_wait(S, reason), NEW X, X = {S.runtsk}
  PROVE  /\ BaseBut(W, X) /\ Frame(S, W)
         /\ W.tstat = [S.tstat EXCEPT ![S.runtsk] = TS_WAITING(reason)]
         /\ W.waitq = S.waitq /\ W.priority = S.priority
<1> DEFINE t == S.runtsk
           ts == TS_WAITING(reason)
           N == make_non_runnable([S EXCEPT !.tstat[t] = ts], t).st
<1>1. ts \in TStat /\ ~TSTAT_RUNNABLE(ts) /\ TSTAT_WAITING(ts)
  BY WaitFacts
<1>2. W = [N EXCEPT !.tmo[t] = TMO_FEVR]
  BY DEF make_wait
<1> HIDE DEF ts, N
<1>3. /\ BaseBut(N, X) /\ Frame(S, N)
      /\ N.tstat = [S.tstat EXCEPT ![t] = ts]
      /\ N.waitq = S.waitq /\ N.priority = S.priority
  <2>1. Deactivated(S, t, ts, make_non_runnable([S EXCEPT !.tstat[t] = ts], t))
    BY <1>1, Deactivate
  <2> QED
    BY <1>1, <2>1 DEF Deactivated, N
<1>4. N \in KernelState /\ t \in Tasks /\ t \in X
  BY <1>3 DEF BaseBut, Core
<1>5. /\ TMO_FEVR \in Int /\ TMO_FEVR >= -1 /\ TMO_FEVR # 0
  BY DEF TMO_FEVR
<1>6. Retimed(N, W, t, TMO_FEVR)
  BY <1>2, <1>4, <1>5, SetTmo
<1>7. BaseBut(W, X)
  BY <1>3, <1>4, <1>5, <1>6, Dequeued
<1> QED
  BY <1>3, <1>6, <1>7 DEF Retimed, Frame, ts

(* tmevtb_enqueue for that wait.                                           *)
LEMMA EnqueueTmevtb ==
  ASSUME NEW S, NEW X, BaseBut(S, X), NEW t \in X, NEW tmout \in Nat,
         NEW W, W = tmevtb_enqueue(S, t, tmout)
  PROVE  BaseBut(W, X) /\ Retimed(S, W, t, tmout + 1)
<1> DEFINE x == tmout + 1
<1>1. x \in Int /\ x >= -1 /\ x # 0 /\ W = [S EXCEPT !.tmo[t] = x]
  BY DEF tmevtb_enqueue
<1>2. S \in KernelState /\ t \in Tasks
  BY DEF BaseBut, Core, Waits
<1> HIDE DEF x
<1>3. Retimed(S, W, t, x)
  BY <1>1, <1>2, SetTmo
<1>4. BaseBut(W, X)
  BY <1>1, <1>2, <1>3, Dequeued
<1> QED
  BY <1>3, <1>4 DEF x

(* A wait for no object is complete then, a delay with its time event.     *)
LEMMA Waiting ==
  ASSUME NEW S, NEW t, BaseBut(S, {t}), ~TSTAT_WAIT_WOBJ(S.tstat[t]),
         TS_WAIT_DLY \in S.tstat[t] => S.tmo[t] # -1
  PROVE  Base(S)
<1>1. Waits(S, {t}) /\ t \in Tasks /\ WaitOK(S, {t}, t)
  BY DEF BaseBut, Waits
<1>2. WaitOK(S, {}, t)
  BY <1>1 DEF WaitOK
<1>3. Waits(S, {})
  BY <1>1, <1>2, WaitsState
<1> QED
  BY <1>3 DEF Base, BaseBut

(* The operation makes tasks ready, or none.                               *)
Readied(S, r) ==
  /\ Base(r.st) /\ Frame(S, r.st) /\ Tells(S, r)
  /\ Ready(S) \subseteq Ready(r.st)

ReadiedBut(S, X, r) ==
  /\ BaseBut(r.st, X) /\ Frame(S, r.st) /\ Tells(S, r)
  /\ Ready(S) \subseteq Ready(r.st)
  /\ r.st.waitq = S.waitq /\ r.st.priority = S.priority /\ r.st.tmo = S.tmo

LEMMA NonWait ==
  ASSUME NEW S, NEW X, BaseBut(S, X), NEW t \in X, S.tmo[t] = -1,
         NEW r, r = make_non_wait(S, t)
  PROVE  ReadiedBut(S, X \ {t}, r)
<1>1. t \in Tasks /\ TSTAT_WAITING(S.tstat[t]) /\ S.tstat[t] \in TStat
  BY DEF BaseBut, Core, KernelState, Waits, WaitOK
<1>2. ~TSTAT_RUNNABLE(S.tstat[t])
  BY <1>1, TStatFacts
<1>3. CASE ~TSTAT_SUSPENDED(S.tstat[t])
  <2>1. r = make_active(S, t)
    BY <1>3 DEF make_non_wait, make_active
  <2>2. ActivatedBut(S, X, t, r)
    BY <1>1, <1>2, <2>1, ActivateBut
  <2> QED
    BY <2>2 DEF ActivatedBut, ReadiedBut
<1>4. CASE TSTAT_SUSPENDED(S.tstat[t])
  <2> DEFINE R == [S EXCEPT !.tstat[t] = TS_SUSPENDED]
             Y == X \ {t}
  <2>1. r.st = R /\ r.dsp = FALSE
    BY <1>4 DEF make_non_wait
  <2>2. /\ BaseBut(R, Y) /\ Frame(S, R) /\ Ready(R) = Ready(S)
        /\ R.schedtsk = S.schedtsk
        /\ R.waitq = S.waitq /\ R.priority = S.priority /\ R.tmo = S.tmo
    BY <1>1, <1>2, SuspendedFacts, SetTstat
  <2> HIDE DEF R
  <2> QED
    BY <2>1, <2>2 DEF Tells, ReadiedBut
<1> QED
  BY <1>3, <1>4

(* wait_complete, wait_release, wait_tmout and init_wait_queue: the wait   *)
(* ends with result e.                                                     *)
LEMMA EndWait ==
  ASSUME NEW D, NEW X, BaseBut(D, X), NEW t \in X, D.tmo[t] = -1,
         NEW e \in {"E_OK", "E_RLWAI", "E_TMOUT", "E_DLT"},
         NEW r, r = make_non_wait([D EXCEPT !.wercd[t] = e], t)
  PROVE  ReadiedBut(D, X \ {t}, r)
<1> DEFINE E == [D EXCEPT !.wercd[t] = e]
<1>1. D \in KernelState /\ TexFramesOK(D) /\ t \in Tasks
  BY DEF BaseBut, Core, Waits
<1>2. OnlyTex(D, E)
  BY <1>1 DEF OnlyTex, TexFramesOK, Frame, KernelState
<1>3. r = make_non_wait(E, t)
  OBVIOUS
<1> HIDE DEF E
<1>4. BaseBut(E, X) /\ Ready(E) = Ready(D)
  BY <1>2, TexKeepsBut
<1>5. E.tmo[t] = -1
  BY <1>2 DEF OnlyTex
<1>6. ReadiedBut(E, X \ {t}, r)
  BY <1>3, <1>4, <1>5, NonWait
<1> QED
  BY <1>2, <1>4, <1>6 DEF OnlyTex, Frame, Tells, ReadiedBut

LEMMA DequeueTmevtb ==
  ASSUME NEW S, NEW X, BaseBut(S, X), NEW t \in X,
         NEW D, D = wait_dequeue_tmevtb(S, t)
  PROVE  BaseBut(D, X) /\ Ready(D) = Ready(S) /\ Retimed(S, D, t, -1)
<1>1. S \in KernelState /\ t \in Tasks
  BY DEF BaseBut, Core, Waits
<1>2. Retimed(S, D, t, -1)
  BY <1>1, SetTmo DEF wait_dequeue_tmevtb
<1>3. BaseBut(D, X) /\ Ready(D) = Ready(S)
  <2>1. -1 \in Int /\ -1 >= -1 /\ -1 # 0
    OBVIOUS
  <2> QED
    BY <1>1, <1>2, <2>1, Dequeued
<1> QED
  BY <1>2, <1>3

(* An operation on D that has become of S without making tasks ready.      *)
Prepared(S, D) ==
  /\ Frame(S, D) /\ Ready(D) = Ready(S)
  /\ D.schedtsk = S.schedtsk

LEMMA ReadiedFrom ==
  ASSUME NEW S, NEW D, Prepared(S, D), NEW X, NEW r, ReadiedBut(D, X, r)
  PROVE  /\ BaseBut(r.st, X) /\ Frame(S, r.st) /\ Tells(S, r)
         /\ Ready(S) \subseteq Ready(r.st)
BY DEF Prepared, ReadiedBut, Frame, Tells

LEMMA WaitComplete ==
  ASSUME NEW S, NEW X, BaseBut(S, X), NEW t \in X,
         NEW r, r = wait_complete(S, t)
  PROVE  /\ BaseBut(r.st, X \ {t}) /\ Frame(S, r.st) /\ Tells(S, r)
         /\ Ready(S) \subseteq Ready(r.st)
         /\ r.st.waitq = S.waitq /\ r.st.priority = S.priority
<1> DEFINE D == wait_dequeue_tmevtb(S, t)
<1>1. BaseBut(D, X) /\ Ready(D) = Ready(S) /\ Retimed(S, D, t, -1)
  BY DequeueTmevtb
<1>2. r = make_non_wait([D EXCEPT !.wercd[t] = "E_OK"], t)
  BY DEF wait_complete
<1> HIDE DEF D
<1>3. D.tmo[t] = -1 /\ Prepared(S, D)
  BY <1>1 DEF Retimed, Prepared
<1>4. ReadiedBut(D, X \ {t}, r)
  BY <1>1, <1>2, <1>3, EndWait
<1> QED
  BY <1>1, <1>3, <1>4, ReadiedFrom DEF ReadiedBut, Retimed

LEMMA WaitRelease ==
  ASSUME NEW S, Base(S), NEW t \in Tasks, TSTAT_WAITING(S.tstat[t]),
         NEW r, r = wait_release(S, t)
  PROVE  Readied(S, r)
<1> DEFINE Q == wait_dequeue_wobj(S, t)
           D == wait_dequeue_tmevtb(Q, t)
           X == {} \cup {t}
<1>0. BaseBut(S, {}) /\ X = {} \cup {t} /\ t \notin {}
  BY BaseIsBut
<1> HIDE DEF X
<1>1. BaseBut(Q, X) /\ Ready(Q) = Ready(S) /\ Alike(S, Q)
  BY <1>0, DequeueWobj
<1>2. r = make_non_wait([D EXCEPT !.wercd[t] = "E_RLWAI"], t)
  BY DEF wait_release
<1>3. t \in X /\ X \ {t} = {}
  BY <1>0
<1> HIDE DEF Q
<1>4. BaseBut(D, X) /\ Ready(D) = Ready(Q) /\ Retimed(Q, D, t, -1)
  BY <1>1, <1>3, DequeueTmevtb
<1> HIDE DEF D
<1>5. D.tmo[t] = -1 /\ Prepared(S, D)
  BY <1>1, <1>4 DEF Retimed, Prepared, Alike, Frame
<1>6. ReadiedBut(D, X \ {t}, r)
  BY <1>2, <1>3, <1>4, <1>5, EndWait
<1>7. BaseBut(r.st, X \ {t}) /\ Frame(S, r.st) /\ Tells(S, r)
      /\ Ready(S) \subseteq Ready(r.st)
  BY <1>5, <1>6, ReadiedFrom
<1>8. BaseBut(r.st, {})
  BY <1>3, <1>7
<1> QED
  BY <1>7, <1>8, BaseIsBut DEF Readied

(* A task that waits for no object: wup_tsk, and the end of dly_tsk.       *)
LEMMA Released ==
  ASSUME NEW S, Base(S), NEW t \in Tasks, TSTAT_WAITING(S.tstat[t]),
         NEW r, \/ r = wait_release(S, t)
                \/ r = wait_complete(S, t) /\ ~TSTAT_WAIT_WOBJ(S.tstat[t])
  PROVE  /\ Base(r.st) /\ Frame(S, r.st) /\ Tells(S, r)
         /\ Ready(S) \subseteq Ready(r.st)
<1>1. CASE r = wait_release(S, t)
  BY <1>1, WaitRelease DEF Readied
<1>2. CASE r = wait_complete(S, t) /\ ~TSTAT_WAIT_WOBJ(S.tstat[t])
  <2> DEFINE X == {} \cup {t}
  <2>1. BaseBut(S, X) /\ t \in X /\ X \ {t} = {}
    BY <1>2, BaseIsBut, NotQueued
  <2> HIDE DEF X
  <2>2. /\ BaseBut(r.st, X \ {t}) /\ Frame(S, r.st) /\ Tells(S, r)
        /\ Ready(S) \subseteq Ready(r.st)
    BY <1>2, <2>1, WaitComplete
  <2> QED
    BY <2>1, <2>2, BaseIsBut
<1> QED
  BY <1>1, <1>2

(* A task that sleeps waits.                                               *)
LEMMA SleepFacts ==
  ASSUME NEW ts \in TStat, TSTAT_WAIT_SLP(ts)
  PROVE  TSTAT_WAITING(ts) /\ ~TSTAT_WAIT_WOBJ(ts)
<1> USE DEF TSTAT_WAIT_SLP, TSTAT_WAITING, TS_WAIT_SLP, TS_WAITING,
            TS_DORMANT, TS_RUNNABLE, TS_SUSPENDED, TSTAT_WAIT_WOBJ,
            TS_WAIT_WOBJ, TS_WAIT_WOBJCB
<1>1. \/ ts \in {TS_DORMANT, TS_RUNNABLE, TS_SUSPENDED}
      \/ \E r \in WaitReason :
           ts = TS_WAITING(r) \/ ts = TS_WAITING(r) \cup TS_SUSPENDED
  BY DEF TStat
<1>2. \A r \in WaitReason : "WAIT_SLP" \in TS_WAITING(r) \cup TS_SUSPENDED
                              => r = "WAIT_SLP"
  OBVIOUS
<1> QED
  BY <1>1, <1>2

(* The running task waits for no object, a delay with its time event.      *)
LEMMA SleepBase ==
  ASSUME NEW S, Base(S), S.runtsk \in Tasks, TSTAT_RUNNABLE(S.tstat[S.runtsk])
  PROVE  /\ Base(make_wait(S, TS_WAIT_SLP)) /\ Frame(S, make_wait(S, TS_WAIT_SLP))
         /\ \A reason \in {TS_WAIT_SLP, TS_WAIT_DLY}, tmout \in Nat :
              LET W == tmevtb_enqueue(make_wait(S, reason), S.runtsk, tmout)
              IN Base(W) /\ Frame(S, W)
<1> DEFINE t == S.runtsk
           X == {t}
<1>1. ASSUME NEW reason \in {TS_WAIT_SLP, TS_WAIT_DLY},
             NEW W, W = make_wait(S, reason)
      PROVE  /\ BaseBut(W, X) /\ Frame(S, W)
             /\ ~TSTAT_WAIT_WOBJ(W.tstat[t])
             /\ TS_WAIT_DLY \in W.tstat[t] => reason = TS_WAIT_DLY
  <2>1. reason \in WaitReason /\ reason \notin TS_WAIT_WOBJ
    BY DEF WaitReason, TS_WAIT_WOBJ, TS_WAIT_WOBJCB, TS_WAIT_SLP, TS_WAIT_DLY
  <2>2. X = {S.runtsk}
    OBVIOUS
  <2> HIDE DEF X
  <2>3. /\ BaseBut(W, X) /\ Frame(S, W)
        /\ W.tstat = [S.tstat EXCEPT ![t] = TS_WAITING(reason)]
    BY <1>1, <2>1, <2>2, MakeWait
  <2>4. W.tstat[t] = TS_WAITING(reason)
    BY <2>3 DEF Base, Core, KernelState
  <2> QED
    BY <2>1, <2>3, <2>4, WaitFacts
<1>2. Base(make_wait(S, TS_WAIT_SLP)) /\ Frame(S, make_wait(S, TS_WAIT_SLP))
  <2> DEFINE W == make_wait(S, TS_WAIT_SLP)
  <2>1. /\ BaseBut(W, X) /\ Frame(S, W)
        /\ ~TSTAT_WAIT_WOBJ(W.tstat[t])
        /\ TS_WAIT_DLY \notin W.tstat[t]
    BY <1>1 DEF TS_WAIT_SLP, TS_WAIT_DLY
  <2> HIDE DEF W
  <2>2. Base(W)
    BY <2>1, Waiting
  <2> QED
    BY <2>1, <2>2 DEF W
<1>3. ASSUME NEW reason \in {TS_WAIT_SLP, TS_WAIT_DLY}, NEW tmout \in Nat,
             NEW W, W = tmevtb_enqueue(make_wait(S, reason), t, tmout)
      PROVE  Base(W) /\ Frame(S, W)
  <2> DEFINE V == make_wait(S, reason)
  <2>1. BaseBut(V, X) /\ Frame(S, V) /\ ~TSTAT_WAIT_WOBJ(V.tstat[t])
    BY <1>1
  <2>2. t \in X /\ W = tmevtb_enqueue(V, t, tmout)
    BY <1>3
  <2> HIDE DEF V, X
  <2>3. BaseBut(W, X) /\ Retimed(V, W, t, tmout + 1)
    BY <2>1, <2>2, EnqueueTmevtb
  <2>4. W.tmo[t] # -1 /\ ~TSTAT_WAIT_WOBJ(W.tstat[t]) /\ Frame(S, W)
    BY <2>1, <2>3 DEF Retimed, Frame
  <2> QED
    BY <2>3, <2>4, Waiting DEF X
<1> QED
  BY <1>2, <1>3

LEMMA SlpTsk ==
  ASSUME KernelInv(k),
         \/ slp_tsk
         \/ \E tmout \in Timeout : tslp_tsk(tmout)
         \/ \E dlytim \in {0} \cup Timeout : dly_tsk(dlytim)
  PROVE  Step(k, k')
<1> DEFINE t == k.runtsk
<1>1. /\ Base(k) /\ k \in KernelState /\ TexFramesOK(k)
      /\ k.ini = 0 /\ k.handlers = <<>> /\ ~k.reqflg /\ k.dspflg
      /\ t \in Tasks /\ TSTAT_RUNNABLE(k.tstat[t])
  BY TskCtxFacts DEF slp_tsk, tslp_tsk, dly_tsk, CanDispatch, TskCtxUnl, Base
<1>2. ASSUME NEW W, Base(W), Frame(k, W), k' = dispatch(W)
      PROVE  Step(k, k')
  <2>1. W.ini = 0 /\ W.handlers = <<>> /\ ~W.reqflg /\ W.dspflg
    BY <1>1, <1>2 DEF Frame
  <2> QED
    BY <1>2, <2>1, DispatchStep
<1>3. k' = dispatch(make_wait(k, TS_WAIT_SLP)) => Step(k, k')
  <2> DEFINE W == make_wait(k, TS_WAIT_SLP)
  <2>1. Base(W) /\ Frame(k, W)
    BY <1>1, SleepBase
  <2> HIDE DEF W
  <2>2. k' = dispatch(W) => Step(k, k')
    BY <1>2, <2>1
  <2> QED
    BY <2>2 DEF W
<1>4. ASSUME NEW reason \in {TS_WAIT_SLP, TS_WAIT_DLY}, NEW tmout \in Nat
      PROVE  k' = dispatch(tmevtb_enqueue(make_wait(k, reason), t, tmout))
               => Step(k, k')
  <2> DEFINE W == tmevtb_enqueue(make_wait(k, reason), t, tmout)
  <2>1. Base(W) /\ Frame(k, W)
    BY <1>1, SleepBase
  <2> HIDE DEF W
  <2>2. k' = dispatch(W) => Step(k, k')
    BY <1>2, <2>1
  <2> QED
    BY <2>2 DEF W
<1>5. CASE k' = [k EXCEPT !.wupque[k.runtsk] = FALSE]
  <2>1. OnlyTex(k, k')
    BY <1>1, <1>5 DEF OnlyTex, TexFramesOK, Frame, KernelState
  <2> QED
    BY <2>1, AsideStep
<1>6. CASE slp_tsk
  BY <1>3, <1>5, <1>6 DEF slp_tsk
<1>7. ASSUME NEW tmout \in Timeout, tslp_tsk(tmout)
      PROVE  Step(k, k')
  <2>1. tmout \in Nat
    BY TaskSyncAssumption DEF Timeout
  <2> QED
    BY <1>3, <1>4, <1>5, <1>7, <2>1 DEF tslp_tsk, make_wait_tmout
<1>8. ASSUME NEW dlytim \in {0} \cup Timeout, dly_tsk(dlytim)
      PROVE  Step(k, k')
  <2>1. dlytim \in Nat
    BY TaskSyncAssumption DEF Timeout
  <2> QED
    BY <1>4, <1>8, <2>1 DEF dly_tsk
<1> QED
  BY <1>6, <1>7, <1>8

LEMMA WupTsk ==
  ASSUME KernelInv(k), NEW t \in Tasks, wup_tsk(t)
  PROVE  Step(k, k')
<1>1. /\ Base(k) /\ Switched(k) /\ k \in KernelState /\ TexFramesOK(k)
      /\ k.ini = 0 /\ k.handlers = <<>> /\ k.runtsk # NULL /\ k.runtsk \in Ready(k)
  BY TskCtxFacts DEF wup_tsk, TskCtxUnl, Base
<1>2. \/ /\ TSTAT_WAIT_SLP(k.tstat[t])
         /\ k' = DispatchIf(wait_complete(k, t))
      \/ k' = [k EXCEPT !.wupque[t] = TRUE]
  BY DEF wup_tsk, wakeup
<1>3. CASE /\ TSTAT_WAIT_SLP(k.tstat[t])
           /\ k' = DispatchIf(wait_complete(k, t))
  <2> DEFINE r == wait_complete(k, t)
  <2>1. TSTAT_WAITING(k.tstat[t]) /\ ~TSTAT_WAIT_WOBJ(k.tstat[t])
    BY <1>1, <1>3, SleepFacts DEF KernelState
  <2>2. /\ Base(r.st) /\ Frame(k, r.st) /\ Tells(k, r)
        /\ Ready(k) \subseteq Ready(r.st)
    BY <1>1, <2>1, Released
  <2> HIDE DEF r
  <2>3. Step(k, DispatchIf(r))
    BY <1>1, <2>2, DispatchIfStep
  <2> QED
    BY <1>3, <2>3 DEF r
<1>4. CASE k' = [k EXCEPT !.wupque[t] = TRUE]
  <2>1. OnlyTex(k, k')
    BY <1>1, <1>4 DEF OnlyTex, TexFramesOK, Frame, KernelState
  <2> QED
    BY <2>1, AsideStep
<1> QED
  BY <1>2, <1>3, <1>4

LEMMA IwupTsk ==
  ASSUME KernelInv(k), NEW t \in Tasks, iwup_tsk(t)
  PROVE  Step(k, k')
<1>1. /\ Base(k) /\ Switched(k) /\ k \in KernelState /\ TexFramesOK(k)
      /\ k.ini = 0 /\ k.handlers # <<>>
  BY HandlerFacts DEF iwup_tsk, IntCtxUnl, Base
<1>2. \/ /\ TSTAT_WAIT_SLP(k.tstat[t])
         /\ k' = RequestIf(wait_complete(k, t))
      \/ k' = [k EXCEPT !.wupque[t] = TRUE]
  BY DEF iwup_tsk, wakeup
<1>3. CASE /\ TSTAT_WAIT_SLP(k.tstat[t])
           /\ k' = RequestIf(wait_complete(k, t))
  <2> DEFINE r == wait_complete(k, t)
  <2>1. TSTAT_WAITING(k.tstat[t]) /\ ~TSTAT_WAIT_WOBJ(k.tstat[t])
    BY <1>1, <1>3, SleepFacts DEF KernelState
  <2>2. /\ Base(r.st) /\ Frame(k, r.st) /\ Tells(k, r)
        /\ Ready(k) \subseteq Ready(r.st)
    BY <1>1, <2>1, Released
  <2> HIDE DEF r
  <2>3. Step(k, RequestIf(r))
    BY <1>1, <2>2, RequestIfStep
  <2> QED
    BY <1>3, <2>3 DEF r
<1>4. CASE k' = [k EXCEPT !.wupque[t] = TRUE]
  <2>1. OnlyTex(k, k')
    BY <1>1, <1>4 DEF OnlyTex, TexFramesOK, Frame, KernelState
  <2> QED
    BY <2>1, AsideStep
<1> QED
  BY <1>2, <1>3, <1>4

LEMMA CanWup ==
  ASSUME KernelInv(k), NEW t \in Tasks, can_wup(t)
  PROVE  Step(k, k')
<1>1. k \in KernelState /\ TexFramesOK(k)
  BY DEF KernelInv, Base, Core
<1>2. OnlyTex(k, k')
  BY <1>1 DEF can_wup, OnlyTex, TexFramesOK, Frame, KernelState
<1> QED
  BY <1>2, AsideStep

LEMMA RelWai ==
  ASSUME KernelInv(k), NEW t \in Tasks, rel_wai(t)
  PROVE  Step(k, k')
<1> DEFINE r == wait_release(k, t)
<1>1. /\ Base(k) /\ Switched(k)
      /\ k.ini = 0 /\ k.handlers = <<>> /\ k.runtsk # NULL /\ k.runtsk \in Ready(k)
      /\ TSTAT_WAITING(k.tstat[t]) /\ k' = DispatchIf(r)
  BY TskCtxFacts DEF rel_wai, TskCtxUnl
<1>2. /\ Base(r.st) /\ Frame(k, r.st) /\ Tells(k, r)
      /\ Ready(k) \subseteq Ready(r.st)
  BY <1>1, Released
<1> HIDE DEF r
<1>3. Step(k, DispatchIf(r))
  BY <1>1, <1>2, DispatchIfStep
<1> QED
  BY <1>1, <1>3

LEMMA IrelWai ==
  ASSUME KernelInv(k), NEW t \in Tasks, irel_wai(t)
  PROVE  Step(k, k')
<1> DEFINE r == wait_release(k, t)
<1>1. /\ Base(k) /\ Switched(k) /\ k.ini = 0 /\ k.handlers # <<>>
      /\ TSTAT_WAITING(k.tstat[t]) /\ k' = RequestIf(r)
  BY HandlerFacts DEF irel_wai, IntCtxUnl
<1>2. /\ Base(r.st) /\ Frame(k, r.st) /\ Tells(k, r)
      /\ Ready(k) \subseteq Ready(r.st)
  BY <1>1, Released
<1> HIDE DEF r
<1>3. Step(k, RequestIf(r))
  BY <1>1, <1>2, RequestIfStep
<1> QED
  BY <1>1, <1>3

LEMMA SusTsk ==
  ASSUME KernelInv(k), NEW t \in Tasks, sus_tsk(t)
  PROVE  Step(k, k')
<1>1. /\ Base(k) /\ Switched(k) /\ k \in KernelState
      /\ k.ini = 0 /\ k.handlers = <<>> /\ k.runtsk # NULL /\ k.runtsk \in Ready(k)
      /\ k.dspflg => k.runtsk = k.schedtsk
      /\ t = k.runtsk => k.dspflg
      /\ ~TSTAT_DORMANT(k.tstat[t]) /\ ~TSTAT_SUSPENDED(k.tstat[t])
  BY TskCtxFacts DEF sus_tsk, TskCtxUnl
<1>2. CASE TSTAT_RUNNABLE(k.tstat[t])
  <2> DEFINE r == make_non_runnable([k EXCEPT !.tstat[t] = TS_SUSPENDED], t)
  <2>1. k' = DispatchIf(r)
    BY <1>2 DEF sus_tsk
  <2>2. /\ Base(r.st) /\ Frame(k, r.st) /\ Tells(k, r)
        /\ Ready(r.st) = Ready(k) \ {t}
        /\ k.dspflg /\ k.schedtsk = t => r.dsp
    <3> DEFINE ts == TS_SUSPENDED
    <3>1. ts \in TStat /\ ~TSTAT_RUNNABLE(ts) /\ ~TSTAT_WAITING(ts)
      BY SuspendedFacts
    <3>2. r = make_non_runnable([k EXCEPT !.tstat[t] = ts], t) /\ ts = TS_SUSPENDED
      OBVIOUS
    <3> HIDE DEF ts, r
    <3>3. Base(k) /\ t \in Tasks /\ TSTAT_RUNNABLE(k.tstat[t])
      BY <1>1, <1>2
    <3>4. Deactivated(k, t, ts, r)
      BY <3>1, <3>2, <3>3, Deactivate
    <3> QED
      BY <3>1, <3>4, BaseIsBut DEF Deactivated
  <2> HIDE DEF r
  <2>3. k.runtsk \in Ready(r.st) \/ r.dsp
    BY <1>1, <2>2
  <2>4. Step(k, DispatchIf(r))
    BY <1>1, <2>2, <2>3, DispatchIfStep
  <2> QED
    BY <2>1, <2>4
<1>3. CASE ~TSTAT_RUNNABLE(k.tstat[t])
  <2> DEFINE ts == k.tstat[t] \cup TS_SUSPENDED
  <2>1. k' = [k EXCEPT !.tstat[t] = ts]
    BY <1>1, <1>3 DEF sus_tsk, KernelState
  <2>2. k.tstat[t] \in TStat
    BY <1>1 DEF KernelState
  <2>3. TSTAT_WAITING(k.tstat[t])
    <3>1. k.tstat[t] # TS_SUSPENDED
      BY <1>1 DEF TSTAT_SUSPENDED, TS_SUSPENDED
    <3> QED
      BY <1>1, <1>3, <2>2, <3>1, TStatFacts
  <2>4. /\ ts \in TStat /\ SameWait(k.tstat[t], ts) /\ TSTAT_WAITING(ts)
    BY <2>2, <2>3, TStatFacts, SuspendedFacts DEF SameWait
  <2>5. ~TSTAT_RUNNABLE(ts)
    BY <2>4, TStatFacts
  <2> HIDE DEF ts
  <2>6. Base(k') /\ Frame(k, k') /\ Ready(k') = Ready(k) /\ k'.schedtsk = k.schedtsk
    BY <1>1, <1>3, <2>1, <2>4, <2>5, BaseIsBut, SetTstat
  <2> QED
    BY <1>1, <2>6 DEF Step, KernelInv, Switched, Frame
<1> QED
  BY <1>2, <1>3

LEMMA RsmTsk ==
  ASSUME KernelInv(k), NEW t \in Tasks, rsm_tsk(t)
  PROVE  Step(k, k')
<1>1. /\ Base(k) /\ Switched(k) /\ k \in KernelState
      /\ k.ini = 0 /\ k.handlers = <<>> /\ k.runtsk # NULL /\ k.runtsk \in Ready(k)
      /\ TSTAT_SUSPENDED(k.tstat[t])
  BY TskCtxFacts DEF rsm_tsk, TskCtxUnl
<1>2. k.tstat[t] \in TStat /\ ~TSTAT_RUNNABLE(k.tstat[t])
  BY <1>1, TStatFacts DEF KernelState
<1>3. CASE TSTAT_WAITING(k.tstat[t])
  <2> DEFINE ts == k.tstat[t] \ TS_SUSPENDED
  <2>1. k' = [k EXCEPT !.tstat[t] = ts]
    BY <1>1, <1>3 DEF rsm_tsk, KernelState
  <2>2. /\ ts \in TStat /\ SameWait(k.tstat[t], ts) /\ TSTAT_WAITING(ts)
    BY <1>2, <1>3, TStatFacts, SuspendedFacts DEF SameWait
  <2>3. ~TSTAT_RUNNABLE(ts)
    BY <2>2, TStatFacts
  <2> HIDE DEF ts
  <2>4. Base(k') /\ Frame(k, k') /\ Ready(k') = Ready(k) /\ k'.schedtsk = k.schedtsk
    <3> DEFINE X == {}
    <3>1. BaseBut(k, X)
      BY <1>1, BaseIsBut
    <3> HIDE DEF X
    <3>2. /\ BaseBut(k', X) /\ Frame(k, k')
          /\ Ready(k') = Ready(k) /\ k'.schedtsk = k.schedtsk
      BY <1>1, <1>2, <2>1, <2>2, <2>3, <3>1, SetTstat
    <3> QED
      BY <3>2, BaseIsBut DEF X
  <2> QED
    BY <1>1, <2>4 DEF Step, KernelInv, Switched, Frame
<1>4. CASE ~TSTAT_WAITING(k.tstat[t])
  <2> DEFINE r == make_active(k, t)
  <2>1. k' = DispatchIf(r)
    BY <1>4 DEF rsm_tsk, make_active
  <2>3. /\ Base(r.st) /\ Frame(k, r.st) /\ Tells(k, r)
        /\ Ready(r.st) = Ready(k) \cup {t}
    BY <1>1, <1>2, <1>4, Activate
  <2> HIDE DEF r
  <2>4. Step(k, DispatchIf(r))
    BY <1>1, <2>3, DispatchIfStep
  <2> QED
    BY <2>1, <2>4
<1> QED
  BY <1>3, <1>4

-----------------------------------------------------------------------------
(* The time tick.                                                          *)

LEMMA TickEntry ==
  ASSUME KernelInv(k), tick_entry
  PROVE  Step(k, k')
<1>1. k \in KernelState /\ k.ini = 0
  BY DEF tick_entry, KernelInv, Base, Core
<1> DEFINE h == <<"tick">> \o k.handlers
           tmo == [t \in Tasks |-> IF k.tmo[t] = -1 THEN -1 ELSE k.tmo[t] - 1]
<1>2. k' = [k EXCEPT !.handlers = h, !.tmo = tmo]
  BY <1>1 DEF tick_entry, KernelState
<1>3. h \in Seq({"int", "tick"})
  <2>1. k.handlers \in Seq({"int", "tick"})
    BY <1>1 DEF KernelState
  <2> QED
    BY <2>1
<1>4. /\ tmo \in [Tasks -> Int]
      /\ \A t \in Tasks : tmo[t] # -1 => k.tmo[t] # -1
      /\ \A t \in Tasks : tmo[t] >= -1 /\ (k.tmo[t] # -1 => tmo[t] # -1)
  <2>1. k.tmo \in [Tasks -> Int]
    BY <1>1 DEF KernelState
  <2>2. \A t \in Tasks : k.tmo[t] >= -1 /\ k.tmo[t] # 0
    <3>1. ~Linked(k.handlers, "tick")
      BY DEF tick_entry, ToSet, Linked
    <3> QED
      BY <3>1 DEF KernelInv, Base, Waits, WaitOK
  <2> QED
    BY <2>1, <2>2
<1> HIDE DEF h, tmo
<1>5. /\ k' \in KernelState /\ k'.handlers = h
      /\ k'.readyq = k.readyq /\ k'.primap = k.primap
      /\ k'.schedtsk = k.schedtsk
      /\ k'.priority = k.priority /\ k'.tstat = k.tstat /\ k'.tmo = tmo
      /\ k'.texfrm = k.texfrm /\ k'.texlp = k.texlp
      /\ k'.dspflg = k.dspflg /\ k'.disdsp = k.disdsp /\ k'.ipmflg = k.ipmflg
      /\ k'.reqflg = k.reqflg /\ k'.runtsk = k.runtsk /\ k'.ini = k.ini
  BY <1>1, <1>2, <1>3, <1>4 DEF KernelState
<1>6. \A t \in Tasks : k'.tmo[t] # -1 => k.tmo[t] # -1
  BY <1>4, <1>5
<1>7. k'.waitq = k.waitq
  BY <1>1, <1>2 DEF KernelState
<1>8. Waits(k', {})
  <2>1. Waits(k, {}) /\ k.handlers \in Seq({"int", "tick"})
    BY <1>1 DEF KernelInv, Base, KernelState
  <2>2. Linked(k'.handlers, "tick")
    BY <1>5, <2>1, EntryLinked DEF h
  <2>3. ASSUME NEW t \in Tasks
        PROVE  WaitOK(k', {}, t)
    <3>1. WaitOK(k, {}, t)
      BY <2>1 DEF Waits
    <3> QED
      BY <1>4, <1>5, <1>7, <2>2, <3>1 DEF WaitOK
  <2> QED
    BY <1>5, <1>7, <2>1, <2>3 DEF Waits
<1> QED
  BY <1>1, <1>5, <1>6, <1>8, InterruptStep DEF h

LEMMA SignalTime ==
  ASSUME KernelInv(k), NEW t \in Tasks, signal_time(t)
  PROVE  Step(k, k')
<1> DEFINE S == [k EXCEPT !.tmo[t] = -1]
           X == {} \cup {t}
<1>1. /\ Base(k) /\ Switched(k) /\ k \in KernelState
      /\ k.ini = 0 /\ k.handlers # <<>>
  BY HandlerFacts DEF signal_time, InTick
<1>2. k.tmo[t] = 0 /\ TSTAT_WAITING(k.tstat[t]) /\ k.tstat[t] \in TStat
  BY <1>1 DEF signal_time, Due, Base, TimersOK, KernelState
<1>3. Retimed(k, S, t, -1)
  BY <1>1, SetTmo
<1>4. k' = IF TS_WAIT_DLY \in k.tstat[t] THEN wait_tmout_ok(S, t)
           ELSE wait_tmout(S, t)
  BY DEF signal_time
<1>5. t \in X /\ X \ {t} = {} /\ -1 \in Int /\ -1 >= -1 /\ -1 # 0
  OBVIOUS
<1> HIDE DEF S, X
<1>6. CASE TS_WAIT_DLY \in k.tstat[t]
  <2> DEFINE r == make_non_wait([S EXCEPT !.wercd[t] = "E_OK"], t)
  <2>1. k' = RequestIf(r)
    BY <1>4, <1>6 DEF wait_tmout_ok
  <2>2. BaseBut(k, X)
    BY <1>1, <1>2, <1>6, ObjectWaitFacts, BaseIsBut, NotQueued DEF X
  <2>3. BaseBut(S, X) /\ Ready(S) = Ready(k)
    BY <1>3, <1>5, <2>2, Dequeued
  <2>4. S.tmo[t] = -1 /\ Prepared(k, S)
    BY <1>3, <2>3 DEF Retimed, Prepared
  <2>5. ReadiedBut(S, X \ {t}, r)
    BY <1>5, <2>3, <2>4, EndWait
  <2> HIDE DEF r
  <2>6. Readied(k, r)
    BY <1>5, <2>4, <2>5, BaseIsBut, ReadiedFrom DEF Readied
  <2>7. Step(k, RequestIf(r))
    BY <1>1, <2>6, RequestIfStep DEF Readied
  <2> QED
    BY <2>1, <2>7
<1>7. CASE TS_WAIT_DLY \notin k.tstat[t]
  <2> DEFINE D == wait_dequeue_wobj(S, t)
             r == make_non_wait([D EXCEPT !.wercd[t] = "E_TMOUT"], t)
  <2>1. k' = RequestIf(r)
    BY <1>4, <1>7 DEF wait_tmout
  <2>2. BaseBut(S, {}) /\ Ready(S) = Ready(k)
    BY <1>1, <1>2, <1>3, <1>5, <1>7, BaseIsBut, Dequeued
  <2>3. TSTAT_WAITING(S.tstat[t]) /\ S.tmo[t] = -1
    BY <1>2, <1>3 DEF Retimed
  <2>4. BaseBut(D, X) /\ Ready(D) = Ready(S) /\ Alike(S, D)
    BY <2>2, <2>3, DequeueWobj DEF X
  <2> HIDE DEF D
  <2>5. D.tmo[t] = -1 /\ Prepared(k, D)
    BY <1>3, <2>2, <2>3, <2>4 DEF Alike, Retimed, Prepared, Frame
  <2>6. ReadiedBut(D, X \ {t}, r)
    BY <1>5, <2>4, <2>5, EndWait
  <2> HIDE DEF r
  <2>7. Readied(k, r)
    BY <1>5, <2>5, <2>6, BaseIsBut, ReadiedFrom DEF Readied
  <2>8. Step(k, RequestIf(r))
    BY <1>1, <2>7, RequestIfStep DEF Readied
  <2> QED
    BY <2>1, <2>8
<1> QED
  BY <1>6, <1>7

-----------------------------------------------------------------------------
(* The whole kernel.                                                       *)

LEMMA NextStep ==
  ASSUME KernelInv(k), Next
  PROVE  Step(k, k')
<1>1. CASE TaskServices
  BY <1>1, ActTsk, CanAct, TerTsk, RasTex, ChgPri, RotRdq, ExtTsk, CpuLock,
     HoldDispatching, EnaDsp, ChgIpmEnaall, DisTex, EnaTex, TexrtnReturn
     DEF TaskServices
<1>2. CASE HandlerServices
  BY <1>2, IactTsk, IrasTex, IrotRdq DEF HandlerServices
<1>3. CASE Kernel
  <2>1. ASSUME int_return
        PROVE  Step(k, k')
    BY <2>1, EndHandler DEF int_return, IntCtxUnl
  <2> QED
    BY <1>3, <2>1, InitializeTask, StartDispatch, IntEntry, IdleLoop DEF Kernel
<1> QED
  BY <1>1, <1>2, <1>3 DEF Next

LEMMA SyncNextStep ==
  ASSUME KernelInv(k), SyncNext
  PROVE  Step(k, k')
<1>1. CASE Next
  BY <1>1, NextStep
<1>2. CASE SyncServices
  BY <1>2, SlpTsk, WupTsk, CanWup, RelWai, SusTsk, RsmTsk DEF SyncServices
<1>3. CASE SyncHandlerServices
  BY <1>3, IwupTsk, IrelWai DEF SyncHandlerServices
<1>4. CASE Tick
  <2>1. ASSUME tick_return
        PROVE  Step(k, k')
    BY <2>1, EndHandler DEF tick_return, InTick
  <2> QED
    BY <1>4, <2>1, TickEntry, SignalTime DEF Tick
<1> QED
  BY <1>1, <1>2, <1>3, <1>4 DEF SyncNext, Next

LEMMA InitInv == Init => KernelInv(k)
<1> SUFFICES ASSUME Init PROVE KernelInv(k)
  OBVIOUS
<1>1. k = KernelInit
  BY DEF Init
<1>2. k \in KernelState
  <2>1. <<>> \in Seq(BOOLEAN) /\ <<>> \in Seq(Tasks) /\ <<>> \in Seq({"int", "tick"})
    OBVIOUS
  <2>2. TS_DORMANT \in TStat /\ ipriority \in [Tasks -> Pri] /\ -1 \in Int
    BY TaskAssumption DEF TStat
  <2> QED
    BY <1>1, <2>1, <2>2 DEF KernelInit, KernelState
<1>3. /\ k.readyq = [p \in Pri |-> <<>>] /\ k.primap = {} /\ k.schedtsk = NULL
      /\ k.tstat = [t \in Tasks |-> TS_DORMANT]
      /\ k.tmo = [t \in Tasks |-> -1]
      /\ k.texlp = [t \in Tasks |-> FALSE]
      /\ k.runtsk = NULL /\ k.handlers = <<>> /\ k.dspflg = TRUE
      /\ k.disdsp = FALSE /\ k.ipmflg = TRUE /\ k.reqflg = FALSE /\ k.ini = 1
  BY <1>1 DEF KernelInit
<1>4. Core(k) /\ Ready(k) = {}
  BY <1>2, <1>3 DEF Core, QueuesOK, SchedOK, Ready, Linked, Unique
<1>5. ~TSTAT_RUNNABLE(TS_DORMANT)
  BY DEF TSTAT_RUNNABLE, TS_DORMANT
<1>5a. k.waitq = [w \in WaitQueues |-> <<>>]
  BY <1>1 DEF KernelInit
<1>5b. Waits(k, {})
  <2>1. \A w \in WaitQueues :
          QueueOK(k.waitq[w], w, k.priority) /\ \A y : ~Linked(k.waitq[w], y)
    BY <1>5a, EmptyQueue
  <2>2. QueuedOK(k.waitq, k.priority) /\ \A y : ~InQueue(k.waitq, y)
    BY <1>5a, <2>1 DEF QueuedOK, InQueue
  <2>3. \A t \in Tasks : \A w \in TA_TPRI : ~Linked(k.waitq[w], t)
    BY <2>1, WaitAssumption
  <2>4. \A t \in Tasks : k.tstat[t] = TS_DORMANT /\ k.tmo[t] = -1
    BY <1>3
  <2> QED
    BY <2>2, <2>3, <2>4, ObjectWaitFacts DEF Waits, WaitOK
<1>6. Base(k)
  <2>1. RunnableOK(k)
    BY <1>3, <1>4, <1>5 DEF RunnableOK
  <2>2. TimersOK(k) /\ TexFramesOK(k)
    BY <1>3 DEF TimersOK, TexFramesOK
  <2>3. FlagsOK(k)
    BY <1>3 DEF FlagsOK
  <2> QED
    BY <1>4, <1>5b, <2>1, <2>2, <2>3 DEF Base
<1>7. Starting(k)
  <2>1. \A i \in DOMAIN torder : torder[i] \in Tasks
    BY TaskManageAssumption
  <2> QED
    BY <1>3, <2>1 DEF Starting
<1> QED
  BY <1>3, <1>6, <1>7 DEF KernelInv

(* The invariant is inductive.                                             *)
LEMMA SyncInv == SyncSpec => []KernelInv(k)
<1>1. KernelInv(k) /\ [SyncNext]_k => KernelInv(k)'
  <2>1. CASE SyncNext
    BY <2>1, SyncNextStep DEF Step
  <2>2. CASE UNCHANGED k
    BY <2>2
  <2> QED
    BY <2>1, <2>2
<1> QED
  BY InitInv, <1>1, PTL DEF SyncSpec

(* What can be seen of a state that satisfies the invariant.               *)
LEMMA InvImplies ==
  KernelInv(k) => TypeOK /\ ReadyQueuesOK /\ DispatchOK /\ DspflgOK
<1> SUFFICES ASSUME KernelInv(k)
             PROVE  TypeOK /\ ReadyQueuesOK /\ DispatchOK /\ DspflgOK
  OBVIOUS
<1>1. TypeOK /\ ReadyQueuesOK /\ DspflgOK
  BY DEF KernelInv, Base, Core, FlagsOK, TypeOK, ReadyQueuesOK, DspflgOK
<1>2. ASSUME k.ini = 0
      PROVE  /\ k.dspflg /\ k.runtsk # k.schedtsk =>
                  k.reqflg /\ (k.handlers # <<>> \/ k.runtsk = NULL)
             /\ k.runtsk = NULL => k.dspflg
             /\ TskCtx => ~k.reqflg
             /\ k.runtsk # NULL => TSTAT_RUNNABLE(k.tstat[k.runtsk])
  BY <1>2 DEF KernelInv, Switched, TskCtx, Base, RunnableOK
<1> QED
  BY <1>1, <1>2 DEF DispatchOK

LEMMA InvLinks == KernelInv(k) => WaitLinksOK
<1> SUFFICES ASSUME KernelInv(k) PROVE WaitLinksOK
  OBVIOUS
<1>1. /\ QueuedOK(k.waitq, k.priority) /\ TimersOK(k)
      /\ \A t \in Tasks : WaitOK(k, {}, t)
  BY DEF KernelInv, Base, Waits
<1>2. ASSUME NEW w \in WaitQueues
      PROVE  /\ Unique(k.waitq[w])
             /\ w \in TA_TPRI => Sorted(k.waitq[w], k.priority)
  BY <1>1 DEF QueuedOK, QueueOK
<1>3. ASSUME NEW t \in Tasks
      PROVE  LET linked == {w \in WaitQueues : Linked(k.waitq[w], t)}
             IN /\ linked # {} <=> TSTAT_WAIT_WOBJ(k.tstat[t])
                /\ \A v, w \in linked : v = w
                /\ k.tmo[t] # -1 => TSTAT_WAITING(k.tstat[t])
                /\ TS_WAIT_DLY \in k.tstat[t] => k.tmo[t] # -1
                /\ k.tmo[t] = 0 => "tick" \in ToSet(k.handlers)
  <2> DEFINE linked == {w \in WaitQueues : Linked(k.waitq[w], t)}
  <2>1. WaitOK(k, {}, t)
    BY <1>1
  <2>2. linked # {} <=> InQueue(k.waitq, t)
    BY DEF InQueue
  <2>3. \A v, w \in linked : v = w
    BY <1>1 DEF QueuedOK
  <2>4. k.tmo[t] = 0 => "tick" \in ToSet(k.handlers)
    BY <2>1 DEF WaitOK, Linked, ToSet
  <2> HIDE DEF linked
  <2>5. /\ linked # {} <=> TSTAT_WAIT_WOBJ(k.tstat[t])
        /\ TS_WAIT_DLY \in k.tstat[t] => k.tmo[t] # -1
    BY <2>1, <2>2 DEF WaitOK
  <2>6. k.tmo[t] # -1 => TSTAT_WAITING(k.tstat[t])
    BY <1>1 DEF TimersOK
  <2> QED
    BY <2>3, <2>4, <2>5, <2>6 DEF linked
<1> QED
  BY <1>2, <1>3 DEF WaitLinksOK, Sorted

(* A step of the kernel without the services of task_sync.c is one of the  *)
(* kernel with them.                                                       *)
LEMMA SpecIsSync == Spec => SyncSpec
<1>1. [Next]_k => [SyncNext]_k
  BY DEF Next, SyncNext
<1> QED
  BY <1>1, PTL DEF Spec, SyncSpec

-----------------------------------------------------------------------------
(* Every variable of the kernel always has its type.                       *)
THEOREM SyncTypeOK == SyncSpec => []TypeOK
BY SyncInv, InvImplies, PTL

(* The ready queues, the bitmap and p_schedtsk are consistent at any time, *)
(* for any number of tasks and of priorities (task.c).                     *)
THEOREM SyncReadyQueuesOK == SyncSpec => []ReadyQueuesOK
BY SyncInv, InvImplies, PTL

(* No dispatch is forgotten, neither by a service call nor by a handler,   *)
(* however handlers nest (task.c, interrupt.c, prc_support.S).             *)
THEOREM SyncDispatchOK == SyncSpec => []DispatchOK
BY SyncInv, InvImplies, PTL

(* dspflg always is the summary of ipmflg and disdsp (task.h).             *)
THEOREM SyncDspflgOK == SyncSpec => []DspflgOK
BY SyncInv, InvImplies, PTL

(* A task is linked in a wait queue exactly while it waits for an object,  *)
(* in one, once and in the order of the queue; only a task that waits has  *)
(* a time event, a delayed one always has, and none is due outside the     *)
(* tick (wait.c, wait.h, task.c: change_priority).                         *)
THEOREM SyncWaitLinksOK == SyncSpec => []WaitLinksOK
BY SyncInv, InvLinks, PTL

(* The same for the kernel of TaskManage.tla.                              *)
THEOREM ManageInvariants ==
  Spec => [](TypeOK /\ ReadyQueuesOK /\ DispatchOK /\ DspflgOK)
BY SpecIsSync, SyncInv, InvImplies, PTL

-----------------------------------------------------------------------------
(* The kernel implements PrioritySched.                                    *)

(* When nothing holds dispatching back, a first task runs.                 *)
LEMMA RunsFirst == KernelInv(k) /\ ~Held => Sched!RunsTop
<1> SUFFICES ASSUME KernelInv(k), ~Held
             PROVE  Sched!RunsTop
  OBVIOUS
<1>1. /\ k \in KernelState /\ QueuesOK(k) /\ SchedOK(k) /\ Switched(k)
      /\ k.dspflg /\ k.handlers = <<>>
      /\ ~(k.runtsk = NULL /\ k.reqflg)
  BY DEF Held, KernelInv, Base, Core
<1>2. k.runtsk = k.schedtsk
  BY <1>1 DEF Switched
<1>3. CASE k.schedtsk = NULL
  BY <1>1, <1>2, <1>3, SchedTop DEF Sched!RunsTop
<1>4. CASE k.schedtsk # NULL
  <2>1. /\ k.schedtsk \in Ready(k)
        /\ \A x \in Ready(k) : k.priority[k.schedtsk] <= k.priority[x]
    BY <1>1, <1>4, SchedTop
  <2>2. Ready(k) # {}
    BY <2>1
  <2> QED
    BY <1>2, <2>1, <2>2 DEF Sched!RunsTop, Sched!Top
<1> QED
  BY <1>3, <1>4

LEMMA SchedTypes ==
  KernelInv(k) => /\ Ready(k) \in SUBSET Tasks
                  /\ k.priority \in [Tasks -> 0 .. TNUM_TPRI - 1]
                  /\ Held \in BOOLEAN
<1> SUFFICES ASSUME KernelInv(k)
             PROVE  /\ Ready(k) \in SUBSET Tasks
                    /\ k.priority \in [Tasks -> 0 .. TNUM_TPRI - 1]
                    /\ Held \in BOOLEAN
  OBVIOUS
<1>1. Ready(k) \in SUBSET Tasks
  BY DEF Ready
<1>2. k.priority \in [Tasks -> 0 .. TNUM_TPRI - 1]
  BY DEF KernelInv, Base, Core, KernelState, Pri
<1>3. Held \in BOOLEAN
  BY DEF Held
<1> QED
  BY <1>1, <1>2, <1>3

(* What the steps of PrioritySched need to know of the states around them. *)
Mapped ==
  /\ KernelInv(k)
  /\ ~Held => Sched!RunsTop
  /\ Ready(k) \in SUBSET Tasks
  /\ k.priority \in [Tasks -> 0 .. TNUM_TPRI - 1]
  /\ Held \in BOOLEAN
  /\ Free(k) => ~Held

LEMMA SyncMapped == SyncSpec => []Mapped
<1>1. KernelInv(k) => Mapped
  <2>1. Free(k) => ~Held
    BY DEF Free, Held
  <2> QED
    BY <2>1, RunsFirst, SchedTypes DEF Mapped
<1> QED
  BY <1>1, SyncInv, PTL

LEMMA SchedInit == Init => Sched!Init
<1> SUFFICES ASSUME Init PROVE Sched!Init
  OBVIOUS
<1>1. KernelInv(k) /\ k = KernelInit
  BY InitInv DEF Init
<1>2. k.runtsk = NULL /\ k.ini = 1 /\ \A p \in Pri : k.readyq[p] = <<>>
  BY <1>1 DEF KernelInit
<1>3. Ready(k) = {}
  BY <1>2 DEF Ready, Linked
<1>4. Held = TRUE
  BY <1>2 DEF Held
<1> QED
  BY <1>1, <1>2, <1>3, <1>4, SchedTypes DEF Sched!Init

(* The task that runs only changes to a ready task of the highest          *)
(* priority, and does so as soon as dispatching is not held back, for any  *)
(* number of tasks, priorities and nested handlers.                        *)
THEOREM SyncSchedules == SyncSpec => SchedulesByPriority
<1>1. ASSUME Mapped, Mapped', [SyncNext]_k
      PROVE  [Sched!Next]_Sched!vars
  <2>1. CASE UNCHANGED k
    <3>1. /\ Ready(k)' = Ready(k) /\ k'.priority = k.priority
          /\ k'.runtsk = k.runtsk /\ Held' = Held
      BY <2>1 DEF Ready, Held, Linked
    <3> QED
      BY <3>1 DEF Sched!vars
  <2>2. CASE SyncNext
    <3>1. k'.runtsk = k.runtsk \/ Free(k')
      BY <1>1, <2>2, SyncNextStep DEF Mapped, Step
    <3>2. Sched!Change
      BY <1>1 DEF Mapped, Sched!Change
    <3>3. CASE ~Held'
      BY <1>1, <3>2, <3>3 DEF Mapped, Sched!Next, Sched!Dispatch
    <3>4. CASE Held'
      <4>1. k'.runtsk = k.runtsk /\ Held' = TRUE
        BY <1>1, <3>1, <3>4 DEF Mapped
      <4> QED
        BY <3>2, <4>1 DEF Sched!Next, Sched!Keep
    <3> QED
      BY <3>3, <3>4
  <2> QED
    BY <1>1, <2>1, <2>2
<1> QED
  BY <1>1, SyncMapped, SchedInit, PTL
     DEF SyncSpec, SchedulesByPriority, Sched!Spec

(* The same for the kernel of TaskManage.tla.                              *)
THEOREM ManageSchedules == Spec => SchedulesByPriority
BY SpecIsSync, SyncSchedules, PTL

-----------------------------------------------------------------------------
(* Tasks that come to the queue of an object and leave it.                 *)

(* A task is made to wait for an object: reason, in the queue w of it.     *)
MayQueue(w, reason) ==
  /\ w \in WaitQueues /\ reason \in TS_WAIT_WOBJ
  /\ w \in TA_TPRI => reason \in TS_WAIT_WOBJCB

(* Only the queue w is changed: t has come to it.                          *)
Joins(S, R, w, t) ==
  /\ \A v \in WaitQueues \ {w} : R.waitq[v] = S.waitq[v]
  /\ \A y : Linked(R.waitq[w], y) <=> Linked(S.waitq[w], y) \/ y = t

Queued(S, R, w, t) == Base(R) /\ Frame(S, R) /\ Joins(S, R, w, t)

(* wobj_queue_insert, for a task that waits and is in no queue yet.        *)
LEMMA QueueInsert ==
  ASSUME NEW S, NEW X, BaseBut(S, X), NEW t, X = {t}, S.runtsk = t,
         NEW w, NEW reason, MayQueue(w, reason),
         S.tstat[t] = TS_WAITING(reason),
         NEW R, R = wobj_queue_insert(S, w)
  PROVE  Queued(S, R, w, t)
<1> DEFINE q == S.waitq[w]
           r == IF w \in TA_TPRI THEN queue_insert_tpri(S, q, t)
                ELSE queue_insert_prev(q, t)
           P == [S.waitq EXCEPT ![w] = r]
<1>1. /\ S \in KernelState /\ Waits(S, X) /\ t \in Tasks /\ WaitOK(S, X, t)
      /\ QueuedOK(S.waitq, S.priority) /\ t \in X
      /\ S.priority \in [Tasks -> Pri] /\ w \in WaitQueues
  BY DEF BaseBut, Core, KernelState, Waits, MayQueue
<1>2. ~InQueue(S.waitq, t) /\ S.tmo[t] >= -1
      /\ (S.tmo[t] = 0 => Linked(S.handlers, "tick"))
  BY <1>1 DEF WaitOK
<1>3. R = WithWaitq(S, w, r)
  BY DEF wobj_queue_insert, WithWaitq
<1>4. QueueOK(q, w, S.priority) /\ ~Linked(q, t)
  BY <1>1, <1>2 DEF QueuedOK, InQueue
<1> HIDE DEF q
<1>5. QueueOK(r, w, S.priority) /\ \A y : Linked(r, y) <=> Linked(q, y) \/ y = t
  BY <1>1, <1>4, InsertWaiting
<1> HIDE DEF r
<1>6. Alike(S, R) /\ R.waitq = P
  BY <1>1, <1>3, <1>5, SetWaitq DEF QueueOK
<1>7. Moved(S.waitq, w, r, P)
  BY <1>2, <1>5 DEF Moved, q
<1> HIDE DEF P
<1>8. /\ QueuedOK(P, S.priority)
      /\ P[w] = r /\ \A v \in WaitQueues : v # w => P[v] = S.waitq[v]
      /\ \A y : InQueue(P, y) <=> \/ Linked(r, y)
                                  \/ InQueue(S.waitq, y) /\ ~Linked(S.waitq[w], y)
  BY <1>1, <1>5, <1>7, SetQueue
<1>9. Joins(S, R, w, t)
  BY <1>5, <1>6, <1>8 DEF Joins, q
<1>10. /\ InQueue(P, t) /\ \A v \in TA_TPRI : Linked(P[v], t) => v = w
       /\ \A u \in Tasks \ {t} :
            /\ InQueue(P, u) <=> InQueue(S.waitq, u)
            /\ \A v \in TA_TPRI : Linked(P[v], u) => Linked(S.waitq[v], u)
  BY <1>1, <1>2, <1>5, <1>8, WaitAssumption DEF InQueue, q
<1>11. Waits(R, {})
  <2> DEFINE Y == {}
  <2>1. Y \in SUBSET Tasks /\ t \notin Y /\ \A u \in Tasks \ {t} : u \in Y <=> u \in X
    OBVIOUS
  <2>2. /\ R.waitq = P /\ R.priority = S.priority /\ R.tstat = S.tstat
        /\ R.tmo = S.tmo /\ R.handlers = S.handlers
    BY <1>6 DEF Alike, Frame
  <2>3. /\ TSTAT_WAIT_WOBJ(S.tstat[t]) /\ TS_WAIT_DLY \notin S.tstat[t]
        /\ w \in TA_TPRI => TSTAT_WAIT_WOBJCB(S.tstat[t])
    <3>1. reason \in WaitReason /\ reason # TS_WAIT_DLY
      BY DEF MayQueue, WaitReason, TS_WAIT_WOBJ, TS_WAIT_WOBJCB, TS_WAIT_DLY
    <3> QED
      BY <3>1, WaitFacts DEF MayQueue
  <2> HIDE DEF Y
  <2>4. WaitOK(R, Y, t)
    BY <1>2, <1>10, <2>1, <2>2, <2>3 DEF WaitOK
  <2>5. OthersWait(S, X, R, Y, t)
    BY <1>10, <2>1, <2>2 DEF OthersWait
  <2>6. QueuedOK(R.waitq, R.priority)
    BY <1>8, <2>2
  <2>7. Waits(R, Y)
    BY <1>1, <2>1, <2>2, <2>4, <2>5, <2>6, WaitsMove
  <2> QED
    BY <2>7 DEF Y
<1>12. BaseBut(R, {})
  BY <1>6, <1>11, AlikeBut
<1> QED
  BY <1>6, <1>9, <1>12, BaseIsBut DEF Queued, Alike

(* wobj_make_wait and wobj_make_wait_tmout by the running task.            *)
LEMMA QueueWait ==
  ASSUME NEW S, Base(S), NEW t, S.runtsk = t, t \in Tasks,
         TSTAT_RUNNABLE(S.tstat[t]),
         NEW w, NEW reason, MayQueue(w, reason),
         NEW tmout \in Nat \cup {TMO_FEVR},
         NEW R, \/ R = wobj_make_wait_tmout(S, reason, w, tmout)
                \/ R = wobj_make_wait(S, reason, w)
  PROVE  Queued(S, R, w, t)
<1> DEFINE V == make_wait(S, reason)
           W == IF R = wobj_make_wait(S, reason, w) THEN V
                ELSE make_wait_tmout(S, reason, tmout)
           X == {t}
<1>1. X = {S.runtsk} /\ t \in X /\ reason \in WaitReason
  BY DEF MayQueue, WaitReason
<1>2. R = wobj_queue_insert(W, w)
  BY DEF wobj_make_wait, wobj_make_wait_tmout
<1>3. W = V \/ (tmout \in Nat /\ W = tmevtb_enqueue(V, t, tmout))
  BY DEF make_wait_tmout, TMO_FEVR
<1> HIDE DEF X, V
<1>4. /\ BaseBut(V, X) /\ Frame(S, V)
      /\ V.tstat = [S.tstat EXCEPT ![t] = TS_WAITING(reason)]
      /\ V.waitq = S.waitq
  BY <1>1, MakeWait DEF V
<1>5. V.tstat[t] = TS_WAITING(reason) /\ V.runtsk = t
  BY <1>4 DEF Base, Core, KernelState, Frame
<1> HIDE DEF W
<1>6. /\ BaseBut(W, X) /\ Frame(S, W) /\ W.tstat[t] = TS_WAITING(reason)
      /\ W.waitq = S.waitq /\ W.runtsk = t
  <2>1. CASE W = V
    BY <1>4, <1>5, <2>1
  <2>2. CASE tmout \in Nat /\ W = tmevtb_enqueue(V, t, tmout)
    <3>1. BaseBut(W, X) /\ Retimed(V, W, t, tmout + 1)
      BY <1>1, <1>4, <2>2, EnqueueTmevtb
    <3> QED
      BY <1>4, <1>5, <3>1 DEF Retimed, Frame
  <2> QED
    BY <1>3, <2>1, <2>2
<1>7. Queued(W, R, w, t)
  <2>1. X = {t}
    BY DEF X
  <2> QED
    BY <1>2, <1>6, <2>1, QueueInsert
<1> QED
  BY <1>6, <1>7 DEF Queued, Frame, Joins

-----------------------------------------------------------------------------
(* The end of a wait for an object.                                        *)

(* A task leaves the queue w, of which q is left, and its wait ends.       *)
Taken(S, w, q, r) ==
  Readied(S, r) /\ r.st.waitq = [S.waitq EXCEPT ![w] = q]

LEMMA TakeOut ==
  ASSUME NEW S, Base(S), NEW w \in WaitQueues, NEW t \in Tasks,
         Linked(S.waitq[w], t), NEW q, QueueOK(q, w, S.priority),
         TakenFrom(S.waitq[w], t, q),
         NEW e \in {"E_OK", "E_RLWAI", "E_TMOUT", "E_DLT"},
         NEW U, U = WithWaitq(S, w, q), NEW D, D = wait_dequeue_tmevtb(U, t),
         NEW r, r = make_non_wait([D EXCEPT !.wercd[t] = e], t)
  PROVE  Taken(S, w, q, r)
<1> DEFINE N == {}
           X == N \cup {t}
<1>1. BaseBut(S, N) /\ t \in X /\ X \ {t} = N
  BY BaseIsBut DEF N
<1> HIDE DEF N
<1>2. UnlinkedFrom(S, N, w, t, q, U)
  BY <1>1, Unlink
<1>3. /\ BaseBut(U, X) /\ Ready(U) = Ready(S) /\ Alike(S, U)
      /\ U.waitq = [S.waitq EXCEPT ![w] = q]
  BY <1>2 DEF UnlinkedFrom
<1> HIDE DEF X
<1>4. BaseBut(D, X) /\ Ready(D) = Ready(U) /\ Retimed(U, D, t, -1)
  BY <1>1, <1>3, DequeueTmevtb
<1>5. D.tmo[t] = -1 /\ Prepared(S, D) /\ D.waitq = U.waitq
  BY <1>3, <1>4 DEF Retimed, Prepared, Alike, Frame
<1>6. ReadiedBut(D, X \ {t}, r)
  BY <1>1, <1>4, <1>5, EndWait
<1>7. ReadiedBut(D, N, r)
  BY <1>1, <1>6
<1>8. BaseBut(r.st, N) /\ Frame(S, r.st) /\ Tells(S, r)
      /\ Ready(S) \subseteq Ready(r.st)
  BY <1>5, <1>7, ReadiedFrom
<1> QED
  BY <1>3, <1>5, <1>7, <1>8, BaseIsBut DEF Taken, Readied, ReadiedBut, N

(* The first task of a queue.                                              *)
LEMMA TakeFirst ==
  ASSUME NEW S, Base(S), NEW w \in WaitQueues, ~queue_empty(S.waitq[w]),
         NEW q, q = queue_delete_next(S.waitq[w]),
         NEW r, r = CompleteFirst(S, w) \/ r = release_first(S, w)
  PROVE  Taken(S, w, q, r)
<1> DEFINE t == Head(S.waitq[w])
           U == WithWaitq(S, w, q)
           D == wait_dequeue_tmevtb(U, t)
           e == IF r = CompleteFirst(S, w) THEN "E_OK" ELSE "E_DLT"
<1>1. QueueOK(S.waitq[w], w, S.priority)
  BY DEF Base, Waits, QueuedOK
<1>2. /\ t \in Tasks /\ Linked(S.waitq[w], t)
      /\ QueueOK(q, w, S.priority) /\ TakenFrom(S.waitq[w], t, q)
  BY <1>1, FirstWaiting DEF TakenFrom
<1>3. U = [S EXCEPT !.waitq[w] = queue_delete_next(@)]
  BY DEF WithWaitq
<1>4. r = make_non_wait([D EXCEPT !.wercd[t] = e], t)
  BY <1>3 DEF CompleteFirst, release_first, wait_complete
<1>5. e \in {"E_OK", "E_RLWAI", "E_TMOUT", "E_DLT"}
  OBVIOUS
<1> HIDE DEF t, U, D, e
<1>6. U = WithWaitq(S, w, q) /\ D = wait_dequeue_tmevtb(U, t)
  BY DEF U, D
<1> QED
  BY <1>2, <1>4, <1>5, <1>6, TakeOut

(* One after the other.                                                    *)
LEMMA ReadiedTrans ==
  ASSUME NEW S, NEW a, NEW b, Readied(S, a), Readied(a.st, b),
         NEW r, r = [st |-> b.st, dsp |-> a.dsp \/ b.dsp]
  PROVE  Readied(S, r)
<1>1. r.st = b.st /\ r.dsp = (a.dsp \/ b.dsp)
  OBVIOUS
<1>2. a.dsp \in BOOLEAN /\ b.dsp \in BOOLEAN
  BY DEF Readied, Tells
<1>3. Base(r.st) /\ Frame(S, r.st) /\ Ready(S) \subseteq Ready(r.st)
  BY <1>1 DEF Readied, Frame
<1>4. Tells(S, r)
  BY <1>1, <1>2 DEF Readied, Tells, Frame
<1> QED
  BY <1>3, <1>4 DEF Readied

LEMMA ReadiedNone ==
  ASSUME NEW S, Base(S), NEW r, r = [st |-> S, dsp |-> FALSE]
  PROVE  Readied(S, r)
<1>1. r.st = S /\ r.dsp = FALSE
  OBVIOUS
<1> QED
  BY <1>1 DEF Readied, Tells, Frame

-----------------------------------------------------------------------------
(* The loops over a queue.                                                 *)

(* What holds of 0, and of n + 1 when it does of n, holds of every number. *)
LEMMA SetInduction ==
  ASSUME NEW A, 0 \in A, \A n \in Nat : n \in A => n + 1 \in A
  PROVE  Nat \subseteq A
<1> DEFINE R == OpToRel(<, Nat)
           T == Nat \ A
<1>1. IsWellFoundedOn(R, Nat)
  BY NatLessThanWellFounded
<1>2. \A x, y \in Nat : y < x => <<y, x>> \in R
  BY DEF OpToRel
<1> HIDE DEF R
<1>3. SUFFICES ASSUME T # {} PROVE FALSE
  OBVIOUS
<1>4. PICK x \in T : \A y \in T : ~(<<y, x>> \in R)
  BY <1>1, <1>3, WFMin
<1>5. x \in Nat /\ x # 0 /\ x - 1 \in Nat /\ x - 1 < x
  OBVIOUS
<1>6. x - 1 \in A
  BY <1>2, <1>4, <1>5
<1> QED
  BY <1>5, <1>6

(* A set of numbers has a least one.                                       *)
LEMMA LeastOf ==
  ASSUME NEW T, T \subseteq Nat, T # {}
  PROVE  \E x \in T : \A y \in T : x <= y
<1> DEFINE R == OpToRel(<, Nat)
<1>1. IsWellFoundedOn(R, Nat)
  BY NatLessThanWellFounded
<1>2. \A x, y \in Nat : y < x => <<y, x>> \in R
  BY DEF OpToRel
<1> HIDE DEF R
<1>3. PICK x \in T : \A y \in T : ~(<<y, x>> \in R)
  BY <1>1, WFMin
<1>4. \A y \in T : ~(y < x)
  BY <1>2, <1>3
<1> QED
  BY <1>4

(* init_wait_queue.                                                        *)
LEMMA ReleaseLoop ==
  ASSUME NEW S, NEW w, NEW N \in Nat, N = Len(S.waitq[w])
  PROVE  \E done :
           /\ done[0] = [st |-> S, dsp |-> FALSE] /\ done[N] = init_wait_queue(S, w)
           /\ \A i \in 1 .. N :
                LET r == release_first(done[i - 1].st, w)
                IN done[i] = [st |-> r.st, dsp |-> done[i - 1].dsp \/ r.dsp]
<1> DEFINE Body(R, i) == release_first(R, w)
           Round(g, i) == IF i = 0 THEN [st |-> S, dsp |-> FALSE]
                         ELSE LET r == Body(g[i - 1].st, i)
                              IN [st |-> r.st, dsp |-> g[i - 1].dsp \/ r.dsp]
           F(g) == [i \in 0 .. N |-> Round(g, i)]
           Good(m, g) == \A i \in 0 .. m : g[i] = Round(g, i)
           A == {m \in Nat : m <= N => \E g : Good(m, g)}
           h == CHOOSE x : x = F(x)
<1>1. init_wait_queue(S, w) = h[N]
  BY DEF init_wait_queue, Repeat
<1>2. 0 \in A
  <2>1. Good(0, [i \in {0} |-> [st |-> S, dsp |-> FALSE]])
    OBVIOUS
  <2> HIDE DEF Good
  <2> QED
    BY <2>1
<1>3. ASSUME NEW m \in Nat, m \in A, m + 1 <= N
      PROVE  \E g : Good(m + 1, g)
  <2>1. PICK g : Good(m, g)
    <3>1. m <= N
      BY <1>3
    <3> HIDE DEF Good
    <3> QED
      BY <1>3, <3>1
  <2> DEFINE e == [j \in 0 .. m + 1 |-> IF j = m + 1 THEN Round(g, j) ELSE g[j]]
  <2>2. \A j \in 0 .. m + 1 : Round(e, j) = Round(g, j)
    <3>1. \A j \in 0 .. m + 1 : j = 0 \/ j - 1 \in 0 .. m
      OBVIOUS
    <3>2. \A j \in 0 .. m : e[j] = g[j]
      OBVIOUS
    <3> HIDE DEF e, Body
    <3> QED
      BY <3>1, <3>2
  <2> HIDE DEF Round
  <2>3. \A j \in 0 .. m + 1 : e[j] = Round(g, j)
    <3>1. \A j \in 0 .. m + 1 : j = m + 1 \/ j \in 0 .. m
      OBVIOUS
    <3>2. \A j \in 0 .. m : g[j] = Round(g, j)
      BY <2>1
    <3> QED
      BY <3>1, <3>2
  <2> HIDE DEF e
  <2>4. Good(m + 1, e)
    BY <2>2, <2>3
  <2> HIDE DEF Good
  <2> QED
    BY <2>4
<1>4. Nat \subseteq A
  <2>1. \A m \in Nat : m \in A => m + 1 \in A
    <3> HIDE DEF Good
    <3> QED
      BY <1>3
  <2> HIDE DEF A
  <2> QED
    BY <1>2, <2>1, SetInduction
<1>5. PICK g : Good(N, g)
  <2>1. N \in A
    BY <1>4
  <2> HIDE DEF Good
  <2> QED
    BY <2>1
<1>6. h = F(h)
  <2> DEFINE e == [i \in 0 .. N |-> g[i]]
  <2>1. \A i \in 0 .. N : Round(e, i) = Round(g, i)
    <3>1. \A j \in 0 .. N : j = 0 \/ j - 1 \in 0 .. N
      OBVIOUS
    <3>2. \A j \in 0 .. N : e[j] = g[j]
      OBVIOUS
    <3> HIDE DEF e, Body
    <3> QED
      BY <3>1, <3>2
  <2> HIDE DEF Round
  <2>2. e = F(e)
    BY <1>5, <2>1
  <2> HIDE DEF e, F
  <2> QED
    BY <2>2
<1> HIDE DEF h
<1>7. \A i \in 0 .. N : h[i] = Round(h, i)
  <2> HIDE DEF Round
  <2> QED
    BY <1>6
<1>8. h[0] = [st |-> S, dsp |-> FALSE]
  <2>1. 0 \in 0 .. N
    OBVIOUS
  <2> HIDE DEF Body
  <2> QED
    BY <1>7, <2>1
<1>9. \A i \in 1 .. N :
        LET r == Body(h[i - 1].st, i)
        IN h[i] = [st |-> r.st, dsp |-> h[i - 1].dsp \/ r.dsp]
  <2> HIDE DEF Body
  <2> QED
    BY <1>7
<1> QED
  BY <1>1, <1>8, <1>9

(* Each round finds a task in the queue.                                   *)
Rounds(S, w, n, done) ==
  /\ n \in Nat
  /\ done[0] = [st |-> S, dsp |-> FALSE] /\ done[n] = init_wait_queue(S, w)
  /\ \A i \in 1 .. n :
       LET b == release_first(done[i - 1].st, w)
       IN /\ done[i] = [st |-> b.st, dsp |-> done[i - 1].dsp \/ b.dsp]
          /\ Base(done[i - 1].st) /\ ~queue_empty(done[i - 1].st.waitq[w])

LEMMA ReleaseRounds ==
  ASSUME NEW S, Base(S), NEW w \in WaitQueues, NEW r, r = init_wait_queue(S, w),
         NEW q, q = <<>>
  PROVE  Taken(S, w, q, r) /\ \E n, done : Rounds(S, w, n, done)
<1> DEFINE Q == S.waitq
           N == Len(Q[w])
           Rest(W, i) ==
             /\ W \in [WaitQueues -> Seq(Tasks)]
             /\ Len(W[w]) = N - i
             /\ \A v \in WaitQueues \ {w} : W[v] = Q[v]
           After(d, i) == Readied(S, d) /\ Rest(d.st.waitq, i)
<1>1. Q \in [WaitQueues -> Seq(Tasks)] /\ N \in Nat
  <2>1. Q \in [WaitQueues -> Seq(Tasks)]
    BY DEF Base, Core, KernelState
  <2> QED
    BY <2>1, LenProperties
<1>2. PICK done :
        /\ done[0] = [st |-> S, dsp |-> FALSE] /\ done[N] = r
        /\ \A i \in 1 .. N :
             LET b == release_first(done[i - 1].st, w)
             IN done[i] = [st |-> b.st, dsp |-> done[i - 1].dsp \/ b.dsp]
  <2> DEFINE n == N
  <2>1. n \in Nat /\ n = Len(S.waitq[w])
    BY <1>1
  <2> HIDE DEF n
  <2>2. \E done :
           /\ done[0] = [st |-> S, dsp |-> FALSE] /\ done[n] = init_wait_queue(S, w)
           /\ \A i \in 1 .. n :
                LET b == release_first(done[i - 1].st, w)
                IN done[i] = [st |-> b.st, dsp |-> done[i - 1].dsp \/ b.dsp]
    BY <2>1, ReleaseLoop
  <2> QED
    BY <2>2 DEF n
<1> DEFINE A == {i \in Nat : i <= N => After(done[i], i)}
<1>3. 0 \in A
  <2>1. Readied(S, done[0]) /\ done[0].st = S
    BY <1>2, ReadiedNone
  <2> QED
    BY <1>1, <2>1
<1>4. ASSUME NEW i \in Nat, i + 1 <= N, After(done[i], i)
      PROVE  After(done[i + 1], i + 1)
  <2> DEFINE D == done[i].st
             b == release_first(D, w)
             p == queue_delete_next(D.waitq[w])
  <2>1. Base(D) /\ D.waitq[w] \in Seq(Tasks) /\ Len(D.waitq[w]) = N - i
    BY <1>4 DEF Readied
  <2>2. D.waitq[w] # <<>>
    BY <1>1, <1>4, <2>1, EmptySeq
  <2>3. Taken(D, w, p, b)
    <3> HIDE DEF D, b, p
    <3>1. p = queue_delete_next(D.waitq[w]) /\ b = release_first(D, w)
      BY DEF b, p
    <3> QED
      BY <2>1, <2>2, <3>1, TakeFirst DEF queue_empty
  <2>4. p \in Seq(Tasks) /\ Len(p) = Len(D.waitq[w]) - 1
    BY <2>1, <2>2, HeadTailProperties DEF queue_delete_next
  <2>5. done[i + 1] = [st |-> b.st, dsp |-> done[i].dsp \/ b.dsp]
    <3>1. i + 1 \in 1 .. N /\ (i + 1) - 1 = i
      BY <1>1, <1>4
    <3> QED
      BY <1>2, <3>1
  <2>6. Rest(b.st.waitq, i + 1)
    <3>1. b.st.waitq = [D.waitq EXCEPT ![w] = p]
      BY <2>3 DEF Taken
    <3> HIDE DEF D, b, p
    <3>2. Len(p) = N - (i + 1)
      BY <1>1, <2>1, <2>4
    <3>3. D.waitq \in [WaitQueues -> Seq(Tasks)] /\ \A v \in WaitQueues \ {w} : D.waitq[v] = Q[v]
      BY <1>4 DEF D
    <3> HIDE DEF N, Q
    <3> QED
      BY <2>4, <3>1, <3>2, <3>3
  <2> HIDE DEF b
  <2>7. Readied(S, done[i + 1])
    <3>1. Readied(S, done[i]) /\ Readied(done[i].st, b)
      BY <1>4, <2>3 DEF Taken
    <3> QED
      BY <2>5, <3>1, ReadiedTrans
  <2> QED
    BY <2>5, <2>6, <2>7
<1> HIDE DEF After
<1>5. Nat \subseteq A
  <2>1. \A i \in Nat : i \in A => i + 1 \in A
    BY <1>1, <1>4
  <2> HIDE DEF A
  <2> QED
    BY <1>3, <2>1, SetInduction
<1>6. After(r, N)
  BY <1>1, <1>2, <1>5
<1>7. r.st.waitq = [Q EXCEPT ![w] = q]
  <2>1. Rest(r.st.waitq, N)
    BY <1>6 DEF After
  <2>2. r.st.waitq[w] \in Seq(Tasks) /\ Len(r.st.waitq[w]) = 0
    BY <1>1, <2>1
  <2>3. r.st.waitq[w] = q
    BY <2>2, EmptySeq
  <2> QED
    BY <1>1, <2>1, <2>3
<1>8. ASSUME NEW i \in 1 .. N
      PROVE  Base(done[i - 1].st) /\ ~queue_empty(done[i - 1].st.waitq[w])
  <2> DEFINE j == i - 1
  <2>1. j \in Nat /\ j <= N /\ N - j > 0
    BY <1>1
  <2>2. After(done[j], j)
    BY <1>5, <2>1
  <2> HIDE DEF j, N
  <2>3. Len(done[j].st.waitq[w]) = N - j
    BY <2>2 DEF After
  <2>4. done[j].st.waitq[w] # <<>>
    BY <1>1, <2>1, <2>3, EmptySeq
  <2>5. Base(done[j].st)
    BY <2>2 DEF After, Readied
  <2> QED
    BY <2>4, <2>5 DEF queue_empty, j
<1>9. Rounds(S, w, N, done)
  <2> DEFINE n == N
  <2>1. /\ n \in Nat
        /\ done[0] = [st |-> S, dsp |-> FALSE] /\ done[n] = r
        /\ \A i \in 1 .. n :
             LET b == release_first(done[i - 1].st, w)
             IN /\ done[i] = [st |-> b.st, dsp |-> done[i - 1].dsp \/ b.dsp]
                /\ Base(done[i - 1].st) /\ ~queue_empty(done[i - 1].st.waitq[w])
    BY <1>1, <1>2, <1>8
  <2> HIDE DEF n
  <2>2. Rounds(S, w, n, done)
    BY <2>1 DEF Rounds
  <2> QED
    BY <2>2 DEF n
<1>10. Taken(S, w, q, r)
  BY <1>6, <1>7 DEF Taken, After
<1> QED
  BY <1>9, <1>10

LEMMA ReleaseAll ==
  ASSUME NEW S, Base(S), NEW w \in WaitQueues, NEW r, r = init_wait_queue(S, w),
         NEW q, q = <<>>
  PROVE  Taken(S, w, q, r)
BY ReleaseRounds

-----------------------------------------------------------------------------
(* How a service of an object ends.                                        *)

LEMMA TaskEnds ==
  ASSUME KernelInv(k), TskCtxUnl, NEW r, Readied(k, r)
  PROVE  Step(k, DispatchIf(r)) /\ DispatchIf(r).waitq = r.st.waitq
<1>1. /\ Base(k) /\ Switched(k) /\ k.ini = 0 /\ k.handlers = <<>>
      /\ k.runtsk # NULL /\ k.runtsk \in Ready(k)
      /\ ~k.reqflg
  BY TskCtxFacts DEF TskCtxUnl
<1>2. Step(k, DispatchIf(r))
  BY <1>1, DispatchIfStep DEF Readied
<1>3. CASE r.dsp
  <2> DEFINE S == r.st
             R == dispatch(S)
  <2>1. Base(S) /\ S.handlers = <<>> /\ ~S.reqflg /\ S.dspflg
    BY <1>1, <1>3 DEF Readied, Frame, Tells
  <2> HIDE DEF S
  <2>2. R.waitq = S.waitq
    BY <2>1, Dispatch
  <2> QED
    BY <1>2, <1>3, <2>2 DEF DispatchIf, S
<1>4. CASE ~r.dsp
  BY <1>2, <1>4 DEF DispatchIf
<1> QED
  BY <1>3, <1>4

LEMMA HandlerEnds ==
  ASSUME KernelInv(k), IntCtxUnl, NEW r, Readied(k, r)
  PROVE  Step(k, RequestIf(r)) /\ RequestIf(r).waitq = r.st.waitq
<1>1. Base(k) /\ Switched(k) /\ k.ini = 0 /\ k.handlers # <<>>
  BY HandlerFacts DEF IntCtxUnl
<1>2. Step(k, RequestIf(r))
  BY <1>1, RequestIfStep DEF Readied
<1>3. RequestIf(r).waitq = r.st.waitq
  BY DEF Readied, Base, Core, KernelState, RequestIf
<1> QED
  BY <1>2, <1>3

(* What a service of a task, or one of a handler, does about a dispatch.   *)
Ends(S, r) ==
  \/ TskCtxUnl /\ S = DispatchIf(r)
  \/ IntCtxUnl /\ S = RequestIf(r)

LEMMA ServiceEnds ==
  ASSUME KernelInv(k), NEW r, Readied(k, r), Ends(k', r)
  PROVE  KernelInv(k') /\ k'.waitq = r.st.waitq
BY TaskEnds, HandlerEnds DEF Ends, Step

(* Each leaves one queue changed, or two.                                  *)
LEMMA FirstServed ==
  ASSUME KernelInv(k), NEW w \in WaitQueues, ~queue_empty(k.waitq[w]),
         Ends(k', CompleteFirst(k, w)),
         NEW q, q = queue_delete_next(k.waitq[w])
  PROVE  KernelInv(k') /\ k'.waitq = [k.waitq EXCEPT ![w] = q]
<1> DEFINE r == CompleteFirst(k, w)
<1>1. Taken(k, w, q, r)
  BY TakeFirst DEF KernelInv
<1>2. Ends(k', r)
  OBVIOUS
<1> HIDE DEF r
<1> QED
  BY <1>1, <1>2, ServiceEnds DEF Taken

LEMMA AllReleased ==
  ASSUME KernelInv(k), NEW w \in WaitQueues, TskCtxUnl,
         k' = DispatchIf(init_wait_queue(k, w)), NEW q, q = <<>>
  PROVE  KernelInv(k') /\ k'.waitq = [k.waitq EXCEPT ![w] = q]
<1> DEFINE r == init_wait_queue(k, w)
<1>1. Taken(k, w, q, r)
  BY ReleaseAll DEF KernelInv
<1>2. Ends(k', r)
  BY DEF Ends
<1> HIDE DEF r
<1> QED
  BY <1>1, <1>2, ServiceEnds DEF Taken

LEMMA StartsToWait ==
  ASSUME KernelInv(k), CanDispatch, NEW w, NEW reason, MayQueue(w, reason),
         NEW tmout \in Nat \cup {TMO_FEVR},
         \/ k' = dispatch(wobj_make_wait_tmout(k, reason, w, tmout))
         \/ k' = dispatch(wobj_make_wait(k, reason, w))
  PROVE  KernelInv(k') /\ Joins(k, k', w, k.runtsk) /\ k.runtsk \in Tasks
<1> DEFINE t == k.runtsk
           R == IF k' = dispatch(wobj_make_wait(k, reason, w))
                THEN wobj_make_wait(k, reason, w)
                ELSE wobj_make_wait_tmout(k, reason, w, tmout)
<1>1. /\ Base(k) /\ k.ini = 0 /\ k.handlers = <<>> /\ t \in Tasks
      /\ ~k.reqflg /\ k.dspflg /\ TSTAT_RUNNABLE(k.tstat[t])
  BY TskCtxFacts DEF CanDispatch, TskCtxUnl
<1>2. /\ k' = dispatch(R)
      /\ \/ R = wobj_make_wait_tmout(k, reason, w, tmout)
         \/ R = wobj_make_wait(k, reason, w)
  OBVIOUS
<1> HIDE DEF R
<1>3. t = k.runtsk
  OBVIOUS
<1> HIDE DEF t
<1>4. Queued(k, R, w, t)
  BY <1>1, <1>2, <1>3, QueueWait
<1>5. Base(R) /\ R.ini = 0 /\ R.handlers = <<>> /\ ~R.reqflg /\ R.dspflg
  BY <1>1, <1>4 DEF Queued, Frame
<1>6. KernelInv(k')
  BY <1>2, <1>5, DispatchStep DEF Step
<1>7. k'.waitq = R.waitq
  BY <1>2, <1>5, Dispatch
<1> QED
  BY <1>1, <1>3, <1>4, <1>6, <1>7 DEF Queued, Joins

-----------------------------------------------------------------------------
(* What a step does to the queues.                                         *)

(* The queues of W may change, the others not.                             *)
Only(S, R, W) == \A v \in WaitQueues \ W : R.waitq[v] = S.waitq[v]

(* No task comes to a queue of W.                                          *)
Shrinks(S, R, W) ==
  \A w \in W : \A y : Linked(R.waitq[w], y) => Linked(S.waitq[w], y)

LEMMA OthersShrink ==
  ASSUME NEW S, NEW R, NEW W, Only(S, R, W), NEW V \in SUBSET WaitQueues,
         V \cap W = {}
  PROVE  Shrinks(S, R, V)
BY DEF Only, Shrinks

(* A queue is empty where no task is linked.                               *)
LEMMA NobodyWaits ==
  ASSUME NEW S, KernelInv(S), NEW w \in WaitQueues
  PROVE  /\ S.waitq \in [WaitQueues -> Seq(Tasks)]
         /\ queue_empty(S.waitq[w]) <=> \A y : ~Linked(S.waitq[w], y)
         /\ \A y : Linked(S.waitq[w], y) =>
              y \in Tasks /\ TSTAT_WAITING(S.tstat[y])
<1>1. /\ S.waitq \in [WaitQueues -> Seq(Tasks)] /\ S \in KernelState
      /\ QueuedOK(S.waitq, S.priority) /\ \A t \in Tasks : WaitOK(S, {}, t)
  BY DEF KernelInv, Base, Core, KernelState, Waits
<1>2. S.waitq[w] \in Seq(Tasks)
  BY <1>1
<1>3. queue_empty(S.waitq[w]) <=> \A y : ~Linked(S.waitq[w], y)
  <2> DEFINE q == S.waitq[w]
  <2>1. q \in Seq(Tasks)
    BY <1>2
  <2> HIDE DEF q
  <2>2. q # <<>> => 1 \in DOMAIN q
    BY <2>1
  <2>3. q = <<>> => DOMAIN q = {}
    BY <2>1
  <2>4. queue_empty(q) <=> \A y : ~Linked(q, y)
    BY <2>1, <2>2, <2>3, QueueLinked DEF queue_empty
  <2> QED
    BY <2>4 DEF q
<1>4. ASSUME NEW y, Linked(S.waitq[w], y)
      PROVE  y \in Tasks /\ TSTAT_WAITING(S.tstat[y])
  <2>1. y \in Tasks
    BY <1>2, <1>4, QueueLinked
  <2>2. WaitOK(S, {}, y) /\ InQueue(S.waitq, y)
    BY <1>1, <1>4, <2>1 DEF InQueue
  <2>3. TSTAT_WAIT_WOBJ(S.tstat[y])
    BY <2>2 DEF WaitOK
  <2> QED
    BY <1>1, <2>1, <2>3, ObjectWaitFacts DEF KernelState
<1> QED
  BY <1>1, <1>3, <1>4

LEMMA StaysEmpty ==
  ASSUME NEW S, KernelInv(S), NEW R, KernelInv(R), NEW W \in SUBSET WaitQueues,
         Shrinks(S, R, W)
  PROVE  \A w \in W : queue_empty(S.waitq[w]) => queue_empty(R.waitq[w])
BY NobodyWaits DEF Shrinks

(* What the kernel's other services and the time tick do to the tasks that *)
(* wait for objects: they may take one out of its queue, or move it there. *)

SameWaitq(S, R) == "waitq" \in DOMAIN R /\ R.waitq = S.waitq

LEMMA LeaveWaitq ==
  ASSUME NEW S, "waitq" \in DOMAIN S, NEW t
  PROVE  /\ SameWaitq(S, make_runnable(S, t).st)
         /\ SameWaitq(S, make_active(S, t).st)
         /\ SameWaitq(S, make_non_runnable(S, t).st)
         /\ SameWaitq(S, make_non_wait(S, t).st)
         /\ SameWaitq(S, make_dormant(S, t))
         /\ SameWaitq(S, Restart(S, t).st)
         /\ \A pri : SameWaitq(S, change_ready_priority(S, t, pri).st)
<1>1. ASSUME NEW T, "waitq" \in DOMAIN T
      PROVE  SameWaitq(T, make_runnable(T, t).st)
  <2>1. SameWaitq(T, Enready(T, t))
    BY <1>1 DEF SameWaitq, Enready
  <2> QED
    BY <2>1 DEF SameWaitq, make_runnable
<1>2. ASSUME NEW T, "waitq" \in DOMAIN T
      PROVE  SameWaitq(T, make_active(T, t).st)
  <2> DEFINE A == [T EXCEPT !.tstat[t] = TS_RUNNABLE]
  <2>1. SameWaitq(T, A)
    BY <1>2 DEF SameWaitq
  <2> HIDE DEF A
  <2> QED
    BY <1>1, <2>1 DEF SameWaitq, make_active, A
<1>3. SameWaitq(S, Unready(S, t))
  BY DEF SameWaitq, Unready
<1>4. SameWaitq(S, make_non_runnable(S, t).st)
  BY <1>3 DEF SameWaitq, make_non_runnable
<1>5. SameWaitq(S, make_non_wait(S, t).st)
  <2> DEFINE A == [S EXCEPT !.tstat[t] = TS_RUNNABLE]
             B == [S EXCEPT !.tstat[t] = TS_SUSPENDED]
  <2>1. SameWaitq(S, A) /\ SameWaitq(S, B) /\ SameWaitq(S, S)
    BY DEF SameWaitq
  <2>2. make_non_wait(S, t).st \in {make_runnable(A, t).st, B}
    BY DEF make_non_wait
  <2> HIDE DEF A, B
  <2> QED
    BY <1>1, <2>1, <2>2 DEF SameWaitq
<1>6. SameWaitq(S, make_dormant(S, t))
  BY DEF SameWaitq, make_dormant
<1>7. SameWaitq(S, Restart(S, t).st)
  <2> DEFINE A == [S EXCEPT !.actque[t] = FALSE]
  <2>1. SameWaitq(S, A) /\ SameWaitq(S, S)
    BY DEF SameWaitq
  <2>2. Restart(S, t).st \in {make_active(A, t).st, S}
    BY DEF Restart
  <2> HIDE DEF A
  <2> QED
    BY <1>2, <2>1, <2>2 DEF SameWaitq
<1>8. ASSUME NEW pri
      PROVE  SameWaitq(S, change_ready_priority(S, t, pri).st)
  <2> DEFINE U == Unready(S, t)
             P == [U EXCEPT !.priority[t] = pri]
             Q == Enready(P, t)
  <2>1. SameWaitq(U, P)
    <3> HIDE DEF U
    <3> QED
      BY <1>3 DEF SameWaitq, U
  <2>2. SameWaitq(P, Q)
    <3> HIDE DEF P
    <3> QED
      BY <2>1 DEF SameWaitq, Enready
  <2> HIDE DEF Q
  <2>3. SameWaitq(Q, change_ready_priority(S, t, pri).st)
    BY <2>2 DEF SameWaitq, change_ready_priority, Q
  <2> QED
    BY <1>3, <2>1, <2>2, <2>3 DEF SameWaitq
<1> QED
  BY <1>1, <1>2, <1>4, <1>5, <1>6, <1>7, <1>8

LEMMA SwitchLeavesWaitq ==
  /\ \A S : "waitq" \in DOMAIN S => SameWaitq(S, dispatch(S))
  /\ \A r : "waitq" \in DOMAIN r.st => /\ SameWaitq(r.st, DispatchIf(r))
                                       /\ SameWaitq(r.st, RequestIf(r))
  /\ \A S : "waitq" \in DOMAIN S => SameWaitq(S, end_int_handler(S))
<1>1. ASSUME NEW S, "waitq" \in DOMAIN S
      PROVE  SameWaitq(S, call_texrtn(S)) /\ SameWaitq(S, dispatch_r(S))
  BY <1>1 DEF SameWaitq, call_texrtn, calltex, call_texrtn_until, dispatch_r
<1>2. ASSUME NEW S, "waitq" \in DOMAIN S
      PROVE  SameWaitq(S, dispatch(S))
  <2> DEFINE wercd == [t \in Tasks |-> IF t = S.runtsk THEN "none"
                                       ELSE S.wercd[t]]
             D == [S EXCEPT !.runtsk = S.schedtsk, !.wercd = wercd]
  <2>1. dispatch(S) = IF S.schedtsk = NULL THEN D ELSE dispatch_r(D)
    BY DEF dispatch
  <2> HIDE DEF wercd
  <2>2. SameWaitq(S, D)
    BY <1>2 DEF SameWaitq
  <2> HIDE DEF D
  <2> QED
    BY <1>1, <2>1, <2>2 DEF SameWaitq
<1>3. ASSUME NEW r, "waitq" \in DOMAIN r.st
      PROVE  SameWaitq(r.st, DispatchIf(r)) /\ SameWaitq(r.st, RequestIf(r))
  <2>1. SameWaitq(r.st, DispatchIf(r))
    BY <1>2, <1>3 DEF SameWaitq, DispatchIf
  <2>2. SameWaitq(r.st, RequestIf(r))
    BY <1>3 DEF SameWaitq, RequestIf
  <2> QED
    BY <2>1, <2>2
<1>4. ASSUME NEW S, "waitq" \in DOMAIN S
      PROVE  SameWaitq(S, return_to_task(S))
  <2> DEFINE A == [S EXCEPT !.reqflg = FALSE]
  <2>1. SameWaitq(S, A) /\ SameWaitq(S, S)
    BY <1>4 DEF SameWaitq
  <2>2. return_to_task(S) \in {S, dispatch(A), call_texrtn(A), A}
    BY DEF return_to_task
  <2> HIDE DEF A
  <2> QED
    BY <1>1, <1>2, <2>1, <2>2 DEF SameWaitq
<1>5. ASSUME NEW S, "waitq" \in DOMAIN S
      PROVE  SameWaitq(S, end_int_handler(S))
  <2> DEFINE H == [S EXCEPT !.handlers = Tail(S.handlers)]
  <2>1. SameWaitq(S, H)
    BY <1>5 DEF SameWaitq
  <2>2. end_int_handler(S) \in {H, return_to_task(H)}
    BY DEF end_int_handler
  <2> HIDE DEF H
  <2> QED
    BY <1>4, <2>1, <2>2 DEF SameWaitq
<1> QED
  BY <1>2, <1>3, <1>5

LEMMA ShrinksOne ==
  ASSUME NEW S, S.waitq \in [WaitQueues -> Seq(Tasks)], NEW w \in WaitQueues,
         NEW q, \A y : Linked(q, y) => Linked(S.waitq[w], y),
         NEW R, R.waitq = [S.waitq EXCEPT ![w] = q]
  PROVE  Shrinks(S, R, WaitQueues)
<1>1. \A v \in WaitQueues : R.waitq[v] = IF v = w THEN q ELSE S.waitq[v]
  OBVIOUS
<1> QED
  BY <1>1 DEF Shrinks

LEMMA ShrinksTrans ==
  ASSUME NEW S, NEW R, Shrinks(S, R, WaitQueues), NEW T, T.waitq = R.waitq
  PROVE  Shrinks(S, T, WaitQueues)
BY DEF Shrinks
-----------------------------------------------------------------------------
(* Results of waits, and the order in the queues.                          *)

SameWercd(S, R) == "wercd" \in DOMAIN R /\ R.wercd = S.wercd

LEMMA LeaveWercd ==
  ASSUME NEW S, "wercd" \in DOMAIN S, NEW t
  PROVE  /\ SameWercd(S, make_non_runnable(S, t).st)
         /\ SameWercd(S, make_non_wait(S, t).st)
         /\ SameWercd(S, make_dormant(S, t))
         /\ SameWercd(S, Restart(S, t).st)
<1>1. ASSUME NEW T, "wercd" \in DOMAIN T
      PROVE  SameWercd(T, make_runnable(T, t).st)
  <2>1. SameWercd(T, Enready(T, t))
    BY <1>1 DEF SameWercd, Enready
  <2> QED
    BY <2>1 DEF SameWercd, make_runnable
<1>2. ASSUME NEW T, "wercd" \in DOMAIN T
      PROVE  SameWercd(T, make_active(T, t).st)
  <2> DEFINE A == [T EXCEPT !.tstat[t] = TS_RUNNABLE]
  <2>1. SameWercd(T, A)
    BY <1>2 DEF SameWercd
  <2> HIDE DEF A
  <2> QED
    BY <1>1, <2>1 DEF SameWercd, make_active, A
<1>3. SameWercd(S, Unready(S, t))
  BY DEF SameWercd, Unready
<1>4. SameWercd(S, make_non_runnable(S, t).st)
  BY <1>3 DEF SameWercd, make_non_runnable
<1>5. SameWercd(S, make_non_wait(S, t).st)
  <2> DEFINE A == [S EXCEPT !.tstat[t] = TS_RUNNABLE]
             B == [S EXCEPT !.tstat[t] = TS_SUSPENDED]
  <2>1. SameWercd(S, A) /\ SameWercd(S, B) /\ SameWercd(S, S)
    BY DEF SameWercd
  <2>2. make_non_wait(S, t).st \in {make_runnable(A, t).st, B}
    BY DEF make_non_wait
  <2> HIDE DEF A, B
  <2> QED
    BY <1>1, <2>1, <2>2 DEF SameWercd
<1>6. SameWercd(S, make_dormant(S, t))
  BY DEF SameWercd, make_dormant
<1>7. SameWercd(S, Restart(S, t).st)
  <2> DEFINE A == [S EXCEPT !.actque[t] = FALSE]
  <2>1. SameWercd(S, A) /\ SameWercd(S, S)
    BY DEF SameWercd
  <2>2. Restart(S, t).st \in {make_active(A, t).st, S}
    BY DEF Restart
  <2> HIDE DEF A
  <2> QED
    BY <1>2, <2>1, <2>2 DEF SameWercd
<1> QED
  BY <1>4, <1>5, <1>6, <1>7

(* A dispatch takes the result of the running task away.                   *)
LEMMA SwitchLeavesWercd ==
  ASSUME NEW S, "wercd" \in DOMAIN S, NEW t \in Tasks, t # S.runtsk
  PROVE  dispatch(S).wercd[t] = S.wercd[t]
<1> DEFINE wercd == [u \in Tasks |-> IF u = S.runtsk THEN "none"
                                     ELSE S.wercd[u]]
           D == [S EXCEPT !.runtsk = S.schedtsk, !.wercd = wercd]
<1>1. dispatch(S) = IF S.schedtsk = NULL THEN D ELSE dispatch_r(D)
  BY DEF dispatch
<1>2. wercd[t] = S.wercd[t]
  OBVIOUS
<1> HIDE DEF wercd
<1>3. "wercd" \in DOMAIN D /\ D.wercd = wercd
  OBVIOUS
<1> HIDE DEF D
<1>4. SameWercd(D, dispatch_r(D))
  BY <1>3 DEF SameWercd, call_texrtn, calltex, call_texrtn_until, dispatch_r
<1> QED
  BY <1>1, <1>2, <1>3, <1>4 DEF SameWercd

LEMMA EndLeavesWercd ==
  ASSUME NEW r, "wercd" \in DOMAIN r.st
  PROVE  /\ \A t \in Tasks : t # r.st.runtsk =>
                               DispatchIf(r).wercd[t] = r.st.wercd[t]
         /\ RequestIf(r).wercd = r.st.wercd
<1>1. ASSUME NEW t \in Tasks, t # r.st.runtsk
      PROVE  DispatchIf(r).wercd[t] = r.st.wercd[t]
  <2> DEFINE S == r.st
  <2> HIDE DEF S
  <2>1. "wercd" \in DOMAIN S /\ t # S.runtsk
    BY <1>1 DEF S
  <2>2. dispatch(S).wercd[t] = S.wercd[t]
    BY <2>1, SwitchLeavesWercd
  <2> QED
    BY <2>2 DEF DispatchIf, S
<1>2. RequestIf(r).wercd = r.st.wercd
  BY DEF RequestIf
<1> QED
  BY <1>1, <1>2

(* A task that waits does not run.                                         *)
LEMMA WaiterNotRunning ==
  ASSUME KernelInv(k), NEW t \in Tasks, TSTAT_WAITING(k.tstat[t])
  PROVE  t # k.runtsk
<1>1. k.tstat[t] \in TStat
  BY DEF KernelInv, Base, Core, KernelState
<1>2. ~TSTAT_RUNNABLE(k.tstat[t])
  BY <1>1, TStatFacts
<1>3. t \notin Ready(k)
  BY <1>2 DEF KernelInv, Base, RunnableOK
<1>4. k.runtsk # NULL => k.runtsk \in Ready(k)
  BY DEF KernelInv, Switched, Starting
<1> QED
  BY <1>3, <1>4, TaskAssumption

(* t is before u in q.                                                     *)
Ahead(q, t, u) == \E i, j \in DOMAIN q : i < j /\ q[i] = t /\ q[j] = u

LEMMA WithoutOrder ==
  ASSUME NEW T, NEW q \in Seq(T), NEW r \in Seq(T), NEW p \in 1 .. Len(q),
         Without(q, p, r), NEW t, NEW u, t # q[p], u # q[p], Ahead(q, t, u)
  PROVE  Ahead(r, t, u)
<1> DEFINE n == Len(q)
<1>1. n \in Nat /\ DOMAIN q = 1 .. n /\ DOMAIN r = 1 .. n - 1
  <2>1. Len(r) = n - 1 /\ n \in Nat
    BY LenProperties DEF Without
  <2> QED
    BY <2>1, LenProperties
<1>2. \A i \in 1 .. n - 1 : r[i] = IF i < p THEN q[i] ELSE q[i + 1]
  BY DEF Without
<1>3. PICK i, j \in 1 .. n : i < j /\ q[i] = t /\ q[j] = u
  BY <1>1 DEF Ahead
<1> DEFINE a == IF i < p THEN i ELSE i - 1
           b == IF j < p THEN j ELSE j - 1
<1>4. i # p /\ j # p /\ p \in 1 .. n
  BY <1>3
<1> HIDE DEF n
<1>5. a \in 1 .. n - 1 /\ b \in 1 .. n - 1 /\ a < b
  BY <1>1, <1>3, <1>4
<1>6. r[a] = t
  <2>1. CASE i < p
    BY <1>2, <1>3, <1>5, <2>1
  <2>2. CASE ~(i < p)
    <3>1. a = i - 1 /\ ~(a < p) /\ a + 1 = i
      BY <1>3, <1>4, <2>2
    <3> QED
      BY <1>2, <1>3, <1>5, <3>1
  <2> QED
    BY <2>1, <2>2
<1>7. r[b] = u
  <2>1. CASE j < p
    BY <1>2, <1>3, <1>5, <2>1
  <2>2. CASE ~(j < p)
    <3>1. b = j - 1 /\ ~(b < p) /\ b + 1 = j
      BY <1>3, <1>4, <2>2
    <3> QED
      BY <1>2, <1>3, <1>5, <3>1
  <2> QED
    BY <2>1, <2>2
<1> HIDE DEF a, b
<1> QED
  BY <1>1, <1>5, <1>6, <1>7 DEF Ahead

LEMMA WithOrder ==
  ASSUME NEW T, NEW q \in Seq(T), NEW r \in Seq(T), NEW p \in 1 .. Len(q) + 1,
         NEW x, With(q, p, x, r), NEW t, NEW u, Ahead(q, t, u)
  PROVE  Ahead(r, t, u)
<1> DEFINE n == Len(q)
<1>1. n \in Nat /\ DOMAIN q = 1 .. n /\ DOMAIN r = 1 .. n + 1 /\ p \in 1 .. n + 1
  <2>1. Len(r) = n + 1 /\ n \in Nat
    BY LenProperties DEF With
  <2> QED
    BY <2>1, LenProperties
<1>2. \A i \in 1 .. n + 1 :
        r[i] = IF i < p THEN q[i] ELSE IF i = p THEN x ELSE q[i - 1]
  BY DEF With
<1>3. PICK i, j \in 1 .. n : i < j /\ q[i] = t /\ q[j] = u
  BY <1>1 DEF Ahead
<1> DEFINE a == IF i < p THEN i ELSE i + 1
           b == IF j < p THEN j ELSE j + 1
<1> HIDE DEF n
<1>5. a \in 1 .. n + 1 /\ b \in 1 .. n + 1 /\ a < b
  BY <1>1, <1>3
<1>6. r[a] = t
  <2>1. CASE i < p
    BY <1>2, <1>3, <1>5, <2>1
  <2>2. CASE ~(i < p)
    <3>1. a = i + 1 /\ ~(a < p) /\ a # p /\ a - 1 = i
      BY <1>1, <1>3, <2>2
    <3> QED
      BY <1>2, <1>3, <1>5, <3>1
  <2> QED
    BY <2>1, <2>2
<1>7. r[b] = u
  <2>1. CASE j < p
    BY <1>2, <1>3, <1>5, <2>1
  <2>2. CASE ~(j < p)
    <3>1. b = j + 1 /\ ~(b < p) /\ b # p /\ b - 1 = j
      BY <1>1, <1>3, <2>2
    <3> QED
      BY <1>2, <1>3, <1>5, <3>1
  <2> QED
    BY <2>1, <2>2
<1> HIDE DEF a, b
<1> QED
  BY <1>1, <1>5, <1>6, <1>7 DEF Ahead

(* Who comes before u is before it, or is put there.                       *)
LEMMA WithAhead ==
  ASSUME NEW T, NEW q \in Seq(T), NEW r \in Seq(T), NEW p \in 1 .. Len(q) + 1,
         NEW x, With(q, p, x, r), ~Linked(q, x), NEW u, u # x, Ahead(r, x, u)
  PROVE  \E i \in 1 .. Len(q) : p <= i /\ q[i] = u
<1> DEFINE n == Len(q)
<1>1. n \in Nat /\ DOMAIN q = 1 .. n /\ DOMAIN r = 1 .. n + 1 /\ p \in 1 .. n + 1
  <2>1. Len(r) = n + 1 /\ n \in Nat
    BY LenProperties DEF With
  <2> QED
    BY <2>1, LenProperties
<1>2. \A i \in 1 .. n + 1 :
        r[i] = IF i < p THEN q[i] ELSE IF i = p THEN x ELSE q[i - 1]
  BY DEF With
<1>3. PICK i, j \in 1 .. n + 1 : i < j /\ r[i] = x /\ r[j] = u
  BY <1>1 DEF Ahead
<1>4. \A l \in 1 .. n : q[l] # x
  BY <1>1 DEF Linked
<1> SUFFICES \E l \in 1 .. n : p <= l /\ q[l] = u
  OBVIOUS
<1> HIDE DEF n
<1>5. i = p
  <2>1. ~(i < p)
    BY <1>1, <1>2, <1>3, <1>4
  <2>2. ~(i > p)
    <3> SUFFICES ASSUME i > p PROVE FALSE
      BY <1>1
    <3>1. i - 1 \in 1 .. n /\ r[i] = q[i - 1]
      BY <1>1, <1>2
    <3> QED
      BY <1>3, <1>4, <3>1
  <2> QED
    BY <1>1, <2>1, <2>2
<1>6. j - 1 \in 1 .. n /\ p <= j - 1 /\ q[j - 1] = u
  BY <1>1, <1>2, <1>3, <1>5
<1> QED
  BY <1>6

-----------------------------------------------------------------------------
(* A task leaves its queue, or is moved in it.                             *)

(* t leaves the queue that it waits in, if it is in one.                   *)
Leaves(S, R, t) ==
  \/ R.waitq = S.waitq
  \/ \E w \in WaitQueues, q \in Seq(Tasks) : \E p \in 1 .. Len(S.waitq[w]) :
       /\ S.waitq[w][p] = t /\ Without(S.waitq[w], p, q)
       /\ R.waitq = [S.waitq EXCEPT ![w] = q]

(* It is taken out of a queue in priority order and put into it again.     *)
Moves(S, R, t) ==
  \/ R.waitq = S.waitq
  \/ \E w \in TA_TPRI, d \in Seq(Tasks), q \in Seq(Tasks) :
     \E p \in 1 .. Len(S.waitq[w]), n \in 1 .. Len(d) + 1 :
       /\ S.waitq[w][p] = t /\ Without(S.waitq[w], p, d) /\ With(d, n, t, q)
       /\ R.waitq = [S.waitq EXCEPT ![w] = q]

(* wait_dequeue_wobj.                                                      *)
LEMMA DequeueLeaves ==
  ASSUME KernelInv(k), NEW t \in Tasks, NEW S, "waitq" \in DOMAIN S,
         S.waitq = k.waitq, S.tstat = k.tstat, NEW D, D = wait_dequeue_wobj(S, t)
  PROVE  /\ "waitq" \in DOMAIN D /\ Leaves(k, D, t)
         /\ "wercd" \in DOMAIN S => SameWercd(S, D)
<1>1. /\ k.waitq \in [WaitQueues -> Seq(Tasks)] /\ WaitOK(k, {}, t)
  BY NobodyWaits DEF KernelInv, Base, Core, KernelState, Waits
<1>2. CASE TSTAT_WAIT_WOBJ(k.tstat[t])
  <2> DEFINE w == WaitQueueOf(S, t)
             r == queue_delete(k.waitq[w], t)
  <2>1. InQueue(k.waitq, t)
    BY <1>1, <1>2 DEF WaitOK
  <2>2. w \in WaitQueues /\ Linked(k.waitq[w], t)
    BY <2>1 DEF InQueue, WaitQueueOf
  <2>3. D = [S EXCEPT !.waitq[w] = r]
    BY <1>2 DEF wait_dequeue_wobj
  <2> HIDE DEF w
  <2>4. k.waitq[w] \in Seq(Tasks)
    BY <1>1, <2>2
  <2>5. /\ r \in Seq(Tasks)
        /\ \E p \in 1 .. Len(k.waitq[w]) :
             k.waitq[w][p] = t /\ Without(k.waitq[w], p, r)
    BY <2>2, <2>4, DeleteAt
  <2> HIDE DEF r
  <2>6. /\ "waitq" \in DOMAIN D /\ D.waitq = [k.waitq EXCEPT ![w] = r]
        /\ "wercd" \in DOMAIN S => SameWercd(S, D)
    BY <2>3 DEF SameWercd
  <2> QED
    BY <2>2, <2>5, <2>6 DEF Leaves
<1>3. CASE ~TSTAT_WAIT_WOBJ(k.tstat[t])
  BY <1>3 DEF wait_dequeue_wobj, Leaves, SameWercd
<1> QED
  BY <1>2, <1>3

(* wobj_change_priority.                                                   *)
LEMMA RequeueMoves ==
  ASSUME KernelInv(k), NEW t \in Tasks, TSTAT_WAIT_WOBJCB(k.tstat[t]),
         NEW pri \in Pri, NEW R,
         R = wobj_change_priority([k EXCEPT !.priority[t] = pri], t)
  PROVE  "waitq" \in DOMAIN R /\ Moves(k, R, t)
<1> DEFINE P == [k EXCEPT !.priority[t] = pri]
           w == WaitQueueOf(P, t)
           d == queue_delete(k.waitq[w], t)
           q == queue_insert_tpri(P, d, t)
<1>1. /\ k.waitq \in [WaitQueues -> Seq(Tasks)] /\ WaitOK(k, {}, t)
      /\ k \in KernelState
  BY NobodyWaits DEF KernelInv, Base, Core, KernelState, Waits
<1>2. P \in KernelState /\ P.waitq = k.waitq /\ "waitq" \in DOMAIN P
  BY <1>1 DEF KernelState
<1>3. R = IF w \in TA_TPRI
          THEN [P EXCEPT !.waitq[w] = queue_insert_tpri(P, queue_delete(P.waitq[w], t), t)]
          ELSE P
  BY DEF wobj_change_priority
<1>4. InQueue(k.waitq, t)
  BY <1>1, ObjectWaitFacts, NobodyWaits DEF WaitOK, KernelInv, Base, Core, KernelState
<1> HIDE DEF P
<1>5. w \in WaitQueues /\ Linked(k.waitq[w], t)
  BY <1>2, <1>4 DEF InQueue, WaitQueueOf
<1>6. R = IF w \in TA_TPRI THEN [P EXCEPT !.waitq[w] = q] ELSE P
  BY <1>2, <1>3
<1> HIDE DEF w
<1>7. CASE w \in TA_TPRI
  <2>1. /\ d \in Seq(Tasks)
        /\ \E p \in 1 .. Len(k.waitq[w]) :
             k.waitq[w][p] = t /\ Without(k.waitq[w], p, d)
    BY <1>1, <1>5, DeleteAt
  <2> HIDE DEF d
  <2>2. P.priority \in [Tasks -> Int]
    BY <1>2 DEF KernelState, Pri
  <2>3. q \in Seq(Tasks) /\ \E n \in 1 .. Len(d) + 1 : With(d, n, t, q)
    BY <2>1, <2>2, InsertTpri
  <2> HIDE DEF q
  <2>4. "waitq" \in DOMAIN R /\ R.waitq = [k.waitq EXCEPT ![w] = q]
    BY <1>2, <1>6, <1>7
  <2> QED
    BY <1>7, <2>1, <2>3, <2>4 DEF Moves
<1>8. CASE w \notin TA_TPRI
  BY <1>2, <1>6, <1>8 DEF Moves
<1> QED
  BY <1>7, <1>8

LEMMA LeavesShrinks ==
  ASSUME KernelInv(k), NEW R, NEW t, Leaves(k, R, t) \/ Moves(k, R, t)
  PROVE  Shrinks(k, R, WaitQueues)
<1>1. /\ k.waitq \in [WaitQueues -> Seq(Tasks)]
      /\ \A w \in WaitQueues : Unique(k.waitq[w])
  BY DEF KernelInv, Base, Core, KernelState, Waits, QueuedOK, QueueOK
<1>2. CASE R.waitq = k.waitq
  BY <1>2 DEF Shrinks
<1>3. ASSUME NEW w \in WaitQueues, NEW d \in Seq(Tasks),
             NEW p \in 1 .. Len(k.waitq[w]),
             k.waitq[w][p] = t, Without(k.waitq[w], p, d)
      PROVE  /\ Unique(d)
             /\ \A y : Linked(d, y) <=> Linked(k.waitq[w], y) /\ y # t
             /\ t \in Tasks /\ Linked(k.waitq[w], t)
  <2>1. k.waitq[w] \in Seq(Tasks) /\ DOMAIN k.waitq[w] = 1 .. Len(k.waitq[w])
    BY <1>1, LenProperties
  <2>2. t \in Tasks /\ Linked(k.waitq[w], t)
    BY <1>3, <2>1 DEF Linked
  <2> QED
    BY <1>1, <1>3, <2>1, <2>2, WithoutUnique
<1>4. ASSUME NEW w \in WaitQueues, NEW q \in Seq(Tasks),
             NEW p \in 1 .. Len(k.waitq[w]),
             k.waitq[w][p] = t, Without(k.waitq[w], p, q),
             R.waitq = [k.waitq EXCEPT ![w] = q]
      PROVE  Shrinks(k, R, WaitQueues)
  BY <1>1, <1>3, <1>4, ShrinksOne
<1>5. ASSUME NEW w \in TA_TPRI, NEW d \in Seq(Tasks), NEW q \in Seq(Tasks),
             NEW p \in 1 .. Len(k.waitq[w]), NEW n \in 1 .. Len(d) + 1,
             k.waitq[w][p] = t, Without(k.waitq[w], p, d), With(d, n, t, q),
             R.waitq = [k.waitq EXCEPT ![w] = q]
      PROVE  Shrinks(k, R, WaitQueues)
  <2>1. w \in WaitQueues
    BY WaitAssumption
  <2>2. /\ Unique(d) /\ t \in Tasks /\ Linked(k.waitq[w], t)
        /\ \A y : Linked(d, y) <=> Linked(k.waitq[w], y) /\ y # t
    BY <1>3, <1>5, <2>1
  <2>3. \A y : Linked(q, y) => Linked(k.waitq[w], y)
    BY <1>5, <2>2, WithUnique
  <2> QED
    BY <1>1, <1>5, <2>1, <2>3, ShrinksOne
<1> QED
  BY <1>2, <1>4, <1>5 DEF Leaves, Moves

LEMMA DequeueShrinks ==
  ASSUME KernelInv(k), NEW t \in Tasks, NEW S, "waitq" \in DOMAIN S,
         S.waitq = k.waitq, S.tstat = k.tstat, NEW D, D = wait_dequeue_wobj(S, t)
  PROVE  "waitq" \in DOMAIN D /\ Shrinks(k, D, WaitQueues)
BY DequeueLeaves, LeavesShrinks

-----------------------------------------------------------------------------
(* How the services of an object end waits, and where they put a task.     *)

(* The first task of the queue w leaves it and gets e.                     *)
FirstGets(S, w, e, r) ==
  /\ r.st.wercd = [S.wercd EXCEPT ![Head(S.waitq[w])] = e]
  /\ r.st.runtsk = S.runtsk
  /\ r.st.waitq = [S.waitq EXCEPT ![w] = queue_delete_next(S.waitq[w])]

LEMMA FirstResult ==
  ASSUME NEW S, Base(S), NEW w \in WaitQueues, ~queue_empty(S.waitq[w]),
         NEW e, NEW r,
         \/ r = CompleteFirst(S, w) /\ e = "E_OK"
         \/ r = release_first(S, w) /\ e = "E_DLT"
  PROVE  FirstGets(S, w, e, r)
<1> DEFINE t == Head(S.waitq[w])
           q == queue_delete_next(S.waitq[w])
           U == WithWaitq(S, w, q)
           D == wait_dequeue_tmevtb(U, t)
           C == [D EXCEPT !.wercd[t] = e]
<1>1. Taken(S, w, q, r)
  BY TakeFirst
<1>2. U = [S EXCEPT !.waitq[w] = queue_delete_next(@)]
  BY DEF WithWaitq
<1>3. r = make_non_wait(C, t)
  BY <1>2 DEF CompleteFirst, release_first, wait_complete
<1> HIDE DEF t, q
<1>4. "wercd" \in DOMAIN S
  BY DEF Base, Core, KernelState
<1>5. SameWercd(S, U)
  BY <1>4 DEF WithWaitq, SameWercd
<1> HIDE DEF U
<1>6. SameWercd(U, D)
  BY <1>4, <1>5 DEF wait_dequeue_tmevtb, SameWercd
<1> HIDE DEF D
<1>7. "wercd" \in DOMAIN C /\ C.wercd = [D.wercd EXCEPT ![t] = e]
  BY <1>6 DEF SameWercd
<1> HIDE DEF C
<1>8. SameWercd(C, r.st)
  BY <1>3, <1>7, LeaveWercd
<1>9. r.st.wercd = [S.wercd EXCEPT ![t] = e]
  BY <1>5, <1>6, <1>7, <1>8 DEF SameWercd
<1> QED
  BY <1>1, <1>9 DEF FirstGets, Taken, Readied, Frame, t, q

LEMMA FirstGetsOK ==
  ASSUME KernelInv(k), NEW w \in WaitQueues, ~queue_empty(k.waitq[w]),
         Ends(k', CompleteFirst(k, w))
  PROVE  LET t == Head(k.waitq[w])
         IN t \in Tasks /\ Linked(k.waitq[w], t) /\ k'.wercd[t] = "E_OK"
<1> DEFINE r == CompleteFirst(k, w)
           t == Head(k.waitq[w])
           e == "E_OK"
<1>1. /\ Base(k) /\ DOMAIN k.wercd = Tasks /\ "wercd" \in DOMAIN k
      /\ k.waitq \in [WaitQueues -> Seq(Tasks)]
  BY DEF KernelInv, Base, Core, KernelState
<1>2. t \in Tasks /\ Linked(k.waitq[w], t)
  BY <1>1, QueueLinked DEF queue_empty
<1>3. t # k.runtsk
  BY <1>2, WaiterNotRunning, NobodyWaits
<1>4. Ends(k', r)
  OBVIOUS
<1>5. r.st.wercd = [k.wercd EXCEPT ![t] = e] /\ r.st.runtsk = k.runtsk
  <2>1. FirstGets(k, w, e, r)
    BY <1>1, FirstResult
  <2> HIDE DEF r, e
  <2> QED
    BY <2>1 DEF FirstGets
<1>6. "wercd" \in DOMAIN r.st
  <2>1. Taken(k, w, queue_delete_next(k.waitq[w]), r)
    BY <1>1, TakeFirst
  <2> QED
    BY <2>1 DEF Taken, Readied, Base, Core, KernelState
<1> HIDE DEF r, t
<1>7. r.st.wercd[t] = "E_OK"
  BY <1>1, <1>2, <1>5
<1>8. k'.wercd[t] = "E_OK"
  BY <1>2, <1>3, <1>4, <1>5, <1>6, <1>7, EndLeavesWercd DEF Ends
<1> QED
  BY <1>2, <1>8 DEF t

(* init_wait_queue: every task in the queue gets E_DLT.                    *)
LEMMA AllDeleted ==
  ASSUME NEW S, Base(S), NEW w \in WaitQueues, NEW r, r = init_wait_queue(S, w)
  PROVE  \A t \in Tasks : Linked(S.waitq[w], t) => r.st.wercd[t] = "E_DLT"
<1> DEFINE q == <<>>
<1>1. Taken(S, w, q, r) /\ \E n, done : Rounds(S, w, n, done)
  BY ReleaseRounds
<1>2. PICK n, done : Rounds(S, w, n, done)
  BY <1>1
<1> DEFINE R(i) == done[i].st
           Left(i) == \A t \in Tasks :
                        Linked(S.waitq[w], t) /\ ~Linked(R(i).waitq[w], t) =>
                          R(i).wercd[t] = "E_DLT"
           A == {i \in Nat : i <= n => Left(i)}
<1>3. n \in Nat /\ R(0) = S /\ R(n) = r.st
  BY <1>2 DEF Rounds
<1>4. 0 \in A
  BY <1>3
<1>5. ASSUME NEW i \in Nat, i + 1 <= n, Left(i)
      PROVE  Left(i + 1)
  <2> DEFINE D == R(i)
             b == release_first(D, w)
             h == Head(D.waitq[w])
             p == queue_delete_next(D.waitq[w])
             e == "E_DLT"
  <2>1. /\ R(i + 1) = b.st
        /\ Base(D) /\ ~queue_empty(D.waitq[w])
    <3>1. i + 1 \in 1 .. n /\ (i + 1) - 1 = i
      BY <1>3, <1>5
    <3>2. \A l \in 1 .. n :
             LET c == release_first(done[l - 1].st, w)
             IN /\ \E d : done[l] = [st |-> c.st, dsp |-> d]
                /\ Base(done[l - 1].st) /\ ~queue_empty(done[l - 1].st.waitq[w])
      BY <1>2 DEF Rounds
    <3>3. PICK d : done[i + 1] = [st |-> release_first(done[i].st, w).st, dsp |-> d]
      BY <3>1, <3>2
    <3>4. done[i + 1].st = release_first(done[i].st, w).st
      BY <3>3
    <3> QED
      BY <3>1, <3>2, <3>4
  <2> HIDE DEF D
  <2>2. /\ b.st.wercd = [D.wercd EXCEPT ![h] = e]
        /\ b.st.waitq = [D.waitq EXCEPT ![w] = p]
    BY <2>1, FirstResult DEF FirstGets
  <2>3. QueueOK(D.waitq[w], w, D.priority)
    BY <2>1 DEF Base, Waits, QueuedOK
  <2>4. /\ h \in Tasks /\ Linked(D.waitq[w], h)
        /\ \A y : Linked(p, y) <=> Linked(D.waitq[w], y) /\ y # h
    BY <2>1, <2>3, FirstWaiting
  <2>5. DOMAIN D.wercd = Tasks /\ D.waitq \in [WaitQueues -> Seq(Tasks)]
    BY <2>1 DEF Base, Core, KernelState
  <2> HIDE DEF b, h, p
  <2>6. b.st.waitq[w] = p
    BY <2>2, <2>5
  <2>7. \A t \in Tasks : b.st.wercd[t] = IF t = h THEN e ELSE D.wercd[t]
    BY <2>2, <2>4, <2>5
  <2>8. \A t \in Tasks : Linked(S.waitq[w], t) /\ ~Linked(D.waitq[w], t) =>
                           D.wercd[t] = e
    BY <1>5 DEF D
  <2> QED
    BY <2>1, <2>4, <2>6, <2>7, <2>8
<1> HIDE DEF Left
<1>6. Nat \subseteq A
  <2>1. \A i \in Nat : i \in A => i + 1 \in A
    BY <1>3, <1>5
  <2> HIDE DEF A
  <2> QED
    BY <1>4, <2>1, SetInduction
<1>7. Left(n)
  BY <1>3, <1>6
<1>8. \A t : ~Linked(r.st.waitq[w], t)
  <2>1. r.st.waitq[w] = q
    BY <1>1 DEF Taken, Base, Core, KernelState
  <2> QED
    BY <2>1 DEF Linked
<1> QED
  BY <1>3, <1>7, <1>8 DEF Left

LEMMA AllGetDeleted ==
  ASSUME KernelInv(k), NEW w \in WaitQueues, TskCtxUnl,
         k' = DispatchIf(init_wait_queue(k, w))
  PROVE  \A t \in Tasks : Linked(k.waitq[w], t) => k'.wercd[t] = "E_DLT"
<1> DEFINE r == init_wait_queue(k, w)
           q == <<>>
<1>1. Base(k)
  BY DEF KernelInv
<1>2. Taken(k, w, q, r)
  BY <1>1, ReleaseAll
<1>3. "wercd" \in DOMAIN r.st /\ r.st.runtsk = k.runtsk
  BY <1>2 DEF Taken, Readied, Frame, Base, Core, KernelState
<1>4. \A t \in Tasks : Linked(k.waitq[w], t) => r.st.wercd[t] = "E_DLT"
  BY <1>1, AllDeleted
<1> HIDE DEF r
<1>5. \A t \in Tasks : Linked(k.waitq[w], t) => t # k.runtsk
  BY WaiterNotRunning, NobodyWaits
<1>6. k' = DispatchIf(r)
  BY DEF r
<1> QED
  BY <1>3, <1>4, <1>5, <1>6, EndLeavesWercd

(* Where a task that starts to wait is put.                                *)
Placed(q, t, w, pr, r) ==
  /\ t \in Tasks /\ r \in Seq(Tasks) /\ ~Linked(q, t)
  /\ \A y : Linked(r, y) <=> Linked(q, y) \/ y = t
  /\ \E p \in 1 .. Len(q) + 1 :
       /\ With(q, p, t, r)
       /\ IF w \in TA_TPRI THEN FitsAt(q, p, t, pr) ELSE p = Len(q) + 1

LEMMA PutInPlace ==
  ASSUME KernelInv(k), CanDispatch, NEW w, NEW reason, MayQueue(w, reason),
         NEW tmout \in Nat \cup {TMO_FEVR},
         \/ k' = dispatch(wobj_make_wait_tmout(k, reason, w, tmout))
         \/ k' = dispatch(wobj_make_wait(k, reason, w))
  PROVE  Placed(k.waitq[w], k.runtsk, w, k.priority, k'.waitq[w])
<1> DEFINE t == k.runtsk
           V == make_wait(k, reason)
           W == IF k' = dispatch(wobj_make_wait(k, reason, w)) THEN V
                ELSE make_wait_tmout(k, reason, tmout)
           R == wobj_queue_insert(W, w)
           X == {t}
           q == k.waitq[w]
           r == IF w \in TA_TPRI THEN queue_insert_tpri(W, q, t)
                ELSE queue_insert_prev(q, t)
<1>1. /\ Base(k) /\ t \in Tasks /\ TSTAT_RUNNABLE(k.tstat[t])
      /\ k.waitq \in [WaitQueues -> Seq(Tasks)] /\ w \in WaitQueues
      /\ QueueOK(q, w, k.priority) /\ k.priority \in [Tasks -> Int]
  BY TskCtxFacts
     DEF CanDispatch, TskCtxUnl, MayQueue, Base, Core, KernelState, Waits,
         QueuedOK, Pri
<1>2. k' = dispatch(R)
  BY DEF wobj_make_wait, wobj_make_wait_tmout
<1>3. W = V \/ (tmout \in Nat /\ W = tmevtb_enqueue(V, t, tmout))
  BY DEF make_wait_tmout, TMO_FEVR
<1>4. X = {k.runtsk} /\ t \in X /\ reason \in WaitReason
  BY DEF MayQueue, WaitReason
<1> HIDE DEF X, V
<1>5. /\ BaseBut(V, X) /\ Frame(k, V)
      /\ V.waitq = k.waitq /\ V.priority = k.priority
  BY <1>1, <1>4, MakeWait DEF V
<1> HIDE DEF W
<1>6. /\ W.waitq = k.waitq /\ W.priority = k.priority /\ W.runtsk = t
      /\ "waitq" \in DOMAIN W
  <2>1. CASE W = V
    BY <1>5, <2>1 DEF Frame, BaseBut, Core, KernelState
  <2>2. CASE tmout \in Nat /\ W = tmevtb_enqueue(V, t, tmout)
    <3>1. BaseBut(W, X) /\ Retimed(V, W, t, tmout + 1)
      BY <1>4, <1>5, <2>2, EnqueueTmevtb
    <3> QED
      BY <1>5, <3>1 DEF Retimed, Frame, BaseBut, Core, KernelState
  <2> QED
    BY <1>3, <2>1, <2>2
<1>7. "waitq" \in DOMAIN R /\ R.waitq[w] = r
  <2>1. R = [W EXCEPT !.waitq[w] = r]
    BY <1>6 DEF wobj_queue_insert
  <2> HIDE DEF R, r
  <2> QED
    BY <1>1, <1>6, <2>1
<1> HIDE DEF R
<1>8. k'.waitq[w] = r
  BY <1>2, <1>7, SwitchLeavesWaitq DEF SameWaitq
<1>9. ~Linked(q, t)
  BY <1>1, WaiterNotRunning, NobodyWaits
<1>10. q \in Seq(Tasks) /\ Unique(q)
  BY <1>1 DEF QueueOK
<1> HIDE DEF q
<1>11. CASE w \in TA_TPRI
  <2>1. r = queue_insert_tpri(W, q, t)
    BY <1>11
  <2>2. Sorted(q, W.priority) /\ W.priority \in [Tasks -> Int]
    BY <1>1, <1>6, <1>11 DEF QueueOK
  <2> HIDE DEF r, t
  <2>3. /\ r \in Seq(Tasks)
        /\ \E p \in 1 .. Len(q) + 1 : With(q, p, t, r) /\ FitsAt(q, p, t, W.priority)
    BY <1>1, <1>10, <2>1, <2>2, InsertTpri
  <2>4. \A y : Linked(r, y) <=> Linked(q, y) \/ y = t
    BY <1>1, <1>9, <1>10, <2>3, WithUnique
  <2>5. Placed(q, t, w, k.priority, r)
    BY <1>1, <1>6, <1>9, <1>11, <2>3, <2>4 DEF Placed
  <2> QED
    BY <1>8, <2>5 DEF q, t
<1>12. CASE w \notin TA_TPRI
  <2>1. r = queue_insert_prev(q, t)
    BY <1>12
  <2> HIDE DEF r, t
  <2>2. /\ r \in Seq(Tasks) /\ Len(q) + 1 \in 1 .. Len(q) + 1
        /\ With(q, Len(q) + 1, t, r)
    BY <1>1, <1>10, <2>1, AppendWith
  <2>3. \A y : Linked(r, y) <=> Linked(q, y) \/ y = t
    BY <1>1, <1>9, <1>10, <2>2, WithUnique
  <2>4. Placed(q, t, w, k.priority, r)
    BY <1>1, <1>9, <1>12, <2>2, <2>3 DEF Placed
  <2> QED
    BY <1>8, <2>4 DEF q, t
<1> QED
  BY <1>11, <1>12
=============================================================================
