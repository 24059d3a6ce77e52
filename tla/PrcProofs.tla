----------------------------- MODULE PrcProofs -----------------------------
(***************************************************************************)
(* Proofs about PrcV850's Spec: for every number of tasks and interrupt    *)
(* levels and every depth of nesting, with CPU exceptions anywhere in user *)
(* and kernel code.  The invariant speaks of the number n of handlers in   *)
(* progress; all its parts but Shape are about these n frames.  Two lemmas *)
(* carry the weight, Pushed and Popped: what a handler's entry and its     *)
(* return do to n and to the parts.                                        *)
(***************************************************************************)
EXTENDS PrcV850, FiniteSetTheorems, TLAPS

Kinds == {"task", "tex", "int", "exc", "idle", "dispatcher"}

Places ==
  {"user", "kernel", "dispatcher", "start_r", "dispatch_r", "ret_int_r"}

Frames == [kind : Kinds, at : Places, lvl : Nat, ipm : Nat, locked : BOOLEAN]

(* What is in progress in a context with n handlers in progress, or saved  *)
(* of a task (n = 0): the handlers; below them the ends of handlers that   *)
(* dispatched, where the mask of the task was open; and at the bottom the  *)
(* task, the idle loop or the dispatcher.                                  *)
Shape(s, n) ==
  /\ s \in Seq(Frames) /\ n < Len(s)
  /\ \A i \in 1 .. n : InProgress(s[i])
  /\ \A i \in n + 1 .. Len(s) - 1 :
       s[i].kind \in {"int", "exc"} /\ s[i].at = "ret_int_r" /\ s[i].ipm = 0
  /\ \/ /\ Last(s).kind = "task"
        /\ Last(s).at \in {"user", "kernel", "start_r", "dispatch_r"}
     \/ Last(s).kind = "dispatcher" /\ Last(s).at = "dispatcher"
     \/ Last(s).kind = "idle" /\ Last(s).at = "user" /\ Len(s) = n + 1

(* A task's context, as the dispatcher and ret_int save it.                *)
Saved(s) ==
  /\ Shape(s, 0) /\ Last(s).kind # "idle"
  /\ s[1].at \in {"dispatcher", "start_r", "dispatch_r", "ret_int_r"}

(* current_intpri as it was below the i innermost things in progress.      *)
Intpri(S, i) == IF i = 0 THEN S.current_intpri ELSE S.stack[i].ipm

IntAt(S, i) == S.stack[i].kind = "int"

TaskUser(s, n) ==
  Len(s) = n + 1 /\ Last(s).kind = "task" /\ Last(s).at = "user"

(* intnest, for n handlers in progress.                                    *)
NestPart(S, n) ==
  S.intnest = n + (IF Last(S.stack).kind = "idle" THEN 1 ELSE 0)

(* The levels in service, innermost handler first.                         *)
LevelsPart(S, n) ==
  /\ S.ispr = {S.stack[i].lvl : i \in {j \in 1 .. n : IntAt(S, j)}}
  /\ \A i, j \in 1 .. n :
       IntAt(S, i) /\ IntAt(S, j) /\ i < j => S.stack[i].lvl > S.stack[j].lvl

(* current_intpri as an interrupt handler's entry set it: below whatever   *)
(* came in over the handler since, it is the handler's own level.          *)
IntpriPart(S, n) ==
  /\ \A i \in 0 .. n, j \in 1 .. n :
       i < j /\ IntAt(S, j) /\ (\A k \in i + 1 .. j - 1 : ~IntAt(S, k))
         => Intpri(S, i) = S.stack[j].lvl
  /\ \A i \in 1 .. n : ~IntAt(S, i) => Intpri(S, i - 1) = Intpri(S, i)

(* The task's mask is what the outermost handler saved.  While the task    *)
(* masks anything nothing can have switched away from it; its user code is *)
(* only interrupted with the CPU not locked.                               *)
MaskPart(S, n) ==
  /\ S.ipmflg <=> Intpri(S, n) = INTPRI_ENAALL
  /\ ~S.ipmflg => /\ Len(S.stack) = n + 1 /\ Last(S.stack).kind = "task"
                  /\ Last(S.stack).at \in {"user", "kernel"}
  /\ TaskUser(S.stack, n) =>
       IF n = 0 THEN S.imr = S.current_intpri /\ ~S.lock_flag
       ELSE S.stack[n].kind = "exc" => ~S.stack[n].locked

States ==
  [imr : Nat, ispr : SUBSET Nat, lock_flag : BOOLEAN, current_intpri : Nat,
   intnest : Nat, ipmflg : BOOLEAN, runtsk : Tasks \cup {NULL},
   stack : Seq(Frames), tcb : [Tasks -> Seq(Frames)]]

Running(S, n) ==
  /\ Shape(S.stack, n)
  /\ NestPart(S, n)
  /\ LevelsPart(S, n)
  /\ IntpriPart(S, n)
  /\ MaskPart(S, n)

Inv(S) ==
  /\ S \in States
  /\ \E n \in Nat : Running(S, n)
  /\ \A t \in Tasks : Saved(S.tcb[t])

-----------------------------------------------------------------------------
(* Sequences of frames.                                                    *)

(* t is s with its top somewhere else.                                     *)
Moved(s, t, at) ==
  /\ t \in Seq(Frames) /\ Len(t) = Len(s)
  /\ \A i \in 1 .. Len(s) : /\ i # 1 => t[i] = s[i]
                            /\ t[i].kind = s[i].kind
                            /\ t[i].lvl = s[i].lvl
                            /\ t[i].ipm = s[i].ipm
                            /\ t[i].locked = s[i].locked
  /\ t[1].at = at

LEMMA GotoFacts ==
  ASSUME NEW s \in Seq(Frames), Len(s) > 0, NEW at \in Places,
         NEW t, t = [s EXCEPT ![1].at = at]
  PROVE  Moved(s, t, at)
<1>1. s[1] \in Frames
  OBVIOUS
<1>2. [s[1] EXCEPT !.at = at] \in Frames
  BY <1>1 DEF Frames
<1> DEFINE f == [s[1] EXCEPT !.at = at]
<1>3. t = [s EXCEPT ![1] = f]
  OBVIOUS
<1>4. f.at = at /\ f.kind = s[1].kind /\ f.lvl = s[1].lvl
      /\ f.ipm = s[1].ipm /\ f.locked = s[1].locked
  BY <1>1 DEF Frames
<1> HIDE DEF f
<1>5. t \in Seq(Frames) /\ Len(t) = Len(s) /\ t[1] = f
      /\ \A i \in 1 .. Len(s) : i # 1 => t[i] = s[i]
  BY <1>2, <1>3 DEF f
<1> QED
  BY <1>4, <1>5 DEF Moved

(* t is s under one more frame.                                            *)
Over(s, t) ==
  /\ t \in Seq(Frames) /\ Len(t) = Len(s) + 1
  /\ \A i \in 1 .. Len(s) : t[i + 1] = s[i]
  /\ \A i \in 2 .. Len(t) : t[i] = s[i - 1]
  /\ Last(t) = Last(s)

LEMMA PushFacts ==
  ASSUME NEW s \in Seq(Frames), Len(s) > 0, NEW f \in Frames
  PROVE  Over(s, <<f>> \o s) /\ (<<f>> \o s)[1] = f
<1> DEFINE t == <<f>> \o s
<1>1. t \in Seq(Frames) /\ Len(t) = Len(s) + 1 /\ t[1] = f
  OBVIOUS
<1>2. \A i \in 1 .. Len(s) : t[i + 1] = s[i]
  OBVIOUS
<1>3. \A i \in 2 .. Len(t) : t[i] = s[i - 1]
  OBVIOUS
<1> QED
  BY <1>1, <1>2, <1>3 DEF Last, Over

LEMMA PopFacts ==
  ASSUME NEW s \in Seq(Frames), Len(s) > 1,
         NEW t, t = Tail(s)
  PROVE  /\ t \in Seq(Frames) /\ Len(t) = Len(s) - 1
         /\ \A i \in 1 .. Len(t) : t[i] = s[i + 1]
         /\ Last(t) = Last(s)
<1>1. t \in Seq(Frames) /\ Len(t) = Len(s) - 1 /\ Len(s) \in Nat
  OBVIOUS
<1>2. \A i \in 1 .. Len(t) : t[i] = s[i + 1]
  OBVIOUS
<1> QED
  BY <1>1, <1>2 DEF Last

(* What the top frame says of the number of handlers in progress.          *)
LEMMA TopFacts ==
  ASSUME NEW s, NEW n \in Nat, Shape(s, n)
  PROVE  /\ Len(s) \in Nat /\ Len(s) > 0 /\ Head(s) = s[1] /\ s[1] \in Frames
         /\ InProgress(s[1]) <=> n > 0
         /\ s[1].kind \in {"task", "idle", "dispatcher"} =>
              n = 0 /\ Len(s) = 1 /\ Last(s) = s[1]
         /\ s[1].at \in {"start_r", "dispatch_r", "dispatcher"} =>
              n = 0 /\ Len(s) = 1 /\ Last(s) = s[1]
         /\ s[1].at = "ret_int_r" =>
              n = 0 /\ Len(s) > 1 /\ s[1].ipm = 0
<1>1. Len(s) \in Nat /\ Len(s) > 0 /\ Head(s) = s[1] /\ s[1] \in Frames
  BY DEF Shape
<1>2. CASE n > 0
  <2>1. InProgress(s[1])
    BY <1>2 DEF Shape
  <2> QED
    BY <1>1, <1>2, <2>1 DEF InProgress
<1>3. CASE n = 0 /\ Len(s) > 1
  <2>1. s[1].kind \in {"int", "exc"} /\ s[1].at = "ret_int_r" /\ s[1].ipm = 0
    BY <1>1, <1>3 DEF Shape
  <2> QED
    BY <1>1, <1>3, <2>1 DEF InProgress
<1>4. CASE n = 0 /\ Len(s) = 1
  <2>1. Last(s) = s[1]
    BY <1>4 DEF Last
  <2> QED
    BY <1>1, <1>4, <2>1 DEF InProgress, Shape
<1>5. n > 0 \/ (n = 0 /\ Len(s) > 1) \/ (n = 0 /\ Len(s) = 1)
  <2> DEFINE L == Len(s)
  <2>1. L \in Nat /\ L > 0
    BY <1>1
  <2> HIDE DEF L
  <2>2. n > 0 \/ (n = 0 /\ L > 1) \/ (n = 0 /\ L = 1)
    BY <2>1
  <2> QED
    BY <2>2 DEF L
<1> QED
  BY <1>2, <1>3, <1>4, <1>5

(* With the task's mask open, the outermost handler saved the level 0, and *)
(* a context with no handler in progress has it.                           *)
LEMMA OpenFacts ==
  ASSUME NEW S, NEW n \in Nat, Running(S, n), S.ipmflg
  PROVE  /\ n = 0 => S.current_intpri = 0 /\ S.ispr = {}
         /\ n > 0 => S.stack[n].ipm = 0
<1>1. Intpri(S, n) = 0
  BY DEF Running, MaskPart, INTPRI_ENAALL
<1> QED
  BY <1>1 DEF Intpri, Running, LevelsPart

-----------------------------------------------------------------------------
(* The steps that change nothing but where the top is.                     *)

LEMMA GotoRunning ==
  ASSUME NEW S, NEW T, NEW n \in Nat, NEW at \in {"user", "kernel"},
         Running(S, n), Moved(S.stack, T.stack, at),
         n > 0 \/ S.stack[1].kind = "task",
         T.intnest = S.intnest, T.ispr = S.ispr, T.ipmflg = S.ipmflg,
         T.current_intpri = S.current_intpri,
         n = 0 /\ at = "user" => T.imr = T.current_intpri /\ ~T.lock_flag
  PROVE  Running(T, n) /\ T.stack \in Seq(Frames)
<1> DEFINE s == S.stack  t == T.stack
<1>1. Shape(s, n) /\ s \in Seq(Frames) /\ n < Len(s) /\ Len(s) \in Nat
  BY DEF Running, Shape
<1>2. /\ t \in Seq(Frames) /\ Len(t) = Len(s)
      /\ \A i \in 1 .. Len(s) : /\ i # 1 => t[i] = s[i]
                                /\ t[i].kind = s[i].kind
                                /\ t[i].lvl = s[i].lvl
                                /\ t[i].ipm = s[i].ipm
                                /\ t[i].locked = s[i].locked
      /\ t[1].at = at
  BY DEF Moved
<1>3. Last(t) = t[Len(s)] /\ Last(s) = s[Len(s)]
  BY <1>2 DEF Last
<1>4. n = 0 => Len(s) = 1 /\ s[1].kind = "task"
  BY <1>1, TopFacts
<1> HIDE DEF s, t
<1>5. Shape(t, n)
  <2>1. \A i \in 1 .. n : InProgress(t[i])
    BY <1>1, <1>2 DEF Shape, InProgress
  <2>2. \A i \in n + 1 .. Len(t) - 1 :
          t[i].kind \in {"int", "exc"} /\ t[i].at = "ret_int_r" /\ t[i].ipm = 0
    BY <1>1, <1>2, <1>4 DEF Shape
  <2>3. n > 0 => Last(t) = Last(s)
    BY <1>1, <1>2, <1>3
  <2> QED
    BY <1>1, <1>2, <1>3, <1>4, <2>1, <2>2, <2>3 DEF Shape
<1>6. Last(t).kind = Last(s).kind
  BY <1>1, <1>2, <1>3
<1>7. NestPart(T, n)
  BY <1>6 DEF Running, NestPart, s, t
<1>8. \A i \in 1 .. n : /\ IntAt(T, i) <=> IntAt(S, i)
                        /\ t[i].lvl = s[i].lvl
  BY <1>1, <1>2 DEF IntAt, s, t
<1>9. LevelsPart(T, n)
  BY <1>8 DEF Running, LevelsPart, s, t
<1>10. \A i \in 0 .. n : Intpri(T, i) = Intpri(S, i)
  BY <1>1, <1>2 DEF Intpri, s, t
<1>11. IntpriPart(T, n)
  <2>1. IntpriPart(S, n)
    BY DEF Running
  <2>2. \A i \in 1 .. n : i - 1 \in 0 .. n /\ i \in 0 .. n
    OBVIOUS
  <2> QED
    BY <1>8, <1>10, <2>1, <2>2 DEF IntpriPart, s, t
<1>12. MaskPart(T, n)
  <2>1. TaskUser(t, n) /\ n > 0 => TaskUser(s, n)
    BY <1>1, <1>2, <1>3 DEF TaskUser
  <2>2. ~T.ipmflg => /\ Len(t) = n + 1 /\ Last(t).kind = "task"
                     /\ Last(t).at \in {"user", "kernel"}
    BY <1>1, <1>2, <1>3, <1>4, <1>6 DEF Running, MaskPart, s, t
  <2>3. TaskUser(t, n) /\ n = 0 => at = "user"
    BY <1>2, <1>3, <1>4 DEF TaskUser
  <2>4. n > 0 => t[n].kind = s[n].kind /\ t[n].locked = s[n].locked
    BY <1>1, <1>2
  <2> QED
    BY <1>10, <2>1, <2>2, <2>3, <2>4 DEF Running, MaskPart, s, t
<1> QED
  BY <1>2, <1>5, <1>7, <1>9, <1>11, <1>12 DEF Running, t

-----------------------------------------------------------------------------
(* A handler comes in, or ends.                                            *)

LEMMA OverShape ==
  ASSUME NEW s \in Seq(Frames), NEW t, NEW n \in Nat, Over(s, t),
         InProgress(t[1])
  PROVE  Shape(s, n) <=> Shape(t, n + 1)
<1>1. /\ t \in Seq(Frames) /\ Len(t) = Len(s) + 1 /\ Len(s) \in Nat
      /\ Last(t) = Last(s)
  BY DEF Over
<1>2. ASSUME n < Len(s)
      PROVE  (\A i \in 1 .. n : InProgress(s[i]))
             <=> (\A i \in 1 .. n + 1 : InProgress(t[i]))
  <2>1. ASSUME \A i \in 1 .. n : InProgress(s[i]),
               NEW i \in 1 .. n + 1
        PROVE  InProgress(t[i])
    <3>1. CASE i = 1
      BY <3>1
    <3>2. CASE i \in 2 .. n + 1
      <4>1. i - 1 \in 1 .. n /\ t[i] = s[i - 1]
        BY <1>1, <1>2, <2>1, <3>2 DEF Over
      <4> QED
        BY <2>1, <4>1
    <3> QED
      BY <3>1, <3>2
  <2>2. ASSUME \A i \in 1 .. n + 1 : InProgress(t[i]),
               NEW i \in 1 .. n
        PROVE  InProgress(s[i])
    <3>1. i + 1 \in 1 .. n + 1 /\ t[i + 1] = s[i]
      BY <1>1, <1>2, <2>2 DEF Over
    <3> QED
      BY <2>2, <3>1
  <2> QED
    BY <2>1, <2>2
<1> DEFINE E(f) == f.kind \in {"int", "exc"} /\ f.at = "ret_int_r"
                   /\ f.ipm = 0
<1>3. (\A i \in n + 1 .. Len(s) - 1 : E(s[i]))
      <=> (\A i \in n + 2 .. Len(t) - 1 : E(t[i]))
  <2> HIDE DEF E
  <2>1. ASSUME \A i \in n + 1 .. Len(s) - 1 : E(s[i]),
               NEW i \in n + 2 .. Len(t) - 1
        PROVE  E(t[i])
    <3>1. i - 1 \in n + 1 .. Len(s) - 1 /\ t[i] = s[i - 1]
      BY <1>1 DEF Over
    <3> QED
      BY <2>1, <3>1
  <2>2. ASSUME \A i \in n + 2 .. Len(t) - 1 : E(t[i]),
               NEW i \in n + 1 .. Len(s) - 1
        PROVE  E(s[i])
    <3>1. i + 1 \in n + 2 .. Len(t) - 1 /\ t[i + 1] = s[i]
      BY <1>1 DEF Over
    <3> QED
      BY <2>2, <3>1
  <2> QED
    BY <2>1, <2>2
<1>4. /\ n < Len(s) <=> n + 1 < Len(t)
      /\ Len(s) = n + 1 <=> Len(t) = n + 1 + 1
      /\ n + 1 + 1 = n + 2
  BY <1>1
<1> QED
  BY <1>1, <1>2, <1>3, <1>4 DEF Shape

(* The levels and masks of the handlers, seen one deeper.                  *)
Deeper(S, T, n) ==
  /\ \A i \in 0 .. n : Intpri(T, i + 1) = Intpri(S, i)
  /\ \A i \in 1 .. n : IntAt(T, i + 1) <=> IntAt(S, i)
  /\ \A i \in 1 .. n : T.stack[i + 1] = S.stack[i]

LEMMA OverIntpri ==
  ASSUME NEW S, NEW T, NEW n \in Nat, S.stack \in Seq(Frames),
         Over(S.stack, T.stack), n < Len(S.stack),
         T.stack[1].ipm = S.current_intpri
  PROVE  Deeper(S, T, n)
<1> DEFINE s == S.stack  t == T.stack
<1>1. /\ \A i \in 1 .. Len(s) : t[i + 1] = s[i]
      /\ Len(s) \in Nat
  BY DEF Over
<1>2. \A i \in 1 .. n : t[i + 1] = s[i]
  BY <1>1
<1>3. ASSUME NEW i \in 0 .. n
      PROVE  Intpri(T, i + 1) = Intpri(S, i)
  <2>1. CASE i = 0
    BY <2>1 DEF Intpri
  <2>2. CASE i \in 1 .. n
    BY <1>2, <2>2 DEF Intpri
  <2> QED
    BY <2>1, <2>2
<1> QED
  BY <1>2, <1>3 DEF IntAt, Deeper

LEMMA OverIntpriPart ==
  ASSUME NEW S, NEW T, NEW n \in Nat, S.stack \in Seq(Frames),
         Over(S.stack, T.stack), n < Len(S.stack),
         T.stack[1].ipm = S.current_intpri,
         T.stack[1].kind = "int" => T.current_intpri = T.stack[1].lvl,
         T.stack[1].kind # "int" => T.current_intpri = S.current_intpri
  PROVE  IntpriPart(S, n) <=> IntpriPart(T, n + 1)
<1>1. /\ \A i \in 0 .. n : Intpri(T, i + 1) = Intpri(S, i)
      /\ \A i \in 1 .. n : IntAt(T, i + 1) <=> IntAt(S, i)
      /\ \A i \in 1 .. n : T.stack[i + 1] = S.stack[i]
  BY OverIntpri DEF Deeper
<1>2. Intpri(T, 0) = T.current_intpri /\ Intpri(S, 0) = S.current_intpri
      /\ (IntAt(T, 1) <=> T.stack[1].kind = "int")
  BY DEF Intpri, IntAt
<1>3. ASSUME IntpriPart(S, n),
             NEW i \in 0 .. n + 1, NEW j \in 1 .. n + 1,
             i < j, IntAt(T, j), \A k \in i + 1 .. j - 1 : ~IntAt(T, k)
      PROVE  Intpri(T, i) = T.stack[j].lvl
  <2>1. CASE i = 0 /\ j = 1
    BY <1>2, <1>3, <2>1
  <2>2. CASE i = 0 /\ j > 1
    <3>1. ~IntAt(T, 1)
      BY <1>3, <2>2
    <3>2. j - 1 \in 1 .. n /\ IntAt(S, j - 1) /\ T.stack[j] = S.stack[j - 1]
      BY <1>1, <1>3, <2>2
    <3>3. ASSUME NEW k \in 1 .. j - 2
          PROVE  ~IntAt(S, k)
      <4>1. k + 1 \in i + 1 .. j - 1 /\ k \in 1 .. n
        BY <2>2
      <4> QED
        BY <1>1, <1>3, <4>1
    <3>4. Intpri(S, 0) = S.stack[j - 1].lvl
      <4>1. 0 \in 0 .. n /\ 0 < j - 1 /\ j - 1 - 1 = j - 2 /\ 0 + 1 = 1
        BY <2>2
      <4> QED
        BY <1>3, <3>2, <3>3, <4>1 DEF IntpriPart
    <3> QED
      BY <1>2, <2>2, <3>1, <3>2, <3>4
  <2>3. CASE i > 0
    <3>1. i - 1 \in 0 .. n /\ j - 1 \in 1 .. n /\ i - 1 < j - 1
          /\ i - 1 + 1 = i /\ j - 1 + 1 = j
      BY <1>3, <2>3
    <3>2. IntAt(S, j - 1) /\ T.stack[j] = S.stack[j - 1]
          /\ Intpri(T, i) = Intpri(S, i - 1)
      BY <1>1, <1>3, <3>1
    <3>3. ASSUME NEW k \in (i - 1) + 1 .. (j - 1) - 1
          PROVE  ~IntAt(S, k)
      <4>1. k + 1 \in i + 1 .. j - 1 /\ k \in 1 .. n
        BY <2>3
      <4> QED
        BY <1>1, <1>3, <4>1
    <3> QED
      BY <1>3, <3>1, <3>2, <3>3 DEF IntpriPart
  <2> QED
    BY <1>3, <2>1, <2>2, <2>3
<1>4. ASSUME IntpriPart(T, n + 1), NEW i \in 0 .. n, NEW j \in 1 .. n,
             i < j, IntAt(S, j), \A k \in i + 1 .. j - 1 : ~IntAt(S, k)
      PROVE  Intpri(S, i) = S.stack[j].lvl
  <2>1. i + 1 \in 0 .. n + 1 /\ j + 1 \in 1 .. n + 1 /\ i + 1 < j + 1
    BY <1>4
  <2>2. IntAt(T, j + 1) /\ Intpri(T, i + 1) = Intpri(S, i)
        /\ T.stack[j + 1] = S.stack[j]
    BY <1>1, <1>4
  <2>3. ASSUME NEW k \in (i + 1) + 1 .. (j + 1) - 1
        PROVE  ~IntAt(T, k)
    <3>1. k - 1 \in i + 1 .. j - 1 /\ k - 1 \in 1 .. n /\ k - 1 + 1 = k
      OBVIOUS
    <3> QED
      BY <1>1, <1>4, <3>1
  <2> QED
    BY <1>4, <2>1, <2>2, <2>3 DEF IntpriPart
<1>5. ASSUME IntpriPart(S, n), NEW i \in 1 .. n + 1, ~IntAt(T, i)
      PROVE  Intpri(T, i - 1) = Intpri(T, i)
  <2>1. CASE i = 1
    <3>1. 0 \in 0 .. n /\ 0 + 1 = 1
      OBVIOUS
    <3>2. Intpri(T, 1) = Intpri(S, 0)
      BY <1>1, <3>1
    <3>3. i - 1 = 0
      BY <2>1
    <3> QED
      BY <1>2, <1>5, <2>1, <3>2, <3>3
  <2>2. CASE i > 1
    <3>1. i - 1 \in 1 .. n /\ i - 1 - 1 \in 0 .. n /\ i - 1 \in 0 .. n
          /\ i - 1 + 1 = i /\ i - 1 - 1 + 1 = i - 1
      BY <2>2
    <3>2. ~IntAt(S, i - 1) /\ Intpri(T, i) = Intpri(S, i - 1)
          /\ Intpri(T, i - 1) = Intpri(S, i - 1 - 1)
      BY <1>1, <1>5, <3>1
    <3> QED
      BY <1>5, <3>1, <3>2 DEF IntpriPart
  <2> QED
    BY <2>1, <2>2
<1>6. ASSUME IntpriPart(T, n + 1), NEW i \in 1 .. n, ~IntAt(S, i)
      PROVE  Intpri(S, i - 1) = Intpri(S, i)
  <2>1. i \in 0 .. n /\ i - 1 \in 0 .. n /\ i - 1 + 1 = i
        /\ i + 1 \in 1 .. n + 1 /\ i + 1 - 1 = i
    OBVIOUS
  <2>2. ~IntAt(T, i + 1) /\ Intpri(T, i + 1) = Intpri(S, i)
        /\ Intpri(T, i) = Intpri(S, i - 1)
    BY <1>1, <1>6, <2>1
  <2> QED
    BY <1>6, <2>1, <2>2 DEF IntpriPart
<1>7. IntpriPart(S, n) => IntpriPart(T, n + 1)
  BY <1>3, <1>5 DEF IntpriPart
<1>8. IntpriPart(T, n + 1) => IntpriPart(S, n)
  BY <1>4, <1>6 DEF IntpriPart
<1> QED
  BY <1>7, <1>8

LEMMA Pushed ==
  ASSUME NEW S, NEW T, NEW n \in Nat, Running(S, n),
         S.intnest \in Nat, S.ispr \subseteq Nat,
         Over(S.stack, T.stack), InProgress(T.stack[1]),
         T.stack[1].ipm = S.current_intpri, T.stack[1].lvl \in Nat,
         T.intnest = S.intnest + 1, T.ipmflg = S.ipmflg,
         T.stack[1].kind = "int" =>
           /\ T.current_intpri = T.stack[1].lvl
           /\ T.ispr = S.ispr \cup {T.stack[1].lvl}
           /\ \A m \in S.ispr : m < T.stack[1].lvl,
         T.stack[1].kind = "exc" =>
           /\ T.current_intpri = S.current_intpri
           /\ T.ispr = S.ispr
           /\ T.stack[1].locked = S.lock_flag
  PROVE  Running(T, n + 1)
<1> DEFINE s == S.stack  t == T.stack
<1>1. /\ Shape(s, n) /\ s \in Seq(Frames) /\ n < Len(s) /\ Len(s) \in Nat
      /\ Last(t) = Last(s) /\ Len(t) = Len(s) + 1
  BY DEF Running, Shape, Over
<1>2. t[1].kind \in {"int", "exc"}
  BY DEF InProgress
<1>3. Shape(t, n + 1)
  BY <1>1, OverShape
<1>4. NestPart(T, n + 1)
  BY <1>1 DEF Running, NestPart
<1>5. IntpriPart(T, n + 1)
  BY <1>1, <1>2, OverIntpriPart DEF Running
<1>6. /\ \A i \in 0 .. n : Intpri(T, i + 1) = Intpri(S, i)
      /\ \A i \in 1 .. n : IntAt(T, i + 1) <=> IntAt(S, i)
      /\ \A i \in 1 .. n : T.stack[i + 1] = S.stack[i]
  <2>1. Deeper(S, T, n)
    BY <1>1, OverIntpri
  <2> QED
    BY <2>1 DEF Deeper
<1>7. LevelsPart(T, n + 1)
  <2>1. LevelsPart(S, n)
    BY DEF Running
  <2>2. ASSUME NEW i \in 2 .. n + 1
        PROVE  /\ i - 1 \in 1 .. n /\ t[i] = s[i - 1]
               /\ IntAt(T, i) <=> IntAt(S, i - 1)
    <3>1. i - 1 \in 1 .. n /\ i - 1 + 1 = i
      OBVIOUS
    <3> QED
      BY <1>6, <3>1
  <2>3. T.ispr = {t[i].lvl : i \in {j \in 1 .. n + 1 : IntAt(T, j)}}
    <3>1. ASSUME NEW i \in 1 .. n + 1, IntAt(T, i)
          PROVE  t[i].lvl \in T.ispr
      <4>1. CASE i = 1
        BY <3>1, <4>1 DEF IntAt
      <4>2. CASE i \in 2 .. n + 1
        <5>1. s[i - 1].lvl \in S.ispr
          BY <2>1, <2>2, <3>1, <4>2 DEF LevelsPart
        <5> QED
          BY <1>2, <2>2, <4>2, <5>1
      <4> QED
        BY <4>1, <4>2
    <3>2. ASSUME NEW m \in T.ispr
          PROVE  \E i \in 1 .. n + 1 : IntAt(T, i) /\ m = t[i].lvl
      <4>1. CASE m \in S.ispr
        <5>1. PICK i \in 1 .. n : IntAt(S, i) /\ m = s[i].lvl
          BY <2>1, <4>1 DEF LevelsPart
        <5>2. i + 1 \in 1 .. n + 1 /\ IntAt(T, i + 1) /\ t[i + 1] = s[i]
          BY <1>6, <5>1
        <5> QED
          BY <5>1, <5>2
      <4>2. CASE t[1].kind = "int" /\ m = t[1].lvl
        <5>1. 1 \in 1 .. n + 1 /\ IntAt(T, 1)
          BY <4>2 DEF IntAt
        <5> QED
          BY <4>2, <5>1
      <4> QED
        BY <1>2, <4>1, <4>2
    <3> QED
      BY <3>1, <3>2
  <2>4. ASSUME NEW i \in 1 .. n + 1, NEW j \in 1 .. n + 1,
               IntAt(T, i), IntAt(T, j), i < j
        PROVE  t[i].lvl > t[j].lvl
    <3>1. j \in 2 .. n + 1
      BY <2>4
    <3>2. s[j - 1].lvl \in S.ispr /\ t[j] = s[j - 1]
      BY <2>1, <2>2, <2>4, <3>1 DEF LevelsPart
    <3>3. CASE i = 1
      <4>1. t[1].kind = "int"
        BY <2>4, <3>3 DEF IntAt
      <4> QED
        BY <3>2, <3>3, <4>1
    <3>4. CASE i \in 2 .. n + 1
      <4>1. /\ IntAt(S, i - 1) /\ IntAt(S, j - 1) /\ i - 1 < j - 1
            /\ i - 1 \in 1 .. n /\ j - 1 \in 1 .. n /\ t[i] = s[i - 1]
        BY <2>2, <2>4, <3>1, <3>4
      <4> QED
        BY <2>1, <3>2, <4>1 DEF LevelsPart
    <3> QED
      BY <3>3, <3>4
  <2> QED
    BY <2>3, <2>4 DEF LevelsPart
<1>8. MaskPart(T, n + 1)
  <2>1. Intpri(T, n + 1) = Intpri(S, n)
    BY <1>6
  <2>2. TaskUser(t, n + 1) => TaskUser(s, n)
    BY <1>1 DEF TaskUser
  <2>3. n > 0 => t[n + 1] = s[n]
    BY <1>6
  <2>4. /\ n + 1 # 0
        /\ Len(t) = n + 1 + 1 <=> Len(s) = n + 1
    BY <1>1
  <2>5. n = 0 => n + 1 = 1
    OBVIOUS
  <2>6. MaskPart(S, n)
    BY DEF Running
  <2>7. TaskUser(t, n + 1) /\ t[n + 1].kind = "exc" => ~t[n + 1].locked
    BY <2>2, <2>3, <2>5, <2>6 DEF MaskPart
  <2> QED
    BY <1>1, <2>1, <2>4, <2>6, <2>7 DEF MaskPart
<1> QED
  BY <1>3, <1>4, <1>5, <1>7, <1>8 DEF Running

(* The highest level in service is that of the innermost handler.          *)
LEMMA Popped ==
  ASSUME NEW S, NEW T, NEW n \in Nat, Running(S, n + 1),
         T.intnest \in Nat, S.intnest \in Nat,
         S.ispr \subseteq Nat, T.stack \in Seq(Frames),
         Over(T.stack, S.stack), n < Len(T.stack),
         T.current_intpri = S.stack[1].ipm, T.imr = T.current_intpri,
         T.intnest = S.intnest - 1, T.ipmflg = S.ipmflg,
         S.stack[1].kind = "int" =>
           /\ T.ispr = S.ispr \ {m \in S.ispr : \A l \in S.ispr : l <= m}
           /\ ~T.lock_flag,
         S.stack[1].kind = "exc" =>
           /\ T.ispr = S.ispr
           /\ T.lock_flag => S.stack[1].locked
  PROVE  Running(T, n)
<1> DEFINE s == S.stack  t == T.stack
<1>1. /\ Shape(s, n + 1) /\ Last(s) = Last(t) /\ Len(s) = Len(t) + 1
      /\ Len(t) \in Nat /\ s \in Seq(Frames)
  BY DEF Running, Shape, Over
<1>2. InProgress(s[1]) /\ s[1].kind \in {"int", "exc"}
  <2>1. 1 \in 1 .. n + 1
    OBVIOUS
  <2> QED
    BY <1>1, <2>1 DEF Shape, InProgress
<1>3. Shape(t, n)
  BY <1>1, <1>2, OverShape
<1>4. NestPart(T, n)
  BY <1>1 DEF Running, NestPart
<1>5. /\ \A i \in 0 .. n : Intpri(S, i + 1) = Intpri(T, i)
      /\ \A i \in 1 .. n : IntAt(S, i + 1) <=> IntAt(T, i)
      /\ \A i \in 1 .. n : s[i + 1] = t[i]
  <2>1. Deeper(T, S, n)
    BY <1>1, OverIntpri
  <2> QED
    BY <2>1 DEF Deeper
<1>6. IntpriPart(S, n + 1) /\ LevelsPart(S, n + 1) /\ MaskPart(S, n + 1)
  BY DEF Running
<1>7. IntpriPart(T, n)
  <2>0. 0 \in 0 .. n + 1 /\ 1 \in 1 .. n + 1 /\ 0 + 1 = 1 /\ 1 - 1 = 0
    OBVIOUS
  <2>1. s[1].kind = "int" => S.current_intpri = s[1].lvl
    <3>1. \A k \in 0 + 1 .. 1 - 1 : ~IntAt(S, k)
      OBVIOUS
    <3>2. ASSUME IntAt(S, 1)
          PROVE  Intpri(S, 0) = s[1].lvl
      BY <1>6, <2>0, <3>1, <3>2 DEF IntpriPart
    <3> QED
      BY <3>2 DEF IntAt, Intpri
  <2>2. s[1].kind # "int" => S.current_intpri = T.current_intpri
    <3>1. ~IntAt(S, 1) => Intpri(S, 1 - 1) = Intpri(S, 1)
      BY <1>6, <2>0 DEF IntpriPart
    <3> QED
      BY <2>0, <3>1 DEF IntAt, Intpri
  <2> QED
    BY <1>6, <2>1, <2>2, OverIntpriPart
<1>8. LevelsPart(T, n)
  <2>1. ASSUME NEW i \in 1 .. n + 1, IntAt(S, i)
        PROVE  s[i].lvl \in S.ispr /\ s[i].lvl \in Nat
    BY <1>6, <2>1 DEF LevelsPart
  <2>2. ASSUME NEW i \in 1 .. n, IntAt(T, i)
        PROVE  t[i].lvl \in T.ispr
    <3>1. i + 1 \in 1 .. n + 1 /\ IntAt(S, i + 1) /\ s[i + 1] = t[i]
      BY <1>5, <2>2
    <3>2. t[i].lvl \in S.ispr
      BY <2>1, <3>1
    <3>3. ASSUME s[1].kind = "int"
          PROVE  s[1].lvl \in S.ispr /\ t[i].lvl < s[1].lvl
      <4>1. 1 \in 1 .. n + 1 /\ IntAt(S, 1) /\ 1 < i + 1
        BY <3>3 DEF IntAt
      <4>2. s[1].lvl > s[i + 1].lvl
        BY <1>6, <3>1, <4>1 DEF LevelsPart
      <4>3. s[1].lvl \in S.ispr /\ s[1].lvl \in Nat
        BY <2>1, <4>1
      <4>4. t[i].lvl \in Nat
        BY <3>2
      <4> QED
        BY <3>1, <4>2, <4>3, <4>4
    <3>4. s[1].kind = "int" => ~(\A l \in S.ispr : l <= t[i].lvl)
      <4>1. s[1].kind = "int" => s[1].lvl \in Nat /\ t[i].lvl \in Nat
        BY <3>2, <3>3
      <4> QED
        BY <3>3, <4>1
    <3> QED
      BY <1>2, <3>2, <3>4
  <2>3. ASSUME NEW m \in T.ispr
        PROVE  \E i \in 1 .. n : IntAt(T, i) /\ m = t[i].lvl
    <3>1. m \in S.ispr
      BY <1>2
    <3>2. PICK i \in 1 .. n + 1 : IntAt(S, i) /\ m = s[i].lvl
      BY <1>6, <3>1 DEF LevelsPart
    <3>3. i # 1
      <4>1. SUFFICES ASSUME i = 1
                     PROVE  FALSE
        OBVIOUS
      <4>2. s[1].kind = "int"
        BY <3>2, <4>1 DEF IntAt
      <4>3. ASSUME NEW l \in S.ispr
            PROVE  l <= m
        <5>1. PICK j \in 1 .. n + 1 : IntAt(S, j) /\ l = s[j].lvl
          BY <1>6 DEF LevelsPart
        <5>2. CASE j = 1
          BY <3>1, <3>2, <4>1, <5>1, <5>2
        <5>3. CASE 1 < j
          <6>1. s[1].lvl > s[j].lvl
            BY <1>6, <3>2, <4>1, <5>1, <5>3 DEF LevelsPart
          <6> QED
            BY <3>1, <3>2, <4>1, <5>1, <6>1
        <5> QED
          BY <5>2, <5>3
      <4> QED
        BY <3>1, <4>2, <4>3
    <3>4. i - 1 \in 1 .. n /\ i - 1 + 1 = i
      BY <3>3
    <3>5. IntAt(T, i - 1) /\ t[i - 1] = s[i]
      BY <1>5, <3>2, <3>4
    <3> QED
      BY <3>2, <3>4, <3>5
  <2>4. T.ispr = {t[i].lvl : i \in {j \in 1 .. n : IntAt(T, j)}}
    BY <2>2, <2>3
  <2>5. ASSUME NEW i \in 1 .. n, NEW j \in 1 .. n,
               IntAt(T, i), IntAt(T, j), i < j
        PROVE  t[i].lvl > t[j].lvl
    <3>1. /\ i + 1 \in 1 .. n + 1 /\ j + 1 \in 1 .. n + 1 /\ i + 1 < j + 1
          /\ IntAt(S, i + 1) /\ IntAt(S, j + 1)
          /\ s[i + 1] = t[i] /\ s[j + 1] = t[j]
      BY <1>5, <2>5
    <3>2. s[i + 1].lvl > s[j + 1].lvl
      BY <1>6, <3>1 DEF LevelsPart
    <3> QED
      BY <3>1, <3>2
  <2> QED
    BY <2>4, <2>5 DEF LevelsPart
<1>9. MaskPart(T, n)
  <2>1. Intpri(S, n + 1) = Intpri(T, n)
    BY <1>5
  <2>2. /\ TaskUser(t, n) <=> TaskUser(s, n + 1)
        /\ Len(t) = n + 1 <=> Len(s) = n + 1 + 1
    BY <1>1, SMTT(30) DEF TaskUser
  <2>3. n > 0 => s[n + 1] = t[n]
    BY <1>5
  <2>4. TaskUser(t, n) /\ n = 0 => T.imr = T.current_intpri /\ ~T.lock_flag
    <3>1. n = 0 => n + 1 = 1 /\ n + 1 # 0
      OBVIOUS
    <3>2. TaskUser(t, n) /\ n = 0 /\ s[1].kind = "exc" => ~s[1].locked
      BY <1>6, <2>2, <3>1 DEF MaskPart
    <3> QED
      BY <1>2, <3>2
  <2>5. TaskUser(t, n) /\ n > 0 /\ t[n].kind = "exc" => ~t[n].locked
    <3>1. n + 1 # 0
      OBVIOUS
    <3> QED
      BY <1>6, <2>2, <2>3, <3>1 DEF MaskPart
  <2> QED
    BY <1>1, <1>6, <2>1, <2>2, <2>4, <2>5 DEF MaskPart
<1> QED
  BY <1>3, <1>4, <1>7, <1>8, <1>9 DEF Running

-----------------------------------------------------------------------------
(* What the steps do to the state.                                         *)

LEMMA Fields ==
  ASSUME NEW S \in States
  PROVE  /\ S.imr \in Nat /\ S.ispr \subseteq Nat /\ S.lock_flag \in BOOLEAN
         /\ S.current_intpri \in Nat /\ S.intnest \in Nat
         /\ S.ipmflg \in BOOLEAN /\ S.runtsk \in Tasks \cup {NULL}
         /\ S.stack \in Seq(Frames) /\ S.tcb \in [Tasks -> Seq(Frames)]
BY DEF States

(* Everything but the stack is as it was.                                  *)
SameBut(S, T) ==
  /\ T \in States
  /\ T.imr = S.imr /\ T.ispr = S.ispr /\ T.lock_flag = S.lock_flag
  /\ T.current_intpri = S.current_intpri /\ T.intnest = S.intnest
  /\ T.ipmflg = S.ipmflg /\ T.runtsk = S.runtsk /\ T.tcb = S.tcb

LEMMA GotoState ==
  ASSUME NEW S \in States, Len(S.stack) > 0, NEW at \in Places
  PROVE  SameBut(S, Goto(S, at)) /\ Moved(S.stack, Goto(S, at).stack, at)
<1> DEFINE t == [S.stack EXCEPT ![1].at = at]
<1>1. Goto(S, at) = [S EXCEPT !.stack = t]
  BY DEF Goto, States
<1>2. Moved(S.stack, t, at)
  BY GotoFacts, Fields
<1>3. t \in Seq(Frames)
  BY <1>2 DEF Moved
<1> HIDE DEF t
<1> QED
  BY <1>1, <1>2, <1>3 DEF SameBut, States

LEMMA PushState ==
  ASSUME NEW S \in States, Len(S.stack) > 0, NEW f \in Frames
  PROVE  /\ SameBut(S, Push(S, f)) /\ Over(S.stack, Push(S, f).stack)
         /\ Push(S, f).stack[1] = f
<1> DEFINE t == <<f>> \o S.stack
<1>1. Push(S, f) = [S EXCEPT !.stack = t]
  BY DEF Push, States
<1>2. Over(S.stack, t) /\ t[1] = f
  <2>1. S.stack \in Seq(Frames)
    BY Fields
  <2> QED
    BY <2>1, PushFacts
<1>3. t \in Seq(Frames)
  BY <1>2 DEF Over
<1> HIDE DEF t
<1> QED
  BY <1>1, <1>2, <1>3 DEF SameBut, States

LEMMA TailOver ==
  ASSUME NEW s \in Seq(Frames), Len(s) > 1
  PROVE  Over(Tail(s), s) /\ Tail(s) \in Seq(Frames)
<1> DEFINE t == Tail(s)
<1>1. /\ t \in Seq(Frames) /\ Len(t) = Len(s) - 1
      /\ \A i \in 1 .. Len(t) : t[i] = s[i + 1]
      /\ Last(t) = Last(s)
  BY PopFacts
<1>2. Len(s) \in Nat
  OBVIOUS
<1> HIDE DEF t
<1>3. \A i \in 2 .. Len(s) : i - 1 \in 1 .. Len(t) /\ i - 1 + 1 = i
  BY <1>1, <1>2
<1>4. \A i \in 2 .. Len(s) : s[i] = t[i - 1]
  BY <1>1, <1>3
<1>5. Len(s) = Len(t) + 1
  BY <1>1, <1>2
<1>6. Over(t, s)
  BY <1>1, <1>4, <1>5 DEF Over
<1> QED
  BY <1>1, <1>6 DEF t

LEMMA KeepInv ==
  ASSUME NEW S, NEW T, NEW n \in Nat, Inv(S), T \in States,
         T.tcb = S.tcb, Running(T, n)
  PROVE  Inv(T)
BY DEF Inv

(* A switch: the mask is open, none in progress and none in service.       *)
LEMMA Fresh ==
  ASSUME NEW T, T.stack = dispatcher, T.intnest = 0, T.ispr = {},
         T.current_intpri = 0, T.ipmflg
  PROVE  Running(T, 0)
<1> DEFINE f == Frame("dispatcher", "dispatcher")
<1>1. /\ f \in Frames /\ f.kind = "dispatcher" /\ f.at = "dispatcher"
  BY DEF Frame, Frames, Kinds, Places
<1>2. T.stack = <<f>>
  BY DEF dispatcher
<1> HIDE DEF f
<1>3. /\ T.stack \in Seq(Frames) /\ Len(T.stack) = 1 /\ T.stack[1] = f
      /\ Last(T.stack) = f
  BY <1>1, <1>2 DEF Last
<1>4. Shape(T.stack, 0)
  BY <1>1, <1>3 DEF Shape
<1>5. NestPart(T, 0)
  BY <1>1, <1>3 DEF NestPart
<1>6. LevelsPart(T, 0)
  BY DEF LevelsPart
<1>7. IntpriPart(T, 0)
  BY DEF IntpriPart
<1>8. MaskPart(T, 0)
  BY <1>1, <1>3 DEF MaskPart, Intpri, TaskUser, INTPRI_ENAALL
<1> QED
  BY <1>4, <1>5, <1>6, <1>7, <1>8 DEF Running

LEMMA SavedDispatch ==
  ASSUME NEW s, NEW t, Shape(s, 0), s[1].kind = "task",
         Moved(s, t, "dispatch_r")
  PROVE  Saved(t)
<1>1. Len(s) = 1
  BY TopFacts
<1>2. /\ t \in Seq(Frames) /\ Len(t) = 1
      /\ t[1].kind = "task" /\ t[1].at = "dispatch_r"
  BY <1>1 DEF Moved
<1>3. Last(t) = t[1]
  BY <1>2 DEF Last
<1> QED
  BY <1>2, <1>3 DEF Saved, Shape

LEMMA SavedRetInt ==
  ASSUME NEW s, NEW t, Shape(s, 1), s[1].ipm = 0, Last(s).kind # "idle",
         Moved(s, t, "ret_int_r")
  PROVE  Saved(t)
<1>1. /\ s \in Seq(Frames) /\ Len(s) > 1 /\ Len(s) \in Nat
      /\ InProgress(s[1])
  BY DEF Shape
<1>2. /\ t \in Seq(Frames) /\ Len(t) = Len(s)
      /\ \A i \in 1 .. Len(s) : i # 1 => t[i] = s[i]
      /\ t[1].kind = s[1].kind /\ t[1].ipm = 0 /\ t[1].at = "ret_int_r"
  BY <1>1 DEF Moved
<1>3. Last(t) = Last(s)
  BY <1>1, <1>2 DEF Last
<1>4. ASSUME NEW i \in 0 + 1 .. Len(t) - 1
      PROVE  t[i].kind \in {"int", "exc"} /\ t[i].at = "ret_int_r"
             /\ t[i].ipm = 0
  <2>1. CASE i = 1
    BY <1>1, <1>2, <2>1 DEF InProgress
  <2>2. CASE i \in 1 + 1 .. Len(s) - 1
    <3>1. t[i] = s[i]
      BY <1>1, <1>2, <2>2
    <3> QED
      BY <2>2, <3>1 DEF Shape
  <2> QED
    BY <1>1, <1>2, <2>1, <2>2
<1>5. 0 < Len(t) /\ \A i \in 1 .. 0 : InProgress(t[i])
  BY <1>1, <1>2
<1>6. \/ /\ Last(t).kind = "task"
         /\ Last(t).at \in {"user", "kernel", "start_r", "dispatch_r"}
      \/ Last(t).kind = "dispatcher" /\ Last(t).at = "dispatcher"
  BY <1>3 DEF Shape
<1>7. Shape(t, 0)
  BY <1>2, <1>4, <1>5, <1>6 DEF Shape
<1> QED
  BY <1>2, <1>3, <1>7 DEF Saved

LEMMA SavedActivate ==
  Saved(activate_context) /\ activate_context \in Seq(Frames)
<1> DEFINE f == Frame("task", "start_r")
<1>1. f \in Frames /\ f.kind = "task" /\ f.at = "start_r"
  BY DEF Frame, Frames, Kinds, Places
<1>2. activate_context = <<f>>
  BY DEF activate_context
<1> HIDE DEF f
<1>3. /\ activate_context \in Seq(Frames) /\ Len(activate_context) = 1
      /\ activate_context[1] = f /\ Last(activate_context) = f
  BY <1>1, <1>2 DEF Last
<1> QED
  BY <1>1, <1>3 DEF Saved, Shape

LEMMA DispatcherSeq == dispatcher \in Seq(Frames) /\ Len(dispatcher) = 1
<1> DEFINE f == Frame("dispatcher", "dispatcher")
<1>1. f \in Frames
  BY DEF Frame, Frames, Kinds, Places
<1> HIDE DEF f
<1>2. dispatcher = <<f>>
  BY DEF dispatcher, f
<1> QED
  BY <1>1, <1>2

LEMMA SwitchInv ==
  ASSUME NEW S, NEW T, Inv(S), T \in States, T.stack = dispatcher,
         T.intnest = 0, T.ispr = {}, T.current_intpri = 0, T.ipmflg,
         NEW t, Saved(t), NEW x, T.tcb = [S.tcb EXCEPT ![x] = t]
  PROVE  Inv(T)
<1>1. Running(T, 0)
  BY Fresh
<1>2. S.tcb \in [Tasks -> Seq(Frames)]
  BY Fields DEF Inv
<1>3. \A r \in Tasks : Saved(T.tcb[r])
  BY <1>2 DEF Inv
<1> QED
  BY <1>1, <1>3 DEF Inv

-----------------------------------------------------------------------------
(* The steps of tasks.                                                     *)

LEMMA TopOf ==
  ASSUME Inv(c)
  PROVE  c \in States /\ Len(c.stack) > 0 /\ c.stack \in Seq(Frames)
         /\ Top = c.stack[1] /\ c.stack[1] \in Frames
<1>1. PICK n \in Nat : Shape(c.stack, n)
  BY DEF Inv, Running
<1> QED
  BY <1>1, TopFacts DEF Inv, Top, Shape

(* Only where the top is changes, and the lock.                            *)
LEMMA MoveInv ==
  ASSUME Inv(c), NEW at \in {"user", "kernel"}, NEW T,
         T \in States, Moved(c.stack, T.stack, at),
         T.intnest = c.intnest, T.ispr = c.ispr, T.ipmflg = c.ipmflg,
         T.current_intpri = c.current_intpri, T.tcb = c.tcb,
         InProgress(c.stack[1]) \/ c.stack[1].kind = "task",
         ~InProgress(c.stack[1]) /\ at = "user" =>
           T.imr = T.current_intpri /\ ~T.lock_flag
  PROVE  Inv(T)
<1>1. PICK n \in Nat : Running(c, n)
  BY DEF Inv
<1>2. InProgress(c.stack[1]) <=> n > 0
  BY <1>1, TopFacts DEF Running
<1>3. Running(T, n)
  BY <1>1, <1>2, GotoRunning
<1> QED
  BY <1>1, <1>3, KeepInv

LEMMA AtHandler ==
  ASSUME InHandler
  PROVE  InProgress(Top)
BY DEF InHandler, InInt, InExc, InProgress

LEMMA NoTex ==
  ASSUME Inv(c), InTask
  PROVE  /\ Top.kind = "task" /\ ~InProgress(Top) /\ c.intnest = 0
         /\ Running(c, 0) /\ Len(c.stack) = 1
<1>1. PICK n \in Nat : Running(c, n)
  BY DEF Inv
<1>2. Top = c.stack[1] /\ Len(c.stack) > 0
  BY TopOf
<1>3. ~InProgress(Top)
  BY DEF InTask, InProgress
<1>4. n = 0 /\ Shape(c.stack, n)
  BY <1>1, <1>2, <1>3, TopFacts DEF Running
<1>5. Top.kind = "task" /\ Len(c.stack) = 1
  <2>1. CASE Len(c.stack) > 1
    BY <1>2, <1>4, <2>1 DEF InTask, Shape
  <2>2. CASE Len(c.stack) = 1
    <3>1. Last(c.stack) = Top
      BY <1>2, <2>2 DEF Last
    <3> QED
      BY <1>4, <2>2, <3>1 DEF InTask, Shape
  <2> DEFINE L == Len(c.stack)
  <2>3. L \in Nat /\ L > 0
    BY <1>2, <1>4 DEF Shape
  <2> HIDE DEF L
  <2>4. L = 1 \/ L > 1
    BY <2>3
  <2> QED
    BY <2>1, <2>2, <2>4 DEF L
<1> QED
  BY <1>1, <1>3, <1>4, <1>5 DEF InTask

LEMMA LockCpu ==
  ASSUME Inv(c), lock_cpu
  PROVE  Inv(c')
<1> DEFINE X == x_lock_cpu(c)
<1>1. c \in States /\ Len(c.stack) > 0 /\ Top = c.stack[1]
  BY TopOf
<1>2. /\ X \in States /\ X.stack = c.stack /\ X.intnest = c.intnest
      /\ X.ispr = c.ispr /\ X.ipmflg = c.ipmflg /\ X.tcb = c.tcb
      /\ X.current_intpri = c.current_intpri
  BY <1>1, PrcAssumption DEF x_lock_cpu, set_intpri, States
<1>3. c' = Goto(X, "kernel")
  BY DEF lock_cpu
<1> HIDE DEF X
<1>4. SameBut(X, c') /\ Moved(X.stack, c'.stack, "kernel")
  BY <1>1, <1>2, <1>3, GotoState DEF Places
<1>5. InProgress(c.stack[1]) \/ c.stack[1].kind = "task"
  BY <1>1, AtHandler, NoTex DEF lock_cpu
<1>6. /\ c' \in States /\ c'.intnest = c.intnest /\ c'.ispr = c.ispr
      /\ c'.ipmflg = c.ipmflg /\ c'.tcb = c.tcb
      /\ c'.current_intpri = c.current_intpri
  BY <1>2, <1>4 DEF SameBut
<1> QED
  BY <1>2, <1>4, <1>5, <1>6, MoveInv

LEMMA UnlockCpu ==
  ASSUME Inv(c), unlock_cpu
  PROVE  Inv(c')
<1> DEFINE X == x_unlock_cpu(c)
<1>1. c \in States /\ Len(c.stack) > 0 /\ Top = c.stack[1]
  BY TopOf
<1>2. /\ X \in States /\ X.stack = c.stack /\ X.intnest = c.intnest
      /\ X.ispr = c.ispr /\ X.ipmflg = c.ipmflg /\ X.tcb = c.tcb
      /\ X.current_intpri = c.current_intpri
      /\ X.imr = c.current_intpri /\ ~X.lock_flag
  BY <1>1 DEF x_unlock_cpu, set_intpri, States
<1>3. c' = Goto(X, "user")
  BY DEF unlock_cpu
<1> HIDE DEF X
<1>4. SameBut(X, c') /\ Moved(X.stack, c'.stack, "user")
  BY <1>1, <1>2, <1>3, GotoState DEF Places
<1>5. InProgress(c.stack[1]) \/ c.stack[1].kind = "task"
  BY <1>1, AtHandler, NoTex DEF unlock_cpu
<1>6. /\ c' \in States /\ c'.intnest = c.intnest /\ c'.ispr = c.ispr
      /\ c'.ipmflg = c.ipmflg /\ c'.tcb = c.tcb
      /\ c'.current_intpri = c.current_intpri
      /\ c'.imr = c'.current_intpri /\ ~c'.lock_flag
  BY <1>2, <1>4 DEF SameBut
<1> QED
  BY <1>2, <1>4, <1>5, <1>6, MoveInv

LEMMA ChgIpm ==
  ASSUME Inv(c), NEW intpri \in Masks, chg_ipm(intpri)
  PROVE  Inv(c')
<1>1. c \in States /\ Top = c.stack[1]
  BY TopOf
<1>2. Top.kind = "task" /\ Running(c, 0) /\ Len(c.stack) = 1
  BY NoTex DEF chg_ipm, InKernel
<1>3. intpri \in Nat
  BY PrcAssumption
<1>4. /\ c' \in States /\ c'.stack = c.stack /\ c'.intnest = c.intnest
      /\ c'.ispr = c.ispr /\ (c'.ipmflg <=> intpri = 0) /\ c'.tcb = c.tcb
      /\ c'.current_intpri = intpri
  BY <1>1, <1>3 DEF chg_ipm, x_set_ipm, set_intpri, States, INTPRI_ENAALL
<1>5. Last(c.stack) = c.stack[1]
  BY <1>2 DEF Last
<1>6. Running(c', 0)
  <2>1. Shape(c'.stack, 0) /\ NestPart(c', 0)
    BY <1>2, <1>4 DEF Running, NestPart
  <2>2. LevelsPart(c', 0)
    <3>1. \A j \in 1 .. 0 : IntAt(c', j) <=> IntAt(c, j)
      OBVIOUS
    <3>2. c.ispr = {}
      BY <1>2 DEF Running, LevelsPart
    <3> QED
      BY <1>4, <3>2 DEF LevelsPart
  <2>3. IntpriPart(c', 0)
    BY DEF IntpriPart
  <2>4. MaskPart(c', 0)
    <3>1. Intpri(c', 0) = intpri
      BY <1>4 DEF Intpri
    <3>2. ~TaskUser(c'.stack, 0)
      BY <1>1, <1>4, <1>5 DEF chg_ipm, InKernel, TaskUser
    <3> QED
      <4>1. c'.ipmflg <=> Intpri(c', 0) = INTPRI_ENAALL
        BY <1>4, <3>1 DEF INTPRI_ENAALL
      <4>2. /\ Len(c'.stack) = 0 + 1 /\ Last(c'.stack).kind = "task"
            /\ Last(c'.stack).at \in {"user", "kernel"}
        BY <1>1, <1>2, <1>4, <1>5 DEF chg_ipm, InKernel
      <4> QED
        BY <3>2, <4>1, <4>2 DEF MaskPart
  <2> QED
    BY <2>1, <2>2, <2>3, <2>4 DEF Running
<1> QED
  BY <1>4, <1>6, KeepInv

LEMMA SaveState ==
  ASSUME NEW S \in States, S.stack \in Seq(Frames)
  PROVE  /\ Save(S) \in States /\ Save(S).stack = dispatcher
         /\ Save(S).tcb = [S.tcb EXCEPT ![S.runtsk] = S.stack]
         /\ Save(S).imr = S.imr /\ Save(S).ispr = S.ispr
         /\ Save(S).lock_flag = S.lock_flag /\ Save(S).intnest = S.intnest
         /\ Save(S).current_intpri = S.current_intpri
         /\ Save(S).ipmflg = S.ipmflg
<1> DEFINE tcb == [S.tcb EXCEPT ![S.runtsk] = S.stack]
<1>1. Save(S) = [S EXCEPT !.tcb = tcb, !.stack = dispatcher]
  BY DEF Save, States
<1>2. tcb \in [Tasks -> Seq(Frames)]
  BY DEF States
<1> HIDE DEF tcb
<1>3. dispatcher \in Seq(Frames)
  BY DispatcherSeq
<1>4. /\ Save(S).stack = dispatcher /\ Save(S).tcb = tcb
      /\ Save(S).imr = S.imr /\ Save(S).ispr = S.ispr
      /\ Save(S).lock_flag = S.lock_flag /\ Save(S).intnest = S.intnest
      /\ Save(S).current_intpri = S.current_intpri
      /\ Save(S).ipmflg = S.ipmflg
  BY <1>1 DEF States
<1>5. Save(S) \in States
  BY <1>1, <1>2, <1>3 DEF States
<1> QED
  BY <1>4, <1>5 DEF tcb

LEMMA Dispatch ==
  ASSUME Inv(c), dispatch
  PROVE  Inv(c')
<1> DEFINE G == Goto(c, "dispatch_r")
<1>1. c \in States /\ Top = c.stack[1] /\ Len(c.stack) > 0
  BY TopOf
<1>2. Top.kind = "task" /\ Running(c, 0) /\ c.intnest = 0
  BY NoTex DEF dispatch, InKernel
<1>3. SameBut(c, G) /\ Moved(c.stack, G.stack, "dispatch_r")
  BY <1>1, GotoState DEF Places
<1>4. c' = Save(G)
  BY DEF dispatch
<1> HIDE DEF G
<1>5. G \in States /\ G.stack \in Seq(Frames)
  BY <1>3 DEF SameBut, Moved
<1>6. /\ c' \in States /\ c'.stack = dispatcher
      /\ c'.tcb = [c.tcb EXCEPT ![c.runtsk] = G.stack]
      /\ c'.intnest = 0 /\ c'.ispr = c.ispr /\ c'.ipmflg = c.ipmflg
      /\ c'.current_intpri = c.current_intpri
  BY <1>2, <1>3, <1>4, <1>5, SaveState DEF SameBut
<1>7. Saved(G.stack)
  BY <1>1, <1>2, <1>3, SavedDispatch DEF Running
<1>8. c.ispr = {} /\ c.current_intpri = 0
  BY <1>2, OpenFacts DEF dispatch
<1> QED
  BY <1>6, <1>7, <1>8, SwitchInv DEF dispatch

LEMMA ExtTsk ==
  ASSUME Inv(c), ext_tsk
  PROVE  Inv(c')
<1>1. c \in States
  BY TopOf
<1>2. Running(c, 0) /\ c.intnest = 0
  BY NoTex DEF ext_tsk, InKernel
<1> DEFINE E == IF c.ipmflg THEN c ELSE x_set_ipm(c, INTPRI_ENAALL)
<1>3. /\ E \in States /\ E.tcb = c.tcb /\ E.intnest = 0
      /\ E.ispr = c.ispr /\ E.current_intpri = 0
  <2>1. CASE c.ipmflg
    BY <1>1, <1>2, <2>1, OpenFacts
  <2>2. CASE ~c.ipmflg
    BY <1>1, <1>2, <2>2 DEF x_set_ipm, set_intpri, States, INTPRI_ENAALL
  <2> QED
    BY <2>1, <2>2
<1>4. c.ispr = {}
  BY <1>2 DEF Running, LevelsPart
<1>5. c' = [E EXCEPT !.ipmflg = TRUE, !.tcb[c.runtsk] = activate_context,
                     !.stack = dispatcher]
  BY DEF ext_tsk
<1> HIDE DEF E
<1> DEFINE tcb == [E.tcb EXCEPT ![c.runtsk] = activate_context]
<1>6. c' = [E EXCEPT !.ipmflg = TRUE, !.tcb = tcb, !.stack = dispatcher]
  BY <1>3, <1>5 DEF States
<1>7. tcb \in [Tasks -> Seq(Frames)]
  BY <1>3, SavedActivate DEF States
<1> HIDE DEF tcb
<1>8. /\ c' \in States /\ c'.stack = dispatcher /\ c'.tcb = tcb
      /\ c'.intnest = 0 /\ c'.ispr = {} /\ c'.current_intpri = 0 /\ c'.ipmflg
  BY <1>3, <1>4, <1>6, <1>7, DispatcherSeq DEF States
<1>9. c'.tcb = [c.tcb EXCEPT ![c.runtsk] = activate_context]
  BY <1>3, <1>8 DEF tcb
<1> QED
  BY <1>8, <1>9, SavedActivate, SwitchInv

LEMMA TerTsk ==
  ASSUME Inv(c), NEW t \in Tasks, ter_tsk(t)
  PROVE  Inv(c')
<1>1. c \in States
  BY TopOf
<1> DEFINE tcb == [c.tcb EXCEPT ![t] = activate_context]
<1>2. c' = [c EXCEPT !.tcb = tcb]
  BY <1>1 DEF ter_tsk, States
<1>3. tcb \in [Tasks -> Seq(Frames)] /\ \A r \in Tasks : Saved(tcb[r])
  BY <1>1, SavedActivate DEF States, Inv
<1> HIDE DEF tcb
<1>4. /\ c' \in States /\ c'.stack = c.stack /\ c'.tcb = tcb
      /\ c'.intnest = c.intnest /\ c'.ispr = c.ispr /\ c'.ipmflg = c.ipmflg
      /\ c'.current_intpri = c.current_intpri /\ c'.imr = c.imr
      /\ c'.lock_flag = c.lock_flag
  BY <1>1, <1>2, <1>3 DEF States
<1>5. PICK n \in Nat : Running(c, n)
  BY DEF Inv
<1>6. Running(c', n)
  BY <1>4, <1>5
  DEF Running, NestPart, LevelsPart, IntpriPart, MaskPart, Intpri, IntAt
<1> QED
  BY <1>3, <1>4, <1>6 DEF Inv

-----------------------------------------------------------------------------
(* The steps of the dispatcher and the idle loop.                          *)

LEMMA AtBottom ==
  ASSUME Inv(c), Top.kind \in {"dispatcher", "idle"} \/ Top.at = "start_r"
  PROVE  /\ Running(c, 0) /\ c.ipmflg /\ Len(c.stack) = 1
         /\ c.current_intpri = 0 /\ c.ispr = {}
         /\ Top.kind # "idle" => c.intnest = 0
         /\ Top.at = "start_r" => Top.kind = "task"
<1>1. PICK n \in Nat : Running(c, n)
  BY DEF Inv
<1>2. Shape(c.stack, n) /\ Top = c.stack[1]
  BY <1>1, TopOf DEF Running
<1>3. n = 0 /\ Len(c.stack) = 1 /\ Last(c.stack) = Top
  BY <1>2, TopFacts
<1>4. c.ipmflg
  BY <1>1, <1>2, <1>3 DEF Running, MaskPart, Shape
<1>5. c.current_intpri = 0 /\ c.ispr = {}
  BY <1>1, <1>3, <1>4, OpenFacts
<1>6. Top.kind # "idle" => c.intnest = 0
  BY <1>1, <1>3 DEF Running, NestPart
<1>7. Top.at = "start_r" => Top.kind = "task"
  BY <1>2, <1>3 DEF Shape
<1> QED
  BY <1>1, <1>3, <1>4, <1>5, <1>6, <1>7

LEMMA DispatchTo ==
  ASSUME Inv(c), NEW t \in Tasks, dispatch_to(t)
  PROVE  Inv(c')
<1>1. c \in States /\ Saved(c.tcb[t])
  BY DEF Inv
<1>2. c.ipmflg /\ c.current_intpri = 0 /\ c.ispr = {} /\ c.intnest = 0
  BY AtBottom DEF dispatch_to
<1> DEFINE s == c.tcb[t]
<1>3. c' = [c EXCEPT !.runtsk = t, !.stack = s]
  BY DEF dispatch_to
<1>4. s \in Seq(Frames) /\ Shape(s, 0) /\ Last(s).kind # "idle"
      /\ s[1].at # "user"
  BY <1>1 DEF Saved, Shape
<1> HIDE DEF s
<1>5. /\ c' \in States /\ c'.stack = s /\ c'.tcb = c.tcb
      /\ c'.intnest = 0 /\ c'.ispr = {} /\ c'.ipmflg
      /\ c'.current_intpri = 0
  BY <1>1, <1>2, <1>3, <1>4 DEF States
<1>6. NestPart(c', 0)
  BY <1>4, <1>5 DEF NestPart
<1>7. LevelsPart(c', 0) /\ IntpriPart(c', 0)
  BY <1>5 DEF LevelsPart, IntpriPart
<1>8. MaskPart(c', 0)
  <2>1. ~TaskUser(s, 0)
    BY <1>4 DEF TaskUser, Last
  <2>2. Intpri(c', 0) = 0
    BY <1>5 DEF Intpri
  <2> QED
    BY <1>5, <2>1, <2>2 DEF MaskPart, INTPRI_ENAALL
<1>9. Running(c', 0)
  BY <1>4, <1>5, <1>6, <1>7, <1>8 DEF Running
<1> QED
  BY <1>5, <1>9, KeepInv

LEMMA PreIdle ==
  ASSUME Inv(c), pre_idle
  PROVE  Inv(c')
<1>1. c \in States
  BY TopOf
<1>2. c.ipmflg /\ c.current_intpri = 0 /\ c.ispr = {}
  BY AtBottom DEF pre_idle
<1> DEFINE f == Frame("idle", "user")  s == <<f>>
<1>3. f \in Frames /\ f.kind = "idle" /\ f.at = "user"
  BY DEF Frame, Frames, Kinds, Places
<1>4. c' = [set_intpri(c, INTPRI_ENAALL) EXCEPT
              !.runtsk = NULL, !.lock_flag = FALSE, !.intnest = 1,
              !.stack = s]
  BY DEF pre_idle
<1> HIDE DEF f
<1>5. s \in Seq(Frames) /\ Len(s) = 1 /\ s[1] = f /\ Last(s) = f
  BY <1>3 DEF Last
<1> HIDE DEF s
<1>6. /\ c' \in States /\ c'.stack = s /\ c'.tcb = c.tcb
      /\ c'.intnest = 1 /\ c'.ispr = {} /\ c'.ipmflg
      /\ c'.current_intpri = 0
  BY <1>1, <1>2, <1>4, <1>5 DEF States, set_intpri, INTPRI_ENAALL
<1>7. Shape(s, 0)
  BY <1>3, <1>5 DEF Shape
<1>8. NestPart(c', 0)
  BY <1>3, <1>5, <1>6 DEF NestPart
<1>9. LevelsPart(c', 0) /\ IntpriPart(c', 0)
  BY <1>6 DEF LevelsPart, IntpriPart
<1>10. MaskPart(c', 0)
  <2>1. ~TaskUser(s, 0)
    BY <1>3, <1>5 DEF TaskUser
  <2>2. Intpri(c', 0) = 0
    BY <1>6 DEF Intpri
  <2> QED
    BY <1>6, <2>1, <2>2 DEF MaskPart, INTPRI_ENAALL
<1>11. Running(c', 0)
  BY <1>6, <1>7, <1>8, <1>9, <1>10 DEF Running
<1> QED
  BY <1>6, <1>11, KeepInv

LEMMA IdleLoop ==
  ASSUME Inv(c), idle_loop
  PROVE  Inv(c')
<1>1. c \in States
  BY TopOf
<1>2. c.ipmflg /\ c.current_intpri = 0 /\ c.ispr = {}
  BY AtBottom DEF idle_loop
<1>3. /\ c' \in States /\ c'.stack = dispatcher /\ c'.tcb = c.tcb
      /\ c'.intnest = 0 /\ c'.ispr = {} /\ c'.ipmflg
      /\ c'.current_intpri = 0
  BY <1>1, <1>2, DispatcherSeq, PrcAssumption
  DEF idle_loop, States, set_intpri
<1>4. Running(c', 0)
  BY <1>3, Fresh
<1> QED
  BY <1>3, <1>4, KeepInv

LEMMA StartR ==
  ASSUME Inv(c), start_r
  PROVE  Inv(c')
<1> DEFINE G == Goto(c, "user")
<1>1. c \in States /\ Top = c.stack[1] /\ Len(c.stack) > 0
  BY TopOf
<1>2. c.current_intpri = 0 /\ Top.kind = "task"
  BY AtBottom DEF start_r
<1>3. SameBut(c, G) /\ Moved(c.stack, G.stack, "user")
  BY <1>1, GotoState DEF Places
<1>4. c' = [set_intpri(G, INTPRI_ENAALL) EXCEPT !.lock_flag = FALSE]
  BY DEF start_r
<1> HIDE DEF G
<1>5. /\ c' \in States /\ c'.stack = G.stack /\ c'.intnest = G.intnest
      /\ c'.ispr = G.ispr /\ c'.ipmflg = G.ipmflg /\ c'.tcb = G.tcb
      /\ c'.current_intpri = G.current_intpri
      /\ c'.imr = 0 /\ ~c'.lock_flag
  BY <1>3, <1>4 DEF SameBut, States, set_intpri, INTPRI_ENAALL
<1>6. /\ c'.intnest = c.intnest /\ c'.ispr = c.ispr
      /\ c'.ipmflg = c.ipmflg /\ c'.tcb = c.tcb
      /\ c'.current_intpri = c.current_intpri
      /\ c'.imr = c'.current_intpri
  BY <1>2, <1>3, <1>5 DEF SameBut
<1> QED
  BY <1>1, <1>2, <1>3, <1>5, <1>6, MoveInv

LEMMA DispatchR ==
  ASSUME Inv(c), dispatch_r
  PROVE  Inv(c')
<1>1. c \in States /\ Top = c.stack[1] /\ Len(c.stack) > 0
  BY TopOf
<1>2. SameBut(c, c') /\ Moved(c.stack, c'.stack, "kernel")
  BY <1>1, GotoState DEF Places, dispatch_r
<1>3. Top.kind = "task"
  <2>1. PICK n \in Nat : Shape(c.stack, n)
    BY DEF Inv, Running
  <2>2. Last(c.stack) = Top
    BY <1>1, <2>1, TopFacts DEF dispatch_r
  <2> QED
    BY <2>1, <2>2 DEF Shape, dispatch_r
<1>4. /\ c' \in States /\ c'.intnest = c.intnest /\ c'.ispr = c.ispr
      /\ c'.ipmflg = c.ipmflg /\ c'.tcb = c.tcb
      /\ c'.current_intpri = c.current_intpri
  BY <1>2 DEF SameBut
<1>5. c.stack[1].kind = "task"
  BY <1>1, <1>3
<1> QED
  BY <1>2, <1>4, <1>5, MoveInv

-----------------------------------------------------------------------------
(* The steps of handlers.                                                  *)

LEMMA Interrupt ==
  ASSUME Inv(c), NEW lvl \in 1 .. INTPRI_LOCK, interrupt(lvl)
  PROVE  Inv(c')
<1> DEFINE f == [Frame("int", "user") EXCEPT !.lvl = lvl,
                                             !.ipm = c.current_intpri]
           d == c.intnest + 1
           p == c.ispr \cup {lvl}
           X == [c EXCEPT !.lock_flag = FALSE, !.current_intpri = lvl,
                          !.intnest = d, !.ispr = p]
<1>1. c \in States /\ Len(c.stack) > 0
  BY TopOf
<1>2. lvl \in Nat
  BY PrcAssumption
<1>3. f \in Frames /\ f.kind = "int" /\ f.at = "user" /\ f.lvl = lvl
      /\ f.ipm = c.current_intpri
  BY <1>1, <1>2, Fields DEF Frame, Frames, Kinds, Places
<1>4. d \in Nat /\ p \subseteq Nat
  BY <1>1, <1>2, Fields
<1>5. c' = Push(X, f) /\ \A m \in c.ispr : m < lvl
  BY DEF interrupt
<1> HIDE DEF d, p
<1>6. /\ X \in States /\ X.stack = c.stack /\ X.tcb = c.tcb
       /\ X.intnest = d /\ X.ipmflg = c.ipmflg
       /\ X.ispr = p /\ X.current_intpri = lvl
  BY <1>1, <1>2, <1>4 DEF States
<1> HIDE DEF f, X
<1>7. /\ X \in States /\ X.stack = c.stack /\ X.tcb = c.tcb
      /\ X.intnest = c.intnest + 1 /\ X.ipmflg = c.ipmflg
      /\ X.ispr = c.ispr \cup {lvl} /\ X.current_intpri = lvl
  BY <1>6 DEF d, p
<1>8. SameBut(X, c') /\ Over(c.stack, c'.stack) /\ c'.stack[1] = f
  BY <1>1, <1>3, <1>7, <1>5, PushState
<1>9. /\ c' \in States /\ c'.tcb = c.tcb
      /\ c'.intnest = c.intnest + 1 /\ c'.ipmflg = c.ipmflg
      /\ c'.ispr = c.ispr \cup {lvl} /\ c'.current_intpri = lvl
  BY <1>7, <1>8 DEF SameBut
<1>10. PICK n \in Nat : Running(c, n)
  BY DEF Inv
<1>11. InProgress(c'.stack[1])
  BY <1>3, <1>8 DEF InProgress
<1>12. c.intnest \in Nat /\ c.ispr \subseteq Nat
  BY <1>1, Fields
<1>13. Running(c', n + 1)
  BY <1>2, <1>3, <1>5, <1>8, <1>9, <1>10, <1>11, <1>12, Pushed
<1> QED
  BY <1>9, <1>13, KeepInv

LEMMA Exception ==
  ASSUME Inv(c), exception
  PROVE  Inv(c')
<1> DEFINE f == [Frame("exc", "user") EXCEPT !.ipm = c.current_intpri,
                                             !.locked = c.lock_flag]
           E == IF c.lock_flag THEN set_intpri(c, c.current_intpri) ELSE c
           d == E.intnest + 1
           X == [E EXCEPT !.intnest = d]
<1>1. c \in States /\ Len(c.stack) > 0
  BY TopOf
<1>2. f \in Frames /\ f.kind = "exc" /\ f.at = "user" /\ f.lvl = 0
      /\ f.ipm = c.current_intpri /\ f.locked = c.lock_flag
  BY <1>1, Fields DEF Frame, Frames, Kinds, Places
<1>3. /\ E \in States /\ E.stack = c.stack /\ E.tcb = c.tcb
      /\ E.intnest = c.intnest /\ E.ipmflg = c.ipmflg
      /\ E.ispr = c.ispr /\ E.current_intpri = c.current_intpri
  BY <1>1 DEF States, set_intpri
<1>4. c' = Push(X, f)
  BY DEF exception
<1> HIDE DEF f, E
<1>5. d \in Nat /\ d = c.intnest + 1
  BY <1>1, <1>3, Fields
<1> HIDE DEF d
<1>6. /\ X \in States /\ X.stack = E.stack /\ X.tcb = E.tcb
       /\ X.intnest = d /\ X.ipmflg = E.ipmflg
       /\ X.ispr = E.ispr /\ X.current_intpri = E.current_intpri
  BY <1>3, <1>5 DEF States
<1> HIDE DEF X
<1>7. /\ X \in States /\ X.stack = c.stack /\ X.tcb = c.tcb
      /\ X.intnest = c.intnest + 1 /\ X.ipmflg = c.ipmflg
      /\ X.ispr = c.ispr /\ X.current_intpri = c.current_intpri
  BY <1>3, <1>5, <1>6
<1>8. SameBut(X, c') /\ Over(c.stack, c'.stack) /\ c'.stack[1] = f
  BY <1>1, <1>2, <1>4, <1>7, PushState
<1>9. /\ c' \in States /\ c'.tcb = c.tcb
      /\ c'.intnest = c.intnest + 1 /\ c'.ipmflg = c.ipmflg
      /\ c'.ispr = c.ispr /\ c'.current_intpri = c.current_intpri
  BY <1>7, <1>8 DEF SameBut
<1>10. PICK n \in Nat : Running(c, n)
  BY DEF Inv
<1>11. InProgress(c'.stack[1])
  BY <1>2, <1>8 DEF InProgress
<1>12. c.intnest \in Nat /\ c.ispr \subseteq Nat
  BY <1>1, Fields
<1>13. Running(c', n + 1)
  BY <1>2, <1>8, <1>9, <1>10, <1>11, <1>12, Pushed
<1> QED
  BY <1>9, <1>13, KeepInv

(* What a handler that may end has below it.                               *)
LEMMA AtEnd ==
  ASSUME Inv(c), InHandler
  PROVE  /\ Top = c.stack[1] /\ InProgress(Top)
         /\ \E n \in Nat : Running(c, n + 1)
         /\ c.intnest > 0 /\ Len(c.stack) > 1
         /\ c.stack = <<Top>> \o Tail(c.stack)
<1>1. c \in States /\ Top = c.stack[1] /\ c.stack \in Seq(Frames)
      /\ Len(c.stack) > 0
  BY TopOf
<1>2. InProgress(Top)
  BY AtHandler
<1>3. PICK m \in Nat : Running(c, m)
  BY DEF Inv
<1>4. m > 0
  BY <1>1, <1>2, <1>3, TopFacts DEF Running
<1>5. m - 1 \in Nat /\ m - 1 + 1 = m
  BY <1>4
<1>6. Len(c.stack) > 1 /\ c.intnest > 0
  BY <1>1, <1>3, <1>4 DEF Running, Shape, NestPart
<1>7. c.stack = <<Top>> \o Tail(c.stack)
  BY <1>1
<1> QED
  BY <1>1, <1>2, <1>3, <1>5, <1>6, <1>7

(* The counts and flags at the end of a handler, before it returns.        *)
LEMMA EndedState ==
  ASSUME Inv(c), c.intnest > 0
  PROVE  /\ Ended \in States /\ Ended.stack = c.stack /\ Ended.tcb = c.tcb
         /\ Ended.intnest = c.intnest - 1 /\ Ended.ipmflg = c.ipmflg
         /\ Ended.ispr = c.ispr /\ Ended.runtsk = c.runtsk
         /\ Ended.current_intpri = c.current_intpri /\ ~Ended.lock_flag
<1> DEFINE d == c.intnest - 1
<1>1. c \in States
  BY TopOf
<1>2. d \in Nat
  BY <1>1, Fields
<1>3. Ended = [c EXCEPT !.lock_flag = FALSE, !.intnest = d]
  BY DEF Ended
<1> HIDE DEF d
<1>4. /\ Ended \in States /\ Ended.stack = c.stack /\ Ended.tcb = c.tcb
      /\ Ended.intnest = d /\ Ended.ipmflg = c.ipmflg
      /\ Ended.ispr = c.ispr /\ Ended.runtsk = c.runtsk
      /\ Ended.current_intpri = c.current_intpri /\ ~Ended.lock_flag
  BY <1>1, <1>2, <1>3 DEF States
<1> QED
  BY <1>4 DEF d

LEMMA ExcEndedState ==
  ASSUME Inv(c), c.intnest > 0, Top.locked \in BOOLEAN
  PROVE  /\ Exc_ended \in States /\ Exc_ended.stack = c.stack
         /\ Exc_ended.tcb = c.tcb /\ Exc_ended.intnest = c.intnest - 1
         /\ Exc_ended.ipmflg = c.ipmflg /\ Exc_ended.ispr = c.ispr
         /\ Exc_ended.runtsk = c.runtsk
         /\ Exc_ended.current_intpri = c.current_intpri
         /\ Exc_ended.lock_flag = Top.locked
<1> DEFINE E == IF Top.locked THEN set_intpri(c, INTPRI_LOCK) ELSE c
           d == E.intnest - 1
<1>1. c \in States
  BY TopOf
<1>2. /\ E \in States /\ E.stack = c.stack /\ E.tcb = c.tcb
      /\ E.intnest = c.intnest /\ E.ipmflg = c.ipmflg
      /\ E.ispr = c.ispr /\ E.current_intpri = c.current_intpri
      /\ E.runtsk = c.runtsk
  BY <1>1, PrcAssumption DEF States, set_intpri
<1>3. Exc_ended = [E EXCEPT !.lock_flag = Top.locked, !.intnest = d]
  BY DEF Exc_ended
<1> HIDE DEF E
<1>4. d \in Nat /\ d = c.intnest - 1
  BY <1>1, <1>2, Fields
<1> HIDE DEF d
<1>5. /\ Exc_ended \in States /\ Exc_ended.stack = E.stack
      /\ Exc_ended.tcb = E.tcb /\ Exc_ended.intnest = d
      /\ Exc_ended.ipmflg = E.ipmflg /\ Exc_ended.ispr = E.ispr
      /\ Exc_ended.runtsk = E.runtsk
      /\ Exc_ended.current_intpri = E.current_intpri
      /\ Exc_ended.lock_flag = Top.locked
  BY <1>2, <1>3, <1>4 DEF States
<1> QED
  BY <1>2, <1>4, <1>5

LEMMA ReturnFromExcState ==
  ASSUME NEW S \in States, Len(S.stack) > 1
  PROVE  LET R == return_from_exc(S)
         IN /\ R \in States /\ R.stack = Tail(S.stack) /\ R.tcb = S.tcb
            /\ R.intnest = S.intnest /\ R.ipmflg = S.ipmflg
            /\ R.ispr = S.ispr /\ R.lock_flag = S.lock_flag
            /\ R.current_intpri = Head(S.stack).ipm
            /\ R.imr = Head(S.stack).ipm
<1> DEFINE saved == Head(S.stack).ipm  t == Tail(S.stack)
<1>1. S.stack \in Seq(Frames)
  BY Fields
<1>2. Head(S.stack) \in Frames /\ t \in Seq(Frames)
  BY <1>1
<1>3. saved \in Nat
  BY <1>2 DEF Frames
<1>4. return_from_exc(S) =
        [set_intpri(S, saved) EXCEPT !.current_intpri = saved, !.stack = t]
  BY DEF return_from_exc, set_intpri, States
<1> HIDE DEF saved, t
<1>5. LET R == return_from_exc(S)
      IN /\ R \in States /\ R.stack = t /\ R.tcb = S.tcb
         /\ R.intnest = S.intnest /\ R.ipmflg = S.ipmflg
         /\ R.ispr = S.ispr /\ R.lock_flag = S.lock_flag
         /\ R.current_intpri = saved /\ R.imr = saved
  BY <1>2, <1>3, <1>4 DEF set_intpri, States
<1> QED
  BY <1>5 DEF saved, t

(* The levels in service but the highest.                                  *)
Served(P) == P \ {m \in P : \A l \in P : l <= m}

LEMMA RetiState ==
  ASSUME NEW S \in States
  PROVE  LET R == reti(S)
         IN /\ R \in States /\ R.stack = S.stack /\ R.tcb = S.tcb
            /\ R.intnest = S.intnest /\ R.ipmflg = S.ipmflg
            /\ R.ispr = Served(S.ispr) /\ R.lock_flag = S.lock_flag
            /\ R.current_intpri = S.current_intpri /\ R.imr = S.imr
<1> DEFINE p == Served(S.ispr)
<1>1. reti(S) = [S EXCEPT !.ispr = p]
  BY DEF reti, Served, States
<1>2. p \subseteq Nat
  BY Fields DEF Served
<1> HIDE DEF p
<1>3. LET R == reti(S)
      IN /\ R \in States /\ R.stack = S.stack /\ R.tcb = S.tcb
         /\ R.intnest = S.intnest /\ R.ipmflg = S.ipmflg
         /\ R.ispr = p /\ R.lock_flag = S.lock_flag
         /\ R.current_intpri = S.current_intpri /\ R.imr = S.imr
  BY <1>1, <1>2 DEF States
<1> QED
  BY <1>3 DEF p

LEMMA ReturnFromIntState ==
  ASSUME NEW S \in States, Len(S.stack) > 1
  PROVE  LET R == return_from_int(S)
         IN /\ R \in States /\ R.stack = Tail(S.stack) /\ R.tcb = S.tcb
            /\ R.intnest = S.intnest /\ R.ipmflg = S.ipmflg
            /\ R.ispr = (IF Head(S.stack).kind = "exc"
                          THEN S.ispr ELSE Served(S.ispr))
            /\ ~R.lock_flag
            /\ R.current_intpri = Head(S.stack).ipm
            /\ R.imr = Head(S.stack).ipm
<1> DEFINE saved == Head(S.stack).ipm  t == Tail(S.stack)
           X == [set_intpri(S, saved) EXCEPT
                   !.current_intpri = saved, !.lock_flag = FALSE,
                   !.stack = t]
<1>1. S.stack \in Seq(Frames)
  BY Fields
<1>2. Head(S.stack) \in Frames /\ t \in Seq(Frames)
  BY <1>1
<1>3. saved \in Nat
  BY <1>2 DEF Frames
<1>4. return_from_int(S) = IF Head(S.stack).kind = "exc" THEN X ELSE reti(X)
  BY DEF return_from_int, set_intpri, States
<1> HIDE DEF saved, t
<1>5. /\ X \in States /\ X.stack = t /\ X.tcb = S.tcb
      /\ X.intnest = S.intnest /\ X.ipmflg = S.ipmflg
      /\ X.ispr = S.ispr /\ ~X.lock_flag
      /\ X.current_intpri = saved /\ X.imr = saved
  BY <1>2, <1>3 DEF set_intpri, States
<1> HIDE DEF X
<1>6. LET R == return_from_int(S)
      IN /\ R \in States /\ R.stack = t /\ R.tcb = S.tcb
         /\ R.intnest = S.intnest /\ R.ipmflg = S.ipmflg
         /\ R.ispr = (IF Head(S.stack).kind = "exc"
                       THEN S.ispr ELSE Served(S.ispr))
         /\ ~R.lock_flag
         /\ R.current_intpri = saved /\ R.imr = saved
  BY <1>4, <1>5, RetiState
<1> QED
  BY <1>6 DEF saved, t

LEMMA EndIntHandler ==
  ASSUME Inv(c), end_int_handler
  PROVE  Inv(c')
<1>1. InHandler /\ Top.kind = "int"
  BY DEF end_int_handler, InHandler, InInt
<1>2. /\ Top = c.stack[1] /\ InProgress(Top)
      /\ c.intnest > 0 /\ Len(c.stack) > 1
  BY <1>1, AtEnd
<1>3. PICK n \in Nat : Running(c, n + 1)
  BY <1>1, AtEnd
<1>4. c \in States /\ c.stack \in Seq(Frames) /\ Head(c.stack) = c.stack[1]
  BY TopOf DEF Top
<1>5. /\ Ended \in States /\ Ended.stack = c.stack /\ Ended.tcb = c.tcb
      /\ Ended.intnest = c.intnest - 1 /\ Ended.ipmflg = c.ipmflg
      /\ Ended.ispr = c.ispr
  BY <1>2, EndedState
<1>6. c' = return_from_int(Ended) /\ Len(Ended.stack) > 1
  BY <1>2, <1>5 DEF end_int_handler
<1>7. /\ c' \in States /\ c'.stack = Tail(c.stack) /\ c'.tcb = c.tcb
      /\ c'.intnest = c.intnest - 1 /\ c'.ipmflg = c.ipmflg
      /\ c'.ispr = Served(c.ispr) /\ ~c'.lock_flag
      /\ c'.current_intpri = c.stack[1].ipm /\ c'.imr = c.stack[1].ipm
  BY <1>1, <1>2, <1>4, <1>5, <1>6, ReturnFromIntState
<1>8. Over(c'.stack, c.stack) /\ c'.stack \in Seq(Frames)
  BY <1>2, <1>4, <1>7, TailOver
<1>9. n < Len(c'.stack)
  <2>1. n + 1 < Len(c.stack)
    BY <1>3 DEF Running, Shape
  <2> QED
    BY <1>8, <2>1 DEF Over
<1>10. c'.intnest \in Nat /\ c.intnest \in Nat /\ c.ispr \subseteq Nat
  BY <1>4, <1>7, Fields
<1>11. c'.ispr = c.ispr \ {m \in c.ispr : \A l \in c.ispr : l <= m}
  BY <1>7 DEF Served
<1>12. c.stack[1].kind = "int"
  BY <1>1, <1>2
<1>13. c'.imr = c'.current_intpri
  BY <1>7
<1>14. Running(c', n)
  BY <1>3, <1>7, <1>8, <1>9, <1>10, <1>11, <1>12, <1>13, Popped
<1> QED
  BY <1>7, <1>14, KeepInv

(* The end of a CPU exception, the ordinary one and the one that goes on   *)
(* as the end of an interrupt: the mask is the one it saved, and the CPU   *)
(* is locked only if it was.                                               *)
LEMMA EndExc ==
  ASSUME Inv(c), end_exc_handler \/ check_texrtn_cond_exc
  PROVE  Inv(c')
<1>1. InHandler /\ Top.kind = "exc"
  BY DEF end_exc_handler, check_texrtn_cond_exc, InHandler, InExc
<1>2. /\ Top = c.stack[1] /\ InProgress(Top)
      /\ c.intnest > 0 /\ Len(c.stack) > 1
  BY <1>1, AtEnd
<1>3. PICK n \in Nat : Running(c, n + 1)
  BY <1>1, AtEnd
<1>4. c \in States /\ c.stack \in Seq(Frames) /\ Head(c.stack) = c.stack[1]
      /\ Top.locked \in BOOLEAN
  BY TopOf DEF Top, Frames
<1>5. /\ Exc_ended \in States /\ Exc_ended.stack = c.stack
      /\ Exc_ended.tcb = c.tcb /\ Exc_ended.intnest = c.intnest - 1
      /\ Exc_ended.ipmflg = c.ipmflg /\ Exc_ended.ispr = c.ispr
      /\ Exc_ended.lock_flag = Top.locked
  BY <1>2, <1>4, ExcEndedState
<1>6. /\ c' \in {return_from_exc(Exc_ended), return_from_int(Exc_ended)}
      /\ Len(Exc_ended.stack) > 1
  BY <1>2, <1>5 DEF end_exc_handler, check_texrtn_cond_exc
<1>7. /\ c' \in States /\ c'.stack = Tail(c.stack) /\ c'.tcb = c.tcb
      /\ c'.intnest = c.intnest - 1 /\ c'.ipmflg = c.ipmflg
      /\ c'.ispr = c.ispr /\ (c'.lock_flag => c.stack[1].locked)
      /\ c'.current_intpri = c.stack[1].ipm /\ c'.imr = c.stack[1].ipm
  BY <1>1, <1>2, <1>4, <1>5, <1>6, ReturnFromExcState, ReturnFromIntState
<1>8. Over(c'.stack, c.stack) /\ c'.stack \in Seq(Frames)
  BY <1>2, <1>4, <1>7, TailOver
<1>9. n < Len(c'.stack)
  <2>1. n + 1 < Len(c.stack)
    BY <1>3 DEF Running, Shape
  <2> QED
    BY <1>8, <2>1 DEF Over
<1>10. c'.intnest \in Nat /\ c.intnest \in Nat /\ c.ispr \subseteq Nat
  BY <1>4, <1>7, Fields
<1>11. c.stack[1].kind = "exc"
  BY <1>1, <1>2
<1>12. c'.imr = c'.current_intpri
  BY <1>7
<1>13. Running(c', n)
  BY <1>3, <1>7, <1>8, <1>9, <1>10, <1>11, <1>12, Popped
<1> QED
  BY <1>7, <1>13, KeepInv

LEMMA RetIntR ==
  ASSUME Inv(c), ret_int_r
  PROVE  Inv(c')
<1>1. c \in States /\ c.stack \in Seq(Frames) /\ Head(c.stack) = c.stack[1]
      /\ Top = c.stack[1]
  BY TopOf DEF Top
<1>2. PICK m \in Nat : Running(c, m)
  BY DEF Inv
<1>3. m = 0 /\ Len(c.stack) > 1 /\ c.stack[1].ipm = 0 /\ Shape(c.stack, 0)
  BY <1>1, <1>2, TopFacts DEF ret_int_r, Running
<1>4. Running(c, 0)
  BY <1>2, <1>3
<1>5. c' = return_from_int(c)
  BY DEF ret_int_r
<1>6. /\ c' \in States /\ c'.stack = Tail(c.stack) /\ c'.tcb = c.tcb
      /\ c'.intnest = c.intnest /\ c'.ipmflg = c.ipmflg
      /\ c'.ispr \in {c.ispr, Served(c.ispr)} /\ ~c'.lock_flag
      /\ c'.current_intpri = 0 /\ c'.imr = 0
  BY <1>1, <1>3, <1>5, ReturnFromIntState
<1>7. c.ispr = {}
  BY <1>4 DEF Running, LevelsPart
<1> DEFINE s == c.stack  t == c'.stack
<1>8. Over(t, s) /\ t \in Seq(Frames)
  BY <1>1, <1>3, <1>6, TailOver
<1>9. Len(s) \in Nat /\ Len(s) > 1
  BY <1>1, <1>3
<1>10. Len(c.stack) # 0 + 1
  <2> DEFINE L == Len(s)
  <2>1. L \in Nat /\ L > 1
    BY <1>9
  <2> HIDE DEF L
  <2>2. L # 0 + 1
    BY <2>1
  <2> QED
    BY <2>2 DEF L
<1>11. c.ipmflg
  BY <1>4, <1>10 DEF Running, MaskPart
<1> HIDE DEF s, t
<1>12. Len(t) + 1 = Len(s) /\ Len(t) \in Nat /\ Last(t) = Last(s)
  BY <1>8 DEF Over
<1>13. Shape(t, 0)
  <2>1. ASSUME NEW i \in 0 + 1 .. Len(t) - 1
        PROVE  t[i].kind \in {"int", "exc"} /\ t[i].at = "ret_int_r"
               /\ t[i].ipm = 0
    <3>1. i + 1 \in 0 + 1 .. Len(s) - 1 /\ s[i + 1] = t[i]
      BY <1>8, <1>12 DEF Over
    <3> QED
      BY <1>3, <3>1 DEF Shape, s
  <2>2. 0 < Len(t) /\ Len(s) # 0 + 1 /\ \A i \in 1 .. 0 : InProgress(t[i])
    BY <1>12, <1>9, <1>10 DEF s
  <2>3. \/ /\ Last(t).kind = "task"
           /\ Last(t).at \in {"user", "kernel", "start_r", "dispatch_r"}
        \/ Last(t).kind = "dispatcher" /\ Last(t).at = "dispatcher"
    BY <1>3, <1>12, <2>2 DEF Shape, s
  <2> QED
    BY <1>8, <2>1, <2>2, <2>3 DEF Shape
<1>14. NestPart(c', 0)
  BY <1>4, <1>6, <1>12 DEF Running, NestPart, s, t
<1>15. LevelsPart(c', 0) /\ IntpriPart(c', 0)
  BY <1>6, <1>7 DEF Served, LevelsPart, IntpriPart
<1>16. MaskPart(c', 0)
  <2>1. Intpri(c', 0) = 0
    BY <1>6 DEF Intpri
  <2>2. c'.ipmflg
    BY <1>6, <1>11
  <2> QED
    BY <1>6, <2>1, <2>2 DEF MaskPart, INTPRI_ENAALL
<1>17. Running(c', 0)
  BY <1>13, <1>14, <1>15, <1>16 DEF Running, t
<1> QED
  BY <1>6, <1>17, KeepInv

LEMMA CallCychdr ==
  ASSUME Inv(c), call_cychdr
  PROVE  Inv(c')
<1>1. c \in States
  BY TopOf
<1>2. InHandler
  BY DEF call_cychdr, InHandler
<1>3. /\ c' \in States /\ c'.stack = c.stack /\ c'.tcb = c.tcb
      /\ c'.intnest = c.intnest /\ c'.ipmflg = c.ipmflg
      /\ c'.ispr = c.ispr /\ c'.lock_flag = c.lock_flag
      /\ c'.current_intpri = c.current_intpri
  BY <1>1 DEF call_cychdr, x_set_ipm, set_intpri, States
<1>4. PICK n \in Nat : Running(c, n + 1)
  BY <1>2, AtEnd
<1>5. n + 1 # 0
  OBVIOUS
<1>6. Running(c', n + 1)
  BY <1>3, <1>4, <1>5
  DEF Running, NestPart, LevelsPart, IntpriPart, MaskPart, Intpri, IntAt
<1>7. n + 1 \in Nat
  OBVIOUS
<1> QED
  BY <1>3, <1>6, <1>7, KeepInv

(* ret_int, of a handler whose end finds no other in progress.             *)
LEMMA RetInt ==
  ASSUME Inv(c), InHandler, c.ipmflg, NEW S \in States,
         S.stack = c.stack, S.tcb = c.tcb, S.intnest = c.intnest - 1,
         S.intnest = 0, S.ispr = c.ispr, S.runtsk = c.runtsk,
         S.ipmflg = c.ipmflg, c' = ret_int(S)
  PROVE  Inv(c')
<1>1. /\ Top = c.stack[1] /\ InProgress(Top)
      /\ c.intnest > 0 /\ Len(c.stack) > 1
  BY AtEnd
<1>2. PICK n \in Nat : Running(c, n + 1)
  BY AtEnd
<1>3. c \in States /\ c.stack \in Seq(Frames) /\ Head(c.stack) = c.stack[1]
  BY TopOf DEF Top
<1>4. n = 0 /\ Last(c.stack).kind # "idle"
  <2>1. c.intnest \in Nat
    BY <1>3, Fields
  <2> QED
    BY <1>2, <2>1 DEF Running, NestPart
<1>5. Running(c, 1) /\ Shape(c.stack, 1)
  <2>1. n + 1 = 1
    BY <1>4
  <2> QED
    BY <1>2, <2>1 DEF Running
<1>6. c.stack[1].ipm = 0
  BY <1>5, OpenFacts
<1> DEFINE G == Goto(S, "ret_int_r")
           Y == [x_lock_cpu(G) EXCEPT !.current_intpri = INTPRI_ENAALL]
           D == Save(Y)
<1>7. c' = IF Head(S.stack).kind = "exc" THEN D ELSE reti(D)
  BY DEF ret_int
<1>8. SameBut(S, G) /\ Moved(S.stack, G.stack, "ret_int_r")
  BY <1>1, GotoState DEF Places
<1> HIDE DEF G
<1>9. /\ Y \in States /\ Y.stack = G.stack /\ Y.tcb = G.tcb
      /\ Y.intnest = G.intnest /\ Y.ispr = G.ispr /\ Y.ipmflg = G.ipmflg
      /\ Y.current_intpri = 0
  BY <1>8, PrcAssumption
  DEF SameBut, States, x_lock_cpu, set_intpri, INTPRI_ENAALL
<1> HIDE DEF Y
<1>10. /\ Y.tcb = c.tcb /\ Y.intnest = 0 /\ Y.ispr = c.ispr /\ Y.ipmflg
       /\ Moved(c.stack, Y.stack, "ret_int_r") /\ Y.stack \in Seq(Frames)
  BY <1>8, <1>9 DEF SameBut, Moved
<1>11. /\ D \in States /\ D.stack = dispatcher
       /\ D.tcb = [c.tcb EXCEPT ![Y.runtsk] = Y.stack]
       /\ D.intnest = 0 /\ D.ispr = c.ispr /\ D.ipmflg
       /\ D.current_intpri = 0
  BY <1>9, <1>10, SaveState
<1> HIDE DEF D
<1>12. Saved(Y.stack)
  BY <1>4, <1>5, <1>6, <1>10, SavedRetInt
<1>13. CASE c.stack[1].kind = "exc"
  <2>1. c' = D
    BY <1>3, <1>7, <1>13
  <2>2. ~IntAt(c, 1)
    BY <1>13 DEF IntAt
  <2>3. c.ispr = {}
    <3>1. \A j \in 1 .. 1 : j = 1
      OBVIOUS
    <3> QED
      BY <1>5, <2>2, <3>1 DEF Running, LevelsPart
  <2> QED
    BY <1>11, <1>12, <2>1, <2>3, SwitchInv
<1>14. CASE c.stack[1].kind # "exc"
  <2>1. c' = reti(D)
    BY <1>3, <1>7, <1>14
  <2>2. /\ c' \in States /\ c'.stack = dispatcher
        /\ c'.tcb = [c.tcb EXCEPT ![Y.runtsk] = Y.stack]
        /\ c'.intnest = 0 /\ c'.ispr = Served(c.ispr) /\ c'.ipmflg
        /\ c'.current_intpri = 0
    BY <1>11, <2>1, RetiState
  <2>3. Served(c.ispr) = {}
    <3>1. \A j \in 1 .. 1 : j = 1
      OBVIOUS
    <3>2. \A m \in c.ispr : m = c.stack[1].lvl
      BY <1>5, <3>1 DEF Running, LevelsPart
    <3>3. c.ispr \subseteq Nat
      BY <1>3, Fields
    <3> QED
      BY <3>2, <3>3 DEF Served
  <2> QED
    BY <1>12, <2>2, <2>3, SwitchInv
<1> QED
  BY <1>13, <1>14

LEMMA ReturnToTask ==
  ASSUME Inv(c), return_to_task
  PROVE  Inv(c')
<1>1. InHandler /\ c.ipmflg /\ c' = ret_int(Ended) /\ Ended.intnest = 0
  BY DEF return_to_task, InHandler
<1>2. c.intnest > 0
  BY <1>1, AtEnd
<1>3. /\ Ended \in States /\ Ended.stack = c.stack /\ Ended.tcb = c.tcb
      /\ Ended.intnest = c.intnest - 1 /\ Ended.ipmflg = c.ipmflg
      /\ Ended.ispr = c.ispr /\ Ended.runtsk = c.runtsk
  BY <1>2, EndedState
<1> QED
  BY <1>1, <1>3, RetInt

LEMMA ReturnToTaskFromExc ==
  ASSUME Inv(c), return_to_task_from_exc
  PROVE  Inv(c')
<1>1. InHandler /\ c.ipmflg /\ c' = ret_int(Exc_ended)
      /\ Exc_ended.intnest = 0
  BY DEF return_to_task_from_exc, InHandler
<1>2. c.intnest > 0
  BY <1>1, AtEnd
<1>3. Top.locked \in BOOLEAN
  BY TopOf DEF Frames
<1>4. /\ Exc_ended \in States /\ Exc_ended.stack = c.stack
      /\ Exc_ended.tcb = c.tcb /\ Exc_ended.intnest = c.intnest - 1
      /\ Exc_ended.ipmflg = c.ipmflg /\ Exc_ended.ispr = c.ispr
      /\ Exc_ended.runtsk = c.runtsk
  BY <1>2, <1>3, ExcEndedState
<1> QED
  BY <1>1, <1>4, RetInt

-----------------------------------------------------------------------------
(* The invariant.                                                          *)

LEMMA InitInv ==
  ASSUME Init
  PROVE  Inv(c)
<1> DEFINE tcb == [t \in Tasks |-> activate_context]
<1>1. tcb \in [Tasks -> Seq(Frames)] /\ \A t \in Tasks : Saved(tcb[t])
  BY SavedActivate
<1>2. c = [imr |-> INTPRI_LOCK, ispr |-> {}, lock_flag |-> TRUE,
           current_intpri |-> INTPRI_ENAALL, intnest |-> 0, ipmflg |-> TRUE,
           runtsk |-> NULL, stack |-> dispatcher, tcb |-> tcb]
  BY DEF Init
<1> HIDE DEF tcb
<1>3. /\ c \in States /\ c.tcb = tcb /\ c.stack = dispatcher
      /\ c.intnest = 0 /\ c.ispr = {} /\ c.current_intpri = 0 /\ c.ipmflg
  BY <1>1, <1>2, DispatcherSeq, PrcAssumption DEF States, INTPRI_ENAALL
<1>4. Running(c, 0)
  BY <1>3, Fresh
<1> QED
  BY <1>1, <1>3, <1>4 DEF Inv

(* Every step of tasks, dispatcher and handlers keeps the invariant.       *)
LEMMA NextInv ==
  ASSUME Inv(c), [Next]_c
  PROVE  Inv(c')
<1>1. CASE lock_cpu
  BY <1>1, LockCpu
<1>2. CASE unlock_cpu
  BY <1>2, UnlockCpu
<1>3. CASE dispatch
  BY <1>3, Dispatch
<1>4. CASE ext_tsk
  BY <1>4, ExtTsk
<1>5. CASE \E intpri \in Masks : chg_ipm(intpri)
  BY <1>5, ChgIpm
<1>6. CASE \E t \in Tasks : ter_tsk(t)
  BY <1>6, TerTsk
<1>7. CASE \E t \in Tasks : dispatch_to(t)
  BY <1>7, DispatchTo
<1>8. CASE pre_idle
  BY <1>8, PreIdle
<1>9. CASE idle_loop
  BY <1>9, IdleLoop
<1>10. CASE start_r
  BY <1>10, StartR
<1>11. CASE dispatch_r
  BY <1>11, DispatchR
<1>12. CASE \E lvl \in 1 .. INTPRI_LOCK : interrupt(lvl)
  BY <1>12, Interrupt
<1>13. CASE return_to_task
  BY <1>13, ReturnToTask
<1>14. CASE end_int_handler
  BY <1>14, EndIntHandler
<1>15. CASE ret_int_r
  BY <1>15, RetIntR
<1>16. CASE call_cychdr
  BY <1>16, CallCychdr
<1>17. CASE exception
  BY <1>17, Exception
<1>18. CASE end_exc_handler \/ check_texrtn_cond_exc
  BY <1>18, EndExc
<1>19. CASE return_to_task_from_exc
  BY <1>19, ReturnToTaskFromExc
<1>20. CASE UNCHANGED c
  BY <1>20
<1> QED
  BY <1>1, <1>2, <1>3, <1>4, <1>5, <1>6, <1>7, <1>8, <1>9, <1>10, <1>11,
     <1>12, <1>13, <1>14, <1>15, <1>16, <1>17, <1>18, <1>19, <1>20 DEF Next

PrcInv == Inv(c)

(* In every state of the port, some number of handlers is in progress, the *)
(* contexts below them and those of the other tasks are as saved, and what *)
(* intnest, the levels, the masks and ipmflg say is true of them.          *)
THEOREM PrcInvariant == Spec => []PrcInv
<1>1. Init => PrcInv
  BY InitInv DEF PrcInv
<1>2. PrcInv /\ [Next]_c => PrcInv'
  BY NextInv DEF PrcInv
<1> QED
  BY <1>1, <1>2, PTL DEF Spec

(* The handlers in progress are the n innermost things.                    *)
LEMMA TheHandlers ==
  ASSUME NEW n \in Nat, Running(c, n)
  PROVE  Handlers = 1 .. n /\ n < Len(c.stack) /\ Len(c.stack) \in Nat
         /\ Ints = {i \in 1 .. n : IntAt(c, i)}
<1>1. /\ Shape(c.stack, n) /\ c.stack \in Seq(Frames) /\ n < Len(c.stack)
      /\ Len(c.stack) \in Nat /\ DOMAIN c.stack = 1 .. Len(c.stack)
  BY DEF Running, Shape
<1>2. ASSUME NEW i \in n + 1 .. Len(c.stack)
      PROVE  ~InProgress(c.stack[i])
  <2>1. CASE i = Len(c.stack)
    <3>1. c.stack[i] = Last(c.stack)
      BY <2>1 DEF Last
    <3> QED
      BY <1>1, <3>1 DEF Shape, InProgress
  <2>2. CASE i \in n + 1 .. Len(c.stack) - 1
    BY <1>1, <2>2 DEF Shape, InProgress
  <2> QED
    BY <1>1, <2>1, <2>2
<1>3. \A i \in 1 .. n : i \in DOMAIN c.stack /\ InProgress(c.stack[i])
  BY <1>1 DEF Shape
<1>4. \A i \in DOMAIN c.stack : i \in 1 .. n \/ i \in n + 1 .. Len(c.stack)
  BY <1>1
<1>5. Handlers = 1 .. n
  BY <1>2, <1>3, <1>4 DEF Handlers
<1> QED
  BY <1>1, <1>5 DEF Ints, IntAt

LEMMA InvNest ==
  ASSUME Inv(c)
  PROVE  NestOK
<1>1. PICK n \in Nat : Running(c, n)
  BY DEF Inv
<1>2. Handlers = 1 .. n
  BY <1>1, TheHandlers
<1>3. Cardinality(1 .. n) = n
  BY FS_Interval
<1> QED
  BY <1>1, <1>2, <1>3 DEF NestOK, Running, NestPart

LEMMA InvLevels ==
  ASSUME Inv(c)
  PROVE  LevelsOK
<1>1. PICK n \in Nat : Running(c, n)
  BY DEF Inv
<1>2. Ints = {i \in 1 .. n : IntAt(c, i)}
  BY <1>1, TheHandlers
<1>3. c.ispr = {c.stack[i].lvl : i \in Ints}
  BY <1>1, <1>2 DEF Running, LevelsPart
<1>4. \A i, j \in Ints : i < j => c.stack[i].lvl > c.stack[j].lvl
  BY <1>1, <1>2 DEF Running, LevelsPart
<1>5. ASSUME NEW i \in Ints, \A j \in Ints : i <= j
      PROVE  c.current_intpri = c.stack[i].lvl
  <2>1. i \in 1 .. n /\ IntAt(c, i) /\ 0 \in 0 .. n /\ 0 < i
    BY <1>2
  <2>2. \A k \in 0 + 1 .. i - 1 : ~IntAt(c, k)
    <3>1. \A k \in 0 + 1 .. i - 1 : k \in 1 .. n /\ ~(i <= k)
      BY <2>1
    <3> QED
      BY <1>2, <1>5, <3>1
  <2>3. Intpri(c, 0) = c.stack[i].lvl
    BY <1>1, <2>1, <2>2 DEF Running, IntpriPart
  <2> QED
    BY <2>3 DEF Intpri
<1> QED
  BY <1>3, <1>4, <1>5 DEF LevelsOK

LEMMA InvMask ==
  ASSUME Inv(c)
  PROVE  MaskOK
<1>1. PICK n \in Nat : Running(c, n)
  BY DEF Inv
<1>2. Handlers = 1 .. n
  BY <1>1, TheHandlers
<1>3. TaskMask = Intpri(c, n)
  <2>1. CASE n = 0
    <3>1. Handlers = {}
      BY <1>2, <2>1
    <3> QED
      BY <2>1, <3>1 DEF TaskMask, Intpri
  <2>2. CASE n > 0
    <3>1. Max(1 .. n) = n
      BY <2>2 DEF Max
    <3>2. Handlers # {}
      BY <1>2, <2>2
    <3> QED
      BY <1>2, <2>2, <3>1, <3>2 DEF TaskMask, Intpri
  <2> QED
    BY <2>1, <2>2
<1>4. c.ipmflg <=> TaskMask = INTPRI_ENAALL
  BY <1>1, <1>3 DEF Running, MaskPart
<1>5. ASSUME InTask, Top.at = "user"
      PROVE  c.imr = c.current_intpri /\ ~c.lock_flag
  <2>1. Top.kind = "task" /\ Running(c, 0) /\ Len(c.stack) = 1
        /\ Top = c.stack[1]
    BY <1>5, NoTex, TopOf
  <2>2. TaskUser(c.stack, 0)
    BY <1>5, <2>1 DEF TaskUser, Last
  <2> QED
    BY <2>1, <2>2 DEF Running, MaskPart
<1> QED
  BY <1>4, <1>5 DEF MaskOK

(* NestOK: sense_context tells the truth, for every number of tasks, of    *)
(* levels and of handlers nested.                                          *)
THEOREM PrcNest == Spec => []NestOK
<1>1. PrcInv => NestOK
  BY InvNest DEF PrcInv
<1> QED
  BY <1>1, PrcInvariant, PTL

(* LevelsOK: the levels in service are those of the handlers in progress,  *)
(* each interrupts only lower ones, and the current level is the           *)
(* innermost's.                                                            *)
THEOREM PrcLevels == Spec => []LevelsOK
<1>1. PrcInv => LevelsOK
  BY InvLevels DEF PrcInv
<1> QED
  BY <1>1, PrcInvariant, PTL

(* MaskOK: a task's code runs under the mask the task set, wherever it was *)
(* interrupted or switched out, and ipmflg says whether that is open.      *)
THEOREM PrcMask == Spec => []MaskOK
<1>1. PrcInv => MaskOK
  BY InvMask DEF PrcInv
<1> QED
  BY <1>1, PrcInvariant, PTL

-----------------------------------------------------------------------------
(* The mask of critical sections.                                          *)

(* ret_int gets to the dispatcher with the CPU locked.                     *)
LEMMA RetIntLocks ==
  ASSUME NEW S \in States, Len(S.stack) > 0
  PROVE  ret_int(S).imr = INTPRI_LOCK
<1> DEFINE G == Goto(S, "ret_int_r")
           Y == [x_lock_cpu(G) EXCEPT !.current_intpri = INTPRI_ENAALL]
           D == Save(Y)
<1>1. ret_int(S) = IF Head(S.stack).kind = "exc" THEN D ELSE reti(D)
  BY DEF ret_int
<1>2. SameBut(S, G) /\ Moved(S.stack, G.stack, "ret_int_r")
  BY GotoState DEF Places
<1> HIDE DEF G
<1>3. Y \in States /\ Y.stack = G.stack /\ Y.imr = INTPRI_LOCK
  BY <1>2, PrcAssumption
  DEF SameBut, States, x_lock_cpu, set_intpri, INTPRI_ENAALL
<1> HIDE DEF Y
<1>4. D \in States /\ D.imr = INTPRI_LOCK
  BY <1>2, <1>3, SaveState DEF Moved
<1> HIDE DEF D
<1> QED
  BY <1>1, <1>4, RetiState

LEMMA LockStep ==
  ASSUME Inv(c), Next, Critical(c'),
         Critical(c) => c.imr = INTPRI_LOCK
  PROVE  \/ c'.imr = INTPRI_LOCK
         \/ \E intpri \in Masks : chg_ipm(intpri)
         \/ ext_tsk \/ call_cychdr \/ end_int_handler \/ ret_int_r
         \/ end_exc_handler \/ check_texrtn_cond_exc
<1>1. /\ c \in States /\ Len(c.stack) > 0 /\ c.stack \in Seq(Frames)
      /\ Top = Head(c.stack) /\ Top = c.stack[1]
  BY TopOf DEF Top
<1>2. CASE lock_cpu
  <2> DEFINE X == x_lock_cpu(c)
  <2>1. X \in States /\ X.imr = INTPRI_LOCK /\ X.stack = c.stack
    BY <1>1, PrcAssumption DEF x_lock_cpu, set_intpri, States
  <2>2. c' = Goto(X, "kernel")
    BY <1>2 DEF lock_cpu
  <2> HIDE DEF X
  <2>3. SameBut(X, c')
    BY <1>1, <2>1, <2>2, GotoState DEF Places
  <2> QED
    BY <2>1, <2>3 DEF SameBut
<1>3. CASE unlock_cpu
  <2> DEFINE X == x_unlock_cpu(c)
  <2>1. X \in States /\ X.stack = c.stack
    BY <1>1 DEF x_unlock_cpu, set_intpri, States
  <2>2. c' = Goto(X, "user")
    BY <1>3 DEF unlock_cpu
  <2> HIDE DEF X
  <2>3. Moved(c.stack, c'.stack, "user")
    BY <1>1, <2>1, <2>2, GotoState DEF Places
  <2>4. Head(c'.stack).at = "user"
    BY <1>1, <2>3 DEF Moved
  <2> QED
    BY <2>4 DEF Critical
<1>4. CASE dispatch
  <2>1. c.imr = INTPRI_LOCK
    BY <1>1, <1>4 DEF dispatch, InKernel, Critical
  <2> DEFINE G == Goto(c, "dispatch_r")
  <2>2. SameBut(c, G) /\ Moved(c.stack, G.stack, "dispatch_r")
    BY <1>1, GotoState DEF Places
  <2>3. c' = Save(G)
    BY <1>4 DEF dispatch
  <2> HIDE DEF G
  <2>4. c'.imr = G.imr
    BY <2>2, <2>3, SaveState DEF SameBut, Moved
  <2> QED
    BY <2>1, <2>2, <2>4 DEF SameBut
<1>5. CASE \E t \in Tasks : ter_tsk(t)
  <2>1. c.imr = INTPRI_LOCK
    BY <1>1, <1>5 DEF ter_tsk, InKernel, Critical
  <2>2. c'.imr = c.imr
    BY <1>1, <1>5 DEF ter_tsk, States
  <2> QED
    BY <2>1, <2>2
<1>6. CASE \E t \in Tasks : dispatch_to(t)
  <2>1. Top.kind = "dispatcher"
    BY <1>6 DEF dispatch_to
  <2>2. Top.at = "dispatcher"
    <3>1. Running(c, 0) /\ Len(c.stack) = 1
      BY <2>1, AtBottom
    <3>2. Last(c.stack) = Top
      BY <1>1, <3>1 DEF Last
    <3> QED
      BY <2>1, <3>1, <3>2 DEF Running, Shape
  <2>3. c.imr = INTPRI_LOCK
    BY <1>1, <2>2 DEF Critical
  <2>4. c'.imr = c.imr
    BY <1>1, <1>6 DEF dispatch_to, States
  <2> QED
    BY <2>3, <2>4
<1>7. CASE pre_idle
  <2> DEFINE f == Frame("idle", "user")  s == <<f>>
  <2>1. f.at = "user"
    BY DEF Frame
  <2>2. Head(s) = f
    OBVIOUS
  <2> HIDE DEF f
  <2>3. c'.stack = s
    BY <1>1, <1>7 DEF pre_idle, States, set_intpri, f
  <2> QED
    BY <2>1, <2>2, <2>3 DEF Critical
<1>8. CASE idle_loop
  BY <1>1, <1>8 DEF idle_loop, States, set_intpri
<1>9. CASE start_r
  <2> DEFINE G == Goto(c, "user")
  <2>1. Moved(c.stack, G.stack, "user") /\ SameBut(c, G)
    BY <1>1, GotoState DEF Places
  <2>2. c' = [set_intpri(G, INTPRI_ENAALL) EXCEPT !.lock_flag = FALSE]
    BY <1>9 DEF start_r
  <2> HIDE DEF G
  <2>3. c'.stack = G.stack
    BY <2>1, <2>2 DEF SameBut, States, set_intpri
  <2>4. Head(c'.stack).at = "user"
    BY <1>1, <2>1, <2>3 DEF Moved
  <2> QED
    BY <2>4 DEF Critical
<1>10. CASE dispatch_r
  <2>1. c.imr = INTPRI_LOCK
    BY <1>1, <1>10 DEF dispatch_r, Critical
  <2>2. SameBut(c, c')
    BY <1>1, <1>10, GotoState DEF Places, dispatch_r
  <2> QED
    BY <2>1, <2>2 DEF SameBut
<1>11. CASE \E lvl \in 1 .. INTPRI_LOCK : interrupt(lvl)
  <2>1. PICK lvl \in 1 .. INTPRI_LOCK : interrupt(lvl)
    BY <1>11
  <2> DEFINE f == [Frame("int", "user") EXCEPT !.lvl = lvl,
                                               !.ipm = c.current_intpri]
             s == <<f>> \o c.stack
  <2>2. lvl \in Nat /\ c.current_intpri \in Nat
    BY <1>1, PrcAssumption, Fields
  <2>3. f \in Frames /\ f.at = "user"
    BY <2>2 DEF Frame, Frames, Kinds, Places
  <2>4. c'.stack = s
    BY <1>1, <2>1 DEF interrupt, Push, States
  <2> HIDE DEF f
  <2>5. Head(s) = f
    BY <1>1, <2>3
  <2> QED
    BY <2>3, <2>4, <2>5 DEF Critical
<1>12. CASE return_to_task
  <2>1. c' = ret_int(Ended) /\ InHandler
    BY <1>12 DEF return_to_task, InHandler
  <2>2. Ended \in States /\ Ended.stack = c.stack
    BY <2>1, AtEnd, EndedState
  <2> QED
    BY <1>1, <2>1, <2>2, RetIntLocks
<1>13. CASE return_to_task_from_exc
  <2>1. c' = ret_int(Exc_ended) /\ InHandler
    BY <1>13 DEF return_to_task_from_exc, InHandler
  <2>2. Top.locked \in BOOLEAN
    BY TopOf DEF Frames
  <2>3. Exc_ended \in States /\ Exc_ended.stack = c.stack
    BY <2>1, <2>2, AtEnd, ExcEndedState
  <2> QED
    BY <1>1, <2>1, <2>3, RetIntLocks
<1>14. CASE exception
  <2> DEFINE f == [Frame("exc", "user") EXCEPT !.ipm = c.current_intpri,
                                               !.locked = c.lock_flag]
             s == <<f>> \o c.stack
  <2>1. f \in Frames /\ f.at = "user"
    BY <1>1, Fields DEF Frame, Frames, Kinds, Places
  <2>2. c'.stack = s
    BY <1>1, <1>14 DEF exception, Push, States, set_intpri
  <2> HIDE DEF f
  <2>3. Head(s) = f
    BY <1>1, <2>1
  <2> QED
    BY <2>1, <2>2, <2>3 DEF Critical
<1> QED
  BY <1>2, <1>3, <1>4, <1>5, <1>6, <1>7, <1>8, <1>9, <1>10, <1>11, <1>12,
     <1>13, <1>14 DEF Next

(* LockKept: critical sections are entered with the mask of the CPU lock,  *)
(* and but for the steps it names the mask stays, from task to task.       *)
THEOREM PrcLockKept == Spec => LockKept
<1>1. PrcInv /\ [Next]_c =>
        [Critical(c') /\ (Critical(c) => c.imr = INTPRI_LOCK) =>
           \/ c'.imr = INTPRI_LOCK
           \/ \E intpri \in Masks : chg_ipm(intpri)
           \/ ext_tsk \/ call_cychdr \/ end_int_handler \/ ret_int_r
           \/ end_exc_handler \/ check_texrtn_cond_exc]_c
  BY LockStep DEF PrcInv
<1> QED
  BY <1>1, PrcInvariant, PTL DEF Spec, LockKept
=============================================================================
