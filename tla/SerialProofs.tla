---------------------------- MODULE SerialProofs ----------------------------
(***************************************************************************)
(* Theorems about the serial driver, for any tasks, strings, settings and  *)
(* sizes of the buffers: its tokens, its sender, the order of what it      *)
(* sends, and that none of its calls fails.                                *)
(*                                                                         *)
(* The argument is one inductive invariant, IInv.  Its parts SndToken and  *)
(* RcvToken say where the resource of each semaphore is; a handler keeps   *)
(* them because it signals exactly when it finds the buffer full, or       *)
(* empty, and a task because it gives the resource up exactly when it      *)
(* leaves the buffer so.                                                   *)
(***************************************************************************)
EXTENDS Serial, FiniteSetTheorems, TLAPS

-----------------------------------------------------------------------------
(* The types.                                                              *)

Char == Chars \cup {LF, CR, FC_STOP, FC_START}

Port ==
  [openflag : BOOLEAN, errorflag : BOOLEAN,
   ioctl : SUBSET {"ECHO", "CRLF", "FCSND", "FCANY", "FCRCV"},
   rcv : Seq(Char), rcv_fc_chr : {FC_STOP, FC_START, NULL},
   rcv_stopped : BOOLEAN,
   snd : Seq(Char), snd_stopped : BOOLEAN,
   txena : BOOLEAN, rxena : BOOLEAN, txreq : BOOLEAN,
   uatx : Char \cup {NULL}, uarx : Char \cup {NULL}]

Sems == [snd : {0, 1}, rcv : {0, 1}]

Task ==
  [at : {"idle", "w_wai", "w_chr", "w_cr", "w_put", "w_sig",
         "r_wai", "r_chr", "r_sig"},
   waits : {"none", "snd", "rcv"},
   rest : Seq(Char), reading : BOOLEAN, len : Int, empty : BOOLEAN]

TypeOK == p \in Port /\ sem \in Sems /\ us \in [Users -> Task]

-----------------------------------------------------------------------------
(* The parts of the inductive invariant, each of a port P, of semaphores S *)
(* and of tasks U, so that it can be stated of the states a step passes    *)
(* through.                                                                *)

(* Where a task can be, and what it has then.                              *)
Placed(x) ==
  /\ x.waits = "snd" => x.at \in {"w_chr", "w_put"}
  /\ x.waits = "rcv" => x.at = "r_chr"
  /\ x.at \in {"w_wai", "w_chr", "w_cr", "w_put"} => x.rest # <<>>
  /\ x.at \in {"r_wai", "r_chr", "r_sig"} => x.reading
  /\ x.at = "r_wai" => x.empty
  /\ x.at = "idle" => x = Idle

(* MaySend and MayRead, of the record of a task.                           *)
Sends(x) == x.waits = "none" /\ x.at \in {"w_chr", "w_put", "w_sig"}
Reads(x) ==
  /\ x.reading /\ x.waits # "rcv"
  /\ x.at \in {"r_chr", "r_sig"} \/ ~x.empty

(* Tasks are in the driver, and interrupts come, only with the port open.  *)
Closed(P, S, U) ==
  IF P.openflag THEN P.txena
  ELSE /\ \A u \in Users : U[u] = Idle
       /\ S.snd = 1 /\ S.rcv = 0
       /\ ~P.txena /\ ~P.rxena

(* The resource of the semaphore snd is in one place.                      *)
SndToken(P, S, U) ==
  P.openflag =>
    /\ Len(P.snd) <= snd_bufsz
    /\ \A u, v \in Users : Sends(U[u]) /\ Sends(U[v]) => u = v
    /\ S.snd = 1 => Len(P.snd) < snd_bufsz
    /\ \A u \in Users : Sends(U[u]) => S.snd = 0 /\ Len(P.snd) < snd_bufsz
    /\ S.snd = 1 \/ Len(P.snd) = snd_bufsz \/ \E u \in Users : Sends(U[u])

(* The same of rcv, which a task that echoes loses when its wait ends.     *)
RcvToken(P, S, U) ==
  P.openflag =>
    /\ Len(P.rcv) <= rcv_bufsz
    /\ \A u, v \in Users : Reads(U[u]) /\ Reads(U[v]) => u = v
    /\ S.rcv = 1 => Len(P.rcv) > 0
    /\ \A u \in Users : Reads(U[u]) => S.rcv = 0 /\ Len(P.rcv) > 0
    /\ "echo" \notin Releases =>
         S.rcv = 1 \/ Len(P.rcv) = 0 \/ \E u \in Users : Reads(U[u])

(* SendingOK of a port.                                                    *)
Going(P) ==
  (P.openflag /\ ((Len(P.snd) > 0 /\ ~P.snd_stopped) \/ P.rcv_fc_chr # NULL))
    => P.uatx # NULL \/ (P.txreq /\ P.txena)

Sound(P, S, U) ==
  /\ P \in Port /\ S \in Sems /\ U \in [Users -> Task]
  /\ \A u \in Users : Placed(U[u])
  /\ Closed(P, S, U)
  /\ SndToken(P, S, U)
  /\ RcvToken(P, S, U)
  /\ Going(P)
  /\ ~P.errorflag

IInv == Sound(p, sem, us)

(* SentInOrder of a step from the port P to the port Q.                    *)
Ordered(P, Q) ==
  LET old == P.snd
      new == Q.snd
  IN P.openflag /\ Q.openflag =>
       IF P.uatx = NULL /\ Q.uatx # NULL
       THEN \/ Q.uatx \in {FC_STOP, FC_START} /\ new = old
            \/ /\ ~Q.snd_stopped
               /\ IF old = <<>> THEN new = <<>>
                  ELSE Q.uatx = Head(old) /\ new = Tail(old)
       ELSE \/ new = old
            \/ /\ P.txreq /\ P.uatx # NULL
               /\ old # <<>> /\ new = Tail(old)
            \/ new # <<>> /\ new = Append(old, new[Len(new)])

-----------------------------------------------------------------------------
(* The constants.                                                          *)

LEMMA NullNotChar == NULL \notin Char
<1>0. NULL \notin Chars
  BY SerialAssumption DEF SerialAssumption
<1>1. SUFFICES ASSUME NULL \in {LF, CR, FC_STOP, FC_START} PROVE FALSE
  BY <1>0 DEF Char
<1> DEFINE A == {LF}
           B == A \cup {CR}
           C == B \cup {FC_STOP}
           D == C \cup {FC_START}
<1>2. IsFiniteSet(A) /\ Cardinality(A) = 1
  BY FS_Singleton
<1>3. /\ IsFiniteSet(B)
      /\ Cardinality(B) = Cardinality(A) \/ Cardinality(B) = Cardinality(A) + 1
  <2> HIDE DEF A
  <2> QED BY <1>2, FS_AddElement
<1>4. /\ IsFiniteSet(C)
      /\ Cardinality(C) = Cardinality(B) \/ Cardinality(C) = Cardinality(B) + 1
  <2> HIDE DEF B
  <2> QED BY <1>3, FS_AddElement
<1>5. /\ IsFiniteSet(D)
      /\ Cardinality(D) = Cardinality(C) \/ Cardinality(D) = Cardinality(C) + 1
  <2> HIDE DEF C
  <2> QED BY <1>4, FS_AddElement
<1>6. D = {LF, CR, FC_STOP, FC_START, NULL}
  BY <1>1
<1>7. Cardinality(D) = 5
  BY <1>6, SerialAssumption DEF SerialAssumption
<1>8. Cardinality(D) < 5
  <2> HIDE DEF A, B, C, D
  <2> QED BY <1>2, <1>3, <1>4, <1>5
<1> QED BY <1>7, <1>8

LEMMA FlowChar == FC_STOP \in Char /\ FC_START \in Char /\ CR \in Char
BY DEF Char

-----------------------------------------------------------------------------
(* What the operators do to a port.                                        *)

(* What none of them touches.                                              *)
Kept(P, Q) ==
  /\ Q \in Port
  /\ Q.openflag = P.openflag /\ Q.errorflag = P.errorflag
  /\ P.txena => Q.txena

(* A character is given to the UART, or not, with the buffers as they are. *)
LEMMA SndChrFree ==
  ASSUME NEW P \in Port, NEW c \in Char, NEW ctx, P.uatx = NULL
  PROVE  /\ serial_snd_chr(P, c, ctx).ok
         /\ serial_snd_chr(P, c, ctx).st = [P EXCEPT !.uatx = c]
<1>1. sio_snd_chr(P, c) = [ok |-> TRUE, st |-> [P EXCEPT !.uatx = c]]
  BY DEF sio_snd_chr
<1>2. sio_snd_chr(P, c).ok /\ sio_snd_chr(P, c).st = [P EXCEPT !.uatx = c]
  BY ONLY <1>1
<1>3. serial_snd_chr(P, c, ctx) = sio_snd_chr(P, c)
  BY <1>2 DEF serial_snd_chr
<1> QED BY <1>2, <1>3

LEMMA SndChrBusy ==
  ASSUME NEW P \in Port, NEW c \in Char, NEW ctx, P.uatx # NULL
  PROVE  /\ ~serial_snd_chr(P, c, ctx).ok
         /\ serial_snd_chr(P, c, ctx).st = sio_ena_cbr_snd(P, ctx)
<1>1. sio_snd_chr(P, c) = [ok |-> FALSE, st |-> P]
  BY DEF sio_snd_chr
<1>2. ~sio_snd_chr(P, c).ok /\ sio_snd_chr(P, c).st = P
  BY ONLY <1>1
<1>3. serial_snd_chr(P, c, ctx)
        = [sio_snd_chr(P, c) EXCEPT !.st = sio_ena_cbr_snd(@, ctx)]
  BY <1>2 DEF serial_snd_chr
<1>4. PICK Q : Q = sio_ena_cbr_snd(P, ctx)
  OBVIOUS
<1>5. serial_snd_chr(P, c, ctx) = [[ok |-> FALSE, st |-> P] EXCEPT !.st = Q]
  BY <1>1, <1>2, <1>3, <1>4
<1> QED BY ONLY <1>4, <1>5

LEMMA EnaCbr ==
  ASSUME NEW P \in Port, NEW ctx
  PROVE  /\ Kept(P, sio_ena_cbr_snd(P, ctx))
         /\ sio_ena_cbr_snd(P, ctx).uatx = P.uatx
         /\ sio_ena_cbr_snd(P, ctx).snd = P.snd
         /\ sio_ena_cbr_snd(P, ctx).snd_stopped = P.snd_stopped
         /\ sio_ena_cbr_snd(P, ctx).rcv = P.rcv
         /\ sio_ena_cbr_snd(P, ctx).rcv_fc_chr = P.rcv_fc_chr
         /\ sio_ena_cbr_snd(P, ctx).txreq = P.txreq
<1>1. CASE ctx = "task"
  <2>1. sio_ena_cbr_snd(P, ctx) = [P EXCEPT !.txena = TRUE]
    BY <1>1 DEF sio_ena_cbr_snd
  <2>2. [P EXCEPT !.txena = TRUE] \in Port
    BY DEF Port
  <2> QED BY <2>1, <2>2 DEF Kept, Port
<1>2. CASE ctx # "task"
  BY <1>2 DEF sio_ena_cbr_snd, Kept, Port
<1> QED BY <1>1, <1>2

LEMMA GiveChr ==
  ASSUME NEW P \in Port, NEW c \in Char
  PROVE  /\ Kept(P, [P EXCEPT !.uatx = c])
         /\ [P EXCEPT !.uatx = c].uatx = c
         /\ [P EXCEPT !.uatx = c].snd = P.snd
         /\ [P EXCEPT !.uatx = c].snd_stopped = P.snd_stopped
         /\ [P EXCEPT !.uatx = c].rcv = P.rcv
         /\ [P EXCEPT !.uatx = c].rcv_fc_chr = P.rcv_fc_chr
         /\ [P EXCEPT !.uatx = c].txreq = P.txreq
<1>1. [P EXCEPT !.uatx = c] \in Port
  BY DEF Port
<1> QED BY <1>1 DEF Kept, Port

LEMMA SndChr ==
  ASSUME NEW P \in Port, NEW c \in Char, NEW ctx
  PROVE  /\ Kept(P, serial_snd_chr(P, c, ctx).st)
         /\ serial_snd_chr(P, c, ctx).ok <=> P.uatx = NULL
         /\ serial_snd_chr(P, c, ctx).st.uatx
              = IF P.uatx = NULL THEN c ELSE P.uatx
         /\ serial_snd_chr(P, c, ctx).st.snd = P.snd
         /\ serial_snd_chr(P, c, ctx).st.snd_stopped = P.snd_stopped
         /\ serial_snd_chr(P, c, ctx).st.rcv = P.rcv
         /\ serial_snd_chr(P, c, ctx).st.rcv_fc_chr = P.rcv_fc_chr
         /\ serial_snd_chr(P, c, ctx).st.txreq = P.txreq
<1>1. CASE P.uatx = NULL
  <2>1. PICK Q : Q = [P EXCEPT !.uatx = c]
    OBVIOUS
  <2>2. /\ Kept(P, Q) /\ Q.uatx = c /\ Q.snd = P.snd /\ Q.rcv = P.rcv
        /\ Q.snd_stopped = P.snd_stopped /\ Q.rcv_fc_chr = P.rcv_fc_chr
        /\ Q.txreq = P.txreq
    BY <2>1, GiveChr
  <2>3. serial_snd_chr(P, c, ctx).ok /\ serial_snd_chr(P, c, ctx).st = Q
    BY <1>1, <2>1, SndChrFree
  <2> QED BY <1>1, <2>2, <2>3
<1>2. CASE P.uatx # NULL
  BY <1>2, SndChrBusy, EnaCbr
<1> QED BY <1>1, <1>2

LEMMA SioSndChr ==
  ASSUME NEW P \in Port, NEW c \in Char
  PROVE  /\ Kept(P, sio_snd_chr(P, c).st)
         /\ sio_snd_chr(P, c).st.uatx = IF P.uatx = NULL THEN c ELSE P.uatx
         /\ sio_snd_chr(P, c).st.snd = P.snd
         /\ sio_snd_chr(P, c).st.snd_stopped = P.snd_stopped
         /\ sio_snd_chr(P, c).st.rcv = P.rcv
         /\ sio_snd_chr(P, c).st.rcv_fc_chr = P.rcv_fc_chr
<1>1. CASE P.uatx = NULL
  <2>1. sio_snd_chr(P, c) = [ok |-> TRUE, st |-> [P EXCEPT !.uatx = c]]
    BY <1>1 DEF sio_snd_chr
  <2>2. sio_snd_chr(P, c).st = [P EXCEPT !.uatx = c]
    BY ONLY <2>1
  <2>3. PICK Q : Q = [P EXCEPT !.uatx = c]
    OBVIOUS
  <2>4. /\ Kept(P, Q) /\ Q.uatx = c /\ Q.snd = P.snd /\ Q.rcv = P.rcv
        /\ Q.snd_stopped = P.snd_stopped /\ Q.rcv_fc_chr = P.rcv_fc_chr
    BY <2>3, GiveChr
  <2> QED BY <1>1, <2>2, <2>3, <2>4
<1>2. CASE P.uatx # NULL
  <2>1. sio_snd_chr(P, c) = [ok |-> FALSE, st |-> P]
    BY <1>2 DEF sio_snd_chr
  <2>2. sio_snd_chr(P, c).st = P
    BY ONLY <2>1
  <2> QED BY <1>2, <2>2 DEF Kept
<1> QED BY <1>1, <1>2

(* Dropping the head of the send buffer, and clearing the character of     *)
(* flow control.                                                           *)
LEMMA DropHead ==
  ASSUME NEW P \in Port, Len(P.snd) > 0
  PROVE  /\ Kept(P, [P EXCEPT !.snd = Get(@)])
         /\ [P EXCEPT !.snd = Get(@)].snd = Tail(P.snd)
         /\ Len([P EXCEPT !.snd = Get(@)].snd) = Len(P.snd) - 1
         /\ [P EXCEPT !.snd = Get(@)].snd_stopped = P.snd_stopped
         /\ [P EXCEPT !.snd = Get(@)].uatx = P.uatx
         /\ [P EXCEPT !.snd = Get(@)].rcv = P.rcv
         /\ [P EXCEPT !.snd = Get(@)].rcv_fc_chr = P.rcv_fc_chr
<1>1. P.snd \in Seq(Char)
  BY DEF Port
<1>2. Tail(P.snd) \in Seq(Char) /\ Len(Tail(P.snd)) = Len(P.snd) - 1
  BY <1>1
<1>3. [P EXCEPT !.snd = Get(@)] = [P EXCEPT !.snd = Tail(P.snd)]
  BY DEF Get
<1>4. PICK s \in Seq(Char) : s = Tail(P.snd)
  BY <1>2
<1>5. [P EXCEPT !.snd = s] \in Port
  BY DEF Port
<1> QED BY <1>2, <1>3, <1>4, <1>5 DEF Kept, Port

LEMMA PutTail ==
  ASSUME NEW P \in Port, NEW c \in Char
  PROVE  /\ Kept(P, [P EXCEPT !.snd = Put(@, c)])
         /\ [P EXCEPT !.snd = Put(@, c)].snd = Append(P.snd, c)
         /\ Len([P EXCEPT !.snd = Put(@, c)].snd) = Len(P.snd) + 1
         /\ [P EXCEPT !.snd = Put(@, c)].snd_stopped = P.snd_stopped
         /\ [P EXCEPT !.snd = Put(@, c)].uatx = P.uatx
         /\ [P EXCEPT !.snd = Put(@, c)].rcv = P.rcv
         /\ [P EXCEPT !.snd = Put(@, c)].rcv_fc_chr = P.rcv_fc_chr
         /\ [P EXCEPT !.snd = Put(@, c)].txreq = P.txreq
<1>1. P.snd \in Seq(Char)
  BY DEF Port
<1>2. Append(P.snd, c) \in Seq(Char) /\ Len(Append(P.snd, c)) = Len(P.snd) + 1
  BY <1>1
<1>3. [P EXCEPT !.snd = Put(@, c)] = [P EXCEPT !.snd = Append(P.snd, c)]
  BY DEF Put
<1>4. PICK s \in Seq(Char) : s = Append(P.snd, c)
  BY <1>2
<1>5. [P EXCEPT !.snd = s] \in Port
  BY DEF Port
<1> QED BY <1>2, <1>3, <1>4, <1>5 DEF Kept, Port

LEMMA FlowSet ==
  ASSUME NEW P \in Port, NEW c \in {FC_STOP, FC_START, NULL}
  PROVE  /\ Kept(P, [P EXCEPT !.rcv_fc_chr = c])
         /\ [P EXCEPT !.rcv_fc_chr = c].rcv_fc_chr = c
         /\ [P EXCEPT !.rcv_fc_chr = c].snd = P.snd
         /\ [P EXCEPT !.rcv_fc_chr = c].snd_stopped = P.snd_stopped
         /\ [P EXCEPT !.rcv_fc_chr = c].uatx = P.uatx
         /\ [P EXCEPT !.rcv_fc_chr = c].rcv = P.rcv
<1>1. [P EXCEPT !.rcv_fc_chr = c] \in Port
  BY DEF Port
<1> QED BY <1>1 DEF Kept, Port

LEMMA StopSet ==
  ASSUME NEW P \in Port, NEW b \in BOOLEAN
  PROVE  /\ Kept(P, [P EXCEPT !.snd_stopped = b])
         /\ [P EXCEPT !.snd_stopped = b].snd_stopped = b
         /\ [P EXCEPT !.snd_stopped = b].snd = P.snd
         /\ [P EXCEPT !.snd_stopped = b].uatx = P.uatx
         /\ [P EXCEPT !.snd_stopped = b].rcv = P.rcv
         /\ [P EXCEPT !.snd_stopped = b].rcv_fc_chr = P.rcv_fc_chr
         /\ [P EXCEPT !.snd_stopped = b].txreq = P.txreq
<1>1. [P EXCEPT !.snd_stopped = b] \in Port
  BY DEF Port
<1> QED BY <1>1 DEF Kept, Port

LEMMA KeptTrans ==
  ASSUME NEW P, NEW Q, NEW R, Kept(P, Q), Kept(Q, R)
  PROVE  Kept(P, R)
BY DEF Kept

(* A callback that takes a character from the send buffer signals the      *)
(* semaphore exactly if the buffer was full.                               *)
Taken(P, r) ==
  /\ Kept(P, r.st)
  /\ r.st.rcv = P.rcv
  /\ \/ r.sig = "none" /\ Len(r.st.snd) = Len(P.snd)
     \/ /\ r.sig = "none" /\ Len(P.snd) # snd_bufsz
        /\ Len(r.st.snd) = Len(P.snd) - 1
     \/ /\ r.sig = "snd" /\ Len(P.snd) = snd_bufsz
        /\ Len(r.st.snd) = Len(P.snd) - 1

(* A step that leaves the send buffer alone, and gives the UART a          *)
(* character only if it is one of flow control.                            *)
LEMMA OrderedSame ==
  ASSUME NEW P, NEW Q, Q.snd = P.snd,
         P.uatx = NULL /\ Q.uatx # NULL => Q.uatx \in {FC_STOP, FC_START}
  PROVE  Ordered(P, Q)
BY DEF Ordered

LEMMA OrderedHead ==
  ASSUME NEW P, NEW Q, P.snd # <<>>, Head(P.snd) # NULL,
         Q.snd = Tail(P.snd), ~Q.snd_stopped,
         Q.uatx = IF P.uatx = NULL THEN Head(P.snd) ELSE P.uatx,
         P.txreq \/ P.uatx = NULL
  PROVE  Ordered(P, Q)
<1>1. CASE P.uatx = NULL
  BY <1>1 DEF Ordered
<1>2. CASE P.uatx # NULL
  BY <1>2 DEF Ordered
<1> QED BY <1>1, <1>2

LEMMA HeadChar ==
  ASSUME NEW P \in Port, Len(P.snd) > 0
  PROVE  Head(P.snd) \in Char /\ Head(P.snd) # NULL /\ P.snd # <<>>
<1>1. P.snd \in Seq(Char)
  BY DEF Port
<1> QED BY <1>1, NullNotChar

LEMMA ResumeTakes ==
  ASSUME NEW P \in Port, P.openflag, P.txena, Going(P)
  PROVE  /\ Taken(P, Resume(P))
         /\ Going(Resume(P).st)
         /\ Ordered(P, Resume(P).st)
<1> DEFINE R == [P EXCEPT !.snd_stopped = FALSE]
           r == serial_snd_chr(R, Head(P.snd), "int")
<1>1. /\ Kept(P, R) /\ R.snd = P.snd /\ R.uatx = P.uatx /\ R.rcv = P.rcv
      /\ R.rcv_fc_chr = P.rcv_fc_chr /\ R.txreq = P.txreq
      /\ ~R.snd_stopped
  BY StopSet
<1>2. R \in Port /\ P.snd \in Seq(Char)
  BY <1>1 DEF Kept, Port
<1>3. CASE Len(P.snd) = 0
  <2>1. Resume(P) = [st |-> R, sig |-> "none"]
    BY <1>3 DEF Resume
  <2> HIDE DEF R
  <2>2. Resume(P).st = R /\ Resume(P).sig = "none"
    BY ONLY <2>1
  <2>3. Taken(P, Resume(P))
    BY <1>1, <2>2 DEF Taken
  <2>4. Going(R)
    BY <1>1, <1>3, Going(P) DEF Going, Kept
  <2>5. Ordered(P, R)
    BY <1>1, OrderedSame
  <2> QED BY <2>2, <2>3, <2>4, <2>5
<1>4. CASE Len(P.snd) # 0
  <2>1. /\ Head(P.snd) \in Char /\ Head(P.snd) # NULL /\ P.snd # <<>>
        /\ Len(P.snd) > 0
    BY <1>2, <1>4, HeadChar
  <2> HIDE DEF R
  <2>2. /\ Kept(R, r.st)
        /\ r.ok <=> P.uatx = NULL
        /\ r.st.uatx = IF P.uatx = NULL THEN Head(P.snd) ELSE P.uatx
        /\ r.st.snd = P.snd /\ ~r.st.snd_stopped
        /\ r.st.rcv = P.rcv /\ r.st.rcv_fc_chr = P.rcv_fc_chr
        /\ r.st.txreq = P.txreq
    BY <1>1, <1>2, <2>1, SndChr
  <2>3. Kept(P, r.st)
    BY <1>1, <2>2, KeptTrans
  <2>4. CASE P.uatx # NULL
    <3>1. Resume(P) = [st |-> r.st, sig |-> "none"]
      BY <1>4, <2>2, <2>4 DEF Resume, R
    <3> HIDE DEF r
    <3>2. Resume(P).st = r.st /\ Resume(P).sig = "none"
      BY ONLY <3>1
    <3>3. Taken(P, Resume(P))
      BY <2>2, <2>3, <3>2 DEF Taken
    <3>4. Going(r.st)
      BY <2>2, <2>4 DEF Going
    <3>5. Ordered(P, r.st)
      BY <2>2, <2>4, OrderedSame
    <3> QED BY <3>2, <3>3, <3>4, <3>5
  <2>5. CASE P.uatx = NULL
    <3> DEFINE Q == [r.st EXCEPT !.snd = Get(@)]
    <3>1. Resume(P)
            = [st |-> Q, sig |-> IF Len(P.snd) = snd_bufsz THEN "snd" ELSE "none"]
      BY <1>4, <2>2, <2>5 DEF Resume, R
    <3>2. r.st \in Port
      BY <2>3 DEF Kept
    <3>3. /\ Kept(r.st, Q) /\ Q.snd = Tail(P.snd)
          /\ Len(Q.snd) = Len(P.snd) - 1 /\ ~Q.snd_stopped
          /\ Q.uatx = Head(P.snd) /\ Q.rcv = P.rcv
      <4> HIDE DEF r
      <4> QED BY <2>1, <2>2, <2>5, <3>2, DropHead
    <3>4. Kept(P, Q)
      BY <2>3, <3>3, KeptTrans
    <3> HIDE DEF r, Q
    <3>5. /\ Resume(P).st = Q
          /\ Resume(P).sig = IF Len(P.snd) = snd_bufsz THEN "snd" ELSE "none"
      BY ONLY <3>1
    <3>6. Taken(P, Resume(P))
      BY <3>3, <3>4, <3>5 DEF Taken
    <3>7. Going(Q)
      BY <2>1, <3>3 DEF Going
    <3>8. Ordered(P, Q)
      BY <2>1, <2>5, <3>3, OrderedHead
    <3> QED BY <3>5, <3>6, <3>7, <3>8
  <2> QED BY <2>4, <2>5
<1> QED BY <1>3, <1>4

LEMMA IrdySndTakes ==
  ASSUME NEW P \in Port, P.openflag, P.txena, P.txreq, Going(P)
  PROVE  /\ Taken(P, sio_irdy_snd([P EXCEPT !.txreq = FALSE]))
         /\ Going(sio_irdy_snd([P EXCEPT !.txreq = FALSE]).st)
         /\ Ordered(P, sio_irdy_snd([P EXCEPT !.txreq = FALSE]).st)
<1> DEFINE R == [P EXCEPT !.txreq = FALSE]
           r == sio_irdy_snd(R)
<1>1. /\ Kept(P, R) /\ R.snd = P.snd /\ R.uatx = P.uatx /\ R.rcv = P.rcv
      /\ R.rcv_fc_chr = P.rcv_fc_chr /\ R.snd_stopped = P.snd_stopped
  <2>1. R \in Port
    BY DEF Port
  <2> QED BY <2>1 DEF Kept, Port
<1>2. R \in Port /\ P.snd \in Seq(Char)
  BY <1>1 DEF Kept, Port
<1>3. P.rcv_fc_chr \in {FC_STOP, FC_START, NULL}
  BY DEF Port
<1> HIDE DEF R
<1>4. CASE P.rcv_fc_chr # NULL
  <2> DEFINE c == P.rcv_fc_chr
             T == sio_snd_chr(R, c).st
             Q == [T EXCEPT !.rcv_fc_chr = NULL]
  <2>1. c \in Char /\ c \in {FC_STOP, FC_START}
    BY <1>3, <1>4, FlowChar
  <2>2. r = [st |-> Q, sig |-> "none"]
    BY <1>1, <1>4 DEF sio_irdy_snd
  <2>3. r.st = Q /\ r.sig = "none"
    <3> HIDE DEF Q, r
    <3> QED BY ONLY <2>2
  <2>4. /\ Kept(R, T) /\ T.uatx = IF P.uatx = NULL THEN c ELSE P.uatx
        /\ T.snd = P.snd /\ T.rcv = P.rcv
    <3> HIDE DEF c
    <3> QED BY <1>1, <1>2, <2>1, SioSndChr
  <2>5. /\ Kept(T, Q) /\ Q.snd = T.snd /\ Q.uatx = T.uatx /\ Q.rcv = T.rcv
    <3>1. T \in Port
      BY <2>4 DEF Kept
    <3> HIDE DEF T
    <3> QED BY <3>1, FlowSet
  <2>6. Kept(P, Q)
    BY <1>1, <2>4, <2>5, KeptTrans
  <2>7. Q.uatx # NULL /\ (P.uatx = NULL => Q.uatx \in {FC_STOP, FC_START})
    BY <1>4, <2>1, <2>4, <2>5
  <2> HIDE DEF Q, T, r, c
  <2>8. Taken(P, r)
    BY <2>3, <2>4, <2>5, <2>6 DEF Taken
  <2>9. Going(Q)
    BY <2>7 DEF Going
  <2>10. Ordered(P, Q)
    BY <2>4, <2>5, <2>7, OrderedSame
  <2> QED BY <2>3, <2>8, <2>9, <2>10 DEF r, R
<1>5. CASE P.rcv_fc_chr = NULL /\ ~P.snd_stopped /\ Len(P.snd) > 0
  <2> DEFINE c == Head(P.snd)
             T == sio_snd_chr(R, c).st
             Q == [T EXCEPT !.snd = Get(@)]
  <2>1. c \in Char /\ c # NULL /\ P.snd # <<>>
    BY <1>5, HeadChar
  <2>2. r = [st |-> Q, sig |-> IF Len(P.snd) = snd_bufsz THEN "snd" ELSE "none"]
    BY <1>1, <1>5 DEF sio_irdy_snd
  <2>3. r.st = Q /\ r.sig = IF Len(P.snd) = snd_bufsz THEN "snd" ELSE "none"
    <3> HIDE DEF Q, r
    <3> QED BY ONLY <2>2
  <2>4. /\ Kept(R, T) /\ T.uatx = IF P.uatx = NULL THEN c ELSE P.uatx
        /\ T.snd = P.snd /\ T.rcv = P.rcv /\ ~T.snd_stopped
    <3> HIDE DEF c
    <3> QED BY <1>1, <1>2, <1>5, <2>1, SioSndChr
  <2>5. /\ Kept(T, Q) /\ Q.snd = Tail(P.snd) /\ Q.uatx = T.uatx
        /\ Q.rcv = T.rcv /\ ~Q.snd_stopped /\ Len(Q.snd) = Len(P.snd) - 1
    <3>1. T \in Port
      BY <2>4 DEF Kept
    <3> HIDE DEF T
    <3> QED BY <1>5, <2>4, <3>1, DropHead
  <2>6. Kept(P, Q)
    BY <1>1, <2>4, <2>5, KeptTrans
  <2>7. Q.uatx = IF P.uatx = NULL THEN c ELSE P.uatx
    BY <2>4, <2>5
  <2> HIDE DEF Q, T, r
  <2>8. Taken(P, r)
    BY <2>3, <2>4, <2>5, <2>6 DEF Taken
  <2>9. Going(Q)
    BY <2>1, <2>7 DEF Going
  <2>10. Ordered(P, Q)
    BY <2>1, <2>5, <2>7, OrderedHead
  <2> QED BY <2>3, <2>8, <2>9, <2>10 DEF r, R
<1>6. CASE P.rcv_fc_chr = NULL /\ ~(~P.snd_stopped /\ Len(P.snd) > 0)
  <2>1. r = [st |-> R, sig |-> "none"]
    BY <1>1, <1>6 DEF sio_irdy_snd, sio_dis_cbr_snd
  <2> HIDE DEF r
  <2>2. r.st = R /\ r.sig = "none"
    BY ONLY <2>1
  <2>3. Taken(P, r)
    BY <1>1, <2>2 DEF Taken
  <2>4. Going(R)
    BY <1>1, <1>6 DEF Going
  <2>5. Ordered(P, R)
    BY <1>1, OrderedSame
  <2> QED BY <2>2, <2>3, <2>4, <2>5 DEF r, R
<1> QED BY <1>4, <1>5, <1>6

(* After a character of flow control the transmitter is busy.              *)
LEMMA SendFc ==
  ASSUME NEW P \in Port, NEW c \in {FC_STOP, FC_START}, NEW ctx
  PROVE  /\ Kept(P, Send_fc(P, c, ctx))
         /\ Send_fc(P, c, ctx).snd = P.snd
         /\ Send_fc(P, c, ctx).snd_stopped = P.snd_stopped
         /\ Send_fc(P, c, ctx).rcv = P.rcv
         /\ Send_fc(P, c, ctx).uatx # NULL
         /\ P.uatx = NULL => Send_fc(P, c, ctx).uatx = c
<1> DEFINE r == serial_snd_chr(P, c, ctx)
<1>1. c \in Char /\ c # NULL /\ c \in {FC_STOP, FC_START, NULL}
  BY FlowChar, NullNotChar
<1>2. /\ Kept(P, r.st) /\ r.st \in Port
      /\ r.ok <=> P.uatx = NULL
      /\ r.st.uatx = IF P.uatx = NULL THEN c ELSE P.uatx
      /\ r.st.snd = P.snd /\ r.st.snd_stopped = P.snd_stopped
      /\ r.st.rcv = P.rcv
  BY <1>1, SndChr DEF Kept
<1>3. CASE P.uatx = NULL
  <2>1. Send_fc(P, c, ctx) = r.st
    BY <1>2, <1>3 DEF Send_fc
  <2> HIDE DEF r
  <2> QED BY <1>1, <1>2, <1>3, <2>1
<1>4. CASE P.uatx # NULL
  <2>1. Send_fc(P, c, ctx) = [r.st EXCEPT !.rcv_fc_chr = c]
    BY <1>2, <1>4 DEF Send_fc
  <2> HIDE DEF r
  <2>2. PICK T \in Port : T = r.st
    BY <1>2
  <2>3. PICK Q : Q = [T EXCEPT !.rcv_fc_chr = c]
    OBVIOUS
  <2>4. /\ Kept(T, Q) /\ Q.snd = T.snd /\ Q.snd_stopped = T.snd_stopped
        /\ Q.uatx = T.uatx /\ Q.rcv = T.rcv
    BY <1>1, <2>3, FlowSet
  <2>5. Kept(P, Q)
    BY <1>2, <2>2, <2>4, KeptTrans
  <2> QED BY <1>2, <1>4, <2>1, <2>2, <2>3, <2>4, <2>5
<1> QED BY <1>3, <1>4

(* The callback that stores a character signals the semaphore exactly if   *)
(* the buffer was empty.                                                   *)
Stored(P, r) ==
  /\ Kept(P, r.st)
  /\ r.st.snd = P.snd
  /\ Len(P.rcv) # rcv_bufsz
  /\ Len(r.st.rcv) = Len(P.rcv) + 1
  /\ r.sig = IF Len(P.rcv) = 0 THEN "rcv" ELSE "none"

LEMMA RcvSet ==
  ASSUME NEW P \in Port, NEW s \in Seq(Char)
  PROVE  /\ Kept(P, [P EXCEPT !.rcv = s])
         /\ [P EXCEPT !.rcv = s].rcv = s
         /\ [P EXCEPT !.rcv = s].snd = P.snd
         /\ [P EXCEPT !.rcv = s].snd_stopped = P.snd_stopped
         /\ [P EXCEPT !.rcv = s].uatx = P.uatx
         /\ [P EXCEPT !.rcv = s].rcv_fc_chr = P.rcv_fc_chr
         /\ [P EXCEPT !.rcv = s].txreq = P.txreq
<1>1. [P EXCEPT !.rcv = s] \in Port
  BY DEF Port
<1> QED BY <1>1 DEF Kept, Port

LEMMA RcvStopSet ==
  ASSUME NEW P \in Port, NEW b \in BOOLEAN
  PROVE  /\ Kept(P, [P EXCEPT !.rcv_stopped = b])
         /\ [P EXCEPT !.rcv_stopped = b].rcv = P.rcv
         /\ [P EXCEPT !.rcv_stopped = b].snd = P.snd
         /\ [P EXCEPT !.rcv_stopped = b].snd_stopped = P.snd_stopped
         /\ [P EXCEPT !.rcv_stopped = b].uatx = P.uatx
<1>1. [P EXCEPT !.rcv_stopped = b] \in Port
  BY DEF Port
<1> QED BY <1>1 DEF Kept, Port

(* A port whose receive buffer has changed, without and with a character   *)
(* of flow control for it: in Receive and in serial_rea_chr.               *)
LEMMA FlowNotSent ==
  ASSUME NEW P \in Port, Going(P), NEW s \in Seq(Char),
         NEW Q, Q = [P EXCEPT !.rcv = s]
  PROVE  Kept(P, Q) /\ Q.snd = P.snd /\ Q.rcv = s /\ Going(Q) /\ Ordered(P, Q)
<1>1. /\ Kept(P, Q) /\ Q.rcv = s /\ Q.snd = P.snd /\ Q.uatx = P.uatx
      /\ Q.snd_stopped = P.snd_stopped /\ Q.rcv_fc_chr = P.rcv_fc_chr
      /\ Q.txreq = P.txreq /\ Q \in Port
  BY RcvSet DEF Kept
<1>2. Going(Q)
  BY <1>1 DEF Going, Kept
<1>3. Ordered(P, Q)
  BY <1>1, OrderedSame
<1> QED BY <1>1, <1>2, <1>3

Flowed(P, s, c, ctx, b) ==
  [Send_fc([P EXCEPT !.rcv = s], c, ctx) EXCEPT !.rcv_stopped = b]

LEMMA FlowSent ==
  ASSUME NEW P \in Port, NEW s \in Seq(Char), NEW c \in {FC_STOP, FC_START},
         NEW ctx, NEW b \in BOOLEAN
  PROVE  /\ Kept(P, Flowed(P, s, c, ctx, b))
         /\ Flowed(P, s, c, ctx, b).snd = P.snd
         /\ Flowed(P, s, c, ctx, b).rcv = s
         /\ Going(Flowed(P, s, c, ctx, b))
         /\ Ordered(P, Flowed(P, s, c, ctx, b))
<1> DEFINE R == [P EXCEPT !.rcv = s]
           T == Send_fc(R, c, ctx)
           Q == [T EXCEPT !.rcv_stopped = b]
<1>1. /\ Kept(P, R) /\ R.rcv = s /\ R.snd = P.snd /\ R.uatx = P.uatx
      /\ R \in Port
  BY RcvSet DEF Kept
<1> HIDE DEF R
<1>2. /\ Kept(R, T) /\ T.snd = R.snd /\ T.rcv = R.rcv
      /\ T.uatx # NULL /\ (R.uatx = NULL => T.uatx = c)
  BY <1>1, SendFc
<1>3. T \in Port
  BY <1>2 DEF Kept
<1> HIDE DEF T
<1>4. Kept(T, Q) /\ Q.snd = T.snd /\ Q.rcv = T.rcv /\ Q.uatx = T.uatx
  BY <1>3, RcvStopSet
<1> HIDE DEF Q
<1>5. Kept(P, Q)
  BY <1>1, <1>2, <1>4, KeptTrans
<1>6. Going(Q)
  BY <1>2, <1>4 DEF Going
<1>7. Q.snd = P.snd /\ (P.uatx = NULL => Q.uatx \in {FC_STOP, FC_START})
  BY <1>1, <1>2, <1>4
<1>8. Ordered(P, Q)
  BY <1>7, OrderedSame
<1>9. Q = Flowed(P, s, c, ctx, b)
  BY DEF Flowed, Q, T, R
<1> QED BY <1>1, <1>2, <1>4, <1>5, <1>6, <1>8, <1>9

LEMMA ReceiveStores ==
  ASSUME NEW P \in Port, Going(P), NEW c \in Char, Len(P.rcv) # rcv_bufsz
  PROVE  /\ Stored(P, Receive(P, c))
         /\ Going(Receive(P, c).st)
         /\ Ordered(P, Receive(P, c).st)
<1> DEFINE s == Append(P.rcv, c)
           R == [P EXCEPT !.rcv = s]
           T == [Send_fc(R, FC_STOP, "int") EXCEPT !.rcv_stopped = TRUE]
           Q == Receive(P, c).st
<1>1. P.rcv \in Seq(Char)
  BY DEF Port
<1>2. s \in Seq(Char) /\ Len(s) = Len(P.rcv) + 1
  BY <1>1
<1>3. [P EXCEPT !.rcv = Put(@, c)] = R
  BY DEF Put
<1>4. /\ Q = R \/ Q = T
      /\ Receive(P, c).sig = IF Len(P.rcv) = 0 THEN "rcv" ELSE "none"
  <2> DEFINE K == /\ "FCRCV" \in P.ioctl /\ ~P.rcv_stopped
                  /\ Len(R.rcv) >= BUFCNT_STOP(rcv_bufsz)
             X == IF K THEN T ELSE R
             Y == IF Len(P.rcv) = 0 THEN "rcv" ELSE "none"
  <2>1. Receive(P, c) = [st |-> X, sig |-> Y]
    BY <1>3 DEF Receive
  <2>2. X = R \/ X = T
    <3> HIDE DEF T, R, K
    <3> QED OBVIOUS
  <2>3. Receive(P, c).st = X /\ Receive(P, c).sig = Y
    <3> HIDE DEF X, Y
    <3> QED BY ONLY <2>1
  <2> HIDE DEF X
  <2> QED BY <2>2, <2>3
<1>5. Kept(P, Q) /\ Q.snd = P.snd /\ Q.rcv = s /\ Going(Q) /\ Ordered(P, Q)
  <2> HIDE DEF s, Q
  <2>1. CASE Q = R
    BY <1>2, <2>1, FlowNotSent
  <2>2. CASE Q = T
    <3>1. Q = Flowed(P, s, FC_STOP, "int", TRUE)
      BY <2>2 DEF Flowed
    <3> DEFINE b == TRUE
    <3>2. s \in Seq(Char) /\ FC_STOP \in {FC_STOP, FC_START} /\ b \in BOOLEAN
      BY <1>2
    <3> HIDE DEF R, T, b
    <3>3. Q = Flowed(P, s, FC_STOP, "int", b)
      BY <3>1 DEF b
    <3> QED BY <3>2, <3>3, FlowSent
  <2> QED BY <1>4, <2>1, <2>2
<1> QED BY <1>2, <1>4, <1>5 DEF Stored

LEMMA IrdyRcvEffect ==
  ASSUME NEW P \in Port, NEW c \in Char, P.openflag, P.txena, Going(P)
  PROVE  /\ \/ Taken(P, sio_irdy_rcv([P EXCEPT !.uarx = NULL], c))
            \/ Stored(P, sio_irdy_rcv([P EXCEPT !.uarx = NULL], c))
         /\ Going(sio_irdy_rcv([P EXCEPT !.uarx = NULL], c).st)
         /\ Ordered(P, sio_irdy_rcv([P EXCEPT !.uarx = NULL], c).st)
<1> DEFINE R == [P EXCEPT !.uarx = NULL]
           S == [R EXCEPT !.snd_stopped = TRUE]
           r == sio_irdy_rcv(R, c)
<1>1. /\ Kept(P, R) /\ R.snd = P.snd /\ R.uatx = P.uatx /\ R.rcv = P.rcv
      /\ R.rcv_fc_chr = P.rcv_fc_chr /\ R.snd_stopped = P.snd_stopped
      /\ R.txreq = P.txreq
  <2>1. R \in Port
    BY DEF Port
  <2> QED BY <2>1 DEF Kept, Port
<1>2. R \in Port /\ R.openflag /\ R.txena /\ Going(R)
  BY <1>1 DEF Kept, Going
<1>3. ASSUME NEW Q, Ordered(R, Q) PROVE Ordered(P, Q)
  <2> HIDE DEF R
  <2> QED BY <1>1, <1>3 DEF Ordered, Kept
<1>4. ASSUME NEW x, Taken(R, x) PROVE Taken(P, x)
  <2> HIDE DEF R
  <2> QED BY <1>1, <1>4 DEF Taken, Kept
<1>5. ASSUME NEW x, Stored(R, x) PROVE Stored(P, x)
  <2> HIDE DEF R
  <2> QED BY <1>1, <1>5 DEF Stored, Kept
<1>6. \/ r = [st |-> S, sig |-> "none"]
      \/ r = Resume(R)
      \/ r = [st |-> R, sig |-> "none"]
      \/ Len(R.rcv) # rcv_bufsz /\ r = Receive(R, c)
  <2> HIDE DEF R
  <2>1. CASE "FCSND" \in R.ioctl /\ c = FC_STOP
    BY <2>1 DEF sio_irdy_rcv
  <2>2. CASE /\ ~("FCSND" \in R.ioctl /\ c = FC_STOP)
             /\ R.snd_stopped /\ (c = FC_START \/ "FCANY" \in R.ioctl)
    BY <2>2 DEF sio_irdy_rcv
  <2>3. CASE /\ ~("FCSND" \in R.ioctl /\ c = FC_STOP)
             /\ ~(R.snd_stopped /\ (c = FC_START \/ "FCANY" \in R.ioctl))
    BY <2>3 DEF sio_irdy_rcv
  <2> QED BY <2>1, <2>2, <2>3
<1>7. CASE r = [st |-> S, sig |-> "none"]
  <2>1. /\ Kept(R, S) /\ S.snd_stopped /\ S.snd = R.snd /\ S.uatx = R.uatx
        /\ S.rcv = R.rcv /\ S.rcv_fc_chr = R.rcv_fc_chr /\ S.txreq = R.txreq
    <3> HIDE DEF R
    <3> QED BY <1>2, StopSet
  <2> HIDE DEF S, r
  <2>2. r.st = S /\ r.sig = "none"
    BY ONLY <1>7
  <2> HIDE DEF R
  <2>3. Taken(R, r)
    BY <2>1, <2>2 DEF Taken
  <2>4. Going(S)
    BY <1>2, <2>1 DEF Going, Kept
  <2>5. Ordered(R, S)
    BY <2>1, OrderedSame
  <2> QED BY <1>3, <1>4, <2>2, <2>3, <2>4, <2>5 DEF r, R
<1>8. CASE r = Resume(R)
  <2> HIDE DEF R
  <2>1. Taken(R, r) /\ Going(r.st) /\ Ordered(R, r.st)
    BY <1>2, <1>8, ResumeTakes
  <2> QED BY <1>3, <1>4, <2>1 DEF R
<1>9. CASE r = [st |-> R, sig |-> "none"]
  <2> HIDE DEF R, r
  <2>1. r.st = R /\ r.sig = "none"
    BY ONLY <1>9
  <2>2. Taken(R, r)
    BY <1>2, <2>1 DEF Taken, Kept
  <2>3. Ordered(R, R)
    BY OrderedSame
  <2> QED BY <1>2, <1>3, <1>4, <2>1, <2>2, <2>3 DEF r, R
<1>10. CASE Len(R.rcv) # rcv_bufsz /\ r = Receive(R, c)
  <2> HIDE DEF R
  <2>1. Stored(R, r) /\ Going(r.st) /\ Ordered(R, r.st)
    BY <1>2, <1>10, ReceiveStores
  <2> QED BY <1>3, <1>5, <2>1 DEF R
<1> QED BY <1>6, <1>7, <1>8, <1>9, <1>10

LEMMA OrderedPut ==
  ASSUME NEW P, NEW Q, NEW c \in Char, P.snd \in Seq(Char),
         Q.snd = Append(P.snd, c), Q.uatx = P.uatx
  PROVE  Ordered(P, Q)
<1>1. Append(P.snd, c) # <<>>
      /\ Append(P.snd, c)[Len(Append(P.snd, c))] = c
  OBVIOUS
<1>2. Q.snd # <<>> /\ Q.snd = Append(P.snd, Q.snd[Len(Q.snd)])
  BY <1>1
<1> QED BY <1>2 DEF Ordered

LEMMA WriChr ==
  ASSUME NEW P \in Port, NEW c \in Char, P.openflag, P.txena, Going(P)
  PROVE  /\ Kept(P, serial_wri_chr(P, c))
         /\ serial_wri_chr(P, c).rcv = P.rcv
         /\ \/ Len(serial_wri_chr(P, c).snd) = Len(P.snd)
            \/ Len(serial_wri_chr(P, c).snd) = Len(P.snd) + 1
         /\ Going(serial_wri_chr(P, c))
         /\ Ordered(P, serial_wri_chr(P, c))
<1> DEFINE r == serial_snd_chr(P, c, "task")
           Q == serial_wri_chr(P, c)
<1>1. c # NULL /\ P.snd \in Seq(Char)
  BY NullNotChar DEF Port
<1>2. /\ Kept(P, r.st) /\ r.st \in Port
      /\ r.ok <=> P.uatx = NULL
      /\ r.st.uatx = IF P.uatx = NULL THEN c ELSE P.uatx
      /\ r.st.snd = P.snd /\ r.st.snd_stopped = P.snd_stopped
      /\ r.st.rcv = P.rcv /\ r.st.rcv_fc_chr = P.rcv_fc_chr
      /\ r.st.txreq = P.txreq
  <2>1. Kept(P, r.st)
    BY SndChr
  <2>2. r.st \in Port
    BY <2>1 DEF Kept
  <2> HIDE DEF Q
  <2> QED BY <2>1, <2>2, SndChr
<1>3. ASSUME NEW T \in Port, Q = [T EXCEPT !.snd = Put(@, c)],
             Kept(P, T), T.snd = P.snd, T.rcv = P.rcv
      PROVE  /\ Kept(P, Q) /\ Q.rcv = P.rcv /\ Q.snd = Append(P.snd, c)
             /\ Len(Q.snd) = Len(P.snd) + 1
             /\ Q.snd_stopped = T.snd_stopped /\ Q.uatx = T.uatx
             /\ Q.rcv_fc_chr = T.rcv_fc_chr /\ Q.txreq = T.txreq
  <2> HIDE DEF Q
  <2>1. /\ Kept(T, Q) /\ Q.rcv = T.rcv /\ Q.snd = Append(T.snd, c)
        /\ Len(Q.snd) = Len(T.snd) + 1
        /\ Q.snd_stopped = T.snd_stopped /\ Q.uatx = T.uatx
        /\ Q.rcv_fc_chr = T.rcv_fc_chr /\ Q.txreq = T.txreq
    BY <1>3, PutTail
  <2> QED BY <1>3, <2>1, KeptTrans
<1>4. CASE Len(P.snd) = 0 /\ ~P.snd_stopped /\ P.uatx = NULL
  <2>1. Q = r.st
    BY <1>2, <1>4 DEF serial_wri_chr
  <2> HIDE DEF Q, r
  <2>2. Going(Q)
    BY <1>1, <1>2, <1>4, <2>1 DEF Going
  <2>3. Ordered(P, Q)
    <3>1. P.snd = <<>>
      BY <1>1, <1>4
    <3>2. Q.snd = <<>> /\ ~Q.snd_stopped /\ Q.uatx # NULL
      BY <1>1, <1>2, <1>4, <2>1, <3>1
    <3> QED BY <1>4, <3>1, <3>2 DEF Ordered
  <2> QED BY <1>2, <2>1, <2>2, <2>3 DEF Q
<1>5. CASE Len(P.snd) = 0 /\ ~P.snd_stopped /\ P.uatx # NULL
  <2>1. Q = [r.st EXCEPT !.snd = Put(@, c)]
    BY <1>2, <1>5 DEF serial_wri_chr
  <2>2. PICK T \in Port : T = r.st
    BY <1>2
  <2> HIDE DEF Q, r
  <2>3. Q = [T EXCEPT !.snd = Put(@, c)]
    BY <2>1, <2>2
  <2>4. /\ Kept(P, Q) /\ Q.rcv = P.rcv /\ Q.snd = Append(P.snd, c)
        /\ Len(Q.snd) = Len(P.snd) + 1 /\ Q.uatx = T.uatx
    BY <1>2, <1>3, <2>2, <2>3
  <2>5. Q.uatx = P.uatx
    BY <1>2, <1>5, <2>2, <2>4
  <2>6. Going(Q)
    BY <1>5, <2>5 DEF Going
  <2>7. Ordered(P, Q)
    BY <1>1, <2>4, <2>5, OrderedPut
  <2> QED BY <2>4, <2>6, <2>7 DEF Q
<1>6. CASE ~(Len(P.snd) = 0 /\ ~P.snd_stopped)
  <2>1. Q = [P EXCEPT !.snd = Put(@, c)]
    <3> DEFINE x == IF Len(P.snd) = 0 /\ ~P.snd_stopped
                    THEN serial_snd_chr(P, c, "task")
                    ELSE [ok |-> FALSE, st |-> P]
    <3>1. Q = IF x.ok THEN x.st ELSE [x.st EXCEPT !.snd = Put(@, c)]
      BY DEF serial_wri_chr
    <3>2. x = [ok |-> FALSE, st |-> P]
      BY <1>6
    <3> HIDE DEF x
    <3>3. ~x.ok /\ x.st = P
      BY ONLY <3>2
    <3> QED BY <3>1, <3>3
  <2> HIDE DEF Q
  <2>2. /\ Kept(P, Q) /\ Q.rcv = P.rcv /\ Q.snd = Append(P.snd, c)
        /\ Len(Q.snd) = Len(P.snd) + 1 /\ Q.uatx = P.uatx
        /\ Q.snd_stopped = P.snd_stopped /\ Q.rcv_fc_chr = P.rcv_fc_chr
        /\ Q.txreq = P.txreq
    BY <1>3, <2>1 DEF Kept
  <2>3. Going(Q)
    BY <1>1, <1>6, <2>2 DEF Going, Kept
  <2>4. Ordered(P, Q)
    BY <1>1, <2>2, OrderedPut
  <2> QED BY <2>2, <2>3, <2>4 DEF Q
<1> QED BY <1>4, <1>5, <1>6

(* What serial_rea_chr does to the port.                                   *)
LEMMA ReaChr ==
  ASSUME NEW P \in Port, Going(P), Len(P.rcv) > 0,
         NEW Q, NEW n,
         Q = IF P.rcv_stopped /\ Len([P EXCEPT !.rcv = Get(@)].rcv) <= n
             THEN [Send_fc([P EXCEPT !.rcv = Get(@)], FC_START, "task")
                    EXCEPT !.rcv_stopped = FALSE]
             ELSE [P EXCEPT !.rcv = Get(@)]
  PROVE  /\ Kept(P, Q) /\ Q.snd = P.snd
         /\ Len(Q.rcv) = Len(P.rcv) - 1
         /\ Q.rcv = [P EXCEPT !.rcv = Get(@)].rcv
         /\ Head(P.rcv) \in Char
         /\ Going(Q) /\ Ordered(P, Q)
<1> DEFINE s == Tail(P.rcv)
           b == FALSE
<1>0. P \in Port /\ Going(P)
  OBVIOUS
<1>1. P.rcv \in Seq(Char)
  BY DEF Port
<1>2. s \in Seq(Char) /\ Len(s) = Len(P.rcv) - 1 /\ Head(P.rcv) \in Char
  BY <1>1
<1>3. [P EXCEPT !.rcv = Get(@)] = [P EXCEPT !.rcv = s]
  BY DEF Get
<1>4. b \in BOOLEAN /\ FC_START \in {FC_STOP, FC_START}
  OBVIOUS
<1>5. \/ Q = [P EXCEPT !.rcv = s]
      \/ Q = Flowed(P, s, FC_START, "task", b)
  <2>1. CASE P.rcv_stopped /\ Len([P EXCEPT !.rcv = Get(@)].rcv) <= n
    <3>1. Q = [Send_fc([P EXCEPT !.rcv = s], FC_START, "task")
                EXCEPT !.rcv_stopped = b]
      BY <1>3, <2>1
    <3> QED BY <3>1 DEF Flowed
  <2>2. CASE ~(P.rcv_stopped /\ Len([P EXCEPT !.rcv = Get(@)].rcv) <= n)
    BY <1>3, <2>2
  <2> QED BY <2>1, <2>2
<1> HIDE DEF s, b
<1>6. CASE Q = [P EXCEPT !.rcv = s]
  <2>1. /\ Kept(P, Q) /\ Q.snd = P.snd /\ Q.rcv = s
        /\ Going(Q) /\ Ordered(P, Q)
    BY ONLY <1>0, <1>2, <1>6, FlowNotSent
  <2> QED BY <1>2, <1>3, <1>6, <2>1
<1>7. CASE Q = Flowed(P, s, FC_START, "task", b)
  <2>1. /\ Kept(P, Q) /\ Q.snd = P.snd /\ Q.rcv = s
        /\ Going(Q) /\ Ordered(P, Q)
    BY ONLY <1>0, <1>2, <1>4, <1>7, FlowSent
  <2>2. [P EXCEPT !.rcv = s].rcv = s
    BY DEF Port
  <2> QED BY <1>2, <1>3, <2>1, <2>2
<1> QED BY <1>5, <1>6, <1>7

-----------------------------------------------------------------------------
(* What a task does next.                                                  *)

LEMMA IdlePlaced ==
  /\ Idle \in Task /\ Placed(Idle) /\ ~Sends(Idle) /\ ~Reads(Idle)
  /\ Idle.waits = "none" /\ Idle.at = "idle" /\ ~Idle.reading /\ Idle.empty
<1>1. /\ Idle \in Task /\ Idle.at = "idle" /\ Idle.waits = "none"
      /\ ~Idle.reading /\ Idle.empty
  BY DEF Idle, Task
<1> QED BY <1>1 DEF Placed, Sends, Reads

(* x is a task that has just finished a character.                         *)
LEMMA ReadingPlaced ==
  ASSUME NEW x \in Task, x.reading, x.waits = "none"
  PROVE  /\ Reading(x) \in Task /\ Placed(Reading(x))
         /\ Reading(x).waits = "none" /\ ~Sends(Reading(x))
         /\ Reads(Reading(x)) <=> ~x.empty
<1> DEFINE e == <<>>
           y == Reading(x)
<1>1. e \in Seq(Char) /\ x.empty \in BOOLEAN /\ x.reading \in BOOLEAN
  BY DEF Task
<1> HIDE DEF e
<1>2. ASSUME NEW l \in {"r_wai", "r_chr", "r_sig"},
             y = [x EXCEPT !.at = l, !.rest = e]
      PROVE  /\ y \in Task /\ y.at = l /\ y.waits = "none"
             /\ y.reading /\ y.empty = x.empty
  <2>1. PICK z : z = [x EXCEPT !.at = l, !.rest = e]
    OBVIOUS
  <2>2. /\ z \in Task /\ z.at = l /\ z.waits = x.waits
        /\ z.reading = x.reading /\ z.empty = x.empty
    BY <1>1, <2>1 DEF Task
  <2> HIDE DEF y
  <2> QED BY <1>2, <2>1, <2>2
<1>3. CASE x.len > 0 /\ x.empty
  <2>1. y = [x EXCEPT !.at = "r_wai", !.rest = e]
    BY <1>3 DEF Reading, e
  <2> HIDE DEF y
  <2>2. /\ y \in Task /\ y.at = "r_wai" /\ y.waits = "none"
        /\ y.reading /\ y.empty
    BY <1>2, <1>3, <2>1
  <2>3. Placed(y) /\ ~Sends(y) /\ ~Reads(y)
    BY <2>2 DEF Placed, Sends, Reads
  <2> QED BY <1>3, <2>2, <2>3 DEF y
<1>4. CASE x.len > 0 /\ ~x.empty
  <2>1. y = [x EXCEPT !.at = "r_chr", !.rest = e]
    BY <1>4 DEF Reading, e
  <2> HIDE DEF y
  <2>2. /\ y \in Task /\ y.at = "r_chr" /\ y.waits = "none"
        /\ y.reading /\ ~y.empty
    BY <1>2, <1>4, <2>1
  <2>3. Placed(y) /\ ~Sends(y) /\ Reads(y)
    BY <2>2 DEF Placed, Sends, Reads
  <2> QED BY <1>4, <2>2, <2>3 DEF y
<1>5. CASE ~(x.len > 0) /\ x.empty
  <2>1. Reading(x) = Idle
    BY <1>5 DEF Reading
  <2> QED BY <1>5, <2>1, IdlePlaced
<1>6. CASE ~(x.len > 0) /\ ~x.empty
  <2>1. y = [x EXCEPT !.at = "r_sig", !.rest = e]
    BY <1>6 DEF Reading, e
  <2> HIDE DEF y
  <2>2. /\ y \in Task /\ y.at = "r_sig" /\ y.waits = "none"
        /\ y.reading /\ ~y.empty
    BY <1>2, <1>6, <2>1
  <2>3. Placed(y) /\ ~Sends(y) /\ Reads(y)
    BY <2>2 DEF Placed, Sends, Reads
  <2> QED BY <1>6, <2>2, <2>3 DEF y
<1> QED BY <1>3, <1>4, <1>5, <1>6

(* x is a task that has just written its last character.                   *)
LEMMA WrittenPlaced ==
  ASSUME NEW x \in Task, x.waits = "none",
         x.at \in {"w_wai", "w_chr", "w_cr", "w_put", "w_sig"}
  PROVE  /\ Written(x) \in Task /\ Placed(Written(x))
         /\ Written(x).waits = "none" /\ ~Sends(Written(x))
         /\ Reads(Written(x)) <=> Reads(x)
<1>1. CASE x.reading
  <2>1. Written(x) = Reading(x)
    BY <1>1 DEF Written
  <2>2. Reads(x) <=> ~x.empty
    BY <1>1 DEF Reads
  <2> QED BY <1>1, <2>1, <2>2, ReadingPlaced
<1>2. CASE ~x.reading
  <2>1. Written(x) = Idle /\ ~Reads(x)
    BY <1>2 DEF Written, Reads
  <2> QED BY <2>1, IdlePlaced
<1> QED BY <1>1, <1>2

-----------------------------------------------------------------------------
(* The tokens: what keeps them, and who can have them.                     *)

LEMMA SndSame ==
  ASSUME NEW P, NEW S, NEW U, NEW Q, NEW T, NEW V, SndToken(P, S, U),
         Q.openflag => P.openflag, Len(Q.snd) = Len(P.snd), T.snd = S.snd,
         \A u \in Users : Sends(V[u]) <=> Sends(U[u])
  PROVE  SndToken(Q, T, V)
BY DEF SndToken

LEMMA RcvSame ==
  ASSUME NEW P, NEW S, NEW U, NEW Q, NEW T, NEW V, RcvToken(P, S, U),
         Q.openflag => P.openflag, Len(Q.rcv) = Len(P.rcv), T.rcv = S.rcv,
         \A u \in Users : Reads(V[u]) <=> Reads(U[u])
  PROVE  RcvToken(Q, T, V)
BY DEF RcvToken

(* w has it.                                                               *)
LEMMA SndHeld ==
  ASSUME NEW Q, NEW T, NEW V, NEW w \in Users, Len(Q.snd) \in Nat,
         T.snd = 0, Len(Q.snd) < snd_bufsz,
         \A u \in Users : Sends(V[u]) <=> u = w
  PROVE  SndToken(Q, T, V)
BY SerialAssumption DEF SndToken, SerialAssumption

LEMMA RcvHeld ==
  ASSUME NEW Q, NEW T, NEW V, NEW w \in Users, Len(Q.rcv) \in Nat,
         T.rcv = 0, Len(Q.rcv) > 0, Len(Q.rcv) <= rcv_bufsz,
         \A u \in Users : Reads(V[u]) <=> u = w
  PROVE  RcvToken(Q, T, V)
BY DEF RcvToken

(* It is counted, or with the handler.                                     *)
LEMMA SndFree ==
  ASSUME NEW Q, NEW T, NEW V, Len(Q.snd) \in Nat,
         \/ T.snd = 1 /\ Len(Q.snd) < snd_bufsz
         \/ T.snd = 0 /\ Len(Q.snd) = snd_bufsz,
         \A u \in Users : ~Sends(V[u])
  PROVE  SndToken(Q, T, V)
BY SerialAssumption DEF SndToken, SerialAssumption

LEMMA RcvFree ==
  ASSUME NEW Q, NEW T, NEW V, Len(Q.rcv) \in Nat,
         \/ T.rcv = 1 /\ Len(Q.rcv) > 0
         \/ T.rcv = 0 /\ Len(Q.rcv) = 0,
         Len(Q.rcv) <= rcv_bufsz,
         \A u \in Users : ~Reads(V[u])
  PROVE  RcvToken(Q, T, V)
BY DEF RcvToken

(* The wait of a task that waits is over.                                  *)
LEMMA Woken ==
  ASSUME NEW x \in Task, Placed(x), x.waits # "none"
  PROVE  /\ [x EXCEPT !.waits = "none"] \in Task
         /\ Placed([x EXCEPT !.waits = "none"])
         /\ [x EXCEPT !.waits = "none"].waits = "none"
         /\ [x EXCEPT !.waits = "none"].at = x.at
         /\ x.waits = "snd" =>
              /\ Sends([x EXCEPT !.waits = "none"])
              /\ Reads([x EXCEPT !.waits = "none"]) <=> Reads(x)
         /\ x.waits = "rcv" =>
              /\ Reads([x EXCEPT !.waits = "none"])
              /\ ~Sends([x EXCEPT !.waits = "none"])
<1> DEFINE y == [x EXCEPT !.waits = "none"]
<1>1. /\ y \in Task /\ y.waits = "none" /\ y.at = x.at /\ y.rest = x.rest
      /\ y.reading = x.reading /\ y.empty = x.empty
  BY DEF Task
<1>2. x.at # "idle" /\ x.waits \in {"snd", "rcv"}
  BY DEF Placed, Task
<1> HIDE DEF y
<1>3. Placed(y)
  BY <1>1, <1>2 DEF Placed
<1>4. x.waits = "snd" => Sends(y) /\ (Reads(y) <=> Reads(x))
  BY <1>1 DEF Placed, Sends, Reads
<1>5. x.waits = "rcv" => Reads(y) /\ ~Sends(y)
  BY <1>1 DEF Placed, Sends, Reads
<1> QED BY <1>1, <1>3, <1>4, <1>5 DEF y

(* The tasks after the state of one of them has changed.                   *)
LEMMA OneTask ==
  ASSUME NEW U \in [Users -> Task], \A v \in Users : Placed(U[v]),
         NEW u \in Users, NEW x \in Task, Placed(x)
  PROVE  /\ [U EXCEPT ![u] = x] \in [Users -> Task]
         /\ \A v \in Users : Placed([U EXCEPT ![u] = x][v])
         /\ [U EXCEPT ![u] = x][u] = x
         /\ \A v \in Users : v # u => [U EXCEPT ![u] = x][v] = U[v]
OBVIOUS

-----------------------------------------------------------------------------
(* A signal from a port P and tasks U on, with what it needs of them.      *)

Between(P, U) ==
  /\ P \in Port /\ P.openflag /\ P.txena /\ ~P.errorflag /\ Going(P)
  /\ U \in [Users -> Task]
  /\ \A u \in Users : Placed(U[u]) /\ U[u].waits = us[u].waits

LEMMA SignalNone ==
  ASSUME NEW P, NEW U, sem \in Sems, Between(P, U), Signal("none", P, U),
         SndToken(P, sem, U), RcvToken(P, sem, U)
  PROVE  IInv' /\ p' = P
<1>1. p' = P /\ us' = U /\ sem' = sem
  BY DEF Signal
<1> QED BY <1>1 DEF IInv, Sound, Between, Closed

LEMMA SignalSnd ==
  ASSUME NEW P, NEW U, sem \in Sems, Between(P, U), Signal("snd", P, U),
         sem.snd = 0, Len(P.snd) < snd_bufsz, \A u \in Users : ~Sends(U[u]),
         RcvToken(P, sem, U)
  PROVE  IInv' /\ p' = P
<1>1. /\ P \in Port /\ U \in [Users -> Task] /\ Len(P.snd) \in Nat
      /\ \A u \in Users : Placed(U[u]) /\ U[u].waits = us[u].waits
  BY DEF Between, Port
<1>2. CASE Waiting("snd") # {}
  <2>1. PICK w \in Waiting("snd") : us' = [U EXCEPT ![w].waits = "none"]
    BY <1>2 DEF Signal
  <2>2. p' = P /\ sem' = sem
    BY <1>2 DEF Signal
  <2>3. w \in Users /\ U[w].waits = "snd"
    BY <1>1 DEF Waiting
  <2> DEFINE y == [U[w] EXCEPT !.waits = "none"]
  <2>4. /\ y \in Task /\ Placed(y) /\ Sends(y) /\ (Reads(y) <=> Reads(U[w]))
    BY <1>1, <2>3, Woken
  <2>5. us' = [U EXCEPT ![w] = y]
    BY <2>1
  <2> HIDE DEF y
  <2>6. /\ us' \in [Users -> Task] /\ \A v \in Users : Placed(us'[v])
        /\ us'[w] = y /\ \A v \in Users : v # w => us'[v] = U[v]
    BY <1>1, <2>3, <2>4, <2>5, OneTask
  <2>7. /\ \A v \in Users : Sends(us'[v]) <=> v = w
        /\ \A v \in Users : Reads(us'[v]) <=> Reads(U[v])
    BY <2>4, <2>6
  <2>8. SndToken(P, sem, us')
    BY <1>1, <2>3, <2>7, SndHeld
  <2>9. RcvToken(P, sem, us')
    BY <2>7, RcvSame
  <2> QED BY <2>2, <2>6, <2>8, <2>9 DEF IInv, Sound, Between, Closed
<1>3. CASE Waiting("snd") = {}
  <2>1. p' = P /\ us' = U /\ sem' = [sem EXCEPT !.snd = 1]
    BY <1>3 DEF Signal
  <2>2. sem' \in Sems /\ sem'.snd = 1 /\ sem'.rcv = sem.rcv
    BY <2>1 DEF Sems
  <2>3. SndToken(P, sem', U)
    BY <1>1, <2>2, SndFree
  <2>4. RcvToken(P, sem', U)
    BY <2>2, RcvSame
  <2> QED BY <2>1, <2>2, <2>3, <2>4 DEF IInv, Sound, Between, Closed
<1> QED BY <1>2, <1>3

LEMMA SignalRcv ==
  ASSUME NEW P, NEW U, sem \in Sems, Between(P, U), Signal("rcv", P, U),
         sem.rcv = 0, Len(P.rcv) > 0, Len(P.rcv) <= rcv_bufsz,
         \A u \in Users : ~Reads(U[u]),
         SndToken(P, sem, U)
  PROVE  IInv' /\ p' = P
<1>1. /\ P \in Port /\ U \in [Users -> Task] /\ Len(P.rcv) \in Nat
      /\ \A u \in Users : Placed(U[u]) /\ U[u].waits = us[u].waits
  BY DEF Between, Port
<1>2. CASE Waiting("rcv") # {}
  <2>1. PICK w \in Waiting("rcv") : us' = [U EXCEPT ![w].waits = "none"]
    BY <1>2 DEF Signal
  <2>2. p' = P /\ sem' = sem
    BY <1>2 DEF Signal
  <2>3. w \in Users /\ U[w].waits = "rcv"
    BY <1>1 DEF Waiting
  <2> DEFINE y == [U[w] EXCEPT !.waits = "none"]
  <2>4. /\ y \in Task /\ Placed(y) /\ Reads(y) /\ ~Sends(y)
    BY <1>1, <2>3, Woken
  <2>5. us' = [U EXCEPT ![w] = y]
    BY <2>1
  <2> HIDE DEF y
  <2>6. /\ us' \in [Users -> Task] /\ \A v \in Users : Placed(us'[v])
        /\ us'[w] = y /\ \A v \in Users : v # w => us'[v] = U[v]
    BY <1>1, <2>3, <2>4, <2>5, OneTask
  <2>7. ~Sends(U[w])
    BY <2>3 DEF Sends
  <2>8. /\ \A v \in Users : Reads(us'[v]) <=> v = w
        /\ \A v \in Users : Sends(us'[v]) <=> Sends(U[v])
    BY <2>4, <2>6, <2>7
  <2>9. RcvToken(P, sem, us')
    BY <1>1, <2>3, <2>8, RcvHeld
  <2>10. SndToken(P, sem, us')
    BY <2>8, SndSame
  <2> QED BY <2>2, <2>6, <2>9, <2>10 DEF IInv, Sound, Between, Closed
<1>3. CASE Waiting("rcv") = {}
  <2>1. p' = P /\ us' = U /\ sem' = [sem EXCEPT !.rcv = 1]
    BY <1>3 DEF Signal
  <2>2. sem' \in Sems /\ sem'.rcv = 1 /\ sem'.snd = sem.snd
    BY <2>1 DEF Sems
  <2>3. RcvToken(P, sem', U)
    BY <1>1, <2>2, RcvFree
  <2>4. SndToken(P, sem', U)
    BY <2>2, SndSame
  <2> QED BY <2>1, <2>2, <2>3, <2>4 DEF IInv, Sound, Between, Closed
<1> QED BY <1>2, <1>3

-----------------------------------------------------------------------------
(* The interrupts.                                                         *)

LEMMA TakenKeeps ==
  ASSUME NEW r, IInv, p.openflag, Taken(p, r), Going(r.st), Signal(r.sig, r.st, us)
  PROVE  IInv' /\ p' = r.st
<1> DEFINE P == r.st
<1>1. /\ p \in Port /\ sem \in Sems /\ us \in [Users -> Task]
      /\ \A u \in Users : Placed(us[u])
      /\ Closed(p, sem, us) /\ SndToken(p, sem, us) /\ RcvToken(p, sem, us)
      /\ ~p.errorflag
  BY DEF IInv, Sound
<1>2. Kept(p, P) /\ P.rcv = p.rcv /\ P \in Port
  BY DEF Taken, Kept
<1> HIDE DEF P
<1>3. /\ Between(P, us) /\ P.openflag /\ Len(P.snd) \in Nat
      /\ Len(p.snd) \in Nat
  BY <1>1, <1>2 DEF Between, Closed, Kept, Port, P
<1>4. RcvToken(P, sem, us)
  BY <1>1, <1>2, RcvSame, p.openflag
<1>5. CASE r.sig = "none"
  <2>1. SndToken(P, sem, us)
    <3>1. CASE Len(P.snd) = Len(p.snd)
      BY <1>1, <3>1, SndSame, p.openflag
    <3>2. CASE Len(P.snd) = Len(p.snd) - 1 /\ Len(p.snd) # snd_bufsz
      BY <1>1, <1>3, <3>2, SerialAssumption, p.openflag
         DEF SndToken, SerialAssumption
    <3> QED BY <1>5, <3>1, <3>2 DEF Taken, P
  <2>2. Signal("none", P, us)
    BY <1>5 DEF P
  <2> QED BY <1>1, <1>3, <1>4, <2>1, <2>2, SignalNone DEF P
<1>6. CASE r.sig = "snd"
  <2>1. Len(p.snd) = snd_bufsz /\ Len(P.snd) = Len(p.snd) - 1
    BY <1>6 DEF Taken, P
  <2>2. sem.snd = 0 /\ \A u \in Users : ~Sends(us[u])
    BY <1>1, <1>3, <2>1, p.openflag DEF SndToken, Sems
  <2>3. Len(P.snd) < snd_bufsz
    BY <1>3, <2>1
  <2>4. Signal("snd", P, us)
    BY <1>6 DEF P
  <2> QED BY <1>1, <1>3, <1>4, <2>2, <2>3, <2>4, SignalSnd DEF P
<1> QED BY <1>5, <1>6 DEF Taken

LEMMA StoredKeeps ==
  ASSUME NEW r, IInv, p.openflag, Stored(p, r), Going(r.st), Signal(r.sig, r.st, us)
  PROVE  IInv' /\ p' = r.st
<1> DEFINE P == r.st
<1>1. /\ p \in Port /\ sem \in Sems /\ us \in [Users -> Task]
      /\ \A u \in Users : Placed(us[u])
      /\ Closed(p, sem, us) /\ SndToken(p, sem, us) /\ RcvToken(p, sem, us)
      /\ ~p.errorflag
  BY DEF IInv, Sound
<1>2. /\ Kept(p, P) /\ P.snd = p.snd /\ P \in Port
      /\ Len(p.rcv) # rcv_bufsz /\ Len(P.rcv) = Len(p.rcv) + 1
  BY DEF Stored, Kept
<1> HIDE DEF P
<1>3. /\ Between(P, us) /\ P.openflag /\ Len(P.rcv) \in Nat
      /\ Len(p.rcv) \in Nat
  BY <1>1, <1>2 DEF Between, Closed, Kept, Port, P
<1>4. SndToken(P, sem, us)
  BY <1>1, <1>2, SndSame, p.openflag
<1>5. Len(P.rcv) <= rcv_bufsz
  BY <1>1, <1>2, <1>3, SerialAssumption, p.openflag DEF RcvToken, SerialAssumption
<1>6. CASE Len(p.rcv) # 0
  <2>1. RcvToken(P, sem, us)
    BY <1>1, <1>2, <1>3, <1>5, <1>6, p.openflag DEF RcvToken
  <2>2. Signal("none", P, us)
    BY <1>6 DEF P, Stored
  <2> QED BY <1>1, <1>3, <1>4, <2>1, <2>2, SignalNone DEF P
<1>7. CASE Len(p.rcv) = 0
  <2>1. sem.rcv = 0 /\ \A u \in Users : ~Reads(us[u])
    BY <1>1, <1>7, p.openflag DEF RcvToken, Sems
  <2>2. Len(P.rcv) > 0
    BY <1>2, <1>7
  <2>3. Signal("rcv", P, us)
    BY <1>7 DEF P, Stored
  <2> QED BY <1>1, <1>3, <1>4, <1>5, <2>1, <2>2, <2>3, SignalRcv DEF P
<1> QED BY <1>6, <1>7

LEMMA TxIsr ==
  ASSUME IInv, sio_tx_isr
  PROVE  IInv' /\ Ordered(p, p')
<1> DEFINE r == sio_irdy_snd([p EXCEPT !.txreq = FALSE])
<1>1. /\ p \in Port /\ p.txreq /\ p.txena /\ p.openflag /\ Going(p)
  BY DEF IInv, Sound, Closed, sio_tx_isr
<1>2. Taken(p, r) /\ Going(r.st) /\ Ordered(p, r.st)
  BY <1>1, IrdySndTakes
<1>3. Signal(r.sig, r.st, us)
  BY DEF sio_tx_isr
<1> HIDE DEF r
<1> QED BY <1>1, <1>2, <1>3, TakenKeeps

LEMMA RxIsr ==
  ASSUME IInv, sio_rx_isr
  PROVE  IInv' /\ Ordered(p, p')
<1> DEFINE r == sio_irdy_rcv([p EXCEPT !.uarx = NULL], p.uarx)
<1>1. /\ p \in Port /\ p.openflag /\ p.txena /\ Going(p) /\ p.uarx # NULL
  BY DEF IInv, Sound, Closed, sio_rx_isr
<1>2. p.uarx \in Char
  BY <1>1 DEF Port
<1>3. /\ Taken(p, r) \/ Stored(p, r)
      /\ Going(r.st) /\ Ordered(p, r.st)
  BY <1>1, <1>2, IrdyRcvEffect
<1>4. Signal(r.sig, r.st, us)
  BY DEF sio_rx_isr
<1> HIDE DEF r
<1> QED BY <1>1, <1>3, <1>4, TakenKeeps, StoredKeeps

-----------------------------------------------------------------------------
(* The tasks.                                                              *)

(* What the steps of the tasks start from.                                 *)
LEMMA Parts ==
  ASSUME IInv, NEW u \in Users
  PROVE  /\ p \in Port /\ sem \in Sems /\ us \in [Users -> Task]
         /\ us[u] \in Task
         /\ \A v \in Users : Placed(us[v])
         /\ Closed(p, sem, us) /\ SndToken(p, sem, us) /\ RcvToken(p, sem, us)
         /\ Going(p) /\ ~p.errorflag
         /\ us[u].at # "idle" => p.openflag /\ p.txena
         /\ us[u].at = "idle" => us[u] = Idle
         /\ Len(p.snd) \in Nat /\ Len(p.rcv) \in Nat
<1>1. us[u].at # "idle" => us[u] # Idle
  BY DEF Idle
<1>2. Placed(us[u])
  BY DEF IInv, Sound
<1> QED BY <1>1, <1>2 DEF IInv, Sound, Closed, Port, Placed

(* A step that changes only where one task is, and, of the rest, neither   *)
(* the tokens nor the port.                                                *)
LEMMA MoveKeeps ==
  ASSUME IInv, NEW u \in Users, NEW x \in Task, p.openflag,
         us' = [us EXCEPT ![u] = x], UNCHANGED <<p, sem>>,
         Placed(x), Sends(x) <=> Sends(us[u]), Reads(x) <=> Reads(us[u])
  PROVE  IInv' /\ Ordered(p, p')
<1>1. /\ p \in Port /\ sem \in Sems /\ us \in [Users -> Task]
      /\ \A v \in Users : Placed(us[v])
      /\ Closed(p, sem, us) /\ SndToken(p, sem, us) /\ RcvToken(p, sem, us)
      /\ Going(p) /\ ~p.errorflag
  BY Parts
<1>2. /\ us' \in [Users -> Task] /\ \A v \in Users : Placed(us'[v])
      /\ us'[u] = x /\ \A v \in Users : v # u => us'[v] = us[v]
  BY <1>1, OneTask
<1>3. \A v \in Users : /\ Sends(us'[v]) <=> Sends(us[v])
                       /\ Reads(us'[v]) <=> Reads(us[v])
  BY <1>2
<1>4. SndToken(p', sem', us') /\ RcvToken(p', sem', us')
  BY <1>1, <1>3, SndSame, RcvSame
<1>5. Ordered(p, p')
  BY DEF Ordered
<1> QED BY <1>1, <1>2, <1>4, <1>5 DEF IInv, Sound, Closed

LEMMA WriDat ==
  ASSUME IInv, NEW u \in Users, NEW buf \in Strings, serial_wri_dat(u, buf)
  PROVE  IInv' /\ Ordered(p, p')
<1>1. us[u] = Idle /\ us \in [Users -> Task] /\ p.openflag
  BY Parts DEF serial_wri_dat, At
<1>2. buf \in Seq(Char) /\ buf # <<>>
  <2>1. Seq(Chars \cup {LF, CR}) \subseteq Seq(Char)
    BY DEF Char
  <2> QED BY <2>1, SerialAssumption DEF SerialAssumption
<1>3. PICK x : x = [Idle EXCEPT !.at = "w_wai", !.rest = buf]
  OBVIOUS
<1>4. us' = [us EXCEPT ![u] = x]
  BY <1>1, <1>3 DEF serial_wri_dat
<1>5. /\ x \in Task /\ x.at = "w_wai" /\ x.waits = "none" /\ x.rest = buf
      /\ ~x.reading
  <2>1. x \in Task
    BY <1>2, <1>3, IdlePlaced DEF Task
  <2>2. x.reading = Idle.reading
    BY <1>3, IdlePlaced DEF Task
  <2> QED BY <1>3, <2>1, <2>2, IdlePlaced DEF Task
<1>6. Placed(x) /\ ~Sends(x) /\ ~Reads(x)
  BY <1>2, <1>5 DEF Placed, Sends, Reads
<1>7. UNCHANGED <<p, sem>>
  BY DEF serial_wri_dat
<1> QED BY <1>1, <1>4, <1>5, <1>6, <1>7, IdlePlaced, MoveKeeps

LEMMA ReaDat ==
  ASSUME IInv, NEW u \in Users, NEW len \in Int, serial_rea_dat(u, len)
  PROVE  IInv' /\ Ordered(p, p')
<1>1. us[u] = Idle /\ us \in [Users -> Task] /\ p.openflag
  BY Parts DEF serial_rea_dat, At
<1>2. PICK x : x = [Idle EXCEPT !.at = "r_wai", !.reading = TRUE, !.len = len]
  OBVIOUS
<1>3. us' = [us EXCEPT ![u] = x]
  BY <1>2 DEF serial_rea_dat
<1>4. /\ x \in Task /\ x.at = "r_wai" /\ x.waits = "none" /\ x.reading /\ x.empty
  <2>1. x \in Task
    BY <1>2, IdlePlaced DEF Task
  <2>2. x.empty = Idle.empty
    BY <1>2, IdlePlaced DEF Task
  <2>3. x.reading = TRUE
    BY <1>2, IdlePlaced DEF Task
  <2> QED BY <1>2, <2>1, <2>2, <2>3, IdlePlaced DEF Task
<1>5. Placed(x) /\ ~Sends(x) /\ ~Reads(x)
  BY <1>4 DEF Placed, Sends, Reads
<1>6. UNCHANGED <<p, sem>>
  BY DEF serial_rea_dat
<1> QED BY <1>1, <1>3, <1>4, <1>5, <1>6, IdlePlaced, MoveKeeps

(* A task waits for the send buffer, or gets it.                           *)
LEMMA WaitSnd ==
  ASSUME IInv, NEW u \in Users, us[u].waits = "none", us[u].at \in {"w_wai", "w_cr"},
         NEW label \in {"w_chr", "w_put"}, wai_sem(u, "snd", label)
  PROVE  IInv' /\ Ordered(p, p')
<1>1. /\ p \in Port /\ sem \in Sems /\ us \in [Users -> Task]
      /\ us[u] \in Task /\ p.openflag
      /\ \A v \in Users : Placed(us[v])
      /\ Closed(p, sem, us) /\ SndToken(p, sem, us) /\ RcvToken(p, sem, us)
      /\ Going(p) /\ ~p.errorflag /\ Len(p.snd) \in Nat
  BY Parts
<1>2. ~Sends(us[u]) /\ Placed(us[u])
  BY <1>1 DEF Sends
<1>3. p' = p
  BY DEF wai_sem
<1>4. CASE sem.snd = 1
  <2>1. PICK x : x = [us[u] EXCEPT !.at = label]
    OBVIOUS
  <2>2. us' = [us EXCEPT ![u] = x] /\ sem' = [sem EXCEPT !.snd = 0]
    BY <1>4, <2>1 DEF wai_sem
  <2>3. /\ x \in Task /\ x.at = label /\ x.waits = us[u].waits
        /\ x.rest = us[u].rest /\ x.reading = us[u].reading
        /\ x.empty = us[u].empty
    BY <1>1, <2>1 DEF Task
  <2>4. Placed(x) /\ Sends(x) /\ (Reads(x) <=> Reads(us[u]))
    BY <1>2, <2>3 DEF Placed, Sends, Reads
  <2>5. /\ us' \in [Users -> Task] /\ \A v \in Users : Placed(us'[v])
        /\ us'[u] = x /\ \A v \in Users : v # u => us'[v] = us[v]
    BY <1>1, <2>2, <2>3, <2>4, OneTask
  <2>6. sem' \in Sems /\ sem'.snd = 0 /\ sem'.rcv = sem.rcv
    BY <1>1, <2>2 DEF Sems
  <2>7. /\ Len(p.snd) < snd_bufsz
        /\ \A v \in Users : ~Sends(us[v])
    BY <1>1, <1>4 DEF SndToken
  <2>8. /\ \A v \in Users : Sends(us'[v]) <=> v = u
        /\ \A v \in Users : Reads(us'[v]) <=> Reads(us[v])
    BY <2>4, <2>5, <2>7
  <2>9. SndToken(p', sem', us')
    BY <1>1, <1>3, <2>6, <2>7, <2>8, SndHeld
  <2>10. RcvToken(p', sem', us')
    BY <1>1, <1>3, <2>6, <2>8, RcvSame
  <2>11. Ordered(p, p')
    BY <1>3 DEF Ordered
  <2> QED BY <1>1, <1>3, <2>5, <2>6, <2>9, <2>10, <2>11 DEF IInv, Sound, Closed
<1>5. CASE sem.snd # 1
  <2>1. PICK x : x = [us[u] EXCEPT !.at = label, !.waits = "snd"]
    OBVIOUS
  <2>2. us' = [us EXCEPT ![u] = x] /\ UNCHANGED <<p, sem>>
    <3>1. us' = [us EXCEPT ![u].at = label, ![u].waits = "snd"]
      BY <1>5 DEF wai_sem
    <3> QED BY <1>1, <1>3, <1>5, <2>1, <3>1 DEF wai_sem
  <2>3. /\ x \in Task /\ x.at = label /\ x.waits = "snd"
        /\ x.rest = us[u].rest /\ x.reading = us[u].reading
        /\ x.empty = us[u].empty
    BY <1>1, <2>1 DEF Task
  <2>4. Placed(x) /\ ~Sends(x) /\ (Reads(x) <=> Reads(us[u]))
    BY <1>2, <2>3 DEF Placed, Sends, Reads
  <2> QED BY <1>1, <1>2, <2>2, <2>3, <2>4, MoveKeeps
<1> QED BY <1>4, <1>5

LEMMA ReadWait ==
  ASSUME IInv, NEW u \in Users, Read_wait(u)
  PROVE  IInv' /\ Ordered(p, p')
<1>0. us[u].waits = "none" /\ us[u].at = "r_wai" /\ wai_sem(u, "rcv", "r_chr")
  BY DEF Read_wait, At
<1>1. /\ p \in Port /\ sem \in Sems /\ us \in [Users -> Task]
      /\ us[u] \in Task /\ p.openflag
      /\ \A v \in Users : Placed(us[v])
      /\ Closed(p, sem, us) /\ SndToken(p, sem, us) /\ RcvToken(p, sem, us)
      /\ Going(p) /\ ~p.errorflag /\ Len(p.rcv) \in Nat
  BY <1>0, Parts
<1>2. us[u].reading /\ us[u].empty /\ ~Reads(us[u]) /\ ~Sends(us[u])
  BY <1>0, <1>1 DEF Placed, Reads, Sends
<1>3. p' = p
  BY <1>0 DEF wai_sem
<1>4. CASE sem.rcv = 1
  <2>1. PICK x : x = [us[u] EXCEPT !.at = "r_chr"]
    OBVIOUS
  <2>2. us' = [us EXCEPT ![u] = x] /\ sem' = [sem EXCEPT !.rcv = 0]
    BY <1>0, <1>4, <2>1 DEF wai_sem
  <2>3. /\ x \in Task /\ x.at = "r_chr" /\ x.waits = us[u].waits
        /\ x.reading = us[u].reading
    BY <1>1, <2>1 DEF Task
  <2>4. Placed(x) /\ Reads(x) /\ ~Sends(x)
    BY <1>0, <1>2, <2>3 DEF Placed, Sends, Reads
  <2>5. /\ us' \in [Users -> Task] /\ \A v \in Users : Placed(us'[v])
        /\ us'[u] = x /\ \A v \in Users : v # u => us'[v] = us[v]
    BY <1>1, <2>2, <2>3, <2>4, OneTask
  <2>6. sem' \in Sems /\ sem'.rcv = 0 /\ sem'.snd = sem.snd
    BY <1>1, <2>2 DEF Sems
  <2>7. /\ Len(p.rcv) > 0 /\ Len(p.rcv) <= rcv_bufsz
        /\ \A v \in Users : ~Reads(us[v])
    BY <1>1, <1>4 DEF RcvToken
  <2>8. /\ \A v \in Users : Reads(us'[v]) <=> v = u
        /\ \A v \in Users : Sends(us'[v]) <=> Sends(us[v])
    BY <1>2, <2>4, <2>5, <2>7
  <2>9. RcvToken(p', sem', us')
    BY <1>1, <1>3, <2>6, <2>7, <2>8, RcvHeld
  <2>10. SndToken(p', sem', us')
    BY <1>1, <1>3, <2>6, <2>8, SndSame
  <2>11. Ordered(p, p')
    BY <1>3 DEF Ordered
  <2> QED BY <1>1, <1>3, <2>5, <2>6, <2>9, <2>10, <2>11 DEF IInv, Sound, Closed
<1>5. CASE sem.rcv # 1
  <2>1. PICK x : x = [us[u] EXCEPT !.at = "r_chr", !.waits = "rcv"]
    OBVIOUS
  <2>2. us' = [us EXCEPT ![u] = x] /\ UNCHANGED <<p, sem>>
    <3>1. us' = [us EXCEPT ![u].at = "r_chr", ![u].waits = "rcv"]
      BY <1>0, <1>5 DEF wai_sem
    <3> QED BY <1>0, <1>1, <1>3, <1>5, <2>1, <3>1 DEF wai_sem
  <2>3. /\ x \in Task /\ x.at = "r_chr" /\ x.waits = "rcv"
        /\ x.reading = us[u].reading
    BY <1>1, <2>1 DEF Task
  <2>4. Placed(x) /\ ~Sends(x) /\ ~Reads(x)
    BY <1>2, <2>3 DEF Placed, Sends, Reads
  <2> QED BY <1>1, <1>2, <2>2, <2>3, <2>4, MoveKeeps
<1> QED BY <1>4, <1>5

(* A task puts a character into the buffer, and keeps the right to it if   *)
(* the buffer is not full then.                                            *)
LEMMA WriteKeeps ==
  ASSUME IInv, NEW u \in Users, Sends(us[u]), NEW c \in Char, NEW x \in Task,
         p' = serial_wri_chr(p, c), sem' = sem, us' = [us EXCEPT ![u] = x],
         Placed(x), Reads(x) <=> Reads(us[u]), Sends(x) <=> ~BufferFull(p')
  PROVE  IInv' /\ Ordered(p, p')
<1>1. us[u].at # "idle"
  BY DEF Sends
<1>2. /\ p \in Port /\ sem \in Sems /\ us \in [Users -> Task]
      /\ p.openflag /\ p.txena
      /\ \A v \in Users : Placed(us[v])
      /\ SndToken(p, sem, us) /\ RcvToken(p, sem, us)
      /\ Going(p) /\ ~p.errorflag /\ Len(p.snd) \in Nat
  BY <1>1, Parts
<1>3. /\ Kept(p, p') /\ p'.rcv = p.rcv
      /\ Len(p'.snd) = Len(p.snd) \/ Len(p'.snd) = Len(p.snd) + 1
      /\ Going(p') /\ Ordered(p, p')
  BY <1>2, WriChr
<1>4. /\ p' \in Port /\ p'.openflag /\ p'.txena /\ ~p'.errorflag
      /\ Len(p'.snd) \in Nat
  BY <1>2, <1>3 DEF Kept
<1>5. /\ us' \in [Users -> Task] /\ \A v \in Users : Placed(us'[v])
      /\ us'[u] = x /\ \A v \in Users : v # u => us'[v] = us[v]
  BY <1>2, OneTask
<1>6. /\ sem.snd = 0 /\ Len(p.snd) < snd_bufsz
      /\ \A v \in Users : Sends(us[v]) <=> v = u
  BY <1>2 DEF SndToken
<1>7. Len(p'.snd) <= snd_bufsz
  BY <1>2, <1>3, <1>6, SerialAssumption DEF SerialAssumption
<1>8. RcvToken(p', sem', us')
  <2>1. \A v \in Users : Reads(us'[v]) <=> Reads(us[v])
    BY <1>5
  <2> QED BY <1>2, <1>3, <2>1, RcvSame
<1>9. SndToken(p', sem', us')
  <2>1. CASE BufferFull(p')
    <3>1. \A v \in Users : ~Sends(us'[v])
      BY <1>5, <1>6, <2>1
    <3> QED BY <1>4, <1>6, <2>1, <3>1, SndFree DEF BufferFull
  <2>2. CASE ~BufferFull(p')
    <3>1. \A v \in Users : Sends(us'[v]) <=> v = u
      BY <1>5, <1>6, <2>2
    <3>2. Len(p'.snd) < snd_bufsz
      BY <1>4, <1>7, <2>2, SerialAssumption DEF BufferFull, SerialAssumption
    <3> QED BY <1>4, <1>6, <3>1, <3>2, SndHeld
  <2> QED BY <2>1, <2>2
<1> QED BY <1>2, <1>3, <1>4, <1>5, <1>8, <1>9 DEF IInv, Sound, Closed

LEMMA WriteCr ==
  ASSUME IInv, NEW u \in Users, Write_cr(u)
  PROVE  IInv' /\ Ordered(p, p')
<1>1. us[u].at = "w_chr" /\ us[u].waits = "none"
  BY DEF Write_cr, At
<1>2. us \in [Users -> Task] /\ us[u] \in Task /\ Placed(us[u])
  BY Parts
<1>3. PICK l \in {"w_cr", "w_put"} : l = IF BufferFull(p') THEN "w_cr" ELSE "w_put"
  OBVIOUS
<1>4. PICK x : x = [us[u] EXCEPT !.at = l]
  OBVIOUS
<1>5. us' = [us EXCEPT ![u] = x] /\ sem' = sem /\ p' = serial_wri_chr(p, CR)
  BY <1>3, <1>4 DEF Write_cr
<1>6. /\ x \in Task /\ x.at = l /\ x.waits = us[u].waits
      /\ x.rest = us[u].rest /\ x.reading = us[u].reading
      /\ x.empty = us[u].empty
  BY <1>2, <1>4 DEF Task
<1>7. Sends(us[u]) /\ Placed(x) /\ (Reads(x) <=> Reads(us[u]))
  BY <1>1, <1>2, <1>6 DEF Placed, Sends, Reads
<1>8. Sends(x) <=> ~BufferFull(p')
  BY <1>1, <1>3, <1>6 DEF Sends
<1> QED BY <1>5, <1>6, <1>7, <1>8, FlowChar, WriteKeeps

LEMMA WritePut ==
  ASSUME IInv, NEW u \in Users, Write_put(u)
  PROVE  IInv' /\ Ordered(p, p')
<1>1. us[u].at \in {"w_put", "w_chr"} /\ us[u].waits = "none"
  BY DEF Write_put, At
<1>2. us \in [Users -> Task] /\ us[u] \in Task /\ Placed(us[u])
  BY Parts
<1>3. us[u].rest \in Seq(Char) /\ us[u].rest # <<>>
  BY <1>1, <1>2 DEF Placed, Task
<1>4. Head(us[u].rest) \in Char /\ Tail(us[u].rest) \in Seq(Char)
  BY <1>3
<1>5. PICK s \in Seq(Char) : s = Tail(us[u].rest)
  BY <1>4
<1>6. PICK x : x = [us[u] EXCEPT !.rest = s]
  OBVIOUS
<1>7. /\ x \in Task /\ x.at = us[u].at /\ x.waits = "none" /\ x.rest = s
      /\ x.reading = us[u].reading /\ x.empty = us[u].empty
  BY <1>1, <1>2, <1>6 DEF Task
<1>8. Sends(us[u]) /\ (Reads(x) <=> Reads(us[u]))
  BY <1>1, <1>7 DEF Sends, Reads
<1> DEFINE y == IF BufferFull(p')
                THEN IF x.rest = <<>> THEN Written(x) ELSE [x EXCEPT !.at = "w_wai"]
                ELSE [x EXCEPT !.at = IF x.rest = <<>> THEN "w_sig" ELSE "w_chr"]
<1>9. /\ us' = [us EXCEPT ![u] = y] /\ sem' = sem
      /\ p' = serial_wri_chr(p, Head(us[u].rest))
  <2>1. x = [us[u] EXCEPT !.rest = Tail(@)]
    BY <1>5, <1>6
  <2> QED BY <2>1 DEF Write_put
<1>10. /\ y \in Task /\ Placed(y) /\ (Reads(y) <=> Reads(x))
       /\ Sends(y) <=> ~BufferFull(p')
  <2>1. ASSUME NEW l \in {"w_wai", "w_sig", "w_chr"}, y = [x EXCEPT !.at = l],
               x.rest = <<>> <=> l = "w_sig"
        PROVE  /\ y \in Task /\ Placed(y) /\ (Reads(y) <=> Reads(x))
               /\ Sends(y) <=> l # "w_wai"
    <3>1. PICK z : z = [x EXCEPT !.at = l]
      OBVIOUS
    <3>2. /\ z \in Task /\ z.at = l /\ z.waits = "none" /\ z.rest = x.rest
          /\ z.reading = x.reading /\ z.empty = x.empty
      BY <1>7, <3>1 DEF Task
    <3>3. y = z
      BY <2>1, <3>1
    <3>4. Placed(z) /\ (Reads(z) <=> Reads(x)) /\ (Sends(z) <=> l # "w_wai")
      BY <1>1, <1>7, <2>1, <3>2 DEF Placed, Reads, Sends
    <3> HIDE DEF y
    <3> QED BY <3>2, <3>3, <3>4
  <2>2. CASE BufferFull(p') /\ x.rest = <<>>
    <3>1. y = Written(x)
      BY <2>2
    <3>2. /\ Written(x) \in Task /\ Placed(Written(x)) /\ ~Sends(Written(x))
          /\ Reads(Written(x)) <=> Reads(x)
      BY <1>1, <1>7, WrittenPlaced
    <3> QED BY <2>2, <3>1, <3>2
  <2>3. CASE BufferFull(p') /\ x.rest # <<>>
    <3>1. y = [x EXCEPT !.at = "w_wai"]
      BY <2>3
    <3> HIDE DEF y
    <3> QED BY <2>1, <2>3, <3>1
  <2>4. CASE ~BufferFull(p') /\ x.rest = <<>>
    <3>1. y = [x EXCEPT !.at = "w_sig"]
      BY <2>4
    <3> HIDE DEF y
    <3> QED BY <2>1, <2>4, <3>1
  <2>5. CASE ~BufferFull(p') /\ x.rest # <<>>
    <3>1. y = [x EXCEPT !.at = "w_chr"]
      BY <2>5
    <3> HIDE DEF y
    <3> QED BY <2>1, <2>5, <3>1
  <2> QED BY <2>2, <2>3, <2>4, <2>5
<1> HIDE DEF y
<1> QED BY <1>4, <1>8, <1>9, <1>10, WriteKeeps

LEMMA WriteSig ==
  ASSUME IInv, NEW u \in Users, Write_sig(u)
  PROVE  IInv' /\ Ordered(p, p')
<1> DEFINE x == Written(us[u])
           U == [us EXCEPT ![u] = x]
<1>1. us[u].at = "w_sig" /\ us[u].waits = "none" /\ Signal("snd", p, U)
  BY DEF Write_sig, At
<1>2. /\ p \in Port /\ sem \in Sems /\ us \in [Users -> Task]
      /\ us[u] \in Task /\ p.openflag /\ p.txena
      /\ \A v \in Users : Placed(us[v])
      /\ SndToken(p, sem, us) /\ RcvToken(p, sem, us)
      /\ Going(p) /\ ~p.errorflag
  BY <1>1, Parts
<1>3. /\ x \in Task /\ Placed(x) /\ x.waits = "none" /\ ~Sends(x)
      /\ Reads(x) <=> Reads(us[u])
  BY <1>1, <1>2, WrittenPlaced
<1> HIDE DEF x
<1>4. /\ U \in [Users -> Task] /\ \A v \in Users : Placed(U[v])
      /\ U[u] = x /\ \A v \in Users : v # u => U[v] = us[v]
  BY <1>2, <1>3, OneTask
<1> HIDE DEF U
<1>5. Between(p, U)
  BY <1>1, <1>2, <1>3, <1>4 DEF Between
<1>6. /\ sem.snd = 0 /\ Len(p.snd) < snd_bufsz
      /\ \A v \in Users : Sends(us[v]) => v = u
  <2>1. Sends(us[u])
    BY <1>1 DEF Sends
  <2> QED BY <1>2, <2>1 DEF SndToken
<1>7. \A v \in Users : ~Sends(U[v]) /\ (Reads(U[v]) <=> Reads(us[v]))
  BY <1>3, <1>4, <1>6
<1>8. RcvToken(p, sem, U)
  BY <1>2, <1>7, RcvSame
<1>9. IInv' /\ p' = p
  BY <1>1, <1>2, <1>5, <1>6, <1>7, <1>8, SignalSnd
<1> QED BY <1>9 DEF Ordered

LEMMA ReaChrStep ==
  ASSUME IInv, NEW u \in Users, serial_rea_chr(u)
  PROVE  IInv' /\ Ordered(p, p')
<1> DEFINE R == [p EXCEPT !.rcv = Get(@)]
           c == Head(p.rcv)
           x == [us[u] EXCEPT !.len = @ - 1, !.empty = Len(R.rcv) = 0]
           e == <<c>>
           y == IF "ECHO" \in p.ioctl
                THEN [x EXCEPT !.at = "w_wai", !.rest = e]
                ELSE Reading(x)
<1>1. us[u].at = "r_chr" /\ us[u].waits = "none"
  BY DEF serial_rea_chr, At
<1>2. /\ p \in Port /\ sem \in Sems /\ us \in [Users -> Task]
      /\ us[u] \in Task /\ p.openflag /\ p.txena
      /\ \A v \in Users : Placed(us[v])
      /\ SndToken(p, sem, us) /\ RcvToken(p, sem, us)
      /\ Going(p) /\ ~p.errorflag /\ Len(p.rcv) \in Nat
  BY <1>1, Parts
<1>3. us[u].reading /\ Reads(us[u]) /\ ~Sends(us[u])
  BY <1>1, <1>2 DEF Placed, Reads, Sends
<1>4. /\ sem.rcv = 0 /\ Len(p.rcv) > 0 /\ Len(p.rcv) <= rcv_bufsz
      /\ \A v \in Users : Reads(us[v]) <=> v = u
  BY <1>2, <1>3 DEF RcvToken
<1>5. /\ us' = [us EXCEPT ![u] = y] /\ sem' = sem
      /\ p' = IF /\ p.rcv_stopped
                 /\ Len(R.rcv) <= BUFCNT_START(rcv_bufsz)
              THEN [Send_fc(R, FC_START, "task") EXCEPT !.rcv_stopped = FALSE]
              ELSE R
  BY DEF serial_rea_chr
<1>6. /\ Kept(p, p') /\ p'.snd = p.snd /\ Len(p'.rcv) = Len(p.rcv) - 1
      /\ p'.rcv = R.rcv /\ c \in Char /\ Going(p') /\ Ordered(p, p')
  BY <1>2, <1>4, <1>5, ReaChr
<1> HIDE DEF R, c
<1>7. /\ x \in Task /\ x.waits = "none" /\ x.reading
      /\ x.empty <=> Len(p'.rcv) = 0
  <2>1. PICK n \in Int : n = us[u].len - 1
    BY <1>2 DEF Task
  <2>2. PICK b \in BOOLEAN : b <=> Len(R.rcv) = 0
    OBVIOUS
  <2>3. x = [us[u] EXCEPT !.len = n, !.empty = b]
    BY <2>1, <2>2
  <2>4. PICK z : z = [us[u] EXCEPT !.len = n, !.empty = b]
    OBVIOUS
  <2>5. z \in Task /\ z.waits = "none"
    BY <1>1, <1>2, <2>4 DEF Task
  <2>6. z.reading = us[u].reading
    BY <1>2, <2>4 DEF Task
  <2>7. z.empty = b
    BY <1>2, <2>4 DEF Task
  <2>8. z = x
    BY <2>3, <2>4
  <2> HIDE DEF x
  <2> QED BY <1>3, <1>6, <2>2, <2>5, <2>6, <2>7, <2>8
<1> HIDE DEF x
<1>8. /\ y \in Task /\ Placed(y) /\ ~Sends(y)
      /\ Reads(y) <=> Len(p'.rcv) # 0
  <2>1. CASE "ECHO" \in p.ioctl
    <3>1. PICK z : z = [x EXCEPT !.at = "w_wai", !.rest = e]
      OBVIOUS
    <3>2. e \in Seq(Char) /\ e # <<>>
      BY <1>6
    <3> HIDE DEF e
    <3>3. /\ z \in Task /\ z.at = "w_wai" /\ z.waits = x.waits /\ z.rest = e
          /\ z.reading = x.reading /\ z.empty = x.empty
      BY <1>7, <3>1, <3>2 DEF Task
    <3>4. Placed(z) /\ ~Sends(z) /\ (Reads(z) <=> ~x.empty)
      BY <1>7, <3>2, <3>3 DEF Placed, Sends, Reads
    <3>5. y = z
      BY <2>1, <3>1
    <3> HIDE DEF y
    <3> QED BY <1>7, <3>3, <3>4, <3>5
  <2>2. CASE "ECHO" \notin p.ioctl
    <3>1. y = Reading(x)
      BY <2>2
    <3> HIDE DEF y
    <3> QED BY <1>7, <3>1, ReadingPlaced
  <2> QED BY <2>1, <2>2
<1> HIDE DEF y
<1>9. /\ us' \in [Users -> Task] /\ \A v \in Users : Placed(us'[v])
      /\ us'[u] = y /\ \A v \in Users : v # u => us'[v] = us[v]
  BY <1>2, <1>5, <1>8, OneTask
<1>10. /\ p' \in Port /\ p'.openflag /\ p'.txena /\ ~p'.errorflag
       /\ Len(p'.rcv) \in Nat
  BY <1>2, <1>4, <1>6 DEF Kept
<1>11. SndToken(p', sem', us')
  <2>1. \A v \in Users : Sends(us'[v]) <=> Sends(us[v])
    BY <1>3, <1>8, <1>9
  <2>2. sem'.snd = sem.snd /\ Len(p'.snd) = Len(p.snd)
    BY <1>5, <1>6
  <2> QED BY <1>2, <2>1, <2>2, SndSame
<1>12. RcvToken(p', sem', us')
  <2>1. Len(p'.rcv) <= rcv_bufsz
    BY <1>2, <1>4, <1>6, SerialAssumption DEF SerialAssumption
  <2>2. CASE Len(p'.rcv) = 0
    <3>1. \A v \in Users : ~Reads(us'[v])
      BY <1>4, <1>8, <1>9, <2>2
    <3> QED BY <1>4, <1>5, <1>10, <2>1, <2>2, <3>1, RcvFree
  <2>3. CASE Len(p'.rcv) # 0
    <3>1. \A v \in Users : Reads(us'[v]) <=> v = u
      BY <1>4, <1>8, <1>9, <2>3
    <3>2. Len(p'.rcv) > 0
      BY <1>10, <2>3
    <3> QED BY <1>4, <1>5, <1>10, <2>1, <3>1, <3>2, RcvHeld
  <2> QED BY <2>2, <2>3
<1> QED BY <1>2, <1>5, <1>6, <1>9, <1>10, <1>11, <1>12 DEF IInv, Sound, Closed

LEMMA ReadSig ==
  ASSUME IInv, NEW u \in Users, Read_sig(u)
  PROVE  IInv' /\ Ordered(p, p')
<1> DEFINE U == [us EXCEPT ![u] = Idle]
<1>1. us[u].at = "r_sig" /\ us[u].waits = "none" /\ Signal("rcv", p, U)
  BY DEF Read_sig, At
<1>2. /\ p \in Port /\ sem \in Sems /\ us \in [Users -> Task]
      /\ us[u] \in Task /\ p.openflag /\ p.txena
      /\ \A v \in Users : Placed(us[v])
      /\ SndToken(p, sem, us) /\ RcvToken(p, sem, us)
      /\ Going(p) /\ ~p.errorflag
  BY <1>1, Parts
<1>3. Reads(us[u]) /\ ~Sends(us[u])
  BY <1>1, <1>2 DEF Placed, Reads, Sends
<1>4. /\ U \in [Users -> Task] /\ \A v \in Users : Placed(U[v])
      /\ U[u] = Idle /\ \A v \in Users : v # u => U[v] = us[v]
  BY <1>2, OneTask, IdlePlaced
<1> HIDE DEF U
<1>5. Between(p, U)
  BY <1>1, <1>2, <1>4, IdlePlaced DEF Between
<1>6. /\ sem.rcv = 0 /\ Len(p.rcv) > 0 /\ Len(p.rcv) <= rcv_bufsz
      /\ \A v \in Users : Reads(us[v]) => v = u
  BY <1>2, <1>3 DEF RcvToken
<1>7. \A v \in Users : ~Reads(U[v]) /\ (Sends(U[v]) <=> Sends(us[v]))
  BY <1>3, <1>4, <1>6, IdlePlaced
<1>8. SndToken(p, sem, U)
  BY <1>2, <1>7, SndSame
<1>9. IInv' /\ p' = p
  BY <1>1, <1>2, <1>5, <1>6, <1>7, <1>8, SignalRcv
<1> QED BY <1>9 DEF Ordered

(* The only step that loses a token: the wait of a task that echoes ends.  *)
LEMMA RelWai ==
  ASSUME IInv, NEW u \in Users, rel_wai(u)
  PROVE  IInv' /\ Ordered(p, p')
<1>1. /\ p \in Port /\ sem \in Sems /\ us \in [Users -> Task]
      /\ us[u] \in Task
      /\ \A v \in Users : Placed(us[v])
      /\ Closed(p, sem, us) /\ SndToken(p, sem, us) /\ RcvToken(p, sem, us)
      /\ Going(p) /\ ~p.errorflag
  BY Parts
<1>2. us[u].waits # "none" /\ us' = [us EXCEPT ![u] = Idle] /\ p' = p /\ sem' = sem
  BY DEF rel_wai
<1>3. us[u] # Idle
  BY <1>2, IdlePlaced
<1>4. p.openflag /\ p.txena
  BY <1>1, <1>3 DEF Closed
<1>5. /\ us' \in [Users -> Task] /\ \A v \in Users : Placed(us'[v])
      /\ us'[u] = Idle /\ \A v \in Users : v # u => us'[v] = us[v]
  BY <1>1, <1>2, OneTask, IdlePlaced
<1>6. ~Sends(us[u])
  BY <1>2 DEF Sends
<1>7. SndToken(p', sem', us')
  <2>1. \A v \in Users : Sends(us'[v]) <=> Sends(us[v])
    BY <1>5, <1>6, IdlePlaced
  <2> QED BY <1>1, <1>2, <2>1, SndSame
<1>8. RcvToken(p', sem', us')
  <2>1. CASE "echo" \in Releases
    <3>1. \A v \in Users : Reads(us'[v]) => Reads(us[v])
      BY <1>5, IdlePlaced
    <3> QED BY <1>1, <1>2, <2>1, <3>1 DEF RcvToken
  <2>2. CASE "echo" \notin Releases
    <3>1. ~Reads(us[u])
      <4>1. us[u].waits \in {"snd", "rcv"}
        BY <1>1, <1>2 DEF Task
      <4>2. CASE us[u].waits = "rcv"
        BY <4>2 DEF Reads
      <4>3. CASE us[u].waits = "snd"
        <5>1. ~us[u].reading
          BY <2>2, <4>3 DEF rel_wai
        <5> QED BY <5>1 DEF Reads
      <4> QED BY <4>1, <4>2, <4>3
    <3>2. \A v \in Users : Reads(us'[v]) <=> Reads(us[v])
      BY <1>5, <3>1, IdlePlaced
    <3> QED BY <1>1, <1>2, <3>2, RcvSame
  <2> QED BY <2>1, <2>2
<1>9. Ordered(p, p')
  BY <1>2 DEF Ordered
<1> QED BY <1>1, <1>2, <1>4, <1>5, <1>7, <1>8, <1>9 DEF IInv, Sound, Closed

-----------------------------------------------------------------------------
(* Opening, closing, settings, and the UART.                               *)

(* The port's buffers and tasks stay; the fields that change do not matter *)
(* to the tokens.                                                          *)
LEMMA PortKeeps ==
  ASSUME IInv, UNCHANGED <<sem, us>>, p' \in Port,
         p'.openflag = p.openflag, p'.errorflag = p.errorflag,
         p'.txena = p.txena, p'.rxena = p.rxena,
         p'.snd = p.snd, p'.rcv = p.rcv, Going(p'),
         p.uatx = NULL => p'.uatx = NULL
  PROVE  IInv' /\ Ordered(p, p')
<1>1. SndToken(p', sem', us') /\ RcvToken(p', sem', us')
  BY SndSame, RcvSame DEF IInv, Sound
<1>2. Ordered(p, p')
  BY OrderedSame
<1> QED BY <1>1, <1>2 DEF IInv, Sound, Closed

LEMMA OpnPor ==
  ASSUME IInv, NEW u \in Users, serial_opn_por(u)
  PROVE  IInv' /\ Ordered(p, p')
<1> DEFINE i == {"ECHO", "CRLF", "FCSND", "FCRCV"}
           e == <<>>
<1>1. /\ p \in Port /\ sem \in Sems /\ us \in [Users -> Task]
      /\ ~p.openflag /\ UNCHANGED <<sem, us>>
      /\ \A v \in Users : Placed(us[v])
      /\ \A v \in Users : us[v] = Idle
      /\ sem.snd = 1 /\ sem.rcv = 0
  BY DEF IInv, Sound, Closed, serial_opn_por
<1>2. p' = [p EXCEPT !.ioctl = i,
                     !.rcv = e, !.rcv_fc_chr = NULL, !.rcv_stopped = FALSE,
                     !.snd = e, !.snd_stopped = FALSE,
                     !.openflag = TRUE, !.errorflag = FALSE,
                     !.txena = TRUE, !.rxena = TRUE]
  BY DEF serial_opn_por
<1>3. /\ i \in SUBSET {"ECHO", "CRLF", "FCSND", "FCANY", "FCRCV"}
      /\ e \in Seq(Char) /\ Len(e) = 0
  OBVIOUS
<1> HIDE DEF i, e
<1>4. p' \in Port
  BY <1>1, <1>2, <1>3 DEF Port
<1>5. /\ p'.snd = e /\ p'.rcv = e /\ p'.rcv_fc_chr = NULL
  BY <1>1, <1>2 DEF Port
<1>6. p'.openflag /\ p'.txena /\ ~p'.errorflag
  BY <1>1, <1>2 DEF Port
<1>7. SndToken(p', sem', us')
  BY <1>1, <1>3, <1>5, SndFree, IdlePlaced, SerialAssumption DEF SerialAssumption
<1>8. RcvToken(p', sem', us')
  BY <1>1, <1>3, <1>5, RcvFree, IdlePlaced, SerialAssumption DEF SerialAssumption
<1>9. Going(p')
  BY <1>3, <1>5 DEF Going
<1>10. Ordered(p, p')
  BY <1>1 DEF Ordered
<1> QED BY <1>1, <1>4, <1>6, <1>7, <1>8, <1>9, <1>10 DEF IInv, Sound, Closed

LEMMA ClsPor ==
  ASSUME IInv, NEW u \in Users, serial_cls_por(u)
  PROVE  IInv' /\ Ordered(p, p')
<1>1. p \in Port /\ ~p.errorflag
  BY DEF IInv, Sound
<1>2. /\ p' = [p EXCEPT !.openflag = FALSE, !.txena = FALSE, !.rxena = FALSE,
                        !.uatx = NULL]
      /\ sem' = [snd |-> 1, rcv |-> 0]
      /\ us' = [v \in Users |-> Idle]
  BY DEF serial_cls_por
<1>3. p' \in Port
  BY <1>1, <1>2 DEF Port
<1>4. ~p'.openflag /\ ~p'.txena /\ ~p'.rxena
  BY <1>1, <1>2 DEF Port
<1>5. p'.errorflag = p.errorflag
  BY <1>1, <1>2 DEF Port
<1>6. sem' \in Sems /\ sem'.snd = 1 /\ sem'.rcv = 0
  BY <1>2 DEF Sems
<1>7. /\ us' \in [Users -> Task]
      /\ \A v \in Users : us'[v] = Idle /\ Placed(us'[v])
  BY <1>2, IdlePlaced
<1> QED BY <1>1, <1>3, <1>4, <1>5, <1>6, <1>7
        DEF IInv, Sound, Closed, SndToken, RcvToken, Going, Ordered

LEMMA CtlPor ==
  ASSUME IInv, NEW u \in Users, NEW ioctl \in Ioctls, serial_ctl_por(u, ioctl)
  PROVE  IInv' /\ Ordered(p, p')
<1>1. p \in Port /\ Going(p)
  BY DEF IInv, Sound
<1>2. p' = [p EXCEPT !.ioctl = ioctl] /\ UNCHANGED <<sem, us>>
  BY DEF serial_ctl_por
<1>3. ioctl \in SUBSET {"ECHO", "CRLF", "FCSND", "FCANY", "FCRCV"}
  BY SerialAssumption DEF SerialAssumption
<1>4. p' \in Port
  BY <1>1, <1>2, <1>3 DEF Port
<1>5. /\ p'.openflag = p.openflag /\ p'.errorflag = p.errorflag
      /\ p'.txena = p.txena /\ p'.rxena = p.rxena
      /\ p'.snd = p.snd /\ p'.rcv = p.rcv /\ p'.uatx = p.uatx
      /\ p'.snd_stopped = p.snd_stopped /\ p'.rcv_fc_chr = p.rcv_fc_chr
      /\ p'.txreq = p.txreq
  BY <1>1, <1>2 DEF Port
<1>6. Going(p')
  BY <1>1, <1>5 DEF Going
<1> QED BY <1>2, <1>4, <1>5, <1>6, PortKeeps

LEMMA UartTransmitted ==
  ASSUME IInv, Transmitted
  PROVE  IInv' /\ Ordered(p, p')
<1>1. p \in Port /\ Closed(p, sem, us)
  BY DEF IInv, Sound
<1>2. p' = [p EXCEPT !.uatx = NULL, !.txreq = TRUE] /\ UNCHANGED <<sem, us>>
  BY DEF Transmitted
<1>3. p' \in Port
  BY <1>1, <1>2 DEF Port
<1>4. /\ p'.openflag = p.openflag /\ p'.errorflag = p.errorflag
      /\ p'.txena = p.txena /\ p'.rxena = p.rxena
      /\ p'.snd = p.snd /\ p'.rcv = p.rcv /\ p'.uatx = NULL
  BY <1>1, <1>2 DEF Port
<1>5. p'.txreq
  BY <1>1, <1>2 DEF Port
<1>6. Going(p')
  BY <1>1, <1>4, <1>5 DEF Going, Closed
<1> QED BY <1>2, <1>3, <1>4, <1>6, PortKeeps

LEMMA UartReceived ==
  ASSUME IInv, NEW c \in Typed \cup {FC_STOP, FC_START}, Received(c)
  PROVE  IInv' /\ Ordered(p, p')
<1>1. p \in Port /\ Going(p)
  BY DEF IInv, Sound
<1>2. p' = [p EXCEPT !.uarx = c] /\ UNCHANGED <<sem, us>>
  BY DEF Received
<1>3. c \in Char
  BY SerialAssumption DEF SerialAssumption, Char
<1>4. p' \in Port
  BY <1>1, <1>2, <1>3 DEF Port
<1>5. /\ p'.openflag = p.openflag /\ p'.errorflag = p.errorflag
      /\ p'.txena = p.txena /\ p'.rxena = p.rxena
      /\ p'.snd = p.snd /\ p'.rcv = p.rcv /\ p'.uatx = p.uatx
      /\ p'.snd_stopped = p.snd_stopped /\ p'.rcv_fc_chr = p.rcv_fc_chr
      /\ p'.txreq = p.txreq
  BY <1>1, <1>2 DEF Port
<1>6. Going(p')
  BY <1>1, <1>5 DEF Going
<1> QED BY <1>2, <1>4, <1>5, <1>6, PortKeeps

-----------------------------------------------------------------------------
(* The specification.                                                      *)

LEMMA SerialInit ==
  ASSUME serial_initialize
  PROVE  IInv
<1> DEFINE e == <<>>
<1>1. p = [openflag |-> FALSE, errorflag |-> FALSE, ioctl |-> {},
           rcv |-> e, rcv_fc_chr |-> NULL, rcv_stopped |-> FALSE,
           snd |-> e, snd_stopped |-> FALSE,
           txena |-> FALSE, rxena |-> FALSE, txreq |-> FALSE,
           uatx |-> NULL, uarx |-> NULL]
  BY DEF serial_initialize
<1>2. e \in Seq(Char)
  OBVIOUS
<1> HIDE DEF e
<1>3. p \in Port
  BY <1>1, <1>2 DEF Port
<1>4. ~p.openflag /\ ~p.errorflag /\ ~p.txena /\ ~p.rxena
  BY <1>1
<1>5. sem \in Sems /\ sem.snd = 1 /\ sem.rcv = 0
  BY DEF serial_initialize, Sems
<1>6. /\ us \in [Users -> Task]
      /\ \A v \in Users : us[v] = Idle /\ Placed(us[v])
  BY IdlePlaced DEF serial_initialize
<1> QED BY <1>3, <1>4, <1>5, <1>6
        DEF IInv, Sound, Closed, SndToken, RcvToken, Going

(* Every step keeps the invariant, and sends in order.                     *)
LEMMA SerialStep ==
  ASSUME IInv, [SerialNext]_vars
  PROVE  IInv' /\ Ordered(p, p')
<1>1. ASSUME NEW u \in Users, User(u) PROVE IInv' /\ Ordered(p, p')
  <2>1. CASE \E buf \in Strings : serial_wri_dat(u, buf)
    BY <2>1, WriDat
  <2>2. CASE Write_wait(u)
    BY <2>2, WaitSnd DEF Write_wait, At
  <2>3. CASE Write_cr(u)
    BY <2>3, WriteCr
  <2>4. CASE Write_cr_wait(u)
    BY <2>4, WaitSnd DEF Write_cr_wait, At
  <2>5. CASE Write_put(u)
    BY <2>5, WritePut
  <2>6. CASE Write_sig(u)
    BY <2>6, WriteSig
  <2>7. CASE \E len \in 1 .. MaxLen : serial_rea_dat(u, len)
    <3>1. 1 .. MaxLen \subseteq Int
      BY SerialAssumption DEF SerialAssumption
    <3> QED BY <2>7, <3>1, ReaDat
  <2>8. CASE Read_wait(u)
    BY <2>8, ReadWait
  <2>9. CASE serial_rea_chr(u)
    BY <2>9, ReaChrStep
  <2>10. CASE Read_sig(u)
    BY <2>10, ReadSig
  <2>11. CASE rel_wai(u)
    BY <2>11, RelWai
  <2>12. CASE serial_opn_por(u)
    BY <2>12, OpnPor
  <2>13. CASE serial_cls_por(u)
    BY <2>13, ClsPor
  <2>14. CASE \E ioctl \in Ioctls : serial_ctl_por(u, ioctl)
    BY <2>14, CtlPor
  <2> QED BY <1>1, <2>1, <2>2, <2>3, <2>4, <2>5, <2>6, <2>7, <2>8, <2>9, <2>10,
             <2>11, <2>12, <2>13, <2>14 DEF User
<1>2. CASE Uart
  BY <1>2, UartTransmitted, UartReceived DEF Uart
<1>3. CASE sio_tx_isr
  BY <1>3, TxIsr
<1>4. CASE sio_rx_isr
  BY <1>4, RxIsr
<1>5. CASE UNCHANGED vars
  <2>1. p' = p /\ sem' = sem /\ us' = us
    BY <1>5 DEF vars
  <2> QED BY <2>1 DEF IInv, Ordered
<1> QED BY <1>1, <1>2, <1>3, <1>4, <1>5 DEF SerialNext

THEOREM SerialInvariant == SerialSpec => []IInv
<1>1. serial_initialize => IInv
  BY SerialInit
<1>2. IInv /\ [SerialNext]_vars => IInv'
  BY SerialStep
<1> QED BY <1>1, <1>2, PTL DEF SerialSpec

(* Every state is of the types that SPCB, the UART and the tasks have.     *)
THEOREM SerialTypes == SerialSpec => []TypeOK
<1>1. IInv => TypeOK
  BY DEF IInv, Sound, TypeOK
<1> QED BY <1>1, SerialInvariant, PTL

(* No call that the driver makes fails: it never signals a semaphore that  *)
(* has its resource already.                                               *)
THEOREM SerialNeverError == SerialSpec => []NeverError
<1>1. IInv => NeverError
  BY DEF IInv, Sound, NeverError
<1> QED BY <1>1, SerialInvariant, PTL

(* What is to be sent is being sent.                                       *)
THEOREM SerialSending == SerialSpec => []SendingOK
<1>1. IInv => SendingOK
  BY DEF IInv, Sound, Going, SendingOK
<1> QED BY <1>1, SerialInvariant, PTL

(* Characters are sent in the order they were written.                     *)
THEOREM SerialSentInOrder == SerialSpec => SentInOrder
<1> DEFINE A ==
       LET old == p.snd
           new == p'.snd
       IN p.openflag /\ p'.openflag =>
            IF p.uatx = NULL /\ p'.uatx # NULL
            THEN \/ p'.uatx \in {FC_STOP, FC_START} /\ new = old
                 \/ /\ ~p'.snd_stopped
                    /\ IF old = <<>> THEN new = <<>>
                       ELSE p'.uatx = Head(old) /\ new = Tail(old)
            ELSE \/ new = old
                 \/ /\ p.txreq /\ p.uatx # NULL
                    /\ old # <<>> /\ new = Tail(old)
                 \/ new # <<>> /\ new = Append(old, new[Len(new)])
<1>1. IInv /\ [SerialNext]_vars => A
  <2>1. Ordered(p, p') => A
    BY DEF Ordered
  <2> HIDE DEF A
  <2> QED BY <2>1, SerialStep
<1>2. SentInOrder <=> [][A]_vars
  BY DEF SentInOrder
<1> HIDE DEF A
<1>3. [][SerialNext]_vars /\ []IInv => [][A]_vars
  BY <1>1, PTL
<1> QED BY <1>2, <1>3, SerialInvariant, PTL DEF SerialSpec

(* The number of the tasks that have the right, from what the tokens say.  *)
LEMMA Holders ==
  ASSUME NEW M, M \subseteq Users, \A u, v \in M : u = v
  PROVE  Cardinality(M) = IF M = {} THEN 0 ELSE 1
<1>1. CASE M = {}
  BY <1>1, FS_EmptySet
<1>2. CASE M # {}
  <2>1. PICK w \in M : TRUE
    BY <1>2
  <2>2. M = {w}
    BY <2>1
  <2> QED BY <1>2, <2>2, FS_Singleton
<1> QED BY <1>1, <1>2

(* While no wait of a task that echoes is ended, the resource of each      *)
(* semaphore is always in exactly one place, for buffers of every size and *)
(* any number of tasks.                                                    *)
THEOREM SerialTokens == ("echo" \notin Releases) /\ SerialSpec => []TokensOK
<1>1. IInv /\ "echo" \notin Releases => TokensOK
  <2>1. SUFFICES ASSUME IInv, "echo" \notin Releases, p.openflag
                 PROVE  /\ Len(p.snd) \in 0 .. snd_bufsz
                        /\ Len(p.rcv) \in 0 .. rcv_bufsz
                        /\ sem.snd + Cardinality({u \in Users : MaySend(u)})
                             + (IF Len(p.snd) = snd_bufsz THEN 1 ELSE 0) = 1
                        /\ sem.rcv + Cardinality({u \in Users : MayRead(u)})
                             + (IF Len(p.rcv) = 0 THEN 1 ELSE 0) = 1
    BY DEF TokensOK
  <2>2. /\ SndToken(p, sem, us) /\ RcvToken(p, sem, us) /\ sem \in Sems
        /\ Len(p.snd) \in Nat /\ Len(p.rcv) \in Nat
    BY <2>1 DEF IInv, Sound, Port
  <2> DEFINE MS == {u \in Users : MaySend(u)}
             MR == {u \in Users : MayRead(u)}
  <2>3. \A u \in Users : (MaySend(u) <=> Sends(us[u])) /\ (MayRead(u) <=> Reads(us[u]))
    BY DEF MaySend, MayRead, Sends, Reads
  <2>4. Cardinality(MS) = IF MS = {} THEN 0 ELSE 1
    <3>1. MS \subseteq Users /\ \A u, v \in MS : u = v
      BY <2>1, <2>2, <2>3 DEF SndToken
    <3> HIDE DEF MS
    <3> QED BY <3>1, Holders
  <2>5. Cardinality(MR) = IF MR = {} THEN 0 ELSE 1
    <3>1. MR \subseteq Users /\ \A u, v \in MR : u = v
      BY <2>1, <2>2, <2>3 DEF RcvToken
    <3> HIDE DEF MR
    <3> QED BY <3>1, Holders
  <2>6. Len(p.snd) <= snd_bufsz /\ Len(p.rcv) <= rcv_bufsz
    BY <2>1, <2>2 DEF SndToken, RcvToken
  <2>7. /\ sem.snd = 1 => MS = {} /\ Len(p.snd) # snd_bufsz
        /\ MS # {} => sem.snd = 0 /\ Len(p.snd) # snd_bufsz
        /\ sem.snd = 1 \/ Len(p.snd) = snd_bufsz \/ MS # {}
    BY <2>1, <2>2, <2>3, SerialAssumption DEF SndToken, SerialAssumption
  <2>8. /\ sem.rcv = 1 => MR = {} /\ Len(p.rcv) # 0
        /\ MR # {} => sem.rcv = 0 /\ Len(p.rcv) # 0
        /\ sem.rcv = 1 \/ Len(p.rcv) = 0 \/ MR # {}
    BY <2>1, <2>2, <2>3 DEF RcvToken
  <2>9. sem.snd \in {0, 1} /\ sem.rcv \in {0, 1}
    BY <2>2 DEF Sems
  <2> HIDE DEF MS, MR
  <2>10. sem.snd + Cardinality(MS) + (IF Len(p.snd) = snd_bufsz THEN 1 ELSE 0) = 1
    BY <2>4, <2>7, <2>9
  <2>11. sem.rcv + Cardinality(MR) + (IF Len(p.rcv) = 0 THEN 1 ELSE 0) = 1
    BY <2>5, <2>8, <2>9
  <2>12. Len(p.snd) \in 0 .. snd_bufsz /\ Len(p.rcv) \in 0 .. rcv_bufsz
    BY <2>2, <2>6, SerialAssumption DEF SerialAssumption
  <2> QED BY <2>10, <2>11, <2>12 DEF MS, MR
<1>2. CASE "echo" \notin Releases
  <2>1. IInv => TokensOK
    BY <1>1, <1>2
  <2> QED BY <2>1, SerialInvariant, PTL
<1>3. CASE "echo" \in Releases
  BY <1>3
<1> QED BY <1>2, <1>3

(* Whatever waits are ended: no two tasks put characters into the send     *)
(* buffer, or take them from the receive buffer, at once, and who may do   *)
(* so finds room, or a character (serial_wri_chr and serial_rea_chr do not *)
(* look).                                                                  *)
BuffersExclusive ==
  p.openflag =>
    /\ \A u, v \in Users : MaySend(u) /\ MaySend(v) => u = v
    /\ \A u, v \in Users : MayRead(u) /\ MayRead(v) => u = v
    /\ \A u \in Users : MaySend(u) => Len(p.snd) < snd_bufsz
    /\ \A u \in Users : MayRead(u) => Len(p.rcv) > 0

THEOREM SerialExclusive == SerialSpec => []BuffersExclusive
<1>1. IInv => BuffersExclusive
  <2>1. \A u \in Users : (MaySend(u) <=> Sends(us[u])) /\ (MayRead(u) <=> Reads(us[u]))
    BY DEF MaySend, MayRead, Sends, Reads
  <2> QED BY <2>1 DEF IInv, Sound, SndToken, RcvToken, BuffersExclusive
<1> QED BY <1>1, SerialInvariant, PTL

=============================================================================
