------------------------------- MODULE Serial -------------------------------
(***************************************************************************)
(* The serial interface driver syssvc/serial.c on the SIO driver           *)
(* target/v850_gcc/target_serial.c, for one port.  Tasks write to the port *)
(* and read from it, sharing the two ring buffers with the interrupt       *)
(* handlers of the UART; a semaphore for each buffer, of at most one       *)
(* resource, both keeps two tasks from using the buffer at once and makes  *)
(* them wait for it.                                                       *)
(*                                                                         *)
(* A step of a task is a wait, a signal, or what it does with the CPU      *)
(* locked.  Steps of the tasks come in any order, which includes every     *)
(* order that priorities allow.                                            *)
(***************************************************************************)
EXTENDS Integers, Sequences, FiniteSets, TLC

CONSTANTS
  Users,       \* the tasks that use the port
  Chars,       \* the characters that are only data
  LF, CR,      \* line feed, which may be sent as CR LF, and carriage return
  FC_STOP,     \* the characters of flow control
  FC_START,
  NULL,        \* no character
  snd_bufsz,   \* SPINIB.snd_bufsz: size of the send buffer
  rcv_bufsz,   \* SPINIB.rcv_bufsz: size of the receive buffer
  Typed,       \* the data characters that the other side sends
  Ioctls,      \* the settings that programs make
  Strings,     \* bound: the strings that programs write
  MaxLen,      \* bound: how many characters a program reads at once
  Releases     \* the waits that rel_wai ends: of "write", "read", "echo"

ASSUME SerialAssumption ==
  /\ Cardinality({LF, CR, FC_STOP, FC_START, NULL}) = 5
  /\ Chars \cap {LF, CR, FC_STOP, FC_START, NULL} = {}
  /\ Typed \subseteq Chars \cup {LF, CR}
  /\ snd_bufsz \in Nat \ {0}
  /\ rcv_bufsz \in Nat \ {0}
  /\ Ioctls \subseteq SUBSET {"ECHO", "CRLF", "FCSND", "FCANY", "FCRCV"}
  /\ Strings \subseteq Seq(Chars \cup {LF, CR}) \ {<<>>}
  /\ MaxLen \in Nat \ {0}
  /\ Releases \subseteq {"write", "read", "echo"}

VARIABLES
  p,    \* the port: SPCB, and the state of the SIO driver and of the UART
  sem,  \* the resources of the semaphores snd and rcv
  us    \* what each task does in the driver

vars == <<p, sem, us>>

BUFCNT_STOP(bufsz) == (bufsz * 3) \div 4
BUFCNT_START(bufsz) == bufsz \div 2

-----------------------------------------------------------------------------
(* A ring buffer of SPCB is the sequence of the characters in it.          *)

Put(r, c) == Append(r, c)

Get(r) == Tail(r)

-----------------------------------------------------------------------------
(* The SIO driver.  uatx is the character being transmitted (bit 7 of      *)
(* UAnSTR says that there is one), uarx one received and not yet taken,    *)
(* txreq the request of the transmission interrupt.  dis_int and ena_int   *)
(* are for tasks: in a handler they return E_CTX, so that neither callback *)
(* is ever disabled there, as serial.c means it to be.                     *)

sio_snd_chr(P, c) ==
  IF P.uatx = NULL THEN [ok |-> TRUE, st |-> [P EXCEPT !.uatx = c]]
  ELSE [ok |-> FALSE, st |-> P]

sio_ena_cbr_snd(P, ctx) ==
  IF ctx = "task" THEN [P EXCEPT !.txena = TRUE] ELSE P

sio_dis_cbr_snd(P, ctx) ==
  IF ctx = "task" THEN [P EXCEPT !.txena = FALSE] ELSE P

serial_snd_chr(P, c, ctx) ==
  LET r == sio_snd_chr(P, c)
  IN IF r.ok THEN r ELSE [r EXCEPT !.st = sio_ena_cbr_snd(@, ctx)]

-----------------------------------------------------------------------------
(* The callbacks.  sig is the semaphore they signal, or "none".            *)

(* Mutant: tests for a full buffer when the character is already out.      *)
sio_irdy_snd_late(P) ==
  IF P.rcv_fc_chr # NULL
  THEN [st |-> [sio_snd_chr(P, P.rcv_fc_chr).st EXCEPT !.rcv_fc_chr = NULL],
        sig |-> "none"]
  ELSE IF ~P.snd_stopped /\ Len(P.snd) > 0
  THEN [st |-> [sio_snd_chr(P, Head(P.snd)).st EXCEPT !.snd = Get(@)],
        sig |-> IF Len(P.snd) - 1 = snd_bufsz THEN "snd" ELSE "none"]
  ELSE [st |-> sio_dis_cbr_snd(P, "int"), sig |-> "none"]

sio_irdy_snd(P) ==
  IF P.rcv_fc_chr # NULL
  THEN [st |-> [sio_snd_chr(P, P.rcv_fc_chr).st EXCEPT !.rcv_fc_chr = NULL],
        sig |-> "none"]
  ELSE IF ~P.snd_stopped /\ Len(P.snd) > 0
  THEN [st |-> [sio_snd_chr(P, Head(P.snd)).st EXCEPT !.snd = Get(@)],
        sig |-> IF Len(P.snd) = snd_bufsz THEN "snd" ELSE "none"]
  ELSE [st |-> sio_dis_cbr_snd(P, "int"), sig |-> "none"]

(* Mutant: leaves the characters in the buffer to the next callback.       *)
Resume_only(P) == [st |-> [P EXCEPT !.snd_stopped = FALSE], sig |-> "none"]

(* Transmission goes on after a START.                                     *)
Resume(P) ==
  LET R == [P EXCEPT !.snd_stopped = FALSE]
      r == serial_snd_chr(R, Head(P.snd), "int")
  IN IF Len(P.snd) = 0 THEN [st |-> R, sig |-> "none"]
     ELSE IF ~r.ok THEN [st |-> r.st, sig |-> "none"]
     ELSE [st |-> [r.st EXCEPT !.snd = Get(@)],
           sig |-> IF Len(P.snd) = snd_bufsz THEN "snd" ELSE "none"]

(* Sends a character of flow control, or leaves it to sio_irdy_snd.        *)
Send_fc(P, c, ctx) ==
  LET r == serial_snd_chr(P, c, ctx)
  IN IF r.ok THEN r.st ELSE [r.st EXCEPT !.rcv_fc_chr = c]

Receive(P, c) ==
  LET R == [P EXCEPT !.rcv = Put(@, c)]
  IN [st |-> IF /\ "FCRCV" \in P.ioctl /\ ~P.rcv_stopped
                /\ Len(R.rcv) >= BUFCNT_STOP(rcv_bufsz)
             THEN [Send_fc(R, FC_STOP, "int") EXCEPT !.rcv_stopped = TRUE]
             ELSE R,
      sig |-> IF Len(P.rcv) = 0 THEN "rcv" ELSE "none"]

sio_irdy_rcv(P, c) ==
  IF "FCSND" \in P.ioctl /\ c = FC_STOP
  THEN [st |-> [P EXCEPT !.snd_stopped = TRUE], sig |-> "none"]
  ELSE IF P.snd_stopped /\ (c = FC_START \/ "FCANY" \in P.ioctl)
  THEN Resume(P)
  ELSE IF \/ "FCSND" \in P.ioctl /\ c = FC_START
          \/ Len(P.rcv) = rcv_bufsz
  THEN [st |-> P, sig |-> "none"]
  ELSE Receive(P, c)

-----------------------------------------------------------------------------
(* The tasks.  at is where a task continues, waits the semaphore it waits  *)
(* for there, rest what it has still to write (one character, when it      *)
(* echoes what it has read), len how much it has to read, and empty        *)
(* whether the receive buffer was, when it last took a character.          *)

Idle == [at |-> "idle", waits |-> "none", rest |-> <<>>,
         reading |-> FALSE, len |-> 0, empty |-> TRUE]

At(u, label) == us[u].at = label /\ us[u].waits = "none"
Waiting(s) == {u \in Users : us[u].waits = s}

(* A signal from U on: one of the tasks that wait gets the resource (which *)
(* of them depends on their priorities), or it is counted; with one        *)
(* counted already, the call returns E_QOVR.                               *)
Signal(s, P, U) ==
  IF s = "none" THEN p' = P /\ us' = U /\ UNCHANGED sem
  ELSE IF Waiting(s) # {}
  THEN /\ \E u \in Waiting(s) : us' = [U EXCEPT ![u].waits = "none"]
       /\ p' = P
       /\ UNCHANGED sem
  ELSE /\ p' = IF sem[s] = 0 THEN P ELSE [P EXCEPT !.errorflag = TRUE]
       /\ sem' = [sem EXCEPT ![s] = 1]
       /\ us' = U

wai_sem(u, s, label) ==
  /\ IF sem[s] = 1
     THEN /\ sem' = [sem EXCEPT ![s] = 0]
          /\ us' = [us EXCEPT ![u].at = label]
     ELSE /\ us' = [us EXCEPT ![u].at = label, ![u].waits = s]
          /\ UNCHANGED sem
  /\ UNCHANGED p

(* Mutant: does not look whether characters are in the buffer.             *)
serial_wri_chr_direct(P, c) ==
  LET r == IF ~P.snd_stopped THEN serial_snd_chr(P, c, "task")
           ELSE [ok |-> FALSE, st |-> P]
  IN IF r.ok THEN r.st ELSE [r.st EXCEPT !.snd = Put(@, c)]

(* The part of serial_wri_chr with the CPU locked.                         *)
serial_wri_chr(P, c) ==
  LET r == IF Len(P.snd) = 0 /\ ~P.snd_stopped
           THEN serial_snd_chr(P, c, "task")
           ELSE [ok |-> FALSE, st |-> P]
  IN IF r.ok THEN r.st ELSE [r.st EXCEPT !.snd = Put(@, c)]

BufferFull(P) == Len(P.snd) = snd_bufsz

(* Mutant: signals even if it has emptied the buffer.                      *)
Reading_sig(x) ==
  IF x.len > 0 THEN [x EXCEPT !.at = IF x.empty THEN "r_wai" ELSE "r_chr",
                              !.rest = <<>>]
  ELSE [x EXCEPT !.at = "r_sig", !.rest = <<>>]

(* serial_rea_dat after a character has been dealt with.                   *)
Reading(x) ==
  IF x.len > 0 THEN [x EXCEPT !.at = IF x.empty THEN "r_wai" ELSE "r_chr",
                              !.rest = <<>>]
  ELSE IF x.empty THEN Idle ELSE [x EXCEPT !.at = "r_sig", !.rest = <<>>]

(* serial_wri_dat, and the echo of serial_rea_dat, after their last step.  *)
Written(x) == IF x.reading THEN Reading(x) ELSE Idle

serial_wri_dat(u, buf) ==
  /\ At(u, "idle")
  /\ p.openflag /\ ~p.errorflag
  /\ us' = [us EXCEPT ![u].at = "w_wai", ![u].rest = buf]
  /\ UNCHANGED <<p, sem>>

Write_wait(u) == At(u, "w_wai") /\ wai_sem(u, "snd", "w_chr")

(* serial_wri_chr called for the CR before an LF; when that has filled the *)
(* buffer, the task waits for it again.                                    *)
Write_cr(u) ==
  /\ At(u, "w_chr")
  /\ Head(us[u].rest) = LF /\ "CRLF" \in p.ioctl
  /\ p' = serial_wri_chr(p, CR)
  /\ us' = [us EXCEPT ![u].at = IF BufferFull(p') THEN "w_cr" ELSE "w_put"]
  /\ UNCHANGED sem

Write_cr_wait(u) == At(u, "w_cr") /\ wai_sem(u, "snd", "w_put")

Write_put(u) ==
  /\ \/ At(u, "w_put")
     \/ At(u, "w_chr") /\ ~(Head(us[u].rest) = LF /\ "CRLF" \in p.ioctl)
  /\ p' = serial_wri_chr(p, Head(us[u].rest))
  /\ LET x == [us[u] EXCEPT !.rest = Tail(@)]
         y == IF BufferFull(p')
              THEN IF x.rest = <<>> THEN Written(x) ELSE [x EXCEPT !.at = "w_wai"]
              ELSE [x EXCEPT !.at = IF x.rest = <<>> THEN "w_sig" ELSE "w_chr"]
     IN us' = [us EXCEPT ![u] = y]
  /\ UNCHANGED sem

Write_sig(u) ==
  /\ At(u, "w_sig")
  /\ Signal("snd", p, [us EXCEPT ![u] = Written(@)])

serial_rea_dat(u, len) ==
  /\ At(u, "idle")
  /\ p.openflag /\ ~p.errorflag
  /\ us' = [us EXCEPT ![u] = [Idle EXCEPT !.at = "r_wai", !.reading = TRUE,
                                          !.len = len]]
  /\ UNCHANGED <<p, sem>>

Read_wait(u) == At(u, "r_wai") /\ wai_sem(u, "rcv", "r_chr")

(* serial_rea_chr, and the test whether to echo.                           *)
serial_rea_chr(u) ==
  /\ At(u, "r_chr")
  /\ LET c == Head(p.rcv)
         R == [p EXCEPT !.rcv = Get(@)]
         x == [us[u] EXCEPT !.len = @ - 1, !.empty = Len(R.rcv) = 0]
     IN /\ p' = IF /\ p.rcv_stopped
                   /\ Len(R.rcv) <= BUFCNT_START(rcv_bufsz)
                THEN [Send_fc(R, FC_START, "task") EXCEPT !.rcv_stopped = FALSE]
                ELSE R
        /\ us' = [us EXCEPT ![u] = IF "ECHO" \in p.ioctl
                                   THEN [x EXCEPT !.at = "w_wai", !.rest = <<c>>]
                                   ELSE Reading(x)]
  /\ UNCHANGED sem

Read_sig(u) ==
  /\ At(u, "r_sig")
  /\ Signal("rcv", p, [us EXCEPT ![u] = Idle])

(* The wait of u ends with E_RLWAI, and with it the service u has called.  *)
rel_wai(u) ==
  /\ us[u].waits # "none"
  /\ (CASE us[u].waits = "rcv" -> "read"
        [] us[u].reading /\ us[u].waits = "snd" -> "echo"
        [] OTHER -> "write") \in Releases
  /\ us' = [us EXCEPT ![u] = Idle]
  /\ UNCHANGED <<p, sem>>

-----------------------------------------------------------------------------
(* Opening and closing, each with dispatching disabled from beginning to   *)
(* end, and, where the port is open, the CPU locked.                       *)

serial_opn_por(u) ==
  /\ At(u, "idle")
  /\ ~p.openflag
  /\ p' = [p EXCEPT !.ioctl = {"ECHO", "CRLF", "FCSND", "FCRCV"},
                    !.rcv = <<>>, !.rcv_fc_chr = NULL, !.rcv_stopped = FALSE,
                    !.snd = <<>>, !.snd_stopped = FALSE,
                    !.openflag = TRUE, !.errorflag = FALSE,
                    !.txena = TRUE, !.rxena = TRUE]
  /\ UNCHANGED <<sem, us>>

(* Environment: a port is closed while tasks wait in the driver, but not   *)
(* while one is in the middle of its services: nothing there would stop it *)
(* from using the closed port, nor from signalling the new semaphores.     *)
Settled == \A u \in Users : us[u].at = "idle" \/ us[u].waits # "none"

(* sio_cls_por, and ini_sem of the two semaphores: E_DLT for who waits.    *)
serial_cls_por(u) ==
  /\ At(u, "idle")
  /\ p.openflag
  /\ Settled
  /\ p' = [p EXCEPT !.openflag = FALSE, !.txena = FALSE, !.rxena = FALSE,
                    !.uatx = NULL]
  /\ sem' = [snd |-> 1, rcv |-> 0]
  /\ us' = [v \in Users |-> Idle]

serial_ctl_por(u, ioctl) ==
  /\ At(u, "idle")
  /\ p.openflag /\ ~p.errorflag
  /\ p' = [p EXCEPT !.ioctl = ioctl]
  /\ UNCHANGED <<sem, us>>

-----------------------------------------------------------------------------
(* The UART: it ends the transmission of a character, requesting an        *)
(* interrupt, and receives characters, at most one before its interrupt    *)
(* has been taken.                                                         *)

Transmitted ==
  /\ p.uatx # NULL
  /\ p' = [p EXCEPT !.uatx = NULL, !.txreq = TRUE]
  /\ UNCHANGED <<sem, us>>

Received(c) ==
  /\ p.openflag /\ p.uarx = NULL
  /\ p' = [p EXCEPT !.uarx = c]
  /\ UNCHANGED <<sem, us>>

(* The interrupts, of the same priority.                                   *)
sio_tx_isr ==
  /\ p.txreq /\ p.txena
  /\ LET r == sio_irdy_snd([p EXCEPT !.txreq = FALSE])
     IN Signal(r.sig, r.st, us)

sio_rx_isr ==
  /\ p.uarx # NULL /\ p.rxena
  /\ LET r == sio_irdy_rcv([p EXCEPT !.uarx = NULL], p.uarx)
     IN Signal(r.sig, r.st, us)

-----------------------------------------------------------------------------
serial_initialize ==
  /\ p = [openflag |-> FALSE, errorflag |-> FALSE, ioctl |-> {},
          rcv |-> <<>>, rcv_fc_chr |-> NULL, rcv_stopped |-> FALSE,
          snd |-> <<>>, snd_stopped |-> FALSE,
          txena |-> FALSE, rxena |-> FALSE, txreq |-> FALSE,
          uatx |-> NULL, uarx |-> NULL]
  /\ sem = [snd |-> 1, rcv |-> 0]
  /\ us = [u \in Users |-> Idle]

User(u) ==
  \/ \E buf \in Strings : serial_wri_dat(u, buf)
  \/ Write_wait(u) \/ Write_cr(u) \/ Write_cr_wait(u)
  \/ Write_put(u) \/ Write_sig(u)
  \/ \E len \in 1 .. MaxLen : serial_rea_dat(u, len)
  \/ Read_wait(u) \/ serial_rea_chr(u) \/ Read_sig(u)
  \/ rel_wai(u)
  \/ serial_opn_por(u) \/ serial_cls_por(u)
  \/ \E ioctl \in Ioctls : serial_ctl_por(u, ioctl)

Uart == \/ Transmitted
        \/ \E c \in Typed \cup {FC_STOP, FC_START} : Received(c)

SerialNext == (\E u \in Users : User(u)) \/ Uart \/ sio_tx_isr \/ sio_rx_isr

SerialSpec == serial_initialize /\ [][SerialNext]_vars

-----------------------------------------------------------------------------
(* Who may put characters into the send buffer, and take them from the     *)
(* receive buffer.                                                         *)
MaySend(u) == us[u].waits = "none" /\ us[u].at \in {"w_chr", "w_put", "w_sig"}
MayRead(u) ==
  /\ us[u].reading /\ us[u].waits # "rcv"
  /\ us[u].at \in {"r_chr", "r_sig"} \/ ~us[u].empty

(* The resource of each semaphore is always in one place: it is counted,   *)
(* or one task has it, or it is with the handler that is to signal it -    *)
(* because the send buffer is full, or the receive buffer empty.  So two   *)
(* tasks never use a buffer at once, none runs over or dry, and a task     *)
(* that waits is woken (the conditions under which wri_dat, rea_dat and    *)
(* the callbacks signal depend on each other, in six places).              *)
TokensOK ==
  p.openflag =>
    /\ Len(p.snd) \in 0 .. snd_bufsz
    /\ Len(p.rcv) \in 0 .. rcv_bufsz
    /\ sem.snd + Cardinality({u \in Users : MaySend(u)})
         + (IF Len(p.snd) = snd_bufsz THEN 1 ELSE 0) = 1
    /\ sem.rcv + Cardinality({u \in Users : MayRead(u)})
         + (IF Len(p.rcv) = 0 THEN 1 ELSE 0) = 1

(* What is to be sent is being sent: while there are characters in the     *)
(* send buffer, and the other side has not stopped them, or while one of   *)
(* flow control is due, the transmitter is busy or its interrupt is        *)
(* requested and enabled; serial_wri_chr does not start it when the buffer *)
(* is not empty, so a buffer that nothing empties would stay for ever.     *)
SendingOK ==
  (p.openflag /\ ((Len(p.snd) > 0 /\ ~p.snd_stopped) \/ p.rcv_fc_chr # NULL))
    => p.uatx # NULL \/ (p.txreq /\ p.txena)

(* No call that the driver makes fails: a semaphore is never signalled     *)
(* twice (E_QOVR), which would disable the port (errorflag).               *)
NeverError == ~p.errorflag

(* Characters are sent in the order they were written, no one overtaking   *)
(* those in the buffer, and none while the other side has stopped the      *)
(* transmission; only the driver's own characters of flow control come in  *)
(* between.  The one exception: a callback that comes after a handler or a *)
(* task has started the transmitter again takes a character from the       *)
(* buffer and drops it.                                                    *)
SentInOrder ==
  [][LET old == p.snd
         new == p'.snd
     IN p.openflag /\ p'.openflag =>
          IF p.uatx = NULL /\ p'.uatx # NULL
          THEN \/ p'.uatx \in {FC_STOP, FC_START} /\ new = old
               \/ /\ ~p'.snd_stopped
                  /\ IF old = <<>> THEN new = <<>>
                     ELSE p'.uatx = Head(old) /\ new = Tail(old)
          ELSE \/ new = old
               \/ /\ p.txreq /\ p.uatx # NULL
                  /\ old # <<>> /\ new = Tail(old)
               \/ new # <<>> /\ new = Append(old, new[Len(new)])]_vars

(* A task waits to read only while nothing has been received, or another   *)
(* task is reading: serial_rea_dat waits "until len bytes are received".   *)
ReaderServed ==
  p.openflag /\ Len(p.rcv) > 0 /\ Waiting("rcv") # {}
    => \E u \in Users : MayRead(u)
=============================================================================
