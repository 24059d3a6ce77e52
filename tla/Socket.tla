------------------------------- MODULE Socket -------------------------------
(***************************************************************************)
(* The TCP sockets of mbed (EthernetInterface/Socket) on the athrill port  *)
(* of lwIP's socket interface (lwip-athrill.c).  Each task owns some       *)
(* sockets and calls their methods; the sockets are descriptors of the     *)
(* host, which athrill reaches with system calls that never wait.  A       *)
(* method that has to wait polls the host and sleeps for a millisecond     *)
(* (dly_tsk) between two polls, so that tasks of lower priority run.       *)
(*                                                                         *)
(* A step is what a task does up to a poll of the host, or its next sleep. *)
(* The host and the peers on the network are external: they are as free as *)
(* the code that uses them lets them be.                                   *)
(***************************************************************************)
EXTENDS Naturals, FiniteSets

CONSTANTS
  Tasks,        \* the tasks that use sockets
  Prio,         \* Prio[t]: the priority of task t, smaller is higher
  Connections,  \* the objects of class TCPSocketConnection
  Servers,      \* the objects of class TCPSocketServer
  Owner,        \* Owner[o]: the task that calls the methods of o
  Fds,          \* the descriptors of the host
  NoFd,         \* the value -1 of _sock_fd
  UsualFd,      \* UsualFd[o]: the descriptor that o gets if it is free
  Polls,        \* _timeout in milliseconds: how often select polls the host
  MaxLen,       \* bound: the length of a buffer
  Methods,      \* Methods[o]: what the program does with connection o
  Peer,         \* Peer[o]: what the peer of connection o may do
  MaxIn,        \* bound: the bytes that a peer sends on a connection
  MaxOut        \* bound: the bytes that a peer takes from a connection

Objects == Connections \cup Servers

Receiving == {"receive", "receive_all"}
Sending == {"send", "send_all"}
Transfers == Receiving \cup Sending
All(op) == op \in {"receive_all", "send_all"}

ASSUME SocketAssumption ==
  /\ Connections \cap Servers = {}
  /\ Prio \in [Tasks -> Nat]
  /\ Owner \in [Objects -> Tasks]
  /\ Methods \in [Connections -> SUBSET (Transfers \cup {"connect"})]
  /\ Peer \in [Connections -> SUBSET {"sends", "takes", "closes", "breaks"}]
  /\ NoFd \notin Fds
  /\ UsualFd \in [Objects -> Fds]
  /\ Polls \in Nat \ {0}
  /\ MaxLen \in Nat \ {0}
  /\ MaxIn \in Nat
  /\ MaxOut \in Nat

VARIABLES
  sock,   \* the members of each object
  call,   \* what each task does: the method it is in, and how far it is
  slept,  \* the tasks in dly_tsk
  host,   \* the descriptors of the host, with what the peers do
  told    \* history: the bytes that the results of the methods have told
          \* of, and whether a transfer of length 0 was one of them

vars == <<sock, call, slept, host, told>>

Idle == [op |-> "none"]
NothingTold == [rcv |-> 0, snd |-> 0, zero |-> FALSE]

-----------------------------------------------------------------------------
(* The host.  A connection breaks when the peer resets it; what was on its *)
(* way is then lost.  The host answers with an error as often as it likes, *)
(* and then as if the peer had closed.  A descriptor is lost when no       *)
(* object names it any more; what its peer does is left out.               *)

Closed == [st |-> "closed"]
Listening == [st |-> "listening", pending |-> FALSE]
Lost == [st |-> "lost"]
Up == [st |-> "up", in |-> 0, got |-> 0, eof |-> FALSE, room |-> 0, put |-> 0]

IsUp(f) == host[f].st = "up"

(* The descriptor that socket() or accept() returns for object o.  It is   *)
(* free; which of the free ones it is makes no difference to the code.     *)
FreeFd(o) ==
  CHOOSE f \in Fds :
    /\ host[f] = Closed
    /\ host[UsualFd[o]] = Closed => f = UsualFd[o]

NoFreeFd == \A f \in Fds : host[f] # Closed

PeerCalls(o) ==
  LET f == sock[o].fd
  IN /\ f # NoFd /\ host[f].st = "listening" /\ ~host[f].pending
     /\ host' = [host EXCEPT ![f].pending = TRUE]

PeerAnswers(o) ==
  LET f == sock[o].fd
  IN /\ f # NoFd /\ host[f].st = "calling"
     /\ \/ host' = [host EXCEPT ![f] = Up]
        \/ \E why \in {"refused", "failed"} :
             host' = [host EXCEPT ![f] = [st |-> why]]

PeerActs(o) ==
  LET f == sock[o].fd
      h == host[f]
  IN /\ f # NoFd /\ IsUp(f)
     /\ \/ /\ "sends" \in Peer[o] /\ ~h.eof /\ h.in + h.got < MaxIn
           /\ host' = [host EXCEPT ![f].in = @ + 1]
        \/ /\ "takes" \in Peer[o] /\ h.room + h.put < MaxOut
           /\ host' = [host EXCEPT ![f].room = @ + 1]
        \/ /\ "closes" \in Peer[o] /\ ~h.eof
           /\ host' = [host EXCEPT ![f].eof = TRUE]
        \/ /\ "breaks" \in Peer[o]
           /\ host' = [host EXCEPT ![f] = [st |-> "broken"]]

AnswersError(f) ==
  \/ UNCHANGED host
  \/ host' = [host EXCEPT ![f] = [st |-> "ended"]]

Peers ==
  /\ \/ \E o \in Servers : PeerCalls(o)
     \/ \E o \in Connections : PeerAnswers(o) \/ PeerActs(o)
  /\ UNCHANGED <<sock, call, slept, told>>

-----------------------------------------------------------------------------
(* The CPU.  A task between two calls is taken to leave the CPU to others  *)
(* now and then; dly_tsk(1) ends with a tick.                              *)

Runs(t) ==
  /\ t \notin slept
  /\ \A u \in Tasks :
       Prio[u] < Prio[t] => u \in slept \/ call[u] = Idle

(* Mutant: the other definition of the macro, which is commented out.      *)
OS_DLY_TSK_empty(t) == UNCHANGED slept

OS_DLY_TSK(t) == slept' = slept \cup {t}

Tick ==
  /\ slept # {}
  /\ slept' = {}
  /\ UNCHANGED <<sock, call, host, told>>

-----------------------------------------------------------------------------
(* The methods of a task that is between two calls.  A method that fails   *)
(* at once leaves everything as it was and is left out, as is one that has *)
(* all of nothing to transfer.  A program accepts on a socket that listens.*)

Calls(t, o) == call[t] = Idle /\ Runs(t) /\ Owner[o] = t

(* Mutant: the test is the wrong way round.                                *)
if_not_blocking_inverted(o) == IF sock[o].blocking THEN "select" ELSE "io"

(* A socket that is not blocking waits in select before it polls.          *)
if_not_blocking(o) == IF sock[o].blocking THEN "io" ELSE "select"

Begin(t, op, o, len, conn) ==
  call' = [call EXCEPT ![t] =
    [op |-> op, o |-> o, len |-> len, conn |-> conn, done |-> 0,
     pc |-> if_not_blocking(o), left |-> Polls]]

(* Mutant: does not look whether the object has a descriptor already.      *)
init_socket_again(o) == ~NoFreeFd

init_socket(o) == sock[o].fd = NoFd /\ ~NoFreeFd

(* lwip_close: athrill shuts the descriptor down. *)
Socket_close(o) ==
  /\ host' = [host EXCEPT ![sock[o].fd] = Closed]
  /\ sock' = [sock EXCEPT ![o].fd = NoFd]
  /\ told' = [told EXCEPT ![o] = NothingTold]

close(t, o) ==
  /\ Calls(t, o)
  /\ sock[o].fd # NoFd
  /\ Socket_close(o)
  /\ UNCHANGED <<call, slept>>

(* Bound: only before the socket has a descriptor. *)
set_blocking(t, o) ==
  /\ Calls(t, o)
  /\ sock[o].fd = NoFd
  /\ sock' = [sock EXCEPT ![o].blocking = ~@]
  /\ UNCHANGED <<call, slept, host, told>>

bind(t, o) ==
  /\ Calls(t, o)
  /\ o \in Servers
  /\ init_socket(o)
  /\ sock' = [sock EXCEPT ![o].fd = FreeFd(o)]
  /\ host' = [host EXCEPT ![FreeFd(o)] = [st |-> "bound"]]
  /\ UNCHANGED <<call, slept, told>>

listen(t, o) ==
  /\ Calls(t, o)
  /\ o \in Servers
  /\ sock[o].fd # NoFd
  /\ host[sock[o].fd].st = "bound"
  /\ \/ /\ host' = [host EXCEPT ![sock[o].fd] = Listening]
        /\ UNCHANGED <<sock, told>>
     \/ Socket_close(o)
  /\ UNCHANGED <<call, slept>>

connect(t, o) ==
  /\ Calls(t, o)
  /\ o \in Connections
  /\ "connect" \in Methods[o]
  /\ init_socket(o)
  /\ \/ /\ host' = [host EXCEPT ![FreeFd(o)] = Up]
        /\ sock' = [sock EXCEPT ![o].fd = FreeFd(o), ![o].connected = TRUE]
        /\ UNCHANGED call
     \/ /\ host' = [host EXCEPT ![FreeFd(o)] = [st |-> "calling"]]
        /\ sock' = [sock EXCEPT ![o].fd = FreeFd(o)]
        /\ call' = [call EXCEPT ![t] =
                      [op |-> "connect", o |-> o, pc |-> "sense"]]
  /\ UNCHANGED <<slept, told>>

transfer(t, o) ==
  /\ Calls(t, o)
  /\ o \in Connections
  /\ sock[o].fd # NoFd
  /\ sock[o].connected
  /\ \E op \in Methods[o] \cap Transfers, len \in 0..MaxLen :
       /\ All(op) => len > 0
       /\ Begin(t, op, o, len, o)
  /\ UNCHANGED <<sock, slept, host, told>>

accept(t, o, conn) ==
  /\ Calls(t, o)
  /\ o \in Servers
  /\ conn \in Connections
  /\ Owner[conn] = t
  /\ sock[o].fd # NoFd
  /\ host[sock[o].fd].st = "listening"
  /\ Begin(t, "accept", o, 0, conn)
  /\ UNCHANGED <<sock, slept, host, told>>

-----------------------------------------------------------------------------
(* What a task does in a method that may have to wait.                     *)

At(t, pc) == call[t] # Idle /\ call[t].pc = pc

Fd(t) == sock[call[t].o].fd

Return(t) == call' = [call EXCEPT ![t] = Idle]

(* The method returns with a count of n bytes. *)
Tell(t, n) ==
  LET c == call[t]
      Of(ops) == IF c.op \in ops THEN n ELSE 0
  IN told' = [told EXCEPT ![c.o] =
                [rcv |-> @.rcv + Of(Receiving), snd |-> @.snd + Of(Sending),
                 zero |-> @.zero \/ (At(t, "io") /\ c.len = 0)]]

(* n more bytes are transferred: a method for all of them goes on. *)
Advance(t, n) ==
  LET c == call[t]
  IN IF All(c.op) /\ c.done + n < c.len
     THEN /\ call' = [call EXCEPT ![t] =
                        [c EXCEPT !.done = @ + n, !.left = Polls,
                                  !.pc = if_not_blocking(c.o)]]
          /\ UNCHANGED told
     ELSE Return(t) /\ Tell(t, c.done + n)

(* Mutant: forgets what has been transferred.                              *)
timed_out_minus_one(t) == Return(t) /\ UNCHANGED told

(* select returns without a descriptor that is ready. *)
timed_out(t) ==
  /\ Return(t)
  /\ IF call[t].op = "accept" THEN UNCHANGED told ELSE Tell(t, call[t].done)

(* The counts with which the host may answer for rest bytes. *)
Count(rest) == IF rest = 0 THEN {0} ELSE 1..rest

(* Mutant: takes a short count for the end of the connection.              *)
still_connected_if_all(n, len) == n = len

(* _is_connected after n bytes of len. *)
still_connected(n, len) == n # 0

(* The host need not make the call of task t wait. *)
Ready(t) ==
  LET h == host[Fd(t)]
  IN CASE call[t].op = "accept" -> h.pending
       [] call[t].op = "connect" -> h.st \notin {"calling", "failed"}
       [] call[t].op \in Receiving -> h.st = "up" => h.in > 0 \/ h.eof
       [] call[t].op \in Sending -> h.st = "up" => h.room > 0

(* It has waited for the whole timeout; or the host answers with an error. *)
lwip_select(t) ==
  /\ At(t, "select")
  /\ \/ /\ timed_out(t)
        /\ UNCHANGED slept
     \/ /\ call[t].left > 0
        /\ Ready(t)
        /\ call' = [call EXCEPT ![t].pc = "io"]
        /\ UNCHANGED <<slept, told>>
     \/ /\ call[t].left > 0
        /\ ~Ready(t)
        /\ call' = [call EXCEPT ![t].left = @ - 1]
        /\ OS_DLY_TSK(t)
        /\ UNCHANGED told
  /\ UNCHANGED <<sock, host>>

(* SYS_API_ERR_AGAIN *)
Again(t) == OS_DLY_TSK(t) /\ UNCHANGED <<sock, call, host, told>>

(* The connection that accept fills in loses the descriptor that it has. *)
lwip_accept(t) ==
  /\ At(t, "io")
  /\ call[t].op = "accept"
  /\ \/ ~Ready(t) /\ Again(t)
     \/ /\ Ready(t)
        /\ ~NoFreeFd
        /\ LET conn == call[t].conn
               new == FreeFd(conn)
               taken == [host EXCEPT ![new] = Up, ![Fd(t)].pending = FALSE]
           IN /\ host' = [f \in Fds |->
                            IF f = sock[conn].fd THEN Lost ELSE taken[f]]
              /\ sock' = [sock EXCEPT ![conn].fd = new,
                                      ![conn].connected = TRUE]
              /\ told' = [told EXCEPT ![conn] = NothingTold]
        /\ Return(t)
        /\ UNCHANGED slept
     \/ /\ Ready(t)
        /\ NoFreeFd
        /\ Return(t)
        /\ UNCHANGED <<sock, slept, host, told>>

(* An error other than SYS_API_ERR_AGAIN makes lwip_recv poll again, and   *)
(* without a sleep.                                                        *)
lwip_recv(t) ==
  /\ At(t, "io")
  /\ call[t].op \in Receiving
  /\ LET f == Fd(t) o == call[t].o rest == call[t].len - call[t].done
     IN \/ ~Ready(t) /\ Again(t)
        \/ /\ IsUp(f)
           /\ \E n \in Count(rest) :
                /\ n <= host[f].in
                /\ host' = [host EXCEPT ![f].in = @ - n, ![f].got = @ + n]
                /\ sock' = [sock EXCEPT ![o].connected =
                              still_connected(n, rest)]
                /\ Advance(t, n)
           /\ UNCHANGED slept
        \/ /\ \/ host[f].st = "ended"
              \/ IsUp(f) /\ host[f].in = 0 /\ host[f].eof
           /\ sock' = [sock EXCEPT ![o].connected = still_connected(0, rest)]
           /\ Return(t)
           /\ Tell(t, call[t].done)
           /\ UNCHANGED <<slept, host>>
        \/ /\ host[f].st = "broken"
           /\ AnswersError(f)
           /\ UNCHANGED <<sock, call, slept, told>>

lwip_send(t) ==
  /\ At(t, "io")
  /\ call[t].op \in Sending
  /\ LET f == Fd(t) o == call[t].o rest == call[t].len - call[t].done
     IN \/ ~Ready(t) /\ Again(t)
        \/ /\ IsUp(f)
           /\ \E n \in Count(rest) :
                /\ n <= host[f].room
                /\ host' = [host EXCEPT ![f].room = @ - n, ![f].put = @ + n]
                /\ sock' = [sock EXCEPT ![o].connected =
                              still_connected(n, rest)]
                /\ Advance(t, n)
           /\ UNCHANGED slept
        \/ /\ host[f].st = "ended"
           /\ sock' = [sock EXCEPT ![o].connected = still_connected(0, rest)]
           /\ Return(t)
           /\ Tell(t, call[t].done)
           /\ UNCHANGED <<slept, host>>
        \/ /\ host[f].st \in {"broken", "ended"}
           /\ AnswersError(f)
           /\ Return(t)
           /\ UNCHANGED <<sock, slept, told>>

(* Polling in lwip_connect; again an unexpected error is polled at once. *)
athrill_posix_sense(t) ==
  /\ At(t, "sense")
  /\ LET h == host[Fd(t)] o == call[t].o
     IN \/ h.st = "calling" /\ Again(t)
        \/ /\ h.st \in {"up", "broken", "ended"}
           /\ sock' = [sock EXCEPT ![o].connected = TRUE]
           /\ Return(t)
           /\ UNCHANGED <<slept, host, told>>
        \/ h.st = "refused" /\ Socket_close(o) /\ Return(t) /\ UNCHANGED slept
        \/ /\ h.st = "failed"
           /\ AnswersError(Fd(t))
           /\ UNCHANGED <<sock, call, slept, told>>

Step(t) ==
  /\ Runs(t)
  /\ \/ lwip_select(t) \/ lwip_accept(t) \/ lwip_recv(t) \/ lwip_send(t)
     \/ athrill_posix_sense(t)

-----------------------------------------------------------------------------
Init ==
  /\ sock = [o \in Objects |->
               [fd |-> NoFd, connected |-> FALSE, blocking |-> TRUE]]
  /\ call = [t \in Tasks |-> Idle]
  /\ slept = {}
  /\ host = [f \in Fds |-> Closed]
  /\ told = [o \in Objects |-> NothingTold]

Next ==
  \/ \E t \in Tasks :
       \/ Step(t)
       \/ \E o \in Objects :
            \/ close(t, o) \/ set_blocking(t, o) \/ bind(t, o) \/ listen(t, o)
            \/ connect(t, o) \/ transfer(t, o)
            \/ \E conn \in Objects : accept(t, o, conn)
  \/ Tick
  \/ Peers

(* Ticks go on.  A task that sleeps for a millisecond between its polls,   *)
(* or is between two calls, lets every other run infinitely often, hence   *)
(* strong fairness for their steps.  Programs and peers promise nothing.   *)
SocketSpec ==
  /\ Init /\ [][Next]_vars
  /\ WF_vars(Tick)
  /\ \A t \in Tasks : SF_vars(Step(t))

-----------------------------------------------------------------------------
(* Properties.                                                             *)

(* Every descriptor that is open at the host belongs to exactly one socket *)
(* object, and no object holds a closed one, however methods fail, wait    *)
(* and overlap; but accept loses the descriptor that the connection had.   *)
DescriptorsOwned ==
  \A f \in Fds :
    Cardinality({o \in Objects : sock[o].fd = f}) =
      IF host[f] \in {Closed, Lost} THEN 0 ELSE 1

(* As long as a connection is not broken the results of the methods tell   *)
(* of exactly the bytes that were received and sent, whether they          *)
(* succeeded or timed out.                                                 *)
BytesToldOf ==
  \A o \in Connections :
    (sock[o].fd # NoFd /\ IsUp(sock[o].fd)) =>
      LET h == host[sock[o].fd]
          Doing(ops) == LET c == call[Owner[o]]
                        IN IF c # Idle /\ c.o = o /\ c.op \in ops
                           THEN c.done ELSE 0
      IN /\ h.got = told[o].rcv + Doing(Receiving)
         /\ h.put = told[o].snd + Doing(Sending)

(* A connection that is up is given up as no longer connected only when    *)
(* its peer has closed it and everything the peer sent has been received,  *)
(* or after a transfer of length 0.                                        *)
GivenUp(o) ==
  /\ sock[o].fd # NoFd /\ IsUp(sock[o].fd) /\ ~sock[o].connected
  /\ ~\E t \in Tasks : At(t, "sense") /\ call[t].o = o

AtEnd(f) == host[f].eof /\ host[f].in = 0

EndOfStream ==
  \A o \in Connections :
    GivenUp(o) /\ ~told[o].zero => AtEnd(sock[o].fd)

(* Task t, or one of higher priority, polls a descriptor that answers with *)
(* an error, again and again and without a sleep.                          *)
Failing(t) ==
  \/ /\ At(t, "io") /\ call[t].op \in Receiving
     /\ host[Fd(t)].st = "broken"
  \/ At(t, "sense") /\ host[Fd(t)].st = "failed"

Stuck(t) ==
  \E u \in Tasks : (u = t \/ Prio[u] < Prio[t]) /\ Failing(u)

(* A method of a socket that is not blocking ends, whatever the peers and  *)
(* the other tasks do, unless an error is polled for ever.                 *)
NonBlockingEnds ==
  \A t \in Tasks :
    (call[t] # Idle /\ call[t].op # "connect" /\ ~sock[call[t].o].blocking)
      ~> (call[t] = Idle \/ Stuck(t))

(* A call that the host is ready for gets what it waits for, though tasks  *)
(* of higher priority keep polling for theirs.                             *)
ReadyIsServed ==
  \A t \in Tasks :
    LET Waits == (At(t, "io") \/ At(t, "sense")) /\ Ready(t)
    IN Waits ~> (~Waits \/ Stuck(t))

(* What TCPSocketConnection.h says of receive and receive_all, and the     *)
(* comment in receive_all: on a connection error they return, with -1.     *)
(* Violated: lwip_recv goes on polling.                                    *)
ErrorsReturned ==
  [][\A t \in Tasks :
       At(t, "io") /\ call[t].op \in Receiving
         /\ host[Fd(t)].st = "broken" /\ lwip_recv(t)
       => call'[t] = Idle]_vars

=============================================================================
