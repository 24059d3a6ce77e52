---------------------------- MODULE SocketProofs ----------------------------
(* Sockets own the host's descriptors, for any tasks, objects, descriptors *)
(* and timeouts.  The invariant that is inductive says besides of a task   *)
(* in a method that it works on sockets of its own, and that the one whose *)
(* method it is has a descriptor.  The second invariant, CInv, builds on   *)
(* it: it says what the host has counted for a connection, by the state of *)
(* the connection and of its owner.                                        *)
EXTENDS Socket, FiniteSetTheorems, TLAPS

Member == [fd : Fds \cup {NoFd}, connected : BOOLEAN, blocking : BOOLEAN]

ListeningState == [st : {"listening"}, pending : BOOLEAN]
UpState == [st : {"up"}, in : Int, got : Int, eof : BOOLEAN, room : Int,
            put : Int]
OtherState ==
  [st : {"bound", "calling", "refused", "failed", "broken", "ended"}]
OpenState == ListeningState \cup UpState \cup OtherState

(* A descriptor that no object may hold. *)
Gone == {Closed, Lost}

Connecting == [op : {"connect"}, o : Objects, pc : {"sense"}]
Waiting ==
  [op : Transfers \cup {"accept"}, o : Objects, len : Int, conn : Objects,
   done : Int, pc : {"select", "io"}, left : Int]

TypeOK ==
  /\ sock \in [Objects -> Member]
  /\ host \in [Fds -> OpenState \cup Gone]
  /\ call \in [Tasks -> Connecting \cup Waiting \cup {Idle}]

Owned ==
  /\ \A o, p \in Objects : sock[o].fd = sock[p].fd /\ o # p
                             => sock[o].fd = NoFd
  /\ \A f \in Fds : host[f] \notin Gone <=> \E o \in Objects : sock[o].fd = f

InMethod ==
  \A t \in Tasks : call[t] # Idle =>
    /\ Owner[call[t].o] = t
    /\ sock[call[t].o].fd # NoFd
    /\ call[t].op = "accept" => Owner[call[t].conn] = t

IInv == TypeOK /\ Owned /\ InMethod

-----------------------------------------------------------------------------
(* An open descriptor is not a closed one, nor a lost one; an idle task is *)
(* in no method.                                                           *)
LEMMA OpenNotGone == \A h \in OpenState : h \notin Gone
BY DEF Gone, Closed, Lost, OpenState, ListeningState, UpState, OtherState

LEMMA BusyNotIdle == Idle \notin Connecting \cup Waiting
BY DEF Idle, Connecting, Waiting, Transfers, Receiving, Sending

(* The descriptor that the host gives is closed, if one is.                *)
LEMMA FreeFdClosed ==
  ASSUME NEW o \in Objects, ~NoFreeFd
  PROVE  /\ FreeFd(o) \in Fds
         /\ host[FreeFd(o)] = Closed
         /\ host[FreeFd(o)] \in Gone
<1> DEFINE Free(f) == /\ host[f] = Closed
                      /\ host[UsualFd[o]] = Closed => f = UsualFd[o]
<1>1. \E f \in Fds : Free(f)
  BY SocketAssumption DEF NoFreeFd, SocketAssumption
<1>2. FreeFd(o) \in Fds /\ Free(FreeFd(o))
  BY <1>1 DEF FreeFd
<1> QED BY <1>2 DEF Gone

(* The inductive invariant implies DescriptorsOwned: a set of one object,  *)
(* or of none.                                                             *)
LEMMA OwnedImplies ==
  ASSUME IInv
  PROVE  DescriptorsOwned
<1> SUFFICES ASSUME NEW f \in Fds
             PROVE  Cardinality({o \in Objects : sock[o].fd = f}) =
                      IF host[f] \in Gone THEN 0 ELSE 1
  BY DEF DescriptorsOwned, Gone
<1> USE SocketAssumption DEF SocketAssumption, IInv, Owned
<1>1. CASE host[f] \in Gone
  <2>1. {o \in Objects : sock[o].fd = f} = {}
    BY <1>1
  <2> QED BY <1>1, <2>1, FS_EmptySet
<1>2. CASE host[f] \notin Gone
  <2>1. PICK o \in Objects : sock[o].fd = f
    BY <1>2
  <2>2. \A p \in Objects : sock[p].fd = f => p = o
    BY <2>1
  <2>3. {p \in Objects : sock[p].fd = f} = {o}
    BY <2>1, <2>2
  <2> QED BY <1>2, <2>3, FS_Singleton
<1> QED BY <1>1, <1>2

(* Initially nothing is open and no task is in a method.                   *)
LEMMA InitIInv == Init => IInv
<1> SUFFICES ASSUME Init PROVE IInv
  OBVIOUS
<1> USE SocketAssumption DEF SocketAssumption, Init
<1>1. TypeOK
  BY DEF TypeOK, Member, Gone
<1>2. Owned
  BY DEF Owned, Gone
<1>3. InMethod
  BY DEF InMethod
<1> QED BY <1>1, <1>2, <1>3 DEF IInv

-----------------------------------------------------------------------------
(* The three ways in which a step treats descriptors.                      *)

(* It opens and closes none. *)
LEMMA KeepOwned ==
  ASSUME Owned,
         \A o \in Objects : sock'[o].fd = sock[o].fd,
         \A f \in Fds : host'[f] \in Gone <=> host[f] \in Gone
  PROVE  Owned'
BY DEF Owned

(* An object gets a descriptor that was closed; the one that it had, if it *)
(* had one, is lost.                                                       *)
LEMMA TakeOwned ==
  ASSUME Owned, NEW o \in Objects, NEW g \in Fds, host[g] \in Gone,
         sock'[o].fd = g, host'[g] \notin Gone,
         \A p \in Objects : p # o => sock'[p].fd = sock[p].fd,
         sock[o].fd \in Fds => host'[sock[o].fd] \in Gone,
         \A f \in Fds : f \notin {g, sock[o].fd}
                         => (host'[f] \in Gone <=> host[f] \in Gone)
  PROVE  Owned'
<1> USE SocketAssumption DEF SocketAssumption, Owned
<1>1. \A p \in Objects : sock[p].fd # g
  OBVIOUS
<1>2. \A p, q \in Objects : sock'[p].fd = sock'[q].fd /\ p # q
                              => sock'[p].fd = NoFd
  BY <1>1
<1>3. \A f \in Fds : host'[f] \notin Gone <=> \E p \in Objects : sock'[p].fd = f
  <2> TAKE f \in Fds
  <2>1. CASE f = g
    BY <2>1
  <2>2. CASE f = sock[o].fd
    <3>1. f # g
      BY <1>1, <2>2
    <3>2. \A p \in Objects : sock'[p].fd # f
      BY <2>2, <3>1
    <3> QED BY <2>2, <3>2
  <2>3. CASE f # g /\ f # sock[o].fd
    BY <2>3
  <2> QED BY <2>1, <2>2, <2>3
<1> QED BY <1>2, <1>3

(* An object gives up its descriptor, which is closed. *)
LEMMA GiveOwned ==
  ASSUME Owned, NEW o \in Objects, sock[o].fd \in Fds,
         sock'[o].fd = NoFd, host'[sock[o].fd] \in Gone,
         \A p \in Objects : p # o => sock'[p].fd = sock[p].fd,
         \A f \in Fds : f # sock[o].fd => host'[f] = host[f]
  PROVE  Owned'
<1> USE SocketAssumption DEF SocketAssumption, Owned
<1>1. \A p, q \in Objects : sock'[p].fd = sock'[q].fd /\ p # q
                              => sock'[p].fd = NoFd
  OBVIOUS
<1>2. \A f \in Fds : host'[f] \notin Gone <=> \E p \in Objects : sock'[p].fd = f
  <2> TAKE f \in Fds
  <2>1. CASE f = sock[o].fd
    BY <2>1
  <2>2. CASE f # sock[o].fd
    BY <2>2
  <2> QED BY <2>1, <2>2
<1> QED BY <1>1, <1>2

(* A step of task t that leaves the objects and calls of the others alone  *)
(* keeps InMethod if it keeps it for t.                                    *)
LEMMA KeepInMethod ==
  ASSUME TypeOK, InMethod, NEW t \in Tasks,
         \A p \in Objects : Owner[p] # t => sock'[p].fd = sock[p].fd,
         \A u \in Tasks : u # t => call'[u] = call[u],
         call'[t] # Idle =>
           /\ Owner[call'[t].o] = t
           /\ sock'[call'[t].o].fd # NoFd
           /\ call'[t].op = "accept" => Owner[call'[t].conn] = t
  PROVE  InMethod'
<1> SUFFICES ASSUME NEW u \in Tasks, call'[u] # Idle
             PROVE  /\ Owner[call'[u].o] = u
                    /\ sock'[call'[u].o].fd # NoFd
                    /\ call'[u].op = "accept" => Owner[call'[u].conn] = u
  BY DEF InMethod
<1>1. CASE u = t
  BY <1>1
<1>2. CASE u # t
  <2>1. call[u] \in Connecting \cup Waiting
    BY <1>2 DEF TypeOK
  <2>2. call[u].o \in Objects
    BY <2>1 DEF Connecting, Waiting
  <2>3. call[u].op = "accept" => call[u].conn \in Objects
    BY <2>1 DEF Connecting, Waiting
  <2> QED BY <1>2, <2>2, <2>3 DEF InMethod
<1> QED BY <1>1, <1>2

-----------------------------------------------------------------------------
(* Methods of a task between two calls.                                    *)

LEMMA CloseIInv ==
  ASSUME IInv, NEW t \in Tasks, NEW o \in Objects, close(t, o)
  PROVE  IInv'
<1> USE SocketAssumption DEF SocketAssumption, IInv, close, Socket_close, Calls
<1>1. TypeOK'
  BY DEF TypeOK, Member, Gone
<1>2. sock[o].fd \in Fds
  BY DEF TypeOK, Member
<1>3. Owned'
  <2>1. /\ sock'[o].fd = NoFd
        /\ \A p \in Objects : p # o => sock'[p].fd = sock[p].fd
    BY DEF TypeOK, Member
  <2>2. /\ host'[sock[o].fd] \in Gone
        /\ \A f \in Fds : f # sock[o].fd => host'[f] = host[f]
    BY <1>2 DEF TypeOK, Gone
  <2> QED BY <1>2, <2>1, <2>2, GiveOwned
<1>4. InMethod'
  <2>1. \A p \in Objects : Owner[p] # t => sock'[p].fd = sock[p].fd
    BY DEF TypeOK, Member
  <2> QED BY <2>1, KeepInMethod
<1> QED BY <1>1, <1>3, <1>4

LEMMA SetBlockingIInv ==
  ASSUME IInv, NEW t \in Tasks, NEW o \in Objects, set_blocking(t, o)
  PROVE  IInv'
<1> USE SocketAssumption DEF SocketAssumption, IInv, set_blocking, Calls
<1>1. TypeOK'
  BY ZenonT(40) DEF TypeOK, Member
<1>2. \A p \in Objects : sock'[p].fd = sock[p].fd
  BY DEF TypeOK, Member
<1>3. Owned'
  BY <1>2, KeepOwned
<1>4. InMethod'
  BY <1>2, KeepInMethod
<1> QED BY <1>1, <1>3, <1>4

LEMMA BindIInv ==
  ASSUME IInv, NEW t \in Tasks, NEW o \in Objects, bind(t, o)
  PROVE  IInv'
<1> USE SocketAssumption DEF SocketAssumption, IInv, bind, init_socket, Calls
<1>1. FreeFd(o) \in Fds /\ host[FreeFd(o)] \in Gone
  BY FreeFdClosed
<1>2. [st |-> "bound"] \in OpenState
  BY DEF OpenState, OtherState
<1>3. TypeOK'
  BY <1>1, <1>2 DEF TypeOK, Member
<1>4. /\ sock'[o].fd = FreeFd(o)
      /\ \A p \in Objects : p # o => sock'[p].fd = sock[p].fd
  BY DEF TypeOK, Member
<1>5. Owned'
  <2>1. /\ host'[FreeFd(o)] \notin Gone
        /\ \A f \in Fds : f # FreeFd(o) => host'[f] = host[f]
    BY <1>1, <1>2, OpenNotGone DEF TypeOK
  <2> QED BY <1>1, <1>4, <2>1, TakeOwned
<1>6. InMethod'
  BY <1>4, KeepInMethod
<1> QED BY <1>3, <1>5, <1>6

LEMMA ListenIInv ==
  ASSUME IInv, NEW t \in Tasks, NEW o \in Objects, listen(t, o)
  PROVE  IInv'
<1> USE SocketAssumption DEF SocketAssumption, IInv, listen, Calls
<1>1. sock[o].fd \in Fds
  BY DEF TypeOK, Member
<1>2. CASE host' = [host EXCEPT ![sock[o].fd] = Listening] /\ UNCHANGED sock
  <2>1. Listening \in OpenState
    BY DEF Listening, OpenState, ListeningState
  <2>2. host[sock[o].fd] \notin Gone
    BY DEF Gone, Closed, Lost
  <2>3. TypeOK'
    BY <1>1, <1>2, <2>1 DEF TypeOK
  <2>4. \A f \in Fds : host'[f] \in Gone <=> host[f] \in Gone
    BY <1>1, <1>2, <2>1, <2>2, OpenNotGone DEF TypeOK
  <2>5. Owned'
    BY <1>2, <2>4, KeepOwned
  <2>6. InMethod'
    BY <1>2, KeepInMethod
  <2> QED BY <2>3, <2>5, <2>6
<1>3. CASE Socket_close(o)
  <2>1. close(t, o)
    BY <1>3 DEF close
  <2> QED BY <2>1, CloseIInv
<1> QED BY <1>2, <1>3

LEMMA ConnectIInv ==
  ASSUME IInv, NEW t \in Tasks, NEW o \in Objects, connect(t, o)
  PROVE  IInv'
<1> USE SocketAssumption DEF SocketAssumption, IInv, connect, init_socket, Calls
<1>1. FreeFd(o) \in Fds /\ host[FreeFd(o)] \in Gone
  BY FreeFdClosed
<1>2. PICK h \in OpenState : host' = [host EXCEPT ![FreeFd(o)] = h]
  <2>1. Up \in OpenState /\ [st |-> "calling"] \in OpenState
    BY DEF OpenState, UpState, OtherState, Up
  <2>2. \/ host' = [host EXCEPT ![FreeFd(o)] = Up]
        \/ host' = [host EXCEPT ![FreeFd(o)] = [st |-> "calling"]]
    OBVIOUS
  <2> QED BY <2>1, <2>2
<1>3. /\ sock' \in [Objects -> Member]
      /\ sock'[o].fd = FreeFd(o)
      /\ \A p \in Objects : p # o => sock'[p].fd = sock[p].fd
  BY <1>1 DEF TypeOK, Member
<1>4. \/ UNCHANGED call
      \/ call' = [call EXCEPT ![t] =
                    [op |-> "connect", o |-> o, pc |-> "sense"]]
  OBVIOUS
<1>5. TypeOK'
  BY <1>1, <1>2, <1>3, <1>4 DEF TypeOK, Connecting
<1>6. Owned'
  <2>1. /\ host'[FreeFd(o)] \notin Gone
        /\ \A f \in Fds : f # FreeFd(o) => host'[f] = host[f]
    BY <1>1, <1>2, OpenNotGone DEF TypeOK
  <2> QED BY <1>1, <1>3, <2>1, TakeOwned
<1>7. InMethod'
  <2>1. \A u \in Tasks : u # t => call'[u] = call[u]
    BY <1>4 DEF TypeOK
  <2>2. call'[t] # Idle => call'[t].o = o /\ call'[t].op = "connect"
    BY <1>4 DEF TypeOK
  <2> QED BY <1>1, <1>3, <2>1, <2>2, KeepInMethod
<1> QED BY <1>5, <1>6, <1>7

LEMMA TransferIInv ==
  ASSUME IInv, NEW t \in Tasks, NEW o \in Objects, transfer(t, o)
  PROVE  IInv'
<1> USE SocketAssumption DEF SocketAssumption, IInv, transfer, Calls
<1>1. PICK op \in Transfers, len \in 0..MaxLen : Begin(t, op, o, len, o)
  OBVIOUS
<1>2. call' = [call EXCEPT ![t] =
        [op |-> op, o |-> o, len |-> len, conn |-> o, done |-> 0,
         pc |-> if_not_blocking(o), left |-> Polls]]
  BY <1>1 DEF Begin
<1>3. if_not_blocking(o) \in {"select", "io"}
  BY DEF if_not_blocking
<1>4. TypeOK'
  BY <1>2, <1>3 DEF TypeOK, Waiting
<1>5. Owned'
  BY KeepOwned
<1>6. InMethod'
  <2>1. call'[t].o = o /\ call'[t].op # "accept"
    BY <1>2 DEF TypeOK, Transfers, Receiving, Sending
  <2>2. \A u \in Tasks : u # t => call'[u] = call[u]
    BY <1>2 DEF TypeOK
  <2> QED BY <2>1, <2>2, KeepInMethod
<1> QED BY <1>4, <1>5, <1>6

LEMMA AcceptIInv ==
  ASSUME IInv, NEW t \in Tasks, NEW o \in Objects, NEW conn \in Objects,
         accept(t, o, conn)
  PROVE  IInv'
<1> USE SocketAssumption DEF SocketAssumption, IInv, accept, Calls
<1>2. call' = [call EXCEPT ![t] =
        [op |-> "accept", o |-> o, len |-> 0, conn |-> conn, done |-> 0,
         pc |-> if_not_blocking(o), left |-> Polls]]
  BY DEF Begin
<1>3. if_not_blocking(o) \in {"select", "io"}
  BY DEF if_not_blocking
<1>4. TypeOK'
  BY <1>2, <1>3 DEF TypeOK, Waiting
<1>5. Owned'
  BY KeepOwned
<1>6. InMethod'
  <2>1. call'[t].o = o /\ call'[t].conn = conn
    BY <1>2 DEF TypeOK
  <2>2. \A u \in Tasks : u # t => call'[u] = call[u]
    BY <1>2 DEF TypeOK
  <2> QED BY <2>1, <2>2, KeepInMethod
<1> QED BY <1>4, <1>5, <1>6

-----------------------------------------------------------------------------
(* What a task does in a method that may have to wait.                     *)

(* A task that returns is in no method; one that goes on is in the same.   *)
LEMMA GoOnInMethod ==
  ASSUME TypeOK, InMethod, NEW t \in Tasks, call[t] # Idle,
         \A p \in Objects : sock'[p].fd = sock[p].fd,
         \/ Return(t)
         \/ \E c \in Waiting :
              /\ c.o = call[t].o /\ c.op = call[t].op
              /\ c.op = "accept" => c.conn = call[t].conn
              /\ call' = [call EXCEPT ![t] = c]
         \/ UNCHANGED call
  PROVE  InMethod' /\ call' \in [Tasks -> Connecting \cup Waiting \cup {Idle}]
<1>1. call[t] \in Connecting \cup Waiting
  BY DEF TypeOK
<1>2. call[t].o \in Objects /\ (call[t].op = "accept" => call[t].conn \in Objects)
  BY <1>1 DEF Connecting, Waiting
<1>3. CASE Return(t)
  BY <1>3, KeepInMethod DEF Return, TypeOK
<1>4. CASE UNCHANGED call
  BY <1>2, <1>4, KeepInMethod DEF TypeOK, InMethod
<1>5. ASSUME NEW c \in Waiting,
             c.o = call[t].o /\ c.op = call[t].op,
             c.op = "accept" => c.conn = call[t].conn,
             call' = [call EXCEPT ![t] = c]
      PROVE  InMethod' /\ call' \in [Tasks -> Connecting \cup Waiting \cup {Idle}]
  <2>1. call'[t] = c /\ \A u \in Tasks : u # t => call'[u] = call[u]
    BY <1>5 DEF TypeOK
  <2>2. /\ Owner[c.o] = t
        /\ sock'[c.o].fd # NoFd
        /\ c.op = "accept" => Owner[c.conn] = t
    BY <1>2, <1>5 DEF InMethod
  <2>3. InMethod'
    BY <2>1, <2>2, KeepInMethod
  <2> QED BY <2>3, <1>5 DEF TypeOK
<1> QED BY <1>3, <1>4, <1>5

LEMMA SelectIInv ==
  ASSUME IInv, NEW t \in Tasks, lwip_select(t)
  PROVE  IInv'
<1> USE SocketAssumption DEF SocketAssumption, IInv, lwip_select, At
<1>1. call[t] \in Waiting
  BY DEF TypeOK, Connecting
<1>2. \/ Return(t)
      \/ \E c \in Waiting :
           /\ c.o = call[t].o /\ c.op = call[t].op
           /\ c.op = "accept" => c.conn = call[t].conn
           /\ call' = [call EXCEPT ![t] = c]
  <2>1. CASE timed_out(t)
    BY <2>1 DEF timed_out
  <2>2. CASE call' = [call EXCEPT ![t].pc = "io"]
    <3> DEFINE c == [call[t] EXCEPT !.pc = "io"]
    <3>1. /\ c \in Waiting /\ c.o = call[t].o /\ c.op = call[t].op
          /\ c.conn = call[t].conn
      BY <1>1 DEF Waiting
    <3>2. call' = [call EXCEPT ![t] = c]
      BY <2>2 DEF TypeOK
    <3> QED BY <3>1, <3>2
  <2>3. CASE call' = [call EXCEPT ![t].left = @ - 1]
    <3> DEFINE c == [call[t] EXCEPT !.left = @ - 1]
    <3>1. /\ c \in Waiting /\ c.o = call[t].o /\ c.op = call[t].op
          /\ c.conn = call[t].conn
      BY <1>1 DEF Waiting
    <3>2. call' = [call EXCEPT ![t] = c]
      BY <2>3 DEF TypeOK
    <3> QED BY <3>1, <3>2
  <2> QED BY <2>1, <2>2, <2>3
<1>3. InMethod' /\ call' \in [Tasks -> Connecting \cup Waiting \cup {Idle}]
  BY <1>2, GoOnInMethod
<1>4. TypeOK'
  BY <1>3 DEF TypeOK
<1>5. Owned'
  BY KeepOwned
<1> QED BY <1>3, <1>4, <1>5

LEMMA AgainIInv ==
  ASSUME IInv, NEW t \in Tasks, Again(t)
  PROVE  IInv'
<1> USE DEF IInv, Again
<1>1. TypeOK'
  BY DEF TypeOK
<1>2. Owned'
  BY DEF Owned
<1>3. InMethod'
  BY DEF InMethod
<1> QED BY <1>1, <1>2, <1>3

(* The descriptor of a task in a method is open. *)
LEMMA FdOpen ==
  ASSUME IInv, NEW t \in Tasks, call[t] # Idle
  PROVE  /\ call[t].o \in Objects
         /\ Fd(t) \in Fds
         /\ host[Fd(t)] \in OpenState
<1> USE SocketAssumption DEF SocketAssumption, IInv
<1>1. call[t] \in Connecting \cup Waiting
  BY DEF TypeOK
<1>2. call[t].o \in Objects
  BY <1>1 DEF Connecting, Waiting
<1>3. Fd(t) \in Fds
  BY <1>2 DEF Fd, InMethod, TypeOK, Member
<1>4. host[Fd(t)] \notin Gone
  BY <1>2, <1>3 DEF Owned, Fd
<1> QED BY <1>2, <1>3, <1>4 DEF TypeOK

(* A step that changes the state of an open descriptor to another open one *)
(* and no object's descriptor.                                             *)
LEMMA OpenStays ==
  ASSUME IInv, NEW f \in Fds, host[f] \in OpenState,
         NEW h \in OpenState, host' = [host EXCEPT ![f] = h],
         \A o \in Objects : sock'[o].fd = sock[o].fd
  PROVE  Owned' /\ host' \in [Fds -> OpenState \cup Gone]
<1> USE DEF IInv
<1>1. host' \in [Fds -> OpenState \cup Gone]
  BY DEF TypeOK
<1>2. \A g \in Fds : host'[g] \in Gone <=> host[g] \in Gone
  BY OpenNotGone DEF TypeOK
<1> QED BY <1>1, <1>2, KeepOwned

(* n bytes more are transferred: the task goes on or returns.              *)
LEMMA AdvanceInMethod ==
  ASSUME IInv, NEW t \in Tasks, call[t] \in Waiting, call[t].op # "accept",
         NEW n \in Int, Advance(t, n),
         \A p \in Objects : sock'[p].fd = sock[p].fd
  PROVE  InMethod' /\ call' \in [Tasks -> Connecting \cup Waiting \cup {Idle}]
<1> USE DEF IInv
<1>1. call[t] # Idle
  BY BusyNotIdle
<1>2. CASE Return(t)
  BY <1>1, <1>2, GoOnInMethod
<1>3. CASE ~Return(t)
  <2>1. PICK b \in Waiting : b = call[t]
    OBVIOUS
  <2>2. PICK d \in Int : d = call[t].done + n
    BY DEF Waiting
  <2>3. PICK l \in Int : l = Polls
    BY SocketAssumption DEF SocketAssumption
  <2>4. PICK pc \in {"select", "io"} : pc = if_not_blocking(call[t].o)
    BY DEF if_not_blocking
  <2> DEFINE c == [b EXCEPT !.done = d, !.left = l, !.pc = pc]
  <2>5. c \in Waiting /\ c.o = b.o /\ c.op = b.op /\ c.conn = b.conn
    <3>1. c \in Waiting
      BY ONLY DEF Waiting
    <3>2. c.o = b.o /\ c.op = b.op
      BY ONLY DEF Waiting
    <3>3. c.conn = b.conn
      BY ONLY DEF Waiting
    <3> QED BY <3>1, <3>2, <3>3
  <2>6. call' = [call EXCEPT ![t] = c]
    <3>1. call' = [call EXCEPT ![t] =
                    [call[t] EXCEPT !.done = call[t].done + n, !.left = Polls,
                                    !.pc = if_not_blocking(call[t].o)]]
      BY <1>3 DEF Advance
    <3> QED BY <2>1, <2>2, <2>3, <2>4, <3>1
  <2> HIDE DEF c
  <2> QED BY <1>1, <2>1, <2>5, <2>6, GoOnInMethod
<1> QED BY <1>2, <1>3

(* The host's answer to a poll is an error. *)
LEMMA AnswersErrorOwned ==
  ASSUME IInv, NEW f \in Fds, host[f] \in OpenState, AnswersError(f),
         UNCHANGED sock
  PROVE  Owned' /\ host' \in [Fds -> OpenState \cup Gone]
<1>1. CASE UNCHANGED host
  BY <1>1, KeepOwned DEF IInv, TypeOK
<1>2. CASE host' = [host EXCEPT ![f] = [st |-> "ended"]]
  <2>1. [st |-> "ended"] \in OpenState
    BY DEF OpenState, OtherState
  <2> QED BY <1>2, <2>1, OpenStays
<1> QED BY <1>1, <1>2 DEF AnswersError

LEMMA AcceptStepIInv ==
  ASSUME IInv, NEW t \in Tasks, lwip_accept(t)
  PROVE  IInv'
<1> USE SocketAssumption DEF SocketAssumption, IInv, lwip_accept, At
<1>1. call[t] \in Waiting /\ call[t].conn \in Objects
  BY DEF TypeOK, Connecting, Waiting
<1>2. /\ Fd(t) \in Fds /\ host[Fd(t)] \in OpenState
      /\ Owner[call[t].conn] = t
  BY <1>1, FdOpen DEF InMethod
<1>3. CASE Again(t)
  BY <1>3, AgainIInv
<1>4. CASE Return(t) /\ UNCHANGED <<sock, host>>
  <2>1. InMethod' /\ call' \in [Tasks -> Connecting \cup Waiting \cup {Idle}]
    BY <1>4, GoOnInMethod
  <2>2. Owned'
    BY <1>4, KeepOwned
  <2> QED BY <1>4, <2>1, <2>2 DEF TypeOK
<1> DEFINE conn == call[t].conn
           taken == [host EXCEPT ![FreeFd(conn)] = Up, ![Fd(t)].pending = FALSE]
           h == [host[Fd(t)] EXCEPT !.pending = FALSE]
<1>5. ASSUME Ready(t), ~NoFreeFd,
             host' = [f \in Fds |-> IF f = sock[conn].fd THEN Lost ELSE taken[f]],
             sock' = [sock EXCEPT ![conn].fd = FreeFd(conn), ![conn].connected = TRUE],
             Return(t)
      PROVE  IInv'
  <2>1. FreeFd(conn) \in Fds /\ host[FreeFd(conn)] \in Gone /\ FreeFd(conn) # Fd(t)
    BY <1>1, <1>2, <1>5, FreeFdClosed, OpenNotGone
  <2>2. Up \in OpenState /\ Lost \in Gone
    BY DEF OpenState, UpState, Up, Gone
  <2>3. h \in OpenState
    <3>1. CASE host[Fd(t)] \in ListeningState
      BY <3>1 DEF OpenState, ListeningState
    <3>2. CASE host[Fd(t)] \in UpState
      BY <3>2 DEF OpenState, UpState
    <3>3. CASE host[Fd(t)] \in OtherState
      BY <3>3 DEF OpenState, OtherState
    <3> QED BY <1>2, <3>1, <3>2, <3>3 DEF OpenState
  <2>4. /\ taken[FreeFd(conn)] = Up
        /\ taken[Fd(t)] = h
        /\ \A f \in Fds \ {FreeFd(conn), Fd(t)} : taken[f] = host[f]
    BY <1>2, <2>1 DEF TypeOK
  <2> HIDE DEF taken, h
  <2>5. sock[conn].fd # FreeFd(conn)
    BY <1>1, <2>1 DEF Owned
  <2>6. /\ host'[FreeFd(conn)] = Up
        /\ sock[conn].fd \in Fds => host'[sock[conn].fd] = Lost
        /\ \A f \in Fds \ {FreeFd(conn), sock[conn].fd} :
             host'[f] = host[f] \/ (f = Fd(t) /\ host'[f] = h)
    BY <1>5, <2>1, <2>4, <2>5
  <2>7. host' \in [Fds -> OpenState \cup Gone]
    <3>1. \A f \in Fds : host'[f] \in OpenState \cup Gone
      BY <2>2, <2>3, <2>6 DEF TypeOK
    <3> QED BY <1>5, <3>1
  <2>8. /\ sock' \in [Objects -> Member]
        /\ sock'[conn].fd = FreeFd(conn)
        /\ \A p \in Objects : p # conn => sock'[p].fd = sock[p].fd
    BY <1>1, <1>5, <2>1 DEF TypeOK, Member
  <2>9. Owned'
    <3>1. \A f \in Fds : f \notin {FreeFd(conn), sock[conn].fd}
                         => (host'[f] \in Gone <=> host[f] \in Gone)
      BY <1>2, <2>3, <2>6, OpenNotGone
    <3>2. host'[FreeFd(conn)] \notin Gone
      BY <2>2, <2>6, OpenNotGone
    <3>3. sock[conn].fd \in Fds => host'[sock[conn].fd] \in Gone
      BY <2>2, <2>6
    <3> QED BY <1>1, <2>1, <2>8, <3>1, <3>2, <3>3, TakeOwned
  <2>10. /\ call' \in [Tasks -> Connecting \cup Waiting \cup {Idle}]
         /\ call'[t] = Idle
         /\ \A u \in Tasks : u # t => call'[u] = call[u]
    BY <1>5 DEF Return, TypeOK
  <2>11. InMethod'
    BY <1>2, <2>8, <2>10, KeepInMethod
  <2> QED BY <2>7, <2>8, <2>9, <2>10, <2>11 DEF TypeOK
<1> QED BY <1>3, <1>4, <1>5

LEMMA RecvIInv ==
  ASSUME IInv, NEW t \in Tasks, lwip_recv(t)
  PROVE  IInv'
<1> USE DEF IInv, lwip_recv, At
<1> DEFINE f == Fd(t)
           o == call[t].o
<1>1. call[t] # Idle /\ call[t] \in Waiting /\ call[t].op # "accept"
  BY DEF TypeOK, Connecting, Waiting, Receiving
<1>2. o \in Objects /\ f \in Fds /\ host[f] \in OpenState /\ f = sock[o].fd
  BY <1>1, FdOpen DEF Fd
<1>3. ASSUME NEW b \in BOOLEAN, sock' = [sock EXCEPT ![o].connected = b]
      PROVE  /\ sock' \in [Objects -> Member]
             /\ \A p \in Objects : sock'[p].fd = sock[p].fd
  BY <1>2, <1>3 DEF TypeOK, Member
<1>4. CASE Again(t)
  BY <1>4, AgainIInv
<1>5. ASSUME IsUp(f), NEW n \in Count(call[t].len - call[t].done),
             host' = [host EXCEPT ![f].in = @ - n, ![f].got = @ + n],
             sock' = [sock EXCEPT ![o].connected =
                        still_connected(n, call[t].len - call[t].done)],
             Advance(t, n)
      PROVE  IInv'
  <2>1. /\ sock' \in [Objects -> Member]
        /\ \A p \in Objects : sock'[p].fd = sock[p].fd
    BY <1>3, <1>5 DEF still_connected
  <2>2. n \in Int
    BY <1>1, <1>5 DEF Waiting, Count
  <2>3. InMethod' /\ call' \in [Tasks -> Connecting \cup Waiting \cup {Idle}]
    BY <1>1, <1>5, <2>1, <2>2, AdvanceInMethod
  <2>4. Owned' /\ host' \in [Fds -> OpenState \cup Gone]
    <3>1. host[f] \in UpState
      BY <1>2, <1>5 DEF IsUp, OpenState, ListeningState, OtherState
    <3> DEFINE h == [host[f] EXCEPT !.in = @ - n, !.got = @ + n]
    <3>2. h \in OpenState
      <4>1. PICK x \in UpState : x = host[f]
        BY <3>1
      <4>2. PICK i \in Int : i = x.in - n
        BY <2>2 DEF UpState
      <4>3. PICK j \in Int : j = x.got + n
        BY <2>2 DEF UpState
      <4>4. [x EXCEPT !.in = i, !.got = j] \in UpState
        BY ONLY DEF UpState
      <4> QED BY <4>1, <4>2, <4>3, <4>4 DEF OpenState
    <3>3. host' = [host EXCEPT ![f] = h]
      BY <1>2, <1>5 DEF TypeOK
    <3> HIDE DEF f, h
    <3> QED BY <1>2, <2>1, <3>2, <3>3, OpenStays
  <2> QED BY <2>1, <2>3, <2>4 DEF TypeOK
<1>6. ASSUME sock' = [sock EXCEPT ![o].connected =
                        still_connected(0, call[t].len - call[t].done)],
             Return(t), UNCHANGED host
      PROVE  IInv'
  <2>1. /\ sock' \in [Objects -> Member]
        /\ \A p \in Objects : sock'[p].fd = sock[p].fd
    BY <1>3, <1>6 DEF still_connected
  <2>2. InMethod' /\ call' \in [Tasks -> Connecting \cup Waiting \cup {Idle}]
    BY <1>1, <1>6, <2>1, GoOnInMethod
  <2>3. Owned'
    BY <1>6, <2>1, KeepOwned
  <2> QED BY <1>6, <2>1, <2>2, <2>3 DEF TypeOK
<1>7. ASSUME AnswersError(f), UNCHANGED <<sock, call>>
      PROVE  IInv'
  <2>1. Owned' /\ host' \in [Fds -> OpenState \cup Gone]
    BY <1>2, <1>7, AnswersErrorOwned
  <2> QED BY <1>7, <2>1 DEF TypeOK, InMethod
<1> QED BY <1>4, <1>5, <1>6, <1>7

LEMMA SendIInv ==
  ASSUME IInv, NEW t \in Tasks, lwip_send(t)
  PROVE  IInv'
<1> USE DEF IInv, lwip_send, At
<1> DEFINE f == Fd(t)
           o == call[t].o
<1>1. call[t] # Idle /\ call[t] \in Waiting /\ call[t].op # "accept"
  BY DEF TypeOK, Connecting, Waiting, Sending
<1>2. o \in Objects /\ f \in Fds /\ host[f] \in OpenState
  BY <1>1, FdOpen
<1>6. ASSUME NEW b \in BOOLEAN, sock' = [sock EXCEPT ![o].connected = b]
      PROVE  /\ sock' \in [Objects -> Member]
             /\ \A p \in Objects : sock'[p].fd = sock[p].fd
  BY <1>2, <1>6 DEF TypeOK, Member
<1>3. CASE Again(t)
  BY <1>3, AgainIInv
<1>4. ASSUME IsUp(f), NEW n \in Count(call[t].len - call[t].done),
             host' = [host EXCEPT ![f].room = @ - n, ![f].put = @ + n],
             sock' = [sock EXCEPT ![o].connected =
                        still_connected(n, call[t].len - call[t].done)],
             Advance(t, n)
      PROVE  IInv'
  <2>0. /\ sock' \in [Objects -> Member]
        /\ \A p \in Objects : sock'[p].fd = sock[p].fd
    BY <1>6, <1>4 DEF still_connected
  <2>1. n \in Int
    BY <1>1, <1>4 DEF Waiting, Count
  <2>2. InMethod' /\ call' \in [Tasks -> Connecting \cup Waiting \cup {Idle}]
    BY <1>1, <1>4, <2>0, <2>1, AdvanceInMethod
  <2>3. Owned' /\ host' \in [Fds -> OpenState \cup Gone]
    <3>1. host[f] \in UpState
      BY <1>2, <1>4 DEF IsUp, OpenState, ListeningState, OtherState
    <3> DEFINE h == [host[f] EXCEPT !.room = @ - n, !.put = @ + n]
    <3>2. h \in OpenState
      <4>1. PICK x \in UpState : x = host[f]
        BY <3>1
      <4>2. PICK i \in Int : i = x.room - n
        BY <2>1 DEF UpState
      <4>3. PICK j \in Int : j = x.put + n
        BY <2>1 DEF UpState
      <4>4. [x EXCEPT !.room = i, !.put = j] \in UpState
        BY ONLY DEF UpState
      <4> QED BY <4>1, <4>2, <4>3, <4>4 DEF OpenState
    <3>3. host' = [host EXCEPT ![f] = h]
      BY <1>2, <1>4 DEF TypeOK
    <3> HIDE DEF f, h
    <3> QED BY <1>2, <2>0, <3>2, <3>3, OpenStays
  <2> QED BY <2>0, <2>2, <2>3 DEF TypeOK
<1>5. ASSUME AnswersError(f), Return(t), UNCHANGED sock
      PROVE  IInv'
  <2>1. Owned' /\ host' \in [Fds -> OpenState \cup Gone]
    BY <1>2, <1>5, AnswersErrorOwned
  <2>2. InMethod' /\ call' \in [Tasks -> Connecting \cup Waiting \cup {Idle}]
    BY <1>1, <1>5, GoOnInMethod
  <2> QED BY <1>5, <2>1, <2>2 DEF TypeOK
<1>7. ASSUME sock' = [sock EXCEPT ![o].connected =
                        still_connected(0, call[t].len - call[t].done)],
             Return(t), UNCHANGED host
      PROVE  IInv'
  <2>1. /\ sock' \in [Objects -> Member]
        /\ \A p \in Objects : sock'[p].fd = sock[p].fd
    BY <1>6, <1>7 DEF still_connected
  <2>2. InMethod' /\ call' \in [Tasks -> Connecting \cup Waiting \cup {Idle}]
    BY <1>1, <1>7, <2>1, GoOnInMethod
  <2>3. Owned'
    BY <1>7, <2>1, KeepOwned
  <2> QED BY <1>7, <2>1, <2>2, <2>3 DEF TypeOK
<1> QED BY <1>3, <1>4, <1>5, <1>7

LEMMA SenseIInv ==
  ASSUME IInv, NEW t \in Tasks, athrill_posix_sense(t)
  PROVE  IInv'
<1> USE DEF IInv, athrill_posix_sense, At
<1> DEFINE o == call[t].o
<1>1. call[t] # Idle
  OBVIOUS
<1>2. /\ o \in Objects /\ Owner[o] = t
      /\ sock[o].fd \in Fds /\ host[sock[o].fd] \in OpenState
  BY <1>1, FdOpen DEF Fd, InMethod
<1>3. CASE Again(t)
  BY <1>3, AgainIInv
<1>4. ASSUME sock' = [sock EXCEPT ![o].connected = TRUE], Return(t),
             UNCHANGED host
      PROVE  IInv'
  <2>1. /\ sock' \in [Objects -> Member]
        /\ \A p \in Objects : sock'[p].fd = sock[p].fd
    BY <1>2, <1>4 DEF TypeOK, Member
  <2>2. InMethod' /\ call' \in [Tasks -> Connecting \cup Waiting \cup {Idle}]
    BY <1>1, <1>4, <2>1, GoOnInMethod
  <2>3. Owned'
    BY <1>4, <2>1, KeepOwned
  <2> QED BY <1>4, <2>1, <2>2, <2>3 DEF TypeOK
<1>5. ASSUME Socket_close(o), Return(t)
      PROVE  IInv'
  <2> USE DEF Socket_close
  <2>1. /\ sock' \in [Objects -> Member]
        /\ sock'[o].fd = NoFd
        /\ \A p \in Objects : p # o => sock'[p].fd = sock[p].fd
    BY <1>2, <1>5 DEF TypeOK, Member
  <2>2. /\ host' \in [Fds -> OpenState \cup Gone]
        /\ host'[sock[o].fd] \in Gone
        /\ \A f \in Fds : f # sock[o].fd => host'[f] = host[f]
    BY <1>2, <1>5 DEF TypeOK, Gone
  <2>3. Owned'
    BY <1>2, <2>1, <2>2, GiveOwned
  <2>4. /\ call' \in [Tasks -> Connecting \cup Waiting \cup {Idle}]
        /\ call'[t] = Idle
        /\ \A u \in Tasks : u # t => call'[u] = call[u]
    BY <1>5 DEF Return, TypeOK
  <2>5. InMethod'
    BY <1>2, <2>1, <2>4, KeepInMethod
  <2> QED BY <2>1, <2>2, <2>3, <2>4, <2>5 DEF TypeOK
<1>6. ASSUME AnswersError(sock[o].fd), UNCHANGED <<sock, call>>
      PROVE  IInv'
  <2>1. Owned' /\ host' \in [Fds -> OpenState \cup Gone]
    BY <1>2, <1>6, AnswersErrorOwned
  <2> QED BY <1>6, <2>1 DEF TypeOK, InMethod
<1> QED BY <1>3, <1>4, <1>5, <1>6 DEF Fd

-----------------------------------------------------------------------------
(* The peers change what an open descriptor does, and leave it open.       *)
LEMMA PeersIInv ==
  ASSUME IInv, Peers
  PROVE  IInv'
<1> USE DEF IInv, Peers
<1>1. PICK o \in Objects : PeerCalls(o) \/ PeerAnswers(o) \/ PeerActs(o)
  BY DEF Objects
<1> DEFINE f == sock[o].fd
<1>2. f \in Fds /\ host[f] \notin Gone
  BY <1>1, ZenonT(40) DEF PeerCalls, PeerAnswers, PeerActs, TypeOK, Member, Owned
<1>3. host[f] \in OpenState
  BY <1>2 DEF TypeOK
<1>4. host[f].st = "listening" => host[f] \in ListeningState
  BY <1>3 DEF OpenState, UpState, OtherState
<1>5. IsUp(f) => host[f] \in UpState
  BY <1>3 DEF IsUp, OpenState, ListeningState, OtherState
<1>6. \E h \in OpenState : host' = [host EXCEPT ![f] = h]
  <2>1. CASE PeerCalls(o)
    <3> DEFINE h == [host[f] EXCEPT !.pending = TRUE]
    <3>1. h \in OpenState
      BY <1>4, <2>1 DEF PeerCalls, OpenState, ListeningState
    <3>2. host' = [host EXCEPT ![f] = h]
      BY <1>2, <2>1 DEF PeerCalls, TypeOK
    <3> QED BY <3>1, <3>2
  <2>2. CASE PeerAnswers(o)
    <3>1. Up \in OpenState
      BY DEF Up, OpenState, UpState
    <3>2. \A why \in {"refused", "failed"} : [st |-> why] \in OpenState
      BY DEF OpenState, OtherState
    <3> QED BY <2>2, <3>1, <3>2 DEF PeerAnswers
  <2>3. CASE PeerActs(o)
    <3>1. PICK x \in UpState : x = host[f]
      BY <1>5, <2>3 DEF PeerActs
    <3>2. PICK i \in Int : i = x.in + 1
      BY DEF UpState
    <3>3. PICK r \in Int : r = x.room + 1
      BY DEF UpState
    <3>4. /\ [x EXCEPT !.in = i] \in OpenState
          /\ [x EXCEPT !.room = r] \in OpenState
          /\ [x EXCEPT !.eof = TRUE] \in OpenState
      BY ONLY DEF OpenState, UpState
    <3>5. [st |-> "broken"] \in OpenState
      BY DEF OpenState, OtherState
    <3>6. \/ host' = [host EXCEPT ![f] = [host[f] EXCEPT !.in = @ + 1]]
          \/ host' = [host EXCEPT ![f] = [host[f] EXCEPT !.room = @ + 1]]
          \/ host' = [host EXCEPT ![f] = [host[f] EXCEPT !.eof = TRUE]]
          \/ host' = [host EXCEPT ![f] = [st |-> "broken"]]
      BY <2>3 DEF PeerActs
    <3> QED BY <3>1, <3>2, <3>3, <3>4, <3>5, <3>6
  <2> QED BY <1>1, <2>1, <2>2, <2>3
<1>7. Owned' /\ host' \in [Fds -> OpenState \cup Gone]
  <2>1. \A p \in Objects : sock'[p].fd = sock[p].fd
    OBVIOUS
  <2> HIDE DEF f
  <2> QED BY <1>2, <1>3, <1>6, <2>1, OpenStays
<1> QED BY <1>7 DEF TypeOK, InMethod

(* No step, and no stuttering step, leaves the invariant. *)
LEMMA NextIInv ==
  ASSUME IInv, [Next]_vars
  PROVE  IInv'
<1>1. CASE UNCHANGED vars
  BY <1>1 DEF vars, IInv, TypeOK, Owned, InMethod
<1>2. ASSUME NEW t \in Tasks, Step(t)
      PROVE  IInv'
  BY <1>2, SelectIInv, AcceptStepIInv, RecvIInv, SendIInv, SenseIInv DEF Step
<1>3. ASSUME NEW t \in Tasks, NEW o \in Objects,
             \/ close(t, o) \/ set_blocking(t, o) \/ bind(t, o)
             \/ listen(t, o) \/ connect(t, o) \/ transfer(t, o)
             \/ \E conn \in Objects : accept(t, o, conn)
      PROVE  IInv'
  BY <1>3, CloseIInv, SetBlockingIInv, BindIInv, ListenIInv, ConnectIInv,
     TransferIInv, AcceptIInv
<1>4. CASE Tick
  BY <1>4 DEF Tick, IInv, TypeOK, Owned, InMethod
<1>5. CASE Peers
  BY <1>5, PeersIInv
<1> QED BY <1>1, <1>2, <1>3, <1>4, <1>5 DEF Next

-----------------------------------------------------------------------------
(* In every run the objects have the shape that the classes give them, the *)
(* descriptors that of the host's, and a task in a method the frame of it. *)
THEOREM SocketTypeOK == SocketSpec => []TypeOK
<1>1. IInv => TypeOK
  BY DEF IInv
<1> QED BY InitIInv, NextIInv, <1>1, PTL DEF SocketSpec

(* A descriptor that is open at the host is the one of exactly one socket  *)
(* object, unless an accept into a connection that had one has lost it:    *)
(* bind, listen, connect and close share and lose none on any path, and no *)
(* object holds a descriptor that is closed or was lost.                   *)
THEOREM SocketDescriptorsOwned == SocketSpec => []DescriptorsOwned
BY InitIInv, NextIInv, OwnedImplies, PTL DEF SocketSpec

(* A task in a method works on an object of its own, and the descriptor    *)
(* it polls stays open at the host and is no other object's all the while, *)
(* also while the method sleeps and others open, accept and close.         *)
MethodsOpen ==
  \A t \in Tasks : call[t] # Idle =>
    /\ Owner[call[t].o] = t
    /\ Fd(t) # NoFd /\ host[Fd(t)] \notin {Closed, Lost}
    /\ \A o \in Objects \ {call[t].o} : sock[o].fd # Fd(t)

THEOREM SocketInMethod == SocketSpec => []MethodsOpen
<1>1. IInv => MethodsOpen
  <2> SUFFICES ASSUME IInv, NEW t \in Tasks, call[t] # Idle
               PROVE  /\ Owner[call[t].o] = t
                      /\ Fd(t) # NoFd /\ host[Fd(t)] \notin Gone
                      /\ \A o \in Objects \ {call[t].o} : sock[o].fd # Fd(t)
    BY DEF MethodsOpen, Gone
  <2>1. /\ Owner[call[t].o] = t
        /\ sock[call[t].o].fd # NoFd
    BY DEF IInv, InMethod
  <2>2. call[t].o \in Objects
    BY DEF IInv, TypeOK, Connecting, Waiting
  <2>3. sock[call[t].o].fd \in Fds
    BY <2>1, <2>2 DEF IInv, TypeOK, Member
  <2> QED BY <2>1, <2>2, <2>3 DEF IInv, Owned, Fd
<1> QED BY InitIInv, NextIInv, <1>1, PTL DEF SocketSpec

-----------------------------------------------------------------------------
(* What the results of the methods have told of.  A task in a method knows *)
(* of the bytes that it has transferred and not yet told of; a connection  *)
(* that has not answered yet is looked after by its owner, in connect.     *)
Told == [rcv : Int, snd : Int, zero : BOOLEAN]

(* Task t has transferred done bytes for o in the method that it is in.    *)
Doing(o, ops) ==
  LET c == call[Owner[o]]
  IN IF c # Idle /\ c.o = o /\ c.op \in ops THEN c.done ELSE 0

Senses(t, o) == At(t, "sense") /\ call[t].o = o

Counts(o) ==
  LET f == sock[o].fd
  IN /\ f = NoFd => told[o] = NothingTold
     /\ f # NoFd /\ host[f].st = "calling" =>
          told[o] = NothingTold /\ Senses(Owner[o], o)
     /\ f # NoFd /\ host[f].st = "up" =>
          /\ host[f].got = told[o].rcv + Doing(o, Receiving)
          /\ host[f].put = told[o].snd + Doing(o, Sending)
          /\ \/ sock[o].connected
             \/ Senses(Owner[o], o)
             \/ host[f].eof /\ host[f].in = 0
             \/ told[o].zero

(* A task accepts on a server; one that transfers bytes has some left to   *)
(* transfer, or had none to begin with.                                    *)
Frames ==
  \A t \in Tasks : call[t] # Idle =>
    /\ call[t].op = "accept" => call[t].o \in Servers
    /\ call[t].op \in Transfers /\ call[t].done = call[t].len
         => call[t].len = 0

CInv ==
  /\ IInv
  /\ told \in [Objects -> Told]
  /\ Frames
  /\ \A o \in Connections : Counts(o)

LEMMA ConnectionsObjects == Connections \subseteq Objects
BY DEF Objects

(* The invariant implies the two properties. *)
LEMMA CountsImply ==
  ASSUME CInv
  PROVE  BytesToldOf /\ EndOfStream
<1> USE DEF CInv, IsUp
<1>1. BytesToldOf
  BY DEF BytesToldOf, Counts, Doing
<1>2. EndOfStream
  <2> SUFFICES ASSUME NEW o \in Connections,
                      sock[o].fd # NoFd, host[sock[o].fd].st = "up",
                      ~sock[o].connected,
                      ~\E t \in Tasks : At(t, "sense") /\ call[t].o = o,
                      ~told[o].zero
               PROVE  host[sock[o].fd].eof /\ host[sock[o].fd].in = 0
    BY DEF EndOfStream, GivenUp, AtEnd
  <2>1. Owner[o] \in Tasks
    BY SocketAssumption DEF SocketAssumption, Objects
  <2> QED BY <2>1 DEF Counts, Senses
<1> QED BY <1>1, <1>2

LEMMA InitCInv == Init => CInv
<1> SUFFICES ASSUME Init PROVE CInv
  OBVIOUS
<1>1. told \in [Objects -> Told]
  BY DEF Init, NothingTold, Told
<1>2. Frames
  BY DEF Init, Frames
<1>3. \A o \in Connections : Counts(o)
  BY ConnectionsObjects DEF Init, Counts
<1> QED BY <1>1, <1>2, <1>3, InitIInv DEF CInv

-----------------------------------------------------------------------------
(* A step of task t on the objects Q leaves what counts for others alone.  *)
LEMMA OthersCount ==
  ASSUME CInv, NEW t \in Tasks, NEW Q \in SUBSET Objects,
         \A p \in Objects : p \notin Q => sock'[p] = sock[p] /\ told'[p] = told[p],
         \A f \in Fds : \/ host'[f] = host[f]
                        \/ host[f] \in Gone
                        \/ \E q \in Q : sock[q].fd = f,
         \A u \in Tasks : u # t => call'[u] = call[u],
         call[t] # Idle => call[t].o \in Q,
         call'[t] # Idle => call'[t].o \in Q
  PROVE  \A p \in Connections : p \notin Q => Counts(p)'
<1> SUFFICES ASSUME NEW p \in Connections, p \notin Q
             PROVE  Counts(p)'
  OBVIOUS
<1> USE SocketAssumption DEF SocketAssumption, CInv
<1>1. p \in Objects /\ Owner[p] \in Tasks
  BY DEF Objects
<1>2. sock'[p] = sock[p] /\ told'[p] = told[p] /\ Counts(p)
  BY <1>1
<1>3. sock[p].fd # NoFd => host'[sock[p].fd] = host[sock[p].fd]
  <2> SUFFICES ASSUME sock[p].fd # NoFd
               PROVE  host'[sock[p].fd] = host[sock[p].fd]
    OBVIOUS
  <2>1. sock[p].fd \in Fds
    BY <1>1 DEF IInv, TypeOK, Member
  <2>2. host[sock[p].fd] \notin Gone
    BY <1>1, <2>1 DEF IInv, Owned
  <2>3. \A q \in Q : sock[q].fd # sock[p].fd
    BY <1>1 DEF IInv, Owned
  <2> QED BY <2>1, <2>2, <2>3
<1>4. \/ call'[Owner[p]] = call[Owner[p]]
      \/ /\ call[Owner[p]] # Idle => call[Owner[p]].o # p
         /\ call'[Owner[p]] # Idle => call'[Owner[p]].o # p
  BY <1>1
<1>5. /\ Doing(p, Receiving)' = Doing(p, Receiving)
      /\ Doing(p, Sending)' = Doing(p, Sending)
      /\ Senses(Owner[p], p)' <=> Senses(Owner[p], p)
  BY <1>4 DEF Doing, Senses, At
<1> QED BY <1>2, <1>3, <1>5 DEF Counts

(* A task that is in no method for o has transferred nothing for it.       *)
LEMMA NothingDone ==
  ASSUME NEW o, call[Owner[o]] = Idle
  PROVE  /\ Doing(o, Receiving) = 0
         /\ Doing(o, Sending) = 0
         /\ ~Senses(Owner[o], o)
BY DEF Doing, Senses, At

LEMMA CloseCounts ==
  ASSUME CInv, NEW t \in Tasks, NEW o \in Objects, close(t, o)
  PROVE  CInv'
<1> USE DEF CInv, close, Socket_close, Calls
<1>1. IInv'
  BY CloseIInv
<1>2. told' \in [Objects -> Told]
  BY DEF Told, NothingTold
<1>3. Frames'
  BY DEF Frames
<1>4. \A p \in Connections : p \notin {o} => Counts(p)'
  <2>1. \A p \in Objects : p \notin {o} => sock'[p] = sock[p] /\ told'[p] = told[p]
    BY DEF IInv, TypeOK
  <2>2. \A f \in Fds : host'[f] = host[f] \/ \E q \in {o} : sock[q].fd = f
    BY DEF IInv, TypeOK
  <2> QED BY <2>1, <2>2, OthersCount
<1>5. Counts(o)'
  <2>1. sock'[o].fd = NoFd /\ told'[o] = NothingTold
    BY DEF IInv, TypeOK, Member
  <2> QED BY <2>1 DEF Counts, NothingTold
<1> QED BY <1>1, <1>2, <1>3, <1>4, <1>5

LEMMA SetBlockingCounts ==
  ASSUME CInv, NEW t \in Tasks, NEW o \in Objects, set_blocking(t, o)
  PROVE  CInv'
<1> USE DEF CInv, set_blocking, Calls
<1>1. IInv'
  BY SetBlockingIInv
<1>2. Frames'
  BY DEF Frames
<1>3. \A p \in Connections : p \notin {o} => Counts(p)'
  <2>1. \A p \in Objects : p \notin {o} => sock'[p] = sock[p]
    BY DEF IInv, TypeOK
  <2> QED BY <2>1, OthersCount
<1>4. ASSUME o \in Connections PROVE Counts(o)'
  <2>1. sock'[o].fd = NoFd
    BY DEF IInv, TypeOK, Member
  <2> QED BY <1>4, <2>1 DEF Counts
<1> QED BY <1>1, <1>2, <1>3, <1>4

LEMMA BindCounts ==
  ASSUME CInv, NEW t \in Tasks, NEW o \in Objects, bind(t, o)
  PROVE  CInv'
<1> USE DEF CInv, bind, Calls
<1>1. IInv'
  BY BindIInv
<1>2. Frames'
  BY DEF Frames
<1>3. \A p \in Connections : p \notin {o} => Counts(p)'
  <2>1. \A p \in Objects : p \notin {o} => sock'[p] = sock[p]
    BY DEF IInv, TypeOK
  <2>2. \A f \in Fds : host'[f] = host[f] \/ host[f] \in Gone
    BY FreeFdClosed DEF IInv, TypeOK, init_socket
  <2> QED BY <2>1, <2>2, OthersCount
<1>4. o \notin Connections
  BY SocketAssumption DEF SocketAssumption
<1> QED BY <1>1, <1>2, <1>3, <1>4

LEMMA ListenCounts ==
  ASSUME CInv, NEW t \in Tasks, NEW o \in Objects, listen(t, o)
  PROVE  CInv'
<1> USE DEF CInv, listen, Calls
<1>1. CASE host' = [host EXCEPT ![sock[o].fd] = Listening] /\ UNCHANGED <<sock, told>>
  <2>1. IInv'
    BY ListenIInv
  <2>2. Frames'
    BY DEF Frames
  <2>3. \A p \in Connections : p \notin {o} => Counts(p)'
    <3>1. \A f \in Fds : host'[f] = host[f] \/ \E q \in {o} : sock[q].fd = f
      BY <1>1 DEF IInv, TypeOK
    <3> QED BY <1>1, <3>1, OthersCount
  <2>4. o \notin Connections
    BY SocketAssumption DEF SocketAssumption
  <2> QED BY <1>1, <2>1, <2>2, <2>3, <2>4
<1>2. CASE Socket_close(o)
  <2>1. close(t, o)
    BY <1>2 DEF close
  <2> QED BY <2>1, CloseCounts
<1> QED BY <1>1, <1>2

LEMMA ConnectCounts ==
  ASSUME CInv, NEW t \in Tasks, NEW o \in Objects, connect(t, o)
  PROVE  CInv'
<1> USE DEF CInv, connect, init_socket, Calls
<1>1. IInv'
  BY ConnectIInv
<1>2. FreeFd(o) \in Fds /\ host[FreeFd(o)] \in Gone
  BY FreeFdClosed
<1>3. /\ told[o] = NothingTold /\ Owner[o] = t /\ call[t] = Idle
      /\ o \in Connections
  BY DEF Counts
<1>4. \A p \in Objects : p \notin {o} => sock'[p] = sock[p]
  BY DEF IInv, TypeOK
<1>5. \A f \in Fds : host'[f] = host[f] \/ host[f] \in Gone
  BY <1>2 DEF IInv, TypeOK
<1>6. sock'[o].fd = FreeFd(o)
  BY <1>2 DEF IInv, TypeOK, Member
<1>7. CASE host' = [host EXCEPT ![FreeFd(o)] = Up] /\ UNCHANGED call
             /\ sock' = [sock EXCEPT ![o].fd = FreeFd(o), ![o].connected = TRUE]
  <2>1. Frames'
    BY <1>7 DEF Frames
  <2>2. \A p \in Connections : p \notin {o} => Counts(p)'
    BY <1>3, <1>4, <1>5, <1>7, OthersCount
  <2>3. Counts(o)'
    <3>1. sock'[o].connected
      BY <1>7 DEF IInv, TypeOK, Member
    <3>2. host'[FreeFd(o)] = Up
      BY <1>2, <1>7 DEF IInv, TypeOK
    <3>3. Doing(o, Receiving)' = 0 /\ Doing(o, Sending)' = 0
      BY <1>3, <1>7 DEF Doing
    <3> QED BY <1>2, <1>3, <1>6, <3>1, <3>2, <3>3, SocketAssumption
            DEF Counts, Up, NothingTold, SocketAssumption
  <2> QED BY <1>1, <2>1, <2>2, <2>3
<1>8. CASE /\ host' = [host EXCEPT ![FreeFd(o)] = [st |-> "calling"]]
           /\ call' = [call EXCEPT ![t] =
                         [op |-> "connect", o |-> o, pc |-> "sense"]]
  <2> DEFINE c == [op |-> "connect", o |-> o, pc |-> "sense"]
  <2>1. /\ call'[t] = c
        /\ \A u \in Tasks : u # t => call'[u] = call[u]
    BY <1>8 DEF IInv, TypeOK
  <2>2. c.op = "connect" /\ c.o = o /\ c.pc = "sense" /\ c # Idle
    BY BusyNotIdle DEF Connecting
  <2> HIDE DEF c
  <2>3. Frames'
    BY <2>1, <2>2 DEF Frames, Transfers, Receiving, Sending
  <2>4. \A p \in Connections : p \notin {o} => Counts(p)'
    BY <1>3, <1>4, <1>5, <2>1, <2>2, OthersCount, ZenonT(40)
  <2>5. Counts(o)'
    <3>1. host'[FreeFd(o)].st = "calling"
      BY <1>2, <1>8 DEF IInv, TypeOK
    <3>2. Senses(Owner[o], o)'
      BY <1>3, <2>1, <2>2 DEF Senses, At
    <3> QED BY <1>2, <1>3, <1>6, <3>1, <3>2, SocketAssumption
            DEF Counts, SocketAssumption
  <2> QED BY <1>1, <2>3, <2>4, <2>5
<1> QED BY <1>7, <1>8

LEMMA TransferCounts ==
  ASSUME CInv, NEW t \in Tasks, NEW o \in Objects, transfer(t, o)
  PROVE  CInv'
<1> USE DEF CInv, transfer, Calls
<1>1. IInv'
  BY TransferIInv
<1>2. PICK op \in Transfers, len \in 0..MaxLen : Begin(t, op, o, len, o)
  OBVIOUS
<1>3. /\ \A u \in Tasks : u # t => call'[u] = call[u]
      /\ call'[t].o = o /\ call'[t].op = op /\ call'[t].done = 0
      /\ call'[t].len = len
  BY <1>2 DEF Begin, IInv, TypeOK
<1>4. op # "accept"
  BY DEF Transfers, Receiving, Sending
<1>5. Frames'
  BY <1>3, <1>4 DEF Frames
<1>6. \A p \in Connections : p \notin {o} => Counts(p)'
  BY <1>3, OthersCount
<1>7. Counts(o)'
  <2>1. Doing(o, Receiving) = 0 /\ Doing(o, Sending) = 0 /\ ~Senses(Owner[o], o)
    BY NothingDone
  <2>2. Doing(o, Receiving)' = 0 /\ Doing(o, Sending)' = 0
    BY <1>3 DEF Doing
  <2> QED BY <2>1, <2>2 DEF Counts
<1> QED BY <1>1, <1>5, <1>6, <1>7

LEMMA AcceptCounts ==
  ASSUME CInv, NEW t \in Tasks, NEW o \in Objects, NEW conn \in Objects,
         accept(t, o, conn)
  PROVE  CInv'
<1> USE DEF CInv, accept, Calls
<1>1. IInv'
  BY AcceptIInv
<1>2. /\ \A u \in Tasks : u # t => call'[u] = call[u]
      /\ call'[t].o = o /\ call'[t].op = "accept"
  BY DEF Begin, IInv, TypeOK
<1>3. Frames'
  BY <1>2 DEF Frames, Transfers, Receiving, Sending
<1>4. \A p \in Connections : p \notin {o} => Counts(p)'
  BY <1>2, OthersCount
<1>5. o \notin Connections
  BY SocketAssumption DEF SocketAssumption
<1> QED BY <1>1, <1>3, <1>4, <1>5

-----------------------------------------------------------------------------
(* Steps in a method that may have to wait. *)

LEMMA AgainCounts ==
  ASSUME CInv, NEW t \in Tasks, Again(t)
  PROVE  CInv'
<1> USE DEF CInv, Again
<1>1. IInv'
  BY AgainIInv
<1>2. Frames'
  BY DEF Frames
<1>3. \A p \in Connections : Counts(p)'
  BY DEF Counts, Doing, Senses, At
<1> QED BY <1>1, <1>2, <1>3

(* The task of a transfer, and the object that it works on. *)
LEMMA InTransfer ==
  ASSUME CInv, NEW t \in Tasks, call[t] # Idle, call[t].op \in Transfers
  PROVE  /\ call[t] \in Waiting /\ call[t].done \in Int
         /\ call[t].o \in Objects /\ Owner[call[t].o] = t
         /\ sock[call[t].o].fd \in Fds
         /\ ~Senses(t, call[t].o)
         /\ Doing(call[t].o, Receiving) =
              IF call[t].op \in Receiving THEN call[t].done ELSE 0
         /\ Doing(call[t].o, Sending) =
              IF call[t].op \in Sending THEN call[t].done ELSE 0
<1> USE DEF CInv, IInv
<1>1. call[t] \in Waiting
  BY DEF TypeOK, Connecting, Transfers, Receiving, Sending
<1>2. /\ call[t].done \in Int /\ call[t].pc \in {"select", "io"}
      /\ call[t].o \in Objects
  BY <1>1 DEF Waiting
<1>3. Owner[call[t].o] = t
  BY DEF InMethod
<1>4. sock[call[t].o].fd \in Fds
  BY FdOpen DEF Fd
<1>5. ~Senses(t, call[t].o)
  BY <1>2 DEF Senses, At
<1> QED BY <1>1, <1>2, <1>3, <1>4, <1>5 DEF Doing

(* The method returns with a count of n.                                   *)
LEMMA TellTold ==
  ASSUME CInv, NEW t \in Tasks, call[t] # Idle, call[t].op \in Transfers,
         NEW n \in Int, Tell(t, n)
  PROVE  /\ told' \in [Objects -> Told]
         /\ \A p \in Objects : p # call[t].o => told'[p] = told[p]
         /\ told'[call[t].o].rcv =
              told[call[t].o].rcv + (IF call[t].op \in Receiving THEN n ELSE 0)
         /\ told'[call[t].o].snd =
              told[call[t].o].snd + (IF call[t].op \in Sending THEN n ELSE 0)
         /\ told[call[t].o].zero => told'[call[t].o].zero
         /\ At(t, "io") /\ call[t].len = 0 => told'[call[t].o].zero
<1> DEFINE o == call[t].o
<1>1. o \in Objects
  BY InTransfer
<1>2. told[o].rcv \in Int /\ told[o].snd \in Int /\ told[o].zero \in BOOLEAN
  BY <1>1 DEF CInv, Told
<1>3. PICK z \in BOOLEAN : z = (told[o].zero \/ (At(t, "io") /\ call[t].len = 0))
  <2>1. At(t, "io") \in BOOLEAN
    BY DEF At
  <2> QED BY <1>2, <2>1
<1>4. PICK q \in Int, w \in Int :
        /\ q = told[o].rcv + (IF call[t].op \in Receiving THEN n ELSE 0)
        /\ w = told[o].snd + (IF call[t].op \in Sending THEN n ELSE 0)
  BY <1>2
<1> DEFINE d == [rcv |-> q, snd |-> w, zero |-> z]
<1>5. told' = [told EXCEPT ![o] = d]
  BY <1>1, <1>3, <1>4 DEF Tell, CInv
<1>6. d \in Told /\ d.rcv = q /\ d.snd = w /\ d.zero = z
  BY DEF Told
<1> HIDE DEF d
<1>7. /\ told' \in [Objects -> Told] /\ told'[o] = d
      /\ \A p \in Objects : p # o => told'[p] = told[p]
  BY <1>1, <1>5, <1>6 DEF CInv
<1> QED BY <1>3, <1>4, <1>6, <1>7

(* A task that returns from its method, or stays in it. *)
LEMMA ReturnFrames ==
  ASSUME CInv, NEW t \in Tasks, call[t] # Idle,
         \A u \in Tasks : u # t => call'[u] = call[u],
         call'[t] # Idle =>
           /\ call'[t].o = call[t].o /\ call'[t].op = call[t].op
           /\ call'[t].op \in Transfers /\ call'[t].done = call'[t].len
                => call'[t].len = 0
  PROVE  Frames'
BY DEF CInv, Frames

LEMMA SelectCounts ==
  ASSUME CInv, NEW t \in Tasks, lwip_select(t)
  PROVE  CInv'
<1> USE DEF CInv, lwip_select
<1>0. call[t] # Idle /\ call[t] \in Waiting
  BY DEF At, IInv, TypeOK, Connecting
<1> PICK o \in Objects : o = call[t].o
  BY <1>0 DEF Waiting
<1>1. IInv'
  BY SelectIInv
<1>2. /\ call[t] # Idle /\ call[t] \in Waiting /\ o \in Objects
      /\ Owner[o] = t /\ ~Senses(t, o)
  BY <1>0 DEF IInv, InMethod, Senses, At
<1>3. CASE timed_out(t)
  <2>1. /\ call'[t] = Idle
        /\ \A u \in Tasks : u # t => call'[u] = call[u]
    BY <1>3 DEF timed_out, Return, IInv, TypeOK
  <2>2. Frames'
    BY <1>2, <2>1, ReturnFrames
  <2>3. Doing(o, Receiving)' = 0 /\ Doing(o, Sending)' = 0
    BY <1>2, <2>1 DEF Doing
  <2>4. CASE call[t].op = "accept"
    <3>1. UNCHANGED told
      BY <1>3, <2>4 DEF timed_out
    <3>2. \A p \in Connections : p \notin {o} => Counts(p)'
      BY <1>2, <2>1, <3>1, OthersCount
    <3>3. o \notin Connections
      BY <1>2, <2>4, SocketAssumption DEF SocketAssumption, Frames
    <3> QED BY <1>1, <2>2, <3>1, <3>2, <3>3
  <2>5. CASE call[t].op # "accept"
    <3>1. Tell(t, call[t].done) /\ call[t].op \in Transfers /\ call[t].done \in Int
      BY <1>2, <1>3, <2>5 DEF timed_out, Waiting
    <3>2. told' \in [Objects -> Told]
      BY <1>2, <3>1, TellTold
    <3>3. \A p \in Objects : p \notin {o} => told'[p] = told[p]
      BY <1>2, <3>1, TellTold
    <3>4. \A p \in Connections : p \notin {o} => Counts(p)'
      BY <1>2, <2>1, <3>3, OthersCount
    <3>5. told'[o].rcv = told[o].rcv + Doing(o, Receiving)
      BY <1>2, <3>1, TellTold, InTransfer
    <3>6. told'[o].snd = told[o].snd + Doing(o, Sending)
      BY <1>2, <3>1, TellTold, InTransfer
    <3>7. /\ told[o].rcv \in Int /\ told[o].snd \in Int
          /\ told'[o].rcv \in Int /\ told'[o].snd \in Int
      BY <1>2, <3>2 DEF Told
    <3>8. sock[o].fd # NoFd
      BY <1>2 DEF IInv, InMethod
    <3>9. told[o].zero => told'[o].zero
      BY <1>2, <3>1, TellTold
    <3>10. ASSUME o \in Connections PROVE Counts(o)'
      BY <1>2, <2>3, <3>5, <3>6, <3>7, <3>8, <3>9, <3>10 DEF Counts
    <3> QED BY <1>1, <2>2, <3>2, <3>4, <3>10
  <2> QED BY <2>4, <2>5
<1>4. CASE ~timed_out(t)
  <2>1. /\ call'[t] # Idle /\ call'[t].o = o /\ call'[t].op = call[t].op
        /\ call'[t].done = call[t].done /\ call'[t].pc # "sense"
        /\ call'[t].len = call[t].len
        /\ \A u \in Tasks : u # t => call'[u] = call[u]
    <3>1. CASE call' = [call EXCEPT ![t].pc = "io"]
      BY <1>2, <3>1, BusyNotIdle DEF IInv, TypeOK, Waiting, Idle
    <3>2. CASE call' = [call EXCEPT ![t].left = @ - 1]
      BY <1>2, <3>2, BusyNotIdle DEF IInv, TypeOK, Waiting, Idle, At
    <3> QED BY <1>4, <3>1, <3>2
  <2>2. Frames'
    BY <1>2, <2>1, ReturnFrames DEF Frames
  <2>3. UNCHANGED <<sock, host, told>>
    BY <1>4
  <2>4. \A p \in Connections : p \notin {o} => Counts(p)'
    BY <1>2, <2>1, <2>3, OthersCount
  <2>5. /\ Doing(o, Receiving)' = Doing(o, Receiving)
        /\ Doing(o, Sending)' = Doing(o, Sending)
    BY <1>2, <2>1 DEF Doing
  <2>6. ASSUME o \in Connections PROVE Counts(o)'
    BY <1>2, <2>3, <2>5, <2>6 DEF Counts
  <2> QED BY <1>1, <2>2, <2>3, <2>4, <2>6
<1> QED BY <1>3, <1>4

LEMMA AcceptStepCounts ==
  ASSUME CInv, NEW t \in Tasks, lwip_accept(t)
  PROVE  CInv'
<1> USE DEF CInv, lwip_accept
<1>0. call[t] # Idle /\ call[t] \in Waiting
  BY DEF At, IInv, TypeOK, Connecting
<1> PICK o \in Objects, conn \in Objects : o = call[t].o /\ conn = call[t].conn
  BY <1>0 DEF Waiting
<1>1. IInv'
  BY AcceptStepIInv
<1>2. /\ call[t] # Idle
      /\ Owner[conn] = t /\ sock[o].fd # NoFd /\ Fd(t) = sock[o].fd
      /\ o \notin Connections
  BY <1>0, SocketAssumption
  DEF SocketAssumption, Frames, IInv, InMethod, Fd
<1>3. CASE Again(t)
  BY <1>3, AgainCounts
<1>4. CASE Return(t) /\ UNCHANGED <<sock, slept, host, told>>
  <2>1. /\ call'[t] = Idle
        /\ \A u \in Tasks : u # t => call'[u] = call[u]
    BY <1>4 DEF Return, IInv, TypeOK
  <2>2. Frames'
    BY <1>2, <2>1, ReturnFrames
  <2>3. \A p \in Connections : p \notin {o} => Counts(p)'
    BY <1>2, <1>4, <2>1, OthersCount
  <2> QED BY <1>1, <1>2, <1>4, <2>2, <2>3
<1> DEFINE taken == [host EXCEPT ![FreeFd(conn)] = Up, ![Fd(t)].pending = FALSE]
<1>5. ASSUME ~NoFreeFd,
             host' = [f \in Fds |-> IF f = sock[conn].fd THEN Lost ELSE taken[f]],
             sock' = [sock EXCEPT ![conn].fd = FreeFd(conn), ![conn].connected = TRUE],
             told' = [told EXCEPT ![conn] = NothingTold],
             Return(t)
      PROVE  CInv'
  <2>1. /\ call'[t] = Idle
        /\ \A u \in Tasks : u # t => call'[u] = call[u]
    BY <1>5 DEF Return, IInv, TypeOK
  <2>2. Frames'
    BY <1>2, <2>1, ReturnFrames
  <2>3. FreeFd(conn) \in Fds /\ host[FreeFd(conn)] \in Gone /\ FreeFd(conn) # Fd(t)
    <3>1. host[Fd(t)] \notin Gone
      BY <1>2, FdOpen, OpenNotGone
    <3> QED BY <1>5, <3>1, FreeFdClosed
  <2>8. sock[conn].fd # FreeFd(conn)
    BY <2>3 DEF IInv, Owned
  <2>4. /\ host'[FreeFd(conn)] = Up
        /\ \A f \in Fds \ {FreeFd(conn), sock[o].fd, sock[conn].fd} :
             host'[f] = host[f]
    <3>1. /\ taken[FreeFd(conn)] = Up
          /\ \A f \in Fds \ {FreeFd(conn), Fd(t)} : taken[f] = host[f]
      BY <2>3 DEF IInv, TypeOK
    <3> HIDE DEF taken
    <3> QED BY <1>2, <1>5, <2>3, <2>8, <3>1
  <2>5. /\ sock'[conn].fd = FreeFd(conn) /\ sock'[conn].connected
        /\ \A p \in Objects : p # conn => sock'[p] = sock[p]
    BY <1>2, <1>5, <2>3, ZenonT(40) DEF IInv, TypeOK, Member
  <2>9. /\ told' \in [Objects -> Told] /\ told'[conn] = NothingTold
        /\ \A p \in Objects : p # conn => told'[p] = told[p]
    BY <1>5 DEF Told, NothingTold
  <2>6. \A p \in Connections : p \notin {o, conn} => Counts(p)'
    <3>1. \A f \in Fds : \/ host'[f] = host[f]
                         \/ host[f] \in Gone
                         \/ \E q \in {o, conn} : sock[q].fd = f
      BY <2>3, <2>4
    <3>2. {o, conn} \in SUBSET Objects
      BY <1>2
    <3>3. call[t] # Idle => call[t].o \in {o, conn}
      OBVIOUS
    <3> QED BY <2>1, <2>5, <2>9, <3>1, <3>2, <3>3, OthersCount, ZenonT(40)
  <2>7. ASSUME conn \in Connections PROVE Counts(conn)'
    <3>2. Doing(conn, Receiving)' = 0 /\ Doing(conn, Sending)' = 0
      BY <1>2, <2>1 DEF Doing
    <3>3. FreeFd(conn) # NoFd
      BY <2>3, SocketAssumption DEF SocketAssumption
    <3> QED BY <2>4, <2>5, <2>9, <3>2, <3>3 DEF Counts, Up, NothingTold
  <2> QED BY <1>1, <1>2, <2>2, <2>6, <2>7, <2>9
<1> DEFINE Takes(c) ==
             LET new == FreeFd(c)
                 tk == [host EXCEPT ![new] = Up, ![Fd(t)].pending = FALSE]
             IN /\ host' = [f \in Fds |-> IF f = sock[c].fd THEN Lost ELSE tk[f]]
                /\ sock' = [sock EXCEPT ![c].fd = new, ![c].connected = TRUE]
                /\ told' = [told EXCEPT ![c] = NothingTold]
<1>6. CASE Ready(t) /\ ~NoFreeFd
  <2>1. Takes(call[t].conn) /\ Return(t)
    BY <1>6
  <2>2. Takes(conn)
    <3> HIDE DEF Takes
    <3> QED BY <2>1
  <2> QED BY <1>5, <1>6, <2>1, <2>2
<1> QED BY <1>3, <1>4, <1>6

(* n bytes more are transferred: they are told of, or remembered.          *)
LEMMA AdvanceCounts ==
  ASSUME CInv, NEW t \in Tasks, call[t] # Idle, call[t].op \in Transfers,
         NEW n \in Int, Advance(t, n)
  PROVE  /\ told' \in [Objects -> Told]
         /\ \A u \in Tasks : u # t => call'[u] = call[u]
         /\ call'[t] # Idle =>
              /\ call'[t].o = call[t].o /\ call'[t].op = call[t].op
              /\ call'[t].done # call'[t].len
         /\ \A p \in Objects : p # call[t].o => told'[p] = told[p]
         /\ \A o \in Objects : o = call[t].o =>
              /\ (told[o].rcv + Doing(o, Receiving))' =
                   told[o].rcv + Doing(o, Receiving)
                     + (IF call[t].op \in Receiving THEN n ELSE 0)
              /\ (told[o].snd + Doing(o, Sending))' =
                   told[o].snd + Doing(o, Sending)
                     + (IF call[t].op \in Sending THEN n ELSE 0)
              /\ At(t, "io") /\ call[t].len = 0 /\ call[t].done + n = 0
                   => told'[o].zero
<1> PICK o \in Objects : o = call[t].o
  BY InTransfer
<1>1. /\ Owner[o] = t /\ call[t] \in Waiting /\ call[t].done \in Int
      /\ Doing(o, Receiving) = IF call[t].op \in Receiving THEN call[t].done ELSE 0
      /\ Doing(o, Sending) = IF call[t].op \in Sending THEN call[t].done ELSE 0
  BY InTransfer
<1>2. told[o].rcv \in Int /\ told[o].snd \in Int
  BY DEF CInv, Told
<1>3. CASE Return(t) /\ Tell(t, call[t].done + n)
  <2>1. call[t].done + n \in Int
    BY <1>1
  <2>2. call'[t] = Idle /\ \A u \in Tasks : u # t => call'[u] = call[u]
    BY <1>3 DEF Return, CInv, IInv, TypeOK
  <2>3. Doing(o, Receiving)' = 0 /\ Doing(o, Sending)' = 0
    BY <1>1, <2>2 DEF Doing
  <2>4. /\ told' \in [Objects -> Told]
        /\ \A p \in Objects : p # call[t].o => told'[p] = told[p]
    BY <1>3, <2>1, TellTold
  <2>5. /\ told'[o].rcv = told[o].rcv
             + (IF call[t].op \in Receiving THEN call[t].done + n ELSE 0)
        /\ told'[o].snd = told[o].snd
             + (IF call[t].op \in Sending THEN call[t].done + n ELSE 0)
    BY <1>3, <2>1, TellTold
  <2>6. (told[o].rcv + Doing(o, Receiving))' =
          told[o].rcv + Doing(o, Receiving)
            + (IF call[t].op \in Receiving THEN n ELSE 0)
    BY <1>1, <1>2, <2>3, <2>5
  <2>7. (told[o].snd + Doing(o, Sending))' =
          told[o].snd + Doing(o, Sending)
            + (IF call[t].op \in Sending THEN n ELSE 0)
    BY <1>1, <1>2, <2>3, <2>5
  <2>8. At(t, "io") /\ call[t].len = 0 => told'[o].zero
    BY <1>3, <2>1, TellTold
  <2> QED BY <2>2, <2>4, <2>6, <2>7, <2>8
<1>4. CASE UNCHANGED told /\ ~(Return(t) /\ Tell(t, call[t].done + n))
  <2>1. call' = [call EXCEPT ![t] =
                   [call[t] EXCEPT !.done = call[t].done + n, !.left = Polls,
                                   !.pc = if_not_blocking(call[t].o)]]
    BY <1>4 DEF Advance
  <2>6. call[t].done + n < call[t].len /\ call[t].len \in Int
    BY <1>1, <1>4 DEF Advance, Waiting
  <2> DEFINE c == [call[t] EXCEPT !.done = call[t].done + n, !.left = Polls,
                                  !.pc = if_not_blocking(call[t].o)]
  <2>2. /\ c.o = call[t].o /\ c.op = call[t].op
        /\ c.done = call[t].done + n /\ c.len = call[t].len
    BY <1>1 DEF Waiting
  <2>3. c # Idle
    BY <1>1 DEF Waiting, Idle
  <2>4. call'[t] = c /\ \A u \in Tasks : u # t => call'[u] = call[u]
    BY <2>1 DEF CInv, IInv, TypeOK
  <2> HIDE DEF c
  <2>5. /\ Doing(o, Receiving)' =
             IF call[t].op \in Receiving THEN call[t].done + n ELSE 0
        /\ Doing(o, Sending)' =
             IF call[t].op \in Sending THEN call[t].done + n ELSE 0
    BY <1>1, <2>2, <2>3, <2>4 DEF Doing
  <2> QED BY <1>1, <1>2, <1>4, <2>2, <2>4, <2>5, <2>6 DEF CInv
<1> QED BY <1>3, <1>4 DEF Advance

(* What counts for an object whose descriptor is up, no matter how.        *)
LEMMA UpCounts ==
  ASSUME NEW o \in Objects, sock'[o].fd = sock[o].fd, sock[o].fd # NoFd,
         host'[sock[o].fd].st = "up",
         host'[sock[o].fd].got = (told[o].rcv + Doing(o, Receiving))',
         host'[sock[o].fd].put = (told[o].snd + Doing(o, Sending))',
         \/ sock'[o].connected
         \/ host'[sock[o].fd].eof /\ host'[sock[o].fd].in = 0
         \/ told'[o].zero
  PROVE  Counts(o)'
BY DEF Counts

(* What connected becomes after n bytes is right: none are transferred     *)
(* only by a method that was given the length 0.                           *)
LEMMA NoneTransferred ==
  ASSUME CInv, NEW t \in Tasks, At(t, "io"), call[t].op \in Transfers,
         NEW n \in Count(call[t].len - call[t].done), Advance(t, n)
  PROVE  /\ n \in Int
         /\ still_connected(n, call[t].len - call[t].done)
              \/ told'[call[t].o].zero
<1>1. call[t] # Idle
  BY DEF At
<1>2. /\ call[t].len \in Int /\ call[t].done \in Int
      /\ call[t].o \in Objects
  BY <1>1, InTransfer DEF Waiting
<1>3. n \in Int
  BY <1>2 DEF Count
<1>4. ASSUME n = 0
      PROVE  told'[call[t].o].zero
  <2>1. call[t].len = call[t].done
    BY <1>2, <1>4 DEF Count
  <2>2. call[t].len = 0 /\ call[t].done + n = 0
    BY <1>1, <1>2, <1>4, <2>1 DEF CInv, Frames
  <2> QED BY <1>1, <1>2, <1>3, <2>2, AdvanceCounts
<1> QED BY <1>3, <1>4 DEF still_connected

(* An error on a descriptor that is up no longer: nothing counts any more. *)
LEMMA DownCounts ==
  ASSUME NEW o \in Objects, sock'[o].fd = sock[o].fd, sock[o].fd # NoFd,
         host'[sock[o].fd].st \notin {"up", "calling"}
  PROVE  Counts(o)'
BY DEF Counts

LEMMA RecvCounts ==
  ASSUME CInv, NEW t \in Tasks, lwip_recv(t)
  PROVE  CInv'
<1> USE DEF CInv
<1>0. call[t] # Idle /\ call[t].op \in Transfers
  BY DEF lwip_recv, At, Transfers
<1> PICK o \in Objects : o = call[t].o
  BY <1>0, InTransfer
<1> DEFINE rest == call[t].len - call[t].done
<1> PICK f \in Fds : f = sock[o].fd
  BY <1>0, InTransfer
<1>1. IInv'
  BY RecvIInv
<1>2. /\ Owner[o] = t /\ ~Senses(t, o) /\ f # NoFd /\ Fd(t) = f
      /\ call[t] \in Waiting /\ call[t].done \in Int
  BY <1>0, InTransfer, SocketAssumption DEF SocketAssumption, Fd
<1>3. call[t].op \in Receiving /\ call[t].op \notin Sending
  BY DEF lwip_recv, Receiving, Sending
<1>4. host[f] \in OpenState
  BY <1>0, <1>2, FdOpen
<1>5. ASSUME NEW b \in BOOLEAN, sock' = [sock EXCEPT ![o].connected = b]
      PROVE  /\ \A p \in Objects : p # o => sock'[p] = sock[p]
             /\ sock'[o].fd = sock[o].fd /\ sock'[o].connected = b
  BY <1>5 DEF IInv, TypeOK, Member
<1>6. CASE Again(t)
  BY <1>6, AgainCounts
<1>7. ASSUME IsUp(f), NEW n \in Count(rest), n <= host[f].in,
             host' = [host EXCEPT ![f].in = @ - n, ![f].got = @ + n],
             sock' = [sock EXCEPT ![o].connected = still_connected(n, rest)],
             Advance(t, n)
      PROVE  CInv'
  <2>1. n \in Int /\ (still_connected(n, rest) \/ told'[o].zero)
    BY <1>0, <1>7, NoneTransferred DEF lwip_recv
  <2>0. /\ \A p \in Objects : p # o => sock'[p] = sock[p]
        /\ sock'[o].fd = sock[o].fd
        /\ sock'[o].connected \/ told'[o].zero
    BY <1>5, <1>7, <2>1 DEF still_connected
  <2>2. /\ told' \in [Objects -> Told]
        /\ \A u \in Tasks : u # t => call'[u] = call[u]
        /\ call'[t] # Idle => /\ call'[t].o = o /\ call'[t].op = call[t].op
                              /\ call'[t].done # call'[t].len
        /\ \A p \in Objects : p # o => told'[p] = told[p]
    BY <1>0, <1>7, <2>1, AdvanceCounts
  <2>3. Frames'
    BY <1>0, <2>2, ReturnFrames
  <2>4. \A g \in Fds : g # f => host'[g] = host[g]
    BY <1>7 DEF IInv, TypeOK
  <2>5. \A p \in Connections : p \notin {o} => Counts(p)'
    BY <2>0, <2>2, <2>4, OthersCount
  <2>6. host[f] \in UpState
    BY <1>4, <1>7 DEF IsUp, OpenState, ListeningState, OtherState
  <2>7. /\ host'[f].st = "up" /\ host'[f].got = host[f].got + n
        /\ host'[f].put = host[f].put
    BY <1>7, <2>6 DEF IInv, TypeOK, UpState
  <2>9. ASSUME o \in Connections PROVE Counts(o)'
    <3>1. /\ host[f].got = told[o].rcv + Doing(o, Receiving)
          /\ host[f].put = told[o].snd + Doing(o, Sending)
      BY <1>2, <1>7, <2>9 DEF Counts, IsUp
    <3>2. (told[o].rcv + Doing(o, Receiving))' =
            told[o].rcv + Doing(o, Receiving) + n
      BY <1>0, <1>3, <1>7, <2>1, AdvanceCounts
    <3>3. (told[o].snd + Doing(o, Sending))' =
            told[o].snd + Doing(o, Sending) + 0
      BY <1>0, <1>3, <1>7, <2>1, AdvanceCounts
    <3>4. host[f].put \in Int
      BY <2>6 DEF UpState
    <3>5. /\ host'[f].got = (told[o].rcv + Doing(o, Receiving))'
          /\ host'[f].put = (told[o].snd + Doing(o, Sending))'
      BY <2>7, <3>1, <3>2, <3>3, <3>4
    <3> QED BY <1>2, <2>0, <2>7, <3>5, UpCounts
  <2> QED BY <1>1, <2>2, <2>3, <2>5, <2>9
<1>8. ASSUME host[f].st = "ended" \/ (IsUp(f) /\ host[f].in = 0 /\ host[f].eof),
             sock' = [sock EXCEPT ![o].connected = still_connected(0, rest)],
             Return(t), Tell(t, call[t].done), UNCHANGED host
      PROVE  CInv'
  <2>1. /\ call'[t] = Idle
        /\ \A u \in Tasks : u # t => call'[u] = call[u]
    BY <1>8 DEF Return, IInv, TypeOK
  <2>2. Frames'
    BY <1>0, <2>1, ReturnFrames
  <2>3. /\ told' \in [Objects -> Told]
        /\ \A p \in Objects : p # o => told'[p] = told[p]
    BY <1>0, <1>2, <1>8, TellTold
  <2>8. /\ told'[o].rcv = told[o].rcv + Doing(o, Receiving)
        /\ told'[o].snd = told[o].snd + Doing(o, Sending)
    <3>1. /\ Doing(o, Receiving) = call[t].done
          /\ Doing(o, Sending) = 0
      BY <1>0, <1>3, InTransfer
    <3>2. /\ told'[o].rcv = told[o].rcv + call[t].done
          /\ told'[o].snd = told[o].snd + 0
      BY <1>0, <1>2, <1>3, <1>8, TellTold, SMTT(30)
    <3> QED BY <3>1, <3>2
  <2>0. /\ \A p \in Objects : p # o => sock'[p] = sock[p]
        /\ sock'[o].fd = sock[o].fd
    BY <1>5, <1>8 DEF still_connected
  <2>4. \A p \in Connections : p \notin {o} => Counts(p)'
    BY <1>8, <2>0, <2>1, <2>3, OthersCount
  <2>5. Doing(o, Receiving)' = 0 /\ Doing(o, Sending)' = 0
    BY <1>2, <2>1 DEF Doing
  <2>6. told'[o].rcv \in Int /\ told'[o].snd \in Int
    BY <2>3 DEF Told
  <2>7. ASSUME o \in Connections PROVE Counts(o)'
    <3>1. CASE host[f].st = "ended"
      BY <1>2, <1>8, <2>0, <3>1, DownCounts
    <3>2. CASE IsUp(f) /\ host[f].in = 0 /\ host[f].eof
      <4>1. /\ host[f].got = told[o].rcv + Doing(o, Receiving)
            /\ host[f].put = told[o].snd + Doing(o, Sending)
        BY <1>2, <2>7, <3>2 DEF Counts, IsUp
      <4>2. /\ host'[f].got = (told[o].rcv + Doing(o, Receiving))'
            /\ host'[f].put = (told[o].snd + Doing(o, Sending))'
        BY <1>8, <2>5, <2>6, <2>8, <4>1
      <4> QED BY <1>2, <1>8, <2>0, <3>2, <4>2, UpCounts DEF IsUp
    <3> QED BY <1>8, <3>1, <3>2
  <2> QED BY <1>1, <2>2, <2>3, <2>4, <2>7
<1>9. ASSUME host[f].st = "broken", AnswersError(f),
             UNCHANGED <<sock, call, told>>
      PROVE  CInv'
  <2>1. Frames'
    BY <1>9 DEF Frames
  <2>2. /\ \A g \in Fds : g # f => host'[g] = host[g]
        /\ host'[f].st \in {"broken", "ended"}
    BY <1>9 DEF AnswersError, IInv, TypeOK
  <2>3. \A p \in Connections : p \notin {o} => Counts(p)'
    BY <1>9, <2>2, OthersCount
  <2>4. Counts(o)'
    BY <1>2, <1>9, <2>2, DownCounts
  <2> QED BY <1>1, <1>9, <2>1, <2>3, <2>4
<1> QED BY <1>2, <1>6, <1>7, <1>8, <1>9 DEF lwip_recv

LEMMA SendCounts ==
  ASSUME CInv, NEW t \in Tasks, lwip_send(t)
  PROVE  CInv'
<1> USE DEF CInv
<1>0. call[t] # Idle /\ call[t].op \in Transfers
  BY DEF lwip_send, At, Transfers
<1> PICK o \in Objects : o = call[t].o
  BY <1>0, InTransfer
<1> DEFINE rest == call[t].len - call[t].done
<1> PICK f \in Fds : f = sock[o].fd
  BY <1>0, InTransfer
<1>1. IInv'
  BY SendIInv
<1>2. /\ Owner[o] = t /\ ~Senses(t, o) /\ f # NoFd /\ Fd(t) = f
      /\ call[t] \in Waiting /\ call[t].done \in Int
  BY <1>0, InTransfer, SocketAssumption DEF SocketAssumption, Fd
<1>3. call[t].op \in Sending /\ call[t].op \notin Receiving
  BY DEF lwip_send, Receiving, Sending
<1>4. host[f] \in OpenState
  BY <1>0, <1>2, FdOpen
<1>5. ASSUME NEW b \in BOOLEAN, sock' = [sock EXCEPT ![o].connected = b]
      PROVE  /\ \A p \in Objects : p # o => sock'[p] = sock[p]
             /\ sock'[o].fd = sock[o].fd /\ sock'[o].connected = b
  BY <1>5 DEF IInv, TypeOK, Member
<1>6. CASE Again(t)
  BY <1>6, AgainCounts
<1>7. ASSUME IsUp(f), NEW n \in Count(rest),
             host' = [host EXCEPT ![f].room = @ - n, ![f].put = @ + n],
             sock' = [sock EXCEPT ![o].connected = still_connected(n, rest)],
             Advance(t, n)
      PROVE  CInv'
  <2>1. n \in Int /\ (still_connected(n, rest) \/ told'[o].zero)
    BY <1>0, <1>7, NoneTransferred DEF lwip_send
  <2>0. /\ \A p \in Objects : p # o => sock'[p] = sock[p]
        /\ sock'[o].fd = sock[o].fd
        /\ sock'[o].connected \/ told'[o].zero
    BY <1>5, <1>7, <2>1 DEF still_connected
  <2>2. /\ told' \in [Objects -> Told]
        /\ \A u \in Tasks : u # t => call'[u] = call[u]
        /\ call'[t] # Idle => /\ call'[t].o = o /\ call'[t].op = call[t].op
                              /\ call'[t].done # call'[t].len
        /\ \A p \in Objects : p # o => told'[p] = told[p]
    BY <1>0, <1>7, <2>1, AdvanceCounts
  <2>3. Frames'
    BY <1>0, <2>2, ReturnFrames
  <2>4. \A g \in Fds : g # f => host'[g] = host[g]
    BY <1>7 DEF IInv, TypeOK
  <2>5. \A p \in Connections : p \notin {o} => Counts(p)'
    BY <2>0, <2>2, <2>4, OthersCount
  <2>6. host[f] \in UpState
    BY <1>4, <1>7 DEF IsUp, OpenState, ListeningState, OtherState
  <2>7. /\ host'[f].st = "up" /\ host'[f].got = host[f].got
        /\ host'[f].put = host[f].put + n
    BY <1>7, <2>6 DEF IInv, TypeOK, UpState
  <2>9. ASSUME o \in Connections PROVE Counts(o)'
    <3>1. /\ host[f].got = told[o].rcv + Doing(o, Receiving)
          /\ host[f].put = told[o].snd + Doing(o, Sending)
      BY <1>2, <1>7, <2>9 DEF Counts, IsUp
    <3>2. (told[o].rcv + Doing(o, Receiving))' =
            told[o].rcv + Doing(o, Receiving) + 0
      BY <1>0, <1>3, <1>7, <2>1, AdvanceCounts
    <3>3. (told[o].snd + Doing(o, Sending))' =
            told[o].snd + Doing(o, Sending) + n
      BY <1>0, <1>3, <1>7, <2>1, AdvanceCounts, SMTT(30)
    <3>4. host[f].got \in Int
      BY <2>6 DEF UpState
    <3>5. /\ host'[f].got = (told[o].rcv + Doing(o, Receiving))'
          /\ host'[f].put = (told[o].snd + Doing(o, Sending))'
      BY <2>7, <3>1, <3>2, <3>3, <3>4
    <3> QED BY <1>2, <2>0, <2>7, <3>5, UpCounts
  <2> QED BY <1>1, <2>2, <2>3, <2>5, <2>9
<1>8. ASSUME host[f].st \in {"broken", "ended"}, AnswersError(f), Return(t),
             UNCHANGED <<sock, told>>
      PROVE  CInv'
  <2>1. /\ call'[t] = Idle
        /\ \A u \in Tasks : u # t => call'[u] = call[u]
    BY <1>8 DEF Return, IInv, TypeOK
  <2>2. Frames'
    BY <1>0, <2>1, ReturnFrames
  <2>3. /\ \A g \in Fds : g # f => host'[g] = host[g]
        /\ host'[f].st \in {"broken", "ended"}
    BY <1>8 DEF AnswersError, IInv, TypeOK
  <2>4. \A p \in Connections : p \notin {o} => Counts(p)'
    BY <1>8, <2>1, <2>3, OthersCount
  <2>5. Counts(o)'
    BY <1>2, <1>8, <2>3, DownCounts
  <2> QED BY <1>1, <1>8, <2>2, <2>4, <2>5
<1>9. ASSUME host[f].st = "ended",
             sock' = [sock EXCEPT ![o].connected = still_connected(0, rest)],
             Return(t), Tell(t, call[t].done), UNCHANGED host
      PROVE  CInv'
  <2>1. /\ call'[t] = Idle
        /\ \A u \in Tasks : u # t => call'[u] = call[u]
    BY <1>9 DEF Return, IInv, TypeOK
  <2>2. Frames'
    BY <1>0, <2>1, ReturnFrames
  <2>3. /\ told' \in [Objects -> Told]
        /\ \A p \in Objects : p # o => told'[p] = told[p]
    BY <1>0, <1>2, <1>9, TellTold
  <2>4. /\ \A p \in Objects : p # o => sock'[p] = sock[p]
        /\ sock'[o].fd = sock[o].fd
    BY <1>5, <1>9 DEF still_connected
  <2>5. \A p \in Connections : p \notin {o} => Counts(p)'
    BY <1>9, <2>1, <2>3, <2>4, OthersCount
  <2>6. Counts(o)'
    BY <1>2, <1>9, <2>4, DownCounts
  <2> QED BY <1>1, <2>2, <2>3, <2>5, <2>6
<1> QED BY <1>2, <1>6, <1>7, <1>8, <1>9 DEF lwip_send

LEMMA SenseCounts ==
  ASSUME CInv, NEW t \in Tasks, athrill_posix_sense(t)
  PROVE  CInv'
<1> USE DEF CInv
<1>0. call[t] # Idle /\ call[t].pc = "sense"
  BY DEF athrill_posix_sense, At
<1> PICK o \in Objects : o = call[t].o
  BY <1>0, FdOpen
<1> PICK f \in Fds : f = sock[o].fd
  BY <1>0, FdOpen DEF Fd
<1>1. IInv'
  BY SenseIInv
<1>2. /\ Owner[o] = t /\ f # NoFd /\ Fd(t) = f /\ call[t].op = "connect"
      /\ host[f] \in OpenState
  <2>1. call[t] \in Connecting
    BY <1>0 DEF IInv, TypeOK, Waiting
  <2> QED BY <1>0, <2>1, FdOpen, SocketAssumption
          DEF SocketAssumption, Connecting, Fd, IInv, InMethod
<1>3. Doing(o, Receiving) = 0 /\ Doing(o, Sending) = 0
  BY <1>2 DEF Doing, Receiving, Sending
<1>4. CASE Again(t)
  BY <1>4, AgainCounts
<1>5. ASSUME host[f].st \in {"up", "broken", "ended"},
             sock' = [sock EXCEPT ![o].connected = TRUE], Return(t),
             UNCHANGED <<host, told>>
      PROVE  CInv'
  <2>1. /\ call'[t] = Idle
        /\ \A u \in Tasks : u # t => call'[u] = call[u]
    BY <1>5 DEF Return, IInv, TypeOK
  <2>2. Frames'
    BY <1>0, <2>1, ReturnFrames
  <2>3. /\ \A p \in Objects : p # o => sock'[p] = sock[p]
        /\ sock'[o].fd = sock[o].fd /\ sock'[o].connected
    BY <1>5 DEF IInv, TypeOK, Member
  <2>4. \A p \in Connections : p \notin {o} => Counts(p)'
    BY <1>5, <2>1, <2>3, OthersCount
  <2>5. Doing(o, Receiving)' = 0 /\ Doing(o, Sending)' = 0
    BY <1>2, <2>1 DEF Doing
  <2>6. ASSUME o \in Connections PROVE Counts(o)'
    <3>1. Counts(o)
      BY <2>6
    <3> QED BY <1>2, <1>3, <1>5, <2>3, <2>5, <3>1 DEF Counts
  <2> QED BY <1>1, <1>5, <2>2, <2>4, <2>6
<1>6. ASSUME Socket_close(o), Return(t)
      PROVE  CInv'
  <2> USE DEF Socket_close
  <2>1. /\ call'[t] = Idle
        /\ \A u \in Tasks : u # t => call'[u] = call[u]
    BY <1>6 DEF Return, IInv, TypeOK
  <2>2. Frames'
    BY <1>0, <2>1, ReturnFrames
  <2>3. /\ \A p \in Objects : p # o => sock'[p] = sock[p] /\ told'[p] = told[p]
        /\ sock'[o].fd = NoFd /\ told'[o] = NothingTold
    BY <1>6 DEF IInv, TypeOK, Member
  <2>4. told' \in [Objects -> Told]
    BY <1>6 DEF Told, NothingTold
  <2>5. \A g \in Fds : g # f => host'[g] = host[g]
    BY <1>6 DEF IInv, TypeOK
  <2>6. \A p \in Connections : p \notin {o} => Counts(p)'
    BY <2>1, <2>3, <2>5, OthersCount
  <2>7. Counts(o)'
    BY <2>3 DEF Counts, NothingTold
  <2> QED BY <1>1, <2>2, <2>4, <2>6, <2>7
<1>7. ASSUME host[f].st = "failed", AnswersError(f),
             UNCHANGED <<sock, call, told>>
      PROVE  CInv'
  <2>1. Frames'
    BY <1>7 DEF Frames
  <2>2. /\ \A g \in Fds : g # f => host'[g] = host[g]
        /\ host'[f].st \in {"failed", "ended"}
    BY <1>7 DEF AnswersError, IInv, TypeOK
  <2>3. \A p \in Connections : p \notin {o} => Counts(p)'
    BY <1>7, <2>2, OthersCount
  <2>4. Counts(o)'
    BY <1>2, <1>7, <2>2, DownCounts
  <2> QED BY <1>1, <1>7, <2>1, <2>3, <2>4
<1> QED BY <1>2, <1>4, <1>5, <1>6, <1>7 DEF athrill_posix_sense

-----------------------------------------------------------------------------
(* The peers of a connection send, take, answer, close or break it.        *)
LEMMA PeersCounts ==
  ASSUME CInv, Peers
  PROVE  CInv'
<1> USE DEF CInv
<1>1. IInv'
  BY PeersIInv
<1>2. UNCHANGED <<sock, call, slept, told>>
  BY DEF Peers
<1>3. Frames'
  BY <1>2 DEF Frames
<1>4. PICK o \in Objects :
        \/ o \in Servers /\ PeerCalls(o)
        \/ o \in Connections /\ (PeerAnswers(o) \/ PeerActs(o))
  BY DEF Peers, Objects
<1>5. sock[o].fd \in Fds /\ sock[o].fd # NoFd
  BY <1>4 DEF PeerCalls, PeerAnswers, PeerActs, IInv, TypeOK, Member
<1> PICK f \in Fds : f = sock[o].fd
  BY <1>5
<1>6. host[f] \in OpenState /\ (IsUp(f) => host[f] \in UpState)
  <2>1. host[f] \notin Gone
    BY <1>4 DEF PeerCalls, PeerAnswers, PeerActs, IsUp, Gone, Closed, Lost
  <2>2. host[f] \in OpenState
    BY <2>1 DEF IInv, TypeOK
  <2> QED BY <2>2 DEF IsUp, OpenState, ListeningState, OtherState
<1>7. \A g \in Fds : g # f => host'[g] = host[g]
  BY <1>4 DEF PeerCalls, PeerAnswers, PeerActs, IInv, TypeOK
<1>8. \A p \in Connections : p # o => Counts(p)'
  <2> SUFFICES ASSUME NEW p \in Connections, p # o
               PROVE  Counts(p)'
    OBVIOUS
  <2>1. p \in Objects
    BY DEF Objects
  <2>2. sock[p].fd # NoFd => sock[p].fd \in Fds /\ sock[p].fd # f
    BY <1>5, <2>1 DEF IInv, TypeOK, Member, Owned
  <2> QED BY <1>2, <1>7, <2>2 DEF Counts, Doing, Senses, At
<1>9. /\ Doing(o, Receiving)' = Doing(o, Receiving)
      /\ Doing(o, Sending)' = Doing(o, Sending)
      /\ Senses(Owner[o], o)' <=> Senses(Owner[o], o)
  BY <1>2 DEF Doing, Senses, At
<1>10. ASSUME o \in Connections PROVE Counts(o)'
  <2>1. Counts(o)
    BY <1>10
  <2>2. CASE PeerAnswers(o)
    <3>1. told[o] = NothingTold /\ Senses(Owner[o], o)
      BY <1>5, <2>1, <2>2 DEF Counts, PeerAnswers
    <3>2. Doing(o, Receiving) = 0 /\ Doing(o, Sending) = 0
      <4>1. Owner[o] \in Tasks
        BY SocketAssumption DEF SocketAssumption
      <4>2. call[Owner[o]] \in Connecting
        BY <3>1, <4>1 DEF Senses, At, IInv, TypeOK, Waiting
      <4> QED BY <4>2 DEF Doing, Connecting, Receiving, Sending
    <3>3. CASE host' = [host EXCEPT ![f] = Up]
      <4>1. host'[f] = Up
        BY <3>3 DEF IInv, TypeOK
      <4> QED BY <1>2, <1>9, <3>1, <3>2, <4>1 DEF Counts, Up, NothingTold
    <3>4. CASE \E why \in {"refused", "failed"} :
                 host' = [host EXCEPT ![f] = [st |-> why]]
      <4>1. host'[f].st \in {"refused", "failed"}
        BY <3>4 DEF IInv, TypeOK
      <4> QED BY <1>2, <1>5, <4>1, DownCounts
    <3> QED BY <2>2, <3>3, <3>4 DEF PeerAnswers
  <2>3. CASE PeerActs(o)
    <3> PICK x \in UpState : x = host[f]
      BY <1>6, <2>3 DEF PeerActs
    <3>1. /\ x.got = told[o].rcv + Doing(o, Receiving)
          /\ x.put = told[o].snd + Doing(o, Sending)
          /\ \/ sock[o].connected \/ Senses(Owner[o], o)
             \/ (x.eof /\ x.in = 0) \/ told[o].zero
      BY <1>5, <2>1, <2>3 DEF Counts, PeerActs, IsUp
    <3>2. CASE host' = [host EXCEPT ![f] = [st |-> "broken"]]
      <4>1. host'[f].st = "broken"
        BY <3>2 DEF IInv, TypeOK
      <4> QED BY <1>2, <1>5, <4>1, DownCounts
    <3>3. CASE ~x.eof /\ host' = [host EXCEPT ![f].in = @ + 1]
      <4>1. /\ host'[f].st = "up" /\ host'[f].got = x.got
            /\ host'[f].put = x.put
        BY <3>3 DEF IInv, TypeOK, UpState
      <4> QED BY <1>2, <1>5, <1>9, <3>1, <3>3, <4>1 DEF Counts
    <3>4. CASE host' = [host EXCEPT ![f].room = @ + 1]
      <4>1. /\ host'[f].st = "up" /\ host'[f].got = x.got
            /\ host'[f].put = x.put
            /\ host'[f].eof = x.eof /\ host'[f].in = x.in
        BY <3>4 DEF IInv, TypeOK, UpState
      <4> QED BY <1>2, <1>5, <1>9, <3>1, <4>1 DEF Counts
    <3>5. CASE ~x.eof /\ host' = [host EXCEPT ![f].eof = TRUE]
      <4>1. /\ host'[f].st = "up" /\ host'[f].got = x.got
            /\ host'[f].put = x.put
        BY <3>5 DEF IInv, TypeOK, UpState
      <4> QED BY <1>2, <1>5, <1>9, <3>1, <3>5, <4>1 DEF Counts
    <3> QED BY <2>3, <3>2, <3>3, <3>4, <3>5 DEF PeerActs
  <2> QED BY <1>4, <1>10, <2>2, <2>3, SocketAssumption DEF SocketAssumption
<1> QED BY <1>1, <1>2, <1>3, <1>8, <1>10

LEMMA NextCInv ==
  ASSUME CInv, [Next]_vars
  PROVE  CInv'
<1>1. CASE UNCHANGED vars
  <2>1. IInv'
    BY <1>1, NextIInv DEF CInv
  <2> QED BY <1>1, <2>1 DEF vars, CInv, Frames, Counts, Doing, Senses, At
<1>2. ASSUME NEW t \in Tasks, Step(t)
      PROVE  CInv'
  BY <1>2, SelectCounts, AcceptStepCounts, RecvCounts, SendCounts, SenseCounts
  DEF Step
<1>3. ASSUME NEW t \in Tasks, NEW o \in Objects,
             \/ close(t, o) \/ set_blocking(t, o) \/ bind(t, o)
             \/ listen(t, o) \/ connect(t, o) \/ transfer(t, o)
             \/ \E conn \in Objects : accept(t, o, conn)
      PROVE  CInv'
  BY <1>3, CloseCounts, SetBlockingCounts, BindCounts, ListenCounts,
     ConnectCounts, TransferCounts, AcceptCounts
<1>4. CASE Tick
  <2>1. IInv'
    BY <1>4, NextIInv DEF CInv, Next
  <2> QED BY <1>4, <2>1 DEF Tick, CInv, Frames, Counts, Doing, Senses, At
<1>5. CASE Peers
  BY <1>5, PeersCounts
<1> QED BY <1>1, <1>2, <1>3, <1>4, <1>5 DEF Next

-----------------------------------------------------------------------------
(* What the methods have told their callers, with what the method that is  *)
(* under way still has to tell, is what went over the connection: no       *)
(* path of recv, recv_all, send and send_all, partial transfers and        *)
(* timeouts included, forgets or invents a byte.                           *)
THEOREM SocketBytesToldOf == SocketSpec => []BytesToldOf
<1>1. CInv => BytesToldOf
  BY CountsImply
<1> QED BY InitCInv, NextCInv, <1>1, PTL DEF SocketSpec

(* A connection that is up is marked as not connected only when its peer   *)
(* has closed it and everything that it sent has been received, or after a *)
(* method that was given the length 0.                                     *)
THEOREM SocketEndOfStream == SocketSpec => []EndOfStream
<1>1. CInv => EndOfStream
  BY CountsImply
<1> QED BY InitCInv, NextCInv, <1>1, PTL DEF SocketSpec

=============================================================================
