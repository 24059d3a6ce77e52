# TLA+ models of the TOPPERS/ASP kernel of asp-athrill-mbed

The repository runs mbed programs on *athrill*, a simulator of the V850
processor, on top of TOPPERS/ASP, a real-time kernel of the μITRON4.0 family.
The kernel (`asp-athrill/`) is the part with a logic of its own that is hard to
test: a priority scheduler with task exceptions, nested interrupt handlers that
call services, waits that may end in four ways, a timer whose clock wraps
around, and half a dozen kinds of objects to wait for. Above it are a serial
driver and the TCP sockets of mbed on the simulator's system calls; below it is
the port to the V850. These modules model all of that, check it with TLC on
small configurations, and prove much of it for every configuration with TLAPS:
the scheduling of the kernel, its task exceptions and waits, the timer, the
port, the serial driver and the sockets.

Paths below are relative to the repository; `kernel/`, `extension/` and
`syssvc/` are in `asp-athrill/`, and `prc_support.S` and `prc_config.h` are in
`asp-athrill/arch/v850_gcc/`.

## 1. The system

### Components

| Component | State | Operations | Correct means |
|---|---|---|---|
| Queues (`include/queue.h`) | rings of queue heads | insert before, delete, delete next, test | order of insertion, no node in two rings |
| Tasks (`kernel/task.c`) | TCBs, `ready_queue`, `ready_primap`, `p_schedtsk`, `p_runtsk`, `dspflg`, `disdsp`, `ipmflg`, `reqflg` | make ready or not, change priority, rotate, call exception routine | `p_schedtsk` is always the answer to "who should run", found without looking again |
| Waits (`kernel/wait.c`, `wait.h`) | wait queues, `WINFO` (result, time event) | start a wait; complete, time out, release; move with a change of priority; release a whole queue | a wait ends once, with one result, and leaves no link behind |
| Task management (`task_manage.c`) | `actque` | act, iact, can_act, ext, ter, chg_pri | a queued activation is not lost; a task starts afresh |
| System state (`sys_manage.c`), interrupt mask (`interrupt.c`) | the CPU lock, the flags of `task.c` | rot_rdq, loc_cpu, unl_cpu, dis_dsp, ena_dsp, chg_ipm | two reasons to hold dispatching back do not get confused; lifting the last one dispatches |
| Task exceptions (`task_except.c`) | `enatex`, `texptn` | ras, iras, dis, ena; the routine's return | a pending exception is served as soon as it may be, and not before |
| Task synchronization (`task_sync.c`) | `wupque` | slp, tslp, wup, iwup, can_wup, rel_wai, irel_wai, sus, rsm, dly | a wakeup before, during or after the sleep has the same effect; suspension and waiting overlap freely |
| Time events (`time_event.c`, `.h`) | a binary heap with back-indices, four clocks | set, cancel, tick, time left | never early, in time order, no drift, with clocks that wrap around |
| Cyclic and alarm handlers (`cyclic.c`, `alarm.c`) | started or not, time event | start, stop, handler call | a cycle does not drift |
| Semaphores (`semaphore.c`) | `semcnt`, a wait queue | sig, isig, wai, pol, twai, ini | no resource lost or made up; the queue's order |
| Data queues, priority data queues (`dataqueue.c`, `pridataq.c`) | a ring, or blocks in lists; queues of senders and receivers | snd, psnd, ipsnd, tsnd, fsnd, ifsnd, rcv, prcv, trcv, ini | order of messages through buffer, sender and receiver |
| Event flags (`eventflag.c`) | `flgptn`, a wait queue | set, iset, clr, wai, pol, twai, ini | whom a pattern satisfies gets it |
| Mailboxes (`mailbox.c`) | a list through the messages | snd, rcv, prcv, trcv, ini | order of messages |
| Memory pools (`mempfix.c`) | blocks, free list | get, pget, tget, rel, ini | no block given twice or lost |
| V850 port (`prc_support.S`, `prc_config.*`) | `psw`, mask registers, `lock_flag`, `current_intpri`, `intnest`, saved contexts | dispatcher, idle loop, interrupt and exception entry and exit, mask operations | what the portable kernel assumes about the CPU lock and the mask |
| Start-up (`startup.c`) | | initialize every module, start dispatching | the first dispatch picks the first task |
| Serial driver (`syssvc/serial.c`, `target/v850_gcc/target_serial.c`) | two ring buffers, two semaphores, flow control, the UART | open, close, write, read, control, two interrupts | the right to use a buffer is in one place; what is to be sent is sent, in order |
| Log, log task, banner (`syssvc/`) | log ring | write, read | |
| Mutexes (`extension/mutex`) | owner, lists of locked mutexes, base and current priority | loc, ploc, tloc, unl, ini; ext, ter, chg_pri as changed | the current priority is the right maximum; a mutex left behind is handed over |
| Other kernel extensions (`extension/`) | variants of the kernel | dynamic creation, overrun, restricted tasks, levels | not built by this repository |
| Sockets (`mbed-lib/EthernetInterface/Socket`, `lwip-athrill`) | descriptor, `_is_connected`, blocking or not | bind, listen, accept, connect, send, receive, close; polling of the host | no descriptor lost; every byte reported; a timeout ends the call |
| lwIP and its system layer (`mbed-lib/EthernetInterface/lwip*`) | | | vendored, not built by this repository |

`PROJECT.json` lists every component with its sources and its status.

### How they interact

Tasks, interrupt handlers and the time tick call services. A service of a task
locks the CPU, changes TCBs and queues through `task.c` and `wait.c`, and, if an
operation returned "a dispatch is needed", calls `dispatch()`, which saves the
caller and switches to `p_schedtsk`; the caller goes on, much later, from
there. A service of a handler sets `reqflg` instead, and the end of the
outermost handler dispatches or starts an exception routine. If there is no
ready task the dispatcher idles with interrupts open until `reqflg` is set. The
tick handler calls `signal_time`, which runs a callback for each event that is
due: the end of a wait, or a cyclic or alarm handler; between two callbacks
other handlers may come in.

A service that hands something over (data, a pattern, a message, a block) to a
task that waits writes it into that task's wait information block and ends the
wait; the receiver finds it there when it runs again. The serial driver sits on
two semaphores and on the SIO driver's callbacks. The sockets use one kernel
service, `dly_tsk`, between two polls of the simulator's host.

### What is hard

* `p_schedtsk`, `ready_primap` and `dspflg` are **cached answers** kept up to
  date by hand in every operation; an operation that returns FALSE is never
  asked again. The current priority of a task with mutexes is another, and
  `_is_connected` of a socket one more.
* **Interrupts between any two service calls**, nested, even inside the tick:
  the wait a callback is about may just have been ended by someone else.
* **Four ways to end a wait** (completion, timeout, release, termination)
  and a suspension that overlaps with it, for two queues of one object.
* **Two reasons to hold dispatching back** and six functions that write the
  three flags about it.
* **Exceptions** that become pending when they must not start; five places
  have to look again, and one of them dispatches in the middle.
* **Rights that pass between tasks and interrupt handlers** without anyone
  holding them: the semaphores of the serial driver.
* **Loops of polls** with timeouts, on a host that answers when it likes.
* **Time arithmetic** that wraps around and rounds.

The list, line by line, with the properties that would catch each one, is under
`hazards` in `PROJECT.json`.

## 2. The modules

```
Queue ── Task ── Wait ── TaskManage ── TaskSync ──┬─ Semaphore ──────────────┐
                             │                    ├─ WaitObject ─┬ DataQueue ┤
                   refines PrioritySched          │              ├ PriDataQ  ├─ Comm
                                                  │              ├ EventFlag ┤
                                                  │              ├ Mailbox   ┤
                                                  │              └ MemPFix ──┘
                                                  └─ Mutex
TimeEvent  refines TimerQueue
PrcV850         Serial         Socket
KernelProofs ─┬─ SyncProofs    (both about TaskManage, TaskSync)
              ├─ CommProofs    (about Comm)
              └─ MutexProofs   (about Mutex)
PrcProofs, SerialProofs, SocketProofs, TimeEventProofs
                                  (about PrcV850, Serial, Socket, TimeEvent)
```

**`Queue`**: `include/queue.h`. A ring is the sequence of its members.

**`Task`**: `kernel/task.c`, `task.h` and the dispatcher. Each function is an
operator from the record of all kernel variables to the new record; where the C
function returns "dispatch needed" the operator returns
`[st |-> …, dsp |-> …]`. `tstat` is the set of its flag bits, the bitmap the set
of its priorities. `DispatchIf` and `RequestIf` are the two things a service does
with the answer: `dispatch()` in a task, `reqflg = true` in a handler.

A task switched out inside `call_texrtn` keeps its place there: `texfrm[t]` is
the stack of its active `call_texrtn` calls (each with the `disdsp` it saved),
`texlp[t]` says that it was switched out by the `dispatch()` in the loop.

**`Wait`**: `kernel/wait.c`, `wait.h`. The time event of a wait is the number
of ticks left, −1 for none (exact heap behaviour is `TimeEvent`'s).

**`TaskManage`**: the kernel proper: the variable `k`, start-up, the services of
`task_manage.c`, `sys_manage.c`, `interrupt.c`, `task_except.c`, interrupt entry
and exit, the idle loop. A service call is one action because it runs with the
CPU locked from its checks to its last assignment; a call refused by a check is
no step. Between any two actions a handler may come in (`int_entry`) unless a
task holds the CPU lock, and call any handler service. `chg_ipm` has two forms,
as the kernel tells only `TIPM_ENAALL` from the other masks. After
`texrtn_return` the action goes on through the rest of `call_texrtn`, dispatch
included, as the code does.

**`TaskSync`** adds `task_sync.c` and the tick. `tick_entry` ages every event by
one tick; each `signal_time(t)` is one callback; `tick_return` needs none to be
due. Other handlers interleave between them.

**`Semaphore`**, **`DataQueue`**, **`EventFlag`**, **`Mailbox`**, **`PriDataQ`**,
**`MemPFix`**: the services of one object each, with the object's management
area as it is in memory: the ring with `head` and `tail`, the list of blocks, the
free list and the count of blocks never used. **`WaitObject`** has what they
share: `winfo[t]`, the object's own part of a wait information block (what the
wait is about, and then what it got), and `ret[t]`, what a service returns.
Loops that end one wait after another (`init_wait_queue`, `set_flg`) are
`Repeat`, a recursive function of the number of rounds; lists in memory are
followed by `Chain`.
`rel_mpf` is two steps, its test and the rest, because the code tests before it
locks the CPU.

**`Comm`** composes them with what may meet a waiting task: timeouts, releases,
suspensions, terminations, changes of priority, the tick and a handler. The
objects in use, `conf`, are chosen at the start from `Configurations`. Sleeping,
masks, exceptions and queued activations are left out of its next-state
relation, as they are checked without objects in `TaskSync` and `TaskManage`. Of
programs it assumes what the documents ask of them: a message that has been
sent is not sent again before it is received, a block is released by one task
and once, and a pool is not initialized while one of its blocks is being
released.

**`Mutex`**: `mutex.c` of `extension/mutex` and the functions the extension
changes in `task.c` and `task_manage.c`, named as there with the suffix `_mtx`.
The fields it adds to the control blocks (`bpriority`, `mutex_queue`, `loctsk`)
are the record `mtx` beside `k`, so that the services without mutexes are those
of `TaskSync` and leave `mtx` alone.
The CPU lock, masks, exceptions and handlers other than the tick do not occur.
`Programs` gives the tasks, mutexes and priorities a run uses, one of them
chosen at the start. The assertions of `mutex.c` (386,
434 and 482) say that taking a mutex never calls for a dispatch; none is made
there, so `DispatchOK` would be violated if it did. This repository's build does not use the
extension; it is here because nothing else in the tree changes priorities behind
a task's back.

**`TimeEvent`**: the heap of `time_event.c`, node by node, with times modulo
`EVTTIM_MOD`, the fraction of a millisecond of a tick, and the users' ways to set
and cancel events, `cyclic.c`'s re-arming from within the tick included.
`signal_time_begin`, `signal_time_event` and `signal_time_end` are the pieces
between which the CPU is unlocked.

**`PrioritySched`** (abstract): the processor goes to a ready task of the highest
priority in any step after which dispatching is not held back; otherwise whoever
has it keeps it. `TaskManage` maps `ready` to the members of the ready queues,
`run` to `p_runtsk` and `held` to "starting, `dspflg` false, in a handler, or an
idle loop with `reqflg` set".

**`TimerQueue`** (abstract): timers in exact, unbounded time. `TimeEvent` maps
the time left of each event to the distance of its node from `min_time`.

**`PrcV850`**: `prc_support.S`, `prc_config.h` and `prc_config.c`, beneath a
portable kernel that is nondeterministic: a task or handler may lock and unlock
at any time, and whoever may switch may switch to any task. The record `c` holds
the mask registers (`imr`, the level `set_intpri` wrote last), the levels in
service (`ispr`), `lock_flag`, `current_intpri`, `intnest`, `ipmflg`,
`runtsk`, the stack of what is in progress (`stack`, innermost first: task code,
exception routines, handlers of interrupts and of CPU exceptions, the idle loop,
the dispatcher) and the stacks saved in the TCBs (`tcb`). Each frame says where
it stands, in user code, in a critical section, or at a label of the assembler
source, so that a switch in the middle of the end of a handler (`ret_int`,
resumed at `ret_int_r`) is a saved stack like any other. What the port does with
`PSW.ID` set is inside one action; between two actions the interrupt controller
admits whatever mask and level in service let through (`interrupt`), and code
may cause a CPU exception where `Faults` says. `restore_imr` needs no state:
`set_intpri` overwrites what it wrote. `Spec` is without exception routines,
`TexSpec` with them.

`PrcV850` is also what the kernel's modules rest on. That a service of
`TaskManage`, `TaskSync` or an object is one action presupposes that nothing
interrupts it between `t_lock_cpu` and `t_unlock_cpu`. `LockKept` shows that the
port keeps that promise except after a call of `x_set_ipm` with the CPU locked
(what follows it in `chg_ipm`, in `ext_tsk` of a task with a mask, at the end of
`call_texrtn` and of `call_cychdr` and `call_almhdr`) and after a CPU exception
in a critical section, whose two ways out (`return_from_exc`, and
`return_from_int` by way of `check_texrtn_cond`) each undo a part of the lock.
There the atomic action is the intention of the portable code, not what this port
does.

**`Serial`**: `serial.c` on the SIO driver of `target_serial.c`, for one port:
the control block `p` with its two buffers as sequences, flow control and what
the UART holds (`uatx`, `uarx`, the interrupt's request `txreq`), the two
semaphores `sem`, and where each task is (`us`). A step of a task is a wait, a
signal, or a section with the CPU locked, and the steps of tasks come in any
order; the interrupts may be late by as much as they like.
`dis_int` and `ena_int` return E_CTX in a handler (`interrupt.c` 120–126), so the
callbacks are never disabled from `sio_irdy_snd` and `sio_irdy_rcv`, and the
model does not disable them either.

**`Socket`**: the methods of `TCPSocketServer`, `TCPSocketConnection` and `Socket`
(mbed's classes) and the functions of `lwip-athrill.c` under them. `sock[o]` is
what an object holds, `call[t]` the method a task is in with its progress,
`slept` who is in `dly_tsk`, `host` the descriptors of the simulator's host with
what the peers have sent, taken or closed. A step of a task is what it does up to
its next poll of the host or its next sleep. The host is external and as free as
the code lets it be: it answers an error once or again and again, and then as if
the peer had closed; `select` may fail, which ends a method as a timeout
does; which free descriptor it gives makes no difference, so an object gets its
usual one (`UsualFd`) as long as that is free;
`shutdown`, which is what `close` calls, frees it. Methods that fail at once
change nothing and are left out, as are `receive_all` and `send_all` of nothing,
which do not reach the host. One task owns an object and calls its methods; it
accepts on a socket that listens, into any of its connections, also one that is
open: the descriptor that `accept` overwrites there is `Lost`, open at the host
and no object's, and what its peer does is left out. `set_blocking` is called
before the socket has a descriptor, a bound of the model. Lengths are 0 to
`MaxLen`; the host answers a transfer of nothing with 0, as for the end of a
connection, and both `receive` and `send` take it for that. `_timeout` counts for
each piece that `receive_all` and `send_all` transfer, as in the code.

In the specification modules an operator whose comment begins with "Mutant:" is a
plausible mistake in the definition after it, kept to show that the properties
would notice; nothing uses these operators.

## 3. What the runs check

| Run | Configuration | Shows |
|---|---|---|
| `task` | `MCTaskManage`: 3 tasks, 2 of equal priority, 2 priorities, 1 exception routine nesting twice, 1 handler | `TypeOK`; `ReadyQueuesOK`, `DispatchOK`, `DspflgOK`; exceptions served (`TexServed`) and only when allowed (`TexStartsUnmasked`); `NoOvertaking` among equals; implements `PrioritySched` |
| `sync` | `MCTaskSync`: 2 tasks of different priority, 2 nested handlers (one may be the tick), timeouts of one tick, with fairness | `QueuedRequestsOK`, `WaitResultOnce`, `TimedWaitEnds`; the scheduling properties of this specification are proved, section 4 |
| `comm` | `MCComm`: 2 tasks of different priority, 1 handler, timeouts of one tick, and one of 10 objects: semaphores (1 resource, priority order; none, FIFO), data queues (0 places; 2, priority order), event flags (cleared, many waiters, priority order; plain), mailboxes (by arrival; by priority), a priority data queue of 2, a pool of 2 | `DispatchOK`, `WaitLinksOK` with objects' queues; `NoVainWait`, `AreasOK`; `SemConserved`, `SemInOrder`, `MessagesInOrder`, `FlgServed` |
| `mutex` | `MCMutex`: 2 tasks with ceilings 0 and 1 and a plain mutex; 3 tasks with one mutex of either kind | `DispatchOK`, `PriorityOK`, `OwnersOK`, `MutexHandedOver` |
| `serial` | `MCSerial`: 2 tasks, buffers of 2; echo, CR LF and flow control as a port opens, or flow control that any character lifts | `TokensOK`, `SendingOK`, `NeverError`, `SentInOrder` |
| `serial_rel` | the same, waits for an echo may be released too | a disagreement, see below |
| `socket` | `MCSocket`: a server that receives on an accepted connection, of higher priority, and a client that connects and sends; connections that break; 3 descriptors | `DescriptorsOwned`, `BytesToldOf`, `EndOfStream`; `NonBlockingEnds`, `ReadyIsServed` |
| `socket_recv` | the same | a disagreement, see below |
| `tmevt` | `MCTimeEvent`: 6 events (one cyclic), ticks of 3/2 ms, times modulo 7 | `TypeOK`, `HeapOK`, `LefttimOK`; implements `TimerQueue` (`KeepsTime`) |
| `prc` | `MCPrcV850`: 2 tasks, interrupts of 2 levels, masks 0 and 1, CPU exceptions in user code and in critical sections, `Spec` | `NestOK`, `LevelsOK`, `MaskOK`, `LockKept` |
| `prc_ipm` | the same, 3 frames, no CPU exceptions | a disagreement, see below |
| `prc_tex` | 3 frames, 1 exception routine, CPU exceptions in user code, `TexSpec` | a disagreement, see below |

The properties, briefly:

* `ReadyQueuesOK`: ready queues = runnable tasks, at their current priority,
  each once; bitmap = non-empty queues; `p_schedtsk` = first of the highest.
* `DispatchOK`: whenever a task may be preempted it *is* `p_schedtsk`; a
  difference in a handler has been noted in `reqflg`; `reqflg` is never left over.
* `DspflgOK`: `dspflg` = `ipmflg` and not `disdsp`, as `design.txt` says.
* `TexServed`: an exception that may start has started, or the handler in
  progress will start it. `TexStartsUnmasked`: a routine starts only in the
  running task, with no interrupt masked, and where exceptions were enabled
  before the step, or are by the `ena_tex` that starts it.
* `NoOvertaking`: two ready tasks of equal priority keep their order until one
  is rotated, requeued or restarted.
* `WaitLinksOK`: linked in a wait queue ⇔ waiting for an object, once, in order;
  a time event ⇒ waiting; `dly_tsk` ⇒ a time event; and only the tick sees one
  that is due. Which object `WINFO` names it does not say, nor that a wait
  without a limit has no event: the state has no other record of the limit.
* `QueuedRequestsOK`: no sleeping task has a wakeup queued; a dormant task keeps
  nothing of its previous life.
* `WaitResultOnce`: the result of a wait is set when it ends and survives
  whatever happens until the task runs.
* `NoVainWait`: nobody waits for what is there: resource and queue, places and
  senders, messages and receivers, pattern and waiters, blocks and takers.
* `AreasOK`: the management areas are the structures they should be: each block
  in one list or with one owner, the ring's indices and count agreeing.
* `SemConserved`: E_OK goes to one waiting task per signal, in place of counting;
  E_DLT, E_TMOUT only from where they belong. `SemInOrder`: in the queue's order,
  which not even `chg_pri` changes in a FIFO queue.
* `MessagesInOrder`: every step delivers what the order of the object says, each
  message once, through the buffer, past it, or out of a sender that waits.
* `FlgServed`: a wait for a flag ends with E_OK only with a pattern that satisfies
  it; one that clears the pattern is the only one it ends for, and the first in
  the queue that it satisfies.
* `PriorityOK`: the current priority is the highest of the base priority and the
  ceilings held. `OwnersOK`: owner and list agree, a dormant task owns nothing.
  `MutexHandedOver`: a mutex changes hands by being given up to the first
  waiter, and E_OK means to have it.
* `TokensOK`: the right to use each buffer is in one place, the semaphore, a
  task, or the callback that is to signal it. `SendingOK`: what is to be sent is
  being sent. `NeverError`: no signal too many. `SentInOrder`: order, and silence
  while stopped.
* `DescriptorsOwned`: an open descriptor belongs to exactly one object, unless
  `accept` has overwritten it. `BytesToldOf`: what the results told of is what
  went over an unbroken connection. `EndOfStream`: a connection ends for its owner
  only when the peer has closed it and nothing is left to receive, or by a
  transfer of length 0. `NonBlockingEnds`: a method with a
  timeout ends. `ReadyIsServed`: tasks that poll leave the CPU to others.
* `KeepsTime`: never early, never before an event due earlier, in the first
  tick possible, without drift.
* `NestOK`: `intnest`, by which every service tells a task from a handler, counts
  the handlers in progress through every switch.
* `LevelsOK`: the levels in service are those of the handlers in progress, none
  is left behind when a handler's end dispatches, and `current_intpri` is the
  innermost one's.
* `MaskOK`: a task runs under the mask it set, wherever it was interrupted or
  switched out, and `ipmflg` says whether there is one.
* `LockKept`: critical sections are entered with the mask of the CPU lock, which
  stays, from task to task through the dispatcher, unless `x_set_ipm` or the end
  of a CPU exception opens it, both ways that this end may take.

**Bounds.** `MaxNest` limits nested handlers: one shows every race between a task
and handlers; two, a handler between two callbacks of the tick. `MaxTex`
limits exception routines that nest because a routine enables exceptions
again: two is one inside another. Two priorities and three tasks give a
preemption, an equal, and an order of three; two tasks suffice where the
property is about one task and its environment, or, in `comm`, about one that
waits and one that serves it (or two that wait and a handler that serves them).
`MaxTmo` is 1: a wait that starts in a tick's handler time and one that is due
now both occur, as timeouts count from the next tick. In `comm` one object at a
time loses nothing but tasks that go from one object to another, which
`wobj_make_wait` begins afresh; the variants are those in which the code
branches. In `mutex` two ceilings and a plain mutex are unlocked in every order,
and three tasks give an owner, a task that waits and one that ends or reorders
them. Buffers of two characters in `serial` fill, empty and cross the limits of
flow control, 3/4 and 1/2, in a few steps. In `socket`, three descriptors let a
listening socket and both connections be open together, and `accept` overwrite
one and meet a host without a free one; `Polls` = 1 is a timeout with and without
a sleep before it; with one byte on its way and buffers of two, transfers are
short, full and empty, and the client also sends nothing. `receive` and `send_all`
take the steps of the other two methods; the theorems are about all four
methods. Six events are the fewest for which `tmevtb_delete` has to move its
last node *up*. `EVTTIM_MOD` = 7 is the smallest that leaves `RELTIM` plus the
ticks between `min_time` and `base_time` room, so that every comparison wraps
around in a short behaviour; `TimeEventAssumption` is the condition the comment
of `EVTTIM` hints at ("a wider range than RELTIM"). In `PrcV850` four frames
(`MaxDepth`) are a task, the interrupt frame it was switched out in and two
handlers on top; two levels give a handler that another one interrupts and one
that nothing does, the second being the level of the CPU lock as `INTPRI_LOCK`
is the highest managed. The one-shot events, and the tasks of `prc` and
`serial`, are symmetric; no temporal property with fairness is checked under
symmetry.

**Deadlock** is checked everywhere: interrupts, the UART or programs always have
a next step.

**Fairness.** `TickFairness` of `TaskSync`: `WF` of the start-up steps: nothing
can prevent them. `SF` of the tick's entry: the timer interrupt stays pending in
the controller, so it is taken at some time when the CPU is unlocked, even if
tasks lock it again and again. `SF` of the ends of handlers and of the
iterations of `signal_time`: a handler runs at a higher priority than tasks and
ends. `WF` of `unl_cpu`: a task that locks the CPU unlocks it, the rule of the
ITRON specification for programs. No task needs to be scheduled fairly and none
is assumed to be. `SocketSpec`: `WF` of the tick, and `SF` of each task's steps
inside a method: a task that polls sleeps a millisecond between two polls, and
one that is between two calls is taken to leave the CPU now and then, so every
task gets the CPU infinitely often. Nothing is assumed of peers, and a task that
polls an error without a sleep is named in the properties (`Stuck`).

**Disagreements.** Four runs check what a comment, a document or a test says and
end in a counterexample.

* `prc_ipm` checks `LockMasks`: with the CPU locked, the mask registers hold the
  mask of the CPU lock, as the comment of `TIPM_LOCK` (`prc_config.h` 173) says.
  `x_set_ipm` writes its mask to the registers at once although its callers hold
  the lock. After `chg_ipm(TIPM_ENAALL)` the rest of the service runs open:
  `lock_flag` is true, but interrupts come in while `chg_ipm` looks at
  `p_runtsk` and `p_schedtsk` and while `dispatch` saves the context. A handler
  in that window may end in `ret_int`, which saves the same task's context again.
* `prc_tex` checks `TexUnmasked`: an exception routine starts with everything
  enabled, as `doc/porting.txt` (2063) requires of the place marked (*b).
  `check_texrtn_cond` (`prc_support.S` 487) calls `call_texrtn` before it has
  restored `current_intpri` and before `reti`: the routine runs under the mask of
  the handler that ended, with its level in service. If it dispatches, other tasks
  run without interrupts of that level.
* `serial_rel` checks `ReaderServed`: while characters are there, a reader that
  waits has another before it. `serial_rea_dat` (`serial.c` 578), in the middle of
  reading, waits for the send buffer to echo a character; if that wait is
  released it leaves by `error_exit`, past the signal of the receive buffer's
  semaphore, and no later reader is served (`doc/user.txt` 1212).
* `socket_recv` checks `ErrorsReturned`: a receiving method returns −1 on an error,
  as `TCPSocketConnection.h` (65) and the branch "Connnection error" of
  `receive_all` say. `lwip_recv` (`lwip-athrill.c` 168) polls again as long as the
  host answers with an error, without a sleep when it is not "again": the method
  does not return, and while the error lasts no task of lower priority runs.

**Seen on the way, without a run.**

* `bit_semaphore` of `test/bit_kernel.c` (421) requires each task in a semaphore's
  queue to have the state `TS_WAITING | TS_WAIT_SEM` exactly. One that is suspended
  while it waits stays queued with `TS_SUSPENDED` too (`sus_tsk`, `task_sync.c`
  438), as `bit_task` of the same file (186) expects: the check reports E_SYS
  where nothing is wrong. The check of a dormant task (229) has its `!` inside
  the comparison, so that it cannot fail the way it should.
* The exception entry stores `r19` and `ep` in two words of the frame that its
  return loads the other way round (`prc_support.S` 591 and 603, 781 and 784).
  The idle loop enters the dispatcher with `lock_flag` false, though with the
  lock's mask.
* `sio_dis_cbr` and `sio_ena_cbr` do nothing when called from a callback, because
  `dis_int` and `ena_int` are services for tasks; `doc/porting.txt` (3593–3596)
  wants them to work in both contexts. The interrupt of a transmission that is over may
  come after a task or handler has found the transmitter idle and started it
  again; its callback then ignores that `sio_snd_chr` refuses the next character
  (`serial.c` 664, 671), and that character is lost: the exception that
  `SentInOrder` names. `sio_rcv_chr` clears `port_id` where it means
  `received` (`target_serial.c` 193).
* `accept` (`TCPSocketServer.cpp` 74) overwrites the descriptor of a connection
  that is still open, which nothing can close any more, although the destructor
  of `Socket` closes its descriptor as "Don't want to leak" (`Socket.cpp` 85):
  the exception that `DescriptorsOwned` names.
* After `receive` or `send` of 0 bytes `is_connected` is false with the connection
  up (`TCPSocketConnection.cpp` 110, 66; "true if connected",
  `TCPSocketConnection.h` 44), and every later transfer refuses to work: the
  exception that `EndOfStream` names.
* The comment in `end_exc_handler` (`prc_support.S` 696) says that the end of a
  CPU exception puts the CPU lock back to the state of before, and
  `doc/porting.txt` (2348, 2410–2413) wants that state too. `return_from_exc` sets
  the mask from `current_intpri` (757–761) after `end_exc_handler` restored the
  lock's (703–704): `lock_flag` is true again while interrupts come in. With
  `reqflg` set and no switch to make, the end goes to `check_texrtn_cond` (735,
  741, 750) and by `return_from_int`, which clears `lock_flag` (414–415), so that a
  service called before the section is over finds the CPU unlocked. `reqflg` can
  be set there, as the exception's handler runs with the section's mask open, and
  a handler that comes in may call services. Whether it is, the module leaves open,
  like everything about which task the portable kernel wants to run. Both ways
  are steps of `PrcV850`, and exceptions that `LockKept` names.
* `is_connected()` stays true after `close()`, which does not clear
  `_is_connected`. The loop of `lwip_connect` (`lwip-athrill.c` 126–139) polls
  errors other than a refusal again and without a sleep. `send_all` returns −1
  for an error after some pieces are sent.

## 4. What is proved

Each theorem is about every instance of its specification: any number of tasks,
priorities, nested handlers and exception levels for the kernel; any tasks,
levels, masks, depth of handlers and places of CPU exceptions for the port; any
events, cycles, length of a tick and width of `EVTTIM` for the timer; any semaphores, event flags, data queues, mailboxes and pools with their
capacities, attributes and messages for the objects; any
tasks, strings, settings and sizes of the buffers for the serial driver; any
tasks, sockets, descriptors, timeouts and data for the sockets; any tasks, mutexes
and ceilings for the mutexes.

| Module | Theorem | States |
|---|---|---|
| `KernelProofs` | `SyncTypeOK`, `SyncReadyQueuesOK`, `SyncDispatchOK`, `SyncDspflgOK` | `SyncSpec => []` of `TypeOK`, `ReadyQueuesOK`, `DispatchOK`, `DspflgOK` |
| | `ManageInvariants` | the four for `Spec` of `TaskManage` |
| | `SyncSchedules`, `ManageSchedules` | the kernel implements `PrioritySched` |
| | `SyncWaitLinksOK` | `SyncSpec => []WaitLinksOK` |
| `CommProofs` | `CommDispatchOK`, `CommWaitLinksOK`, `CommNoVainWait`, `CommAreasOK` | `CommSpec => []` of `DispatchOK`, `WaitLinksOK`, `NoVainWait`, `AreasOK` |
| | `CommSemConserved`, `CommSemInOrder`, `CommFlgServed` | the action properties `SemConserved`, `SemInOrder`, `FlgServed` |
| `MutexProofs` | `MtxDispatchOK` | `MtxSpec => []` of `TypeOK`, `ReadyQueuesOK`, `DispatchOK`, `DspflgOK`, `WaitLinksOK` |
| | `MtxOwnersOK`, `MtxPriorityOK` | `MtxSpec => []` of `OwnersOK`, `PriorityOK` |
| `SyncProofs` | `SyncTexServed`, `ManageTexServed` | `[]TexServed` |
| | `SyncTexStartsUnmasked`, `ManageTexStartsUnmasked` | the action property `TexStartsUnmasked` |
| | `SyncQueuedRequestsOK` | `SyncSpec => []QueuedRequestsOK` |
| | `SyncWaitResultOnce` | `SyncSpec => WaitResultOnce`, an action property |
| `PrcProofs` | `PrcInvariant` | `Spec => []PrcInv`, the inductive invariant |
| | `PrcNest`, `PrcLevels`, `PrcMask` | `Spec => []` of `NestOK`, `LevelsOK`, `MaskOK` |
| | `PrcLockKept` | `Spec => LockKept`, an action property |
| `TimeEventProofs` | `TimeInvHolds` | `Spec => []TimeInv`, the inductive invariant |
| | `TimeEventTypeOK`, `TimeEventHeapOK`, `TimeEventLefttimOK` | `Spec => []` of `TypeOK`, `HeapOK`, `LefttimOK` |
| | `TimeEventKeepsTime` | `Spec => KeepsTime`: the heap implements `TimerQueue` |
| `SerialProofs` | `SerialInvariant`, `SerialTypes` | the inductive invariant, and the types |
| | `SerialNeverError`, `SerialSending` | `SerialSpec => []` of `NeverError`, `SendingOK` |
| | `SerialSentInOrder` | `SerialSpec => SentInOrder`, an action property |
| | `SerialTokens` | `"echo" \notin Releases /\ SerialSpec => []TokensOK` |
| | `SerialExclusive` | `SerialSpec => []BuffersExclusive` |
| `SocketProofs` | `SocketTypeOK`, `SocketDescriptorsOwned`, `SocketInMethod` | `SocketSpec => []` of `TypeOK`, `DescriptorsOwned`, `MethodsOpen` |
| | `SocketBytesToldOf`, `SocketEndOfStream` | `SocketSpec => []` of `BytesToldOf`, `EndOfStream` |

**Assumptions.** Those of the constants: `TaskAssumption` (NULL is no task, the
initial priorities are priorities), `WaitAssumption`, `TaskManageAssumption`
(`torder_table` names each task at most once), `TaskSyncAssumption`, those of
the objects (initial counts within the limits; NULL is no message, no block's
number and no block; finitely many messages; `CommAssumption`: each object's
wait queues are its own, as each control block has its own),
`MutexAssumption` (a mutex is named like its wait queue, those with a ceiling
have their waiters in order of priority, as `TA_CEILING` includes the bit of
`TA_TPRI`, and ceilings are priorities),
`SocketAssumption` (an object has one owner, −1 is no descriptor),
`SerialAssumption` (control characters are no others, buffers are not empty),
`TimeEventAssumption` (a tick is longer than nothing, a cycle too, `EVTTIM` has
room for the longest relative time and two ticks, and `TA_STA` names a handler
once) and `PrcAssumption` (NULL is no task, masks are no higher than the lock's).
One theorem has a hypothesis of its own: `SerialTokens` holds while no wait for an
echo is ended, which the run `serial_rel` shows to be necessary.
`SerialExclusive` is what remains without it.

**Argument for the kernel.** None of the invariants is inductive alone.
`dispatch()` runs `p_schedtsk`, so `DispatchOK` needs `p_schedtsk` to be right
(`SchedOK`), which needs the bitmap and the queues (`QueuesOK`); a task is
unlinked from the queue of its priority, so its membership must follow from its
state (`RunnableOK`); `make_dormant` and `make_active` rely on a task that does
not wait having no time event (`TimersOK`); returning from an exception routine
relies on there being one (`TexFramesOK`); `ena_dsp` and `chg_ipm` rely on
`FlagsOK`; the idle loop is safe only because it is entered with `dspflg` true.
Before the first dispatch nothing of this is about a running task, but the tasks
not yet initialized must be dormant (`Starting`), or `make_active` would link one
twice.

`KernelInv` is the conjunction: `Base` (all about queues, states, waits and
flags) and, by `ini`, `Switched` or `Starting`. Of waits `Base` says `Waits`:
each task is linked in a wait queue just if its state says that it waits for an
object, once and in the order of the queue, and has a time event just if it may
have one (`WaitOK`). In the middle of a service this is wrong for one task or
some: one taken out of its queue that is still marked as waiting, or one marked
that is not linked yet. `BaseBut(S, X)` is `Base` with the exception of the tasks
in `X`, and each piece of code is shown to make `X` smaller or larger by the task
it deals with: `wait_dequeue_wobj` takes a task from `Base` to `BaseBut`,
`make_non_wait` takes it back.

The proof is layered as the code is:

1. `KernelProofs`, first part: inserting at the end, deleting, rotating a sequence
   without repetition.
2. `KernelProofs`, second part: each operation of `task.c` keeps `QueuesOK` and `SchedOK`,
   changes the set of ready tasks as it should, and answers TRUE if `p_schedtsk`
   changed while `dspflg` is set (`Tells`). This is where the shortcuts are
   justified: `make_runnable` comparing with `p_schedtsk` only,
   `make_non_runnable` searching only if it takes `p_schedtsk`,
   `change_priority` in its three cases.
3. `KernelProofs`, the rest: how a step ends (`DispatchStep`, `DispatchIfStep`,
   `RequestIfStep`, `EndHandler`, `TexRoutine`), one lemma per action, the
   invariant, the theorems. For the refinement `Step(k, k')` carries beside the
   invariant that `p_runtsk` changes only to the first task of the highest
   queue.
4. `SyncProofs`: `Extra` beside `KernelInv`. `QueuedRequestsOK` is inductive
   with the invariant of the kernel. `WaitResultOnce` is not: it needs that a task
   that waits, other than one about to be dispatched away, has no result yet
   (`ResultOK`), for a second result would replace it. `TexServed` lets
   a handler defer an exception to the end of the handlers, where
   `return_to_task` starts it without testing `ipmflg` again; that is right
   because a request in `reqflg` is made with `ipmflg` set and handlers do not
   change it (`TexDone`). That a routine starts only where exceptions were enabled
   is `TexAllowed`, which says so of every state in the middle of a step. A step
   is `Good` if it ends in `Extra` and did to results and routines what it may;
   `Middle` says as much of the state between two halves of one, such as before a
   dispatch.

**Argument for the objects.** `CommInv` is `KernelInv` with an invariant for
each kind of object. `SemsOK` and `FlgsOK` join the value with the queue: a
semaphore somebody waits for has no resource, no waiting task's pattern is
satisfied. For the others the areas come in: `Ring` says that count, head and
tail of a data queue describe the same places; `IsList` that a chain of
`p_next` in memory is the sequence of messages it should be; `Area` that the
blocks of a priority data queue are one list by priority, one free list and a
rest never used; `Pool` the same for a pool, whose free list goes through the
blocks' numbers and whose other blocks are marked `INDEX_ALLOC`; `RelsOK` that
a block whose release has been tested stays allocated until `rel_mpf` goes on,
which is why the test may come before the lock. The existence of a sequence (of
messages, of blocks) that the chain goes through is what is inductive; that
`Chain`, which `AreasOK` is stated with, then returns this very sequence is
`ChainIs`, proved by induction on the place in the list.

A service of one object touches its own queues (`Only`), completes waits of
tasks taken from their head, and ends like every service in `DispatchIf`
or `RequestIf`. The loops (`Repeat`) are proved with an invariant about round
`i`: after `i` rounds `init_wait_queue` has the rest of the queue before it, and
`set_flg` the tasks among the first `i` that were to be woken fewer (`Thinned`).
What one kind's service does to the objects of another kind is nothing, since
their queues are apart (`KindsApart`, from `CommAssumption`). Everything else,
from a timeout to a termination or a change of priority, only takes tasks out of wait queues
or reorders them (`QueuesElse`), and no object's invariant minds that: with
fewer tasks waiting, less can wait in vain. This is where the hazard is, and why
each invariant has the form "if somebody waits, then there is nothing", never
its reverse.

The action properties follow from the same invariant and from what a step does
to one queue. `SemQueue` lists it for a semaphore: the first task goes with E_OK and
the count stays (`SignalTakes`), all go with E_DLT (`IniSem`), or the caller is
put at its place (`Placed`). Of all other steps `QueuesElse` says that one task
leaves its queue with E_RLWAI, E_TMOUT or nothing (`Leaves`), or is moved in it
by `chg_pri` (`Moves`). `Without` and `With`, what deleting and inserting do to
a sequence, keep the order of the rest (`WithoutOrder`, `WithOrder`). That a
result, once written, is still in the TCB after the dispatch that ends the service
is part of it (`SwitchLeavesWercd`): a dispatch takes away only the result of
the task that runs, and a task that waits does not run. For an
event flag, `Thinned` says that exactly the tasks of `Woken` leave, and `Woken`
that with TA_CLR this is the first one satisfied (`SetServes`).

**Argument for the mutexes.** `MtxInv` is `KernelInv` and `MtxBut` with no
exception. `MtxBut(S, M, z)` says: lists and owners agree (`ListsOK`); a task in
the wait queue of a mutex waits for a mutex, and the mutex is locked, by another
task (`WaitersOK`); each task but `z` runs at what `mutex_calc_priority` computes,
no ceiling it has locked is below its base priority, and a dormant task has
nothing locked (`OwnerOK`). `z` is the task in the middle of something:
one whose list has lost a mutex and whose priority has not followed yet, as
in `unl_mtx` between `queue_delete` and `mutex_drop_priority`, or one that is
being ended, whose priority does not follow at all. That the tests by which the code avoids
the computation are right is `PriorityOK`'s substance: `mutex_drop_priority`
computes anew only if the task runs at the ceiling given up, since another
ceiling or the base priority is higher otherwise; `chg_pri` leaves the priority alone
while any ceiling mutex is locked, since none has a ceiling below the base
priority, old or new; `mutex_release` compares one ceiling only.

`ext_tsk` and `ter_tsk` first take the task out of its queue and then give up its
mutexes one by one, with the task's state in the TCB still what it was. In
this time `Base` does not hold. But the kernel is as it would be if the task were
only suspended: `Marked` changes a task's state word, each operation of the loop
is shown to do the same whatever it is (`MarkedToo`), and `InOrder` is the
invariant of the loop for the kernel with the task so marked (`Ending`). At the end
`make_dormant` overwrites the word. The services that know nothing of
mutexes leave priorities alone and put no task into a wait queue
(`Quiet`), which `MtxBut` does not mind.

**Argument for the port.** `NestOK` and its companions count and search the
stack, where the code counts up and down and keeps words in frames. `PrcInv`
says what the numbers stand for: for some `n`, the `n` innermost things in
progress are handlers, and below them is a task's code or the idle loop
(`Shape`); `intnest` is `n`, the idle loop counted; each handler's frame has
saved the level and the mask of what it interrupted, that of the outermost an
open lock (`MaskPart`, `IntpriPart`); the levels in service are theirs
(`LevelsPart`). Every stack saved in a TCB is as a handler at the end of
the nesting left it (`Saved`), because only the end of the outermost handler and
a task itself switch. `Pushed` and `Popped` are the two lemmas on which all
rests: a handler's entry takes `n` to `n + 1` and its return to `n - 1`,
whatever the rest of the stack is. One lemma per action follows, and `LockStep`
for `LockKept`. `TexSpec`, with exception routines in the port, occurs only in
the run `prc_tex` and has no theorem.

**Argument for the timer.** `tmevt_up` and `tmevt_down` are loops, here recursive
functions of the index. What they compute is proved by induction on the number
of places passed (`SetInduction`, from the well-foundedness of `<` on Nat): first
that a function satisfying the recursion exists, then that the loop stopped at a
place where the node may stand and moved the nodes of a chain of parents by one
(`UpGoes`, `DownGoes`). Which chain it was does not matter to what follows:
`MovedPlaced` shows that the back-indices agree with the nodes again once the
gap is filled, `UpOrder` and `DownOrder` that the heap is in order. The case
that is easily overlooked, the last node moving *up* from a gap in the middle, is
`GapGoesUp` under `DeleteOK`. All order is `EVTTIM_LE`, by distance from
`min_time` (`Due`), so the other half is about the clocks (`ClockOK`): in a tick
`current_time` is at most one tick past `min_time`, and the coming tick one more.
Hence an event set for a relative time is at most two ticks, one millisecond for
rounding up and `TMAX_RELTIM` away from `min_time` (`BaseDue`), which is what
`TimeEventAssumption` leaves room for; and when `min_time` moves, nothing
that is left is due, so every distance shrinks by the same amount (`EndNearer`)
and the order stays. For the refinement, each action is shown to do to `Left`,
the time left in units of 1/`TIC_DENO`, what `TimerQueue` says: rounding up is the
`late` of `Set`, and the fraction carried from tick to tick is why nothing drifts.

**Argument for the serial driver.** `TokensOK` counts places; the invariant,
`IInv`, says the same in a form that a step changes in one place: with
`snd`'s resource in the semaphore, no task may send and there is room; with a
task that may, the semaphore is empty, there is room, and it is one
task; or the buffer is full, and the callback will signal (`SndToken`; `RcvToken`
likewise). From that follows `NeverError`: the callback signals only on
leaving *full*, a state in which no resource is anywhere. `Placed` says
what a task has where it is, `Closed` that nothing happens with the port closed,
`Going` is `SendingOK`. `RcvToken` claims the last part, that the
resource is *somewhere*, only while nobody ends a wait for an echo: a reader
whose wait for room ended in an error returns with the right to read in its hand.

**Argument for the sockets.** `DescriptorsOwned` counts owners; `Owned` says the
same without counting, in a form that a step changes at one object and one
descriptor: `TakeOwned` and `GiveOwned` for the steps that open and close,
`KeepOwned` for the rest. It is not inductive alone: a method that has slept
goes on with a descriptor and, in `accept`, with a connection to fill, that it
looked at before. `InMethod` says that its socket has a descriptor still, and that
both are its own. That holds because a task is in one method at a time and only
the owner of an object calls its methods (`KeepInMethod`). With `Owned` it gives
`MethodsOpen`: the descriptor is open, and no other object's. What `accept` does
to a connection that has a descriptor takes that one out of `Owned`, to `Lost`;
every other step is shown to lose none. `BytesToldOf` and `EndOfStream` compare
what results said with what the host did, which is ahead while a method is in the middle of
`receive_all` or `send_all`: `Counts` adds what the methods in progress have done
(`Doing`) and so holds after every step. `CInv` joins it with the rest.

## 5. Only model-checked

* `TimedWaitEnds`, `NonBlockingEnds`, `ReadyIsServed`: liveness under fairness is
  outside the prover.
* `MessagesInOrder`: it compares sequences that `SetToSeq` and `FoldLeft` compute,
  and what these compute for every input is an induction over data.
* `NoOvertaking`, the order in the ready queues.
* `MutexHandedOver`: it speaks of the result of a wait as well as of the owner,
  so it needs what each round of `mutex_release_all` does to `wercd` of every waiting
  task, which the lemmas about `Mutex` leave open.

Every safety invariant of a passing run is stated by a theorem.

## 6. Not modelled, and why

* lwIP and `sys_arch.c`: third-party code in the tree that no build of this
  repository compiles; `sys_arch.c` calls services (`acre_dtq`, `acre_tsk`) that
  the kernel here does not have. lwIP, the mbed headers, tests
  and the second copy of the kernel for ARM are most of the lines of the tree,
  so the share of all lines that the models cover stays small however much of
  the program itself is modelled.
* `serial_cls_por` while another task is inside the driver: it initializes the
  semaphores under that task's feet (`Settled` excludes it), as is ending a task
  that holds one. `serial_get_chr`, `serial_ref_por`.
* `UDPSocket` and `Endpoint`: left out by the build, and address conversion.
* The bodies of cyclic and alarm handlers.
* Registers other than the masks: which of them a context saves is left out of
  `PrcV850`'s frames.
* `iloc_cpu`/`iunl_cpu` in handlers: they only keep nested handlers out, and the
  end of the handler clears them.
* `dis_int`, `ena_int` as services, `get_*`, `ref_*`, `sns_*`: no kernel variable
  changes.
* Parameter checks: a refused call changes nothing.
* `ext_ker`: ends the program.
* Log, banner, configurator templates, the other device drivers: output, code
  generation, registers.
* The kernel extensions other than mutexes, and the ARM tree: not built here; the
  ARM tree's portable kernel is this kernel.

## 7. Plan

In this order:

1. Proofs: `NoOvertaking` and `MutexHandedOver`.
2. `PrcV850` under `TaskManage`: the dispatch in `chg_ipm` step by step, to say
   what a second save of a context costs.
3. Handler bodies of `cyclic.c` and `alarm.c`: what they may call.
4. An abstract FIFO channel that `DataQueue` and `Mailbox` implement.
