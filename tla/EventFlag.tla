------------------------------ MODULE EventFlag ------------------------------
(***************************************************************************)
(* kernel/eventflag.c: a bit pattern and tasks that wait until some or all *)
(* of their bits are set in it.  A bit pattern is the set of its 1 bits.   *)
(***************************************************************************)
EXTENDS WaitObject

CONSTANTS
  Flgs,      \* the event flags; an event flag is named like its wait queue
  FlgBits,   \* the bits of a pattern
  iflgptn,   \* FLGINIB.iflgptn: the initial pattern
  TA_CLR,    \* the flags that are cleared when a wait ends
  TA_WMUL    \* the flags that several tasks may wait for

FLGPTN == SUBSET FlgBits
MODE == {"TWF_ORW", "TWF_ANDW"}

ASSUME EventFlagAssumption ==
  /\ Flgs \subseteq WaitQueues
  /\ iflgptn \in [Flgs -> FLGPTN]
  /\ TA_CLR \subseteq Flgs
  /\ TA_WMUL \subseteq Flgs

VARIABLE flgptn

initialize_eventflag == flgptn = iflgptn

(* check_flg_cond is the condition, and what it leaves of the pattern.     *)
check_flg_cond(ptn, waiptn, wfmode) ==
  IF wfmode = "TWF_ORW" THEN ptn \cap waiptn # {} ELSE waiptn \subseteq ptn

Cleared(f, ptn) == IF f \in TA_CLR THEN {} ELSE ptn

Satisfied(ptn, t) == check_flg_cond(ptn, winfo[t].waiptn, winfo[t].wfmode)

(* Mutant: the loop goes on with the pattern it has cleared in mind.       *)
Woken_all(f, ptn) ==
  LET q == k.waitq[f] IN {q[i] : i \in {j \in DOMAIN q : Satisfied(ptn, q[j])}}

(* The tasks whose wait the loop of set_flg ends: where the first clears   *)
(* the pattern the loop is left.                                           *)
Woken(f, ptn) ==
  LET q == k.waitq[f]
      sat == {i \in DOMAIN q : Satisfied(ptn, q[i])}
  IN {q[i] : i \in {j \in sat : f \in TA_CLR => \A l \in sat : j <= l}}

(* Each of them is taken out of the queue and its wait completed.          *)
complete(S, f, t) == wait_complete([S EXCEPT !.waitq[f] = queue_delete(@, t)], t)

CompleteAll(S, f, ts) ==
  LET q == S.waitq[f]
  IN Repeat(Len(q), S, LAMBDA R, i : IF q[i] \in ts THEN complete(R, f, q[i])
                                     ELSE [st |-> R, dsp |-> FALSE])

(* set_flg and iset_flg: Switch is what the caller does about a dispatch.  *)
set(f, setptn, Switch(_)) ==
  LET ptn == flgptn[f] \cup setptn
      ts == Woken(f, ptn)
  IN /\ k' = Switch(CompleteAll(k, f, ts))
     /\ flgptn' = [flgptn EXCEPT ![f] = IF ts = {} THEN ptn
                                        ELSE Cleared(f, ptn)]
     /\ KeepWaiting(winfo)
     /\ ret' = [t \in Tasks |-> IF t \in ts THEN ptn ELSE NULL]

set_flg(f, setptn) == TskCtxUnl /\ set(f, setptn, DispatchIf)
iset_flg(f, setptn) == IntCtxUnl /\ set(f, setptn, RequestIf)

clr_flg(f, clrptn) ==
  /\ TskCtxUnl
  /\ flgptn' = [flgptn EXCEPT ![f] = @ \cap clrptn]
  /\ UNCHANGED k /\ Nothing

(* A flag without TA_WMUL has room for one waiting task: E_ILUSE.          *)
MayWait(f) == f \in TA_WMUL \/ queue_empty(k.waitq[f])

Satisfy(f, waiptn, wfmode) ==
  /\ check_flg_cond(flgptn[f], waiptn, wfmode)
  /\ flgptn' = [flgptn EXCEPT ![f] = Cleared(f, @)]
  /\ UNCHANGED k /\ Return(flgptn[f])

pol_flg(f, waiptn, wfmode) ==
  TskCtxUnl /\ MayWait(f) /\ Satisfy(f, waiptn, wfmode)

twai_flg(f, waiptn, wfmode, tmout) ==
  /\ CanDispatch /\ MayWait(f)
  /\ \/ Satisfy(f, waiptn, wfmode)
     \/ /\ ~check_flg_cond(flgptn[f], waiptn, wfmode)
        /\ WaitFor("WAIT_FLG", f, tmout,
                   [waiptn |-> waiptn, wfmode |-> wfmode])
        /\ UNCHANGED flgptn

wai_flg(f, waiptn, wfmode) == twai_flg(f, waiptn, wfmode, TMO_FEVR)

ini_flg(f) ==
  /\ TskCtxUnl
  /\ k' = DispatchIf(init_wait_queue(k, f))
  /\ flgptn' = [flgptn EXCEPT ![f] = iflgptn[f]]
  /\ Nothing

FlgServices(f) ==
  \/ \E ptn \in FLGPTN : set_flg(f, ptn) \/ iset_flg(f, ptn) \/ clr_flg(f, ptn)
  \/ \E waiptn \in FLGPTN \ {{}}, wfmode \in MODE :
       \/ wai_flg(f, waiptn, wfmode) \/ pol_flg(f, waiptn, wfmode)
       \/ \E tmout \in Timeout : twai_flg(f, waiptn, wfmode, tmout)
  \/ ini_flg(f)

-----------------------------------------------------------------------------
(* A task gets what it waited for: its wait for a flag ends with E_OK only *)
(* with a pattern that satisfies it.  One that is cleared then has         *)
(* satisfied nobody else, and no task that waited before.                  *)
FlgServed ==
  [][\A f \in Flgs :
       LET q == k.waitq[f]
           served == {i \in DOMAIN q : ~Linked(k'.waitq[f], q[i])
                                         /\ k'.wercd[q[i]] = "E_OK"}
       IN \A i \in served :
            LET ptn == ret'[q[i]]
            IN /\ flgptn[f] \subseteq ptn
               /\ Satisfied(ptn, q[i])
               /\ f \in TA_CLR =>
                    /\ flgptn'[f] = {}
                    /\ served = {i}
                    /\ \A j \in 1 .. i - 1 : ~Satisfied(ptn, q[j])
     ]_<<objvars, flgptn>>
=============================================================================
