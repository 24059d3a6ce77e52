------------------------------- MODULE Queue -------------------------------
(***************************************************************************)
(* The intrusive doubly-linked queues of include/queue.h.  A queue is the  *)
(* sequence of its entries from the one after the header to the one before *)
(* it; an entry is linked into a queue at most once.                       *)
(***************************************************************************)
EXTENDS Integers, SequencesExt

(* Where an entry is linked. *)
Position(q, x) == CHOOSE i \in DOMAIN q : q[i] = x

Linked(q, x) == \E i \in DOMAIN q : q[i] = x

(* Mutant: insertion behind the header, at the head. *)
queue_insert_next(q, x) == <<x>> \o q

(* Called with the header: insertion before the header, at the tail. *)
queue_insert_prev(q, x) == Append(q, x)

(* Called with an entry that is linked, wherever it is. *)
queue_delete(q, x) == RemoveAt(q, Position(q, x))

(* queue_delete_next of the header takes the first entry out. *)
queue_delete_next(q) == Tail(q)

queue_empty(q) == q = <<>>

(* No entry is linked twice. *)
Unique(q) == \A i, j \in DOMAIN q : q[i] = q[j] => i = j
=============================================================================
