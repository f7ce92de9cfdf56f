------------------------------- MODULE Tailq -------------------------------
(***************************************************************************)
(* The tail queue of include/queue.h at pointer level.  tqe_prev and       *)
(* tqh_last hold the address of the *cell* that points to an element: the  *)
(* head's tqh_first, written HEAD here, or the tqe_next of an element,     *)
(* written as that element.  The macros check nothing: what they do to a   *)
(* queue when their precondition fails is part of this model, so that a    *)
(* caller that removes an unlinked element or inserts a linked one damages *)
(* the queue exactly as it does in the kernel.                             *)
(***************************************************************************)
EXTENDS Naturals, Sequences, FiniteSets

CONSTANTS NULL, HEAD

ASSUME TailqAssumption == NULL # HEAD

\* TAILQ_HEAD (first, last) with the TAILQ_ENTRY (next, prev) of every element
\* of S; a zeroed element has NULL in both fields.
Queue(S) == [first : S \cup {NULL}, last : S \cup {HEAD},
             next : [S -> S \cup {NULL}], prev : [S -> S \cup {HEAD, NULL}]]

TAILQ_INIT(S) == [first |-> NULL, last |-> HEAD,
                  next |-> [e \in S |-> NULL], prev |-> [e \in S |-> NULL]]

TAILQ_FIRST(q) == q.first

\* *cell = v
Store(q, cell, v) == IF cell = HEAD THEN [q EXCEPT !.first = v]
                                    ELSE [q EXCEPT !.next[cell] = v]

\* Mutant: the old first element's back pointer is forgotten.
TAILQ_INSERT_HEAD_NoBack(q, e) ==
    LET linked == [q EXCEPT !.next[e] = q.first]
        backed == IF q.first # NULL THEN linked ELSE [linked EXCEPT !.last = e]
    IN  [backed EXCEPT !.first = e, !.prev[e] = HEAD]

TAILQ_INSERT_HEAD(q, e) ==
    LET linked == [q EXCEPT !.next[e] = q.first]
        backed == IF q.first # NULL THEN [linked EXCEPT !.prev[q.first] = e]
                                    ELSE [linked EXCEPT !.last = e]
    IN  [backed EXCEPT !.first = e, !.prev[e] = HEAD]

\* Mutant: insertion at the wrong end.
TAILQ_INSERT_TAIL_AtHead(q, e) == TAILQ_INSERT_HEAD(q, e)

TAILQ_INSERT_TAIL(q, e) ==
    LET linked == [q EXCEPT !.next[e] = NULL, !.prev[e] = q.last]
    IN  [Store(linked, q.last, e) EXCEPT !.last = e]

TAILQ_REMOVE(q, e) ==
    LET backed == IF q.next[e] # NULL
                  THEN [q EXCEPT !.prev[q.next[e]] = q.prev[e]]
                  ELSE [q EXCEPT !.last = q.prev[e]]
    IN  Store(backed, backed.prev[e], q.next[e])

-----------------------------------------------------------------------------
(* What a queue promises: it represents a sequence without repetitions.     *)

Members(s) == {s[i] : i \in 1 .. Len(s)}

NoRepeats(s) == \A i, j \in 1 .. Len(s) : s[i] = s[j] => i = j

\* Every sequence over S without repetitions.
Orderings(S) == {s \in UNION {[1 .. k -> S] : k \in 0 .. Cardinality(S)} : NoRepeats(s)}

\* The queue q links exactly the elements of s, in that order, both ways.
Represents(q, s) ==
    /\ NoRepeats(s)
    /\ q.first = IF s = <<>> THEN NULL ELSE s[1]
    /\ q.last = IF s = <<>> THEN HEAD ELSE s[Len(s)]
    /\ \A i \in 1 .. Len(s) :
          /\ q.next[s[i]] = IF i = Len(s) THEN NULL ELSE s[i + 1]
          /\ q.prev[s[i]] = IF i = 1 THEN HEAD ELSE s[i - 1]

\* s without its i-th element.
Without(s, i) == [j \in 1 .. Len(s) - 1 |-> IF j < i THEN s[j] ELSE s[j + 1]]
=============================================================================
