----------------------------- MODULE EnvProofs -----------------------------
(***************************************************************************)
(* The invariant of the environments, the scheduler, IPC and user-level    *)
(* interrupts, for any number of environments, ASIDs and interrupt codes.  *)
(*                                                                         *)
(* A handler first changes the environments and the queue and then calls   *)
(* schedule or returns, so the invariant is stated of an intermediate      *)
(* state (es, q, fl, ab) as well: Good is what a handler establishes, and  *)
(* ScheduleKeeps and ReturnKeeps lead from there to the next state.        *)
(***************************************************************************)
EXTENDS EnvInterrupt, FiniteSetTheorems, TLAPS

----------------------------------------------------------------------------
(* The macros of include/queue.h implement the operations of a sequence,   *)
(* for queues of any length, under the preconditions their comments state: *)
(* an inserted element is not linked, a removed one is.                    *)

\* TAILQ_INIT makes a queue that represents the empty sequence.
LEMMA InitRepresents ==
    ASSUME NEW S, NULL \notin S, HEAD \notin S
    PROVE  TAILQ_INIT(S) \in Queue(S) /\ Represents(TAILQ_INIT(S), <<>>)
BY DEF TAILQ_INIT, Queue, Represents, NoRepeats

\* The three macros return a queue over the same elements.
LEMMA MacroTypes ==
    ASSUME NEW S, NULL \notin S, HEAD \notin S, NEW q \in Queue(S), NEW e \in S
    PROVE  /\ TAILQ_INSERT_HEAD(q, e) \in Queue(S)
           /\ TAILQ_INSERT_TAIL(q, e) \in Queue(S)
           /\ q.prev[e] # NULL => TAILQ_REMOVE(q, e) \in Queue(S)
<1>1. TAILQ_INSERT_HEAD(q, e) \in Queue(S)
  BY TailqAssumption DEF TAILQ_INSERT_HEAD, Queue
<1>2. TAILQ_INSERT_TAIL(q, e) \in Queue(S)
  BY TailqAssumption DEF TAILQ_INSERT_TAIL, Queue, Store
<1>3. ASSUME q.prev[e] # NULL PROVE TAILQ_REMOVE(q, e) \in Queue(S)
  BY <1>3, TailqAssumption DEF TAILQ_REMOVE, Queue, Store
<1> QED BY <1>1, <1>2, <1>3

\* TAILQ_INSERT_HEAD of an element that is not linked puts it in front.
LEMMA InsertHeadRepresents ==
    ASSUME NEW S, NULL \notin S, HEAD \notin S, NEW q \in Queue(S),
           NEW s \in Seq(S), Represents(q, s), NEW e \in S, e \notin Members(s)
    PROVE  /\ Represents(TAILQ_INSERT_HEAD(q, e), <<e>> \o s)
           /\ Members(<<e>> \o s) = Members(s) \cup {e}
<1> DEFINE t == <<e>> \o s
           r == TAILQ_INSERT_HEAD(q, e)
<1>1. /\ t \in Seq(S)
      /\ Len(t) = Len(s) + 1
      /\ t[1] = e
      /\ \A i \in 2 .. Len(t) : t[i] = s[i - 1]
      /\ Len(s) \in Nat
  OBVIOUS
<1>2. \A i \in 1 .. Len(s) : s[i] \in S /\ s[i] # e
  BY DEF Members
<1>3. NoRepeats(t)
  <2>1. NoRepeats(s)
    BY DEF Represents
  <2>2. SUFFICES ASSUME NEW i \in 1 .. Len(t), NEW j \in 1 .. Len(t), t[i] = t[j]
                 PROVE  i = j
    BY DEF NoRepeats
  <2>3. CASE i = 1 \/ j = 1
    BY <1>1, <1>2, <2>2, <2>3
  <2>4. CASE i > 1 /\ j > 1
    <3>1. s[i - 1] = s[j - 1] /\ i - 1 \in 1 .. Len(s) /\ j - 1 \in 1 .. Len(s)
      BY <1>1, <2>2, <2>4
    <3>2. i - 1 = j - 1
      BY <3>1, <2>1 DEF NoRepeats
    <3> QED BY <3>2
  <2> QED BY <2>3, <2>4, <1>1
<1>4. r.first = e /\ r.next[e] = q.first /\ r.prev[e] = HEAD
  BY DEF TAILQ_INSERT_HEAD, Queue
<1>5. r.last = IF s = <<>> THEN e ELSE q.last
  BY TailqAssumption DEF TAILQ_INSERT_HEAD, Queue, Represents
<1>6. \A x \in S \ {e} : /\ r.next[x] = q.next[x]
                         /\ r.prev[x] = IF x = q.first THEN e ELSE q.prev[x]
  BY DEF TAILQ_INSERT_HEAD, Queue
<1>7. ASSUME NEW i \in 1 .. Len(t)
      PROVE  /\ r.next[t[i]] = IF i = Len(t) THEN NULL ELSE t[i + 1]
             /\ r.prev[t[i]] = IF i = 1 THEN HEAD ELSE t[i - 1]
  <2>1. CASE i = 1
    BY <1>1, <1>4, <2>1 DEF Represents
  <2>2. CASE i > 1
    <3> DEFINE k == i - 1
    <3>1. k \in 1 .. Len(s) /\ t[i] = s[k] /\ s[k] \in S \ {e}
      BY <1>1, <1>2, <2>2
    <3>2. q.next[s[k]] = IF k = Len(s) THEN NULL ELSE s[k + 1]
      BY <3>1 DEF Represents
    <3>3. q.prev[s[k]] = IF k = 1 THEN HEAD ELSE s[k - 1]
      BY <3>1 DEF Represents
    <3>4. s[k] = q.first <=> k = 1
      BY <3>1, <1>1 DEF Represents, NoRepeats
    <3>5. r.next[t[i]] = IF i = Len(t) THEN NULL ELSE t[i + 1]
      BY <3>1, <3>2, <1>6, <1>1, <2>2
    <3>6. r.prev[t[i]] = IF i = 1 THEN HEAD ELSE t[i - 1]
      BY <3>1, <3>3, <3>4, <1>6, <1>1, <2>2
    <3> QED BY <3>5, <3>6
  <2> QED BY <2>1, <2>2, <1>1
<1>8. r.last = t[Len(t)] /\ t # <<>>
  BY <1>1, <1>5 DEF Represents
<1>9. Represents(r, t)
  BY <1>1, <1>3, <1>4, <1>7, <1>8 DEF Represents
<1>10. Members(t) = Members(s) \cup {e}
  <2>1. \A x \in Members(t) : x \in Members(s) \cup {e}
    BY <1>1 DEF Members
  <2>2. e \in Members(t)
    BY <1>1 DEF Members
  <2>3. ASSUME NEW i \in 1 .. Len(s) PROVE s[i] \in Members(t)
    <3>1. i + 1 \in 1 .. Len(t) /\ t[i + 1] = s[i]
      BY <1>1
    <3> QED BY <3>1 DEF Members
  <2> QED BY <2>1, <2>2, <2>3 DEF Members
<1> QED BY <1>9, <1>10

\* TAILQ_INSERT_TAIL of an element that is not linked puts it at the end.
LEMMA InsertTailRepresents ==
    ASSUME NEW S, NULL \notin S, HEAD \notin S, NEW q \in Queue(S),
           NEW s \in Seq(S), Represents(q, s), NEW e \in S, e \notin Members(s)
    PROVE  /\ Represents(TAILQ_INSERT_TAIL(q, e), Append(s, e))
           /\ Members(Append(s, e)) = Members(s) \cup {e}
<1> DEFINE t == Append(s, e)
           n == Len(s)
           r == TAILQ_INSERT_TAIL(q, e)
<1>1. /\ t \in Seq(S)
      /\ n \in Nat
      /\ Len(t) = n + 1
      /\ t[n + 1] = e
      /\ \A i \in 1 .. n : t[i] = s[i]
  OBVIOUS
<1>2. \A i \in 1 .. n : s[i] \in S /\ s[i] # e
  BY DEF Members
<1>3. NoRepeats(t)
  <2>1. NoRepeats(s)
    BY DEF Represents
  <2>2. SUFFICES ASSUME NEW i \in 1 .. Len(t), NEW j \in 1 .. Len(t), t[i] = t[j]
                 PROVE  i = j
    BY DEF NoRepeats
  <2>3. CASE i = n + 1 \/ j = n + 1
    BY <1>1, <1>2, <2>2, <2>3
  <2>4. CASE i \in 1 .. n /\ j \in 1 .. n
    BY <1>1, <2>1, <2>2, <2>4 DEF NoRepeats
  <2> QED BY <2>3, <2>4, <1>1
<1>4. /\ r.last = e
      /\ r.first = IF s = <<>> THEN e ELSE q.first
      /\ \A x \in S : r.prev[x] = IF x = e THEN q.last ELSE q.prev[x]
  BY <1>2 DEF TAILQ_INSERT_TAIL, Queue, Store, Represents
<1>5. q.last # e
  BY <1>1, <1>2 DEF Represents
<1>6. \A x \in S : r.next[x] = IF x = e THEN NULL ELSE IF x = q.last THEN e ELSE q.next[x]
  BY <1>5 DEF TAILQ_INSERT_TAIL, Queue, Store
<1>7. ASSUME NEW i \in 1 .. Len(t)
      PROVE  /\ r.next[t[i]] = IF i = Len(t) THEN NULL ELSE t[i + 1]
             /\ r.prev[t[i]] = IF i = 1 THEN HEAD ELSE t[i - 1]
  <2>1. CASE i = n + 1
    <3>1. q.last = IF n = 0 THEN HEAD ELSE s[n]
      BY <1>1 DEF Represents
    <3> QED BY <1>1, <1>4, <1>6, <2>1, <3>1
  <2>2. CASE i \in 1 .. n
    <3>1. t[i] = s[i] /\ s[i] \in S /\ s[i] # e
      BY <1>1, <1>2, <2>2
    <3>2. /\ q.next[s[i]] = IF i = n THEN NULL ELSE s[i + 1]
          /\ q.prev[s[i]] = IF i = 1 THEN HEAD ELSE s[i - 1]
      BY <2>2 DEF Represents
    <3>3. s[i] = q.last <=> i = n
      BY <2>2, <1>1 DEF Represents, NoRepeats
    <3>4. r.next[t[i]] = IF i = Len(t) THEN NULL ELSE t[i + 1]
      BY <3>1, <3>2, <3>3, <1>6, <1>1, <2>2
    <3>5. r.prev[t[i]] = IF i = 1 THEN HEAD ELSE t[i - 1]
      BY <3>1, <3>2, <1>4, <1>1, <2>2
    <3> QED BY <3>4, <3>5
  <2> QED BY <2>1, <2>2, <1>1
<1>8. r.first = t[1] /\ r.last = t[Len(t)] /\ t # <<>>
  BY <1>1, <1>4 DEF Represents
<1>9. Represents(r, t)
  BY <1>3, <1>7, <1>8 DEF Represents
<1>10. Members(t) = Members(s) \cup {e}
  <2>1. \A x \in Members(t) : x \in Members(s) \cup {e}
    BY <1>1 DEF Members
  <2>2. e \in Members(t)
    BY <1>1 DEF Members
  <2>3. ASSUME NEW i \in 1 .. n PROVE s[i] \in Members(t)
    <3>1. i \in 1 .. Len(t) /\ t[i] = s[i]
      BY <1>1
    <3> QED BY <3>1 DEF Members
  <2> QED BY <2>1, <2>2, <2>3 DEF Members
<1> QED BY <1>9, <1>10

\* TAILQ_REMOVE of a linked element takes it out and keeps the others' order.
LEMMA RemoveRepresents ==
    ASSUME NEW S, NULL \notin S, HEAD \notin S, NEW q \in Queue(S),
           NEW s \in Seq(S), Represents(q, s), NEW m \in 1 .. Len(s)
    PROVE  /\ Without(s, m) \in Seq(S)
           /\ Represents(TAILQ_REMOVE(q, s[m]), Without(s, m))
           /\ Members(Without(s, m)) = Members(s) \ {s[m]}
<1> DEFINE t == Without(s, m)
           n == Len(s)
           e == s[m]
           r == TAILQ_REMOVE(q, e)
           p == q.prev[e]
           x == q.next[e]
<1>1. /\ n \in Nat
      /\ t \in Seq(S)
      /\ Len(t) = n - 1
      /\ \A i \in 1 .. n - 1 : t[i] = IF i < m THEN s[i] ELSE s[i + 1]
  BY DEF Without
<1>2. /\ \A i \in 1 .. n : s[i] \in S
      /\ \A i \in 1 .. n : s[i] = e <=> i = m
  BY DEF Represents, NoRepeats
<1>3. /\ x = IF m = n THEN NULL ELSE s[m + 1]
      /\ p = IF m = 1 THEN HEAD ELSE s[m - 1]
      /\ e \in S
  BY <1>2 DEF Represents
<1>4. NoRepeats(t)
  <2>1. \A i, j \in 1 .. n : s[i] = s[j] => i = j
    BY DEF Represents, NoRepeats
  <2> QED BY <1>1, <2>1 DEF NoRepeats
<1>5. p # e /\ x # e
  BY <1>1, <1>2, <1>3
<1>6. /\ r.last = IF x = NULL THEN p ELSE q.last
      /\ r.first = IF p = HEAD THEN x ELSE q.first
  BY <1>3, <1>5 DEF TAILQ_REMOVE, Queue, Store
<1>7. \A y \in S : y # e => /\ r.next[y] = IF y = p THEN x ELSE q.next[y]
                            /\ r.prev[y] = IF y = x THEN p ELSE q.prev[y]
  BY <1>3, <1>5 DEF TAILQ_REMOVE, Queue, Store
<1>8. ASSUME NEW i \in 1 .. Len(t)
      PROVE  /\ r.next[t[i]] = IF i = Len(t) THEN NULL ELSE t[i + 1]
             /\ r.prev[t[i]] = IF i = 1 THEN HEAD ELSE t[i - 1]
  <2> DEFINE k == IF i < m THEN i ELSE i + 1
  <2>1. k \in 1 .. n /\ k # m /\ t[i] = s[k] /\ s[k] \in S /\ s[k] # e
    BY <1>1, <1>2
  <2>2. /\ q.next[s[k]] = IF k = n THEN NULL ELSE s[k + 1]
        /\ q.prev[s[k]] = IF k = 1 THEN HEAD ELSE s[k - 1]
    BY <2>1 DEF Represents
  <2> HIDE DEF k
  <2>i. \A a, b \in 1 .. n : s[a] = s[b] => a = b
    BY DEF Represents, NoRepeats
  <2>3. s[k] = p <=> k = m - 1
    <3>1. CASE m = 1
      BY <1>1, <1>3, <2>1, <3>1
    <3>2. CASE m > 1
      <4>1. p = s[m - 1] /\ m - 1 \in 1 .. n
        BY <1>1, <1>3, <3>2
      <4> QED BY <4>1, <2>1, <2>i
    <3> QED BY <1>1, <3>1, <3>2
  <2>4. s[k] = x <=> k = m + 1
    <3>1. CASE m = n
      BY <1>1, <1>3, <2>1, <3>1
    <3>2. CASE m < n
      <4>1. x = s[m + 1] /\ m + 1 \in 1 .. n
        BY <1>1, <1>3, <3>2
      <4> QED BY <4>1, <2>1, <2>i
    <3> QED BY <1>1, <3>1, <3>2
  <2>5. /\ r.next[t[i]] = IF k = m - 1 THEN x ELSE q.next[s[k]]
        /\ r.prev[t[i]] = IF k = m + 1 THEN p ELSE q.prev[s[k]]
    BY <1>7, <2>1, <2>3, <2>4
  <2>6. CASE i < m
    BY <1>1, <1>3, <2>1, <2>2, <2>5, <2>6 DEF k
  <2>7. CASE i >= m
    <3>1. k = i + 1 /\ i \in 1 .. n - 1 /\ Len(t) = n - 1
      BY <1>1, <2>7 DEF k
    <3>2. r.next[t[i]] = IF i = Len(t) THEN NULL ELSE t[i + 1]
      <4>1. r.next[t[i]] = IF i + 1 = n THEN NULL ELSE s[i + 2]
        BY <2>2, <2>5, <2>7, <3>1
      <4>2. i # n - 1 => t[i + 1] = s[i + 2]
        BY <1>1, <2>7, <3>1
      <4> QED BY <3>1, <4>1, <4>2, <1>1
    <3>3. r.prev[t[i]] = IF i = 1 THEN HEAD ELSE t[i - 1]
      <4>1. CASE i = m
        BY <1>1, <1>3, <2>5, <3>1, <4>1
      <4>2. CASE i > m
        <5>1. r.prev[t[i]] = s[i]
          BY <2>2, <2>5, <3>1, <4>2
        <5>2. i # 1 /\ t[i - 1] = s[i]
          <6>1. i # 1 /\ i - 1 \in 1 .. n - 1 /\ ~(i - 1 < m) /\ (i - 1) + 1 = i
            BY <1>1, <3>1, <4>2
          <6>2. t[i - 1] = s[(i - 1) + 1]
            BY <1>1, <6>1
          <6> QED BY <6>1, <6>2
        <5> QED BY <5>1, <5>2
      <4> QED BY <2>7, <3>1, <4>1, <4>2
    <3> QED BY <3>2, <3>3
  <2> QED BY <1>1, <2>6, <2>7
<1>9. /\ r.first = IF t = <<>> THEN NULL ELSE t[1]
      /\ r.last = IF t = <<>> THEN HEAD ELSE t[Len(t)]
  <2>1. q.first = s[1] /\ q.last = s[n]
    BY <1>1 DEF Represents
  <2>2. t = <<>> <=> n = 1
    BY <1>1
  <2>3. x = NULL <=> m = n
    BY <1>1, <1>2, <1>3
  <2>4. p = HEAD <=> m = 1
    BY <1>1, <1>2, <1>3
  <2>5. r.first = IF t = <<>> THEN NULL ELSE t[1]
    BY <1>1, <1>3, <1>6, <2>1, <2>2, <2>4
  <2>6. r.last = IF t = <<>> THEN HEAD ELSE t[Len(t)]
    BY <1>1, <1>3, <1>6, <2>1, <2>2, <2>3
  <2> QED BY <2>5, <2>6
<1>10. Represents(r, t)
  BY <1>4, <1>8, <1>9 DEF Represents
<1>11. Members(t) = Members(s) \ {e}
  <2>1. ASSUME NEW i \in 1 .. Len(t) PROVE t[i] \in Members(s) \ {e}
    BY <1>1, <1>2 DEF Members
  <2>2. ASSUME NEW j \in 1 .. n, j # m PROVE s[j] \in Members(t)
    <3> DEFINE i == IF j < m THEN j ELSE j - 1
    <3>1. i \in 1 .. Len(t) /\ t[i] = s[j]
      BY <1>1, <2>2
    <3> QED BY <3>1 DEF Members
  <2> QED BY <1>2, <2>1, <2>2 DEF Members
<1> QED BY <1>1, <1>10, <1>11

\* TAILQ_FIRST is the first element, and NULL exactly for an empty queue.
LEMMA FirstOfRepresented ==
    ASSUME NEW S, NULL \notin S, NEW q \in Queue(S), NEW s \in Seq(S), Represents(q, s)
    PROVE  /\ TAILQ_FIRST(q) = NULL <=> Members(s) = {}
           /\ TAILQ_FIRST(q) # NULL => TAILQ_FIRST(q) \in Members(s)
<1>1. CASE s = <<>>
  BY <1>1 DEF TAILQ_FIRST, Represents, Members
<1>2. CASE s # <<>>
  <2>1. 1 \in 1 .. Len(s) /\ s[1] \in S /\ TAILQ_FIRST(q) = s[1]
    BY <1>2 DEF TAILQ_FIRST, Represents
  <2> QED BY <2>1 DEF Members
<1> QED BY <1>1, <1>2

\* A linked element can be removed: its back pointer is a cell.
LEMMA LinkedHasPrev ==
    ASSUME NEW S, NULL \notin S, NEW q, NEW s \in Seq(S), Represents(q, s),
           NEW m \in 1 .. Len(s)
    PROVE  q.prev[s[m]] # NULL
BY TailqAssumption DEF Represents

\* A queue over a finite set represents one of the set's orderings.
LEMMA RepresentedIsOrdering ==
    ASSUME NEW S, IsFiniteSet(S), NEW s \in Seq(S), NoRepeats(s)
    PROVE  s \in Orderings(S)
<1> DEFINE n == Len(s)
<1>1. n \in Nat /\ s \in [1 .. n -> S]
  OBVIOUS
<1>2. s \in Injection(1 .. n, S)
  BY <1>1 DEF Injection, IsInjective, NoRepeats
<1>3. Cardinality(1 .. n) <= Cardinality(S)
  BY <1>2, FS_Injection
<1>4. Cardinality(1 .. n) = n
  BY <1>1, FS_Interval
<1>5. n \in 0 .. Cardinality(S)
  BY <1>1, <1>3, <1>4, FS_CardinalityType
<1> QED BY <1>1, <1>5 DEF Orderings

----------------------------------------------------------------------------
(* The invariant.                                                          *)

\* Programs neither destroy a blocked child nor make a waiting receiver runnable.
WellBehaved == {"destroy_blocked", "wake_receiver"} \cap Usage = {}

\* q is intact and links exactly the elements of R.
Lists(q, R) == q \in Queue(Env) /\ \E s \in Seq(Env) : Represents(q, s) /\ Members(s) = R

RunnableIn(es) == {e \in Env : es[e].env_status = "RUNNABLE"}
LiveIn(es) == {e \in Env : es[e].env_status # "FREE"}

FreeOK(es, fl) == /\ fl \in Seq(Env) /\ NoRepeats(fl)
                  /\ Members(fl) = Env \ LiveIn(es)

AsidOK(es, ab) ==
    /\ ab = {es[e].env_asid : e \in LiveIn(es)} /\ ab \subseteq Asid
    /\ \A d, e \in LiveIn(es) : es[d].env_asid = es[e].env_asid => d = e

RecvOK(es) == \A e \in Env : es[e].env_ipc_recving = 1 =>
                 es[e].env_status = "NOT_RUNNABLE" /\ es[e].env_in_syscall = 1

PriOK(es) == \A e \in LiveIn(es) : es[e].env_pri \in Pri

Good(es, q, fl, ab) ==
    /\ es \in [Env -> EnvRecord]
    /\ Lists(q, RunnableIn(es))
    /\ FreeOK(es, fl)
    /\ AsidOK(es, ab)
    /\ RecvOK(es)
    /\ PriOK(es)

\* The inductive invariant.
IInv ==
    /\ Good(envs, env_sched_list, env_free_list, asid_bitmap)
    /\ gen \in 0 .. MaxGen
    /\ curenv \in Env \cup {NULL}
    /\ count \in Nat
    /\ a0 \in Word
    /\ halted \in {"no", "no runnable env"}
    /\ Running => envs[curenv].env_status = "RUNNABLE"

-----------------------------------------------------------------------------
(* The queue as a set.                                                      *)

\* Inserting an unlinked environment on either side adds it.
LEMMA InsertLists ==
    ASSUME NEW q, NEW R, Lists(q, R), NEW e \in Env \ R
    PROVE  /\ Lists(TAILQ_INSERT_HEAD(q, e), R \cup {e})
           /\ Lists(TAILQ_INSERT_TAIL(q, e), R \cup {e})
<1>1. PICK s \in Seq(Env) : Represents(q, s) /\ Members(s) = R
  BY DEF Lists
<1>2. q \in Queue(Env) /\ NULL \notin Env /\ HEAD \notin Env
  BY EnvAssumption DEF Lists
<1>3. Represents(TAILQ_INSERT_HEAD(q, e), <<e>> \o s) /\ Members(<<e>> \o s) = R \cup {e}
  BY <1>1, <1>2, InsertHeadRepresents
<1>4. Represents(TAILQ_INSERT_TAIL(q, e), Append(s, e)) /\ Members(Append(s, e)) = R \cup {e}
  BY <1>1, <1>2, InsertTailRepresents
<1>5. <<e>> \o s \in Seq(Env) /\ Append(s, e) \in Seq(Env)
  OBVIOUS
<1>6. TAILQ_INSERT_HEAD(q, e) \in Queue(Env) /\ TAILQ_INSERT_TAIL(q, e) \in Queue(Env)
  BY <1>2, MacroTypes
<1> QED BY <1>3, <1>4, <1>5, <1>6 DEF Lists

\* Removing a linked environment takes it out.
LEMMA RemoveLists ==
    ASSUME NEW q, NEW R, Lists(q, R), NEW e \in R
    PROVE  Lists(TAILQ_REMOVE(q, e), R \ {e})
<1>1. PICK s \in Seq(Env) : Represents(q, s) /\ Members(s) = R
  BY DEF Lists
<1>2. q \in Queue(Env) /\ NULL \notin Env /\ HEAD \notin Env
  BY EnvAssumption DEF Lists
<1>3. PICK m \in 1 .. Len(s) : s[m] = e
  BY <1>1 DEF Members
<1>4. e \in Env
  BY <1>3
<1>5. /\ Without(s, m) \in Seq(Env)
      /\ Represents(TAILQ_REMOVE(q, s[m]), Without(s, m))
      /\ Members(Without(s, m)) = Members(s) \ {s[m]}
  BY <1>1, <1>2, RemoveRepresents
<1>6. q.prev[e] # NULL
  BY <1>1, <1>2, <1>3, LinkedHasPrev
<1>7. TAILQ_REMOVE(q, e) \in Queue(Env)
  BY <1>2, <1>4, <1>6, MacroTypes
<1> QED BY <1>1, <1>3, <1>5, <1>7 DEF Lists

\* schedule's move of the running environment from anywhere to the tail.
LEMMA RotateLists ==
    ASSUME NEW q, NEW R, R \subseteq Env, Lists(q, R), NEW e \in R
    PROVE  Lists(TAILQ_INSERT_TAIL(TAILQ_REMOVE(q, e), e), R)
<1>1. Lists(TAILQ_REMOVE(q, e), R \ {e}) /\ e \in Env \ (R \ {e})
  BY RemoveLists
<1>2. Lists(TAILQ_INSERT_TAIL(TAILQ_REMOVE(q, e), e), (R \ {e}) \cup {e})
  BY <1>1, InsertLists
<1>3. (R \ {e}) \cup {e} = R
  OBVIOUS
<1> QED BY <1>2, <1>3

\* TAILQ_FIRST finds a member unless there is none.
LEMMA FirstLists ==
    ASSUME NEW q, NEW R, Lists(q, R)
    PROVE  TAILQ_FIRST(q) \in R \/ (TAILQ_FIRST(q) = NULL /\ R = {})
<1>1. PICK s \in Seq(Env) : Represents(q, s) /\ Members(s) = R
  BY DEF Lists
<1> QED BY <1>1, EnvAssumption, FirstOfRepresented DEF Lists

-----------------------------------------------------------------------------
(* The end of a trap.                                                       *)

\* fs differs from es in nothing the invariant reads, and nobody starts to wait.
Alike(es, fs) ==
    /\ fs \in [Env -> EnvRecord]
    /\ \A d \in Env : /\ fs[d].env_status = es[d].env_status
                      /\ fs[d].env_asid = es[d].env_asid
                      /\ fs[d].env_pri = es[d].env_pri
                      /\ fs[d].env_ipc_recving = 1 => /\ es[d].env_ipc_recving = 1
                                                      /\ fs[d].env_in_syscall = 1

\* The same for everyone but e, of whom only the ASID and the priority stay.
AlikeBut(e, es, fs) ==
    /\ fs \in [Env -> EnvRecord]
    /\ \A d \in Env : /\ d # e => fs[d].env_status = es[d].env_status
                      /\ fs[d].env_asid = es[d].env_asid
                      /\ fs[d].env_pri = es[d].env_pri
                      /\ d # e /\ fs[d].env_ipc_recving = 1 => /\ es[d].env_ipc_recving = 1
                                                               /\ fs[d].env_in_syscall = 1

\* An update of one control block that keeps the ASID and the priority.
LEMMA UpdateAlike ==
    ASSUME NEW es \in [Env -> EnvRecord], RecvOK(es), NEW e \in Env, NEW r \in EnvRecord,
           r.env_asid = es[e].env_asid, r.env_pri = es[e].env_pri
    PROVE  AlikeBut(e, es, [es EXCEPT ![e] = r])
BY DEF AlikeBut, RecvOK

\* The ASIDs of the live environments depend on who is live only.
LEMMA AsidKeeps ==
    ASSUME NEW es, NEW fs, NEW ab, AsidOK(es, ab), LiveIn(fs) = LiveIn(es),
           \A d \in Env : fs[d].env_asid = es[d].env_asid
    PROVE  AsidOK(fs, ab)
<1>1. LiveIn(es) \subseteq Env
  BY DEF LiveIn
<1>2. {fs[e].env_asid : e \in LiveIn(fs)} = {es[e].env_asid : e \in LiveIn(es)}
  BY <1>1
<1> QED BY <1>1, <1>2 DEF AsidOK

\* The scheduling invariant reads only the fields that Alike compares.
LEMMA AlikeKeeps ==
    ASSUME NEW es, NEW fs, NEW q, NEW fl, NEW ab, Good(es, q, fl, ab), Alike(es, fs)
    PROVE  Good(fs, q, fl, ab)
<1>1. RunnableIn(fs) = RunnableIn(es) /\ LiveIn(fs) = LiveIn(es)
  BY DEF RunnableIn, LiveIn, Alike
<1>2. FreeOK(fs, fl)
  BY <1>1 DEF Good, FreeOK
<1>3. AsidOK(fs, ab)
  BY <1>1, AsidKeeps DEF Good, Alike
<1>4. RecvOK(fs)
  BY DEF Good, RecvOK, Alike
<1>5. PriOK(fs)
  BY <1>1 DEF Good, PriOK, LiveIn, Alike
<1> QED BY <1>1, <1>2, <1>3, <1>4, <1>5 DEF Good, Alike

\* A runnable environment blocks: it leaves the queue.
LEMMA BlockKeeps ==
    ASSUME NEW es, NEW fs, NEW q, NEW fl, NEW ab, Good(es, q, fl, ab),
           NEW e \in Env, AlikeBut(e, es, fs),
           es[e].env_status = "RUNNABLE", fs[e].env_status = "NOT_RUNNABLE",
           fs[e].env_ipc_recving = 1 => fs[e].env_in_syscall = 1
    PROVE  Good(fs, TAILQ_REMOVE(q, e), fl, ab)
<1>1. RunnableIn(fs) = RunnableIn(es) \ {e} /\ LiveIn(fs) = LiveIn(es) /\ e \in RunnableIn(es)
  BY DEF RunnableIn, LiveIn, AlikeBut
<1>2. FreeOK(fs, fl)
  BY <1>1 DEF Good, FreeOK
<1>3. AsidOK(fs, ab)
  BY <1>1, AsidKeeps DEF Good, AlikeBut
<1>4. RecvOK(fs)
  BY DEF Good, RecvOK, AlikeBut
<1>5. PriOK(fs)
  BY <1>1 DEF Good, PriOK, LiveIn, AlikeBut
<1>6. Lists(TAILQ_REMOVE(q, e), RunnableIn(fs))
  BY <1>1, RemoveLists DEF Good
<1> QED BY <1>2, <1>3, <1>4, <1>5, <1>6 DEF Good, AlikeBut

\* A blocked environment that is not waiting any more is queued, at either end.
LEMMA WakeKeeps ==
    ASSUME NEW es, NEW fs, NEW q, NEW fl, NEW ab, Good(es, q, fl, ab),
           NEW e \in Env, AlikeBut(e, es, fs),
           es[e].env_status = "NOT_RUNNABLE", fs[e].env_status = "RUNNABLE",
           fs[e].env_ipc_recving # 1
    PROVE  /\ Good(fs, TAILQ_INSERT_HEAD(q, e), fl, ab)
           /\ Good(fs, TAILQ_INSERT_TAIL(q, e), fl, ab)
<1>1. /\ RunnableIn(fs) = RunnableIn(es) \cup {e} /\ LiveIn(fs) = LiveIn(es)
      /\ e \in Env \ RunnableIn(es)
  BY DEF RunnableIn, LiveIn, AlikeBut
<1>2. FreeOK(fs, fl)
  BY <1>1 DEF Good, FreeOK
<1>3. AsidOK(fs, ab)
  BY <1>1, AsidKeeps DEF Good, AlikeBut
<1>4. RecvOK(fs)
  BY DEF Good, RecvOK, AlikeBut
<1>5. PriOK(fs)
  BY <1>1 DEF Good, PriOK, LiveIn, AlikeBut
<1>6. /\ Lists(TAILQ_INSERT_HEAD(q, e), RunnableIn(fs))
      /\ Lists(TAILQ_INSERT_TAIL(q, e), RunnableIn(fs))
  BY <1>1, InsertLists DEF Good
<1> QED BY <1>2, <1>3, <1>4, <1>5, <1>6 DEF Good, AlikeBut

\* The saved regs[10] plays no part in the invariant.
LEMMA SavedWordKeeps ==
    ASSUME NEW es, NEW q, NEW fl, NEW ab, Good(es, q, fl, ab), NEW e \in Env, NEW word \in Word
    PROVE  Good([es EXCEPT ![e].env_a0 = word], q, fl, ab)
<1> DEFINE fs == [es EXCEPT ![e].env_a0 = word]
<1>1. es \in [Env -> EnvRecord] /\ RecvOK(es)
  BY DEF Good
<1>2. Alike(es, fs)
  BY <1>1 DEF Alike, RecvOK, EnvRecord
<1> QED BY <1>2, AlikeKeeps

\* env_run called for a runnable environment never fails its assertion.
LEMMA EnvRunKeeps ==
    ASSUME NEW es, NEW e, NEW cur \in Env \cup {NULL}, NEW word \in Word,
           Good(es, env_sched_list', env_free_list', asid_bitmap'),
           gen' \in 0 .. MaxGen, count' \in Nat, a0 \in Word, halted = "no",
           e \in RunnableIn(es) \/ e = NULL,
           env_run(e, cur, es, word)
    PROVE  IInv'
<1> DEFINE saved == IF cur = NULL THEN es ELSE [es EXCEPT ![cur].env_a0 = word]
<1>1. Good(saved, env_sched_list', env_free_list', asid_bitmap')
  BY SavedWordKeeps
<1>2. NULL \notin Env
  BY EnvAssumption
<1>3. CASE e # NULL
  <2>1. e \in Env /\ es[e].env_status = "RUNNABLE"
    BY <1>3 DEF RunnableIn
  <2>2. envs' = saved /\ curenv' = e /\ a0' = saved[e].env_a0 /\ halted' = "no"
    BY <1>3, <2>1 DEF env_run
  <2>3. saved \in [Env -> EnvRecord] /\ es \in [Env -> EnvRecord]
    BY <1>1 DEF Good
  <2>4. saved[e].env_status = "RUNNABLE" /\ saved[e].env_a0 \in Word
    BY <2>1, <2>3 DEF EnvRecord
  <2> QED BY <1>1, <2>1, <2>2, <2>4 DEF IInv, Running
<1>4. CASE e = NULL
  <2>1. halted' = "no runnable env" /\ envs' = es /\ curenv' = cur /\ a0' = a0
    BY <1>4 DEF env_run
  <2> QED BY <2>1 DEF IInv, Running
<1> QED BY <1>3, <1>4

\* schedule leads from a good intermediate state to a good state.
LEMMA ScheduleKeeps ==
    ASSUME NEW yield \in BOOLEAN, NEW cur \in Env \cup {NULL}, NEW es, NEW q, NEW word \in Word,
           Good(es, q, env_free_list', asid_bitmap'),
           gen' \in 0 .. MaxGen, count \in Nat, a0 \in Word, halted = "no",
           schedule(yield, cur, es, q, word)
    PROVE  IInv'
<1> DEFINE runnable == cur # NULL /\ es[cur].env_status = "RUNNABLE"
           again == runnable /\ ~yield /\ count # 0
           rotated == IF runnable THEN TAILQ_INSERT_TAIL(TAILQ_REMOVE(q, cur), cur) ELSE q
           nextenv == TAILQ_FIRST(rotated)
<1>1. runnable => cur \in RunnableIn(es)
  BY DEF RunnableIn
<1>2. RunnableIn(es) \subseteq Env /\ Lists(q, RunnableIn(es)) /\ es \in [Env -> EnvRecord]
  BY DEF RunnableIn, Good
<1>3. CASE again
  <2>1. env_sched_list' = q /\ count' = count - 1 /\ env_run(cur, cur, es, word)
    BY <1>3 DEF schedule
  <2>2. count' \in Nat
    BY <1>3, <2>1
  <2> QED BY <1>1, <1>3, <2>1, <2>2, EnvRunKeeps
<1>4. CASE ~again
  <2>1. /\ env_sched_list' = rotated
        /\ count' = IF nextenv = NULL THEN count ELSE es[nextenv].env_pri - 1
        /\ env_run(nextenv, cur, es, word)
    BY <1>4 DEF schedule
  <2>2. Lists(rotated, RunnableIn(es))
    BY <1>1, <1>2, RotateLists
  <2>3. Good(es, rotated, env_free_list', asid_bitmap')
    BY <2>2 DEF Good
  <2>4. nextenv \in RunnableIn(es) \/ nextenv = NULL
    BY <2>2, FirstLists
  <2>5. count' \in Nat
    <3>1. CASE nextenv = NULL
      BY <2>1, <3>1
    <3>2. CASE nextenv # NULL
      <4>1. nextenv \in LiveIn(es)
        BY <2>4, <3>2 DEF RunnableIn, LiveIn
      <4>2. es[nextenv].env_pri \in Nat \ {0}
        BY <4>1, EnvAssumption DEF Good, PriOK
      <4> QED BY <2>1, <3>2, <4>2
    <3> QED BY <3>1, <3>2
  <2> QED BY <2>1, <2>3, <2>4, <2>5, EnvRunKeeps
<1> QED BY <1>3, <1>4

\* So does a handler that returns to its caller, a runnable environment.
LEMMA ReturnKeeps ==
    ASSUME NEW es, IInv, Running,
           Good(es, env_sched_list', env_free_list', asid_bitmap'),
           es[curenv].env_status = "RUNNABLE", gen' \in 0 .. MaxGen,
           envs' = [es EXCEPT ![curenv].env_in_syscall = 0],
           a0' \in Word, UNCHANGED <<curenv, count, halted>>
    PROVE  IInv'
<1> DEFINE fs == [es EXCEPT ![curenv].env_in_syscall = 0]
<1>1. es \in [Env -> EnvRecord] /\ RecvOK(es) /\ curenv \in Env
  BY DEF Good, IInv, Running
<1>2. Alike(es, fs)
  BY <1>1 DEF Alike, RecvOK, EnvRecord
<1>3. Good(fs, env_sched_list', env_free_list', asid_bitmap')
  BY <1>2, AlikeKeeps
<1>4. fs[curenv].env_status = "RUNNABLE"
  BY <1>1, <1>2 DEF Alike
<1> QED BY <1>1, <1>3, <1>4 DEF IInv, Running

-----------------------------------------------------------------------------
(* The pools of slots and ASIDs.                                            *)

\* Taking the front of the free list.
LEMMA PopFree ==
    ASSUME NEW fl \in Seq(Env), NoRepeats(fl), fl # <<>>
    PROVE  /\ Head(fl) \in Members(fl) /\ Tail(fl) \in Seq(Env) /\ NoRepeats(Tail(fl))
           /\ Members(Tail(fl)) = Members(fl) \ {Head(fl)}
<1>1. Head(fl) = fl[1] /\ 1 \in 1 .. Len(fl) /\ Tail(fl) \in Seq(Env)
  OBVIOUS
<1>2. /\ Len(Tail(fl)) = Len(fl) - 1
      /\ \A i \in 1 .. Len(fl) - 1 : Tail(fl)[i] = fl[i + 1] /\ i + 1 \in 1 .. Len(fl)
  OBVIOUS
<1>3. NoRepeats(Tail(fl))
  <2> SUFFICES ASSUME NEW i \in 1 .. Len(Tail(fl)), NEW j \in 1 .. Len(Tail(fl)),
                      Tail(fl)[i] = Tail(fl)[j]
               PROVE  i = j
    BY DEF NoRepeats
  <2>1. i + 1 = j + 1
    BY <1>2 DEF NoRepeats
  <2> QED BY <2>1
<1>4. ASSUME NEW x \in Members(Tail(fl)) PROVE x \in Members(fl) \ {Head(fl)}
  <2>1. PICK i \in 1 .. Len(fl) - 1 : x = fl[i + 1] /\ i + 1 \in 1 .. Len(fl)
    BY <1>2 DEF Members
  <2>2. x # fl[1]
    BY <1>1, <2>1 DEF NoRepeats
  <2> QED BY <1>1, <2>1, <2>2 DEF Members
<1>5. ASSUME NEW x \in Members(fl) \ {Head(fl)} PROVE x \in Members(Tail(fl))
  <2>1. PICK i \in 1 .. Len(fl) : x = fl[i]
    BY DEF Members
  <2>2. i # 1 /\ i - 1 \in 1 .. Len(fl) - 1
    BY <1>1, <2>1
  <2>3. Tail(fl)[i - 1] = fl[(i - 1) + 1] /\ (i - 1) + 1 = i
    BY <1>2, <2>2
  <2> QED BY <1>2, <2>1, <2>2, <2>3 DEF Members
<1>6. Head(fl) \in Members(fl)
  BY <1>1 DEF Members
<1> QED BY <1>1, <1>3, <1>4, <1>5, <1>6

\* Putting a slot back in front.
LEMMA PushFree ==
    ASSUME NEW fl \in Seq(Env), NoRepeats(fl), NEW e \in Env, e \notin Members(fl)
    PROVE  /\ <<e>> \o fl \in Seq(Env) /\ NoRepeats(<<e>> \o fl)
           /\ Members(<<e>> \o fl) = Members(fl) \cup {e}
<1> DEFINE s == <<e>> \o fl
<1>1. /\ s \in Seq(Env) /\ Len(s) = Len(fl) + 1 /\ s[1] = e
      /\ \A i \in 2 .. Len(fl) + 1 : s[i] = fl[i - 1] /\ i - 1 \in 1 .. Len(fl)
  OBVIOUS
<1> HIDE DEF s
<1>2. NoRepeats(s)
  <2> SUFFICES ASSUME NEW i \in 1 .. Len(s), NEW j \in 1 .. Len(s), s[i] = s[j] PROVE i = j
    BY DEF NoRepeats
  <2>1. \A k \in 2 .. Len(fl) + 1 : s[k] # e
    BY <1>1 DEF Members
  <2>2. CASE i = 1 \/ j = 1
    BY <1>1, <2>1, <2>2
  <2>3. CASE i # 1 /\ j # 1
    <3>1. i \in 2 .. Len(fl) + 1 /\ j \in 2 .. Len(fl) + 1
      BY <1>1, <2>3
    <3>2. fl[i - 1] = fl[j - 1] /\ i - 1 \in 1 .. Len(fl) /\ j - 1 \in 1 .. Len(fl)
      BY <1>1, <3>1
    <3>3. i - 1 = j - 1
      BY <3>2 DEF NoRepeats
    <3> QED BY <3>1, <3>3
  <2> QED BY <2>2, <2>3
<1>3. ASSUME NEW x \in Members(s) PROVE x \in Members(fl) \cup {e}
  BY <1>1 DEF Members
<1>4. ASSUME NEW x \in Members(fl) \cup {e} PROVE x \in Members(s)
  <2>1. CASE x = e
    BY <1>1, <2>1 DEF Members
  <2>2. CASE x \in Members(fl)
    <3>1. PICK i \in 1 .. Len(fl) : x = fl[i]
      BY <2>2 DEF Members
    <3>2. i + 1 \in 2 .. Len(fl) + 1 /\ (i + 1) - 1 = i
      BY <3>1
    <3>3. s[i + 1] = fl[i] /\ i + 1 \in 1 .. Len(s)
      BY <1>1, <3>2
    <3> QED BY <3>1, <3>3 DEF Members
  <2> QED BY <2>1, <2>2
<1> QED BY <1>1, <1>2, <1>3, <1>4 DEF s

\* env_alloc's slot was free and its ASID unused: the new environment is queued.
LEMMA CreateKeeps ==
    ASSUME NEW es, NEW fs, NEW q, NEW fl, NEW ab, Good(es, q, fl, ab), fl # <<>>,
           NEW asid \in Asid \ ab, NEW e, e = Head(fl),
           fs \in [Env -> EnvRecord], fs[e].env_status = "RUNNABLE",
           fs[e].env_asid = asid, fs[e].env_pri \in Pri, fs[e].env_ipc_recving # 1,
           \A d \in Env \ {e} : fs[d] = es[d]
    PROVE  Good(fs, TAILQ_INSERT_HEAD(q, e), Tail(fl), ab \cup {asid})
<1>1. fl \in Seq(Env) /\ NoRepeats(fl) /\ Members(fl) = Env \ LiveIn(es)
  BY DEF Good, FreeOK
<1>2. /\ e \in Env \ LiveIn(es) /\ Tail(fl) \in Seq(Env) /\ NoRepeats(Tail(fl))
      /\ Members(Tail(fl)) = Members(fl) \ {e}
  BY <1>1, PopFree
<1>3. /\ RunnableIn(fs) = RunnableIn(es) \cup {e} /\ LiveIn(fs) = LiveIn(es) \cup {e}
      /\ e \in Env \ RunnableIn(es) /\ LiveIn(es) \subseteq Env
  BY <1>2 DEF RunnableIn, LiveIn
<1>4. FreeOK(fs, Tail(fl))
  BY <1>1, <1>2, <1>3 DEF FreeOK
<1>5. AsidOK(fs, ab \cup {asid})
  <2>1. /\ ab = {es[d].env_asid : d \in LiveIn(es)} /\ ab \subseteq Asid
        /\ \A c, d \in LiveIn(es) : es[c].env_asid = es[d].env_asid => c = d
    BY DEF Good, AsidOK
  <2>2. \A d \in LiveIn(es) : d # e /\ fs[d] = es[d] /\ fs[d].env_asid \in ab
    BY <1>2, <1>3, <2>1
  <2>3. ab \cup {asid} = {fs[d].env_asid : d \in LiveIn(fs)}
    BY <1>3, <2>1, <2>2
  <2>4. \A c, d \in LiveIn(fs) : fs[c].env_asid = fs[d].env_asid => c = d
    BY <1>3, <2>1, <2>2
  <2> QED BY <2>1, <2>3, <2>4 DEF AsidOK
<1>6. RecvOK(fs)
  BY DEF Good, RecvOK
<1>7. PriOK(fs)
  BY <1>2, <1>3 DEF Good, PriOK
<1>8. Lists(TAILQ_INSERT_HEAD(q, e), RunnableIn(fs))
  BY <1>3, InsertLists DEF Good
<1> QED BY <1>4, <1>5, <1>6, <1>7, <1>8 DEF Good

\* env_free of a runnable environment.
LEMMA FreeKeeps ==
    ASSUME NEW es, NEW fs, NEW q, NEW fl, NEW ab, Good(es, q, fl, ab), NEW e \in Env,
           es[e].env_status = "RUNNABLE", AlikeBut(e, es, fs), fs[e].env_status = "FREE",
           fs[e].env_ipc_recving # 1
    PROVE  Good(fs, TAILQ_REMOVE(q, e), <<e>> \o fl, ab \ {es[e].env_asid})
<1>1. fl \in Seq(Env) /\ NoRepeats(fl) /\ Members(fl) = Env \ LiveIn(es)
  BY DEF Good, FreeOK
<1>2. /\ RunnableIn(fs) = RunnableIn(es) \ {e} /\ LiveIn(fs) = LiveIn(es) \ {e}
      /\ e \in RunnableIn(es) /\ e \in LiveIn(es) /\ LiveIn(es) \subseteq Env
  BY DEF RunnableIn, LiveIn, AlikeBut
<1>3. /\ <<e>> \o fl \in Seq(Env) /\ NoRepeats(<<e>> \o fl)
      /\ Members(<<e>> \o fl) = Members(fl) \cup {e}
  BY <1>1, <1>2, PushFree
<1>4. FreeOK(fs, <<e>> \o fl)
  BY <1>1, <1>2, <1>3 DEF FreeOK
<1>5. AsidOK(fs, ab \ {es[e].env_asid})
  <2>1. /\ ab = {es[d].env_asid : d \in LiveIn(es)} /\ ab \subseteq Asid
        /\ \A c, d \in LiveIn(es) : es[c].env_asid = es[d].env_asid => c = d
    BY DEF Good, AsidOK
  <2>2. \A d \in LiveIn(es) : fs[d].env_asid = es[d].env_asid
    BY <1>2 DEF AlikeBut
  <2>3. ab \ {es[e].env_asid} = {fs[d].env_asid : d \in LiveIn(fs)}
    BY <1>2, <2>1, <2>2
  <2>4. \A c, d \in LiveIn(fs) : fs[c].env_asid = fs[d].env_asid => c = d
    BY <1>2, <2>1, <2>2
  <2> QED BY <2>1, <2>3, <2>4 DEF AsidOK
<1>6. RecvOK(fs)
  BY DEF Good, RecvOK, AlikeBut
<1>7. PriOK(fs)
  BY <1>2 DEF Good, PriOK, AlikeBut
<1>8. Lists(TAILQ_REMOVE(q, e), RunnableIn(fs))
  BY <1>2, RemoveLists DEF Good
<1> QED BY <1>4, <1>5, <1>6, <1>7, <1>8 DEF Good, AlikeBut

-----------------------------------------------------------------------------
(* One lemma per kind of trap.                                              *)

\* do_syscall's mark on the caller leaves a good state.
LEMMA EnteredGood ==
    ASSUME IInv, Running
    PROVE  /\ Good(Entered, env_sched_list, env_free_list, asid_bitmap)
           /\ curenv \in Env /\ envs \in [Env -> EnvRecord] /\ Entered \in [Env -> EnvRecord]
           /\ envs[curenv].env_status = "RUNNABLE" /\ envs[curenv].env_ipc_recving # 1
           /\ Entered[curenv].env_status = "RUNNABLE" /\ Entered[curenv].env_ipc_recving # 1
           /\ gen \in 0 .. MaxGen /\ count \in Nat /\ a0 \in Word /\ halted = "no"
<1>1. /\ Good(envs, env_sched_list, env_free_list, asid_bitmap)
      /\ curenv \in Env /\ envs \in [Env -> EnvRecord] /\ RecvOK(envs)
      /\ envs[curenv].env_status = "RUNNABLE"
      /\ gen \in 0 .. MaxGen /\ count \in Nat /\ a0 \in Word /\ halted = "no"
  BY DEF IInv, Running, Good
<1>2. Alike(envs, Entered) /\ Entered \in [Env -> EnvRecord]
  BY <1>1 DEF Alike, RecvOK, Entered, EnvRecord
<1>3. Good(Entered, env_sched_list, env_free_list, asid_bitmap)
  BY <1>1, <1>2, AlikeKeeps
<1>4. Entered[curenv].env_status = "RUNNABLE" /\ envs[curenv].env_ipc_recving # 1
  BY <1>1, <1>2 DEF Alike, RecvOK
<1>5. Entered[curenv].env_ipc_recving # 1
  BY <1>1, <1>2, <1>4 DEF Alike
<1> QED BY <1>1, <1>2, <1>3, <1>4, <1>5

\* A call that fails, or that changes nothing here.
LEMMA RefusedCall ==
    ASSUME IInv, Running, Return(Entered), UNCHANGED <<env_sched_list, env_free_list, asid_bitmap>>,
           gen' \in 0 .. MaxGen
    PROVE  IInv'
BY EnteredGood, ReturnKeeps DEF Return, Word

\* sys_yield puts the caller at the tail and runs the head: the invariant stands.
LEMMA YieldStep ==
    ASSUME IInv, sys_yield
    PROVE  IInv'
<1> DEFINE fs == [envs EXCEPT ![curenv].env_in_syscall = 0]
<1>1. Running /\ schedule(TRUE, curenv, fs, env_sched_list, "USER") /\ UNCHANGED pools
  BY DEF sys_yield
<1>2. RecvOK(envs) /\ Good(envs, env_sched_list, env_free_list, asid_bitmap)
  BY DEF IInv, Good
<1>3. Alike(envs, fs)
  BY <1>1, <1>2, EnteredGood DEF Alike, RecvOK, EnvRecord
<1>4. Good(fs, env_sched_list, env_free_list, asid_bitmap)
  BY <1>2, <1>3, AlikeKeeps
<1> HIDE DEF fs
<1> QED BY <1>1, <1>4, EnteredGood, ScheduleKeeps DEF pools, Word

\* The timer moves the current environment as sys_yield does.
LEMMA ClockStep ==
    ASSUME IInv, do_clock
    PROVE  IInv'
<1>1. PICK word \in {a0, "USER"} : schedule(FALSE, curenv, envs, env_sched_list, word)
  BY DEF do_clock
<1>2. Running /\ UNCHANGED pools /\ Good(envs, env_sched_list, env_free_list, asid_bitmap)
  BY DEF do_clock, IInv
<1>3. word \in Word
  BY <1>2, EnteredGood DEF Word
<1> QED BY <1>1, <1>2, <1>3, EnteredGood, ScheduleKeeps DEF pools

\* The first schedule, with no current environment, only picks the head.
LEMMA StartStep ==
    ASSUME IInv, start_schedule
    PROVE  IInv'
<1>1. /\ schedule(FALSE, NULL, envs, env_sched_list, a0) /\ UNCHANGED pools
      /\ Good(envs, env_sched_list, env_free_list, asid_bitmap)
      /\ gen \in 0 .. MaxGen /\ count \in Nat /\ a0 \in Word /\ halted = "no"
  BY DEF start_schedule, Booting, IInv
<1> QED BY <1>1, ScheduleKeeps DEF pools

\* sys_sleep takes the caller off the list as it stops being runnable.
LEMMA SleepStep ==
    ASSUME IInv, sys_sleep
    PROVE  IInv'
<1> DEFINE fs == [Entered EXCEPT ![curenv].env_status = "NOT_RUNNABLE", ![curenv].env_a0 = "OK"]
<1>1. /\ Running /\ UNCHANGED pools
      /\ schedule(TRUE, curenv, fs, TAILQ_REMOVE(env_sched_list, curenv), "SYS_sleep")
  BY DEF sys_sleep
<1>2. AlikeBut(curenv, Entered, fs) /\ fs[curenv].env_status = "NOT_RUNNABLE"
      /\ fs[curenv].env_ipc_recving # 1
  <2>1. RecvOK(Entered)
    BY <1>1, EnteredGood DEF Good
  <2> QED BY <1>1, <2>1, EnteredGood DEF AlikeBut, RecvOK, EnvRecord, Status, Word
<1> HIDE DEF fs
<1>3. Good(fs, TAILQ_REMOVE(env_sched_list, curenv), env_free_list, asid_bitmap)
  BY <1>1, <1>2, EnteredGood, BlockKeeps
<1> QED BY <1>1, <1>3, EnteredGood, ScheduleKeeps DEF pools, Word

\* sys_ipc_recv blocks the caller and takes it off the list.
LEMMA RecvStep ==
    ASSUME IInv, NEW from \in EnvId, sys_ipc_recv(from)
    PROVE  IInv'
<1> DEFINE fs == [Entered EXCEPT ![curenv].env_ipc_recving = 1,
                                 ![curenv].env_ipc_recv_from = from,
                                 ![curenv].env_status = "NOT_RUNNABLE"]
<1>1. Running /\ UNCHANGED pools
  BY DEF sys_ipc_recv
<1>2. CASE Return(Entered) /\ UNCHANGED env_sched_list
  BY <1>1, <1>2, EnteredGood, RefusedCall DEF pools
<1>3. CASE schedule(TRUE, curenv, fs, TAILQ_REMOVE(env_sched_list, curenv), "OK")
  <2>1. RecvOK(Entered) /\ Entered[curenv].env_in_syscall = 1
    BY <1>1, EnteredGood DEF Good, Entered, EnvRecord
  <2>2. AlikeBut(curenv, Entered, fs) /\ fs[curenv].env_status = "NOT_RUNNABLE"
        /\ fs[curenv].env_in_syscall = 1
    <3> DEFINE r == [Entered[curenv] EXCEPT !.env_ipc_recving = 1,
                                            !.env_ipc_recv_from = from,
                                            !.env_status = "NOT_RUNNABLE"]
    <3>1. fs = [Entered EXCEPT ![curenv] = r]
      BY <1>1, EnteredGood
    <3>2. /\ r \in EnvRecord /\ r.env_asid = Entered[curenv].env_asid
          /\ r.env_pri = Entered[curenv].env_pri /\ r.env_status = "NOT_RUNNABLE"
          /\ r.env_in_syscall = 1
      BY <1>1, <2>1, EnteredGood DEF EnvRecord, Status
    <3> HIDE DEF fs, r
    <3> QED BY <1>1, <2>1, <3>1, <3>2, EnteredGood, UpdateAlike
  <2> HIDE DEF fs
  <2>3. Good(fs, TAILQ_REMOVE(env_sched_list, curenv), env_free_list, asid_bitmap)
    BY <1>1, <2>2, EnteredGood, BlockKeeps
  <2> QED BY <1>1, <1>3, <2>3, EnteredGood, ScheduleKeeps DEF pools, Word
<1> QED BY <1>2, <1>3 DEF sys_ipc_recv

\* envid2env finds an environment.
LEMMA SlotFound ==
    ASSUME IInv, Running, NEW id \in EnvId
    PROVE  /\ SlotOf(id) \in Env
           /\ Valid(id) => envs[SlotOf(id)].env_status # "FREE"
<1>1. id = NoId \/ (id # NoId /\ id[2] \in Env)
  BY DEF EnvId
<1> QED BY <1>1, EnteredGood DEF SlotOf, Valid, Live

\* sys_ipc_try_send puts the receiver back exactly when it makes it runnable.
LEMMA SendStep ==
    ASSUME IInv, NEW id \in EnvId, sys_ipc_try_send(id)
    PROVE  IInv'
<1>1. Running /\ UNCHANGED pools
  BY DEF sys_ipc_try_send
<1>2. CASE Return(Entered) /\ UNCHANGED env_sched_list
  BY <1>1, <1>2, EnteredGood, RefusedCall DEF pools
<1>3. CASE Valid(id) /\ CanReceive(SlotOf(id)) /\ ~(Return(Entered) /\ UNCHANGED env_sched_list)
  <2> DEFINE e == SlotOf(id)
             fs == [Entered EXCEPT ![e].env_ipc_recving = 0,
                                   ![e].env_status = "RUNNABLE",
                                   ![e].env_in_syscall = 0]
  <2>1. Return(fs) /\ env_sched_list' = TAILQ_INSERT_TAIL(env_sched_list, e)
    BY <1>3 DEF sys_ipc_try_send
  <2>2. e \in Env /\ envs[e].env_ipc_recving = 1
    BY <1>1, <1>3, SlotFound DEF CanReceive
  <2> HIDE DEF e
  <2>3. RecvOK(Entered) /\ RecvOK(envs)
    BY <1>1, EnteredGood DEF Good, IInv
  <2>4. e # curenv /\ Entered[e] = envs[e] /\ Entered[e].env_status = "NOT_RUNNABLE"
    BY <1>1, <2>2, <2>3, EnteredGood DEF RecvOK, Entered
  <2>5. AlikeBut(e, Entered, fs) /\ fs[e].env_status = "RUNNABLE" /\ fs[e].env_ipc_recving # 1
    <3> DEFINE r == [Entered[e] EXCEPT !.env_ipc_recving = 0,
                                       !.env_status = "RUNNABLE",
                                       !.env_in_syscall = 0]
    <3>1. fs = [Entered EXCEPT ![e] = r]
      BY <1>1, <2>2, EnteredGood
    <3>2. /\ r \in EnvRecord /\ r.env_asid = Entered[e].env_asid
          /\ r.env_pri = Entered[e].env_pri /\ r.env_status = "RUNNABLE"
          /\ r.env_ipc_recving # 1
      BY <1>1, <2>2, EnteredGood, ZenonT(30) DEF EnvRecord, Status
    <3> HIDE DEF fs, r
    <3> QED BY <1>1, <2>2, <2>3, <3>1, <3>2, EnteredGood, UpdateAlike
  <2>6. fs[curenv].env_status = "RUNNABLE"
    BY <1>1, <2>4, <2>5, EnteredGood DEF AlikeBut
  <2> HIDE DEF fs
  <2>7. Good(fs, TAILQ_INSERT_TAIL(env_sched_list, e), env_free_list, asid_bitmap)
    BY <1>1, <2>2, <2>4, <2>5, EnteredGood, WakeKeeps
  <2> QED BY <1>1, <2>1, <2>6, <2>7, EnteredGood, ReturnKeeps DEF Return, pools, Word
<1> QED BY <1>2, <1>3 DEF sys_ipc_try_send

\* env_alloc yields the control block of a free slot with a new envid and ASID.
LEMMA AllocatedRecord ==
    ASSUME IInv, NEW e, NEW asid \in Asid, NEW parent \in EnvId, Allocates(e, asid)
    PROVE  /\ e \in Env /\ envs[e].env_status = "FREE" /\ asid \notin asid_bitmap
           /\ env_alloc(e, asid, parent) \in EnvRecord
           /\ env_alloc(e, asid, parent).env_asid = asid
           /\ env_alloc(e, asid, parent).env_ipc_recving # 1
           /\ gen' \in 0 .. MaxGen
<1>1. /\ env_free_list # <<>> /\ gen < MaxGen /\ e = Head(env_free_list) /\ gen' = gen + 1
      /\ asid \notin asid_bitmap
  BY DEF Allocates, FirstFreeAsid
<1>2. /\ env_free_list \in Seq(Env) /\ NoRepeats(env_free_list) /\ envs \in [Env -> EnvRecord]
      /\ Members(env_free_list) = Env \ LiveIn(envs) /\ RecvOK(envs) /\ gen \in 0 .. MaxGen
  BY DEF IInv, Good, FreeOK
<1>3. e \in Env /\ envs[e].env_status = "FREE" /\ envs[e] \in EnvRecord
  BY <1>1, <1>2, PopFree DEF LiveIn
<1>4. MaxGen \in Nat /\ NASID \in Nat
  BY EnvAssumption
<1>5. asid \in Nat /\ mkenvid(e) \in EnvId /\ NoId \in EnvId /\ gen' \in 0 .. MaxGen
  BY <1>1, <1>2, <1>3, <1>4 DEF Asid, mkenvid, EnvId
<1>6. envs[e].env_ipc_recving # 1
  BY <1>2, <1>3 DEF RecvOK
<1>7. env_alloc(e, asid, parent) \in EnvRecord
  BY <1>3, <1>5 DEF env_alloc, EnvRecord
<1>8. /\ env_alloc(e, asid, parent).env_asid = asid
      /\ env_alloc(e, asid, parent).env_ipc_recving # 1
  BY <1>3, <1>6 DEF env_alloc, EnvRecord
<1> QED BY <1>1, <1>3, <1>5, <1>7, <1>8

\* env_create inserts the new environment at the head.
LEMMA CreateStep ==
    ASSUME IInv, NEW pri \in Pri, env_create(pri)
    PROVE  IInv'
<1>1. PICK e \in Env, asid \in Asid :
          /\ Allocates(e, asid)
          /\ envs' = [envs EXCEPT ![e] =
                        [env_alloc(e, asid, NoId) EXCEPT !.env_pri = pri,
                                                         !.env_status = "RUNNABLE"]]
          /\ env_sched_list' = TAILQ_INSERT_HEAD(env_sched_list, e)
  BY DEF env_create
<1>2. Booting /\ UNCHANGED <<curenv, count, a0, halted>>
  BY DEF env_create
<1> DEFINE r == [env_alloc(e, asid, NoId) EXCEPT !.env_pri = pri, !.env_status = "RUNNABLE"]
<1>3. /\ env_alloc(e, asid, NoId) \in EnvRecord /\ env_alloc(e, asid, NoId).env_asid = asid
      /\ env_alloc(e, asid, NoId).env_ipc_recving # 1 /\ asid \notin asid_bitmap
      /\ gen' \in 0 .. MaxGen
  BY <1>1, AllocatedRecord DEF EnvId
<1>4. /\ r \in EnvRecord /\ r.env_status = "RUNNABLE" /\ r.env_asid = asid /\ r.env_pri = pri
      /\ r.env_ipc_recving # 1
  BY <1>3, EnvAssumption DEF EnvRecord, Status
<1> HIDE DEF r
<1> DEFINE fs == [envs EXCEPT ![e] = r]
<1>5. envs' = fs
  BY <1>1 DEF r
<1>6. envs \in [Env -> EnvRecord] /\ Good(envs, env_sched_list, env_free_list, asid_bitmap)
  BY DEF IInv, Good
<1>7. fs \in [Env -> EnvRecord] /\ fs[e] = r /\ \A d \in Env \ {e} : fs[d] = envs[d]
  BY <1>4, <1>6
<1>8. /\ env_free_list # <<>> /\ e = Head(env_free_list)
      /\ env_free_list' = Tail(env_free_list) /\ asid_bitmap' = asid_bitmap \cup {asid}
  BY <1>1 DEF Allocates
<1> HIDE DEF fs
<1>9. Good(fs, TAILQ_INSERT_HEAD(env_sched_list, e), Tail(env_free_list), asid_bitmap \cup {asid})
  BY <1>3, <1>4, <1>6, <1>7, <1>8, CreateKeeps, ZenonT(90)
<1>10. Good(envs', env_sched_list', env_free_list', asid_bitmap')
  BY <1>1, <1>5, <1>8, <1>9
<1> QED BY <1>2, <1>3, <1>10 DEF IInv, Booting, Running

\* sys_exofork leaves the child off the list, and not runnable.
LEMMA ForkStep ==
    ASSUME IInv, sys_exofork
    PROVE  IInv'
<1>1. Running
  BY DEF sys_exofork
<1>2. CASE AllocFails /\ Return(Entered) /\ UNCHANGED env_sched_list
  BY <1>1, <1>2, EnteredGood, RefusedCall DEF AllocFails, pools
<1>3. CASE /\ NoAsidLeft /\ UNCHANGED env_sched_list
           /\ Return([Entered EXCEPT ![Head(env_free_list)].env_id = mkenvid(Head(env_free_list))])
  <2> DEFINE e == Head(env_free_list)
             fs == [Entered EXCEPT ![e].env_id = mkenvid(e)]
  <2>1. /\ env_free_list # <<>> /\ gen < MaxGen /\ gen' = gen + 1
        /\ UNCHANGED <<env_free_list, asid_bitmap, env_sched_list>> /\ Return(fs)
    BY <1>3 DEF NoAsidLeft
  <2>2. /\ env_free_list \in Seq(Env) /\ RecvOK(Entered)
        /\ Good(Entered, env_sched_list, env_free_list, asid_bitmap)
    BY <1>1, EnteredGood DEF Good, FreeOK
  <2>3. e \in Env
    BY <2>1, <2>2
  <2> HIDE DEF e
  <2>4. mkenvid(e) \in EnvId /\ gen' \in 0 .. MaxGen
    BY <1>1, <2>1, <2>3, EnteredGood, EnvAssumption DEF mkenvid, EnvId
  <2>5. Alike(Entered, fs)
    BY <1>1, <2>2, <2>3, <2>4, EnteredGood, ZenonT(30) DEF Alike, RecvOK, EnvRecord
  <2> HIDE DEF fs
  <2>6. Good(fs, env_sched_list, env_free_list, asid_bitmap) /\ fs[curenv].env_status = "RUNNABLE"
    BY <1>1, <2>2, <2>5, EnteredGood, AlikeKeeps DEF Alike
  <2> QED BY <1>1, <2>1, <2>4, <2>6, ReturnKeeps DEF Return, Word
<1>4. CASE \E e \in Env, asid \in Asid :
             /\ Allocates(e, asid)
             /\ Return([Entered EXCEPT ![e] =
                          [env_alloc(e, asid, envs[curenv].env_id) EXCEPT
                              !.env_a0 = "OK", !.env_status = "RUNNABLE",
                              !.env_pri = envs[curenv].env_pri]])
             /\ env_sched_list' = TAILQ_INSERT_HEAD(env_sched_list, e)
  <2>1. PICK e \in Env, asid \in Asid :
             /\ Allocates(e, asid)
             /\ Return([Entered EXCEPT ![e] =
                          [env_alloc(e, asid, envs[curenv].env_id) EXCEPT
                              !.env_a0 = "OK", !.env_status = "RUNNABLE",
                              !.env_pri = envs[curenv].env_pri]])
             /\ env_sched_list' = TAILQ_INSERT_HEAD(env_sched_list, e)
    BY <1>4
  <2> DEFINE new == env_alloc(e, asid, envs[curenv].env_id)
             pri == envs[curenv].env_pri
             r == [new EXCEPT !.env_a0 = "OK", !.env_status = "RUNNABLE", !.env_pri = pri]
             fs == [Entered EXCEPT ![e] = r]
  <2>2. envs[curenv].env_id \in EnvId /\ pri \in Pri /\ pri \in Nat
    <3>1. PriOK(envs) /\ curenv \in LiveIn(envs)
      BY <1>1, EnteredGood DEF IInv, Good, LiveIn
    <3> QED BY <1>1, <3>1, EnteredGood DEF PriOK, EnvRecord
  <2>3. /\ new \in EnvRecord /\ new.env_asid = asid /\ new.env_ipc_recving # 1
        /\ asid \notin asid_bitmap /\ envs[e].env_status = "FREE" /\ gen' \in 0 .. MaxGen
    BY <2>1, <2>2, AllocatedRecord
  <2> HIDE DEF new, pri
  <2>4. /\ r \in EnvRecord /\ r.env_status = "RUNNABLE" /\ r.env_asid = asid /\ r.env_pri = pri
        /\ r.env_ipc_recving # 1
    BY <2>2, <2>3 DEF EnvRecord, Status, Word
  <2>5. Return(fs)
    BY <2>1 DEF new, pri
  <2> HIDE DEF r
  <2>6. fs \in [Env -> EnvRecord] /\ fs[e] = r /\ \A d \in Env \ {e} : fs[d] = Entered[d]
    BY <1>1, <2>4, EnteredGood
  <2>7. /\ env_free_list # <<>> /\ e = Head(env_free_list)
        /\ env_free_list' = Tail(env_free_list) /\ asid_bitmap' = asid_bitmap \cup {asid}
    BY <2>1 DEF Allocates
  <2> HIDE DEF fs
  <2>8. Good(fs, TAILQ_INSERT_HEAD(env_sched_list, e), Tail(env_free_list), asid_bitmap \cup {asid})
    BY <1>1, <2>2, <2>3, <2>4, <2>6, <2>7, EnteredGood, CreateKeeps
  <2>9. fs[curenv].env_status = "RUNNABLE"
    BY <1>1, <2>3, <2>6, EnteredGood
  <2> QED BY <1>1, <2>1, <2>3, <2>5, <2>7, <2>8, <2>9, ReturnKeeps DEF Return, Word
<1> QED BY <1>2, <1>3, <1>4 DEF sys_exofork

\* env_destroy removes its target from the list and frees its block.
LEMMA DestroyStep ==
    ASSUME WellBehaved, IInv, NEW id \in EnvId, sys_env_destroy(id)
    PROVE  IInv'
<1>1. Running
  BY DEF sys_env_destroy
<1>2. CASE Return(Entered) /\ UNCHANGED <<pools, env_sched_list>>
  BY <1>1, <1>2, EnteredGood, RefusedCall DEF pools
<1>3. CASE Permitted(id) /\ ~(Return(Entered) /\ UNCHANGED <<pools, env_sched_list>>)
  <2> DEFINE e == SlotOf(id)
             fs == [Entered EXCEPT ![e].env_status = "FREE"]
             q == TAILQ_REMOVE(env_sched_list, e)
  <2>1. /\ envs[e].env_status = "RUNNABLE" \/ "destroy_blocked" \in Usage
        /\ env_free(e)
        /\ \/ e = curenv /\ schedule(TRUE, NULL, fs, q, "USER")
           \/ e # curenv /\ Return(fs) /\ env_sched_list' = q
    BY <1>3 DEF sys_env_destroy
  <2>2. e \in Env /\ envs[e].env_status = "RUNNABLE"
    BY <1>1, <2>1, SlotFound DEF WellBehaved
  <2> HIDE DEF e
  <2>3. /\ RecvOK(Entered) /\ Good(Entered, env_sched_list, env_free_list, asid_bitmap)
        /\ Entered[e].env_status = "RUNNABLE" /\ Entered[e].env_asid = envs[e].env_asid
    BY <1>1, <2>2, EnteredGood DEF Good, Entered, EnvRecord
  <2>4. /\ AlikeBut(e, Entered, fs) /\ fs[e].env_status = "FREE" /\ fs[e].env_ipc_recving # 1
    BY <1>1, <2>2, <2>3, EnteredGood DEF AlikeBut, RecvOK, EnvRecord, Status
  <2> HIDE DEF fs, q
  <2>5. Good(fs, q, <<e>> \o env_free_list, asid_bitmap \ {envs[e].env_asid})
    BY <2>2, <2>3, <2>4, FreeKeeps DEF q
  <2>6. /\ asid_bitmap' = asid_bitmap \ {envs[e].env_asid}
        /\ env_free_list' = <<e>> \o env_free_list /\ gen' = gen
    BY <2>1 DEF env_free
  <2>7. CASE schedule(TRUE, NULL, fs, q, "USER")
    BY <1>1, <2>5, <2>6, <2>7, EnteredGood, ScheduleKeeps DEF Word
  <2>8. CASE e # curenv /\ Return(fs) /\ env_sched_list' = q
    <3>1. fs[curenv].env_status = "RUNNABLE"
      BY <1>1, <2>4, <2>8, EnteredGood DEF AlikeBut
    <3> QED BY <1>1, <2>5, <2>6, <2>8, <3>1, EnteredGood, ReturnKeeps DEF Return, Word
  <2> QED BY <2>1, <2>7, <2>8
<1> QED BY <1>2, <1>3 DEF sys_env_destroy

\* sys_set_env_status moves its target on or off the list with its status.
LEMMA SetStatusStep ==
    ASSUME WellBehaved, IInv, NEW id \in EnvId, NEW status \in Status,
           sys_set_env_status(id, status)
    PROVE  IInv'
<1>1. Running /\ UNCHANGED pools
  BY DEF sys_set_env_status
<1>2. CASE Return(Entered) /\ UNCHANGED env_sched_list
  BY <1>1, <1>2, EnteredGood, RefusedCall DEF pools
<1>3. CASE /\ status # "FREE" /\ Permitted(id)
           /\ ~(Return(Entered) /\ UNCHANGED env_sched_list)
  <2> DEFINE e == SlotOf(id)
             fs == [Entered EXCEPT ![e].env_status = status]
             q == CASE envs[e].env_status = status -> env_sched_list
                    [] envs[e].env_status # status /\ status = "RUNNABLE" ->
                          TAILQ_INSERT_TAIL(env_sched_list, e)
                    [] OTHER -> TAILQ_REMOVE(env_sched_list, e)
  <2>1. /\ status = "RUNNABLE" /\ BlockedInCall(e) => WakePattern(e) \in Usage
        /\ \/ e = curenv /\ schedule(TRUE, curenv, fs, q, "SYS_set_env_status")
           \/ e # curenv /\ Return(fs) /\ env_sched_list' = q
    BY <1>3 DEF sys_set_env_status
  <2>2. e \in Env /\ envs[e].env_status \in {"RUNNABLE", "NOT_RUNNABLE"}
    BY <1>1, <1>3, SlotFound, EnteredGood DEF Permitted, EnvRecord, Status
  <2> HIDE DEF e
  <2>3. /\ RecvOK(Entered) /\ RecvOK(envs)
        /\ Good(Entered, env_sched_list, env_free_list, asid_bitmap)
        /\ Entered[e].env_status = envs[e].env_status
        /\ Entered[e].env_ipc_recving = envs[e].env_ipc_recving
    BY <1>1, <2>2, EnteredGood DEF Good, IInv, Entered, EnvRecord
  <2>4. /\ AlikeBut(e, Entered, fs) /\ fs[e].env_status = status
        /\ fs[e].env_ipc_recving = Entered[e].env_ipc_recving
        /\ fs[e].env_in_syscall = Entered[e].env_in_syscall
    BY <1>1, <2>2, <2>3, EnteredGood DEF AlikeBut, RecvOK, EnvRecord
  <2> HIDE DEF fs
  <2>5. Good(fs, q, env_free_list, asid_bitmap)
    <3>1. CASE envs[e].env_status = status
      <4>1. q = env_sched_list
        BY <3>1
      <4>2. Alike(Entered, fs)
        BY <2>3, <2>4, <3>1 DEF Alike, AlikeBut, RecvOK
      <4> QED BY <2>3, <4>1, <4>2, AlikeKeeps
    <3>2. CASE envs[e].env_status # status /\ status = "RUNNABLE"
      <4>1. q = TAILQ_INSERT_TAIL(env_sched_list, e)
        BY <3>2
      <4>2. envs[e].env_status = "NOT_RUNNABLE"
        BY <2>2, <3>2
      <4>3. envs[e].env_ipc_recving # 1
        BY <2>1, <2>2, <2>3, <3>2, <4>2 DEF WellBehaved, BlockedInCall, WakePattern, RecvOK
      <4> HIDE DEF q
      <4> QED BY <2>2, <2>3, <2>4, <3>2, <4>1, <4>2, <4>3, WakeKeeps
    <3>3. CASE envs[e].env_status # status /\ status # "RUNNABLE"
      <4>1. q = TAILQ_REMOVE(env_sched_list, e)
        BY <3>3
      <4>2. envs[e].env_status = "RUNNABLE" /\ status = "NOT_RUNNABLE"
        BY <1>3, <2>2, <3>3 DEF Status
      <4>3. envs[e].env_ipc_recving # 1
        BY <2>2, <2>3, <4>2 DEF RecvOK
      <4> HIDE DEF q
      <4> QED BY <2>2, <2>3, <2>4, <4>1, <4>2, <4>3, BlockKeeps
    <3> QED BY <3>1, <3>2, <3>3
  <2> HIDE DEF q
  <2>6. CASE schedule(TRUE, curenv, fs, q, "SYS_set_env_status")
    BY <1>1, <2>5, <2>6, EnteredGood, ScheduleKeeps DEF pools, Word
  <2>7. CASE e # curenv /\ Return(fs) /\ env_sched_list' = q
    <3>1. fs[curenv].env_status = "RUNNABLE"
      BY <1>1, <2>4, <2>7, EnteredGood DEF AlikeBut
    <3> QED BY <1>1, <2>5, <2>7, <3>1, EnteredGood, ReturnKeeps DEF Return, pools, Word
  <2> QED BY <2>1, <2>6, <2>7
<1> QED BY <1>2, <1>3 DEF sys_set_env_status

-----------------------------------------------------------------------------
(* The environments without interrupts.                                     *)

\* env_init's tables satisfy the invariant.
LEMMA InitIInv == Init => IInv
<1> SUFFICES ASSUME Init PROVE IInv
  OBVIOUS
<1>1. NULL \notin Env /\ HEAD \notin Env /\ NASID \in Nat /\ MaxGen \in Nat
  BY EnvAssumption
<1>2. envs \in [Env -> EnvRecord] /\ \A e \in Env : /\ envs[e].env_status = "FREE"
                                                    /\ envs[e].env_ipc_recving = 0
  BY DEF Init, EnvRecord, Status, EnvId, Word
<1>3. RunnableIn(envs) = {} /\ LiveIn(envs) = {}
  BY <1>2 DEF RunnableIn, LiveIn
<1>4. Lists(env_sched_list, {})
  <2>1. <<>> \in Seq(Env) /\ Members(<<>>) = {}
    BY DEF Members
  <2>2. Represents(env_sched_list, <<>>)
    BY <1>1, InitRepresents DEF Init
  <2>3. env_sched_list \in Queue(Env)
    BY <1>1, InitRepresents DEF Init
  <2> QED BY <2>1, <2>2, <2>3 DEF Lists
<1>5. FreeOK(envs, env_free_list)
  <2>1. /\ env_free_list \in UNION {[1 .. k -> Env] : k \in 0 .. Cardinality(Env)}
        /\ NoRepeats(env_free_list) /\ Members(env_free_list) = Env
    BY DEF Init, Orderings
  <2>2. env_free_list \in Seq(Env)
    <3>1. Cardinality(Env) \in Nat
      BY EnvAssumption, FS_CardinalityType
    <3>2. PICK k \in 0 .. Cardinality(Env) : env_free_list \in [1 .. k -> Env]
      BY <2>1
    <3>3. k \in Nat
      BY <3>1, <3>2
    <3> QED BY <3>2, <3>3
  <2> QED BY <1>3, <2>1, <2>2 DEF FreeOK
<1>6. AsidOK(envs, asid_bitmap)
  BY <1>3 DEF Init, AsidOK
<1>7. RecvOK(envs) /\ PriOK(envs)
  BY <1>2, <1>3 DEF RecvOK, PriOK
<1>8. Good(envs, env_sched_list, env_free_list, asid_bitmap)
  BY <1>2, <1>3, <1>4, <1>5, <1>6, <1>7 DEF Good
<1> QED BY <1>1, <1>8 DEF Init, IInv, Word, Running

\* The filters a receiver may name are identifiers.
LEMMA SendersAreIds ==
    ASSUME IInv
    PROVE  Senders \subseteq EnvId
<1>1. envs \in [Env -> EnvRecord]
  BY DEF IInv, Good
<1> QED BY <1>1 DEF Senders, EnvRecord, EnvId

\* One step per action.
LEMMA NextKeepsIInv ==
    ASSUME WellBehaved, IInv, [IpcNext]_envVars
    PROVE  IInv'
<1>1. CASE UNCHANGED envVars
  BY <1>1 DEF envVars, IInv, Running
<1>2. ASSUME NEW pri \in Pri, env_create(pri) PROVE IInv'
  BY <1>2, CreateStep
<1>3. CASE start_schedule
  BY <1>3, StartStep
<1>4. CASE do_clock
  BY <1>4, ClockStep
<1>5. CASE sys_yield
  BY <1>5, YieldStep
<1>6. CASE sys_sleep
  BY <1>6, SleepStep
<1>7. CASE sys_exofork
  BY <1>7, ForkStep
<1>8. ASSUME NEW id \in EnvId, sys_env_destroy(id) PROVE IInv'
  BY <1>8, DestroyStep
<1>9. ASSUME NEW id \in EnvId, NEW status \in Status, sys_set_env_status(id, status) PROVE IInv'
  BY <1>9, SetStatusStep
<1>10. ASSUME NEW from \in Senders, sys_ipc_recv(from) PROVE IInv'
  BY <1>10, RecvStep, SendersAreIds
<1>11. ASSUME NEW id \in EnvId, sys_ipc_try_send(id) PROVE IInv'
  BY <1>11, SendStep
<1> QED
  BY <1>1, <1>2, <1>3, <1>4, <1>5, <1>6, <1>7, <1>8, <1>9, <1>10, <1>11 DEF IpcNext, EnvNext

\* What the invariant says of a state.
LEMMA IInvImplies ==
    ASSUME IInv
    PROVE  TypeOK /\ SchedListIffRunnable /\ FreeListIffFree /\ AsidsExact
           /\ ReceiverBlocked /\ AssertHolds
<1>1. Good(envs, env_sched_list, env_free_list, asid_bitmap)
  BY DEF IInv
<1>2. RunnableIn(envs) = Runnable /\ LiveIn(envs) = {e \in Env : Live(e)}
  BY DEF RunnableIn, Runnable, LiveIn, Live
<1>3. TypeOK
  BY <1>1 DEF TypeOK, IInv, Good, Lists, FreeOK, AsidOK
<1>4. SchedListIffRunnable
  <2>1. PICK s \in Seq(Env) : Represents(env_sched_list, s) /\ Members(s) = Runnable
    BY <1>1, <1>2 DEF Good, Lists
  <2>2. s \in Orderings(Env)
    BY <2>1, EnvAssumption, RepresentedIsOrdering DEF Represents
  <2> QED BY <2>1, <2>2 DEF SchedListIffRunnable
<1>5. FreeListIffFree
  BY <1>1, <1>2 DEF Good, FreeOK, FreeListIffFree
<1>6. AsidsExact
  <2>1. asid_bitmap = {envs[e].env_asid : e \in LiveIn(envs)}
    BY <1>1 DEF Good, AsidOK
  <2>2. \A d, e \in LiveIn(envs) : envs[d].env_asid = envs[e].env_asid => d = e
    BY <1>1 DEF Good, AsidOK
  <2> QED BY <1>2, <2>1, <2>2 DEF AsidsExact
<1>7. ReceiverBlocked
  BY <1>1 DEF Good, RecvOK, ReceiverBlocked, BlockedInCall
<1>8. AssertHolds
  BY DEF IInv, AssertHolds
<1> QED BY <1>3, <1>4, <1>5, <1>6, <1>7, <1>8

\* Programs that neither destroy a blocked child nor wake a waiting receiver
\* keep the kernel's data intact, however their calls and the clock interleave.
THEOREM IpcInvariant ==
    ASSUME WellBehaved
    PROVE  IpcSpec => []IInv
<1>1. IInv /\ [IpcNext]_envVars => IInv'
  BY NextKeepsIInv
<1> QED BY <1>1, InitIInv, PTL DEF IpcSpec

\* env.c:19, for queues at pointer level: see SchedListIffRunnable.
THEOREM SchedListCorrect ==
    ASSUME WellBehaved
    PROVE  IpcSpec => []SchedListIffRunnable
<1>1. IInv => SchedListIffRunnable
  BY IInvImplies
<1> QED BY <1>1, IpcInvariant, PTL

\* Every other invariant of the environments: slots and ASIDs are neither lost
\* nor shared, receivers are blocked in their call, env_run's assertion holds.
THEOREM EnvTablesCorrect ==
    ASSUME WellBehaved
    PROVE  IpcSpec => [](TablesConsistent /\ AsidsExact /\ ReceiverBlocked)
<1>1. IInv => TablesConsistent /\ AsidsExact /\ ReceiverBlocked
  BY IInvImplies DEF TablesConsistent
<1> QED BY <1>1, IpcInvariant, PTL

-----------------------------------------------------------------------------
(* With user-level interrupts.                                              *)

\* The tables of the interrupt code, as far as the environments depend on them.
IrqOK == /\ interrupt_code_to_envid \in [Irq -> EnvId]
         /\ prority \in [Irq -> {0, 1}]
         /\ claimed \subseteq Irq
         /\ xstack \in [Env -> Seq(Frame)]

\* Neither the environments nor the queue change, only the handler's frame.
LEMMA InterruptCurrentStep ==
    ASSUME IInv, NEW c \in Irq, interrupt_current(c)
    PROVE  IInv'
BY DEF interrupt_current, IInv, Running, pools, Word

\* A delivery to an environment that is not running queues it once.
LEMMA InterruptOtherStep ==
    ASSUME IInv, IrqOK, NEW c \in Irq, interrupt_other(c)
    PROVE  IInv'
<1> DEFINE id == interrupt_code_to_envid[c]
           e == SlotOf(id)
           blocked == envs[e].env_status = "NOT_RUNNABLE"
           incall == BlockedInCall(e)
           woken == [envs EXCEPT
                       ![e].env_status = "RUNNABLE",
                       ![e].env_in_syscall = IF incall THEN 0 ELSE @,
                       ![e].env_ipc_recving = IF incall THEN 0 ELSE @,
                       ![e].env_a0 = IF incall THEN "E_INTR" ELSE @]
           fs == [woken EXCEPT ![e].env_a0 = "USER"]
<1>1. /\ Running /\ Valid(id) /\ UNCHANGED <<pools, count>>
      /\ env_sched_list' = IF blocked THEN TAILQ_INSERT_HEAD(env_sched_list, e)
                                      ELSE env_sched_list
  BY DEF interrupt_other, Delivered
<1>2. PICK word \in {a0, "USER"} : env_run(e, curenv, fs, word)
  BY DEF interrupt_other
<1>3. id \in EnvId
  BY DEF IrqOK
<1>4. /\ e \in Env /\ envs[e].env_status # "FREE" /\ envs \in [Env -> EnvRecord]
      /\ curenv \in Env /\ gen \in 0 .. MaxGen /\ count \in Nat /\ a0 \in Word /\ halted = "no"
      /\ RecvOK(envs) /\ Good(envs, env_sched_list, env_free_list, asid_bitmap)
  BY <1>1, <1>3, SlotFound, EnteredGood DEF IInv, Good
<1> HIDE DEF id, e
<1>5. envs[e].env_status \in {"RUNNABLE", "NOT_RUNNABLE"} /\ envs[e] \in EnvRecord
  BY <1>4 DEF EnvRecord, Status
<1> DEFINE s == IF incall THEN 0 ELSE envs[e].env_in_syscall
           w == IF incall THEN 0 ELSE envs[e].env_ipc_recving
           r == [envs[e] EXCEPT !.env_status = "RUNNABLE", !.env_in_syscall = s,
                                !.env_ipc_recving = w, !.env_a0 = "USER"]
<1>6. w # 1 /\ w \in {0, 1} /\ s \in {0, 1}
  BY <1>4, <1>5 DEF RecvOK, EnvRecord, BlockedInCall
<1>7. fs = [envs EXCEPT ![e] = r]
  <2>1. woken = [envs EXCEPT ![e] = [envs[e] EXCEPT
                    !.env_status = "RUNNABLE", !.env_in_syscall = s, !.env_ipc_recving = w,
                    !.env_a0 = IF incall THEN "E_INTR" ELSE envs[e].env_a0]]
    BY <1>4, <1>5 DEF EnvRecord
  <2> HIDE DEF woken, s, w, incall
  <2> QED BY <1>4, <1>5, <2>1 DEF EnvRecord
<1> HIDE DEF s, w, fs
<1>8. /\ r \in EnvRecord /\ r.env_asid = envs[e].env_asid /\ r.env_pri = envs[e].env_pri
      /\ r.env_status = "RUNNABLE" /\ r.env_ipc_recving = w
  BY <1>5, <1>6 DEF EnvRecord, Status, Word
<1> HIDE DEF r
<1>9. AlikeBut(e, envs, fs) /\ fs[e].env_status = "RUNNABLE" /\ fs[e].env_ipc_recving # 1
  BY <1>4, <1>6, <1>7, <1>8, UpdateAlike
<1>10. Good(fs, env_sched_list', env_free_list', asid_bitmap')
  <2>1. CASE blocked
    <3>1. Good(fs, TAILQ_INSERT_HEAD(env_sched_list, e), env_free_list, asid_bitmap)
      BY <1>4, <1>9, <2>1, WakeKeeps
    <3> QED BY <1>1, <2>1, <3>1 DEF pools
  <2>2. CASE ~blocked
    <3>1. Alike(envs, fs)
      BY <1>4, <1>5, <1>9, <2>2 DEF Alike, AlikeBut
    <3>2. Good(fs, env_sched_list, env_free_list, asid_bitmap)
      BY <1>4, <3>1, AlikeKeeps
    <3> QED BY <1>1, <2>2, <3>2 DEF pools
  <2> QED BY <2>1, <2>2
<1>11. e \in RunnableIn(fs) /\ word \in Word
  BY <1>2, <1>4, <1>9 DEF RunnableIn, Word
<1> QED BY <1>1, <1>2, <1>4, <1>10, <1>11, EnvRunKeeps DEF pools

\* The end of a handler restores the status that the delivery saved.
LEMMA InterruptReturnStep ==
    ASSUME IInv, IrqOK, sys_interrupt_return
    PROVE  IInv'
<1>1. Running /\ UNCHANGED <<pools, env_sched_list>>
  BY DEF sys_interrupt_return
<1>2. CASE Return(Entered)
  BY <1>1, <1>2, EnteredGood, RefusedCall DEF pools
<1>3. CASE ~Return(Entered)
  <2> DEFINE stack == xstack[curenv]
  <2>1. /\ stack # <<>> /\ envs' = [envs EXCEPT ![curenv].env_in_syscall = 0]
        /\ a0' = stack[Len(stack)].a0 /\ UNCHANGED <<curenv, count, halted>>
    BY <1>3 DEF sys_interrupt_return
  <2>2. stack \in Seq(Frame)
    BY <1>1, EnteredGood DEF IrqOK
  <2>3. a0' \in Word
    <3>1. stack[Len(stack)] \in Frame
      BY <2>1, <2>2
    <3>2. stack[Len(stack)].a0 \in Word
      BY <3>1 DEF Frame
    <3> QED BY <2>1, <3>2
  <2>4. Good(envs, env_sched_list', env_free_list', asid_bitmap') /\ gen' \in 0 .. MaxGen
    BY <1>1 DEF IInv, pools
  <2> QED BY <1>1, <2>1, <2>3, <2>4, EnteredGood, ReturnKeeps
<1> QED BY <1>2, <1>3

\* A pushed frame is a frame: its regs[10] is a word.
LEMMA PushTyped ==
    ASSUME IrqOK, NEW e \in Env, NEW word \in Word, NEW c \in Irq
    PROVE  Push(e, word, c) \in [Env -> Seq(Frame)]
<1>1. [a0 |-> word, code |-> c] \in Frame
  BY DEF Frame
<1>2. Append(xstack[e], [a0 |-> word, code |-> c]) \in Seq(Frame)
  BY <1>1 DEF IrqOK
<1> QED BY <1>2 DEF Push, IrqOK

\* The steps of the interrupt code keep its tables.
LEMMA HandlersKeepIrqOK ==
    ASSUME IInv, IrqOK,
           \/ sys_interrupt_return
           \/ \E c \in Irq : \/ sys_set_interrupt_handler(c) \/ interrupt_without_owner(c)
                             \/ interrupt_current(c) \/ interrupt_other(c)
    PROVE  IrqOK'
<1>1. CASE sys_interrupt_return
  <2>1. Running
    BY <1>1 DEF sys_interrupt_return
  <2>2. CASE UNCHANGED irqVars
    BY <2>2 DEF irqVars, IrqOK
  <2>3. CASE ~UNCHANGED irqVars
    <3> DEFINE stack == xstack[curenv]
               rest == SubSeq(stack, 1, Len(stack) - 1)
    <3>1. /\ stack # <<>> /\ xstack' = [xstack EXCEPT ![curenv] = rest]
          /\ prority' = Unmask(envs[curenv].env_id)
          /\ UNCHANGED <<interrupt_code_to_envid, claimed>>
      BY <1>1, <2>3 DEF sys_interrupt_return
    <3>2. curenv \in Env /\ stack \in Seq(Frame)
      BY <2>1, EnteredGood DEF IrqOK
    <3>3. rest \in Seq(Frame)
      BY <3>1, <3>2
    <3>4. Unmask(envs[curenv].env_id) \in [Irq -> {0, 1}]
      BY DEF Unmask, IrqOK
    <3> HIDE DEF rest
    <3> QED BY <3>1, <3>2, <3>3, <3>4 DEF IrqOK
  <2> QED BY <2>2, <2>3
<1>2. ASSUME NEW c \in Irq, sys_set_interrupt_handler(c) PROVE IrqOK'
  <2>1. Running /\ UNCHANGED <<claimed, xstack>>
        /\ interrupt_code_to_envid' = [interrupt_code_to_envid EXCEPT ![c] = envs[curenv].env_id]
        /\ prority' = [prority EXCEPT ![c] = 1]
    BY <1>2 DEF sys_set_interrupt_handler
  <2>2. envs[curenv].env_id \in EnvId
    BY <2>1, EnteredGood DEF EnvRecord
  <2> QED BY <2>1, <2>2 DEF IrqOK
<1>3. ASSUME NEW c \in Irq, interrupt_without_owner(c) PROVE IrqOK'
  BY <1>3 DEF interrupt_without_owner, IrqOK
<1>4. ASSUME NEW c \in Irq, interrupt_current(c) PROVE IrqOK'
  <2>1. PICK word \in {a0, "USER"} : xstack' = Push(curenv, word, c)
    BY <1>4 DEF interrupt_current
  <2>2. /\ Running /\ prority' = [prority EXCEPT ![c] = 0]
        /\ UNCHANGED <<interrupt_code_to_envid, claimed>>
    BY <1>4 DEF interrupt_current, Delivered
  <2>3. xstack' \in [Env -> Seq(Frame)]
    BY <2>1, <2>2, EnteredGood, PushTyped DEF Word
  <2> QED BY <2>2, <2>3 DEF IrqOK
<1>5. ASSUME NEW c \in Irq, interrupt_other(c) PROVE IrqOK'
  <2>1. PICK word : /\ xstack' = Push(SlotOf(interrupt_code_to_envid[c]), word, c)
                    /\ word \in Word
    <3> DEFINE e == SlotOf(interrupt_code_to_envid[c])
               incall == BlockedInCall(e)
               word == IF incall THEN "E_INTR" ELSE envs[e].env_a0
    <3>1. Running /\ interrupt_code_to_envid[c] \in EnvId
      BY <1>5 DEF interrupt_other, Delivered, IrqOK
    <3>2. e \in Env /\ envs \in [Env -> EnvRecord]
      BY <3>1, SlotFound, EnteredGood
    <3>3. xstack' = Push(e, word, c)
      <4> DEFINE woken == [envs EXCEPT
                            ![e].env_status = "RUNNABLE",
                            ![e].env_in_syscall = IF incall THEN 0 ELSE @,
                            ![e].env_ipc_recving = IF incall THEN 0 ELSE @,
                            ![e].env_a0 = IF incall THEN "E_INTR" ELSE @]
      <4>1. xstack' = Push(e, woken[e].env_a0, c)
        BY <1>5 DEF interrupt_other
      <4> HIDE DEF e, incall
      <4>2. woken[e].env_a0 = word
        BY <3>2 DEF EnvRecord
      <4> QED BY <4>1, <4>2
    <3>4. word \in Word
      BY <3>2 DEF EnvRecord, Word
    <3> QED BY <3>3, <3>4
  <2>2. /\ Running /\ prority' = [prority EXCEPT ![c] = 0]
        /\ UNCHANGED <<interrupt_code_to_envid, claimed>>
    BY <1>5 DEF interrupt_other, Delivered
  <2>3. SlotOf(interrupt_code_to_envid[c]) \in Env
    BY <2>2, SlotFound DEF IrqOK
  <2>4. xstack' \in [Env -> Seq(Frame)]
    BY <2>1, <2>3, PushTyped
  <2> QED BY <2>2, <2>4 DEF IrqOK
<1> QED BY <1>1, <1>2, <1>3, <1>4, <1>5

\* Every step of the system with interrupts preserves the invariant.
LEMMA IrqNextKeeps ==
    ASSUME WellBehaved, IInv, IrqOK, [IrqNext]_vars
    PROVE  IInv' /\ IrqOK'
<1>1. CASE UNCHANGED vars
  <2>1. UNCHANGED envVars /\ UNCHANGED irqVars
    BY <1>1 DEF vars
  <2> QED BY <2>1, NextKeepsIInv DEF irqVars, IrqOK
<1>2. CASE IpcNext /\ UNCHANGED irqVars
  BY <1>2, NextKeepsIInv DEF irqVars, IrqOK
<1>3. ASSUME NEW id \in EnvId, sys_env_destroy(id),
             xstack' = [e \in Env |-> IF Freed(e) THEN <<>> ELSE xstack[e]],
             UNCHANGED <<interrupt_code_to_envid, prority, claimed>>
      PROVE  IInv' /\ IrqOK'
  <2>1. <<>> \in Seq(Frame)
    OBVIOUS
  <2> QED BY <1>3, <2>1, DestroyStep DEF IrqOK
<1>4. CASE sys_interrupt_return
  BY <1>4, InterruptReturnStep, HandlersKeepIrqOK
<1>5. ASSUME NEW c \in Irq, sys_set_interrupt_handler(c) PROVE IInv' /\ IrqOK'
  <2>1. Running /\ Return(Entered) /\ UNCHANGED <<pools, env_sched_list>>
    BY <1>5 DEF sys_set_interrupt_handler
  <2>2. IInv'
    BY <2>1, EnteredGood, RefusedCall DEF pools
  <2> QED BY <1>5, <2>2, HandlersKeepIrqOK
<1>6. ASSUME NEW c \in Irq, interrupt_without_owner(c) PROVE IInv' /\ IrqOK'
  <2>1. UNCHANGED envVars
    BY <1>6 DEF interrupt_without_owner
  <2> QED BY <1>6, <2>1, NextKeepsIInv, HandlersKeepIrqOK
<1>7. ASSUME NEW c \in Irq, interrupt_current(c) PROVE IInv' /\ IrqOK'
  BY <1>7, InterruptCurrentStep, HandlersKeepIrqOK
<1>8. ASSUME NEW c \in Irq, interrupt_other(c) PROVE IInv' /\ IrqOK'
  BY <1>8, InterruptOtherStep, HandlersKeepIrqOK
<1> QED BY <1>1, <1>2, <1>3, <1>4, <1>5, <1>6, <1>7, <1>8 DEF IrqNext, IpcNext, EnvNext

\* External interrupts that divert and wake environments at any moment in user
\* mode keep the kernel's data intact too: the queue, the waiting receivers and
\* env_run's assertion.
THEOREM IrqInvariant ==
    ASSUME WellBehaved
    PROVE  IrqSpec => [](SchedListIffRunnable /\ ReceiverBlocked /\ AssertHolds)
<1>1. IrqInit => IInv /\ IrqOK
  <2> SUFFICES ASSUME IrqInit PROVE IInv /\ IrqOK
    OBVIOUS
  <2>1. <<>> \in Seq(Frame) /\ NoId \in EnvId
    BY DEF EnvId
  <2>2. IrqOK
    BY <2>1 DEF IrqInit, IrqOK
  <2> QED BY <2>2, InitIInv DEF IrqInit
<1>2. IInv /\ IrqOK /\ [IrqNext]_vars => IInv' /\ IrqOK'
  BY IrqNextKeeps
<1>3. IInv => SchedListIffRunnable /\ ReceiverBlocked /\ AssertHolds
  BY IInvImplies
<1> QED BY <1>1, <1>2, <1>3, PTL DEF IrqSpec
=============================================================================
