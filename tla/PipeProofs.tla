----------------------------- MODULE PipeProofs -----------------------------
(***************************************************************************)
(* Pipes for any number of processes and descriptors and any size: the     *)
(* circular buffer implements a queue, and _pipe_is_closed never calls a   *)
(* pipe closed whose other end is open.                                    *)
(***************************************************************************)
EXTENDS Pipe, FiniteSetTheorems, TLAPS

-----------------------------------------------------------------------------
(* Division with remainder.                                                 *)

\* Division with remainder by a positive number.
LEMMA Divide ==
    ASSUME NEW n \in Nat \ {0}, NEW a \in Int
    PROVE  a % n \in 0 .. n - 1 /\ \E d \in Int : a = n * d + (a % n)
<1>1. a \div n \in Int /\ a = n * (a \div n) + (a % n) /\ a % n \in 0 .. n - 1
  OBVIOUS
<1> QED BY <1>1

\* A remainder is determined by what is divided.
LEMMA RemainderUnique ==
    ASSUME NEW n \in Nat \ {0}, NEW d \in Int, NEW e \in Int, NEW r \in 0 .. n - 1,
           NEW s \in 0 .. n - 1, n * d + r = n * e + s
    PROVE  r = s
OBVIOUS

\* The operator % returns the remainder, whatever the quotient.
LEMMA Remainder ==
    ASSUME NEW n \in Nat \ {0}, NEW a \in Int, NEW d \in Int, NEW r \in 0 .. n - 1, a = n * d + r
    PROVE  a % n = r
BY Divide, RemainderUnique

\* Adding a multiple changes nothing.
LEMMA ShiftRemainder ==
    ASSUME NEW n \in Nat \ {0}, NEW a \in Int, NEW b \in Int, NEW m \in Int, b = a + n * m
    PROVE  b % n = a % n
<1>1. PICK r : r = a % n
  OBVIOUS
<1>2. r \in 0 .. n - 1
  BY <1>1, Divide
<1>3. PICK d \in Int : a = n * d + r
  BY <1>1, Divide
<1>4. b = n * (d + m) + r /\ d + m \in Int
  BY <1>2, <1>3
<1>5. b % n = r
  BY <1>2, <1>4, Remainder
<1> QED BY <1>1, <1>5

\* Fewer than n apart, two numbers have different remainders.
LEMMA RemaindersDiffer ==
    ASSUME NEW n \in Nat \ {0}, NEW a \in Int, NEW b \in Int, a < b, b - a < n
    PROVE  a % n # b % n
<1> SUFFICES ASSUME a % n = b % n PROVE FALSE
  OBVIOUS
<1>1. PICK d \in Int : a = n * d + (a % n)
  BY Divide
<1>2. PICK e \in Int : b = n * e + (b % n)
  BY Divide
<1>3. a % n \in 0 .. n - 1
  BY Divide
<1>4. b - a = n * (e - d)
  BY <1>1, <1>2, <1>3
<1>5. e - d >= 1
  BY <1>4
<1>6. n * (e - d) >= n
  BY <1>5
<1> QED BY <1>4, <1>6

\* The remainder of a remainder, when one divisor divides the other.
LEMMA RemainderTwice ==
    ASSUME NEW n \in Nat \ {0}, NEW m \in Nat \ {0}, m % n = 0, NEW a \in Int, NEW k \in Int
    PROVE  ((a % m) + k) % n = (a + k) % n
<1>1. PICK r \in Int : r = a % m
  BY Divide
<1>2. PICK d \in Int : a = m * d + r
  BY <1>1, Divide
<1>3. PICK e \in Int : m = n * e
  BY Divide
<1>4. PICK f \in Int : m * d = n * f
  <2>1. e * d \in Int /\ m * d = n * (e * d)
    BY <1>3
  <2> QED BY <2>1
<1>5. a + k = (r + k) + n * f
  BY <1>2, <1>4
<1>6. PICK x \in Int, y \in Int : x = r + k /\ y = a + k
  OBVIOUS
<1>7. y % n = x % n
  BY <1>5, <1>6, ShiftRemainder, ZenonT(30)
<1> QED BY <1>1, <1>6, <1>7

\* The difference of two positions is the distance, while it is below the modulus.
LEMMA Distance ==
    ASSUME NEW m \in Nat \ {0}, NEW a \in Int, NEW b \in Int, b - a \in 0 .. m - 1
    PROVE  ((b % m) - (a % m)) % m = b - a
<1>1. PICK r \in Int : r = a % m
  BY Divide
<1>2. PICK s \in Int : s = b % m
  BY Divide
<1>3. PICK d \in Int : a = m * d + r
  BY <1>1, Divide
<1>4. PICK e \in Int : b = m * e + s
  BY <1>2, Divide
<1>5. s - r = m * (d - e) + (b - a)
  BY <1>3, <1>4
<1>6. PICK x \in Int, y \in 0 .. m - 1, z \in Int : x = s - r /\ y = b - a /\ z = d - e
  OBVIOUS
<1>7. x % m = y
  BY <1>5, <1>6, Remainder
<1> QED BY <1>1, <1>2, <1>6, <1>7

\* Counting on from a position.
LEMMA NextPosition ==
    ASSUME NEW m \in Nat \ {0}, NEW a \in Int
    PROVE  ((a % m) + 1) % m = (a + 1) % m
<1>1. m % m = 0
  <2>1. m = m * 1 + 0 /\ 0 \in 0 .. m - 1
    OBVIOUS
  <2> QED BY <2>1, Remainder
<1>2. \A k \in Int : ((a % m) + k) % m = (a + k) % m
  BY <1>1, RemainderTwice
<1> QED BY <1>2

-----------------------------------------------------------------------------
(* What each process is doing, and the pages it has mapped.                  *)

Reading == {"read", "take", "read_empty"}
Writing == {"write", "put", "advance", "write_full"}
Mapping == {"close_fd", "close_data", "dup_data", "dup_fd"}
Pc == {"idle", "before"} \cup Window \cup Reading \cup Writing \cup Mapping

Doing == [pc : Pc, fd : FdNo, n : Nat, i : Nat, from : FdNo \cup {-1}, fdref : Nat,
          piperef : Nat, stale : BOOLEAN]
FdPages == [FdNo -> {"none", "r", "w", "c"}]
DataPages == [FdNo -> BOOLEAN]
Ends == {"r", "w"}

\* One process: k is what it does, fp and d are its pages.  The last conjunct is why
\* reference counts tell whether the other end is open: whoever has a descriptor's
\* page has the pipe's page too, also in the middle of a close or a dup.
LocalOK(k, fp, d) ==
    /\ k.pc \in {"idle"} \cup Mapping => k.n = 0
    /\ k.pc \in Reading => k.n > 0 /\ fp[k.fd] = "r"
    /\ k.pc \in Writing => k.n > 0 /\ fp[k.fd] = "w"
    /\ k.pc \in Window \cup {"before"} => fp[k.fd] \in Ends
    /\ k.pc \in {"dup_data", "dup_fd"} => k.from \in FdNo
    /\ k.pc = "dup_fd" /\ fp[k.from] \in Ends => d[k.fd]
    /\ k.i <= k.n /\ (k.pc \in {"take", "put", "advance"} => k.i < k.n)
    /\ \A j \in FdNo : fp[j] \in Ends => d[j]

\* Each end is used by one process at a time.
Exclusive == \A p, q \in Proc : /\ pr[p].n > 0 /\ pr[q].n > 0
                              /\ fdpage[p][pr[p].fd] = fdpage[q][pr[q].fd]
                              => p = q

ProcInv ==
    /\ pr \in [Proc -> Doing] /\ fdpage \in [Proc -> FdPages] /\ data \in [Proc -> DataPages]
    /\ live \subseteq Proc
    /\ \A p \in Proc : pr[p].pc # "idle" => p \in live
    /\ \A p \in Proc : LocalOK(pr[p], fdpage[p], data[p])
    /\ OneUser => Exclusive

\* A preemption changes nothing but the mark.
LEMMA StaleKeeps ==
    ASSUME NEW k \in Doing, NEW b \in BOOLEAN
    PROVE  LET h == [k EXCEPT !.stale = b]
           IN  /\ h \in Doing /\ h.pc = k.pc /\ h.fd = k.fd /\ h.n = k.n /\ h.i = k.i
               /\ h.from = k.from /\ h.fdref = k.fdref /\ h.piperef = k.piperef /\ h.stale = b
               /\ \A fp, d : LocalOK(k, fp, d) => LocalOK(h, fp, d)
<1> DEFINE h == [k EXCEPT !.stale = b]
<1>1. /\ h \in Doing /\ h.pc = k.pc /\ h.fd = k.fd /\ h.n = k.n /\ h.i = k.i
      /\ h.from = k.from /\ h.fdref = k.fdref /\ h.piperef = k.piperef /\ h.stale = b
  BY DEF Doing
<1> HIDE DEF h
<1>2. ASSUME NEW fp, NEW d, LocalOK(k, fp, d) PROVE LocalOK(h, fp, d)
  BY <1>1, <1>2 DEF LocalOK
<1>3. QED
  BY <1>1, <1>2 DEF h

\* A step of p: the others keep everything but the mark.
LEMMA StepEffect ==
    ASSUME ProcInv, NEW p \in Proc, NEW k \in Doing, Step(p, k)
    PROVE  /\ pr' \in [Proc -> Doing] /\ pr'[p] = k /\ p \in live
           /\ \A q \in Proc \ {p} :
                /\ pr'[q].pc = pr[q].pc /\ pr'[q].fd = pr[q].fd /\ pr'[q].n = pr[q].n
                /\ pr'[q].i = pr[q].i /\ pr'[q].fdref = pr[q].fdref
                /\ pr'[q].piperef = pr[q].piperef
                /\ pr[q].pc \in Window => pr'[q].stale
                /\ \A fp, d : LocalOK(pr[q], fp, d) => LocalOK(pr'[q], fp, d)
<1> DEFINE b(q) == pr[q].stale \/ pr[q].pc \in Window
           h(q) == [pr[q] EXCEPT !.stale = b(q)]
<1>1. p \in live /\ pr' = [q \in Proc |-> IF q = p THEN k ELSE h(q)]
  <2>1. \A q \in Proc : [pr[q] EXCEPT !.stale = @ \/ pr[q].pc \in Window] = h(q)
    BY DEF ProcInv, Doing
  <2> QED BY <2>1 DEF Step
<1>2. \A q \in Proc : pr[q] \in Doing /\ b(q) \in BOOLEAN
  BY DEF ProcInv, Doing
<1> HIDE DEF h, b
<1>3. ASSUME NEW q \in Proc
      PROVE  /\ h(q) \in Doing /\ h(q).pc = pr[q].pc /\ h(q).fd = pr[q].fd /\ h(q).n = pr[q].n
             /\ h(q).i = pr[q].i /\ h(q).fdref = pr[q].fdref
             /\ h(q).piperef = pr[q].piperef /\ (pr[q].pc \in Window => h(q).stale)
             /\ \A fp, d : LocalOK(pr[q], fp, d) => LocalOK(h(q), fp, d)
  <2>1. b(q) \in BOOLEAN /\ (pr[q].pc \in Window => b(q)) /\ pr[q] \in Doing
    BY <1>2 DEF b
  <2> QED BY <2>1, StaleKeeps DEF h
<1> QED BY <1>1, <1>3

\* A step of p that may remap pages of its own.
LEMMA StepKeeps ==
    ASSUME ProcInv, NEW p \in Proc, NEW k \in Doing, Step(p, k),
           NEW fp \in FdPages, NEW d \in DataPages,
           fdpage' = [fdpage EXCEPT ![p] = fp], data' = [data EXCEPT ![p] = d],
           LocalOK(k, fp, d), live' \subseteq Proc, live \ {p} \subseteq live',
           k.pc # "idle" => p \in live',
           OneUser /\ k.n > 0 =>
               \A q \in Proc \ {p} : pr[q].n > 0 => fdpage[q][pr[q].fd] # fp[k.fd]
    PROVE  ProcInv'
<1>1. /\ fdpage' \in [Proc -> FdPages] /\ data' \in [Proc -> DataPages]
      /\ fdpage'[p] = fp /\ data'[p] = d
      /\ \A q \in Proc \ {p} : fdpage'[q] = fdpage[q] /\ data'[q] = data[q]
  BY DEF ProcInv
<1>2. \A q \in Proc : LocalOK(pr'[q], fdpage'[q], data'[q])
  BY <1>1, StepEffect DEF ProcInv
<1>3. \A q \in Proc : pr'[q].pc # "idle" => q \in live'
  BY StepEffect DEF ProcInv
<1>4. OneUser => Exclusive'
  <2> SUFFICES ASSUME OneUser, NEW q \in Proc, NEW r \in Proc, pr'[q].n > 0, pr'[r].n > 0,
                      fdpage'[q][pr'[q].fd] = fdpage'[r][pr'[r].fd], q # r
               PROVE  FALSE
    BY DEF Exclusive
  <2>1. CASE q = p
    BY <1>1, <2>1, StepEffect
  <2>2. CASE r = p
    BY <1>1, <2>2, StepEffect
  <2>3. CASE q # p /\ r # p
    BY <1>1, <2>3, StepEffect DEF ProcInv, Exclusive
  <2> QED BY <2>1, <2>2, <2>3
<1> QED BY <1>1, <1>2, <1>3, <1>4, StepEffect DEF ProcInv

\* A step that remaps nothing.
LEMMA QuietStep ==
    ASSUME ProcInv, NEW p \in Proc, NEW k \in Doing, Step(p, k), UNCHANGED <<pages, live>>,
           LocalOK(k, fdpage[p], data[p]),
           \/ k.n = 0
           \/ pr[p].n > 0 /\ k.fd = pr[p].fd
           \/ OneUser => ~Using(fdpage[p][k.fd])
    PROVE  ProcInv'
<1>1. /\ fdpage' = [fdpage EXCEPT ![p] = fdpage[p]] /\ data' = [data EXCEPT ![p] = data[p]]
      /\ fdpage[p] \in FdPages /\ data[p] \in DataPages /\ live \subseteq Proc
  BY DEF ProcInv, pages
<1>2. p \in live
  BY StepEffect
<1>3. ASSUME OneUser, k.n > 0, NEW q \in Proc \ {p}, pr[q].n > 0
      PROVE  fdpage[q][pr[q].fd] # fdpage[p][k.fd]
  <2>1. CASE pr[p].n > 0 /\ k.fd = pr[p].fd
    BY <1>3, <2>1 DEF ProcInv, Exclusive
  <2>2. CASE OneUser => ~Using(fdpage[p][k.fd])
    <3>1. pr[q].pc # "idle"
      BY <1>3 DEF ProcInv, LocalOK
    <3> QED BY <1>3, <2>2, <3>1 DEF Using
  <2> QED BY <1>3, <2>1, <2>2
<1> QED BY <1>1, <1>2, <1>3, StepKeeps

\* Moving to another statement changes one field of a process's record.
LEMMA GotoRecord ==
    ASSUME NEW k \in Doing, NEW pc \in Pc
    PROVE  LET h == [k EXCEPT !.pc = pc]
           IN  /\ h \in Doing /\ h.pc = pc /\ h.fd = k.fd /\ h.n = k.n /\ h.i = k.i
               /\ h.from = k.from /\ h.fdref = k.fdref /\ h.piperef = k.piperef
               /\ h.stale = k.stale
BY DEF Doing

\* A process outside a call satisfies what is required of a call's locals.
LEMMA IdleRecord ==
    /\ Idle \in Doing /\ Idle.pc = "idle" /\ Idle.n = 0 /\ Idle.i = 0 /\ ~Idle.stale
    /\ \A fp, d : (\A j \in FdNo : fp[j] \in Ends => d[j]) => LocalOK(Idle, fp, d)
<1>1. 0 \in FdNo
  BY PipeAssumption DEF FdNo
<1>2. Idle \in Doing /\ Idle.pc = "idle" /\ Idle.n = 0 /\ Idle.i = 0 /\ ~Idle.stale
  BY <1>1 DEF Idle, Doing, Pc
<1> QED BY <1>2 DEF LocalOK, Mapping, Reading, Writing, Window

\* A new call: the record of an idle process with a few fields set.
LEMMA CallRecord ==
    ASSUME NEW pc \in Pc, NEW fd \in FdNo, NEW n \in Nat, NEW from \in FdNo \cup {-1}
    PROVE  LET h == [Idle EXCEPT !.pc = pc, !.fd = fd, !.n = n, !.from = from]
           IN  /\ h \in Doing /\ h.pc = pc /\ h.fd = fd /\ h.n = n /\ h.i = 0
               /\ h.from = from /\ ~h.stale
BY IdleRecord DEF Idle, Doing

\* What the invariant says of a process.
LEMMA ProcFacts ==
    ASSUME ProcInv, NEW p \in Proc
    PROVE  /\ pr[p] \in Doing /\ pr[p].pc \in Pc /\ pr[p].fd \in FdNo /\ pr[p].n \in Nat
           /\ pr[p].i \in Nat /\ pr[p].from \in FdNo \cup {-1}
           /\ fdpage[p] \in FdPages /\ data[p] \in DataPages
           /\ LocalOK(pr[p], fdpage[p], data[p]) /\ live \subseteq Proc
           /\ \A j \in FdNo : fdpage[p][j] \in Ends => data[p][j]
<1>1. pr[p] \in Doing /\ LocalOK(pr[p], fdpage[p], data[p])
  BY DEF ProcInv
<1>2. /\ pr[p].pc \in Pc /\ pr[p].fd \in FdNo /\ pr[p].n \in Nat /\ pr[p].i \in Nat
      /\ pr[p].from \in FdNo \cup {-1}
  BY <1>1 DEF Doing
<1>3. \A j \in FdNo : fdpage[p][j] \in Ends => data[p][j]
  BY <1>1 DEF LocalOK
<1> QED BY <1>1, <1>2, <1>3 DEF ProcInv

\* A step of p that goes on to pc without touching a page.
LEMMA GotoKeeps ==
    ASSUME ProcInv, NEW p \in Proc, NEW pc \in Pc, Goto(p, pc), UNCHANGED <<pages, live>>,
           LocalOK([pr[p] EXCEPT !.pc = pc], fdpage[p], data[p])
    PROVE  ProcInv'
<1> DEFINE k == [pr[p] EXCEPT !.pc = pc]
<1>1. k \in Doing /\ k.fd = pr[p].fd /\ k.n = pr[p].n /\ k.n \in Nat
  BY ProcFacts, GotoRecord
<1>2. Step(p, k) /\ LocalOK(k, fdpage[p], data[p])
  BY DEF Goto
<1> HIDE DEF k
<1>3. k.n = 0 \/ (pr[p].n > 0 /\ k.fd = pr[p].fd)
  BY <1>1
<1> QED BY <1>1, <1>2, <1>3, QuietStep

\* A call that returns without touching mappings keeps the invariant.
LEMMA ReturnKeeps ==
    ASSUME ProcInv, NEW p \in Proc, Returns(p), UNCHANGED <<pages, live>>
    PROVE  ProcInv'
<1>1. LocalOK(Idle, fdpage[p], data[p])
  BY ProcFacts, IdleRecord
<1> QED BY <1>1, QuietStep, IdleRecord DEF Returns

\* A call that returns and replaces its own mappings keeps the invariant.
LEMMA RemapKeeps ==
    ASSUME ProcInv, NEW p \in Proc, Returns(p), NEW fp \in FdPages, NEW d \in DataPages,
           fdpage' = [fdpage EXCEPT ![p] = fp], data' = [data EXCEPT ![p] = d],
           \A j \in FdNo : fp[j] \in Ends => d[j], live' \in {live, live \ {p}}
    PROVE  ProcInv'
<1>1. LocalOK(Idle, fp, d) /\ Step(p, Idle) /\ Idle \in Doing
  BY IdleRecord DEF Returns
<1>2. live' \subseteq Proc /\ live \ {p} \subseteq live'
  BY ProcFacts
<1>3. Idle.pc = "idle" /\ ~(Idle.n > 0)
  BY IdleRecord
<1> QED BY <1>1, <1>2, <1>3, StepKeeps

\* pipe maps both data pages before it gives out the descriptors.
LEMMA PipeKeeps == ASSUME ProcInv, NEW p \in Proc, pipe_(p) PROVE ProcInv'
<1>1. PICK r, w : /\ fdpage' = [fdpage EXCEPT ![p][r] = "r", ![p][w] = "w"]
                  /\ data' = [data EXCEPT ![p][r] = TRUE, ![p][w] = TRUE]
                  /\ Returns(p) /\ live' = live
  BY DEF pipe_
<1> DEFINE fp == [fdpage[p] EXCEPT ![r] = "r", ![w] = "w"]
           d == [data[p] EXCEPT ![r] = TRUE, ![w] = TRUE]
<1>2. fdpage' = [fdpage EXCEPT ![p] = fp] /\ data' = [data EXCEPT ![p] = d]
  BY <1>1 DEF ProcInv
<1>3. fp \in FdPages /\ d \in DataPages
  BY ProcFacts DEF FdPages, DataPages
<1>4. \A j \in FdNo : fp[j] \in Ends => d[j]
  BY ProcFacts DEF FdPages, DataPages, Ends
<1> HIDE DEF fp, d
<1> QED BY <1>1, <1>2, <1>3, <1>4, ProcFacts, RemapKeeps

\* A console takes a free descriptor.
LEMMA OpenconsKeeps == ASSUME ProcInv, NEW p \in Proc, opencons(p) PROVE ProcInv'
<1>1. PICK r : /\ fdpage' = [fdpage EXCEPT ![p][r] = "c"]
               /\ Returns(p) /\ live' = live /\ data' = data
  BY DEF opencons
<1> DEFINE fp == [fdpage[p] EXCEPT ![r] = "c"]
<1>2. fdpage' = [fdpage EXCEPT ![p] = fp] /\ data' = [data EXCEPT ![p] = data[p]]
  BY <1>1 DEF ProcInv
<1>3. fp \in FdPages
  BY ProcFacts DEF FdPages
<1>4. \A j \in FdNo : fp[j] \in Ends => data[p][j]
  BY ProcFacts DEF FdPages, Ends
<1> HIDE DEF fp
<1> QED BY <1>1, <1>2, <1>3, <1>4, ProcFacts, RemapKeeps

\* A process that exits closes all its descriptors first.
LEMMA ExitKeeps == ASSUME ProcInv, NEW p \in Proc, exit(p) PROVE ProcInv'
<1> DEFINE fp == [i \in FdNo |-> "none"]
           d == [i \in FdNo |-> FALSE]
<1>1. /\ fdpage' = [fdpage EXCEPT ![p] = fp] /\ data' = [data EXCEPT ![p] = d]
      /\ Returns(p) /\ live' = live \ {p}
  BY DEF exit
<1>2. fp \in FdPages /\ d \in DataPages /\ \A j \in FdNo : fp[j] \in Ends => d[j]
  BY DEF FdPages, DataPages, Ends
<1> HIDE DEF fp, d
<1> QED BY <1>1, <1>2, RemapKeeps

\* The child does nothing yet; it has the parent's pages.
LEMMA ForkKeeps == ASSUME ProcInv, NEW p \in Proc, NEW c \in Proc, fork(p, c) PROVE ProcInv'
<1>1. /\ c \notin live /\ live' = live \cup {c} /\ Step(p, Idle)
      /\ fdpage' = [fdpage EXCEPT ![c] = fdpage[p]] /\ data' = [data EXCEPT ![c] = data[p]]
  BY DEF fork, Returns
<1>2. c # p /\ pr[c].n = 0 /\ pr[c].pc = "idle" /\ pr[c].i = 0
  <2>1. p \in live
    BY <1>1, StepEffect, IdleRecord
  <2>2. pr[c].pc = "idle" /\ LocalOK(pr[c], fdpage[c], data[c]) /\ pr[c].i \in Nat
    BY <1>1, ProcFacts DEF ProcInv
  <2> QED BY <1>1, <2>1, <2>2 DEF LocalOK
<1>3. /\ fdpage' \in [Proc -> FdPages] /\ data' \in [Proc -> DataPages]
      /\ fdpage'[c] = fdpage[p] /\ data'[c] = data[p]
      /\ \A q \in Proc \ {c} : fdpage'[q] = fdpage[q] /\ data'[q] = data[q]
  BY <1>1 DEF ProcInv
<1>4. \A q \in Proc \ {c, p} : LocalOK(pr'[q], fdpage'[q], data'[q])
  BY <1>1, <1>3, StepEffect, IdleRecord DEF ProcInv
<1>5. LocalOK(pr'[p], fdpage'[p], data'[p])
  BY <1>1, <1>2, <1>3, StepEffect, IdleRecord, ProcFacts
<1>6. LocalOK(pr'[c], fdpage'[c], data'[c])
  <2>1. pr'[c].pc = "idle" /\ pr'[c].n = 0 /\ pr'[c].i = 0
    BY <1>1, <1>2, StepEffect, IdleRecord
  <2>2. \A j \in FdNo : fdpage'[c][j] \in Ends => data'[c][j]
    BY <1>3, ProcFacts
  <2> QED BY <2>1, <2>2 DEF LocalOK, Mapping, Reading, Writing, Window
<1>7. OneUser => Exclusive'
  <2> SUFFICES ASSUME OneUser, NEW q \in Proc, NEW r \in Proc, pr'[q].n > 0, pr'[r].n > 0,
                      fdpage'[q][pr'[q].fd] = fdpage'[r][pr'[r].fd], q # r
               PROVE  FALSE
    BY DEF Exclusive
  <2>1. q # p /\ r # p /\ q # c /\ r # c
    BY <1>1, <1>2, StepEffect, IdleRecord
  <2> QED BY <1>1, <1>3, <2>1, StepEffect, IdleRecord DEF ProcInv, Exclusive
<1>8. pr' \in [Proc -> Doing] /\ live' \subseteq Proc /\ \A q \in Proc : pr'[q].pc # "idle" => q \in live'
  BY <1>1, StepEffect, IdleRecord DEF ProcInv
<1> QED BY <1>3, <1>4, <1>5, <1>6, <1>7, <1>8 DEF ProcInv

\* Going on within a read, a write or a check.
LEMMA GotoLocal ==
    ASSUME NEW k \in Doing, NEW fp, NEW d, LocalOK(k, fp, d), NEW pc \in Pc,
           pc \notin Mapping \cup {"idle"},
           pc \in Reading => k.n > 0 /\ fp[k.fd] = "r",
           pc \in Writing => k.n > 0 /\ fp[k.fd] = "w",
           pc \in Window \cup {"before"} => fp[k.fd] \in Ends,
           pc \in {"take", "put", "advance"} => k.i < k.n
    PROVE  LocalOK([k EXCEPT !.pc = pc], fp, d)
<1> DEFINE h == [k EXCEPT !.pc = pc]
<1>1. h.pc = pc /\ h.fd = k.fd /\ h.n = k.n /\ h.i = k.i /\ h.from = k.from
  BY GotoRecord
<1> HIDE DEF h
<1>2. LocalOK(h, fp, d)
  BY <1>1 DEF LocalOK, Mapping
<1> QED BY <1>2 DEF h

\* The test of a read changes only where the reader stands.
LEMMA ReadTestKeeps == ASSUME ProcInv, NEW p \in Proc, read_test(p) PROVE ProcInv'
<1>1. pr[p].pc = "read" /\ UNCHANGED <<pages, live>>
  BY DEF read_test, At
<1>2. pr[p].n > 0 /\ fdpage[p][pr[p].fd] = "r"
  BY <1>1, ProcFacts DEF LocalOK, Reading
<1>3. CASE pr[p].i < pr[p].n /\ Goto(p, "take")
  BY <1>1, <1>2, <1>3, ProcFacts, GotoLocal, GotoKeeps
     DEF Pc, Reading, Writing, Mapping, Window
<1>4. CASE Goto(p, "read_empty")
  BY <1>1, <1>2, <1>4, ProcFacts, GotoLocal, GotoKeeps
     DEF Pc, Reading, Writing, Mapping, Window
<1>5. CASE Returns(p)
  BY <1>1, <1>5, ReturnKeeps
<1> QED BY <1>3, <1>4, <1>5 DEF read_test

\* An empty pipe ends a read or starts the check for the other end.
LEMMA ReadEmptyKeeps == ASSUME ProcInv, NEW p \in Proc, read_empty(p) PROVE ProcInv'
<1>1. pr[p].pc = "read_empty" /\ UNCHANGED <<pages, live>>
  BY DEF read_empty, At
<1>2. pr[p].n > 0 /\ fdpage[p][pr[p].fd] = "r"
  BY <1>1, ProcFacts DEF LocalOK, Reading
<1>3. CASE Goto(p, "read")
  BY <1>1, <1>2, <1>3, ProcFacts, GotoLocal, GotoKeeps
     DEF Pc, Reading, Writing, Mapping, Window
<1>4. CASE Goto(p, "before")
  BY <1>1, <1>2, <1>4, ProcFacts, GotoLocal, GotoKeeps
     DEF Pc, Reading, Writing, Mapping, Window, Ends
<1>5. CASE Returns(p)
  BY <1>1, <1>5, ReturnKeeps
<1> QED BY <1>3, <1>4, <1>5 DEF read_empty

\* The test of a write changes only where the writer stands.
LEMMA WriteTestKeeps == ASSUME ProcInv, NEW p \in Proc, write_test(p) PROVE ProcInv'
<1>1. pr[p].pc = "write" /\ UNCHANGED <<pages, live>>
  BY DEF write_test, At
<1>2. pr[p].n > 0 /\ fdpage[p][pr[p].fd] = "w"
  BY <1>1, ProcFacts DEF LocalOK, Writing
<1>3. CASE pr[p].i < pr[p].n /\ Goto(p, "put")
  BY <1>1, <1>2, <1>3, ProcFacts, GotoLocal, GotoKeeps
     DEF Pc, Reading, Writing, Mapping, Window
<1>4. CASE Goto(p, "write_full")
  BY <1>1, <1>2, <1>4, ProcFacts, GotoLocal, GotoKeeps
     DEF Pc, Reading, Writing, Mapping, Window
<1>5. CASE Returns(p)
  BY <1>1, <1>5, ReturnKeeps
<1> QED BY <1>3, <1>4, <1>5 DEF write_test

\* Storing a byte changes no mapping.
LEMMA PutKeeps == ASSUME ProcInv, NEW p \in Proc, put(p) PROVE ProcInv'
<1>1. pr[p].pc = "put" /\ UNCHANGED <<pages, live>> /\ Goto(p, "advance")
  BY DEF put, At
<1>2. pr[p].n > 0 /\ fdpage[p][pr[p].fd] = "w" /\ pr[p].i < pr[p].n
  BY <1>1, ProcFacts DEF LocalOK, Writing
<1> QED BY <1>1, <1>2, ProcFacts, GotoLocal, GotoKeeps
           DEF Pc, Reading, Writing, Mapping, Window

\* A full pipe ends a write or starts the check for the other end.
LEMMA WriteFullKeeps == ASSUME ProcInv, NEW p \in Proc, write_full(p) PROVE ProcInv'
<1>1. pr[p].pc = "write_full" /\ UNCHANGED <<pages, live>>
  BY DEF write_full, At
<1>2. pr[p].n > 0 /\ fdpage[p][pr[p].fd] = "w"
  BY <1>1, ProcFacts DEF LocalOK, Writing
<1>3. CASE Goto(p, "write")
  BY <1>1, <1>2, <1>3, ProcFacts, GotoLocal, GotoKeeps
     DEF Pc, Reading, Writing, Mapping, Window
<1>4. CASE Goto(p, "before")
  BY <1>1, <1>2, <1>4, ProcFacts, GotoLocal, GotoKeeps
     DEF Pc, Reading, Writing, Mapping, Window, Ends
<1> QED BY <1>3, <1>4 DEF write_full

\* Counting a byte changes two fields of a process's record.
LEMMA ByteRecord ==
    ASSUME NEW k \in Doing, NEW pc \in Pc
    PROVE  LET h == [k EXCEPT !.pc = pc, !.i = @ + 1]
           IN  /\ h \in Doing /\ h.pc = pc /\ h.fd = k.fd /\ h.n = k.n /\ h.i = k.i + 1
               /\ h.from = k.from
<1>1. PICK j \in Nat : j = k.i + 1
  BY DEF Doing
<1> DEFINE h == [k EXCEPT !.pc = pc, !.i = j]
<1>2. /\ h \in Doing /\ h.pc = pc /\ h.fd = k.fd /\ h.n = k.n /\ h.i = j /\ h.from = k.from
  BY DEF Doing
<1> QED BY <1>1, <1>2

\* take and advance: one byte more is done.
LEMMA ByteKeeps ==
    ASSUME ProcInv, NEW p \in Proc, UNCHANGED <<pages, live>>,
           \/ pr[p].pc = "take" /\ Step(p, [pr[p] EXCEPT !.pc = "read", !.i = @ + 1])
           \/ pr[p].pc = "advance" /\ Step(p, [pr[p] EXCEPT !.pc = "write", !.i = @ + 1])
    PROVE  ProcInv'
<1>1. PICK pc \in {"read", "write"} :
         /\ pr[p].pc = IF pc = "read" THEN "take" ELSE "advance"
         /\ Step(p, [pr[p] EXCEPT !.pc = pc, !.i = @ + 1])
  OBVIOUS
<1> DEFINE h == [pr[p] EXCEPT !.pc = pc, !.i = @ + 1]
<1>2. /\ h \in Doing /\ h.pc = pc /\ h.fd = pr[p].fd /\ h.n = pr[p].n /\ h.i = pr[p].i + 1
      /\ h.from = pr[p].from
  BY <1>1, ProcFacts, ByteRecord DEF Pc, Reading, Writing
<1>3. /\ pr[p].n > 0 /\ pr[p].i < pr[p].n
      /\ fdpage[p][pr[p].fd] = IF pc = "read" THEN "r" ELSE "w"
  BY <1>1, ProcFacts DEF LocalOK, Reading, Writing
<1>4. Step(p, h)
  BY <1>1
<1> HIDE DEF h
<1>5. LocalOK(h, fdpage[p], data[p])
  BY <1>2, <1>3, ProcFacts DEF LocalOK, Mapping, Reading, Writing, Window
<1> QED BY <1>2, <1>3, <1>4, <1>5, QuietStep

\* A read or a write begins on a descriptor that is mapped with its data page.
LEMMA StartKeeps ==
    ASSUME ProcInv, NEW p \in Proc, NEW i \in FdNo, NEW n \in 1 .. PIPE_SIZE + 1,
           read(p, i, n) \/ write(p, i, n)
    PROVE  ProcInv'
<1>1. PICK kind \in Ends : /\ fdpage[p][i] = kind /\ (OneUser => ~Using(kind)) /\ UNCHANGED <<pages, live>>
                           /\ Step(p, [Idle EXCEPT !.pc = IF kind = "r" THEN "read" ELSE "write",
                                                   !.fd = i, !.n = n])
  BY DEF read, write, Start, Ends
<1> DEFINE h == [Idle EXCEPT !.pc = IF kind = "r" THEN "read" ELSE "write", !.fd = i, !.n = n]
<1>2. n \in Nat /\ n > 0
  BY PipeAssumption
<1>3. /\ h \in Doing /\ h.pc = (IF kind = "r" THEN "read" ELSE "write") /\ h.fd = i /\ h.n = n
      /\ h.i = 0
  BY <1>2, IdleRecord DEF Doing, Idle, Pc, Reading, Writing
<1>4. Step(p, h)
  BY <1>1
<1> HIDE DEF h
<1>5. LocalOK(h, fdpage[p], data[p])
  BY <1>1, <1>2, <1>3, ProcFacts DEF LocalOK, Mapping, Reading, Writing, Window, Ends
<1> QED BY <1>1, <1>3, <1>4, <1>5, QuietStep

\* Going on within a close or a dup: nothing is read or written meanwhile.
LEMMA MappingStep ==
    ASSUME ProcInv, NEW p \in Proc, NEW pc \in Mapping, Goto(p, pc), pr[p].pc \in Mapping,
           NEW fp \in FdPages, NEW d \in DataPages, live' = live,
           fdpage' = [fdpage EXCEPT ![p] = fp], data' = [data EXCEPT ![p] = d],
           pc \in {"dup_data", "dup_fd"} => pr[p].from \in FdNo,
           pc = "dup_fd" /\ fp[pr[p].from] \in Ends => d[pr[p].fd],
           \A j \in FdNo : fp[j] \in Ends => d[j]
    PROVE  ProcInv'
<1> DEFINE h == [pr[p] EXCEPT !.pc = pc]
<1>1. pr[p].n = 0 /\ pr[p].i = 0
  BY ProcFacts DEF LocalOK
<1>2. /\ h \in Doing /\ h.pc = pc /\ h.fd = pr[p].fd /\ h.n = 0 /\ h.i = 0
      /\ h.from = pr[p].from
  <2>1. pc \in Pc
    BY DEF Pc
  <2>2. pr[p] \in Doing
    BY ProcFacts
  <2> QED BY <1>1, <2>1, <2>2, GotoRecord
<1>3. Step(p, h)
  BY DEF Goto
<1> HIDE DEF h
<1>4. LocalOK(h, fp, d)
  BY <1>2 DEF LocalOK, Mapping, Reading, Writing, Window
<1>5. p \in live /\ live \subseteq Proc
  BY <1>2, <1>3, StepEffect, ProcFacts
<1>6. ~(h.n > 0) /\ live' \subseteq Proc /\ live \ {p} \subseteq live' /\ p \in live'
  BY <1>2, <1>5
<1> QED BY <1>2, <1>3, <1>4, <1>6, StepKeeps

\* After an unmapping: a dup goes on, a close returns.
LEMMA AfterCloseKeeps ==
    ASSUME ProcInv, NEW p \in Proc, AfterClose(p), pr[p].pc \in Mapping,
           NEW fp \in FdPages, NEW d \in DataPages, live' = live,
           fdpage' = [fdpage EXCEPT ![p] = fp], data' = [data EXCEPT ![p] = d],
           \A j \in FdNo : fp[j] \in Ends => d[j]
    PROVE  ProcInv'
<1>1. CASE pr[p].from >= 0 /\ Goto(p, "dup_data")
  <2>1. pr[p].from \in FdNo
    BY <1>1, ProcFacts
  <2> QED BY <1>1, <2>1, MappingStep DEF Mapping
<1>2. CASE Returns(p)
  BY <1>2, RemapKeeps
<1> QED BY <1>1, <1>2 DEF AfterClose

\* close unmaps the descriptor first.
LEMMA CloseFdKeeps == ASSUME ProcInv, NEW p \in Proc, close_fd(p) PROVE ProcInv'
<1>1. PICK r \in FdNo : r = pr[p].fd
  BY ProcFacts
<1> DEFINE fp == [fdpage[p] EXCEPT ![r] = "none"]
<1>2. fdpage' = [fdpage EXCEPT ![p] = fp] /\ data' = [data EXCEPT ![p] = data[p]]
  BY <1>1 DEF close_fd, ProcInv
<1>3. fp \in FdPages /\ data[p] \in DataPages
  BY ProcFacts DEF FdPages
<1>4. \A j \in FdNo : fp[j] \in Ends => data[p][j]
  BY ProcFacts DEF FdPages, Ends
<1>5. pr[p].pc \in Mapping /\ live' = live
  BY DEF close_fd, At, Mapping
<1> HIDE DEF fp
<1>6. CASE AfterClose(p)
  BY <1>2, <1>3, <1>4, <1>5, <1>6, AfterCloseKeeps
<1>7. CASE Goto(p, "close_data")
  BY <1>2, <1>3, <1>4, <1>5, <1>7, MappingStep DEF Mapping
<1> QED BY <1>6, <1>7 DEF close_fd

\* close then unmaps the data page, of a descriptor that no longer exists.
LEMMA CloseDataKeeps == ASSUME ProcInv, NEW p \in Proc, close_data(p) PROVE ProcInv'
<1>1. PICK r \in FdNo : r = pr[p].fd
  BY ProcFacts
<1> DEFINE fp == [fdpage[p] EXCEPT ![r] = "none"]
           d == [data[p] EXCEPT ![r] = FALSE]
<1>2. fdpage' = [fdpage EXCEPT ![p] = fp] /\ data' = [data EXCEPT ![p] = d]
  BY <1>1 DEF close_data, ProcInv
<1>3. fp \in FdPages /\ d \in DataPages
  BY ProcFacts DEF FdPages, DataPages
<1>4. \A j \in FdNo : fp[j] \in Ends => d[j]
  BY ProcFacts DEF FdPages, DataPages, Ends
<1>5. pr[p].pc \in Mapping /\ live' = live /\ AfterClose(p)
  BY DEF close_data, At, Mapping
<1> HIDE DEF fp, d
<1> QED BY <1>2, <1>3, <1>4, <1>5, AfterCloseKeeps

\* dup maps the data page first.
LEMMA DupDataKeeps == ASSUME ProcInv, NEW p \in Proc, dup_data(p) PROVE ProcInv'
<1>1. PICK r \in FdNo, f \in FdNo : r = pr[p].fd /\ f = pr[p].from
  BY ProcFacts DEF LocalOK, dup_data, At
<1>2. PICK b \in BOOLEAN : b = (data[p][f] \/ data[p][r])
  OBVIOUS
<1> DEFINE d == [data[p] EXCEPT ![r] = b]
<1>3. fdpage' = [fdpage EXCEPT ![p] = fdpage[p]] /\ data' = [data EXCEPT ![p] = d]
  <2>1. data' = [data EXCEPT ![p] = [data[p] EXCEPT ![r] = data[p][f] \/ data[p][r]]]
    BY <1>1 DEF dup_data, ProcInv
  <2> QED BY <1>2, <2>1 DEF dup_data, ProcInv
<1>4. d \in DataPages /\ fdpage[p] \in FdPages
  BY ProcFacts DEF DataPages
<1>5. (\A j \in FdNo : fdpage[p][j] \in Ends => d[j]) /\ (fdpage[p][f] \in Ends => d[r])
  BY <1>2, ProcFacts DEF DataPages
<1>6. pr[p].pc \in Mapping /\ live' = live /\ Goto(p, "dup_fd")
  BY DEF dup_data, At, Mapping
<1> HIDE DEF d
<1> QED BY <1>1, <1>3, <1>4, <1>5, <1>6, MappingStep DEF Mapping

\* dup then maps the descriptor, whose data page is there by now.
LEMMA DupFdKeeps == ASSUME ProcInv, NEW p \in Proc, dup_fd(p) PROVE ProcInv'
<1>1. PICK r \in FdNo, f \in FdNo : r = pr[p].fd /\ f = pr[p].from
  BY ProcFacts DEF LocalOK, dup_fd, At
<1>2. PICK b \in BOOLEAN : b = (data[p][r] /\ fd_lookup(p, f))
  OBVIOUS
<1> DEFINE fp == [fdpage[p] EXCEPT ![r] = fdpage[p][f]]
           d == [data[p] EXCEPT ![r] = b]
<1>3. fdpage' = [fdpage EXCEPT ![p] = fp] /\ data' = [data EXCEPT ![p] = d]
  <2>1. data' = [data EXCEPT ![p] = [data[p] EXCEPT ![r] = data[p][r] /\ fd_lookup(p, f)]]
    BY <1>1 DEF dup_fd, ProcInv
  <2> QED BY <1>1, <1>2, <2>1 DEF dup_fd, ProcInv
<1>4. fp \in FdPages /\ d \in DataPages
  BY ProcFacts DEF FdPages, DataPages
<1>5. fdpage[p][f] \in Ends => data[p][r]
  BY <1>1, ProcFacts DEF LocalOK, dup_fd, At
<1>6. \A j \in FdNo : fp[j] \in Ends => d[j]
  BY <1>2, <1>5, ProcFacts DEF FdPages, DataPages, Ends, fd_lookup
<1> HIDE DEF fp, d
<1> QED BY <1>3, <1>4, <1>6, RemapKeeps DEF dup_fd

\* A call that begins with a process at rest and neither reads nor writes.
LEMMA CallKeeps ==
    ASSUME ProcInv, NEW p \in Proc, UNCHANGED <<pages, live>>, NEW h \in Doing, Step(p, h),
           h.pc \in {"close_fd", "dup_data", "before"}, h.n = 0, h.i = 0,
           h.pc = "dup_data" => h.from \in FdNo, h.pc = "before" => fdpage[p][h.fd] \in Ends
    PROVE  ProcInv'
<1>1. LocalOK(h, fdpage[p], data[p])
  BY ProcFacts DEF LocalOK, Mapping, Reading, Writing, Window
<1> QED BY <1>1, QuietStep

\* The calls that only begin keep the invariant.
LEMMA CallsKeep ==
    ASSUME ProcInv, NEW p \in Proc, NEW i \in FdNo, NEW j \in FdNo,
           close(p, i) \/ pipe_is_closed(p, i) \/ dup(p, i, j)
    PROVE  ProcInv'
<1>1. CASE close(p, i)
  <2> DEFINE h == [Idle EXCEPT !.pc = "close_fd", !.fd = i]
  <2>1. h \in Doing /\ h.pc = "close_fd" /\ h.n = 0 /\ h.i = 0
    BY IdleRecord DEF Doing, Idle, Pc, Mapping
  <2>2. Step(p, h) /\ UNCHANGED <<pages, live>>
    BY <1>1 DEF close
  <2> HIDE DEF h
  <2> QED BY <2>1, <2>2, CallKeeps
<1>2. CASE pipe_is_closed(p, i)
  <2> DEFINE h == [Idle EXCEPT !.pc = "before", !.fd = i]
  <2>1. h \in Doing /\ h.pc = "before" /\ h.n = 0 /\ h.i = 0 /\ h.fd = i
    BY IdleRecord DEF Doing, Idle, Pc
  <2>2. Step(p, h) /\ UNCHANGED <<pages, live>> /\ fdpage[p][i] \in Ends
    BY <1>2 DEF pipe_is_closed, Ends
  <2> HIDE DEF h
  <2> QED BY <2>1, <2>2, CallKeeps
<1>3. CASE dup(p, i, j)
  <2>1. PICK pc \in {"close_fd", "dup_data"} :
           Step(p, [Idle EXCEPT !.pc = pc, !.fd = j, !.from = i]) /\ UNCHANGED <<pages, live>>
    BY <1>3 DEF dup
  <2> DEFINE h == [Idle EXCEPT !.pc = pc, !.fd = j, !.from = i]
  <2>2. h \in Doing /\ h.pc = pc /\ h.n = 0 /\ h.i = 0 /\ h.from = i
    BY IdleRecord DEF Doing, Idle, Pc, Mapping
  <2>3. Step(p, h)
    BY <2>1
  <2> HIDE DEF h
  <2> QED BY <2>1, <2>2, <2>3, CallKeeps
<1> QED BY <1>1, <1>2, <1>3

\* The counts.
LEMMA CountsAreNumbers ==
    /\ IsFiniteSet(Proc \X FdNo)
    /\ \A kind : pageref_fd(kind) \in Nat
    /\ pageref_pipe \in Nat
<1>1. IsFiniteSet(FdNo)
  BY PipeAssumption, FS_Interval DEF FdNo
<1>2. IsFiniteSet(Proc \X FdNo)
  BY <1>1, PipeAssumption, FS_Product
<1>3. ASSUME NEW kind PROVE pageref_fd(kind) \in Nat
  <2> DEFINE S == {x \in Proc \X FdNo : fdpage[x[1]][x[2]] = kind}
  <2>1. S \subseteq Proc \X FdNo
    OBVIOUS
  <2> HIDE DEF S
  <2>2. Cardinality(S) \in Nat
    BY <1>2, <2>1, FS_Subset, FS_CardinalityType
  <2> QED BY <2>2 DEF S, pageref_fd
<1>4. pageref_pipe \in Nat
  <2> DEFINE S == {x \in Proc \X FdNo : data[x[1]][x[2]]}
  <2>1. S \subseteq Proc \X FdNo
    OBVIOUS
  <2> HIDE DEF S
  <2>2. Cardinality(S) \in Nat
    BY <1>2, <2>1, FS_Subset, FS_CardinalityType
  <2> QED BY <2>2 DEF S, pageref_pipe
<1> QED BY <1>2, <1>3, <1>4

\* A step of a check: the call's own fields stay as they are.
LEMMA CheckKeeps ==
    ASSUME ProcInv, NEW p \in Proc, UNCHANGED <<pages, live>>, NEW h \in Doing, Step(p, h),
           h.fd = pr[p].fd, h.n = pr[p].n, h.i = pr[p].i, h.from = pr[p].from,
           pr[p].pc \in Window \cup {"before"},
           \/ h.pc \in Window
           \/ h.n > 0 /\ h.pc = IF fdpage[p][h.fd] = "r" THEN "read_empty" ELSE "write_full"
    PROVE  ProcInv'
<1>1. fdpage[p][h.fd] \in Ends
  BY ProcFacts DEF LocalOK
<1>2. LocalOK(h, fdpage[p], data[p])
  BY <1>1, ProcFacts DEF LocalOK, Mapping, Reading, Writing, Window, Ends
<1>3. h.n \in Nat
  BY DEF Doing
<1>4. h.n = 0 \/ (pr[p].n > 0 /\ h.fd = pr[p].fd)
  BY <1>3
<1> QED BY <1>2, <1>4, QuietStep

\* The reads of _pipe_is_closed keep the invariant.
LEMMA ChecksKeep ==
    ASSUME ProcInv, NEW p \in Proc,
           read_runs(p) \/ read_fd_ref(p) \/ read_pipe_ref(p) \/ decide(p)
    PROVE  ProcInv'
<1>0. PICK k \in Doing : k = pr[p]
  BY ProcFacts
<1>a. \A pc \in Window \cup {"before", "read_empty", "write_full"} : pc \in Pc
  BY DEF Pc, Reading, Writing
<1>b. pr[p].pc \in Window \cup {"before"} /\ UNCHANGED <<pages, live>>
  BY DEF read_runs, read_fd_ref, read_pipe_ref, decide, At, Window
<1>c. ASSUME Goto(p, "fdref") PROVE ProcInv'
  <2> DEFINE h == [k EXCEPT !.pc = "fdref"]
  <2>1. /\ h \in Doing /\ h.pc \in Window /\ h.fd = pr[p].fd /\ h.n = pr[p].n
        /\ h.i = pr[p].i /\ h.from = pr[p].from
    BY <1>0, <1>a, GotoRecord DEF Window
  <2>2. Step(p, h)
    BY <1>0, <1>c DEF Goto
  <2> HIDE DEF h
  <2> QED BY <1>b, <2>1, <2>2, CheckKeeps
<1>1. CASE read_runs(p)
  BY <1>1, <1>c DEF read_runs
<1>2. CASE read_fd_ref(p)
  <2>1. PICK a \in Nat : a = pageref_fd(fdpage[p][pr[p].fd])
    BY CountsAreNumbers
  <2> DEFINE h == [k EXCEPT !.pc = "piperef", !.fdref = a]
  <2>a. "piperef" \in Pc
    BY <1>a DEF Window
  <2>2. /\ h \in Doing /\ h.pc \in Window /\ h.fd = k.fd /\ h.n = k.n
        /\ h.i = k.i /\ h.from = k.from
    BY <2>a DEF Window, Doing
  <2>3. Step(p, h)
    BY <1>0, <1>2, <2>1 DEF read_fd_ref
  <2> HIDE DEF h
  <2> QED BY <1>0, <1>b, <2>2, <2>3, CheckKeeps
<1>3. CASE read_pipe_ref(p)
  <2>1. PICK a \in Nat : a = pageref_pipe
    BY CountsAreNumbers
  <2> DEFINE h == [k EXCEPT !.pc = "after", !.piperef = a]
  <2>a. "after" \in Pc
    BY <1>a DEF Window
  <2>2. /\ h \in Doing /\ h.pc \in Window /\ h.fd = k.fd /\ h.n = k.n
        /\ h.i = k.i /\ h.from = k.from
    BY <2>a DEF Window, Doing
  <2>3. Step(p, h)
    BY <1>0, <1>3, <2>1 DEF read_pipe_ref
  <2> HIDE DEF h
  <2> QED BY <1>0, <1>b, <2>2, <2>3, CheckKeeps
<1>4. CASE decide(p)
  <2>1. CASE Goto(p, "fdref")
    BY <1>c, <2>1
  <2>2. CASE Returns(p)
    BY <1>b, <2>2, ReturnKeeps
  <2>3. CASE ~Goto(p, "fdref") /\ ~Returns(p)
    <3>1. PICK pc \in Pc : pc = IF fdpage[p][k.fd] = "r" THEN "read_empty" ELSE "write_full"
      BY <1>a
    <3> DEFINE h == [k EXCEPT !.pc = pc, !.fdref = 0, !.piperef = 0]
    <3>2. Step(p, h) /\ k.n # 0
      BY <1>0, <1>4, <2>3, <3>1 DEF decide
    <3>3. /\ h \in Doing /\ h.pc = pc /\ h.fd = k.fd /\ h.n = k.n
          /\ h.i = k.i /\ h.from = k.from
      BY DEF Doing
    <3>4. h.n > 0
      BY <1>0, <3>2, <3>3 DEF Doing
    <3> HIDE DEF h
    <3> QED BY <1>0, <1>b, <3>1, <3>2, <3>3, <3>4, CheckKeeps
  <2> QED BY <2>1, <2>2, <2>3
<1> QED BY <1>1, <1>2, <1>3, <1>4

\* A preemption changes only the counters of runs.
LEMMA TickKeeps == ASSUME ProcInv, NEW p \in Proc, Tick(p) PROVE ProcInv'
<1> DEFINE h == [pr[p] EXCEPT !.stale = TRUE]
<1>1. /\ h \in Doing /\ h.pc = pr[p].pc /\ h.fd = pr[p].fd /\ h.n = pr[p].n
      /\ LocalOK(h, fdpage[p], data[p])
  BY ProcFacts, StaleKeeps
<1>2. pr' = [pr EXCEPT ![p] = h] /\ UNCHANGED <<fdpage, data, live>>
  BY DEF Tick, pages
<1> HIDE DEF h
<1>3. /\ pr' \in [Proc -> Doing]
      /\ \A q \in Proc : pr'[q].pc = pr[q].pc /\ pr'[q].fd = pr[q].fd /\ pr'[q].n = pr[q].n
      /\ \A q \in Proc : LocalOK(pr'[q], fdpage[q], data[q])
  BY <1>1, <1>2 DEF ProcInv
<1>4. OneUser => Exclusive'
  BY <1>2, <1>3 DEF ProcInv, Exclusive
<1> QED BY <1>2, <1>3, <1>4 DEF ProcInv

\* The initial state satisfies the invariant.
LEMMA InitProcInv == Init => ProcInv
<1> SUFFICES ASSUME Init PROVE ProcInv
  OBVIOUS
<1>1. \A p \in Proc : pr[p] = Idle
  BY DEF Init
<1>2. /\ pr \in [Proc -> Doing] /\ fdpage \in [Proc -> FdPages] /\ data \in [Proc -> DataPages]
      /\ live \subseteq Proc
  BY IdleRecord, PipeAssumption DEF Init, FdPages, DataPages
<1>3. \A p \in Proc : \A j \in FdNo : fdpage[p][j] \in Ends => data[p][j]
  BY DEF Init, Ends
<1>4. \A p \in Proc : LocalOK(pr[p], fdpage[p], data[p])
  BY <1>1, <1>3, IdleRecord
<1>5. Exclusive /\ \A p \in Proc : pr[p].pc # "idle" => p \in live
  BY <1>1, IdleRecord DEF Exclusive
<1> QED BY <1>2, <1>4, <1>5 DEF ProcInv

\* One step per action: descriptors and data pages stay in order.
LEMMA NextProcInv == ASSUME ProcInv, [Next]_vars PROVE ProcInv'
<1>1. CASE UNCHANGED vars
  BY <1>1 DEF vars, ProcInv, Exclusive
<1>2. ASSUME NEW p \in Proc, GoesOn(p) PROVE ProcInv'
  <2>1. CASE take(p) \/ advance(p)
    BY <2>1, ByteKeeps DEF take, advance, At
  <2> QED BY <1>2, <2>1, CloseFdKeeps, CloseDataKeeps, DupDataKeeps, DupFdKeeps, ReadTestKeeps,
             ReadEmptyKeeps, WriteTestKeeps, PutKeeps, WriteFullKeeps, ChecksKeep DEF GoesOn
<1>3. ASSUME NEW p \in Proc, Calls(p) PROVE ProcInv'
  BY <1>3, PipeKeeps, OpenconsKeeps, ExitKeeps, ForkKeeps, CallsKeep, StartKeeps DEF Calls
<1> QED BY <1>1, <1>2, <1>3, TickKeeps DEF Next

-----------------------------------------------------------------------------
(* The circular buffer.                                                      *)

Pipes == [rpos : Nat, wpos : Nat, buf : [0 .. PIPE_SIZE - 1 -> Nat], made : BOOLEAN]

\* A buffer P after g bytes were delivered and s were written: the positions are g and
\* s, and the bytes between them are in their places.
Holds(P, g, s) ==
    /\ P \in Pipes
    /\ g \in Nat /\ s \in Nat /\ g <= s /\ s - g <= PIPE_SIZE /\ s <= MaxBytes
    /\ P.rpos = g % PosMod /\ P.wpos = s % PosMod
    /\ \A j \in Nat : g <= j /\ j < s => P.buf[j % PIPE_SIZE] = j + 1

\* What a reader or a writer relies on between its test and its access.
ByteOK(k, fp, P, g, s) ==
    /\ k.pc = "take" => g < s
    /\ k.pc \in {"put", "advance"} => s - g < PIPE_SIZE
    /\ k.pc = "advance" => P.buf[s % PIPE_SIZE] = s + 1
    /\ k.n > 0 /\ fp[k.fd] = "w" => s + (k.n - k.i) <= MaxBytes

QueueInv ==
    /\ got \in Seq(Byte)
    /\ Holds(pipe, Len(got), sent)
    /\ \A p \in Proc : ByteOK(pr[p], fdpage[p], pipe, Len(got), sent)

\* The bytes under way, as the abstract queue.
Queue(g, s) == [k \in 1 .. s - g |-> g + k]

\* The bytes g + 1 .. s are s - g in number.
LEMMA QueueLen ==
    ASSUME NEW g \in Nat, NEW s \in Nat, g <= s
    PROVE  Queue(g, s) \in Seq(Nat) /\ Len(Queue(g, s)) = s - g
<1>1. PICK n \in Nat : n = s - g
  OBVIOUS
<1>2. Queue(g, s) = [k \in 1 .. n |-> g + k]
  BY <1>1 DEF Queue
<1>3. [k \in 1 .. n |-> g + k] \in Seq(Nat) /\ Len([k \in 1 .. n |-> g + k]) = n
  OBVIOUS
<1> QED BY <1>1, <1>2, <1>3

\* Sending one more byte appends it.
LEMMA QueuePut ==
    ASSUME NEW g \in Nat, NEW s \in Nat, g <= s
    PROVE  Queue(g, s + 1) = Append(Queue(g, s), s + 1)
<1>1. PICK t \in Nat : t = s + 1
  OBVIOUS
<1>2. PICK a : a = Queue(g, s)
  OBVIOUS
<1>3. PICK b : b = Queue(g, t)
  OBVIOUS
<1>a. a \in Seq(Nat) /\ Len(a) = s - g
  BY <1>2, QueueLen
<1>b. g <= t
  BY <1>1
<1>c. b \in Seq(Nat) /\ Len(b) = t - g
  BY <1>b, <1>3, QueueLen
<1>4. a \in Seq(Nat) /\ Len(a) = s - g /\ b \in Seq(Nat) /\ Len(b) = (s - g) + 1
  BY <1>1, <1>a, <1>c
<1>5. \A k \in 1 .. s - g : a[k] = g + k
  BY <1>2 DEF Queue
<1>6. \A k \in 1 .. (s - g) + 1 : b[k] = g + k
  BY <1>1, <1>3 DEF Queue
<1>7. b = Append(a, t)
  BY <1>1, <1>4, <1>5, <1>6
<1> QED BY <1>1, <1>2, <1>3, <1>7

\* Taking a byte removes the oldest.
LEMMA QueueGet ==
    ASSUME NEW g \in Nat, NEW s \in Nat, g < s
    PROVE  /\ Queue(g, s) # <<>> /\ Head(Queue(g, s)) = g + 1
           /\ Tail(Queue(g, s)) = Queue(g + 1, s)
<1>1. PICK h \in Nat : h = g + 1
  OBVIOUS
<1>2. PICK a : a = Queue(g, s)
  OBVIOUS
<1>3. PICK b : b = Queue(h, s)
  OBVIOUS
<1>b. h <= s /\ g <= s
  BY <1>1
<1>a. a \in Seq(Nat) /\ Len(a) = s - g
  BY <1>b, <1>2, QueueLen
<1>4. a \in Seq(Nat) /\ Len(a) = s - g /\ b \in Seq(Nat) /\ Len(b) = s - h /\ h <= s
  BY <1>a, <1>b, <1>3, QueueLen
<1>5. \A k \in 1 .. s - g : a[k] = g + k
  BY <1>2 DEF Queue
<1>6. \A k \in 1 .. s - h : b[k] = h + k
  BY <1>3 DEF Queue
<1>7. a # <<>> /\ Head(a) = h
  BY <1>1, <1>4, <1>5
<1>8. b = Tail(a)
  <2>1. PICK c : c = Tail(a)
    OBVIOUS
  <2>2. c \in Seq(Nat) /\ Len(c) = Len(a) - 1 /\ \A k \in 1 .. Len(a) - 1 : c[k] = a[k + 1]
    BY <1>4, <1>7, <2>1
  <2>3. Len(c) = Len(b) /\ Len(b) \in Nat
    BY <1>1, <1>4, <2>2
  <2>4. \A k \in 1 .. Len(b) : c[k] = b[k]
    BY <1>1, <1>4, <1>5, <1>6, <2>2
  <2>5. c = b
    BY <1>4, <2>2, <2>3, <2>4
  <2> QED BY <2>1, <2>5
<1> QED BY <1>1, <1>2, <1>3, <1>7, <1>8

\* What is assumed of the sizes.
LEMMA Sizes ==
    /\ PIPE_SIZE \in Nat \ {0} /\ PosMod \in Nat \ {0} /\ PosMod > PIPE_SIZE
    /\ PosMod % PIPE_SIZE = 0 /\ MaxBytes \in Nat
BY PipeAssumption

\* What the code computes from the positions.
LEMMA View ==
    ASSUME NEW P, NEW g, NEW s, Holds(P, g, s)
    PROVE  /\ (P.wpos - P.rpos) % PosMod = s - g
           /\ [k \in 1 .. s - g |-> P.buf[(P.rpos + k - 1) % PIPE_SIZE]] = Queue(g, s)
           /\ P.rpos % PIPE_SIZE = g % PIPE_SIZE /\ P.wpos % PIPE_SIZE = s % PIPE_SIZE
<1>1. g \in Nat /\ s \in Nat /\ g <= s /\ s - g <= PIPE_SIZE
  BY DEF Holds
<1>2. PICK r \in Nat, w \in Nat : r = g % PosMod /\ w = s % PosMod
  <2>1. \A a \in Nat : a % PosMod \in Nat
    BY Sizes
  <2> QED BY <1>1, <2>1
<1>3. P.rpos = r /\ P.wpos = w
  BY <1>2 DEF Holds
<1>4. (w - r) % PosMod = s - g
  <2>1. s - g \in 0 .. PosMod - 1
    BY <1>1, Sizes
  <2>2. g \in Int /\ s \in Int /\ PosMod \in Nat \ {0}
    BY <1>1, Sizes
  <2>3. ((s % PosMod) - (g % PosMod)) % PosMod = s - g
    BY <2>1, <2>2, Distance
  <2> QED BY <1>2, <2>3
<1>5. \A k \in Int : (r + k) % PIPE_SIZE = (g + k) % PIPE_SIZE /\ (w + k) % PIPE_SIZE = (s + k) % PIPE_SIZE
  <2>1. \A a \in Int, k \in Int : ((a % PosMod) + k) % PIPE_SIZE = (a + k) % PIPE_SIZE
    BY Sizes, RemainderTwice
  <2>2. g \in Int /\ s \in Int
    BY <1>1
  <2> QED BY <1>2, <2>1, <2>2
<1>6. ASSUME NEW k \in 1 .. s - g PROVE P.buf[(r + k - 1) % PIPE_SIZE] = g + k
  <2>1. PICK j \in Nat : j = g + k - 1
    BY <1>1
  <2>2. (r + (k - 1)) % PIPE_SIZE = j % PIPE_SIZE
    BY <1>1, <1>5, <2>1
  <2>3. P.buf[j % PIPE_SIZE] = j + 1
    BY <1>1, <2>1 DEF Holds
  <2>4. r + k - 1 = r + (k - 1)
    OBVIOUS
  <2> QED BY <1>1, <2>1, <2>2, <2>3, <2>4
<1>7. r % PIPE_SIZE = g % PIPE_SIZE /\ w % PIPE_SIZE = s % PIPE_SIZE
  <2>1. (r + 0) % PIPE_SIZE = (g + 0) % PIPE_SIZE /\ (w + 0) % PIPE_SIZE = (s + 0) % PIPE_SIZE
    BY <1>5
  <2>2. r + 0 = r /\ g + 0 = g /\ w + 0 = w /\ s + 0 = s
    BY <1>1
  <2> QED BY <2>1, <2>2
<1>8. [k \in 1 .. s - g |-> P.buf[(r + k - 1) % PIPE_SIZE]] = Queue(g, s)
  BY <1>6 DEF Queue
<1> QED BY <1>3, <1>4, <1>7, <1>8

\* A step that moves no byte: only the process that takes it may rely on more.
LEMMA QuietQueue ==
    ASSUME ProcInv, QueueInv, NEW p \in Proc, NEW k \in Doing, Step(p, k),
           UNCHANGED <<sent, got>>, NEW P, pipe' = P, Holds(P, Len(got), sent), P.buf = pipe.buf,
           \A q \in Proc \ {p} : fdpage'[q] = fdpage[q] \/ pr[q].pc = "idle",
           ByteOK(k, fdpage'[p], P, Len(got), sent)
    PROVE  QueueInv'
<1>1. ASSUME NEW q \in Proc \ {p} PROVE ByteOK(pr'[q], fdpage'[q], P, Len(got), sent)
  <2>1. pr'[q].pc = pr[q].pc /\ pr'[q].fd = pr[q].fd /\ pr'[q].n = pr[q].n /\ pr'[q].i = pr[q].i
    BY StepEffect
  <2>2. ByteOK(pr[q], fdpage[q], pipe, Len(got), sent)
    BY DEF QueueInv
  <2>3. pr[q].pc = "idle" => ~(pr[q].n > 0)
    BY ProcFacts DEF LocalOK
  <2> QED BY <2>1, <2>2, <2>3 DEF ByteOK
<1>2. pr'[p] = k
  BY StepEffect
<1>3. ASSUME NEW q \in Proc PROVE ByteOK(pr'[q], fdpage'[q], P, Len(got), sent)
  BY <1>1, <1>2
<1> QED BY <1>3 DEF QueueInv

\* The usual case: neither the buffer nor the pages that a transfer uses are touched.
LEMMA QuietCall ==
    ASSUME ProcInv, QueueInv, NEW p \in Proc, NEW k \in Doing, Step(p, k), UNCHANGED pipestate,
           \A q \in Proc \ {p} : fdpage'[q] = fdpage[q] \/ pr[q].pc = "idle",
           ByteOK(k, fdpage'[p], pipe, Len(got), sent)
    PROVE  QueueInv'
<1>1. /\ pipe' = pipe /\ sent' = sent /\ got' = got /\ pipe.buf = pipe.buf
      /\ Holds(pipe, Len(got), sent)
  BY DEF pipestate, QueueInv
<1> QED BY <1>1, QuietQueue

\* A process that transfers nothing is bound to no byte.
LEMMA RestBytes ==
    ASSUME NEW k, k.n = 0, k.pc \notin {"take", "put", "advance"}, NEW fp, NEW P, NEW g, NEW s
    PROVE  ByteOK(k, fp, P, g, s)
BY DEF ByteOK

\* The calls and the mapping steps: the process that takes them transfers nothing.
LEMMA RestStep ==
    ASSUME ProcInv, QueueInv, NEW p \in Proc, NEW k \in Doing, Step(p, k), UNCHANGED pipestate,
           \A q \in Proc \ {p} : fdpage'[q] = fdpage[q] \/ pr[q].pc = "idle",
           k.n = 0, k.pc \notin {"take", "put", "advance"}
    PROVE  QueueInv'
<1>1. ByteOK(k, fdpage'[p], pipe, Len(got), sent)
  BY RestBytes
<1> QED BY <1>1, QuietCall

\* A step of a transfer that moves no byte.
LEMMA OnStep ==
    ASSUME ProcInv, QueueInv, NEW p \in Proc, NEW k \in Doing, Step(p, k),
           UNCHANGED <<fdpage, pipe, sent, got>>,
           k.fd = pr[p].fd, k.n = pr[p].n, k.i = pr[p].i,
           k.pc = "take" => Len(got) < sent,
           k.pc = "put" => sent - Len(got) < PIPE_SIZE, k.pc # "advance"
    PROVE  QueueInv'
<1>1. ByteOK(pr[p], fdpage[p], pipe, Len(got), sent)
  BY DEF QueueInv
<1>2. ByteOK(k, fdpage[p], pipe, Len(got), sent)
  BY <1>1 DEF ByteOK
<1>3. UNCHANGED pipestate /\ fdpage' = fdpage
  BY DEF pipestate
<1>4. ByteOK(k, fdpage'[p], pipe, Len(got), sent)
  BY <1>2, <1>3
<1> QED BY <1>3, <1>4, QuietCall

\* A step to another statement keeps the queue if the tests that guard it hold.
LEMMA OnGoto ==
    ASSUME ProcInv, QueueInv, NEW p \in Proc, NEW pc \in Pc, Goto(p, pc),
           UNCHANGED <<pages, pipestate>>,
           pc = "take" => Len(got) < sent,
           pc = "put" => sent - Len(got) < PIPE_SIZE, pc # "advance"
    PROVE  QueueInv'
<1>1. PICK k \in Doing : k = pr[p]
  BY ProcFacts
<1> DEFINE h == [k EXCEPT !.pc = pc]
<1>2. h \in Doing /\ h.pc = pc /\ h.fd = k.fd /\ h.n = k.n /\ h.i = k.i
  BY GotoRecord
<1>3. Step(p, h)
  BY <1>1 DEF Goto
<1> HIDE DEF h
<1>4. UNCHANGED <<fdpage, pipe, sent, got>>
  BY DEF pages, pipestate
<1> QED BY <1>1, <1>2, <1>3, <1>4, OnStep

\* A call that returns leaves the queue as it is.
LEMMA ReturnQueue ==
    ASSUME ProcInv, QueueInv, NEW p \in Proc, Returns(p), UNCHANGED pipestate,
           \A q \in Proc \ {p} : fdpage'[q] = fdpage[q] \/ pr[q].pc = "idle"
    PROVE  QueueInv'
<1>1. Step(p, Idle) /\ Idle \in Doing /\ Idle.n = 0 /\ Idle.pc \notin {"take", "put", "advance"}
  BY IdleRecord DEF Returns
<1> QED BY <1>1, RestStep

\* What the tests find.
LEMMA TestFacts ==
    ASSUME QueueInv
    PROVE  /\ Len(got) \in Nat /\ sent \in Nat /\ Len(got) <= sent
           /\ InPipe = sent - Len(got)
           /\ pipe.rpos < pipe.wpos => Len(got) < sent
           /\ Contents = Queue(Len(got), sent)
<1>1. PICK g : g = Len(got)
  OBVIOUS
<1>2. Holds(pipe, g, sent)
  BY <1>1 DEF QueueInv
<1>3. g \in Nat /\ sent \in Nat /\ g <= sent /\ pipe.rpos = g % PosMod /\ pipe.wpos = sent % PosMod
  BY <1>2 DEF Holds
<1>4. /\ (pipe.wpos - pipe.rpos) % PosMod = sent - g
      /\ [k \in 1 .. sent - g |-> pipe.buf[(pipe.rpos + k - 1) % PIPE_SIZE]] = Queue(g, sent)
  BY <1>2, View
<1>5. InPipe = sent - g
  BY <1>4 DEF InPipe, Used
<1>6. Contents = Queue(g, sent)
  BY <1>4, <1>5 DEF Contents
<1>7. pipe.rpos < pipe.wpos => g < sent
  <2>1. g = sent => pipe.rpos = pipe.wpos
    BY <1>3
  <2>2. pipe.rpos \in Nat
    BY <1>2 DEF Holds, Pipes
  <2> QED BY <1>3, <2>1, <2>2
<1> QED BY <1>1, <1>3, <1>5, <1>6, <1>7

\* The buffer after each of the three accesses.
LEMMA HoldsTake ==
    ASSUME NEW P, NEW g, NEW s, Holds(P, g, s), g < s
    PROVE  /\ P.buf[P.rpos % PIPE_SIZE] = g + 1
           /\ Holds([P EXCEPT !.rpos = Used(@ + 1)], g + 1, s)
           /\ [P EXCEPT !.rpos = Used(@ + 1)].buf = P.buf
<1>1. g \in Nat /\ s \in Nat /\ P \in Pipes
  BY DEF Holds
<1>2. P.buf[P.rpos % PIPE_SIZE] = g + 1
  <2>1. P.rpos % PIPE_SIZE = g % PIPE_SIZE
    BY View
  <2>2. P.buf[g % PIPE_SIZE] = g + 1
    BY <1>1 DEF Holds
  <2> QED BY <2>1, <2>2
<1>3. PICK r \in Nat : r = (g + 1) % PosMod
  <2>1. \A a \in Nat : a % PosMod \in Nat
    BY Sizes
  <2>2. g + 1 \in Nat
    BY <1>1
  <2> QED BY <2>1, <2>2
<1>4. Used(P.rpos + 1) = r
  <2>0. \A a \in Int : ((a % PosMod) + 1) % PosMod = (a + 1) % PosMod
    BY Sizes, NextPosition
  <2>1. ((g % PosMod) + 1) % PosMod = (g + 1) % PosMod
    BY <1>1, <2>0
  <2> QED BY <1>3, <2>1 DEF Used, Holds
<1> DEFINE Q == [P EXCEPT !.rpos = r]
<1>5. [P EXCEPT !.rpos = Used(@ + 1)] = Q
  BY <1>4
<1>6. Q \in Pipes /\ Q.rpos = r /\ Q.wpos = P.wpos /\ Q.buf = P.buf
  BY <1>1 DEF Pipes
<1> HIDE DEF Q
<1>7. PICK h \in Nat : h = g + 1
  BY <1>1
<1>8. h <= s /\ s - h <= PIPE_SIZE /\ s <= MaxBytes
  BY <1>1, <1>7, Sizes DEF Holds
<1>9. \A j \in Nat : h <= j /\ j < s => P.buf[j % PIPE_SIZE] = j + 1
  BY <1>1, <1>7 DEF Holds
<1>10. Holds(Q, h, s)
  <2>1. Q.rpos = h % PosMod /\ Q.wpos = s % PosMod
    BY <1>3, <1>6, <1>7 DEF Holds
  <2> QED BY <1>1, <1>6, <1>8, <1>9, <2>1 DEF Holds
<1> QED BY <1>2, <1>5, <1>6, <1>7, <1>10

\* Storing at a place that is not in use changes no byte of the queue.
LEMMA HoldsPut ==
    ASSUME NEW P, NEW g, NEW s, Holds(P, g, s), s - g < PIPE_SIZE
    PROVE  LET Q == [P EXCEPT !.buf[P.wpos % PIPE_SIZE] = s + 1]
           IN  Holds(Q, g, s) /\ Q.buf[s % PIPE_SIZE] = s + 1
<1>1. g \in Nat /\ s \in Nat /\ g <= s /\ P \in Pipes
  BY DEF Holds
<1>2. PICK w \in 0 .. PIPE_SIZE - 1 : w = s % PIPE_SIZE
  <2>1. \A a \in Nat : a % PIPE_SIZE \in 0 .. PIPE_SIZE - 1
    BY Sizes
  <2> QED BY <1>1, <2>1
<1>3. P.wpos % PIPE_SIZE = w
  BY <1>2, View
<1>4. PICK x \in Nat : x = s + 1
  BY <1>1
<1> DEFINE Q == [P EXCEPT !.buf[w] = x]
<1>5. [P EXCEPT !.buf[P.wpos % PIPE_SIZE] = s + 1] = Q
  BY <1>3, <1>4
<1>6. /\ Q \in Pipes /\ Q.rpos = P.rpos /\ Q.wpos = P.wpos
      /\ Q.buf = [P.buf EXCEPT ![w] = x] /\ P.buf \in [0 .. PIPE_SIZE - 1 -> Nat]
  BY <1>1 DEF Pipes
<1>7. Q.buf[w] = x /\ \A a \in 0 .. PIPE_SIZE - 1 : a # w => Q.buf[a] = P.buf[a]
  BY <1>6
<1> HIDE DEF Q
<1>8. ASSUME NEW j \in Nat, g <= j, j < s PROVE Q.buf[j % PIPE_SIZE] = j + 1
  <2>1. s - j < PIPE_SIZE
    BY <1>1, <1>8, Sizes
  <2>2. j % PIPE_SIZE # s % PIPE_SIZE
    <3>1. \A a, b \in Int : a < b /\ b - a < PIPE_SIZE => a % PIPE_SIZE # b % PIPE_SIZE
      BY Sizes, RemaindersDiffer
    <3> QED BY <1>1, <1>8, <2>1, <3>1
  <2>3. PICK a \in 0 .. PIPE_SIZE - 1 : a = j % PIPE_SIZE
    <3>1. \A b \in Nat : b % PIPE_SIZE \in 0 .. PIPE_SIZE - 1
      BY Sizes
    <3> QED BY <3>1
  <2>4. P.buf[j % PIPE_SIZE] = j + 1
    BY <1>1, <1>8 DEF Holds
  <2> QED BY <1>2, <1>7, <2>2, <2>3, <2>4
<1>9. Holds(Q, g, s)
  BY <1>1, <1>6, <1>8 DEF Holds
<1> QED BY <1>2, <1>4, <1>5, <1>7, <1>9

\* Moving wpos past a stored byte adds that byte.
LEMMA HoldsAdvance ==
    ASSUME NEW P, NEW g, NEW s, Holds(P, g, s), s - g < PIPE_SIZE, s < MaxBytes,
           P.buf[s % PIPE_SIZE] = s + 1
    PROVE  /\ Holds([P EXCEPT !.wpos = Used(@ + 1)], g, s + 1)
           /\ [P EXCEPT !.wpos = Used(@ + 1)].buf = P.buf
<1>1. g \in Nat /\ s \in Nat /\ g <= s /\ P \in Pipes
  BY DEF Holds
<1>2. PICK w \in Nat : w = (s + 1) % PosMod
  <2>1. \A a \in Nat : a % PosMod \in Nat
    BY Sizes
  <2>2. s + 1 \in Nat
    BY <1>1
  <2> QED BY <2>1, <2>2
<1>3. Used(P.wpos + 1) = w
  <2>0. \A a \in Int : ((a % PosMod) + 1) % PosMod = (a + 1) % PosMod
    BY Sizes, NextPosition
  <2>1. ((s % PosMod) + 1) % PosMod = (s + 1) % PosMod
    BY <1>1, <2>0
  <2> QED BY <1>2, <2>1 DEF Used, Holds
<1> DEFINE Q == [P EXCEPT !.wpos = w]
<1>4. [P EXCEPT !.wpos = Used(@ + 1)] = Q
  BY <1>3
<1>5. Q \in Pipes /\ Q.rpos = P.rpos /\ Q.wpos = w /\ Q.buf = P.buf
  BY <1>1 DEF Pipes
<1> HIDE DEF Q
<1>6. PICK t \in Nat : t = s + 1
  BY <1>1
<1>7. g <= t /\ t - g <= PIPE_SIZE /\ t <= MaxBytes
  BY <1>1, <1>6, Sizes
<1>8. \A j \in Nat : g <= j /\ j < t => P.buf[j % PIPE_SIZE] = j + 1
  <2>1. ASSUME NEW j \in Nat, g <= j, j < t PROVE P.buf[j % PIPE_SIZE] = j + 1
    <3>1. j = s \/ j < s
      BY <1>1, <1>6, <2>1
    <3> QED BY <2>1, <3>1 DEF Holds
  <2> QED BY <2>1
<1>9. Holds(Q, g, t)
  <2>1. Q.rpos = g % PosMod /\ Q.wpos = t % PosMod
    BY <1>2, <1>5, <1>6 DEF Holds
  <2> QED BY <1>1, <1>5, <1>7, <1>8, <2>1 DEF Holds
<1> QED BY <1>4, <1>5, <1>6, <1>9

\* _pipe_read takes the oldest byte.
LEMMA TakeQueue == ASSUME OneUser, ProcInv, QueueInv, NEW p \in Proc, take(p) PROVE QueueInv'
<1>0. PICK k \in Doing : k = pr[p]
  BY ProcFacts
<1>1. PICK g, s : g = Len(got) /\ s = sent
  OBVIOUS
<1>2. Holds(pipe, g, s) /\ g < s /\ got \in Seq(Byte)
  BY <1>1 DEF QueueInv, ByteOK, take, At
<1>3. g \in Nat /\ s \in Nat /\ s <= MaxBytes
  BY <1>2 DEF Holds
<1>4. /\ Holds(pipe', g + 1, s) /\ pipe'.buf = pipe.buf /\ sent' = s
      /\ pipe.buf[pipe.rpos % PIPE_SIZE] = g + 1
  BY <1>1, <1>2, HoldsTake DEF take
<1>5. got' \in Seq(Byte) /\ Len(got') = g + 1
  <2>1. g + 1 \in Byte
    BY <1>2, <1>3, Sizes DEF Byte
  <2>2. got' = Append(got, g + 1)
    BY <1>4 DEF take
  <2> QED BY <1>1, <1>2, <2>1, <2>2
<1> DEFINE h == [k EXCEPT !.pc = "read", !.i = @ + 1]
<1>6. h \in Doing /\ h.pc = "read" /\ h.fd = k.fd /\ h.n = k.n
  <2>1. "read" \in Pc
    BY DEF Pc, Reading
  <2> QED BY <2>1, ByteRecord
<1>7. Step(p, h) /\ fdpage' = fdpage
  BY <1>0 DEF take, pages
<1> HIDE DEF h
<1>8. pr[p].n > 0 /\ fdpage[p][pr[p].fd] = "r"
  BY ProcFacts DEF LocalOK, Reading, take, At
<1>9. ByteOK(pr'[p], fdpage'[p], pipe', g + 1, s)
  <2>1. pr'[p] = h
    BY <1>6, <1>7, StepEffect
  <2> QED BY <1>0, <1>6, <1>7, <1>8, <2>1 DEF ByteOK
<1>10. ASSUME NEW q \in Proc \ {p} PROVE ByteOK(pr'[q], fdpage'[q], pipe', g + 1, s)
  <2>1. pr'[q].pc = pr[q].pc /\ pr'[q].fd = pr[q].fd /\ pr'[q].n = pr[q].n /\ pr'[q].i = pr[q].i
    BY <1>6, <1>7, StepEffect
  <2>2. ByteOK(pr[q], fdpage[q], pipe, g, s)
    BY <1>1 DEF QueueInv
  <2>3. pr[q].pc # "take"
    <3> SUFFICES ASSUME pr[q].pc = "take" PROVE FALSE
      OBVIOUS
    <3>1. pr[q].n > 0 /\ fdpage[q][pr[q].fd] = "r"
      BY ProcFacts DEF LocalOK, Reading
    <3> QED BY <1>8, <3>1 DEF ProcInv, Exclusive
  <2>4. s - g < PIPE_SIZE => s - (g + 1) < PIPE_SIZE
    BY <1>3, Sizes
  <2> QED BY <1>4, <1>7, <2>1, <2>2, <2>3, <2>4 DEF ByteOK
<1>11. \A q \in Proc : ByteOK(pr'[q], fdpage'[q], pipe', Len(got'), sent')
  BY <1>4, <1>5, <1>9, <1>10
<1> QED BY <1>4, <1>5, <1>11 DEF QueueInv

\* At most one process is inside a write.
LEMMA OneWriter ==
    ASSUME OneUser, ProcInv, NEW p \in Proc, pr[p].pc \in {"put", "advance"}, NEW q \in Proc \ {p}
    PROVE  ~(pr[q].n > 0 /\ fdpage[q][pr[q].fd] = "w") /\ pr[q].pc \notin {"put", "advance"}
<1>1. pr[p].n > 0 /\ fdpage[p][pr[p].fd] = "w"
  BY ProcFacts DEF LocalOK, Writing
<1>2. pr[q].pc \in {"put", "advance"} => pr[q].n > 0 /\ fdpage[q][pr[q].fd] = "w"
  BY ProcFacts DEF LocalOK, Writing
<1> QED BY <1>1, <1>2 DEF ProcInv, Exclusive

\* _pipe_write stores at a place that is not in use.
LEMMA PutQueue == ASSUME OneUser, ProcInv, QueueInv, NEW p \in Proc, put(p) PROVE QueueInv'
<1>0. PICK k \in Doing : k = pr[p]
  BY ProcFacts
<1>1. PICK g, s : g = Len(got) /\ s = sent
  OBVIOUS
<1>2. Holds(pipe, g, s) /\ s - g < PIPE_SIZE /\ pr[p].pc = "put" /\ ByteOK(k, fdpage[p], pipe, g, s)
  BY <1>0, <1>1 DEF QueueInv, ByteOK, put, At
<1>3. Holds(pipe', g, s) /\ pipe'.buf[s % PIPE_SIZE] = s + 1 /\ sent' = s /\ got' = got
  BY <1>1, <1>2, HoldsPut DEF put
<1> DEFINE h == [k EXCEPT !.pc = "advance"]
<1>4. h \in Doing /\ h.pc = "advance" /\ h.fd = k.fd /\ h.n = k.n /\ h.i = k.i
  <2>1. "advance" \in Pc
    BY DEF Pc, Writing
  <2> QED BY <2>1, GotoRecord
<1>5. Step(p, h) /\ fdpage' = fdpage
  BY <1>0 DEF put, pages, Goto
<1> HIDE DEF h
<1>6. ByteOK(pr'[p], fdpage'[p], pipe', g, s)
  <2>1. pr'[p] = h
    BY <1>4, <1>5, StepEffect
  <2> QED BY <1>2, <1>3, <1>4, <1>5, <2>1 DEF ByteOK
<1>7. ASSUME NEW q \in Proc \ {p} PROVE ByteOK(pr'[q], fdpage'[q], pipe', g, s)
  <2>1. pr'[q].pc = pr[q].pc /\ pr'[q].fd = pr[q].fd /\ pr'[q].n = pr[q].n /\ pr'[q].i = pr[q].i
    BY <1>4, <1>5, StepEffect
  <2>2. ByteOK(pr[q], fdpage[q], pipe, g, s)
    BY <1>1 DEF QueueInv
  <2>3. pr[q].pc \notin {"put", "advance"}
    BY <1>2, OneWriter
  <2> QED BY <1>5, <2>1, <2>2, <2>3 DEF ByteOK
<1> QED BY <1>1, <1>3, <1>6, <1>7 DEF QueueInv

\* _pipe_write publishes the byte that it stored.
LEMMA AdvanceQueue == ASSUME OneUser, ProcInv, QueueInv, NEW p \in Proc, advance(p) PROVE QueueInv'
<1>0. PICK k \in Doing : k = pr[p]
  BY ProcFacts
<1>1. PICK g, s : g = Len(got) /\ s = sent
  OBVIOUS
<1>2. /\ Holds(pipe, g, s) /\ s - g < PIPE_SIZE /\ pipe.buf[s % PIPE_SIZE] = s + 1
      /\ pr[p].pc = "advance" /\ ByteOK(k, fdpage[p], pipe, g, s)
  BY <1>0, <1>1 DEF QueueInv, ByteOK, advance, At
<1>3. k.n \in Nat /\ k.i \in Nat /\ k.i < k.n /\ fdpage[p][k.fd] = "w" /\ s \in Nat /\ g \in Nat
  BY <1>0, <1>2, ProcFacts DEF LocalOK, Writing, Holds
<1>4. s + (k.n - k.i) <= MaxBytes /\ s < MaxBytes
  <2>1. s + (k.n - k.i) <= MaxBytes
    BY <1>2, <1>3 DEF ByteOK
  <2> QED BY <1>3, <2>1, Sizes
<1>5. Holds(pipe', g, s + 1) /\ pipe'.buf = pipe.buf /\ sent' = s + 1 /\ got' = got
  BY <1>1, <1>2, <1>4, HoldsAdvance DEF advance
<1> DEFINE h == [k EXCEPT !.pc = "write", !.i = @ + 1]
<1>6. h \in Doing /\ h.pc = "write" /\ h.fd = k.fd /\ h.n = k.n /\ h.i = k.i + 1
  <2>1. "write" \in Pc
    BY DEF Pc, Writing
  <2> QED BY <2>1, ByteRecord
<1>7. Step(p, h) /\ fdpage' = fdpage
  BY <1>0 DEF advance, pages
<1> HIDE DEF h
<1>8. ByteOK(pr'[p], fdpage'[p], pipe', g, s + 1)
  <2>1. pr'[p] = h
    BY <1>6, <1>7, StepEffect
  <2>2. (s + 1) + (h.n - h.i) <= MaxBytes
    BY <1>3, <1>4, <1>6, Sizes
  <2> QED BY <1>6, <2>1, <2>2 DEF ByteOK
<1>9. ASSUME NEW q \in Proc \ {p} PROVE ByteOK(pr'[q], fdpage'[q], pipe', g, s + 1)
  <2>1. pr'[q].pc = pr[q].pc /\ pr'[q].fd = pr[q].fd /\ pr'[q].n = pr[q].n /\ pr'[q].i = pr[q].i
    BY <1>6, <1>7, StepEffect
  <2>2. ByteOK(pr[q], fdpage[q], pipe, g, s)
    BY <1>1 DEF QueueInv
  <2>3. ~(pr[q].n > 0 /\ fdpage[q][pr[q].fd] = "w") /\ pr[q].pc \notin {"put", "advance"}
    BY <1>2, OneWriter
  <2>4. g < s => g < s + 1
    BY <1>3
  <2> QED BY <1>7, <2>1, <2>2, <2>3, <2>4 DEF ByteOK
<1>10. \A q \in Proc : ByteOK(pr'[q], fdpage'[q], pipe', Len(got'), sent')
  BY <1>1, <1>5, <1>8, <1>9
<1> QED BY <1>1, <1>5, <1>10 DEF QueueInv

\* The steps of a close or a dup.
LEMMA MappingQueue ==
    ASSUME ProcInv, QueueInv, NEW p \in Proc, pr[p].pc \in Mapping, UNCHANGED pipestate,
           \A q \in Proc \ {p} : fdpage'[q] = fdpage[q],
           Returns(p) \/ \E pc \in Mapping : Goto(p, pc)
    PROVE  QueueInv'
<1>1. CASE Returns(p)
  BY <1>1, ReturnQueue
<1>2. ASSUME NEW pc \in Mapping, Goto(p, pc) PROVE QueueInv'
  <2>1. PICK k \in Doing : k = pr[p]
    BY ProcFacts
  <2>2. k.n = 0
    BY <2>1, ProcFacts DEF LocalOK
  <2> DEFINE h == [k EXCEPT !.pc = pc]
  <2>3. h \in Doing /\ h.pc = pc /\ h.n = k.n
    <3>1. pc \in Pc
      BY DEF Pc
    <3> QED BY <3>1, GotoRecord
  <2>4. Step(p, h)
    BY <1>2, <2>1 DEF Goto
  <2>5. pc \notin {"take", "put", "advance"}
    BY DEF Mapping
  <2> HIDE DEF h
  <2> QED BY <2>2, <2>3, <2>4, <2>5, RestStep
<1> QED BY <1>1, <1>2

\* The steps of close and dup leave the queue as it is.
LEMMA MappingsQueue ==
    ASSUME ProcInv, QueueInv, NEW p \in Proc,
           close_fd(p) \/ close_data(p) \/ dup_data(p) \/ dup_fd(p)
    PROVE  QueueInv'
<1>1. pr[p].pc \in Mapping /\ UNCHANGED pipestate
  BY DEF close_fd, close_data, dup_data, dup_fd, At, Mapping
<1>2. \A q \in Proc \ {p} : fdpage'[q] = fdpage[q]
  BY DEF close_fd, close_data, dup_data, dup_fd, ProcInv
<1>3. Returns(p) \/ \E pc \in Mapping : Goto(p, pc)
  BY DEF close_fd, close_data, dup_data, dup_fd, AfterClose, Mapping
<1> QED BY <1>1, <1>2, <1>3, MappingQueue

\* pipe starts with an empty queue.
LEMMA PipeQueue == ASSUME ProcInv, QueueInv, NEW p \in Proc, pipe_(p) PROVE QueueInv'
<1>1. PICK P : P = [pipe EXCEPT !.made = TRUE]
  OBVIOUS
<1>2. /\ pipe' = P /\ UNCHANGED <<sent, got>> /\ Returns(p)
      /\ \A q \in Proc \ {p} : fdpage'[q] = fdpage[q]
  BY <1>1 DEF pipe_, ProcInv
<1>3. P.buf = pipe.buf /\ Holds(P, Len(got), sent)
  <2>1. pipe \in Pipes /\ Holds(pipe, Len(got), sent)
    BY DEF QueueInv, Holds
  <2>2. P \in Pipes /\ P.rpos = pipe.rpos /\ P.wpos = pipe.wpos /\ P.buf = pipe.buf
    BY <1>1, <2>1 DEF Pipes
  <2> QED BY <2>1, <2>2 DEF Holds
<1>4. Step(p, Idle) /\ Idle \in Doing /\ ByteOK(Idle, fdpage'[p], P, Len(got), sent)
  BY <1>2, IdleRecord, RestBytes DEF Returns
<1> QED BY <1>2, <1>3, <1>4, QuietQueue

\* Calls on other descriptors leave the queue as it is.
LEMMA ReturnsQueue ==
    ASSUME ProcInv, QueueInv, NEW p \in Proc, NEW c \in Proc, opencons(p) \/ exit(p) \/ fork(p, c)
    PROVE  QueueInv'
<1>1. Returns(p) /\ UNCHANGED pipestate
  BY DEF opencons, exit, fork
<1>2. \A q \in Proc \ {p} : fdpage'[q] = fdpage[q] \/ pr[q].pc = "idle"
  <2>1. CASE opencons(p) \/ exit(p)
    BY <2>1 DEF opencons, exit, ProcInv
  <2>2. CASE fork(p, c)
    BY <2>2 DEF fork, ProcInv
  <2> QED BY <2>1, <2>2
<1> QED BY <1>1, <1>2, ReturnQueue

\* The calls that only begin leave the queue as it is.
LEMMA CallsQueue ==
    ASSUME ProcInv, QueueInv, NEW p \in Proc, NEW i \in FdNo, NEW j \in FdNo,
           close(p, i) \/ pipe_is_closed(p, i) \/ dup(p, i, j)
    PROVE  QueueInv'
<1>1. UNCHANGED pipestate /\ \A q \in Proc \ {p} : fdpage'[q] = fdpage[q]
  BY DEF close, pipe_is_closed, dup, pages
<1>2. PICK h \in Doing : h.pc \in {"close_fd", "dup_data", "before"} /\ h.n = 0 /\ Step(p, h)
  <2>1. CASE close(p, i)
    <3> DEFINE h == [Idle EXCEPT !.pc = "close_fd", !.fd = i]
    <3>1. h \in Doing /\ h.pc = "close_fd" /\ h.n = 0
      BY IdleRecord DEF Doing, Idle, Pc, Mapping
    <3>2. Step(p, h)
      BY <2>1 DEF close
    <3> HIDE DEF h
    <3> QED BY <3>1, <3>2
  <2>2. CASE pipe_is_closed(p, i)
    <3> DEFINE h == [Idle EXCEPT !.pc = "before", !.fd = i]
    <3>1. h \in Doing /\ h.pc = "before" /\ h.n = 0
      BY IdleRecord DEF Doing, Idle, Pc, Mapping
    <3>2. Step(p, h)
      BY <2>2 DEF pipe_is_closed
    <3> HIDE DEF h
    <3> QED BY <3>1, <3>2
  <2>3. CASE dup(p, i, j)
    <3>1. PICK pc \in {"close_fd", "dup_data"} : Step(p, [Idle EXCEPT !.pc = pc, !.fd = j, !.from = i])
      BY <2>3 DEF dup
    <3> DEFINE h == [Idle EXCEPT !.pc = pc, !.fd = j, !.from = i]
    <3>2. h \in Doing /\ h.pc = pc /\ h.n = 0
      BY IdleRecord DEF Doing, Idle, Pc, Mapping
    <3>3. Step(p, h)
      BY <3>1
    <3> HIDE DEF h
    <3> QED BY <3>2, <3>3
  <2> QED BY <2>1, <2>2, <2>3
<1> QED BY <1>1, <1>2, RestStep

\* A read or a write begins with no byte transferred.
LEMMA StartQueue ==
    ASSUME ProcInv, QueueInv, NEW p \in Proc, NEW i \in FdNo, NEW n \in 1 .. PIPE_SIZE + 1,
           read(p, i, n) \/ write(p, i, n)
    PROVE  QueueInv'
<1>1. PICK pc \in {"read", "write"} :
         /\ Step(p, [Idle EXCEPT !.pc = pc, !.fd = i, !.n = n])
         /\ UNCHANGED <<pages, pipestate>>
         /\ fdpage[p][i] = "w" => sent + n <= MaxBytes
  BY DEF read, write, Start
<1>2. n \in Nat
  BY Sizes
<1> DEFINE h == [Idle EXCEPT !.pc = pc, !.fd = i, !.n = n]
<1>3. h \in Doing /\ h.pc = pc /\ h.fd = i /\ h.n = n /\ h.i = 0
  BY <1>2, IdleRecord DEF Doing, Idle, Pc, Reading, Writing
<1>4. Step(p, h) /\ fdpage' = fdpage
  BY <1>1 DEF pages
<1> HIDE DEF h
<1>5. n - h.i = n
  BY <1>2, <1>3
<1>6. ByteOK(h, fdpage'[p], pipe, Len(got), sent)
  BY <1>1, <1>3, <1>4, <1>5 DEF ByteOK
<1> QED BY <1>1, <1>3, <1>4, <1>6, QuietCall

\* A test that passes is what the transfer after it relies on.
LEMMA TestsQueue ==
    ASSUME ProcInv, QueueInv, NEW p \in Proc,
           read_test(p) \/ read_empty(p) \/ write_test(p) \/ write_full(p)
    PROVE  QueueInv'
<1>1. UNCHANGED <<pages, pipestate>> /\ fdpage' = fdpage
  BY DEF read_test, read_empty, write_test, write_full, pages
<1>2. CASE Returns(p)
  BY <1>1, <1>2, ReturnQueue
<1>3. ASSUME NEW pc \in {"read", "write", "read_empty", "write_full", "before"}, Goto(p, pc)
      PROVE  QueueInv'
  <2>1. pc \in Pc
    BY DEF Pc, Reading, Writing
  <2> QED BY <1>1, <1>3, <2>1, OnGoto
<1>4. CASE Goto(p, "take") /\ pipe.rpos < pipe.wpos
  <2>1. "take" \in Pc /\ Len(got) < sent
    BY <1>4, TestFacts DEF Pc, Reading
  <2> QED BY <1>1, <1>4, <2>1, OnGoto
<1>5. CASE Goto(p, "put") /\ Room
  <2>1. "put" \in Pc /\ sent - Len(got) < PIPE_SIZE
    BY <1>5, TestFacts DEF Pc, Writing, Room
  <2> QED BY <1>1, <1>5, <2>1, OnGoto
<1>6. CASE read_test(p)
  BY <1>2, <1>3, <1>4, <1>6 DEF read_test
<1>7. CASE read_empty(p)
  BY <1>2, <1>3, <1>7 DEF read_empty
<1>8. CASE write_test(p)
  BY <1>2, <1>3, <1>5, <1>8 DEF write_test
<1>9. CASE write_full(p)
  BY <1>3, <1>9 DEF write_full
<1> QED BY <1>6, <1>7, <1>8, <1>9

\* The reads of _pipe_is_closed leave the queue as it is.
LEMMA ChecksQueue ==
    ASSUME ProcInv, QueueInv, NEW p \in Proc,
           read_runs(p) \/ read_fd_ref(p) \/ read_pipe_ref(p) \/ decide(p)
    PROVE  QueueInv'
<1>0. PICK k \in Doing : k = pr[p]
  BY ProcFacts
<1>a. \A pc \in Window \cup {"read_empty", "write_full"} :
         pc \in Pc /\ pc \notin {"take", "put", "advance"}
  BY DEF Pc, Reading, Writing, Window
<1>b. UNCHANGED <<pages, pipestate>> /\ UNCHANGED <<fdpage, pipe, sent, got>>
  BY DEF read_runs, read_fd_ref, read_pipe_ref, decide, pages, pipestate
<1>c. CASE Goto(p, "fdref")
  <2>1. "fdref" \in Pc
    BY DEF Pc, Window
  <2> QED BY <1>b, <1>c, <2>1, OnGoto
<1>d. CASE Returns(p)
  BY <1>b, <1>d, ReturnQueue
<1>1. CASE read_runs(p)
  BY <1>1, <1>c DEF read_runs
<1>2. CASE read_fd_ref(p)
  <2>1. PICK a \in Nat : a = pageref_fd(fdpage[p][pr[p].fd])
    BY CountsAreNumbers
  <2> DEFINE h == [k EXCEPT !.pc = "piperef", !.fdref = a]
  <2>a. "piperef" \in Pc
    BY <1>a DEF Window
  <2>2. h \in Doing /\ h.pc = "piperef" /\ h.fd = k.fd /\ h.n = k.n /\ h.i = k.i
    BY <2>a DEF Doing
  <2>3. Step(p, h)
    BY <1>0, <1>2, <2>1 DEF read_fd_ref
  <2> HIDE DEF h
  <2> QED BY <1>0, <1>b, <2>2, <2>3, OnStep
<1>3. CASE read_pipe_ref(p)
  <2>1. PICK a \in Nat : a = pageref_pipe
    BY CountsAreNumbers
  <2> DEFINE h == [k EXCEPT !.pc = "after", !.piperef = a]
  <2>a. "after" \in Pc
    BY <1>a DEF Window
  <2>2. h \in Doing /\ h.pc = "after" /\ h.fd = k.fd /\ h.n = k.n /\ h.i = k.i
    BY <2>a DEF Doing
  <2>3. Step(p, h)
    BY <1>0, <1>3, <2>1 DEF read_pipe_ref
  <2> HIDE DEF h
  <2> QED BY <1>0, <1>b, <2>2, <2>3, OnStep
<1>4. CASE decide(p) /\ ~Goto(p, "fdref") /\ ~Returns(p)
  <2>1. PICK pc \in Pc : /\ pc = IF fdpage[p][k.fd] = "r" THEN "read_empty" ELSE "write_full"
                         /\ pc \notin {"take", "put", "advance"}
    BY <1>a
  <2> DEFINE h == [k EXCEPT !.pc = pc, !.fdref = 0, !.piperef = 0]
  <2>2. Step(p, h)
    BY <1>0, <1>4, <2>1 DEF decide
  <2>3. h \in Doing /\ h.pc = pc /\ h.fd = k.fd /\ h.n = k.n /\ h.i = k.i
    BY DEF Doing
  <2> HIDE DEF h
  <2> QED BY <1>0, <1>b, <2>1, <2>2, <2>3, OnStep
<1> QED BY <1>c, <1>d, <1>1, <1>2, <1>3, <1>4

\* A preemption leaves the queue as it is.
LEMMA TickQueue == ASSUME ProcInv, QueueInv, NEW p \in Proc, Tick(p) PROVE QueueInv'
<1> DEFINE h == [pr[p] EXCEPT !.stale = TRUE]
<1>1. h.pc = pr[p].pc /\ h.fd = pr[p].fd /\ h.n = pr[p].n /\ h.i = pr[p].i
  BY ProcFacts, StaleKeeps
<1>2. pr' = [pr EXCEPT ![p] = h] /\ UNCHANGED <<fdpage, pipe, sent, got>>
  BY DEF Tick, pages, pipestate
<1> HIDE DEF h
<1>3. \A q \in Proc : pr'[q].pc = pr[q].pc /\ pr'[q].fd = pr[q].fd /\ pr'[q].n = pr[q].n /\ pr'[q].i = pr[q].i
  BY <1>1, <1>2 DEF ProcInv
<1>4. \A q \in Proc : ByteOK(pr'[q], fdpage[q], pipe, Len(got), sent)
  BY <1>3 DEF QueueInv, ByteOK
<1> QED BY <1>2, <1>4 DEF QueueInv

\* The initial state satisfies the invariant.
LEMMA InitQueueInv == Init => QueueInv
<1> SUFFICES ASSUME Init PROVE QueueInv
  OBVIOUS
<1>1. \A p \in Proc : ByteOK(pr[p], fdpage[p], pipe, Len(got), sent)
  BY IdleRecord, RestBytes DEF Init
<1>2. got \in Seq(Byte) /\ Len(got) = 0 /\ sent = 0
  BY DEF Init
<1>3. pipe \in Pipes /\ pipe.rpos = 0 /\ pipe.wpos = 0
  BY DEF Init, Pipes
<1>4. 0 % PosMod = 0
  BY Sizes
<1>5. Holds(pipe, 0, 0)
  <2>1. 0 - 0 <= PIPE_SIZE /\ 0 <= MaxBytes /\ 0 \in Nat /\ 0 <= 0
    BY Sizes
  <2>2. \A j \in Nat : ~(0 <= j /\ j < 0)
    OBVIOUS
  <2> QED BY <1>3, <1>4, <2>1, <2>2 DEF Holds
<1> QED BY <1>1, <1>2, <1>5 DEF QueueInv

\* One step per action: buffer and counters hold the bytes sent and not taken.
LEMMA NextQueueInv == ASSUME OneUser, ProcInv, QueueInv, [Next]_vars PROVE QueueInv'
<1>1. CASE UNCHANGED vars
  BY <1>1 DEF vars, QueueInv
<1>2. ASSUME NEW p \in Proc, GoesOn(p) PROVE QueueInv'
  BY <1>2, MappingsQueue, TestsQueue, TakeQueue, PutQueue, AdvanceQueue, ChecksQueue DEF GoesOn
<1>3. ASSUME NEW p \in Proc, Calls(p) PROVE QueueInv'
  BY <1>3, PipeQueue, ReturnsQueue, CallsQueue, StartQueue DEF Calls
<1> QED BY <1>1, <1>2, <1>3, TickQueue DEF Next

-----------------------------------------------------------------------------
(* The pipe is a queue.                                                      *)

\* Only take and advance move a byte.
LEMMA OtherSteps ==
    ASSUME [Next]_vars, \A p \in Proc : ~take(p) /\ ~advance(p)
    PROVE  sent' = sent /\ got' = got
<1>1. ASSUME NEW p \in Proc, GoesOn(p) PROVE sent' = sent /\ got' = got
  BY <1>1 DEF GoesOn, close_fd, close_data, dup_data, dup_fd, read_test, read_empty,
              write_test, put, write_full, read_runs, read_fd_ref, read_pipe_ref, decide, pipestate
<1>2. ASSUME NEW p \in Proc, Calls(p) PROVE sent' = sent /\ got' = got
  BY <1>2 DEF Calls, pipe_, opencons, exit, fork, close, pipe_is_closed, dup, read, write,
              Start, pipestate
<1>3. ASSUME NEW p \in Proc, Tick(p) PROVE sent' = sent /\ got' = got
  BY <1>3 DEF Tick, pipestate
<1> QED BY <1>1, <1>2, <1>3 DEF Next, vars

\* What the mapping reads off the next state.
LEMMA NextView ==
    ASSUME QueueInv'
    PROVE  Contents' = Queue(Len(got'), sent')
<1>1. PICK P, g, s : P = pipe' /\ g = Len(got') /\ s = sent'
  OBVIOUS
<1>2. Holds(P, g, s)
  BY <1>1 DEF QueueInv
<1>3. /\ (P.wpos - P.rpos) % PosMod = s - g
      /\ [k \in 1 .. s - g |-> P.buf[(P.rpos + k - 1) % PIPE_SIZE]] = Queue(g, s)
  BY <1>2, View
<1>4. InPipe' = s - g
  BY <1>1, <1>3 DEF InPipe, Used
<1> QED BY <1>1, <1>3, <1>4 DEF Contents

\* Every step is a Put, a Get or a stutter of the queue of bytes.
LEMMA StepRefines ==
    ASSUME ProcInv, QueueInv, QueueInv', [Next]_vars
    PROVE  [Fifo!Get \/ \E v \in Byte : Fifo!Put(v)]_<<Contents, got>>
<1>1. PICK g, s : g = Len(got) /\ s = sent
  OBVIOUS
<1>2. g \in Nat /\ s \in Nat /\ g <= s /\ s - g <= PIPE_SIZE /\ s <= MaxBytes /\ Contents = Queue(g, s)
  BY <1>1, TestFacts DEF QueueInv, Holds
<1>3. Contents' = Queue(Len(got'), sent')
  BY NextView
<1>4. ASSUME NEW p \in Proc, take(p) PROVE Fifo!Get
  <2>1. g < s /\ Holds(pipe, g, s) /\ got \in Seq(Byte)
    BY <1>1, <1>4 DEF QueueInv, ByteOK, take, At
  <2>2. got' = Append(got, g + 1) /\ sent' = s
    BY <1>1, <1>4, <2>1, HoldsTake DEF take
  <2>3. Len(got') = g + 1
    BY <1>1, <2>1, <2>2
  <2>4. Contents # <<>> /\ Head(Contents) = g + 1 /\ Tail(Contents) = Queue(g + 1, s)
    BY <1>2, <2>1, QueueGet
  <2> QED BY <1>3, <2>2, <2>3, <2>4 DEF Fifo!Get
<1>5. ASSUME NEW p \in Proc, advance(p) PROVE \E v \in Byte : Fifo!Put(v)
  <2>1. s - g < PIPE_SIZE /\ sent' = s + 1 /\ got' = got
    BY <1>1, <1>5 DEF QueueInv, ByteOK, advance, At
  <2>2. Contents' = Append(Contents, s + 1)
    BY <1>1, <1>2, <1>3, <2>1, QueuePut
  <2>3. Len(Contents) < PIPE_SIZE
    BY <1>2, <2>1, QueueLen
  <2>4. PICK t \in Nat : t = s + 1
    BY <1>2
  <2>5. t <= MaxBytes
    BY <2>1, <2>4 DEF QueueInv, Holds
  <2>6. t \in Byte
    BY <1>2, <2>4, <2>5, Sizes DEF Byte
  <2> QED BY <2>1, <2>2, <2>3, <2>4, <2>6 DEF Fifo!Put
<1>6. CASE \A p \in Proc : ~take(p) /\ ~advance(p)
  <2>1. sent' = sent /\ got' = got
    BY <1>6, OtherSteps
  <2>2. Contents' = Contents
    BY <1>1, <1>2, <1>3, <2>1
  <2> QED BY <2>1, <2>2
<1> QED BY <1>4, <1>5, <1>6

\* If the processes use each end of the pipe one at a time, bytes come out in the
\* order in which they went in, none lost and none twice, for every size of the
\* buffer and every modulus of the positions that it divides, and wherever reader and
\* writer are preempted: the steps of pipe_read and pipe_write (pipe.c:171, 240)
\* implement those of BoundedFifo.
THEOREM PipeIsFifo == OneUser => (PipeSpec => ImplementsFifo)
<1> SUFFICES ASSUME OneUser PROVE PipeSpec => ImplementsFifo
  OBVIOUS
<1>1. Init => ProcInv /\ QueueInv
  BY InitProcInv, InitQueueInv
<1>2. ProcInv /\ QueueInv /\ [Next]_vars => (ProcInv /\ QueueInv)'
  BY NextProcInv, NextQueueInv
<1>3. ProcInv /\ QueueInv /\ [Next]_vars
        => [Fifo!Get \/ \E v \in Byte : Fifo!Put(v)]_<<Contents, got>>
  BY NextQueueInv, StepRefines
<1>4. Init => Fifo!FifoInit
  <2> SUFFICES ASSUME Init PROVE Fifo!FifoInit
    OBVIOUS
  <2>1. QueueInv /\ got = <<>> /\ sent = 0 /\ Len(got) = 0
    BY InitQueueInv DEF Init
  <2>2. Contents = Queue(0, 0)
    BY <2>1, TestFacts
  <2>3. Queue(0, 0) \in Seq(Nat) /\ Len(Queue(0, 0)) = 0
    BY QueueLen
  <2>4. Contents = <<>>
    BY <2>2, <2>3
  <2> QED BY <2>1, <2>4 DEF Fifo!FifoInit
<1> QED BY <1>1, <1>2, <1>3, <1>4, PTL DEF PipeSpec, ImplementsFifo, Fifo!FifoSpec

-----------------------------------------------------------------------------
(* _pipe_is_closed.                                                          *)

\* What an undisturbed check has read so far is still so.
CountInv ==
    \A p \in Proc : ~pr[p].stale =>
        /\ pr[p].pc \in {"piperef", "after"} => pr[p].fdref = pageref_fd(fdpage[p][pr[p].fd])
        /\ pr[p].pc = "after" => pr[p].piperef = pageref_pipe

\* A step disturbs the checks of all others.
LEMMA StepMarks ==
    ASSUME ProcInv, NEW p \in Proc, NEW k, Step(p, k), NEW q \in Proc \ {p}
    PROVE  pr'[q].pc = pr[q].pc /\ (pr[q].pc \in Window => pr'[q].stale)
<1>1. PICK h \in Doing : h = pr[q]
  BY ProcFacts
<1>2. PICK b \in BOOLEAN : b = (h.stale \/ h.pc \in Window)
  OBVIOUS
<1>3. pr'[q] = [h EXCEPT !.stale = b]
  <2>1. pr'[q] = [h EXCEPT !.stale = h.stale \/ h.pc \in Window]
    BY <1>1 DEF Step
  <2> QED BY <1>2, <2>1
<1>4. pr'[q].pc = h.pc /\ pr'[q].stale = b
  BY <1>3 DEF Doing
<1> QED BY <1>1, <1>2, <1>4

\* The step of a process that has not yet read a count.
LEMMA UncountedStep ==
    ASSUME ProcInv, NEW p \in Proc, NEW k, Step(p, k), k.pc \notin {"piperef", "after"}
    PROVE  CountInv'
<1>1. pr'[p] = k
  BY DEF Step
<1>2. ASSUME NEW q \in Proc PROVE pr'[q].pc \in {"piperef", "after"} => pr'[q].stale
  <2>1. CASE q = p
    BY <1>1, <2>1
  <2>2. CASE q # p
    BY <2>2, StepMarks DEF Window
  <2> QED BY <2>1, <2>2
<1> QED BY <1>2 DEF CountInv

\* A step outside the two reads of the counts leaves no count to answer for.
LEMMA GotoCount ==
    ASSUME ProcInv, NEW p \in Proc, NEW pc \in Pc, Goto(p, pc), pc \notin {"piperef", "after"}
    PROVE  CountInv'
<1>1. PICK k \in Doing : k = pr[p]
  BY ProcFacts
<1> DEFINE h == [k EXCEPT !.pc = pc]
<1>2. h.pc = pc
  BY GotoRecord
<1>3. Step(p, h)
  BY <1>1 DEF Goto
<1> HIDE DEF h
<1> QED BY <1>2, <1>3, UncountedStep

\* A call that returns leaves no count to answer for.
LEMMA ReturnCount == ASSUME ProcInv, NEW p \in Proc, Returns(p) PROVE CountInv'
<1>1. Step(p, Idle) /\ Idle.pc \notin {"piperef", "after"}
  BY IdleRecord DEF Returns
<1> QED BY <1>1, UncountedStep

\* The first count is exact when it is read.
LEMMA FdRefCount == ASSUME ProcInv, NEW p \in Proc, read_fd_ref(p) PROVE CountInv'
<1>1. PICK k \in Doing : k = pr[p]
  BY ProcFacts
<1>2. PICK a \in Nat : a = pageref_fd(fdpage[p][pr[p].fd])
  BY CountsAreNumbers
<1> DEFINE h == [k EXCEPT !.pc = "piperef", !.fdref = a]
<1>3. h.pc = "piperef" /\ h.fdref = a /\ h.fd = k.fd
  BY DEF Doing
<1>4. Step(p, h) /\ fdpage' = fdpage
  BY <1>1, <1>2 DEF read_fd_ref, pages
<1> HIDE DEF h
<1>5. pr'[p] = h
  BY <1>4 DEF Step
<1>6. pageref_fd(fdpage[p][k.fd])' = a
  BY <1>1, <1>2, <1>4 DEF pageref_fd
<1>7. \A q \in Proc \ {p} : pr'[q].pc \in {"piperef", "after"} => pr'[q].stale
  BY <1>4, StepMarks DEF Window
<1> QED BY <1>3, <1>4, <1>5, <1>6, <1>7 DEF CountInv

\* The second count is exact, and the first still is unless a step came between them.
LEMMA PipeRefCount ==
    ASSUME ProcInv, CountInv, NEW p \in Proc, read_pipe_ref(p)
    PROVE  CountInv'
<1>1. PICK k \in Doing : k = pr[p]
  BY ProcFacts
<1>2. PICK a \in Nat : a = pageref_pipe
  BY CountsAreNumbers
<1> DEFINE h == [k EXCEPT !.pc = "after", !.piperef = a]
<1>3. h.pc = "after" /\ h.piperef = a /\ h.fd = k.fd /\ h.fdref = k.fdref /\ h.stale = k.stale
  BY DEF Doing
<1>4. Step(p, h) /\ fdpage' = fdpage /\ data' = data /\ k.pc = "piperef"
  BY <1>1, <1>2 DEF read_pipe_ref, pages, At
<1> HIDE DEF h
<1>5. pr'[p] = h
  BY <1>4 DEF Step
<1>6. ~k.stale => k.fdref = pageref_fd(fdpage[p][k.fd])
  BY <1>1, <1>4 DEF CountInv
<1>7. pageref_fd(fdpage[p][k.fd])' = pageref_fd(fdpage[p][k.fd]) /\ pageref_pipe' = a
  BY <1>2, <1>4 DEF pageref_fd, pageref_pipe
<1>8. \A q \in Proc \ {p} : pr'[q].pc \in {"piperef", "after"} => pr'[q].stale
  BY <1>4, StepMarks DEF Window
<1> QED BY <1>3, <1>4, <1>5, <1>6, <1>7, <1>8 DEF CountInv

\* The decision ends the check or repeats it.
LEMMA DecideCount == ASSUME ProcInv, NEW p \in Proc, decide(p) PROVE CountInv'
<1>1. PICK k \in Doing : k = pr[p]
  BY ProcFacts
<1>2. CASE Goto(p, "fdref")
  BY <1>2, GotoCount DEF Pc, Window
<1>3. CASE Returns(p)
  BY <1>3, ReturnCount
<1>4. CASE ~Goto(p, "fdref") /\ ~Returns(p)
  <2>1. PICK pc \in {"read_empty", "write_full"} :
           pc = IF fdpage[p][k.fd] = "r" THEN "read_empty" ELSE "write_full"
    OBVIOUS
  <2> DEFINE h == [k EXCEPT !.pc = pc, !.fdref = 0, !.piperef = 0]
  <2>2. Step(p, h)
    BY <1>1, <1>4, <2>1 DEF decide
  <2>3. h.pc = pc
    BY DEF Doing
  <2> HIDE DEF h
  <2> QED BY <2>2, <2>3, UncountedStep
<1> QED BY <1>2, <1>3, <1>4

\* A preemption changes no count.
LEMMA TickCount == ASSUME ProcInv, CountInv, NEW p \in Proc, Tick(p) PROVE CountInv'
<1>1. pr' = [pr EXCEPT ![p] = [pr[p] EXCEPT !.stale = TRUE]] /\ fdpage' = fdpage /\ data' = data
  BY DEF Tick, pages
<1>2. pr'[p].stale
  BY <1>1, ProcFacts DEF ProcInv, Doing
<1>3. \A q \in Proc \ {p} : pr'[q] = pr[q]
  BY <1>1 DEF ProcInv
<1>4. (\A kind : pageref_fd(kind)' = pageref_fd(kind)) /\ pageref_pipe' = pageref_pipe
  BY <1>1 DEF pageref_fd, pageref_pipe
<1> QED BY <1>1, <1>2, <1>3, <1>4 DEF CountInv

\* One step per action: counts that are not marked stale are the present ones.
LEMMA NextCountInv == ASSUME ProcInv, CountInv, [Next]_vars PROVE CountInv'
<1>1. CASE UNCHANGED vars
  BY <1>1 DEF vars, CountInv, pageref_fd, pageref_pipe
<1>a. ASSUME NEW p \in Proc, NEW pc \in Pc \ {"piperef", "after"}, Goto(p, pc) PROVE CountInv'
  BY <1>a, GotoCount
<1>b. \A pc \in Reading \cup Writing \cup Mapping \cup {"before", "fdref"} :
         pc \in Pc \ {"piperef", "after"}
  BY DEF Pc, Reading, Writing, Mapping, Window
<1>2. ASSUME NEW p \in Proc, GoesOn(p) PROVE CountInv'
  <2>1. CASE close_fd(p) \/ close_data(p) \/ dup_data(p) \/ dup_fd(p)
    BY <1>a, <1>b, <2>1, ReturnCount
       DEF close_fd, close_data, dup_data, dup_fd, AfterClose, Mapping
  <2>2. CASE read_test(p) \/ read_empty(p) \/ write_test(p) \/ write_full(p) \/ put(p) \/ read_runs(p)
    BY <1>a, <1>b, <2>2, ReturnCount
       DEF read_test, read_empty, write_test, write_full, put, read_runs, Reading, Writing
  <2>3. CASE take(p) \/ advance(p)
    <3>1. PICK pc \in {"read", "write"} : Step(p, [pr[p] EXCEPT !.pc = pc, !.i = @ + 1])
      BY <2>3 DEF take, advance
    <3>2. PICK k \in Doing : k = pr[p]
      BY ProcFacts
    <3> DEFINE h == [k EXCEPT !.pc = pc, !.i = @ + 1]
    <3>3. h.pc = pc
      <4>1. pc \in Pc
        BY DEF Pc, Reading, Writing
      <4> QED BY <4>1, ByteRecord
    <3>4. Step(p, h)
      BY <3>1, <3>2
    <3> HIDE DEF h
    <3> QED BY <3>3, <3>4, UncountedStep
  <2> QED BY <1>2, <2>1, <2>2, <2>3, FdRefCount, PipeRefCount, DecideCount DEF GoesOn
<1>3. ASSUME NEW p \in Proc, Calls(p) PROVE CountInv'
  <2>1. CASE Returns(p)
    BY <2>1, ReturnCount
  <2>2. ASSUME NEW i \in FdNo, NEW n, NEW pc \in {"read", "write"},
               Step(p, [Idle EXCEPT !.pc = pc, !.fd = i, !.n = n])
        PROVE  CountInv'
    <3> DEFINE h == [Idle EXCEPT !.pc = pc, !.fd = i, !.n = n]
    <3>1. h.pc = pc
      BY DEF Idle
    <3>2. Step(p, h)
      BY <2>2
    <3> HIDE DEF h
    <3> QED BY <3>1, <3>2, UncountedStep
  <2>3. ASSUME NEW i \in FdNo, NEW pc \in {"close_fd", "before"},
               Step(p, [Idle EXCEPT !.pc = pc, !.fd = i])
        PROVE  CountInv'
    <3> DEFINE h == [Idle EXCEPT !.pc = pc, !.fd = i]
    <3>1. h.pc = pc
      BY DEF Idle
    <3>2. Step(p, h)
      BY <2>3
    <3> HIDE DEF h
    <3> QED BY <3>1, <3>2, UncountedStep
  <2>4. ASSUME NEW i \in FdNo, NEW j \in FdNo, NEW pc \in {"close_fd", "dup_data"},
               Step(p, [Idle EXCEPT !.pc = pc, !.fd = j, !.from = i])
        PROVE  CountInv'
    <3> DEFINE h == [Idle EXCEPT !.pc = pc, !.fd = j, !.from = i]
    <3>1. h.pc = pc
      BY DEF Idle
    <3>2. Step(p, h)
      BY <2>4
    <3> HIDE DEF h
    <3> QED BY <3>1, <3>2, UncountedStep
  <2>5. ASSUME NEW i \in FdNo, NEW n, read(p, i, n) \/ write(p, i, n) PROVE CountInv'
    <3>1. CASE read(p, i, n)
      BY <2>2, <3>1 DEF read, Start
    <3>2. CASE write(p, i, n)
      BY <2>2, <3>2 DEF write, Start
    <3> QED BY <2>5, <3>1, <3>2
  <2>6. ASSUME NEW i \in FdNo, close(p, i) \/ pipe_is_closed(p, i) PROVE CountInv'
    BY <2>3, <2>6 DEF close, pipe_is_closed
  <2>7. ASSUME NEW i \in FdNo, NEW j \in FdNo, dup(p, i, j) PROVE CountInv'
    <3>1. PICK pc \in {"close_fd", "dup_data"} : Step(p, [Idle EXCEPT !.pc = pc, !.fd = j, !.from = i])
      BY <2>7 DEF dup
    <3> QED BY <2>4, <3>1
  <2>8. ASSUME pipe_(p) \/ opencons(p) \/ exit(p) \/ \E q \in Proc : fork(p, q) PROVE CountInv'
    BY <2>1, <2>8 DEF pipe_, opencons, exit, fork
  <2> QED BY <1>3, <2>5, <2>6, <2>7, <2>8 DEF Calls
<1> QED BY <1>1, <1>2, <1>3, TickCount DEF Next

\* Whoever has an end open has the pipe's page; so if the page is mapped as often as
\* one end, all those that have it have that end.
LEMMA CountsTell == ASSUME ProcInv, CountInv PROVE ClosedIsTruthful
<1> SUFFICES ASSUME NEW p \in Proc, pr[p].pc = "after", ~pr[p].stale, ClosedFor(pr[p]),
                    NEW q \in Proc, NEW i \in FdNo
             PROVE  fdpage[q][i] \in {"none", "c", fdpage[p][pr[p].fd]}
  BY DEF ClosedIsTruthful
<1>1. PICK kind \in Ends : kind = fdpage[p][pr[p].fd]
  BY ProcFacts DEF LocalOK, Window
<1> DEFINE A == {x \in Proc \X FdNo : fdpage[x[1]][x[2]] = kind}
           B == {x \in Proc \X FdNo : data[x[1]][x[2]]}
<1>2. Cardinality(A) = Cardinality(B)
  BY <1>1 DEF CountInv, ClosedFor, pageref_fd, pageref_pipe
<1>3. A \subseteq B
  <2> SUFFICES ASSUME NEW x \in Proc \X FdNo, fdpage[x[1]][x[2]] = kind PROVE data[x[1]][x[2]]
    OBVIOUS
  <2>1. x[1] \in Proc /\ x[2] \in FdNo
    OBVIOUS
  <2> QED BY <2>1, ProcFacts
<1>4. B \subseteq Proc \X FdNo
  OBVIOUS
<1>5. fdpage[q][i] \in Ends => <<q, i>> \in B
  BY ProcFacts
<1>6. <<q, i>> \in A => fdpage[q][i] = kind
  OBVIOUS
<1> HIDE DEF A, B
<1>7. A = B
  BY <1>2, <1>3, <1>4, CountsAreNumbers, FS_Subset
<1>8. fdpage[q][i] \in {"none", "r", "w", "c"}
  BY ProcFacts DEF FdPages
<1> QED BY <1>1, <1>5, <1>6, <1>7, <1>8 DEF Ends

\* The pipe's positions, buffer and history have their types, also when several
\* processes use one end.
PipeShape ==
    /\ pipe \in [rpos : 0 .. PosMod - 1, wpos : 0 .. PosMod - 1,
                 buf : [0 .. PIPE_SIZE - 1 -> Nat], made : BOOLEAN]
    /\ sent \in Nat /\ got \in Seq(Nat)

\* Only pipe, take, put and advance touch the pipe.
LEMMA PipeTouched ==
    ASSUME [Next]_vars, \A p \in Proc : ~pipe_(p) /\ ~take(p) /\ ~put(p) /\ ~advance(p)
    PROVE  UNCHANGED pipestate
<1>1. ASSUME NEW p \in Proc, GoesOn(p) PROVE UNCHANGED pipestate
  BY <1>1 DEF GoesOn, close_fd, close_data, dup_data, dup_fd, read_test, read_empty,
              write_test, write_full, read_runs, read_fd_ref, read_pipe_ref, decide
<1>2. ASSUME NEW p \in Proc, Calls(p) PROVE UNCHANGED pipestate
  BY <1>2 DEF Calls, opencons, exit, fork, close, pipe_is_closed, dup, read, write, Start
<1>3. ASSUME NEW p \in Proc, Tick(p) PROVE UNCHANGED pipestate
  BY <1>3 DEF Tick
<1>4. CASE UNCHANGED vars
  BY <1>4 DEF vars, pipestate
<1> QED BY <1>1, <1>2, <1>3, <1>4 DEF Next

\* One step per action that touches the pipe: the types stay.
LEMMA NextPipeShape == ASSUME PipeShape, [Next]_vars PROVE PipeShape'
<1>1. \A a \in Nat : Used(a + 1) \in 0 .. PosMod - 1 /\ a % PIPE_SIZE \in 0 .. PIPE_SIZE - 1
  BY Sizes DEF Used
<1>2. pipe.rpos \in Nat /\ pipe.wpos \in Nat
  BY DEF PipeShape
<1>3. ASSUME NEW p \in Proc, pipe_(p) PROVE PipeShape'
  BY <1>3 DEF PipeShape, pipe_
<1>4. ASSUME NEW p \in Proc, take(p) PROVE PipeShape'
  <2>1. pipe.buf[pipe.rpos % PIPE_SIZE] \in Nat
    BY <1>1, <1>2 DEF PipeShape
  <2>2. PICK r \in 0 .. PosMod - 1 : r = Used(pipe.rpos + 1)
    BY <1>1, <1>2
  <2>3. pipe' = [pipe EXCEPT !.rpos = r] /\ sent' = sent
    BY <1>4, <2>2 DEF take
  <2>4. got' = Append(got, pipe.buf[pipe.rpos % PIPE_SIZE])
    BY <1>4 DEF take
  <2>5. got' \in Seq(Nat)
    BY <2>1, <2>4 DEF PipeShape
  <2> QED BY <2>3, <2>5 DEF PipeShape
<1>5. ASSUME NEW p \in Proc, put(p) PROVE PipeShape'
  <2>1. PICK w \in 0 .. PIPE_SIZE - 1 : w = pipe.wpos % PIPE_SIZE
    BY <1>1, <1>2
  <2>2. /\ pipe' = [pipe EXCEPT !.buf = [pipe.buf EXCEPT ![w] = sent + 1]]
        /\ sent' = sent /\ got' = got
    BY <1>5, <2>1 DEF put, PipeShape
  <2>3. PICK b \in [0 .. PIPE_SIZE - 1 -> Nat] : b = [pipe.buf EXCEPT ![w] = sent + 1]
    <3>1. PICK v \in Nat : v = sent + 1
      BY DEF PipeShape
    <3>2. PICK c \in [0 .. PIPE_SIZE - 1 -> Nat] : c = pipe.buf
      BY DEF PipeShape
    <3>3. [c EXCEPT ![w] = v] \in [0 .. PIPE_SIZE - 1 -> Nat]
      OBVIOUS
    <3> QED BY <3>1, <3>2, <3>3
  <2>4. pipe' = [pipe EXCEPT !.buf = b]
    BY <2>2, <2>3
  <2> QED BY <2>2, <2>4 DEF PipeShape
<1>6. ASSUME NEW p \in Proc, advance(p) PROVE PipeShape'
  <2>1. PICK w \in 0 .. PosMod - 1 : w = Used(pipe.wpos + 1)
    BY <1>1, <1>2
  <2>2. pipe' = [pipe EXCEPT !.wpos = w] /\ sent' = sent + 1 /\ got' = got
    BY <1>6, <2>1 DEF advance
  <2> QED BY <2>2 DEF PipeShape
<1>7. CASE \A p \in Proc : ~pipe_(p) /\ ~take(p) /\ ~put(p) /\ ~advance(p)
  BY <1>7, PipeTouched DEF PipeShape, pipestate
<1> QED BY <1>3, <1>4, <1>5, <1>6, <1>7

\* The type invariant follows.
LEMMA TypesHold == ASSUME ProcInv, PipeShape PROVE PipeTypeOK
<1>1. \A p \in Proc : pr[p].fd \in FdNo /\ pr[p].from \in FdNo \cup {-1}
  BY ProcFacts
<1> QED BY <1>1 DEF PipeTypeOK, ProcInv, FdPages, DataPages, PipeShape

\* The descriptors and the pipe keep their types, and when _pipe_is_closed says
\* closed nobody has the other end open, for any number of processes in the middle
\* of closing, duplicating or exiting, also when several use one end (pipe.c:129,
\* 308, fd.c:201).
THEOREM PipeSoundCorrect == PipeSpec => []PipeSound
<1>1. Init => ProcInv /\ PipeShape /\ CountInv
  <2>1. Init => PipeShape
    BY Sizes DEF Init, PipeShape
  <2> QED BY <2>1, InitProcInv, IdleRecord DEF Init, CountInv
<1>2. ProcInv /\ PipeShape /\ CountInv /\ [Next]_vars => (ProcInv /\ PipeShape /\ CountInv)'
  BY NextProcInv, NextPipeShape, NextCountInv
<1>3. ProcInv /\ PipeShape /\ CountInv => PipeSound
  BY TypesHold, CountsTell DEF PipeSound
<1> QED BY <1>1, <1>2, <1>3, PTL DEF PipeSpec
=============================================================================
