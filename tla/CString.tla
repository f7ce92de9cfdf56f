------------------------------ MODULE CString ------------------------------
(***************************************************************************)
(* lib/string.c: memcpy and memset, which move the widest words that the   *)
(* alignment allows, and the string functions.                             *)
(*                                                                         *)
(* A job is one call.  memcpy and memset are described by the stores they  *)
(* do: [at, size], at counted from the first byte of the destination.      *)
(* The two memcpy buffers are far apart (restrict); a string is a sequence *)
(* of characters 1, 2, ...; the NUL is 0 and follows it.                   *)
(***************************************************************************)
EXTENDS Integers, Sequences, SequencesExt, FiniteSetsExt

CONSTANTS
    Jobs         \* calls: [op, d, s, n], [op, d, n], [op, p, q]

\* Addresses and lengths are unsigned; a string ends at its first NUL.
ASSUME CStringAssumption == \A j \in Jobs :
    \/ j.op = "memcpy" /\ j.d \in Nat /\ j.s \in Nat /\ j.n \in Nat
    \/ j.op = "memset" /\ j.d \in Nat /\ j.n \in Nat
    \/ j.op = "string" /\ j.p \in Seq(Nat \ {0}) /\ j.q \in Seq(Nat \ {0})

VARIABLES
    job,         \* the call
    pos, togo,   \* memcpy, memset: bytes done and bytes left
    stores,      \* the stores done
    width,       \* memcpy: the width it tries now: 8, 4, 2, 1; 0 when it has returned
    result       \* what a string function returned

stringVars == <<job, pos, togo, stores, width, result>>

StringInit(jobs) ==
    /\ job \in jobs
    /\ pos = 0 /\ stores = <<>> /\ result = <<>>
    /\ togo = IF job.op = "string" THEN 0 ELSE job.n
    /\ width = 8

\* Store count words of w bytes from position from.
Words(from, w, count) == [i \in 1 .. count |-> [at |-> from + (i - 1) * w, size |-> w]]

\* A bug: the wide loop does one round too many.
Rounds_TooMany(rest_, w) == (rest_ + w - 1) \div w

\* Rounds of the loop for words of w bytes.
Rounds(rest_, w) == rest_ \div w

\* Bytes up to the next multiple of w, at most what is left.
ToBoundary(addr, w, rest_) == Min({(w - (addr % w)) % w, rest_})

\* memcpy at one width: when the two addresses agree modulo the width (and,
\* below eight, a word is left) bytes up to the boundary, then words.
memcpy ==
    /\ job.op = "memcpy" /\ width > 0
    /\ LET s == job.s + pos
           tries == (s % width) = ((job.d + pos) % width) /\ (width \in {1, 8} \/ togo >= width)
           head == IF tries THEN ToBoundary(s, width, togo) ELSE 0
           words == IF tries THEN Rounds(togo - head, width) ELSE 0
       IN  /\ stores' = stores \o Words(pos, 1, head) \o Words(pos + head, width, words)
           /\ pos' = pos + head + width * words
           /\ togo' = togo - head - width * words
    /\ width' = width \div 2
    /\ UNCHANGED <<job, result>>

\* memset: bytes up to a boundary of eight, words, the rest.
memset ==
    /\ job.op = "memset" /\ width = 8
    /\ LET head == ToBoundary(job.d, 8, togo)
           words == Rounds(togo - head, 8)
           rest == togo - head - 8 * words
       IN  stores' = Words(0, 1, head) \o Words(head, 8, words) \o Words(head + 8 * words, 1, rest)
    /\ pos' = togo /\ togo' = 0 /\ width' = 0
    /\ UNCHANGED <<job, result>>

Char(s, i) == IF i > Len(s) THEN 0 ELSE s[i]

strlen(s) == Min({i \in 0 .. Len(s) : Char(s, i + 1) = 0})

\* The bytes strcpy stores: the string and its NUL.
strcpy(s) == [i \in 1 .. strlen(s) + 1 |-> Char(s, i)]

\* The index of c, 0 if it is not there.
strchr(s, c) == LET at == {i \in 1 .. strlen(s) : s[i] = c} IN IF at = {} THEN 0 ELSE Min(at)

\* The loop ends at the first difference or at the end of p.
strcmp(p, q) ==
    LET i == Min({k \in 1 .. Len(p) + 1 : Char(p, k) = 0 \/ Char(p, k) # Char(q, k)})
    IN  IF Char(p, i) < Char(q, i) THEN -1 ELSE IF Char(p, i) > Char(q, i) THEN 1 ELSE 0

string ==
    /\ job.op = "string" /\ width > 0
    /\ result' = [len |-> strlen(job.p), copy |-> strcpy(job.p),
                  at |-> strchr(job.p, 1), cmp |-> strcmp(job.p, job.q)]
    /\ width' = 0
    /\ UNCHANGED <<job, pos, togo, stores>>

StringNext == memcpy \/ memset \/ string

----------------------------------------------------------------------------
(* Properties *)

\* The reference for strcmp: the first string is smaller when it is a proper
\* prefix or smaller at the first difference.
Smaller(p, q) ==
    \/ IsStrictPrefix(p, q)
    \/ \E i \in DOMAIN p \cap DOMAIN q :
          SubSeq(p, 1, i - 1) = SubSeq(q, 1, i - 1) /\ p[i] < q[i]

\* memcpy and memset store every byte of the destination exactly once and
\* none outside it, with every word aligned at both ends, for all alignments
\* and lengths; the string functions agree with their definitions.
StringsExact ==
    width = 0 =>
        /\ job.op # "string" =>
             /\ \A b \in 0 .. job.n - 1 :
                   Cardinality({i \in DOMAIN stores :
                       b \in stores[i].at .. stores[i].at + stores[i].size - 1}) = 1
             /\ \A i \in DOMAIN stores :
                   /\ stores[i].at + stores[i].size <= job.n
                   /\ (job.d + stores[i].at) % stores[i].size = 0
                   /\ job.op = "memcpy" => (job.s + stores[i].at) % stores[i].size = 0
        /\ job.op = "string" =>
             /\ result.len = Len(job.p)
             /\ result.copy = job.p \o <<0>>
             /\ (result.at > 0) = (1 \in ToSet(job.p))
             /\ result.cmp = IF Smaller(job.p, job.q) THEN -1
                             ELSE IF Smaller(job.q, job.p) THEN 1 ELSE 0
============================================================================
