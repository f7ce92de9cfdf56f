------------------------------ MODULE FsProofs ------------------------------
(***************************************************************************)
(* The file-system server, for any number of clients, names, blocks and    *)
(* entries and however often the machine stops.                            *)
(*                                                                         *)
(* First the table of open files: an entry is held by one client.  Then    *)
(* the blocks, for files that the direct pointers of an entry reach: what  *)
(* each operation of fs.c does to the server's memory and which writes it  *)
(* leaves to do (Contract), how the disk stands to the memory while they   *)
(* are done one by one (Follows), and from both that the server never      *)
(* stops and that a block is in use once, in memory and on the disk.  Last *)
(* what a successful close promises (DurableInv): that it is on the disk.  *)
(***************************************************************************)
EXTENDS Fs, WellFoundedInduction, FiniteSetTheorems, SequenceTheorems, TLAPS

-----------------------------------------------------------------------------
(* The clients' side of a request.                                          *)

Fields == {"pc", "fd", "fileid", "f_size", "pages", "name", "mode", "i", "to", "val"}

Pcs == {"idle", "open", "map", "set_size", "rollback", "dirty", "close", "remove", "sync"}

ClientOK(k) == DOMAIN k = Fields /\ k.pc \in Pcs /\ k.fd \in BOOLEAN

\* j is k with the same descriptor.
SameFd(j, k) == ClientOK(j) /\ (j.fd <=> k.fd) /\ j.fileid = k.fileid

\* The end of a call keeps the descriptor.
LEMMA IdleSame == ASSUME NEW k, ClientOK(k) PROVE SameFd(Idle(k), k)
BY DEF Idle, SameFd, ClientOK, Fields, Pcs

\* So does a loop of MAP requests.
LEMMA MapFromSame ==
    ASSUME NEW k, ClientOK(k), NEW i, NEW to PROVE SameFd(MapFrom(k, i, to), k)
BY IdleSame DEF MapFrom, SameFd, ClientOK, Fields, Pcs

\* An answer to a client leaves its descriptor, drops it, or is the answer to
\* an open.
LEMMA GoesOnFd ==
    ASSUME NEW k, ClientOK(k), k.pc # "idle", NEW r, NEW j, j = GoesOn(k, r)
    PROVE  /\ ClientOK(j)
           /\ \/ SameFd(j, k)
              \/ ~j.fd
              \/ k.pc = "open" /\ ~(r < 0) /\ j.fd /\ j.fileid = r
<1>1. CASE k.pc = "open"
  <2>1. j = OpenGoesOn(k, r)
    BY <1>1 DEF GoesOn
  <2>2. CASE r < 0
    <3>1. j = Idle(k)
      BY <2>1, <2>2 DEF OpenGoesOn
    <3> QED BY <3>1, IdleSame DEF SameFd
  <2>3. CASE ~(r < 0)
    <3>1. PICK size : size = mem.dir[opentab[r].file].size
      OBVIOUS
    <3>2. PICK h : h = [k EXCEPT !.fd = TRUE, !.fileid = r, !.f_size = size]
      OBVIOUS
    <3>3. j = MapFrom(h, 0, size)
      BY <2>1, <2>3, <3>1, <3>2 DEF OpenGoesOn
    <3>4. ClientOK(h) /\ h.fd /\ h.fileid = r
      BY <3>2 DEF ClientOK, Fields, Pcs
    <3>5. SameFd(j, h)
      BY <3>3, <3>4, MapFromSame
    <3> QED BY <3>4, <3>5, <1>1, <2>3 DEF SameFd
  <2> QED BY <2>2, <2>3
<1>2. CASE k.pc = "map"
  <2>1. j = MapGoesOn(k, r)
    BY <1>2 DEF GoesOn
  <2>2. PICK h : h = [k EXCEPT !.pages[k.i] = r]
    OBVIOUS
  <2>3. SameFd(h, k)
    BY <2>2 DEF SameFd, ClientOK, Fields, Pcs
  <2>4. CASE r >= 0
    <3>1. j = MapFrom(h, k.i + 1, k.to)
      BY <2>1, <2>2, <2>4 DEF MapGoesOn
    <3>2. SameFd(j, h)
      BY <3>1, <2>3, MapFromSame DEF SameFd
    <3> QED BY <3>2, <2>3 DEF SameFd
  <2>5. CASE ~(r >= 0) /\ k.mode = {"ftruncate"}
    <3>1. j = [k EXCEPT !.pc = "rollback", !.to = k.val]
      BY <2>1, <2>5 DEF MapGoesOn
    <3> QED BY <3>1 DEF SameFd, ClientOK, Fields, Pcs
  <2>6. CASE ~(r >= 0) /\ k.mode # {"ftruncate"}
    <3>1. j = Idle(k)
      BY <2>1, <2>6 DEF MapGoesOn
    <3> QED BY <3>1, IdleSame DEF SameFd
  <2> QED BY <2>4, <2>5, <2>6
<1>3. CASE k.pc = "set_size"
  <2>1. j = SetSizeGoesOn(k, r)
    BY <1>3 DEF GoesOn
  <2>2. PICK h : h = [k EXCEPT !.pages = [n \in FileBno |-> IF n \in k.to .. k.val - 1 THEN 0 ELSE @[n]]]
    OBVIOUS
  <2>3. SameFd(h, k)
    BY <2>2 DEF SameFd, ClientOK, Fields, Pcs
  <2>4. CASE r < 0
    <3>1. j = Idle(k)
      BY <2>1, <2>4 DEF SetSizeGoesOn
    <3> QED BY <3>1, IdleSame DEF SameFd
  <2>5. CASE ~(r < 0)
    <3>1. j = MapFrom(h, k.val, k.to)
      BY <2>1, <2>2, <2>5 DEF SetSizeGoesOn
    <3>2. SameFd(j, h)
      BY <3>1, <2>3, MapFromSame DEF SameFd
    <3> QED BY <3>2, <2>3 DEF SameFd
  <2> QED BY <2>4, <2>5
<1>4. ASSUME NEW h, ClientOK(h) PROVE ClientOK(fd_close(h)) /\ ~fd_close(h).fd
  <2>1. PICK g : g = Idle(h)
    OBVIOUS
  <2>2. ClientOK(g)
    BY <1>4, <2>1, IdleSame DEF SameFd
  <2>3. fd_close(h) = [g EXCEPT !.fd = FALSE, !.fileid = 0, !.f_size = 0]
    BY <2>1 DEF fd_close
  <2> QED BY <2>2, <2>3 DEF ClientOK, Fields, Pcs
<1>5. CASE k.pc = "dirty"
  <2>1. j = DirtyGoesOn(k, r)
    BY <1>5 DEF GoesOn
  <2>2. CASE r < 0
    BY <2>1, <2>2, <1>4 DEF DirtyGoesOn
  <2>3. CASE ~(r < 0)
    <3>1. j = [k EXCEPT !.pc = "dirty", !.i = k.i + 1] \/ j = [k EXCEPT !.pc = "close"]
      BY <2>1, <2>3 DEF DirtyGoesOn, DirtyFrom, fsipc_dirty, fsipc_close
    <3> QED BY <3>1 DEF SameFd, ClientOK, Fields, Pcs
  <2> QED BY <2>2, <2>3
<1>6. CASE k.pc = "close"
  <2>1. j = CloseGoesOn(k, r)
    BY <1>6 DEF GoesOn
  <2>2. CASE r < 0
    BY <2>1, <2>2, <1>4 DEF CloseGoesOn
  <2>3. CASE ~(r < 0)
    <3>1. PICK h : h = [k EXCEPT !.pages = [n \in FileBno |-> IF n < k.f_size THEN 0 ELSE @[n]]]
      OBVIOUS
    <3>2. ClientOK(h)
      BY <3>1 DEF ClientOK, Fields, Pcs
    <3>3. j = fd_close(h)
      BY <2>1, <2>3, <3>1 DEF CloseGoesOn
    <3> QED BY <3>2, <3>3, <1>4
  <2> QED BY <2>2, <2>3
<1>7. CASE k.pc \in {"rollback", "remove", "sync"}
  <2>1. j = Idle(k)
    BY <1>7 DEF GoesOn
  <2> QED BY <2>1, IdleSame DEF SameFd
<1> QED BY <1>1, <1>2, <1>3, <1>5, <1>6, <1>7 DEF ClientOK, Pcs

-----------------------------------------------------------------------------
(* The table of open files.                                                 *)

\* < is well-founded on the natural numbers.
LEMMA LessIsWellFounded ==
    IsWellFoundedOn({p \in Nat \X Nat : p[1] < p[2]}, Nat)
BY NatLessThanWellFounded DEF OpToRel

\* A set of natural numbers has a least element.
LEMMA LeastNat ==
    ASSUME NEW T, T \subseteq Nat, T # {}
    PROVE  \E n \in T : \A m \in T : n <= m
<1>1. PICK R : R = {p \in Nat \X Nat : p[1] < p[2]}
  OBVIOUS
<1>2. IsWellFoundedOn(R, Nat)
  BY <1>1, LessIsWellFounded
<1>3. PICK x \in T : \A y \in T : ~(<<y, x>> \in R)
  BY <1>2, WFMin
<1>4. \A y \in T : ~(y < x)
  BY <1>1, <1>3
<1> QED BY <1>4

\* A table: a page is there or not, and an entry has a file.
Table(tab) ==
    /\ DOMAIN tab = OpenId
    /\ \A o \in OpenId : DOMAIN tab[o] = {"page", "file"} /\ tab[o].page \in BOOLEAN

\* A descriptor is a share of a page of the table.
HeldHasPage(k, tab) ==
    \A c \in Client : k[c].fd => k[c].fileid \in OpenId /\ tab[k[c].fileid].page

Holds(k, o) == {c \in Client : k[c].fd /\ k[c].fileid = o}

\* The page on its way to client c, the answer r to its open, is nobody's yet.
Pending(k, tab, r) == r \in OpenId /\ tab[r].page /\ Holds(k, r) = {}

SlotInv ==
    /\ DOMAIN cl = Client /\ \A c \in Client : ClientOK(cl[c])
    /\ DOMAIN srv = {"pc", "writes", "whom", "r", "promise"}
    /\ Table(opentab)
    /\ HeldHasPage(cl, opentab)
    /\ OpenSlotPrivate
    /\ \A c \in Client : srv.whom = c => cl[c].pc # "idle"
    /\ \A c \in Client : (srv.whom = c /\ cl[c].pc = "open" /\ ~(srv.r < 0)) => Pending(cl, opentab, srv.r)

\* Nobody holds an entry that open_alloc offers: the count of its page's users
\* leaves none, or the page is not there.
LEMMA OfferedIsFree ==
    ASSUME SlotInv, NEW o \in open_alloc
    PROVE  o \in OpenId /\ Holds(cl, o) = {}
<1>1. o \in OpenId /\ pageref(o) <= 1
  BY DEF open_alloc
<1>2. SUFFICES ASSUME NEW c \in Holds(cl, o) PROVE FALSE
  BY <1>1
<1>3. c \in Client /\ cl[c].fd /\ cl[c].fileid = o
  BY <1>2 DEF Holds
<1>4. opentab[o].page
  BY <1>3 DEF SlotInv, HeldHasPage
<1>5. pageref(o) = 1 + Cardinality(Holds(cl, o))
  BY <1>4 DEF pageref, Holds
<1>6. IsFiniteSet(Holds(cl, o))
  <2>1. Holds(cl, o) \subseteq Client /\ IsFiniteSet(Client)
    BY FsAssumption DEF Holds
  <2> QED BY <2>1, FS_Subset
<1>7. PICK n : n = Cardinality(Holds(cl, o))
  OBVIOUS
<1>8. n \in Nat /\ n # 0
  BY <1>2, <1>6, <1>7, FS_CardinalityType, FS_EmptySet
<1> QED BY <1>1, <1>5, <1>7, <1>8

\* The answer to an open takes an entry that nobody holds, whatever becomes of the
\* file; a good answer is that entry.
LEMMA OpenTakesFree ==
    ASSUME SlotInv, NEW c \in Client, NEW a, a = serve_open(c)
    PROVE  /\ Table(a.tab)
           /\ \A o \in OpenId : opentab[o].page => a.tab[o].page
           /\ ~(a.x.r < 0) => Pending(cl, a.tab, a.x.r)
<1>0. Table(opentab)
  BY DEF SlotInv
<1>1. CASE open_alloc = {}
  <2>1. a = Answer(Return(mem, E_MAX_OPEN), opentab)
    BY <1>1 DEF serve_open
  <2>2. a.tab = opentab /\ a.x.r = -9
    BY <2>1 DEF Answer, Return, Done, E_MAX_OPEN
  <2> QED BY <1>0, <2>2
<1>3. CASE a = Answer(Return(mem, E_NO_MEM), opentab)
  <2>2. a.tab = opentab /\ a.x.r = -4
    BY <1>3 DEF Answer, Return, Done, E_NO_MEM
  <2> QED BY <1>0, <2>2
<1>2. CASE open_alloc # {} /\ a # Answer(Return(mem, E_NO_MEM), opentab)
  <2>1. PICK o : o = CHOOSE p \in open_alloc : \A q \in open_alloc : p <= q
    OBVIOUS
  <2>2. o \in open_alloc
    <3>1. open_alloc \subseteq Nat
      BY FsAssumption DEF open_alloc, OpenId
    <3>2. \E p \in open_alloc : \A q \in open_alloc : p <= q
      BY <1>2, <3>1, LeastNat
    <3> QED BY <2>1, <3>2
  <2>3. o \in OpenId /\ Holds(cl, o) = {}
    BY <2>2, OfferedIsFree
  <2>4. PICK y : y = Opened(c)
    OBVIOUS
  <2>5. PICK e : e = [page |-> TRUE, file |-> IF Found(c).r >= 0 THEN Found(c).r ELSE opentab[o].file]
    OBVIOUS
  <2>6. a = Answer(IF y.r < 0 THEN y ELSE [Return(y.m, o) EXCEPT !.w = y.w \o @],
                   [opentab EXCEPT ![o] = e])
    BY <1>2, <2>1, <2>4, <2>5 DEF serve_open, Then
  <2>7. a.x.r < 0 \/ a.x.r = o
    BY <2>6 DEF Answer, Return, Done
  <2>8. Table(a.tab) /\ a.tab[o].page /\ \A p \in OpenId : opentab[p].page => a.tab[p].page
    <3>1. a.tab = [opentab EXCEPT ![o] = e]
      BY <2>6 DEF Answer
    <3>2. DOMAIN e = {"page", "file"} /\ e.page = TRUE
      BY <2>5
    <3>3. DOMAIN a.tab = OpenId /\ a.tab[o] = e /\ \A p \in OpenId : p # o => a.tab[p] = opentab[p]
      BY <1>0, <2>3, <3>1 DEF Table
    <3> QED BY <1>0, <2>3, <3>2, <3>3 DEF Table
  <2> QED BY <2>3, <2>7, <2>8 DEF Pending
<1> QED BY <1>1, <1>2, <1>3

\* Any other request leaves the table as it is.
LEMMA OthersKeepTable ==
    ASSUME NEW c \in Client, ClientOK(cl[c]), cl[c].pc \notin {"idle", "open"},
           NEW a, a = serve_table(c)
    PROVE  a.tab = opentab
<1>1. CASE cl[c].pc = "map"
  BY <1>1 DEF serve_table, serve_map, open_lookup, Answer
<1>2. CASE cl[c].pc \in {"set_size", "rollback"}
  BY <1>2 DEF serve_table, serve_set_size, open_lookup, Answer
<1>3. CASE cl[c].pc = "dirty"
  BY <1>3 DEF serve_table, serve_dirty, open_lookup, Answer
<1>4. CASE cl[c].pc = "close"
  BY <1>4 DEF serve_table, serve_close, open_lookup, Answer
<1>5. CASE cl[c].pc = "remove"
  BY <1>5 DEF serve_table, serve_remove, Answer
<1>6. CASE cl[c].pc = "sync"
  BY <1>6 DEF serve_table, serve_sync, Answer
<1> QED BY <1>1, <1>2, <1>3, <1>4, <1>5, <1>6 DEF ClientOK, Pcs

-----------------------------------------------------------------------------
(* The invariant is inductive.                                              *)

\* The invariant depends on the descriptors, the table and the answer under way.
LEMMA SlotInvKept ==
    ASSUME SlotInv, opentab' = opentab, DOMAIN cl' = Client,
           \A c \in Client : ClientOK(cl[c])',
           \A c \in Client : (cl[c].fd)' => cl[c].fd /\ (cl[c].fileid)' = cl[c].fileid,
           DOMAIN srv' = {"pc", "writes", "whom", "r", "promise"},
           \A c \in Client : (srv.whom)' = c =>
                srv.whom = c /\ (srv.r)' = srv.r /\ (cl[c].pc)' = cl[c].pc
    PROVE  SlotInv'
<1>1. HeldHasPage(cl, opentab)'
  BY DEF SlotInv, HeldHasPage
<1>2. OpenSlotPrivate'
  BY DEF SlotInv, OpenSlotPrivate
<1>3. \A c \in Client : (srv.whom)' = c => (cl[c].pc)' # "idle"
  BY DEF SlotInv
<1>4. ASSUME NEW c \in Client, (srv.whom = c /\ cl[c].pc = "open" /\ ~(srv.r < 0))'
      PROVE  Pending(cl, opentab, srv.r)'
  <2>1. Pending(cl, opentab, srv.r) /\ (srv.r)' = srv.r
    BY <1>4 DEF SlotInv
  <2>2. Holds(cl', srv.r) = {}
    BY <2>1 DEF Pending, Holds
  <2> QED BY <2>1, <2>2 DEF Pending
<1> QED BY <1>1, <1>2, <1>3, <1>4 DEF SlotInv, Table


\* A client's call takes no descriptor.
LEMMA CallKeeps ==
    ASSUME SlotInv, NEW c \in Client, NEW k, Call(c, k), SameFd(k, cl[c])
    PROVE  SlotInv'
<1>1. cl' = [cl EXCEPT ![c] = k] /\ cl[c].pc = "idle" /\ UNCHANGED <<srv, opentab>>
  BY DEF Call
<1>2. DOMAIN cl' = Client /\ cl'[c] = k /\ \A d \in Client : d # c => cl'[d] = cl[d]
  BY <1>1 DEF SlotInv
<1>3. \A d \in Client : ClientOK(cl'[d])
  BY <1>2 DEF SlotInv, SameFd
<1>4. \A d \in Client : cl'[d].fd => cl[d].fd /\ cl'[d].fileid = cl[d].fileid
  BY <1>2 DEF SlotInv, SameFd
<1>5. srv.whom # c
  BY <1>1 DEF SlotInv
<1> QED BY <1>1, <1>2, <1>3, <1>4, <1>5, SlotInvKept DEF SlotInv

\* A request is served.
LEMMA ServeKeeps ==
    ASSUME SlotInv, NEW c \in Client, serve(c)
    PROVE  SlotInv'
<1>1. PICK a : a = serve_table(c)
  OBVIOUS
<1>2. /\ srv.whom = NONE /\ cl[c].pc # "idle" /\ cl' = cl /\ opentab' = a.tab
      /\ \/ \E pc : srv' = Server(pc)
         \/ \E w, p : srv' = [srv EXCEPT !.writes = w, !.whom = c, !.r = a.x.r, !.promise = p]
  BY <1>1 DEF serve, Served
<1>3. ClientOK(cl[c]) /\ Table(opentab)
  BY DEF SlotInv
<1>4. /\ Table(a.tab)
      /\ \A o \in OpenId : opentab[o].page => a.tab[o].page
      /\ (cl[c].pc = "open" /\ ~(a.x.r < 0)) => Pending(cl, a.tab, a.x.r)
  <2>1. CASE cl[c].pc = "open"
    <3>1. a = serve_open(c)
      BY <1>1, <2>1 DEF serve_table
    <3> QED BY <3>1, OpenTakesFree
  <2>2. CASE cl[c].pc # "open"
    BY <1>1, <1>2, <1>3, <2>2, OthersKeepTable
  <2> QED BY <2>1, <2>2
<1>5. HeldHasPage(cl, a.tab)
  BY <1>4 DEF SlotInv, HeldHasPage
<1>6. CASE \E pc : srv' = Server(pc)
  <2>1. srv'.whom = NONE /\ NONE \notin Client /\ DOMAIN srv' = {"pc", "writes", "whom", "r", "promise"}
    BY <1>6, FsAssumption DEF Server
  <2> QED BY <2>1, <1>2, <1>4, <1>5 DEF SlotInv, OpenSlotPrivate
<1>7. ASSUME NEW w, NEW p, srv' = [srv EXCEPT !.writes = w, !.whom = c, !.r = a.x.r, !.promise = p]
      PROVE  SlotInv'
  <2>1. /\ srv'.whom = c /\ srv'.r = a.x.r
        /\ DOMAIN srv' = {"pc", "writes", "whom", "r", "promise"}
    BY <1>7 DEF SlotInv
  <2> QED BY <2>1, <1>2, <1>4, <1>5 DEF SlotInv, OpenSlotPrivate
<1> QED BY <1>2, <1>6, <1>7

\* The answer reaches the client.
LEMMA AnswerKeeps ==
    ASSUME SlotInv, NEW c \in Client, fsipc(c)
    PROVE  SlotInv'
<1>1. PICK k : k = cl[c]
  OBVIOUS
<1>2. PICK r : r = srv.r
  OBVIOUS
<1>3. PICK j : j = GoesOn(k, r)
  OBVIOUS
<1>4. srv.whom = c /\ srv' = Server("serve") /\ cl' = [cl EXCEPT ![c] = j] /\ opentab' = opentab
  BY <1>1, <1>2, <1>3 DEF fsipc
<1>5. ClientOK(k) /\ k.pc # "idle"
  BY <1>1, <1>4 DEF SlotInv
<1>6. /\ ClientOK(j)
      /\ \/ SameFd(j, k)
         \/ ~j.fd
         \/ k.pc = "open" /\ ~(r < 0) /\ j.fd /\ j.fileid = r
  BY <1>3, <1>5, GoesOnFd
<1>7. srv'.whom = NONE /\ NONE \notin Client /\ DOMAIN srv' = {"pc", "writes", "whom", "r", "promise"}
  BY <1>4, FsAssumption DEF Server
<1>8. DOMAIN cl' = Client /\ cl'[c] = j /\ \A d \in Client : d # c => cl'[d] = cl[d]
  BY <1>4 DEF SlotInv
<1>9. \A d \in Client : ClientOK(cl'[d])
  BY <1>6, <1>8 DEF SlotInv
<1>10. CASE SameFd(j, k) \/ ~j.fd
  <2>1. \A d \in Client : cl'[d].fd => cl[d].fd /\ cl'[d].fileid = cl[d].fileid
    BY <1>1, <1>8, <1>10 DEF SameFd
  <2> QED BY <1>4, <1>7, <1>8, <1>9, <2>1, SlotInvKept
<1>11. CASE k.pc = "open" /\ ~(r < 0) /\ j.fd /\ j.fileid = r
  <2>1. r \in OpenId /\ opentab[r].page /\ Holds(cl, r) = {}
    BY <1>1, <1>2, <1>4, <1>11 DEF SlotInv, Pending
  <2>2. \A d \in Client : cl[d].fd => cl[d].fileid # r
    BY <2>1 DEF Holds
  <2>3. HeldHasPage(cl', opentab)
    BY <1>8, <1>11, <2>1 DEF SlotInv, HeldHasPage
  <2>4. OpenSlotPrivate'
    BY <1>8, <1>11, <2>2 DEF SlotInv, OpenSlotPrivate
  <2> QED BY <1>4, <1>7, <1>8, <1>9, <2>3, <2>4 DEF SlotInv
<1> QED BY <1>6, <1>10, <1>11

\* A step of a client.
LEMMA ClientKeeps ==
    ASSUME SlotInv, NEW c \in Client, ClientCalls(c)
    PROVE  SlotInv'
<1>0. ClientOK(cl[c]) /\ DOMAIN cl = Client
  BY DEF SlotInv
<1>1. ASSUME NEW name, NEW mode, open(c, name, mode) PROVE SlotInv'
  <2>1. PICK k : k = [cl[c] EXCEPT !.pc = "open", !.name = name, !.mode = mode]
    OBVIOUS
  <2>2. SameFd(k, cl[c])
    BY <1>0, <2>1 DEF SameFd, ClientOK, Fields, Pcs
  <2> QED BY <1>1, <2>1, <2>2, CallKeeps DEF open
<1>2. ASSUME NEW name, remove(c, name) PROVE SlotInv'
  <2>1. PICK k : k = fsipc_remove(cl[c], name)
    OBVIOUS
  <2>2. SameFd(k, cl[c])
    BY <1>0, <2>1 DEF fsipc_remove, SameFd, ClientOK, Fields, Pcs
  <2> QED BY <1>2, <2>1, <2>2, CallKeeps DEF remove
<1>3. ASSUME NEW size, ftruncate(c, size) PROVE SlotInv'
  <2>1. PICK k : k = [fsipc_set_size(cl[c], size) EXCEPT !.mode = {"ftruncate"},
                                                         !.val = cl[c].f_size, !.f_size = size]
    OBVIOUS
  <2>2. SameFd(k, cl[c])
    BY <1>0, <2>1 DEF fsipc_set_size, SameFd, ClientOK, Fields, Pcs
  <2> QED BY <1>3, <2>1, <2>2, CallKeeps DEF ftruncate
<1>4. ASSUME NEW n, NEW v, file_write(c, n, v) PROVE SlotInv'
  <2>1. cl' = cl /\ opentab' = opentab /\ \E p : srv' = [srv EXCEPT !.promise = p]
    BY <1>4 DEF file_write
  <2>2. srv'.whom = srv.whom /\ srv'.r = srv.r /\ DOMAIN srv' = {"pc", "writes", "whom", "r", "promise"}
    BY <2>1 DEF SlotInv
  <2> QED BY <2>1, <2>2, SlotInvKept DEF SlotInv
<1>5. CASE close(c)
  <2>1. PICK k : k = DirtyFrom(cl[c], 0)
    OBVIOUS
  <2>2. SameFd(k, cl[c])
    BY <1>0, <2>1 DEF DirtyFrom, fsipc_dirty, fsipc_close, SameFd, ClientOK, Fields, Pcs
  <2> QED BY <1>5, <2>1, <2>2, CallKeeps DEF close
<1>6. CASE sync(c)
  <2>1. PICK k : k = [cl[c] EXCEPT !.pc = "sync"]
    OBVIOUS
  <2>2. SameFd(k, cl[c])
    BY <1>0, <2>1 DEF SameFd, ClientOK, Fields, Pcs
  <2> QED BY <1>6, <2>1, <2>2, CallKeeps DEF sync
<1>7. CASE exit(c)
  <2>1. cl' = [cl EXCEPT ![c] = NoClient] /\ cl[c].pc = "idle" /\ opentab' = opentab /\ srv' = srv
    BY <1>7 DEF exit
  <2>2. ClientOK(NoClient) /\ ~NoClient.fd
    BY DEF NoClient, ClientOK, Fields, Pcs
  <2>3. DOMAIN cl' = Client /\ cl'[c] = NoClient /\ \A d \in Client : d # c => cl'[d] = cl[d]
    BY <1>0, <2>1
  <2>4. \A d \in Client : ClientOK(cl'[d])
    BY <2>2, <2>3 DEF SlotInv
  <2>5. \A d \in Client : cl'[d].fd => cl[d].fd /\ cl'[d].fileid = cl[d].fileid
    BY <2>2, <2>3
  <2>6. srv.whom # c
    BY <2>1 DEF SlotInv
  <2> QED BY <2>1, <2>3, <2>4, <2>5, <2>6, SlotInvKept DEF SlotInv
<1> QED BY <1>1, <1>2, <1>3, <1>4, <1>5, <1>6, <1>7 DEF ClientCalls

\* At the start.
LEMMA SlotInvInit == Init => SlotInv
<1> SUFFICES ASSUME Init PROVE SlotInv
  OBVIOUS
<1>1. \A c \in Client : ClientOK(cl[c]) /\ ~cl[c].fd
  BY DEF Init, NoClient, ClientOK, Fields, Pcs
<1>2. srv.whom = NONE /\ NONE \notin Client /\ DOMAIN srv = {"pc", "writes", "whom", "r", "promise"}
  BY FsAssumption DEF Init, Server
<1>3. Table(opentab) /\ DOMAIN cl = Client
  BY DEF Init, Table, serve_init
<1> QED BY <1>1, <1>2, <1>3 DEF SlotInv, HeldHasPage, OpenSlotPrivate

\* Every step.
LEMMA SlotInvNext == SlotInv /\ [Next]_vars => SlotInv'
<1> SUFFICES ASSUME SlotInv, [Next]_vars PROVE SlotInv'
  OBVIOUS
<1>1. ASSUME NEW pc, srv' = Server(pc), cl' = cl, opentab' = opentab PROVE SlotInv'
  <2>1. srv'.whom = NONE /\ NONE \notin Client /\ DOMAIN srv' = {"pc", "writes", "whom", "r", "promise"}
    BY <1>1, FsAssumption DEF Server
  <2> QED BY <1>1, <2>1, SlotInvKept DEF SlotInv
<1>2. CASE read_super
  BY <1>1, <1>2 DEF read_super
<1>3. CASE check_write_block
  BY <1>1, <1>3 DEF check_write_block
<1>4. CASE read_bitmap
  BY <1>1, <1>4 DEF read_bitmap
<1>5. CASE write_block
  <2>1. cl' = cl /\ opentab' = opentab /\ srv' = [srv EXCEPT !.writes = Tail(@)]
    BY <1>5 DEF write_block
  <2>2. srv'.whom = srv.whom /\ srv'.r = srv.r /\ DOMAIN srv' = {"pc", "writes", "whom", "r", "promise"}
    BY <2>1 DEF SlotInv
  <2> QED BY <2>1, <2>2, SlotInvKept DEF SlotInv
<1>6. CASE Crash
  <2>1. \A c \in Client : ClientOK(cl'[c]) /\ ~cl'[c].fd
    BY <1>6 DEF Crash, NoClient, ClientOK, Fields, Pcs
  <2>2. srv'.whom = NONE /\ NONE \notin Client /\ DOMAIN srv' = {"pc", "writes", "whom", "r", "promise"}
    BY <1>6, FsAssumption DEF Crash, Server
  <2>3. Table(opentab') /\ DOMAIN cl' = Client
    BY <1>6 DEF Crash, Table, serve_init
  <2> QED BY <2>1, <2>2, <2>3 DEF SlotInv, HeldHasPage, OpenSlotPrivate
<1>7. CASE UNCHANGED vars
  BY <1>7, SlotInvKept DEF vars, SlotInv
<1>8. CASE no_memory
  BY <1>8, SlotInvKept DEF no_memory, SlotInv
<1> QED BY <1>2, <1>3, <1>4, <1>5, <1>6, <1>7, <1>8, ServeKeeps, AnswerKeeps, ClientKeeps DEF Next

\* Two clients never hold the same entry of the table of open files, for any number
\* of clients and entries, whatever fails and however often the machine stops: an
\* entry that open_alloc takes is held by nobody and stays so until the answer with
\* its page arrives (serv.c:116, 178).
THEOREM OpenSlotPrivateCorrect == FsSpec => []OpenSlotPrivate
<1>1. SlotInv => OpenSlotPrivate
  BY DEF SlotInv
<1> QED BY <1>1, SlotInvInit, SlotInvNext, PTL DEF FsSpec

-----------------------------------------------------------------------------
(* The disk.  The theorems are about files that direct pointers reach.      *)

DirectFiles == MaxSize <= NDIRECT

Direct == 0 .. NDIRECT - 1

File == [name : Name \cup {NONE}, size : 0 .. MaxSize,
         direct : [Direct -> {0} \cup Blk], indirect : {0}]
Page == [FileBno -> Nat]
Memory == [free : SUBSET Blk, dir : [Slot -> File], nblock : Nat,
           cache : [Blk -> Page \cup {Unmapped}], dirty : SUBSET Blk]
Disk == [super : {"good", "OOPS!"}, nblock : Nat, free : SUBSET Blk, dir : [Slot -> File],
         data : [Blk -> Page]]
Write == [what : {"super"}, nblock : Nat] \cup [what : {"bitmap"}, free : SUBSET Blk]
            \cup [what : {"dir"}, s : Slot, file : File] \cup [what : {"data"}, b : Blk]

\* A block is in use once, and a name is there once.
Owned(d, free) ==
    \A s \in Slot, n \in Direct : d[s].direct[n] # 0 =>
        /\ d[s].direct[n] \notin free
        /\ \A t \in Slot, k \in Direct : d[t].direct[k] = d[s].direct[n] => t = s /\ k = n
Distinct(d) == \A s, t \in Slot : d[s].name = d[t].name /\ d[s].name # NONE => s = t

MemInv(m) ==
    /\ m \in Memory
    /\ Owned(m.dir, m.free) /\ Distinct(m.dir)
    /\ \A b \in m.dirty : m.cache[b] # Unmapped

\* The writes that are still to do.
DirPending(w, s) == \E i \in 1 .. Len(w) : w[i].what = "dir" /\ w[i].s = s
MapPending(w) == \E i \in 1 .. Len(w) : w[i].what = "bitmap"
DataPending(w, b) == \E i \in 1 .. Len(w) : w[i].what = "data" /\ w[i].b = b
WritesOK(m, w) ==
    /\ w \in Seq(Write)
    /\ \A i \in 1 .. Len(w) :
          /\ w[i].what = "bitmap" => w[i].free \subseteq m.free /\ \A j \in 1 .. i - 1 : w[j].what = "super"
          /\ w[i].what = "dir" => w[i].file = m.dir[w[i].s]
          /\ w[i].what = "data" => m.cache[w[i].b] # Unmapped

\* How a directory d and a bitmap stand to the memory m with the writes w to do:
\* a pointer of d is one of m, or was given up and is about to be overwritten, and
\* so with the names; the bitmap gives nothing away that m has taken.
Follows(d, free, m, w) ==
    /\ \A s \in Slot, n \in Direct :
          \/ d[s].direct[n] \in {0, m.dir[s].direct[n]}
          \/ DirPending(w, s) /\ ~MapPending(w) /\ d[s].direct[n] \in m.free
    /\ \A s \in Slot :
          \/ d[s].name \in {NONE, m.dir[s].name}
          \/ DirPending(w, s) /\ \A t \in Slot : m.dir[t].name # d[s].name
    /\ MapPending(w) \/ free \subseteq m.free

\* A client's numbers.
NumbersOK(k) ==
    /\ k.fileid \in OpenId
    /\ k.f_size \in 0 .. MaxSize /\ k.i \in 0 .. MaxSize /\ k.to \in 0 .. MaxSize /\ k.val \in 0 .. MaxSize
    /\ k.pc \in {"map", "dirty"} => k.i < MaxSize
    /\ k.pc \in {"open", "remove"} => k.name \in Name

DiskOK ==
    /\ disk \in Disk
    /\ Owned(disk.dir, disk.free) /\ Distinct(disk.dir)

SrvOK ==
    /\ srv.pc \in {"read_super", "check_write_block", "read_bitmap", "serve", "grown"}
    /\ disk.super = "good" \/ srv.pc = "check_write_block"
    /\ srv.whom \in Client \cup {NONE}
    /\ srv.whom = NONE => srv.writes = <<>>
    /\ srv.pc = "serve" => Follows(disk.dir, disk.free, mem, srv.writes)

FilesOK ==
    /\ \A o \in OpenId : opentab[o].file \in Slot \cup {0}
    /\ \A c \in Client : NumbersOK(cl[c])
    /\ \A c \in Client : cl[c].fd => opentab[cl[c].fileid].file \in Slot
    /\ \A c \in Client : (srv.whom = c /\ cl[c].pc = "open" /\ ~(srv.r < 0)) =>
           srv.r \in OpenId /\ opentab[srv.r].file \in Slot

BlockInv ==
    /\ DiskOK /\ MemInv(mem) /\ WritesOK(mem, srv.writes) /\ SrvOK /\ FilesOK
    /\ calls \in 0 .. MaxCalls /\ crashes \in 0 .. MaxCrashes

-----------------------------------------------------------------------------
(* Numbers and sets.                                                        *)

\* The ranges of the model.
LEMMA FsNumbers ==
    /\ s_nblocks \in Nat /\ NDIRECT \in Nat \ {0} /\ NINDIRECT \in Nat /\ NDIRECT <= NINDIRECT
    /\ MaxSize \in Nat /\ MAXOPEN \in Nat \ {0} /\ MaxSize <= NINDIRECT
    /\ FILE2BLK \in Nat /\ Slot \subseteq Nat /\ Slot = 1 .. FILE2BLK
    /\ Blk \subseteq Nat /\ 0 \notin Blk /\ 0 \in OpenId
    /\ Direct \subseteq FileBno /\ Direct \subseteq Nat /\ 0 \in FileBno
<1>1. /\ s_nblocks \in Nat /\ NDIRECT \in Nat \ {0} /\ NINDIRECT \in Nat /\ NDIRECT <= NINDIRECT
      /\ MaxSize \in 0 .. NINDIRECT /\ MAXOPEN \in Nat \ {0} /\ FILE2BLK \in Nat
  BY FsAssumption
<1> QED BY <1>1 DEF Slot, Blk, OpenId, Direct, FileBno

\* What is filled is not unmapped.
LEMMA FilledIsMapped ==
    /\ \A v \in Nat : Filled(v) \in Page
    /\ \A p \in Page : p # Unmapped
<1>1. 0 \in FileBno
  BY FsNumbers
<1>2. \A v \in Nat : Filled(v) \in Page
  BY DEF Filled, Page
<1>3. DOMAIN Unmapped = {}
  BY DEF Unmapped
<1>4. \A p \in Page : DOMAIN p = FileBno
  BY DEF Page
<1> QED BY <1>1, <1>2, <1>3, <1>4

\* The largest number of a finite set.
LEMMA LargestOf ==
    ASSUME NEW S, IsFiniteSet(S), S \subseteq Nat, S # {}, NEW top \in Nat, \A x \in S : x <= top
    PROVE  \E x \in S : \A y \in S : y <= x
<1>1. PICK T : T = {k \in Nat : \E x \in S : x = top - k}
  OBVIOUS
<1>2. T \subseteq Nat /\ T # {}
  <2>1. PICK x \in S : TRUE
    OBVIOUS
  <2>2. top - x \in Nat /\ x = top - (top - x)
    BY <2>1
  <2> QED BY <1>1, <2>1, <2>2
<1>3. PICK k \in T : \A j \in T : k <= j
  BY <1>2, LeastNat
<1>4. PICK x \in S : x = top - k
  BY <1>1, <1>3
<1>5. ASSUME NEW y \in S PROVE y <= x
  <2>1. top - y \in Nat /\ y = top - (top - y)
    OBVIOUS
  <2>2. top - y \in T
    BY <1>1, <2>1
  <2>3. k <= top - y /\ k \in Nat
    BY <1>1, <1>3, <2>2
  <2> QED BY <1>4, <2>1, <2>3
<1> QED BY <1>5

Listed(q, S) ==
    /\ q \in [1 .. Cardinality(S) -> S]
    /\ \A x \in S : \E i \in DOMAIN q : q[i] = x
    /\ \A i, j \in DOMAIN q : i < j => q[i] < q[j]

\* One more number behind the others.
LEMMA ListOneMore ==
    ASSUME NEW S, NEW x \in S, S \subseteq Nat, \A y \in S : y <= x, NEW n \in Nat,
           Cardinality(S) = n + 1, Cardinality(S \ {x}) = n, NEW p, Listed(p, S \ {x})
    PROVE  \E q : Listed(q, S)
<1>1. p \in [1 .. n -> S \ {x}] /\ DOMAIN p = 1 .. n
  BY DEF Listed
<1>2. PICK q : q = [i \in 1 .. n + 1 |-> IF i = n + 1 THEN x ELSE p[i]]
  OBVIOUS
<1>3. q[n + 1] = x /\ \A i \in 1 .. n : q[i] = p[i] /\ p[i] \in S \ {x}
  BY <1>1, <1>2
<1>4. q \in [1 .. n + 1 -> S]
  BY <1>1, <1>2
<1>5. ASSUME NEW y \in S PROVE \E i \in DOMAIN q : q[i] = y
  <2>1. CASE y = x
    BY <2>1, <1>2, <1>3
  <2>2. CASE y # x
    <3>1. PICK i \in 1 .. n : p[i] = y
      BY <2>2, <1>1 DEF Listed
    <3> QED BY <3>1, <1>2, <1>3
  <2> QED BY <2>1, <2>2
<1>6. ASSUME NEW i \in 1 .. n + 1, NEW j \in 1 .. n + 1, i < j PROVE q[i] < q[j]
  <2>1. i \in 1 .. n
    BY <1>6
  <2>2. CASE j = n + 1
    <3>1. PICK y : y = p[i]
      OBVIOUS
    <3>2. y \in S /\ y # x /\ q[i] = y /\ q[j] = x
      BY <2>1, <2>2, <3>1, <1>3
    <3>3. y \in Nat /\ x \in Nat /\ y <= x
      BY <3>2
    <3> QED BY ONLY <3>2, <3>3
  <2>3. CASE j # n + 1
    <3>1. j \in 1 .. n
      BY <2>3
    <3>2. \A a, b \in DOMAIN p : a < b => p[a] < p[b]
      BY DEF Listed
    <3>3. p[i] < p[j]
      BY <2>1, <3>1, <3>2, <1>1, <1>6
    <3> QED BY <2>1, <3>1, <3>3, <1>3
  <2> QED BY <2>2, <2>3
<1>7. DOMAIN q = 1 .. n + 1
  BY <1>2
<1> QED BY <1>4, <1>5, <1>6, <1>7 DEF Listed

\* A finite set of numbers can be listed.
LEMMA ListExists ==
    ASSUME NEW top \in Nat, NEW S, S \subseteq 0 .. top
    PROVE  IsFiniteSet(S) /\ \E q : Listed(q, S)
<1>0. \A U : U \subseteq 0 .. top => IsFiniteSet(U) /\ Cardinality(U) \in Nat
  <2>1. IsFiniteSet(0 .. top)
    BY FS_Interval
  <2> QED BY <2>1, FS_Subset, FS_CardinalityType
<1>1. SUFFICES ASSUME ~\E q : Listed(q, S) PROVE FALSE
  BY <1>0
<1>2. PICK B : B = {n \in Nat : \E U \in SUBSET (0 .. top) : Cardinality(U) = n /\ ~\E q : Listed(q, U)}
  OBVIOUS
<1>3. Cardinality(S) \in B
  BY <1>0, <1>1, <1>2
<1>4. PICK n \in B : \A m \in B : n <= m
  BY <1>2, <1>3, LeastNat
<1>5. PICK U \in SUBSET (0 .. top) : Cardinality(U) = n /\ ~\E q : Listed(q, U)
  BY <1>2, <1>4
<1>6. n \in Nat /\ IsFiniteSet(U) /\ U \subseteq Nat
  <2>1. n \in Nat
    BY <1>2, <1>4
  <2>2. U \subseteq 0 .. top
    BY <1>5
  <2>3. U \subseteq Nat
    BY <2>2
  <2> QED BY <2>1, <2>2, <2>3, <1>0
<1>7. U # {}
  <2>1. SUFFICES ASSUME U = {} PROVE FALSE
    OBVIOUS
  <2>2. Cardinality(U) = 0
    BY <2>1, FS_EmptySet
  <2>3. PICK q : q = [i \in 1 .. 0 |-> 0]
    OBVIOUS
  <2>4. Listed(q, U)
    BY <2>1, <2>2, <2>3 DEF Listed
  <2> QED BY <1>5, <2>4
<1>8. PICK x \in U : \A y \in U : y <= x
  <2>1. \A y \in U : y <= top
    BY <1>5
  <2> QED BY <2>1, <1>6, <1>7, LargestOf
<1>9. /\ IsFiniteSet(U \ {x}) /\ Cardinality(U \ {x}) = n - 1
  BY <1>5, <1>6, <1>8, FS_RemoveElement
<1>10. Cardinality(U \ {x}) \in Nat /\ U \ {x} \in SUBSET (0 .. top)
  BY <1>0, <1>5
<1>11. n - 1 \in Nat /\ n - 1 \notin B
  BY <1>4, <1>6, <1>9, <1>10
<1>12. PICK p : Listed(p, U \ {x})
  BY <1>2, <1>9, <1>10, <1>11
<1>13. \E q : Listed(q, U)
  <2>1. PICK m \in Nat : m = n - 1
    BY <1>11
  <2>2. Cardinality(U) = m + 1 /\ Cardinality(U \ {x}) = m
    BY <2>1, <1>5, <1>6, <1>9
  <2> QED BY <2>2, <1>6, <1>8, <1>12, ListOneMore
<1> QED BY <1>5, <1>13

\* So InOrder is the list.
LEMMA InOrderLists ==
    ASSUME NEW top \in Nat, NEW S, S \subseteq 0 .. top
    PROVE  Listed(InOrder(S), S)
<1>1. PICK q : Listed(q, S)
  BY ListExists
<1> QED BY <1>1 DEF Listed, InOrder

\* The records of the model.
LEMMA FileFields ==
    ASSUME NEW d \in [Slot -> File], NEW s \in Slot
    PROVE  /\ d[s] \in File /\ d[s].name \in Name \cup {NONE} /\ d[s].size \in 0 .. MaxSize
           /\ d[s].direct \in [Direct -> {0} \cup Blk] /\ d[s].indirect = 0
           /\ \A n \in Direct : d[s].direct[n] \in {0} \cup Blk
BY DEF File

\* Without index blocks the pointers are those of the entries.
LEMMA OwnedIsOnce ==
    ASSUME NEW d \in [Slot -> File], NEW ix, NEW free, Owned(d, free)
    PROVE  OwnedOnce(d, ix, free)
<1> DEFINE P == {<<s, n>> : s \in Slot, n \in -1 .. NINDIRECT - 1}
<1>2. PICK ptr : ptr = Pointers(d, ix)
  OBVIOUS
<1>3. DOMAIN ptr = P
  BY <1>2 DEF Pointers
<1>4. ASSUME NEW p \in P
      PROVE  \E s \in Slot, n \in -1 .. NINDIRECT - 1 :
                /\ p = <<s, n>>
                /\ \/ ptr[p] = 0
                   \/ n \in Direct /\ ptr[p] = d[s].direct[n] /\ ptr[p] \in {0} \cup Blk
  <2>1. PICK s \in Slot, n \in -1 .. NINDIRECT - 1 : p = <<s, n>>
    OBVIOUS
  <2>2. d[s].indirect = 0 /\ 0 \notin Blk
    BY FileFields, FsNumbers
  <2>3. ptr[p] = IF n = -1 THEN d[s].indirect
                 ELSE IF n < NDIRECT THEN d[s].direct[n]
                 ELSE IF d[s].indirect \in Blk /\ ix[d[s].indirect] # Unmapped THEN ix[d[s].indirect][n] ELSE 0
    <3>1. p[1] = s /\ p[2] = n
      BY <2>1
    <3> QED BY <1>2, <3>1 DEF Pointers
  <2>4. CASE n \in Direct
    <3>1. n # -1 /\ n < NDIRECT
      BY <2>4, FsNumbers DEF Direct
    <3>2. ptr[p] = d[s].direct[n]
      BY <2>3, <3>1
    <3> QED BY <2>1, <2>4, <3>2, FileFields
  <2>5. CASE n \notin Direct
    <3>1. n = -1 \/ ~(n < NDIRECT)
      BY <2>5, FsNumbers DEF Direct
    <3>2. ptr[p] = 0
      BY <2>2, <2>3, <3>1
    <3> QED BY <2>1, <3>2
  <2> QED BY <2>4, <2>5
<1> HIDE DEF P
<1>5. ASSUME NEW p \in P, ptr[p] # 0
      PROVE  ptr[p] \in Blk \ free /\ \A q \in P : q # p => ptr[q] # ptr[p]
  <2>1. PICK s \in Slot, n \in Direct : p = <<s, n>> /\ ptr[p] = d[s].direct[n] /\ ptr[p] \in Blk
    BY <1>4, <1>5
  <2>2. ASSUME NEW q \in P, ptr[q] = ptr[p] PROVE q = p
    <3>1. PICK t \in Slot, k \in Direct : q = <<t, k>> /\ ptr[q] = d[t].direct[k]
      BY <1>4, <1>5, <2>2
    <3>2. t = s /\ k = n
      BY <1>5, <2>1, <2>2, <3>1 DEF Owned
    <3> QED BY <2>1, <3>1, <3>2
  <2> QED BY <1>5, <2>1, <2>2 DEF Owned
<1> QED BY <1>2, <1>3, <1>5 DEF OwnedOnce

-----------------------------------------------------------------------------
(* The block writes.                                                        *)

\* When the first of the writes is done.
LEMMA OneWritten ==
    ASSUME NEW m, NEW w, WritesOK(m, w), w # <<>>
    PROVE  /\ Head(w) = w[1] /\ w[1] \in Write
           /\ WritesOK(m, Tail(w)) /\ (MapPending(Tail(w)) => w[1].what = "super" /\ MapPending(w))
           /\ MapPending(w) => w[1].what = "bitmap" \/ (w[1].what = "super" /\ MapPending(Tail(w)))
           /\ \A t : DirPending(w, t) => DirPending(Tail(w), t) \/ (w[1].what = "dir" /\ w[1].s = t)
           /\ \A b : DataPending(w, b) => DataPending(Tail(w), b) \/ (w[1].what = "data" /\ w[1].b = b)
<1>1. w \in Seq(Write) /\ Len(w) \in Nat /\ Len(w) >= 1
  BY DEF WritesOK
<1>2. PICK u \in Seq(Write) : u = Tail(w) /\ Len(u) = Len(w) - 1 /\ \A i \in 1 .. Len(u) : u[i] = w[i + 1]
  BY <1>1, HeadTailProperties
<1>3. Head(w) = w[1] /\ w[1] \in Write
  BY <1>1
<1>4. \A i \in 1 .. Len(u) : i + 1 \in 1 .. Len(w) /\ 1 \in 1 .. (i + 1) - 1
  BY <1>1, <1>2
<1>5. WritesOK(m, u)
  <2>1. SUFFICES ASSUME NEW i \in 1 .. Len(u)
                 PROVE  /\ u[i].what = "bitmap" => u[i].free \subseteq m.free /\ \A j \in 1 .. i - 1 : u[j].what = "super"
                        /\ u[i].what = "dir" => u[i].file = m.dir[u[i].s]
                        /\ u[i].what = "data" => m.cache[u[i].b] # Unmapped
    BY <1>2 DEF WritesOK
  <2>2. u[i] = w[i + 1] /\ i + 1 \in 1 .. Len(w)
    BY <1>2, <1>4, <2>1
  <2>3. ASSUME u[i].what = "bitmap", NEW j \in 1 .. i - 1 PROVE u[j].what = "super"
    <3>1. j \in 1 .. Len(u) /\ j + 1 \in 1 .. (i + 1) - 1
      BY <1>1, <1>2, <2>1, <2>3
    <3>2. u[j] = w[j + 1]
      BY <1>2, <3>1
    <3>3. w[j + 1].what = "super"
      BY <2>2, <2>3, <3>1 DEF WritesOK
    <3> QED BY <3>2, <3>3
  <2> QED BY <2>2, <2>3 DEF WritesOK
<1>9. ASSUME MapPending(u) PROVE w[1].what = "super" /\ MapPending(w)
  <2>1. PICK i \in 1 .. Len(u) : u[i].what = "bitmap"
    BY <1>9 DEF MapPending
  <2>2. i + 1 \in 1 .. Len(w) /\ w[i + 1].what = "bitmap" /\ 1 \in 1 .. (i + 1) - 1
    BY <1>2, <1>4, <2>1
  <2> QED BY <2>2 DEF WritesOK, MapPending
<1>6. ASSUME MapPending(w) PROVE w[1].what = "bitmap" \/ (w[1].what = "super" /\ MapPending(u))
  <2>1. PICK i \in 1 .. Len(w) : w[i].what = "bitmap"
    BY <1>6 DEF MapPending
  <2>2. CASE i = 1
    BY <2>1, <2>2
  <2>3. CASE i # 1
    <3>1. i - 1 \in 1 .. Len(u) /\ (i - 1) + 1 = i /\ 1 \in 1 .. i - 1
      BY <1>1, <1>2, <2>3
    <3>2. u[i - 1] = w[i]
      BY <1>2, <3>1
    <3> QED BY <2>1, <3>1, <3>2 DEF MapPending, WritesOK
  <2> QED BY <2>2, <2>3
<1>7. ASSUME NEW t, DirPending(w, t) PROVE DirPending(u, t) \/ (w[1].what = "dir" /\ w[1].s = t)
  <2>1. PICK i \in 1 .. Len(w) : w[i].what = "dir" /\ w[i].s = t
    BY <1>7 DEF DirPending
  <2>2. CASE i = 1
    BY <2>1, <2>2
  <2>3. CASE i # 1
    <3>1. i - 1 \in 1 .. Len(u) /\ (i - 1) + 1 = i
      BY <1>1, <1>2, <2>3
    <3>2. u[i - 1] = w[i]
      BY <1>2, <3>1
    <3> QED BY <2>1, <3>1, <3>2 DEF DirPending
  <2> QED BY <2>2, <2>3
<1>8. ASSUME NEW b, DataPending(w, b) PROVE DataPending(u, b) \/ (w[1].what = "data" /\ w[1].b = b)
  <2>1. PICK i \in 1 .. Len(w) : w[i].what = "data" /\ w[i].b = b
    BY <1>8 DEF DataPending
  <2>2. CASE i = 1
    BY <2>1, <2>2
  <2>3. CASE i # 1
    <3>1. i - 1 \in 1 .. Len(u) /\ (i - 1) + 1 = i
      BY <1>1, <1>2, <2>3
    <3>2. u[i - 1] = w[i]
      BY <1>2, <3>1
    <3> QED BY <2>1, <3>1, <3>2 DEF DataPending
  <2> QED BY <2>2, <2>3
<1> QED BY <1>2, <1>3, <1>5, <1>6, <1>7, <1>8, <1>9

\* A write of the superblock, with the directory's length.
LEMMA SuperWritten ==
    ASSUME NEW d, NEW free, NEW m, NEW w, WritesOK(m, w), w # <<>>, w[1].what = "super",
           Follows(d, free, m, w)
    PROVE  w[1].nblock \in Nat /\ Follows(d, free, m, Tail(w))
<1>1. w[1] \in Write /\ (MapPending(Tail(w)) <=> MapPending(w))
  BY OneWritten
<1>2. w[1].nblock \in Nat
  BY <1>1 DEF Write
<1>3. \A s \in Slot : DirPending(w, s) => DirPending(Tail(w), s)
  BY OneWritten
<1> QED BY <1>1, <1>2, <1>3 DEF Follows

\* A write of the bitmap.
LEMMA BitmapWritten ==
    ASSUME NEW d \in [Slot -> File], NEW free, NEW m, MemInv(m), NEW w, WritesOK(m, w), w # <<>>,
           w[1].what = "bitmap", Owned(d, free), Follows(d, free, m, w)
    PROVE  w[1].free \subseteq m.free /\ Owned(d, w[1].free) /\ Follows(d, w[1].free, m, Tail(w))
<1>0. w \in Seq(Write) /\ 1 \in 1 .. Len(w)
  BY DEF WritesOK
<1>1. w[1].free \subseteq m.free /\ MapPending(w)
  BY <1>0 DEF WritesOK, MapPending
<1>2. \A s \in Slot, n \in Direct : d[s].direct[n] \in {0, m.dir[s].direct[n]}
  BY <1>1 DEF Follows
<1>3. Owned(d, w[1].free)
  <2>1. Owned(m.dir, m.free)
    BY DEF MemInv
  <2> QED BY <1>1, <1>2, <2>1 DEF Owned
<1>4. \A s \in Slot : DirPending(w, s) => DirPending(Tail(w), s)
  BY OneWritten
<1> QED BY <1>1, <1>2, <1>3, <1>4 DEF Follows

\* A write of a directory entry.
LEMMA EntryWritten ==
    ASSUME NEW d \in [Slot -> File], NEW free, NEW m, MemInv(m), NEW w, WritesOK(m, w), w # <<>>,
           w[1].what = "dir", Owned(d, free), Distinct(d), Follows(d, free, m, w),
           NEW e, e = [d EXCEPT ![w[1].s] = w[1].file]
    PROVE  e \in [Slot -> File] /\ Owned(e, free) /\ Distinct(e) /\ Follows(e, free, m, Tail(w))
<1>1. PICK s \in Slot : s = w[1].s
  <2>1. w[1] \in Write
    BY OneWritten
  <2> QED BY <2>1 DEF Write
<1>2. PICK f \in File : f = w[1].file /\ f = m.dir[s]
  <2>1. w[1].file = m.dir[s] /\ m.dir \in [Slot -> File]
    BY <1>1 DEF WritesOK, MemInv, Memory
  <2> QED BY <1>1, <2>1
<1>3. e \in [Slot -> File] /\ e[s] = f /\ \A t \in Slot : t # s => e[t] = d[t]
  BY <1>1, <1>2
<1>4. ~MapPending(w) /\ free \subseteq m.free /\ ~MapPending(Tail(w))
  <2>1. ~MapPending(w)
    BY OneWritten
  <2> QED BY <2>1, OneWritten DEF Follows
<1>5. Owned(m.dir, m.free) /\ Distinct(m.dir)
  BY DEF MemInv
<1>6. \A t \in Slot, n \in Direct : \/ e[t].direct[n] \in {0, m.dir[t].direct[n]}
                                    \/ /\ t # s /\ e[t].direct[n] \in m.free
                                       /\ DirPending(Tail(w), t)
  <2>1. \A t \in Slot : DirPending(w, t) => DirPending(Tail(w), t) \/ t = s
    BY <1>1, OneWritten
  <2> QED BY <1>2, <1>3, <2>1 DEF Follows
<1>7. Owned(e, free)
  <2>1. SUFFICES ASSUME NEW t \in Slot, NEW n \in Direct, e[t].direct[n] # 0
                 PROVE  /\ e[t].direct[n] \notin free
                        /\ \A u \in Slot, k \in Direct : e[u].direct[k] = e[t].direct[n] => u = t /\ k = n
    BY DEF Owned
  <2>2. e[t].direct[n] \notin free
    <3>1. CASE t = s
      BY <3>1, <1>2, <1>3, <1>4, <1>5, <2>1 DEF Owned
    <3>2. CASE t # s
      BY <3>2, <1>3, <2>1 DEF Owned
    <3> QED BY <3>1, <3>2
  <2>3. ASSUME NEW u \in Slot, NEW k \in Direct, e[u].direct[k] = e[t].direct[n]
        PROVE  u = t /\ k = n
    <3>1. CASE u # s /\ t # s
      BY <3>1, <2>1, <2>3, <1>3 DEF Owned
    <3>2. CASE u = s \/ t = s
      <4>1. e[t].direct[n] \in m.free \/ e[t].direct[n] = m.dir[t].direct[n]
        BY <2>1, <1>6
      <4>2. e[u].direct[k] \in m.free \/ e[u].direct[k] = m.dir[u].direct[k]
        BY <2>1, <2>3, <1>6
      <4>3. (t = s => e[t].direct[n] = m.dir[t].direct[n]) /\ (u = s => e[u].direct[k] = m.dir[u].direct[k])
        BY <1>2, <1>3
      <4>4. m.dir[t].direct[n] = e[t].direct[n] => m.dir[t].direct[n] \notin m.free
        BY <2>1, <1>5 DEF Owned
      <4>5. m.dir[u].direct[k] = e[t].direct[n] => m.dir[u].direct[k] \notin m.free
        BY <2>1, <1>5 DEF Owned
      <4>6. m.dir[t].direct[n] = e[t].direct[n] /\ m.dir[u].direct[k] = e[t].direct[n]
        BY <2>3, <3>2, <4>1, <4>2, <4>3, <4>4, <4>5
      <4> QED BY <2>1, <4>6, <1>5 DEF Owned
    <3> QED BY <3>1, <3>2
  <2> QED BY <2>2, <2>3
<1>8. \A t \in Slot : \/ e[t].name \in {NONE, m.dir[t].name}
                      \/ t # s /\ DirPending(Tail(w), t) /\ \A u \in Slot : m.dir[u].name # e[t].name
  <2>1. \A t \in Slot : DirPending(w, t) => DirPending(Tail(w), t) \/ t = s
    BY <1>1, OneWritten
  <2> QED BY <1>2, <1>3, <2>1 DEF Follows
<1>9. Distinct(e)
  <2>1. SUFFICES ASSUME NEW t \in Slot, NEW u \in Slot, e[t].name = e[u].name, e[t].name # NONE
                 PROVE  t = u
    BY DEF Distinct
  <2>2. CASE t # s /\ u # s
    BY <2>1, <2>2, <1>3 DEF Distinct
  <2>3. CASE t = s \/ u = s
    <3>1. (t = s => e[t].name = m.dir[t].name) /\ (u = s => e[u].name = m.dir[u].name)
      BY <1>2, <1>3
    <3>2. e[t].name = m.dir[t].name /\ e[u].name = m.dir[u].name
      BY <2>1, <2>3, <3>1, <1>8
    <3> QED BY <2>1, <3>2, <1>5 DEF Distinct
  <2> QED BY <2>2, <2>3
<1>10. Follows(e, free, m, Tail(w))
  BY <1>4, <1>6, <1>8 DEF Follows
<1> QED BY <1>3, <1>7, <1>9, <1>10

\* A write of data.
LEMMA DataWritten ==
    ASSUME NEW d, NEW free, NEW m, NEW w, WritesOK(m, w), w # <<>>, w[1].what = "data",
           Follows(d, free, m, w)
    PROVE  w[1].b \in Blk /\ m.cache[w[1].b] # Unmapped /\ Follows(d, free, m, Tail(w))
<1>1. w[1] \in Write /\ ~MapPending(w) /\ ~MapPending(Tail(w))
  BY OneWritten
<1>2. w[1].b \in Blk
  BY <1>1 DEF Write
<1>3. 1 \in 1 .. Len(w)
  BY DEF WritesOK
<1>4. m.cache[w[1].b] # Unmapped
  BY <1>3 DEF WritesOK
<1>5. \A s \in Slot : DirPending(w, s) => DirPending(Tail(w), s)
  BY OneWritten
<1> QED BY <1>1, <1>2, <1>4, <1>5 DEF Follows

-----------------------------------------------------------------------------
(* The requests: the memory stays sound, and what was in it before is in it *)
(* still or about to be overwritten on the disk.                            *)

\* What the step from m to n leaves as it is: dirty bits, the pages of the cache, the
\* blocks of a file with the same name and size.
Keeps(m, n) ==
    /\ m.dirty \subseteq n.dirty
    /\ \A b \in Blk : \/ n.cache[b] = m.cache[b]
                      \/ m.cache[b] = Unmapped /\ (b \in m.free \/ n.cache[b] = disk.data[b])
    /\ \A s \in Slot, k \in Direct :
          (m.dir[s].direct[k] # 0 /\ n.dir[s].name = m.dir[s].name /\ n.dir[s].size = m.dir[s].size)
              => n.dir[s].direct[k] = m.dir[s].direct[k]

\* Results that end the server.
Panics == {PANIC, PANIC_NO_MEM}

Contract(m, x) ==
    /\ MemInv(x.m) /\ WritesOK(x.m, x.w) /\ Follows(m.dir, m.free, x.m, x.w)
    /\ Keeps(m, x.m)
    /\ x.r \in Int /\ x.r \notin Panics

\* A request that changes nothing.
LEMMA NothingChanged ==
    ASSUME NEW m, MemInv(m), NEW r \in Int, r \notin Panics
    PROVE  /\ Contract(m, Done(m, <<>>, r))
           /\ \A w : Follows(m.dir, m.free, m, w)
<1>1. \A w : Follows(m.dir, m.free, m, w)
  BY DEF Follows
<1>2. WritesOK(m, <<>>)
  BY DEF WritesOK
<1>3. Keeps(m, m)
  BY DEF Keeps
<1> QED BY <1>1, <1>2, <1>3 DEF Contract, Done

\* Requests one after the other.
LEMMA FollowsOn ==
    ASSUME NEW d, NEW free, NEW m, NEW m2, NEW w, Follows(d, free, m, <<>>),
           Follows(m.dir, m.free, m2, w)
    PROVE  Follows(d, free, m2, w)
<1>1. ~MapPending(<<>>) /\ \A s : ~DirPending(<<>>, s)
  BY DEF MapPending, DirPending
<1>2. /\ \A s \in Slot, n \in Direct : d[s].direct[n] \in {0, m.dir[s].direct[n]}
      /\ \A s \in Slot : d[s].name \in {NONE, m.dir[s].name}
      /\ free \subseteq m.free
  BY <1>1 DEF Follows
<1> QED BY <1>2 DEF Follows


\* An empty sequence in front.
LEMMA NothingBefore ==
    ASSUME NEW y, NEW m, NEW w, NEW r, y = Done(m, w, r), w \in Seq(Write)
    PROVE  [y EXCEPT !.w = <<>> \o @] = y
<1>1. <<>> \o w = w
  BY ConcatEmptySeq
<1> QED BY <1>1 DEF Done

\* The memory when block b has been taken for block n of file s.
Taken(m, s, n, b) ==
    [free |-> m.free \ {b}, dir |-> [m.dir EXCEPT ![s].direct[n] = b],
     cache |-> [m.cache EXCEPT ![b] = IF m.cache[b] # Unmapped THEN m.cache[b] ELSE Filled(0)],
     nblock |-> m.nblock, dirty |-> m.dirty]
BitmapWrite(free) == [what |-> "bitmap", free |-> free]
SuperWrite(nblock) == [what |-> "super", nblock |-> nblock]

\* alloc_block takes a free block, if there is one and a page for it; without a page
\* only the bitmap on the disk will miss the block.
LEMMA AllocBlock ==
    ASSUME NEW m, MemInv(m), NEW x, x = alloc_block(m)
    PROVE  \/ x = Done(m, <<>>, E_NO_DISK)
           \/ \E b \in m.free : x = Done(m, <<BitmapWrite(m.free \ {b})>>, E_NO_MEM)
           \/ \E b \in m.free : x = Done(map_block([m EXCEPT !.free = @ \ {b}], b),
                                         <<BitmapWrite(m.free \ {b})>>, b)
<1>1. m.free \subseteq Blk
  BY DEF MemInv, Memory
<1>2. CASE m.free = {}
  <2>1. alloc_block_num(m) = Done(m, <<>>, E_NO_DISK)
    BY <1>2 DEF alloc_block_num, Return
  <2>2. x = Done(m, <<>>, E_NO_DISK)
    BY <2>1 DEF alloc_block, Then, Done, E_NO_DISK
  <2> QED BY <2>2
<1>3. CASE m.free # {}
  <2>1. PICK b : b = CHOOSE y \in m.free : \A z \in m.free : y <= z
    OBVIOUS
  <2>2. b \in m.free
    <3>1. \E y \in m.free : \A z \in m.free : y <= z
      BY <1>1, <1>3, FsNumbers, LeastNat
    <3> QED BY <2>1, <3>1
  <2>3. b \in Nat
    BY <1>1, <2>2, FsNumbers
  <2>4. PICK m1, w : m1 = [m EXCEPT !.free = @ \ {b}] /\ w = <<BitmapWrite(m.free \ {b})>>
    OBVIOUS
  <2>5. alloc_block_num(m) = Done(m1, w, b)
    BY <1>3, <2>1, <2>4 DEF alloc_block_num, BitmapWrite
  <2>8. w \o <<>> = w
    BY <2>4
  <2>9. CASE Refused(m1, b)
    <3>1. x = [Return(free_block(m1, b), E_NO_MEM) EXCEPT !.w = w \o @]
      BY <2>3, <2>5, <2>9 DEF alloc_block, Then, Done
    <3>2. x = Done(free_block(m1, b), w \o <<>>, E_NO_MEM)
      BY <3>1 DEF Return, Done
    <3>3. free_block(m1, b) = m
      <4>1. PICK fr, di, nb, ca, dy : m = [free |-> fr, dir |-> di, nblock |-> nb, cache |-> ca, dirty |-> dy]
        BY DEF MemInv, Memory
      <4>2. m1 = [free |-> fr \ {b}, dir |-> di, nblock |-> nb, cache |-> ca, dirty |-> dy]
        BY <2>4, <4>1
      <4>3. b \in Blk /\ b \in fr
        BY <1>1, <2>2, <4>1
      <4>4. free_block(m1, b) = [free |-> (fr \ {b}) \cup {b}, dir |-> di, nblock |-> nb, cache |-> ca, dirty |-> dy]
        BY <4>2, <4>3 DEF free_block
      <4>5. (fr \ {b}) \cup {b} = fr
        BY <4>3
      <4> QED BY <4>1, <4>4, <4>5
    <3> QED BY <2>2, <2>4, <2>8, <3>2, <3>3
  <2>10. CASE ~Refused(m1, b)
    <3>1. x = [Return(map_block(m1, b), b) EXCEPT !.w = w \o @]
      BY <2>3, <2>5, <2>10 DEF alloc_block, Then, Done
    <3>2. x = Done(map_block(m1, b), w \o <<>>, b)
      BY <3>1 DEF Return, Done
    <3> QED BY <2>2, <2>4, <2>8, <3>2
  <2> QED BY <2>9, <2>10
<1> QED BY <1>2, <1>3

\* What file_map_block gives for a block n, whose pointer is p: the block, or no block, or
\* a new one.
NoNewBlock(m, p, x) ==
    \/ p # 0 /\ x = Done(m, <<>>, p)
    \/ p = 0 /\ x \in {Done(m, <<>>, E_NOT_FOUND), Done(m, <<>>, E_NO_DISK)}
NewBlock(m, s, n, p, x) ==
    /\ p = 0
    /\ \E b \in m.free : \/ x = Done(m, <<BitmapWrite(m.free \ {b})>>, E_NO_MEM)
                         \/ x = Done(Taken(m, s, n, b), <<BitmapWrite(m.free \ {b})>>, b)

\* The block of a file that the entry itself points to.
LEMMA MapBlock ==
    ASSUME DirectFiles, NEW m, MemInv(m), NEW s \in Slot, NEW n \in Direct, NEW alloc,
           NEW p, p = m.dir[s].direct[n], NEW x, x = file_map_block(m, s, n, alloc)
    PROVE  NoNewBlock(m, p, x) \/ (alloc /\ NewBlock(m, s, n, p, x))
<1>1. n < NDIRECT
  BY FsNumbers DEF Direct
<1>2. file_block_walk(m, s, n, alloc) = Done(m, <<>>, 0)
  BY <1>1 DEF file_block_walk, Return
<1>3. Pointer(m, s, n) = p
  BY <1>1 DEF Pointer
<1>4. PICK u, z : /\ u = alloc_block(m)
                  /\ z = IF u.r < 0 THEN u
                         ELSE [Return(SetPointer(u.m, s, n, u.r), u.r) EXCEPT !.w = u.w \o @]
  OBVIOUS
<1>5. PICK y : y = IF p # 0 THEN Return(m, p) ELSE IF ~alloc THEN Return(m, E_NOT_FOUND) ELSE z
  OBVIOUS
<1>6. x = [y EXCEPT !.w = <<>> \o @]
  <2>1. PICK v : v = file_block_walk(m, s, n, alloc)
    OBVIOUS
  <2>2. v.m = m /\ v.w = <<>> /\ ~(v.r < 0)
    BY <1>2, <2>1 DEF Done
  <2>3. x = IF v.r < 0 THEN v
            ELSE LET t == IF Pointer(v.m, s, n) # 0 THEN Return(v.m, Pointer(v.m, s, n))
                          ELSE IF ~alloc THEN Return(v.m, E_NOT_FOUND)
                          ELSE IF alloc_block(v.m).r < 0 THEN alloc_block(v.m)
                          ELSE [Return(SetPointer(alloc_block(v.m).m, s, n, alloc_block(v.m).r),
                                       alloc_block(v.m).r) EXCEPT !.w = alloc_block(v.m).w \o @]
                 IN [t EXCEPT !.w = v.w \o @]
    BY <2>1 DEF file_map_block, Then
  <2> QED BY <1>3, <1>4, <1>5, <2>2, <2>3
<1>7. <<>> \in Seq(Write)
  OBVIOUS
<1>8. CASE p # 0
  <2>1. y = Done(m, <<>>, p)
    BY <1>5, <1>8 DEF Return
  <2> QED BY <1>6, <1>7, <1>8, <2>1, NothingBefore DEF NoNewBlock
<1>9. CASE p = 0 /\ ~alloc
  <2>1. y = Done(m, <<>>, E_NOT_FOUND)
    BY <1>5, <1>9 DEF Return
  <2> QED BY <1>6, <1>7, <1>9, <2>1, NothingBefore DEF NoNewBlock
<1>10. CASE p = 0 /\ alloc
  <2>1. y = z
    BY <1>5, <1>10
  <2>3. z = IF u.r < 0 THEN u ELSE [Return(SetPointer(u.m, s, n, u.r), u.r) EXCEPT !.w = u.w \o @]
    BY <1>4
  <2>4. CASE u = Done(m, <<>>, E_NO_DISK)
    <3>1. z = u
      BY <2>3, <2>4 DEF Done, E_NO_DISK
    <3> QED BY <1>6, <1>7, <1>10, <2>1, <2>4, <3>1, NothingBefore DEF NoNewBlock
  <2>6. CASE \E b \in m.free : u = Done(m, <<BitmapWrite(m.free \ {b})>>, E_NO_MEM)
    <3>1. PICK b \in m.free : u = Done(m, <<BitmapWrite(m.free \ {b})>>, E_NO_MEM)
      BY <2>6
    <3>2. <<BitmapWrite(m.free \ {b})>> \in Seq(Write)
      <4>1. BitmapWrite(m.free \ {b}) \in Write
        BY DEF MemInv, Memory, Write, BitmapWrite
      <4> QED BY <4>1
    <3>3. z = u
      BY <2>3, <3>1 DEF Done, E_NO_MEM
    <3>4. x = u
      BY <1>6, <2>1, <3>1, <3>2, <3>3, NothingBefore
    <3>5. NewBlock(m, s, n, p, x)
      BY <1>10, <3>1, <3>4 DEF NewBlock
    <3> QED BY <1>10, <3>5
  <2>5. CASE \E b \in m.free : u = Done(map_block([m EXCEPT !.free = @ \ {b}], b),
                                        <<BitmapWrite(m.free \ {b})>>, b)
    <3>1. PICK b \in m.free : u = Done(map_block([m EXCEPT !.free = @ \ {b}], b),
                                       <<BitmapWrite(m.free \ {b})>>, b)
      BY <2>5
    <3>2. b \in Blk /\ b \in Nat
      BY FsNumbers DEF MemInv, Memory
    <3>3. PICK w : w = <<BitmapWrite(m.free \ {b})>>
      OBVIOUS
    <3>4. w \in Seq(Write) /\ w \o <<>> = w
      <4>1. BitmapWrite(m.free \ {b}) \in Write
        BY DEF MemInv, Memory, Write, BitmapWrite
      <4> QED BY <4>1, <3>3
    <3>5. SetPointer(u.m, s, n, b) = Taken(m, s, n, b)
      <4>1. PICK fr, di, nb, ca, dy : m = [free |-> fr, dir |-> di, nblock |-> nb, cache |-> ca, dirty |-> dy]
        BY DEF MemInv, Memory
      <4>2. PICK ca2 : ca2 = [ca EXCEPT ![b] = IF ca[b] # Unmapped THEN ca[b] ELSE Filled(0)]
        OBVIOUS
      <4>3. ca \in [Blk -> Page \cup {Unmapped}]
        BY <4>1 DEF MemInv, Memory
      <4>4. u.m = [free |-> fr \ {b}, dir |-> di, nblock |-> nb, cache |-> ca2, dirty |-> dy]
        <5>1. PICK m1 : m1 = [m EXCEPT !.free = @ \ {b}]
          OBVIOUS
        <5>2. m1 = [free |-> fr \ {b}, dir |-> di, nblock |-> nb, cache |-> ca, dirty |-> dy]
          BY <4>1, <5>1
        <5>3. u.m = map_block(m1, b)
          BY <3>1, <5>1 DEF Done
        <5>4. CASE ca[b] # Unmapped
          <6>1. ca2 = ca
            BY <4>2, <4>3, <5>4
          <6> QED BY <5>2, <5>3, <5>4, <6>1 DEF map_block, block_is_mapped
        <5>5. CASE ca[b] = Unmapped
          BY <4>2, <5>2, <5>3, <5>5 DEF map_block, block_is_mapped
        <5> QED BY <5>4, <5>5
      <4>5. SetPointer(u.m, s, n, b) = [u.m EXCEPT !.dir[s].direct[n] = b]
        BY <1>1 DEF SetPointer
      <4>6. SetPointer(u.m, s, n, b) =
                [free |-> fr \ {b}, dir |-> [di EXCEPT ![s].direct[n] = b], nblock |-> nb, cache |-> ca2, dirty |-> dy]
        BY <4>4, <4>5, SMTT(30)
      <4> QED BY <4>1, <4>2, <4>6 DEF Taken
    <3>6. z = Done(Taken(m, s, n, b), w \o <<>>, b)
      <4>1. u.r = b /\ u.w = w
        BY <3>1, <3>3 DEF Done
      <4> QED BY <2>3, <3>2, <3>5, <4>1 DEF Return, Done
    <3>7. x = Done(Taken(m, s, n, b), w, b)
      BY <1>6, <2>1, <3>4, <3>6, NothingBefore
    <3>8. NewBlock(m, s, n, p, x)
      BY <1>10, <3>3, <3>7 DEF NewBlock
    <3> QED BY <1>10, <3>8
  <2> QED BY <1>4, <2>4, <2>5, <2>6, AllocBlock
<1> QED BY <1>8, <1>9, <1>10

\* Taking a block for a file.
LEMMA TakenOK ==
    ASSUME NEW m, MemInv(m), NEW s \in Slot, NEW n \in Direct, m.dir[s].direct[n] = 0,
           NEW b \in m.free, NEW m2, m2 = Taken(m, s, n, b)
    PROVE  /\ Contract(m, Done(m2, <<BitmapWrite(m.free \ {b})>>, b))
           /\ b \in Blk /\ b \notin m2.free
<1>1. /\ m.free \subseteq Blk /\ m.dir \in [Slot -> File] /\ m.dirty \subseteq Blk
      /\ m.cache \in [Blk -> Page \cup {Unmapped}] /\ m.nblock \in Nat
      /\ Owned(m.dir, m.free) /\ Distinct(m.dir) /\ \A x \in m.dirty : m.cache[x] # Unmapped
  BY DEF MemInv, Memory
<1>2. b \in Blk /\ b # 0 /\ b \in Int /\ b >= 0
  <2>1. b \in Blk
    BY <1>1
  <2>2. b \in Nat /\ b # 0
    BY <2>1, FsNumbers
  <2> QED BY <2>1, <2>2
<1>3. PICK d2 : d2 = [m.dir EXCEPT ![s].direct[n] = b]
  OBVIOUS
<1>4. /\ m2.free = m.free \ {b} /\ m2.dir = d2 /\ m2.dirty = m.dirty
      /\ m2.cache = [m.cache EXCEPT ![b] = IF m.cache[b] # Unmapped THEN m.cache[b] ELSE Filled(0)]
  BY <1>3 DEF Taken
<1>5. PICK f : f = m.dir[s]
  OBVIOUS
<1>6. f \in File /\ f.direct \in [Direct -> {0} \cup Blk] /\ f.direct[n] = 0
  BY <1>1, <1>5, FileFields
<1>7. PICK g : g = [f EXCEPT !.direct[n] = b]
  OBVIOUS
<1>8. /\ g \in File /\ g.name = f.name /\ g.direct[n] = b
      /\ \A k \in Direct : k # n => g.direct[k] = f.direct[k]
  BY <1>2, <1>6, <1>7 DEF File
<1>9. d2 \in [Slot -> File] /\ d2[s] = g /\ \A t \in Slot : t # s => d2[t] = m.dir[t]
  BY <1>1, <1>3, <1>5, <1>7, <1>8
<1>10. /\ \A t \in Slot : d2[t].name = m.dir[t].name
       /\ d2[s].direct[n] = b
       /\ \A t \in Slot, k \in Direct : ~(t = s /\ k = n) => d2[t].direct[k] = m.dir[t].direct[k]
  BY <1>5, <1>8, <1>9
<1>11. \A t \in Slot, k \in Direct : m.dir[t].direct[k] # b
  BY <1>1, <1>2 DEF Owned
<1>12. Owned(d2, m.free \ {b})
  <2>1. SUFFICES ASSUME NEW t \in Slot, NEW k \in Direct, d2[t].direct[k] # 0
                 PROVE  /\ d2[t].direct[k] \notin m.free \ {b}
                        /\ \A u \in Slot, j \in Direct : d2[u].direct[j] = d2[t].direct[k] => u = t /\ j = k
    BY DEF Owned
  <2>2. CASE t = s /\ k = n
    BY <2>2, <1>10, <1>11
  <2>3. CASE ~(t = s /\ k = n)
    BY <2>1, <2>3, <1>1, <1>10, <1>11 DEF Owned
  <2> QED BY <2>2, <2>3
<1>13. Distinct(d2)
  BY <1>1, <1>10 DEF Distinct
<1>14. PICK q : q = IF m.cache[b] # Unmapped THEN m.cache[b] ELSE Filled(0)
  OBVIOUS
<1>15. q \in Page
  <2>1. m.cache[b] \in Page \cup {Unmapped} /\ Filled(0) \in Page
    BY <1>1, <1>2, FilledIsMapped
  <2> QED BY <1>14, <2>1
<1>16. /\ m2.cache = [m.cache EXCEPT ![b] = q]
       /\ m2.cache \in [Blk -> Page \cup {Unmapped}]
       /\ \A x \in m2.dirty : m2.cache[x] # Unmapped
  BY <1>1, <1>2, <1>4, <1>14, <1>15, FilledIsMapped
<1>17. m2 \in Memory
  <2>1. m2 = [free |-> m.free \ {b}, dir |-> d2, nblock |-> m.nblock, cache |-> m2.cache, dirty |-> m.dirty]
    BY <1>3 DEF Taken
  <2> QED BY <1>1, <1>9, <1>16, <2>1 DEF Memory
<1>18. MemInv(m2)
  BY <1>4, <1>12, <1>13, <1>16, <1>17 DEF MemInv
<1>19. PICK w : w = <<BitmapWrite(m.free \ {b})>>
  OBVIOUS
<1>20. w \in Seq(Write) /\ Len(w) = 1 /\ w[1] = BitmapWrite(m.free \ {b})
  <2>1. BitmapWrite(m.free \ {b}) \in Write
    BY <1>1 DEF Write, BitmapWrite
  <2> QED BY <1>19, <2>1
<1>21. w[1].what = "bitmap" /\ w[1].free = m2.free
  BY <1>4, <1>20 DEF BitmapWrite
<1>22. WritesOK(m2, w) /\ MapPending(w)
  BY <1>20, <1>21 DEF WritesOK, MapPending
<1>23. Follows(m.dir, m.free, m2, w)
  BY <1>4, <1>10, <1>22 DEF Follows
<1>24. b \notin Panics
  BY <1>2 DEF Panics, PANIC, PANIC_NO_MEM
<1>25. Keeps(m, m2)
  <2>1. \A x \in Blk : m2.cache[x] = m.cache[x] \/ (m.cache[x] = Unmapped /\ x \in m.free)
    BY <1>1, <1>14, <1>16
  <2>3. \A t \in Slot, k \in Direct : m.dir[t].direct[k] # 0 => m2.dir[t].direct[k] = m.dir[t].direct[k]
    BY <1>4, <1>10
  <2> QED BY <1>4, <2>1, <2>3 DEF Keeps
<1> QED BY <1>2, <1>4, <1>18, <1>19, <1>22, <1>23, <1>24, <1>25 DEF Contract, Done

\* The bitmap without a block that has been given back.
LEMMA GivenBack ==
    ASSUME NEW m, MemInv(m), NEW b \in m.free, NEW r \in Int, r \notin Panics
    PROVE  Contract(m, Done(m, <<BitmapWrite(m.free \ {b})>>, r))
<1>1. PICK w : w = <<BitmapWrite(m.free \ {b})>>
  OBVIOUS
<1>2. w \in Seq(Write) /\ Len(w) = 1 /\ w[1] = BitmapWrite(m.free \ {b})
  <2>1. BitmapWrite(m.free \ {b}) \in Write
    BY DEF Write, BitmapWrite, MemInv, Memory
  <2> QED BY <1>1, <2>1
<1>3. w[1].what = "bitmap" /\ w[1].free \subseteq m.free
  BY <1>2 DEF BitmapWrite
<1>4. WritesOK(m, w)
  <2>1. \A i \in 1 .. Len(w) : i = 1 /\ 1 .. i - 1 = {}
    BY <1>2
  <2> QED BY <1>2, <1>3, <2>1 DEF WritesOK
<1>5. Follows(m.dir, m.free, m, w) /\ Keeps(m, m)
  BY DEF Follows, Keeps
<1> QED BY <1>1, <1>4, <1>5 DEF Contract, Done

\* What the cache holds is no matter for the directory.
LEMMA CacheOnly ==
    ASSUME NEW m, MemInv(m), NEW m2 \in Memory, m2.dir = m.dir, m2.free = m.free,
           \A b \in Blk : m.cache[b] # Unmapped => m2.cache[b] # Unmapped,
           \A b \in m2.dirty : m2.cache[b] # Unmapped
    PROVE  /\ MemInv(m2)
           /\ \A w : WritesOK(m, w) => WritesOK(m2, w)
           /\ \A d, free, w : Follows(d, free, m, w) => Follows(d, free, m2, w)
<1>1. MemInv(m2)
  BY DEF MemInv
<1>2. ASSUME NEW w, WritesOK(m, w) PROVE WritesOK(m2, w)
  <2>1. ASSUME NEW i \in 1 .. Len(w), w[i].what = "data" PROVE m2.cache[w[i].b] # Unmapped
    <3>1. w[i] \in Write /\ m.cache[w[i].b] # Unmapped
      BY <1>2, <2>1 DEF WritesOK
    <3>2. w[i].b \in Blk
      BY <2>1, <3>1 DEF Write
    <3> QED BY <3>1, <3>2
  <2> QED BY <1>2, <2>1 DEF WritesOK
<1>3. ASSUME NEW d, NEW free, NEW w, Follows(d, free, m, w) PROVE Follows(d, free, m2, w)
  BY <1>3 DEF Follows
<1> QED BY <1>1, <1>2, <1>3

\* read_block of a block in use.
LEMMA ReadBlock ==
    ASSUME disk.data \in [Blk -> Page], NEW m, MemInv(m), NEW b \in Blk, b \notin m.free,
           NEW y, y = read_block(m, b)
    PROVE  y = Done(m, <<>>, E_NO_MEM) \/
           \E m2 : /\ y = Done(m2, <<>>, b) /\ MemInv(m2) /\ m2.dir = m.dir /\ m2.free = m.free
                   /\ \A w : WritesOK(m, w) => WritesOK(m2, w)
                   /\ \A d, free, w : Follows(d, free, m, w) => Follows(d, free, m2, w)
                   /\ m.dirty \subseteq m2.dirty
                   /\ \A x \in Blk : \/ m2.cache[x] = m.cache[x]
                                     \/ m.cache[x] = Unmapped /\ m2.cache[x] = disk.data[x]
<1>1. CASE m.cache[b] # Unmapped
  <2>1. y = Done(m, <<>>, b)
    BY <1>1 DEF read_block, block_is_free, block_is_mapped, Return
  <2> QED BY <2>1
<1>3. CASE m.cache[b] = Unmapped /\ Refused(m, b)
  <2>1. y = Done(m, <<>>, E_NO_MEM)
    BY <1>3 DEF read_block, block_is_free, block_is_mapped, Return
  <2> QED BY <2>1
<1>2. CASE m.cache[b] = Unmapped /\ ~Refused(m, b)
  <2>1. PICK m2 : m2 = [m EXCEPT !.cache[b] = disk.data[b], !.dirty = @ \cup {b}]
    OBVIOUS
  <2>2. y = Done(m2, <<>>, b)
    BY <1>2, <2>1 DEF read_block, block_is_free, block_is_mapped, Return
  <2>3. disk.data[b] \in Page /\ disk.data[b] # Unmapped
    BY FilledIsMapped
  <2>4. m \in Memory /\ m.cache \in [Blk -> Page \cup {Unmapped}] /\ m.dirty \subseteq Blk
        /\ \A x \in m.dirty : m.cache[x] # Unmapped
    BY DEF MemInv, Memory
  <2>5. /\ m2 \in Memory /\ m2.dir = m.dir /\ m2.free = m.free /\ m2.dirty = m.dirty \cup {b}
        /\ m2.cache = [m.cache EXCEPT ![b] = disk.data[b]]
    BY <2>1, <2>3, <2>4 DEF Memory
  <2>6. /\ \A x \in Blk : m.cache[x] # Unmapped => m2.cache[x] # Unmapped
        /\ \A x \in m2.dirty : m2.cache[x] # Unmapped
    BY <2>3, <2>4, <2>5
  <2>7. \A x \in Blk : m2.cache[x] = m.cache[x] \/ (m.cache[x] = Unmapped /\ m2.cache[x] = disk.data[x])
    BY <1>2, <2>4, <2>5
  <2>8. /\ MemInv(m2)
        /\ \A w : WritesOK(m, w) => WritesOK(m2, w)
        /\ \A d, free, w : Follows(d, free, m, w) => Follows(d, free, m2, w)
    BY <2>5, <2>6, CacheOnly
  <2>9. m.dirty \subseteq m2.dirty
    BY <2>5
  <2> QED BY ONLY <2>2, <2>5, <2>7, <2>8, <2>9
<1> QED BY <1>1, <1>2, <1>3

\* MAP: block n of file s, which is taken if there is none.
LEMMA GetBlock ==
    ASSUME DirectFiles, disk.data \in [Blk -> Page], NEW m, MemInv(m), NEW s \in Slot, NEW n \in Direct,
           NEW x, x = file_get_block(m, s, n)
    PROVE  Contract(m, x)
<1>1. PICK p : p = m.dir[s].direct[n]
  OBVIOUS
<1>2. PICK v : v = file_map_block(m, s, n, TRUE)
  OBVIOUS
<1>3. x = IF v.r < 0 THEN v ELSE [read_block(v.m, v.r) EXCEPT !.w = v.w \o @]
  BY <1>2 DEF file_get_block, Then
<1>4. p \in {0} \cup Blk /\ (p # 0 => p \notin m.free)
  BY <1>1, FileFields DEF MemInv, Memory, Owned
<1>5. ASSUME NEW b \in Blk, NEW m1, NEW w, v = Done(m1, w, b), Contract(m, v), b \notin m1.free
      PROVE  Contract(m, x)
  <2>1. /\ MemInv(m1) /\ WritesOK(m1, w) /\ Follows(m.dir, m.free, m1, w) /\ Keeps(m, m1)
        /\ v.m = m1 /\ v.w = w /\ v.r = b
    BY <1>5 DEF Contract, Done
  <2>2. b \in Nat /\ b \notin Panics
    BY <1>5, FsNumbers DEF Panics, PANIC, PANIC_NO_MEM
  <2>3. w \o <<>> = w
    BY <2>1, ConcatEmptySeq DEF WritesOK
  <2>4. CASE read_block(m1, b) = Done(m1, <<>>, E_NO_MEM)
    <3>1. x = Done(m1, w \o <<>>, E_NO_MEM)
      BY <1>3, <2>1, <2>2, <2>4 DEF Done
    <3>2. E_NO_MEM \in Int /\ E_NO_MEM \notin Panics
      BY DEF E_NO_MEM, Panics, PANIC, PANIC_NO_MEM
    <3> QED BY <2>1, <2>3, <3>1, <3>2 DEF Contract, Done
  <2>5. CASE read_block(m1, b) # Done(m1, <<>>, E_NO_MEM)
    <3>1. PICK m2 : /\ read_block(m1, b) = Done(m2, <<>>, b) /\ MemInv(m2)
                    /\ WritesOK(m2, w) /\ Follows(m.dir, m.free, m2, w)
                    /\ m2.dir = m1.dir /\ m1.dirty \subseteq m2.dirty
                    /\ \A y \in Blk : \/ m2.cache[y] = m1.cache[y]
                                      \/ m1.cache[y] = Unmapped /\ m2.cache[y] = disk.data[y]
      BY <1>5, <2>1, <2>5, ReadBlock
    <3>2. x = Done(m2, w \o <<>>, b)
      BY <1>3, <2>1, <2>2, <3>1 DEF Done
    <3>3. Keeps(m, m2)
      BY <2>1, <3>1 DEF Keeps
    <3> QED BY <2>2, <2>3, <3>1, <3>2, <3>3 DEF Contract, Done
  <2> QED BY <2>4, <2>5
<1>6. CASE v = Done(m, <<>>, E_NOT_FOUND) \/ v = Done(m, <<>>, E_NO_DISK)
  <2>0. v.r < 0
    BY <1>6 DEF Done, E_NOT_FOUND, E_NO_DISK
  <2>1. x = v
    BY <1>3, <2>0
  <2>2. E_NOT_FOUND \in Int /\ E_NO_DISK \in Int /\ E_NOT_FOUND \notin Panics /\ E_NO_DISK \notin Panics
    BY DEF E_NOT_FOUND, E_NO_DISK, Panics, PANIC, PANIC_NO_MEM
  <2> QED BY <1>6, <2>1, <2>2, NothingChanged
<1>7. CASE p # 0 /\ v = Done(m, <<>>, p)
  <2>1. p \in Int /\ p \notin Panics
    BY <1>4, <1>7, FsNumbers DEF Panics, PANIC, PANIC_NO_MEM
  <2>2. Contract(m, v)
    BY <1>7, <2>1, NothingChanged
  <2> QED BY <1>1, <1>4, <1>5, <1>7, <2>2
<1>8. CASE p = 0 /\ \E b \in m.free : v = Done(Taken(m, s, n, b), <<BitmapWrite(m.free \ {b})>>, b)
  <2>1. PICK b \in m.free : v = Done(Taken(m, s, n, b), <<BitmapWrite(m.free \ {b})>>, b)
    BY <1>8
  <2>2. Contract(m, v) /\ b \in Blk /\ b \notin Taken(m, s, n, b).free
    BY <1>1, <1>8, <2>1, TakenOK
  <2> QED BY <1>1, <1>5, <1>8, <2>1, <2>2
<1>10. CASE \E b \in m.free : v = Done(m, <<BitmapWrite(m.free \ {b})>>, E_NO_MEM)
  <2>1. PICK b \in m.free : v = Done(m, <<BitmapWrite(m.free \ {b})>>, E_NO_MEM)
    BY <1>10
  <2>2. x = v
    BY <1>3, <2>1 DEF Done, E_NO_MEM
  <2>3. E_NO_MEM \in Int /\ E_NO_MEM \notin Panics
    BY DEF E_NO_MEM, Panics, PANIC, PANIC_NO_MEM
  <2> QED BY <2>1, <2>2, <2>3, GivenBack
<1>9. \/ p # 0 /\ v = Done(m, <<>>, p)
      \/ v = Done(m, <<>>, E_NOT_FOUND)
      \/ v = Done(m, <<>>, E_NO_DISK)
      \/ \E b \in m.free : v = Done(m, <<BitmapWrite(m.free \ {b})>>, E_NO_MEM)
      \/ p = 0 /\ \E b \in m.free : v = Done(Taken(m, s, n, b), <<BitmapWrite(m.free \ {b})>>, b)
  <2>1. PICK al : al = TRUE
    OBVIOUS
  <2>2. v = file_map_block(m, s, n, al)
    BY <1>2, <2>1, Zenon
  <2>3. NoNewBlock(m, p, v) \/ NewBlock(m, s, n, p, v)
    BY <1>1, <2>2, MapBlock
  <2> QED BY <2>3 DEF NoNewBlock, NewBlock
<1> QED BY <1>6, <1>7, <1>8, <1>9, <1>10

\* DIRTY.
LEMMA DirtyBlock ==
    ASSUME DirectFiles, NEW m, MemInv(m), NEW s \in Slot, NEW n \in Direct, NEW x, x = file_dirty(m, s, n)
    PROVE  Contract(m, x) /\ (~(x.r < 0) => x.m.dir[s].direct[n] \in x.m.dirty)
<1>1. PICK p : p = m.dir[s].direct[n]
  OBVIOUS
<1>2. PICK v : v = file_map_block(m, s, n, FALSE)
  OBVIOUS
<1>3. x = IF v.r < 0 THEN v ELSE [dirty_block(v.m, v.r) EXCEPT !.w = v.w \o @]
  BY <1>2 DEF file_dirty, Then
<1>4. p \in {0} \cup Blk
  BY <1>1, FileFields DEF MemInv, Memory
<1>5. E_NOT_FOUND \in Int /\ E_NO_DISK \in Int /\ E_NOT_FOUND \notin Panics /\ E_NO_DISK \notin Panics /\ 0 \notin Panics
  BY DEF E_NOT_FOUND, E_NO_DISK, Panics, PANIC, PANIC_NO_MEM
<1>6. CASE v = Done(m, <<>>, E_NOT_FOUND) \/ v = Done(m, <<>>, E_NO_DISK)
  <2>0. v.r < 0
    BY <1>6 DEF Done, E_NOT_FOUND, E_NO_DISK
  <2>1. x = v
    BY <1>3, <2>0
  <2> QED BY <1>5, <1>6, <2>0, <2>1, NothingChanged
<1>7. CASE p # 0 /\ v = Done(m, <<>>, p)
  <2>1. p \in Blk /\ p \in Nat
    BY <1>4, <1>7, FsNumbers
  <2>2. PICK y : y = dirty_block(m, p)
    OBVIOUS
  <2>3. x = [y EXCEPT !.w = <<>> \o @]
    BY <1>3, <1>7, <2>1, <2>2 DEF Done
  <2>4. <<>> \in Seq(Write)
    OBVIOUS
  <2>5. CASE m.cache[p] = Unmapped
    <3>1. y = Done(m, <<>>, E_NOT_FOUND)
      BY <2>2, <2>5 DEF dirty_block, block_is_mapped, Return
    <3>2. x = y /\ x.r < 0
      BY <2>3, <2>4, <3>1, NothingBefore DEF Done, E_NOT_FOUND
    <3> QED BY <1>5, <3>1, <3>2, NothingChanged
  <2>6. CASE m.cache[p] # Unmapped
    <3>1. PICK m2 : m2 = [m EXCEPT !.dirty = @ \cup {p}]
      OBVIOUS
    <3>2. y = Done(m2, <<>>, 0)
      BY <2>2, <2>6, <3>1 DEF dirty_block, block_is_mapped, Return
    <3>3. x = Done(m2, <<>>, 0)
      BY <2>3, <2>4, <3>2, NothingBefore
    <3>4. m \in Memory /\ m.dirty \subseteq Blk /\ \A b \in m.dirty : m.cache[b] # Unmapped
      BY DEF MemInv, Memory
    <3>5. /\ m2 \in Memory /\ m2.dir = m.dir /\ m2.free = m.free /\ m2.cache = m.cache
          /\ m2.dirty = m.dirty \cup {p}
      BY <2>1, <3>1, <3>4 DEF Memory
    <3>6. MemInv(m2) /\ Follows(m.dir, m.free, m2, <<>>)
      <4>1. Follows(m.dir, m.free, m, <<>>)
        BY DEF Follows
      <4>2. \A b \in m2.dirty : m2.cache[b] # Unmapped
        BY <2>6, <3>4, <3>5
      <4> QED BY <3>5, <4>1, <4>2, CacheOnly
    <3>7. WritesOK(m2, <<>>)
      BY DEF WritesOK
    <3>8. Keeps(m, m2)
      BY <3>5 DEF Keeps
    <3>9. x.m = m2 /\ m2.dir[s].direct[n] \in m2.dirty
      BY <1>1, <3>3, <3>5 DEF Done
    <3> QED BY <1>5, <3>3, <3>6, <3>7, <3>8, <3>9 DEF Contract, Done
  <2> QED BY <2>5, <2>6
<1>8. \/ p # 0 /\ v = Done(m, <<>>, p)
      \/ v = Done(m, <<>>, E_NOT_FOUND)
      \/ v = Done(m, <<>>, E_NO_DISK)
  <2>1. PICK al : al = FALSE
    OBVIOUS
  <2>2. v = file_map_block(m, s, n, al) /\ ~al
    BY <1>2, <2>1, Zenon
  <2>3. NoNewBlock(m, p, v)
    BY <1>1, <2>2, MapBlock
  <2> QED BY <2>3 DEF NoNewBlock
<1> QED BY <1>6, <1>7, <1>8

-----------------------------------------------------------------------------
(* Requests that write the directory.                                       *)

\* What the step from m to n may do with pointers and names before the whole
\* directory is written: a pointer stays or its block is free, a name stays or is gone.
Gives(m, n) ==
    /\ \A s \in Slot, k \in Direct : m.dir[s].direct[k] \in {0, n.dir[s].direct[k]} \cup n.free
    /\ \A s \in Slot : \/ m.dir[s].name \in {NONE, n.dir[s].name}
                       \/ \A t \in Slot : n.dir[t].name # m.dir[s].name
    /\ m.free \subseteq n.free

\* The memory with another entry s, which points to the same blocks.
LEMMA EntryChanged ==
    ASSUME NEW m, MemInv(m), NEW s \in Slot, NEW m2 \in Memory, m2.dir[s].direct = m.dir[s].direct,
           \/ m2.dir[s].name \in {NONE, m.dir[s].name}
           \/ \A t \in Slot : m.dir[t].name # m2.dir[s].name,
           m2.free = m.free, m2.cache = m.cache, m2.dirty = m.dirty,
           \A t \in Slot : t # s => m2.dir[t] = m.dir[t]
    PROVE  MemInv(m2) /\ \A t \in Slot : m2.dir[t].direct = m.dir[t].direct
<1>1. /\ m \in Memory /\ m.dir \in [Slot -> File] /\ Owned(m.dir, m.free) /\ Distinct(m.dir)
      /\ \A b \in m.dirty : m.cache[b] # Unmapped
  BY DEF MemInv, Memory
<1>2. PICK d2 : d2 = m2.dir
  OBVIOUS
<1>3. \A t \in Slot : t # s => d2[t] = m.dir[t]
  BY <1>1, <1>2
<1>5. \A t \in Slot : d2[t].direct = m.dir[t].direct
  BY <1>2, <1>3
<1>6. Owned(d2, m.free)
  BY <1>1, <1>5 DEF Owned
<1>7. Distinct(d2)
  <2>1. SUFFICES ASSUME NEW t \in Slot, NEW u \in Slot, d2[t].name = d2[u].name, d2[t].name # NONE
                 PROVE  t = u
    BY DEF Distinct
  <2>2. CASE t # s /\ u # s
    BY <2>1, <2>2, <1>1, <1>3 DEF Distinct
  <2>3. CASE t = s /\ u # s
    BY <2>1, <2>3, <1>1, <1>2, <1>3 DEF Distinct
  <2>4. CASE t # s /\ u = s
    BY <2>1, <2>4, <1>1, <1>2, <1>3 DEF Distinct
  <2> QED BY <2>2, <2>3, <2>4
<1> QED BY <1>1, <1>2, <1>5, <1>6, <1>7 DEF MemInv

\* Truncation of a file: its blocks are given up and its size is set.
LEMMA Truncate ==
    ASSUME DirectFiles, NEW m, MemInv(m), NEW s \in Slot, NEW size \in 0 .. MaxSize,
           NEW x, x = file_truncate(m, s, size)
    PROVE  \E m2 : /\ x = Done(m2, <<>>, 0) /\ MemInv(m2) /\ Gives(m, m2)
                   /\ m2.dirty = m.dirty /\ m2.cache = m.cache
                   /\ \A t \in Slot : m2.dir[t].name = m.dir[t].name /\ (t # s => m2.dir[t] = m.dir[t])
                   /\ \A t \in Slot, k \in Direct : m2.dir[t].direct[k] \in {0, m.dir[t].direct[k]}
<1>1. /\ m \in Memory /\ m.dir \in [Slot -> File] /\ m.free \subseteq Blk
      /\ Owned(m.dir, m.free) /\ Distinct(m.dir)
      /\ \A b \in m.dirty : m.cache[b] # Unmapped
  BY DEF MemInv, Memory
<1>2. PICK f : f = m.dir[s]
  OBVIOUS
<1>3. f \in File /\ f.direct \in [Direct -> {0} \cup Blk] /\ f.size \in 0 .. MaxSize /\ f.indirect = 0
  BY <1>1, <1>2, FileFields
<1>4. PICK gone : gone = size .. f.size - 1
  OBVIOUS
<1>5. \A n \in gone : n \in Direct /\ n < NDIRECT
  BY <1>3, <1>4, FsNumbers DEF DirectFiles, Direct
<1>6. {n \in gone : n < NDIRECT} = gone /\ {n \in gone : n >= NDIRECT} = {}
  <2>1. \A n \in gone : n \in Int /\ NDIRECT \in Int
    BY <1>3, <1>4, FsNumbers
  <2> QED BY <1>5, <2>1
<1>7. PICK freed : freed = {f.direct[n] : n \in gone} \cap Blk
  OBVIOUS
<1>8. PICK dr : dr = [n \in DOMAIN f.direct |-> IF n \in gone THEN 0 ELSE f.direct[n]]
  OBVIOUS
<1>9. PICK m0 : m0 = file_clear_block(m, s, gone)
  OBVIOUS
<1>10. PICK d0 : d0 = [m.dir EXCEPT ![s].direct = dr]
  OBVIOUS
<1>11. PICK fr, di, nb, ca, dy : m = [free |-> fr, dir |-> di, nblock |-> nb, cache |-> ca, dirty |-> dy]
  BY <1>1 DEF Memory
<1>12. m0 = [free |-> fr \cup freed, dir |-> d0, nblock |-> nb, cache |-> ca, dirty |-> dy]
  <2>1. m.dir[s].direct = f.direct
    BY <1>2
  <2>2. m0 = [m EXCEPT !.free = @ \cup freed, !.dir[s].direct = dr]
    BY <1>7, <1>8, <1>9, <2>1, Zenon DEF file_clear_block
  <2>3. m0 = [m EXCEPT !.free = @ \cup freed, !.dir = d0]
    BY <1>10, <2>2, Zenon
  <2> QED BY <1>11, <2>3
<1>13. PICK g0 : g0 = [f EXCEPT !.direct = dr]
  OBVIOUS
<1>14. d0[s] = g0 /\ d0 = [m.dir EXCEPT ![s] = g0] /\ g0.indirect = 0
  BY <1>1, <1>2, <1>3, <1>10, <1>13 DEF File
<1>15. PICK m2 : m2 = [m0 EXCEPT !.dir[s].size = size]
  OBVIOUS
<1>16. x = Done(m2, <<>>, 0)
  <2>1. PICK c : c = Return(m0, 0)
    OBVIOUS
  <2>2. c.r = 0 /\ c.m = m0 /\ c.w = <<>>
    BY <2>1 DEF Return, Done
  <2>3. m0.dir[s].indirect = 0
    BY <1>12, <1>14
  <2> DEFINE ns == {n \in size .. m.dir[s].size - 1 : n < NDIRECT}
             far == {n \in size .. m.dir[s].size - 1 : n >= NDIRECT}
             x0 == IF far = {} THEN Return(file_clear_block(m, s, ns), 0)
                   ELSE clear_indirect(file_clear_block(m, s, ns), s, far)
             v == IF x0.r = E_NO_MEM THEN Return(x0.m, PANIC_NO_MEM)
                  ELSE IF x0.r < 0 THEN Return(x0.m, PANIC) ELSE x0
  <2>5. ns = gone /\ far = {}
    BY <1>2, <1>4, <1>6
  <2>8. x = IF v.r < 0 THEN v
            ELSE LET y == LET m3 == IF size <= NDIRECT /\ v.m.dir[s].indirect # 0
                                    THEN [free_block(v.m, v.m.dir[s].indirect) EXCEPT !.dir[s].indirect = 0]
                                    ELSE v.m
                          IN  Return([m3 EXCEPT !.dir[s].size = size], 0)
                 IN  [y EXCEPT !.w = v.w \o @]
    BY Zenon DEF file_truncate, Then
  <2> HIDE DEF ns, far
  <2>4. x0 = c
    BY <1>9, <2>1, <2>5
  <2> HIDE DEF x0
  <2>9. v = c
    BY <2>2, <2>4 DEF E_NO_MEM
  <2> HIDE DEF v
  <2>10. x = [Return(m2, 0) EXCEPT !.w = <<>> \o @]
    <3>1. PICK m3 : m3 = IF size <= NDIRECT /\ v.m.dir[s].indirect # 0
                         THEN [free_block(v.m, v.m.dir[s].indirect) EXCEPT !.dir[s].indirect = 0]
                         ELSE v.m
      OBVIOUS
    <3>2. m3 = m0
      BY <2>2, <2>3, <2>9, <3>1
    <3>3. x = [Return([m3 EXCEPT !.dir[s].size = size], 0) EXCEPT !.w = v.w \o @]
      <4>1. ~(v.r < 0)
        BY <2>2, <2>9
      <4> QED BY <2>8, <3>1, <4>1
    <3> QED BY <1>15, <2>2, <2>9, <3>2, <3>3
  <2>11. <<>> \in Seq(Write)
    OBVIOUS
  <2> QED BY <2>10, <2>11, NothingBefore DEF Return
<1>17. PICK g : g = [f EXCEPT !.direct = dr, !.size = size]
  OBVIOUS
<1>18. /\ g \in File /\ g.direct = dr /\ g.name = f.name /\ dr \in [Direct -> {0} \cup Blk]
       /\ \A n \in Direct : dr[n] = IF n \in gone THEN 0 ELSE f.direct[n]
  <2>1. DOMAIN f.direct = Direct
    BY <1>3
  <2>2. dr \in [Direct -> {0} \cup Blk] /\ \A n \in Direct : dr[n] = IF n \in gone THEN 0 ELSE f.direct[n]
    BY <1>3, <1>8, <2>1
  <2> QED BY <1>3, <1>17, <2>2 DEF File
<1>19. PICK d2 : d2 = [m.dir EXCEPT ![s] = g]
  OBVIOUS
<1>20. m2 = [free |-> fr \cup freed, dir |-> d2, nblock |-> nb, cache |-> ca, dirty |-> dy]
  <2>1. [d0 EXCEPT ![s].size = size] = d2
    <3>1. d0 \in [Slot -> {d0[t] : t \in Slot}] /\ DOMAIN d0 = Slot
      BY <1>1, <1>14
    <3>2. [g0 EXCEPT !.size = size] = g
      BY <1>3, <1>13, <1>17 DEF File
    <3>3. [d0 EXCEPT ![s].size = size] = [d0 EXCEPT ![s] = g]
      BY <1>14, <3>2
    <3>4. [d0 EXCEPT ![s] = g] = d2
      BY <1>1, <1>14, <1>19
    <3> QED BY <3>3, <3>4
  <2> QED BY <1>12, <1>15, <2>1
<1>21. /\ d2 \in [Slot -> File] /\ d2[s] = g /\ \A t \in Slot : t # s => d2[t] = m.dir[t]
  BY <1>1, <1>18, <1>19
<1>22. /\ m2 \in Memory /\ m2.dir = d2 /\ m2.free = m.free \cup freed
       /\ m2.cache = m.cache /\ m2.dirty = m.dirty
  BY <1>1, <1>7, <1>11, <1>20, <1>21 DEF Memory
<1>23. \A t \in Slot : d2[t].name = m.dir[t].name
  BY <1>2, <1>18, <1>21
<1>24. \A t \in Slot, k \in Direct : d2[t].direct[k] \in {0, m.dir[t].direct[k]}
  BY <1>2, <1>18, <1>21
<1>25. \A t \in Slot, k \in Direct : d2[t].direct[k] # 0 => d2[t].direct[k] \notin freed
  <2>1. SUFFICES ASSUME NEW t \in Slot, NEW k \in Direct, d2[t].direct[k] # 0, NEW n \in gone,
                        d2[t].direct[k] = f.direct[n]
                 PROVE  FALSE
    BY <1>7
  <2>2. m.dir[t].direct[k] = m.dir[s].direct[n] /\ m.dir[t].direct[k] # 0 /\ n \in Direct
    BY <1>2, <1>5, <1>24, <2>1
  <2>3. t = s /\ k = n
    BY <1>1, <2>2 DEF Owned
  <2> QED BY <1>18, <1>21, <2>1, <2>3
<1>26. Owned(d2, m2.free)
  BY <1>1, <1>22, <1>24, <1>25 DEF Owned
<1>27. Distinct(d2)
  BY <1>1, <1>23 DEF Distinct
<1>28. MemInv(m2)
  BY <1>1, <1>22, <1>26, <1>27 DEF MemInv
<1>29. \A t \in Slot, k \in Direct : m.dir[t].direct[k] \in {0, d2[t].direct[k]} \cup m2.free
  <2>1. SUFFICES ASSUME NEW t \in Slot, NEW k \in Direct, m.dir[t].direct[k] # d2[t].direct[k],
                        m.dir[t].direct[k] # 0
                 PROVE  m.dir[t].direct[k] \in m2.free
    OBVIOUS
  <2>2. t = s /\ k \in gone /\ f.direct[k] \in Blk
    BY <1>2, <1>3, <1>18, <1>21, <2>1
  <2>3. m.dir[t].direct[k] \in freed
    BY <1>2, <1>7, <2>2
  <2> QED BY <1>22, <2>3
<1>30. Gives(m, m2)
  BY <1>22, <1>23, <1>29 DEF Gives
<1> QED BY <1>16, <1>21, <1>22, <1>23, <1>24, <1>28, <1>30

\* Writes one after the other; the bitmap is among the first.
LEMMA WritesConcat ==
    ASSUME NEW m, NEW u, WritesOK(m, u), NEW v, WritesOK(m, v), ~MapPending(v)
    PROVE  /\ WritesOK(m, u \o v)
           /\ ~MapPending(u) => ~MapPending(u \o v)
           /\ \A s : DirPending(v, s) => DirPending(u \o v, s)
<1>1. u \in Seq(Write) /\ v \in Seq(Write)
  BY DEF WritesOK
<1>2. PICK x : x = u \o v
  OBVIOUS
<1>3. x \in Seq(Write) /\ Len(x) = Len(u) + Len(v) /\ Len(u) \in Nat /\ Len(v) \in Nat
  BY <1>1, <1>2
<1>4. \A i \in 1 .. Len(x) : \/ i \in 1 .. Len(u) /\ x[i] = u[i]
                             \/ i - Len(u) \in 1 .. Len(v) /\ x[i] = v[i - Len(u)]
  BY <1>1, <1>2, <1>3
<1>5. \A i \in 1 .. Len(v) : i + Len(u) \in 1 .. Len(x) /\ x[i + Len(u)] = v[i]
  BY <1>1, <1>2, <1>3
<1>6. WritesOK(m, x)
  <2>1. SUFFICES ASSUME NEW i \in 1 .. Len(x)
                 PROVE  /\ x[i].what = "bitmap" => /\ x[i].free \subseteq m.free
                                                   /\ \A j \in 1 .. i - 1 : x[j].what = "super"
                        /\ x[i].what = "dir" => x[i].file = m.dir[x[i].s]
                        /\ x[i].what = "data" => m.cache[x[i].b] # Unmapped
    BY <1>3 DEF WritesOK
  <2>2. CASE i \in 1 .. Len(u) /\ x[i] = u[i]
    <3>1. \A j \in 1 .. i - 1 : j \in 1 .. Len(u) /\ x[j] = u[j]
      BY <1>1, <1>2, <1>3, <2>2
    <3> QED BY <2>2, <3>1 DEF WritesOK
  <2>3. CASE i - Len(u) \in 1 .. Len(v) /\ x[i] = v[i - Len(u)]
    <3>1. PICK j \in 1 .. Len(v) : x[i] = v[j]
      BY <2>3
    <3>2. v[j].what # "bitmap"
      BY DEF MapPending
    <3> QED BY <3>1, <3>2 DEF WritesOK
  <2> QED BY <1>4, <2>2, <2>3
<1>7. ~MapPending(u) => ~MapPending(x)
  BY <1>4 DEF MapPending
<1>8. ASSUME NEW s, DirPending(v, s) PROVE DirPending(x, s)
  <2>1. PICK i \in 1 .. Len(v) : v[i].what = "dir" /\ v[i].s = s
    BY <1>8 DEF DirPending
  <2> QED BY <1>5, <2>1 DEF DirPending
<1> QED BY <1>2, <1>6, <1>7, <1>8

\* flush_dir writes every entry.
LEMMA FlushDir ==
    ASSUME NEW m, MemInv(m), NEW w, w = flush_dir(m).w
    PROVE  /\ flush_dir(m) = Done(m, w, 0)
           /\ WritesOK(m, w) /\ ~MapPending(w) /\ \A s \in Slot : DirPending(w, s)
<1>1. w = [s \in Slot |-> [what |-> "dir", s |-> s, file |-> m.dir[s]]]
  BY DEF flush_dir, Done
<1>2. flush_dir(m) = Done(m, w, 0)
  BY <1>1 DEF flush_dir
<1>3. \A s \in Slot : /\ w[s] = [what |-> "dir", s |-> s, file |-> m.dir[s]]
                      /\ w[s] \in Write
  <2>1. m.dir \in [Slot -> File]
    BY DEF MemInv, Memory
  <2> QED BY <1>1, <2>1 DEF Write
<1>4. PICK N \in Nat : Slot = 1 .. N
  BY FsNumbers
<1>5. w \in [1 .. N -> Write]
  BY <1>1, <1>3, <1>4
<1>6. w \in Seq(Write) /\ Len(w) = N
  BY <1>5
<1>7. ASSUME NEW i \in 1 .. Len(w) PROVE w[i].what = "dir" /\ w[i].s = i /\ w[i].file = m.dir[w[i].s]
  <2>1. i \in Slot
    BY <1>4, <1>6
  <2>2. w[i] = [what |-> "dir", s |-> i, file |-> m.dir[i]]
    BY <1>3, <2>1
  <2> QED BY ONLY <2>2
<1>8. WritesOK(m, w) /\ ~MapPending(w)
  BY <1>6, <1>7 DEF WritesOK, MapPending
<1>9. \A s \in Slot : DirPending(w, s)
  BY <1>4, <1>6, <1>7 DEF DirPending
<1> QED BY <1>2, <1>8, <1>9

\* Blocks in the cache can be written.
LEMMA DataWritesOK ==
    ASSUME NEW m, NEW N \in Nat, NEW bs \in [1 .. N -> Blk], \A i \in 1 .. N : m.cache[bs[i]] # Unmapped
    PROVE  WritesOK(m, DataWrites(bs)) /\ ~MapPending(DataWrites(bs))
<1>1. PICK w : w = DataWrites(bs)
  OBVIOUS
<1>2. w = [i \in 1 .. N |-> [what |-> "data", b |-> bs[i]]]
  BY <1>1 DEF DataWrites
<1>3. \A i \in 1 .. N : w[i] = [what |-> "data", b |-> bs[i]] /\ w[i] \in Write
  BY <1>2 DEF Write
<1>4. w \in [1 .. N -> Write]
  BY <1>2, <1>3
<1>5. w \in Seq(Write) /\ Len(w) = N
  BY <1>4
<1>6. \A i \in 1 .. Len(w) : w[i].what = "data" /\ m.cache[w[i].b] # Unmapped
  BY <1>3, <1>5
<1>7. WritesOK(m, w) /\ ~MapPending(w)
  BY <1>5, <1>6 DEF WritesOK, MapPending
<1> QED BY <1>1, <1>7

\* Whatever came before, the directory is written last and makes the disk sound.
LEMMA FlushedAtEnd ==
    ASSUME NEW m, NEW m2, MemInv(m2), Gives(m, m2), Keeps(m, m2),
           NEW u, WritesOK(m2, u), ~MapPending(u)
    PROVE  Contract(m, Done(m2, u \o flush_dir(m2).w, 0))
<1>1. PICK w : w = flush_dir(m2).w
  OBVIOUS
<1>2. WritesOK(m2, w) /\ ~MapPending(w) /\ \A s \in Slot : DirPending(w, s)
  BY <1>1, FlushDir
<1>3. PICK x : x = u \o w
  OBVIOUS
<1>4. WritesOK(m2, x) /\ ~MapPending(x) /\ \A s \in Slot : DirPending(x, s)
  BY <1>2, <1>3, WritesConcat
<1>5. Follows(m.dir, m.free, m2, x)
  BY <1>4 DEF Gives, Follows
<1>6. 0 \in Int /\ 0 \notin Panics
  BY DEF Panics, PANIC, PANIC_NO_MEM
<1> QED BY <1>1, <1>3, <1>4, <1>5, <1>6 DEF Contract, Done

\* SET_SIZE: truncation, or nothing but the new size, then the directory.
LEMMA SetSize ==
    ASSUME DirectFiles, NEW m, MemInv(m), NEW s \in Slot, NEW size \in 0 .. MaxSize,
           NEW x, x = file_set_size(m, s, size)
    PROVE  /\ Contract(m, x) /\ \E m2, w : x = Done(m2, w, 0)
           /\ \A t \in Slot : x.m.dir[t].name = m.dir[t].name
<1>1. PICK y : y = IF m.dir[s].size > size THEN file_truncate(m, s, size) ELSE Return(m, 0)
  OBVIOUS
<1>2. PICK m1 : /\ y = Done(m1, <<>>, 0) /\ MemInv(m1) /\ Gives(m, m1)
                /\ m1.dirty = m.dirty /\ m1.cache = m.cache
                /\ \A t \in Slot : m1.dir[t].name = m.dir[t].name /\ (t # s => m1.dir[t] = m.dir[t])
                /\ \A t \in Slot, k \in Direct : m1.dir[t].direct[k] \in {0, m.dir[t].direct[k]}
                /\ m.dir[s].size = size => m1 = m
  <2>0. m.dir[s].size \in Nat
    BY FileFields DEF MemInv, Memory
  <2>1. CASE m.dir[s].size > size
    BY <1>1, <2>0, <2>1, Truncate
  <2>2. CASE ~(m.dir[s].size > size)
    <3>1. y = Done(m, <<>>, 0)
      BY <1>1, <2>2 DEF Return
    <3>2. Gives(m, m)
      BY DEF Gives
    <3> QED BY <3>1, <3>2
  <2> QED BY <2>1, <2>2
<1>3. PICK m3 : m3 = [m1 EXCEPT !.dir[s].size = size]
  OBVIOUS
<1>4. x = [flush_dir(m3) EXCEPT !.w = <<>> \o @]
  <2>1. x = IF y.r < 0 THEN y ELSE [flush_dir([y.m EXCEPT !.dir[s].size = size]) EXCEPT !.w = y.w \o @]
    BY <1>1, Zenon DEF file_set_size, Then
  <2>2. y.r = 0 /\ y.m = m1 /\ y.w = <<>>
    BY <1>2 DEF Done
  <2> QED BY <1>3, <2>1, <2>2
<1>5. PICK g : g = [m1.dir[s] EXCEPT !.size = size]
  OBVIOUS
<1>6. m1.dir \in [Slot -> File] /\ m1 \in Memory
  BY <1>2 DEF MemInv, Memory
<1>7. g \in File /\ g.direct = m1.dir[s].direct /\ g.name = m1.dir[s].name /\ g.size = size
  <2>1. m1.dir[s] \in File
    BY <1>6
  <2> QED BY <1>5, <2>1 DEF File
<1>8. /\ m3 \in Memory /\ m3.free = m1.free /\ m3.cache = m1.cache /\ m3.dirty = m1.dirty
      /\ m3.dir[s] = g /\ \A t \in Slot : t # s => m3.dir[t] = m1.dir[t]
  BY <1>3, <1>5, <1>6, <1>7 DEF Memory
<1>9. /\ MemInv(m3) /\ m3.free = m1.free /\ m3.dir[s] = g
      /\ \A t \in Slot : t # s => m3.dir[t] = m1.dir[t]
      /\ \A t \in Slot : m3.dir[t].direct = m1.dir[t].direct
  <2>1. m3.dir[s].name \in {NONE, m1.dir[s].name} /\ m3.dir[s].direct = m1.dir[s].direct
    BY <1>7, <1>8
  <2> QED BY <2>1, <1>2, <1>8, EntryChanged
<1>10. \A t \in Slot : m3.dir[t].name = m1.dir[t].name
  BY <1>7, <1>9
<1>11. Gives(m, m3)
  BY <1>2, <1>9, <1>10 DEF Gives
<1>12. PICK w : w = flush_dir(m3).w
  OBVIOUS
<1>13. flush_dir(m3) = Done(m3, w, 0)
  BY <1>9, <1>12, FlushDir
<1>14. x = Done(m3, <<>> \o w, 0)
  BY <1>4, <1>13 DEF Done
<1>15. WritesOK(m3, <<>>) /\ ~MapPending(<<>>)
  BY DEF WritesOK, MapPending
<1>16. Keeps(m, m3)
  <2>1. m3.dirty = m.dirty /\ m3.cache = m.cache
    BY <1>2, <1>8
  <2>2. \A t \in Slot, k \in Direct : m3.dir[t].direct[k] \in {0, m.dir[t].direct[k]}
    BY <1>2, <1>9
  <2>3. ASSUME NEW t \in Slot, NEW k \in Direct, m3.dir[t].size = m.dir[t].size
        PROVE  m3.dir[t].direct[k] = m.dir[t].direct[k]
    <3>1. CASE t # s
      BY <1>2, <1>9, <3>1
    <3>2. CASE t = s
      BY <1>2, <1>7, <1>9, <2>3, <3>2
    <3> QED BY <3>1, <3>2
  <2> QED BY <2>1, <2>2, <2>3 DEF Keeps
<1>17. Contract(m, Done(m3, <<>> \o w, 0))
  BY <1>9, <1>11, <1>12, <1>15, <1>16, FlushedAtEnd
<1>18. \A t \in Slot : x.m.dir[t].name = m.dir[t].name
  BY <1>2, <1>10, <1>14 DEF Done
<1> QED BY <1>14, <1>17, <1>18

\* A name may be new in n, of an entry that had none in m; nothing else is, but for the
\* directory's length.
Created(m, n) ==
    /\ n.cache = m.cache /\ n.dirty = m.dirty /\ n.free = m.free
    /\ \A s \in Slot : /\ n.dir[s].direct = m.dir[s].direct /\ n.dir[s].size = m.dir[s].size
                       /\ n.dir[s].name = m.dir[s].name \/ m.dir[s].name = NONE

\* What is kept after a new name is kept, if names stay from then on.
LEMMA KeptOn ==
    ASSUME NEW m, NEW m1, NEW m2, Created(m, m1), Keeps(m1, m2),
           \A t \in Slot : m2.dir[t].name = m1.dir[t].name
    PROVE  Keeps(m, m2)
<1>1. ASSUME NEW s \in Slot, NEW k \in Direct, m.dir[s].direct[k] # 0, m2.dir[s].size = m.dir[s].size,
             m2.dir[s].name = m.dir[s].name
      PROVE  m2.dir[s].direct[k] = m.dir[s].direct[k]
  BY <1>1 DEF Created, Keeps
<1>2. /\ m.dirty \subseteq m2.dirty
      /\ \A b \in Blk : \/ m2.cache[b] = m.cache[b]
                        \/ m.cache[b] = Unmapped /\ (b \in m.free \/ m2.cache[b] = disk.data[b])
  BY DEF Created, Keeps
<1> QED BY <1>1, <1>2 DEF Keeps

\* A request after a change of this kind.
LEMMA ContractOn ==
    ASSUME NEW m, NEW m1, Created(m, m1), Follows(m.dir, m.free, m1, <<>>), NEW x, Contract(m1, x),
           \A t \in Slot : x.m.dir[t].name = m1.dir[t].name
    PROVE  Contract(m, x)
<1>1. Follows(m.dir, m.free, x.m, x.w)
  BY FollowsOn DEF Contract
<1>2. Keeps(m, x.m)
  BY KeptOn DEF Contract
<1> QED BY <1>1, <1>2 DEF Contract

\* A failure of a request: nothing but the bitmap on the disk misses a block.
Fails(m, x) == Contract(m, x) /\ x.r < 0 /\ x.m.dir = m.dir /\ x = Done(x.m, x.w, x.r)

\* An answer without writes, with the memory as it is.
LEMMA FailsEmpty ==
    ASSUME NEW m, MemInv(m), NEW r \in Int, r < 0, r \notin Panics
    PROVE  Fails(m, Done(m, <<>>, r))
<1>1. Contract(m, Done(m, <<>>, r))
  BY NothingChanged
<1> QED BY <1>1 DEF Fails, Done

\* A block that is taken for the directory.
LEMMA DirTaken ==
    ASSUME NEW m, MemInv(m), NEW b \in m.free, NEW m2, m2 = map_block([m EXCEPT !.free = @ \ {b}], b)
    PROVE  Fails(m, Done(m2, <<BitmapWrite(m.free \ {b})>>, GROWN))
<1>1. /\ m \in Memory /\ m.free \subseteq Blk /\ m.dir \in [Slot -> File] /\ m.dirty \subseteq Blk
      /\ m.cache \in [Blk -> Page \cup {Unmapped}]
      /\ Owned(m.dir, m.free) /\ Distinct(m.dir) /\ \A x \in m.dirty : m.cache[x] # Unmapped
  BY DEF MemInv, Memory
<1>2. PICK m1 : m1 = [m EXCEPT !.free = @ \ {b}]
  OBVIOUS
<1>3. /\ m1 \in Memory /\ m1.free = m.free \ {b} /\ m1.dir = m.dir /\ m1.dirty = m.dirty /\ m1.cache = m.cache
  BY <1>1, <1>2 DEF Memory
<1>4. /\ m2 \in Memory /\ m2.free = m.free \ {b} /\ m2.dir = m.dir /\ m2.dirty = m.dirty
      /\ \A x \in Blk : x # b => m2.cache[x] = m.cache[x]
      /\ m2.cache[b] = m.cache[b] \/ m.cache[b] = Unmapped
      /\ m2.cache[b] # Unmapped
  <2>1. CASE m1.cache[b] # Unmapped
    <3>1. m2 = m1
      BY <1>2, <2>1 DEF map_block, block_is_mapped
    <3> QED BY <1>3, <2>1, <3>1
  <2>2. CASE m1.cache[b] = Unmapped
    <3>1. m2 = [m1 EXCEPT !.cache[b] = Filled(0)]
      BY <1>2, <2>2 DEF map_block, block_is_mapped
    <3>2. Filled(0) \in Page /\ Filled(0) # Unmapped
      BY FilledIsMapped
    <3>3. /\ m2.free = m1.free /\ m2.dir = m1.dir /\ m2.dirty = m1.dirty
          /\ m2.cache = [m1.cache EXCEPT ![b] = Filled(0)] /\ m2 \in Memory
      BY <1>1, <1>3, <3>1, <3>2 DEF Memory
    <3> QED BY <1>1, <1>3, <2>2, <3>2, <3>3
  <2> QED BY <2>1, <2>2
<1>5. Owned(m.dir, m.free \ {b})
  BY <1>1 DEF Owned
<1>6. MemInv(m2)
  BY <1>1, <1>4, <1>5 DEF MemInv
<1>7. PICK w : w = <<BitmapWrite(m.free \ {b})>>
  OBVIOUS
<1>8. w \in Seq(Write) /\ Len(w) = 1 /\ w[1] = BitmapWrite(m.free \ {b})
  <2>1. BitmapWrite(m.free \ {b}) \in Write
    BY <1>1 DEF Write, BitmapWrite
  <2> QED BY <1>7, <2>1
<1>9. w[1].what = "bitmap" /\ w[1].free = m2.free
  <2>1. w[1].what = "bitmap" /\ w[1].free = m.free \ {b}
    BY <1>8 DEF BitmapWrite
  <2> QED BY <1>4, <2>1
<1>10. WritesOK(m2, w) /\ MapPending(w)
  BY <1>8, <1>9 DEF WritesOK, MapPending
<1>11. Follows(m.dir, m.free, m2, w)
  BY <1>4, <1>10 DEF Follows
<1>12. Keeps(m, m2)
  <2>1. \A x \in Blk : m2.cache[x] = m.cache[x] \/ (m.cache[x] = Unmapped /\ x \in m.free)
    BY <1>4
  <2> QED BY <1>4, <2>1 DEF Keeps
<1>13. GROWN \in Int /\ GROWN < 0 /\ GROWN \notin Panics
  BY DEF GROWN, Panics, PANIC, PANIC_NO_MEM
<1> QED BY <1>4, <1>6, <1>7, <1>10, <1>11, <1>12, <1>13 DEF Contract, Fails, Done

\* A second block of the directory.
LEMMA DirBlock ==
    ASSUME NEW m, MemInv(m), NEW x, x = dir_block(m)
    PROVE  Fails(m, x) /\ x.r \notin {E_NOT_FOUND, E_FILE_EXISTS}
<1>1. PICK y : y = alloc_block(m)
  OBVIOUS
<1>2. x = IF y.r < 0 THEN y ELSE [Return(y.m, GROWN) EXCEPT !.w = y.w \o @]
  BY <1>1 DEF dir_block, Then
<1>3. /\ E_NO_DISK \in Int /\ E_NO_DISK < 0 /\ E_NO_DISK \notin Panics
      /\ E_NO_MEM \in Int /\ E_NO_MEM < 0 /\ E_NO_MEM \notin Panics
      /\ E_NO_DISK \notin {E_NOT_FOUND, E_FILE_EXISTS} /\ E_NO_MEM \notin {E_NOT_FOUND, E_FILE_EXISTS}
      /\ GROWN \notin {E_NOT_FOUND, E_FILE_EXISTS}
  BY DEF E_NO_DISK, E_NO_MEM, E_NOT_FOUND, E_FILE_EXISTS, GROWN, Panics, PANIC, PANIC_NO_MEM
<1>4. CASE y = Done(m, <<>>, E_NO_DISK)
  <2>1. x = Done(m, <<>>, E_NO_DISK) /\ x.r = E_NO_DISK
    BY <1>2, <1>3, <1>4 DEF Done
  <2> QED BY <1>3, <2>1, FailsEmpty
<1>5. ASSUME NEW b \in m.free, y = Done(m, <<BitmapWrite(m.free \ {b})>>, E_NO_MEM)
      PROVE  Fails(m, x) /\ x.r \notin {E_NOT_FOUND, E_FILE_EXISTS}
  <2>1. x = y /\ x.r = E_NO_MEM /\ x.m = m
    BY <1>2, <1>3, <1>5 DEF Done
  <2>2. Contract(m, y)
    BY <1>3, <1>5, GivenBack
  <2> QED BY <1>3, <1>5, <2>1, <2>2 DEF Fails, Done
<1>6. ASSUME NEW b \in m.free,
             y = Done(map_block([m EXCEPT !.free = @ \ {b}], b), <<BitmapWrite(m.free \ {b})>>, b)
      PROVE  Fails(m, x) /\ x.r \notin {E_NOT_FOUND, E_FILE_EXISTS}
  <2>1. PICK m2, w : m2 = map_block([m EXCEPT !.free = @ \ {b}], b) /\ w = <<BitmapWrite(m.free \ {b})>>
    OBVIOUS
  <2>2. b \in Nat
    BY FsNumbers DEF MemInv, Memory
  <2>3. y.r = b /\ y.m = m2 /\ y.w = w
    BY <1>6, <2>1 DEF Done
  <2>4. x = Done(m2, w \o <<>>, GROWN)
    BY <1>2, <2>2, <2>3 DEF Return, Done
  <2>5. Fails(m, Done(m2, w, GROWN))
    BY <2>1, DirTaken
  <2>6. w \o <<>> = w
    <3>1. w \in Seq(Write)
      BY <2>5 DEF Fails, Contract, WritesOK, Done
    <3> QED BY <3>1, ConcatEmptySeq
  <2>7. x.r = GROWN
    BY <2>4 DEF Done
  <2> QED BY <1>3, <2>4, <2>5, <2>6, <2>7
<1> QED BY <1>1, <1>4, <1>5, <1>6, AllocBlock

\* walk_path gives an entry with the name, or fails.
LEMMA WalkPath ==
    ASSUME NEW m, MemInv(m), NEW name, NEW x, x = walk_path(m, name)
    PROVE  \/ \E s \in Slot : x = Done(m, <<>>, s) /\ m.dir[s].name = name
           \/ /\ Fails(m, x) /\ x.r # E_FILE_EXISTS /\ \A t \in Slot : m.dir[t].name # name
              /\ x.r = E_NOT_FOUND => x = Done(m, <<>>, E_NOT_FOUND)
<1>1. CASE Named(m, name) = {}
  <2>1. \A t \in Slot : m.dir[t].name # name
    BY <1>1 DEF Named
  <2>2. CASE m.nblock > 1
    <3>1. x = dir_block(m)
      BY <1>1, <2>2 DEF walk_path
    <3> QED BY <2>1, <3>1, DirBlock
  <2>3. CASE ~(m.nblock > 1)
    <3>1. x = Done(m, <<>>, E_NOT_FOUND)
      BY <1>1, <2>3 DEF walk_path, Return
    <3>2. /\ E_NOT_FOUND \in Int /\ E_NOT_FOUND < 0 /\ E_NOT_FOUND \notin Panics
          /\ E_NOT_FOUND # E_FILE_EXISTS
      BY DEF E_NOT_FOUND, E_FILE_EXISTS, Panics, PANIC, PANIC_NO_MEM
    <3>3. Fails(m, x) /\ x.r = E_NOT_FOUND
      BY <3>1, <3>2, FailsEmpty DEF Done
    <3> QED BY <2>1, <3>1, <3>2, <3>3
  <2> QED BY <2>2, <2>3
<1>2. CASE Named(m, name) # {}
  <2>1. PICK s : s = CHOOSE t \in Named(m, name) : \A u \in Named(m, name) : t <= u
    OBVIOUS
  <2>2. Named(m, name) \subseteq Nat
    BY FsNumbers DEF Named
  <2>3. s \in Named(m, name)
    <3>1. \E t \in Named(m, name) : \A u \in Named(m, name) : t <= u
      BY <1>2, <2>2, LeastNat
    <3> QED BY <2>1, <3>1
  <2>4. x = Done(m, <<>>, s)
    BY <1>2, <2>1 DEF walk_path, Return
  <2> QED BY <2>3, <2>4 DEF Named
<1> QED BY <1>1, <1>2

\* REMOVE: the file loses its blocks and its name, then the directory is written.
LEMMA Remove ==
    ASSUME DirectFiles, NEW m, MemInv(m), NEW name \in Name, NEW x, x = file_remove(m, name)
    PROVE  Contract(m, x)
<1>1. PICK v : v = walk_path(m, name)
  OBVIOUS
<1>2. x = IF v.r < 0 THEN v
          ELSE LET y == IF file_truncate(v.m, v.r, 0).r < 0 THEN file_truncate(v.m, v.r, 0)
                        ELSE [flush_dir([file_truncate(v.m, v.r, 0).m EXCEPT !.dir[v.r].name = NONE])
                                EXCEPT !.w = file_truncate(v.m, v.r, 0).w \o @]
               IN  [y EXCEPT !.w = v.w \o @]
  BY <1>1 DEF file_remove, Then
<1>3. CASE Fails(m, v)
  BY <1>2, <1>3 DEF Fails
<1>4. ASSUME NEW s \in Slot, v = Done(m, <<>>, s), m.dir[s].name = name PROVE Contract(m, x)
  <2>1. s \in Nat
    BY FsNumbers
  <2>2. v.r = s /\ v.m = m /\ v.w = <<>> /\ ~(v.r < 0)
    BY <1>4, <2>1 DEF Done
  <2>3. PICK z : z = file_truncate(m, s, 0)
    OBVIOUS
  <2>4. 0 \in 0 .. MaxSize
    BY FsNumbers
  <2>5. PICK m1 : /\ z = Done(m1, <<>>, 0) /\ MemInv(m1) /\ Gives(m, m1)
                  /\ m1.dirty = m.dirty /\ m1.cache = m.cache
                  /\ \A t \in Slot : t # s => m1.dir[t] = m.dir[t]
                  /\ \A t \in Slot, k \in Direct : m1.dir[t].direct[k] \in {0, m.dir[t].direct[k]}
    BY <2>3, <2>4, Truncate
  <2>6. PICK m3 : m3 = [m1 EXCEPT !.dir[s].name = NONE]
    OBVIOUS
  <2>7. PICK y : y = IF z.r < 0 THEN z ELSE [flush_dir([z.m EXCEPT !.dir[s].name = NONE]) EXCEPT !.w = z.w \o @]
    OBVIOUS
  <2>8. x = [y EXCEPT !.w = <<>> \o @]
    BY <1>2, <2>2, <2>3, <2>7
  <2>9. z.r = 0 /\ z.m = m1 /\ z.w = <<>>
    BY <2>5 DEF Done
  <2>10. y = [flush_dir(m3) EXCEPT !.w = <<>> \o @]
    BY <2>6, <2>7, <2>9
  <2>11. PICK g : g = [m1.dir[s] EXCEPT !.name = NONE]
    OBVIOUS
  <2>12. m1.dir \in [Slot -> File] /\ m1 \in Memory
    BY <2>5 DEF MemInv, Memory
  <2>13. g \in File /\ g.direct = m1.dir[s].direct /\ g.name = NONE
    <3>1. m1.dir[s] \in File
      BY <2>12
    <3> QED BY <2>11, <3>1 DEF File
  <2>14. /\ m3 \in Memory /\ m3.free = m1.free /\ m3.cache = m1.cache /\ m3.dirty = m1.dirty
         /\ m3.dir[s] = g /\ \A t \in Slot : t # s => m3.dir[t] = m1.dir[t]
    BY <2>6, <2>11, <2>12, <2>13 DEF Memory
  <2>15. /\ MemInv(m3) /\ m3.free = m1.free /\ m3.dir[s] = g
         /\ \A t \in Slot : t # s => m3.dir[t] = m1.dir[t]
         /\ \A t \in Slot : m3.dir[t].direct = m1.dir[t].direct
    <3>1. m3.dir[s].name \in {NONE, m1.dir[s].name} /\ m3.dir[s].direct = m1.dir[s].direct
      BY <2>13, <2>14
    <3> QED BY <3>1, <2>5, <2>14, EntryChanged
  <2>16. \A t \in Slot : \/ m.dir[t].name \in {NONE, m3.dir[t].name}
                         \/ \A u \in Slot : m3.dir[u].name # m.dir[t].name
    <3>1. SUFFICES ASSUME NEW t \in Slot, m.dir[t].name # NONE, m.dir[t].name # m3.dir[t].name,
                          NEW u \in Slot, m3.dir[u].name = m.dir[t].name
                   PROVE  FALSE
      OBVIOUS
    <3>2. u # s /\ m1.dir[u].name = m.dir[t].name /\ u # t
      BY <2>13, <2>15, <3>1
    <3>3. m.dir[t].name = m1.dir[t].name
      BY <2>5, <3>1, <3>2 DEF Gives
    <3> QED BY <2>5, <3>1, <3>2, <3>3 DEF MemInv, Distinct
  <2>17. Gives(m, m3)
    BY <2>5, <2>15, <2>16 DEF Gives
  <2>18. PICK w : w = flush_dir(m3).w
    OBVIOUS
  <2>19. flush_dir(m3) = Done(m3, w, 0) /\ WritesOK(m3, w)
    BY <2>15, <2>18, FlushDir
  <2>20. x = Done(m3, <<>> \o w, 0)
    <3>1. y = Done(m3, <<>> \o w, 0)
      BY <2>10, <2>19 DEF Done
    <3>2. <<>> \o w = w /\ w \in Seq(Write)
      BY <2>19, ConcatEmptySeq DEF WritesOK
    <3> QED BY <2>8, <3>1, <3>2, NothingBefore
  <2>21. WritesOK(m3, <<>>) /\ ~MapPending(<<>>)
    BY DEF WritesOK, MapPending
  <2>22. Keeps(m, m3)
    <3>1. m3.dirty = m.dirty /\ m3.cache = m.cache
      BY <2>5, <2>14
    <3>2. \A t \in Slot, k \in Direct : m3.dir[t].direct[k] \in {0, m.dir[t].direct[k]}
      BY <2>5, <2>15
    <3>3. m3.dir[s].name # m.dir[s].name
      BY <1>4, <2>13, <2>15, FsAssumption
    <3>4. \A t \in Slot : t # s => m3.dir[t] = m.dir[t]
      BY <2>5, <2>15
    <3> QED BY <3>1, <3>2, <3>3, <3>4 DEF Keeps
  <2>23. Contract(m, Done(m3, <<>> \o w, 0))
    BY <2>15, <2>17, <2>18, <2>21, <2>22, FlushedAtEnd
  <2> QED BY <2>20, <2>23
<1> QED BY <1>1, <1>3, <1>4, WalkPath

\* CLOSE: the file's dirty blocks, then the directory.
LEMMA Close ==
    ASSUME DirectFiles, NEW m, MemInv(m), NEW s \in Slot, NEW x, x = file_close(m, s)
    PROVE  /\ Contract(m, x) /\ x.m = m /\ x.r = 0
           /\ \A t \in Slot : DirPending(x.w, t)
           /\ \A n \in Direct : (n < m.dir[s].size /\ m.dir[s].direct[n] \in m.dirty) =>
                  DataPending(x.w, m.dir[s].direct[n])
<1>1. /\ m.dir \in [Slot -> File] /\ m.dirty \subseteq Blk /\ \A b \in m.dirty : m.cache[b] # Unmapped
  BY DEF MemInv, Memory
<1>2. PICK size : size = m.dir[s].size
  OBVIOUS
<1>3. size \in 0 .. MaxSize /\ ~(size > NDIRECT) /\ size \in Nat
  <2>1. size \in 0 .. MaxSize
    BY <1>1, <1>2, FileFields
  <2> QED BY <2>1, FsNumbers DEF DirectFiles
<1> DEFINE y == IF size > NDIRECT THEN file_block_walk(m, s, NDIRECT, FALSE) ELSE Return(m, 0)
           last == IF y.r < 0 THEN NDIRECT ELSE size
           written == {n \in 0 .. size - 1 : n < last /\ block_is_dirty(y.m, Pointer(y.m, s, n))}
           ns == InOrder(written)
           bs == [i \in DOMAIN ns |-> Pointer(y.m, s, ns[i])]
<1>4. file_flush(m, s) = IF y.r = PANIC THEN Return(m, PANIC) ELSE Done(y.m, DataWrites(bs), 0)
  BY <1>2, Zenon DEF file_flush
<1>5. y = Done(m, <<>>, 0)
  BY <1>3 DEF Return
<1> HIDE DEF y
<1>6. y.r = 0 /\ y.m = m
  BY <1>5 DEF Done
<1>7. written \subseteq 0 .. MaxSize
  BY <1>3, FsNumbers
<1>8a. \A n \in Direct : (n < size /\ m.dir[s].direct[n] \in m.dirty) => n \in written
  <2>1. SUFFICES ASSUME NEW n \in Direct, n < size, m.dir[s].direct[n] \in m.dirty PROVE n \in written
    OBVIOUS
  <2>2. n \in 0 .. size - 1 /\ n < NDIRECT
    BY <1>3, <2>1, FsNumbers DEF Direct
  <2>3. block_is_dirty(y.m, Pointer(y.m, s, n))
    BY <1>6, <2>1, <2>2 DEF Pointer, block_is_dirty
  <2>4. last = size
    BY <1>6
  <2> QED BY <2>1, <2>2, <2>3, <2>4
<1>8. \A n \in written : n \in Direct /\ Pointer(m, s, n) \in m.dirty
  <2>1. SUFFICES ASSUME NEW n \in written PROVE n \in Direct /\ Pointer(m, s, n) \in m.dirty
    OBVIOUS
  <2>2. n \in 0 .. size - 1 /\ block_is_dirty(m, Pointer(m, s, n))
    BY <1>6, <2>1
  <2>3. n \in Direct
    BY <1>3, <2>2, FsNumbers DEF DirectFiles, Direct
  <2> QED BY <2>2, <2>3 DEF block_is_dirty
<1> HIDE DEF written
<1>9. PICK N \in Nat : N = Cardinality(written)
  BY <1>7, FsNumbers, ListExists, FS_CardinalityType
<1>10. ns \in [1 .. N -> written] /\ \A n \in written : \E i \in 1 .. N : ns[i] = n
  <2>1. MaxSize \in Nat
    BY FsNumbers
  <2>2. Listed(InOrder(written), written)
    BY <1>7, <2>1, InOrderLists
  <2> QED BY <1>9, <2>2 DEF Listed
<1> HIDE DEF ns
<1>11. bs \in [1 .. N -> Blk] /\ \A i \in 1 .. N : m.cache[bs[i]] # Unmapped
  <2>1. \A i \in 1 .. N : bs[i] \in m.dirty
    BY <1>6, <1>8, <1>10
  <2>2. DOMAIN bs = 1 .. N /\ bs = [i \in 1 .. N |-> bs[i]]
    BY <1>10
  <2> QED BY <1>1, <2>1, <2>2
<1>11a. \A n \in written : \E i \in 1 .. N : bs[i] = m.dir[s].direct[n]
  <2>1. SUFFICES ASSUME NEW n \in written PROVE \E i \in 1 .. N : bs[i] = m.dir[s].direct[n]
    OBVIOUS
  <2>2. PICK i \in 1 .. N : ns[i] = n
    BY <1>10, <2>1
  <2>3. n \in Direct /\ n < NDIRECT
    BY <1>8, <2>1, FsNumbers DEF Direct
  <2>4. bs[i] = Pointer(m, s, n)
    BY <1>6, <1>10, <2>2
  <2> QED BY <2>3, <2>4 DEF Pointer
<1> HIDE DEF bs
<1>12. PICK u : u = DataWrites(bs)
  OBVIOUS
<1>13. WritesOK(m, u) /\ ~MapPending(u)
  BY <1>11, <1>12, DataWritesOK
<1>14. file_flush(m, s) = Done(m, u, 0)
  <2>1. 0 # PANIC
    BY DEF PANIC
  <2> QED BY <1>4, <1>6, <1>12, <2>1
<1>15. x = [flush_dir(m) EXCEPT !.w = u \o @]
  <2>1. PICK v : v = file_flush(m, s)
    OBVIOUS
  <2>2. x = IF v.r < 0 THEN v ELSE [flush_dir(v.m) EXCEPT !.w = v.w \o @]
    BY <2>1 DEF file_close, Then
  <2>3. v.r = 0 /\ v.m = m /\ v.w = u
    BY <1>14, <2>1 DEF Done
  <2> QED BY <2>2, <2>3
<1>16. PICK w : w = flush_dir(m).w
  OBVIOUS
<1>17. flush_dir(m) = Done(m, w, 0)
  BY <1>16, FlushDir
<1>18. x = Done(m, u \o w, 0)
  <2>1. PICK f, v : f = flush_dir(m) /\ v = u \o w
    OBVIOUS
  <2>2. f = [m |-> m, w |-> w, r |-> 0]
    BY <1>17, <2>1 DEF Done
  <2>3. x = [f EXCEPT !.w = v]
    BY <1>15, <2>1, <2>2
  <2>4. x = [m |-> m, w |-> v, r |-> 0]
    BY <2>2, <2>3
  <2> QED BY <2>1, <2>4 DEF Done
<1>19. Gives(m, m)
  BY DEF Gives
<1>20. Contract(m, Done(m, u \o w, 0))
  <2>1. Keeps(m, m)
    BY DEF Keeps
  <2> QED BY <1>13, <1>16, <1>19, <2>1, FlushedAtEnd
<1>21. x.m = m /\ x.w = u \o w /\ x.r = 0
  BY <1>18 DEF Done
<1>22. \A t \in Slot : DirPending(u \o w, t)
  BY <1>13, <1>16, FlushDir, WritesConcat
<1>23. ASSUME NEW n \in Direct, n < m.dir[s].size, m.dir[s].direct[n] \in m.dirty
       PROVE  DataPending(u \o w, m.dir[s].direct[n])
  <2>1. PICK i \in 1 .. N : bs[i] = m.dir[s].direct[n]
    BY <1>2, <1>8a, <1>11a, <1>23
  <2>2. DOMAIN u = 1 .. N /\ u[i] = [what |-> "data", b |-> bs[i]]
    BY <1>11, <1>12 DEF DataWrites
  <2>3. u \in Seq(Write) /\ w \in Seq(Write)
    BY <1>13, <1>16, FlushDir DEF WritesOK
  <2>4. Len(u) = N /\ i \in 1 .. Len(u \o w) /\ (u \o w)[i] = u[i]
    BY <2>2, <2>3
  <2>5. u[i].what = "data" /\ u[i].b = m.dir[s].direct[n]
    BY <2>1, <2>2
  <2> QED BY <2>4, <2>5 DEF DataPending
<1> QED BY <1>18, <1>20, <1>21, <1>22, <1>23

\* SYNC: the bitmap, the directory and every dirty block.
LEMMA Sync ==
    ASSUME NEW m, MemInv(m), NEW x, x = fs_sync(m)
    PROVE  Contract(m, x)
<1>1. /\ m.free \subseteq Blk /\ m.dirty \subseteq Blk /\ \A b \in m.dirty : m.cache[b] # Unmapped
      /\ m.nblock \in Nat
  BY DEF MemInv, Memory
<1>2. PICK v, w, u : v = <<SuperWrite(m.nblock), BitmapWrite(m.free)>> /\ w = flush_dir(m).w /\ u = DataWrites(InOrder(m.dirty))
  OBVIOUS
<1>3. x = Done(m, (v \o w) \o u, 0)
  BY <1>2 DEF fs_sync, SuperWrite, BitmapWrite
<1>4. WritesOK(m, v)
  <2>1. BitmapWrite(m.free) \in Write /\ SuperWrite(m.nblock) \in Write
    BY <1>1 DEF Write, BitmapWrite, SuperWrite
  <2>2. v \in Seq(Write) /\ Len(v) = 2 /\ v[1] = SuperWrite(m.nblock) /\ v[2] = BitmapWrite(m.free)
    BY <1>2, <2>1
  <2>3. v[1].what = "super" /\ v[2].what = "bitmap" /\ v[2].free = m.free
    BY <2>2 DEF BitmapWrite, SuperWrite
  <2>4. \A i \in 1 .. Len(v) : (i = 1 \/ i = 2) /\ \A j \in 1 .. i - 1 : i = 2 /\ j = 1
    BY <2>2
  <2> QED BY <2>2, <2>3, <2>4 DEF WritesOK
<1>5. WritesOK(m, w) /\ ~MapPending(w)
  BY <1>2, FlushDir
<1>6. WritesOK(m, u) /\ ~MapPending(u)
  <2>1. m.dirty \subseteq 0 .. s_nblocks
    BY <1>1, FsNumbers DEF Blk
  <2>2. PICK q : q = InOrder(m.dirty)
    OBVIOUS
  <2>3. Listed(q, m.dirty) /\ Cardinality(m.dirty) \in Nat
    BY <2>1, <2>2, FsNumbers, ListExists, InOrderLists, FS_CardinalityType
  <2>4. PICK N \in Nat : q \in [1 .. N -> m.dirty]
    BY <2>3 DEF Listed
  <2>5. q \in [1 .. N -> Blk] /\ \A i \in 1 .. N : m.cache[q[i]] # Unmapped
    BY <1>1, <2>4
  <2> QED BY <1>2, <2>2, <2>5, DataWritesOK
<1>7. WritesOK(m, v \o w)
  BY <1>4, <1>5, WritesConcat
<1>8. WritesOK(m, (v \o w) \o u)
  BY <1>6, <1>7, WritesConcat
<1>9. Follows(m.dir, m.free, m, (v \o w) \o u)
  BY DEF Follows
<1>10. 0 \in Int /\ 0 \notin Panics
  BY DEF Panics, PANIC, PANIC_NO_MEM
<1>11. Keeps(m, m)
  BY DEF Keeps
<1> QED BY <1>3, <1>8, <1>9, <1>10, <1>11 DEF Contract, Done

\* A directory that is longer by a block that it does not have.
LEMMA Longer ==
    ASSUME NEW m, MemInv(m), NEW m1, m1 = [m EXCEPT !.nblock = @ + 1]
    PROVE  MemInv(m1) /\ Follows(m.dir, m.free, m1, <<>>) /\ Created(m, m1) /\ m1.dir = m.dir
<1>1. m \in Memory /\ m.nblock + 1 \in Nat
  BY DEF MemInv, Memory
<1>2. /\ m1 \in Memory /\ m1.dir = m.dir /\ m1.free = m.free /\ m1.cache = m.cache /\ m1.dirty = m.dirty
  BY <1>1 DEF Memory
<1> QED BY <1>2 DEF MemInv, Follows, Created

\* A new file is a new name in an unused entry.
LEMMA Create ==
    ASSUME NEW m, MemInv(m), NEW name \in Name, NEW x, x = file_create(m, name)
    PROVE  \/ x = Done(m, <<>>, E_FILE_EXISTS)
           \/ Contract(m, x) /\ x.r < 0 /\ x.r # E_FILE_EXISTS
           \/ \E m2 : \E s \in Slot : /\ x = Done(m2, <<>>, s) /\ MemInv(m2)
                                      /\ Follows(m.dir, m.free, m2, <<>>) /\ Created(m, m2)
<1>1. PICK v : v = walk_path(m, name)
  OBVIOUS
<1>2. PICK f : f = dir_alloc_file(v.m)
  OBVIOUS
<1>3. x = IF v.r >= 0 THEN Done(m, <<>>, E_FILE_EXISTS)
          ELSE IF v.r # E_NOT_FOUND THEN v
          ELSE IF f.r = GROWN THEN f
          ELSE IF f.r < 0 THEN [f EXCEPT !.r = E_NOT_FOUND]
          ELSE Done([m EXCEPT !.dir[f.r].name = name], <<>>, f.r)
  BY <1>1, <1>2 DEF file_create, Return
<1>4. CASE v.r >= 0
  BY <1>3, <1>4
<1>5. CASE ~(v.r >= 0)
  <2>1. /\ Fails(m, v) /\ v.r # E_FILE_EXISTS /\ \A t \in Slot : m.dir[t].name # name
        /\ v.r = E_NOT_FOUND => v = Done(m, <<>>, E_NOT_FOUND)
    <3>1. \A s \in Slot : v # Done(m, <<>>, s)
      <4>1. SUFFICES ASSUME NEW s \in Slot, v = Done(m, <<>>, s) PROVE FALSE
        OBVIOUS
      <4>2. v.r \in Nat
        BY <4>1, FsNumbers DEF Done
      <4> QED BY <1>5, <4>2
    <3> QED BY <1>1, <3>1, WalkPath
  <2>2. CASE v.r # E_NOT_FOUND
    BY <1>3, <1>5, <2>1, <2>2 DEF Fails
  <2>3. CASE v.r = E_NOT_FOUND /\ Named(m, NONE) = {}
    <3>1. PICK m1 : m1 = [m EXCEPT !.nblock = @ + 1]
      OBVIOUS
    <3>2. v.m = m /\ f = dir_block(m1)
      BY <1>2, <2>1, <2>3, <3>1 DEF Done, dir_alloc_file
    <3>3. MemInv(m1) /\ Follows(m.dir, m.free, m1, <<>>) /\ Created(m, m1) /\ m1.dir = m.dir
      BY <3>1, Longer
    <3>4. Fails(m1, f) /\ f.r \notin {E_NOT_FOUND, E_FILE_EXISTS}
      BY <3>2, <3>3, DirBlock
    <3>5. Contract(m, f)
      BY <3>3, <3>4, ContractOn DEF Fails
    <3>6. x = f \/ x = Done(f.m, f.w, E_NOT_FOUND)
      BY <1>3, <1>5, <2>3, <3>4 DEF Fails, Done
    <3>7. E_NOT_FOUND \in Int /\ E_NOT_FOUND < 0 /\ E_NOT_FOUND \notin Panics /\ E_NOT_FOUND # E_FILE_EXISTS
      BY DEF E_NOT_FOUND, E_FILE_EXISTS, Panics, PANIC, PANIC_NO_MEM
    <3>8. Contract(m, Done(f.m, f.w, E_NOT_FOUND))
      BY <3>5, <3>7 DEF Contract, Done
    <3>9. f.r < 0 /\ Done(f.m, f.w, E_NOT_FOUND).r = E_NOT_FOUND
      BY <3>4 DEF Fails, Done
    <3> QED BY <3>4, <3>5, <3>6, <3>7, <3>8, <3>9
  <2>4. CASE v.r = E_NOT_FOUND /\ Named(m, NONE) # {}
    <3>1. PICK s : s = CHOOSE t \in Named(m, NONE) : \A u \in Named(m, NONE) : t <= u
      OBVIOUS
    <3>2. s \in Slot /\ m.dir[s].name = NONE
      <4>1. Named(m, NONE) \subseteq Nat
        BY FsNumbers DEF Named
      <4>2. \E t \in Named(m, NONE) : \A u \in Named(m, NONE) : t <= u
        BY <2>4, <4>1, LeastNat
      <4>3. s \in Named(m, NONE)
        BY <3>1, <4>2
      <4> QED BY <4>3 DEF Named
    <3>3. f = Done(m, <<>>, s)
      <4>1. v.m = m
        BY <2>1, <2>4 DEF Done
      <4> QED BY <1>2, <2>4, <3>1, <4>1 DEF dir_alloc_file, Return
    <3>4. PICK m2 : m2 = [m EXCEPT !.dir[s].name = name]
      OBVIOUS
    <3>5. x = Done(m2, <<>>, s)
      <4>1. s \in Nat /\ f.r = s
        BY <3>2, <3>3, FsNumbers DEF Done
      <4>2. ~(f.r < 0) /\ f.r # GROWN
        BY <4>1 DEF GROWN
      <4> QED BY <1>3, <1>5, <2>4, <3>4, <4>1, <4>2
    <3>6. PICK g : g = [m.dir[s] EXCEPT !.name = name]
      OBVIOUS
    <3>7. m.dir \in [Slot -> File] /\ m \in Memory
      BY DEF MemInv, Memory
    <3>8. g \in File /\ g.direct = m.dir[s].direct /\ g.name = name /\ g.size = m.dir[s].size
      <4>1. m.dir[s] \in File
        BY <3>2, <3>7
      <4> QED BY <3>6, <4>1 DEF File
    <3>9. /\ m2 \in Memory /\ m2.free = m.free /\ m2.cache = m.cache /\ m2.dirty = m.dirty
          /\ m2.dir[s] = g /\ \A t \in Slot : t # s => m2.dir[t] = m.dir[t]
      BY <3>2, <3>4, <3>6, <3>7, <3>8 DEF Memory
    <3>10. MemInv(m2) /\ \A t \in Slot : m2.dir[t].direct = m.dir[t].direct
      <4>1. m2.dir[s].direct = m.dir[s].direct /\ \A t \in Slot : m.dir[t].name # m2.dir[s].name
        BY <2>1, <3>8, <3>9
      <4> QED BY <3>2, <3>9, <4>1, EntryChanged
    <3>11. \A t \in Slot : m.dir[t].name \in {NONE, m2.dir[t].name}
      BY <3>2, <3>9
    <3>12. Follows(m.dir, m.free, m2, <<>>)
      BY <3>9, <3>10, <3>11 DEF Follows
    <3>13. Created(m, m2)
      BY <3>2, <3>8, <3>9 DEF Created
    <3> QED BY <3>2, <3>5, <3>10, <3>12, <3>13
  <2> QED BY <2>2, <2>3, <2>4
<1> QED BY <1>4, <1>5

\* An open finds the file or makes it, if it may, or fails.
LEMMA FoundOK ==
    ASSUME MemInv(mem), NEW c \in Client, cl[c].name \in Name, NEW x, x = Found(c)
    PROVE  \/ Contract(mem, x) /\ x.r < 0
           \/ \E m1 : /\ MemInv(m1) /\ Follows(mem.dir, mem.free, m1, <<>>) /\ Created(mem, m1)
                      /\ \E s \in Slot : x = Done(m1, <<>>, s)
<1>1. PICK v, m, name : m = mem /\ name = cl[c].name /\
                        v = IF "O_CREAT" \in cl[c].mode THEN file_create(mem, cl[c].name) ELSE Return(mem, 0)
  OBVIOUS
<1>2. x = IF v.r < 0 /\ v.r # E_FILE_EXISTS THEN v ELSE walk_path(v.m, name)
  BY <1>1 DEF Found
<1>3. MemInv(m) /\ name \in Name /\ Follows(m.dir, m.free, m, <<>>) /\ Created(m, m)
  BY <1>1 DEF Follows, Created
<1>4. CASE Contract(m, v) /\ v.r < 0 /\ v.r # E_FILE_EXISTS
  BY <1>1, <1>2, <1>4
<1>5. ASSUME NEW m1, v.m = m1, MemInv(m1), Follows(m.dir, m.free, m1, <<>>), Created(m, m1),
             ~(v.r < 0) \/ v.r = E_FILE_EXISTS
      PROVE  \/ Contract(m, x) /\ x.r < 0
             \/ \E s \in Slot : x = Done(m1, <<>>, s)
  <2>1. x = walk_path(m1, name)
    BY <1>2, <1>5
  <2>2. CASE Fails(m1, x)
    <3>1. Contract(m, x)
      BY <1>5, <2>2, ContractOn DEF Fails
    <3> QED BY <2>2, <3>1 DEF Fails
  <2> QED BY <1>5, <2>1, <2>2, WalkPath
<1>6. CASE v = Done(m, <<>>, E_FILE_EXISTS)
  <2>1. v.m = m /\ v.r = E_FILE_EXISTS
    BY <1>6 DEF Done
  <2> QED BY <1>1, <1>3, <1>5, <2>1
<1>7. ASSUME NEW m2, NEW s \in Slot, v = Done(m2, <<>>, s), MemInv(m2),
             Follows(m.dir, m.free, m2, <<>>), Created(m, m2)
      PROVE  \/ Contract(mem, x) /\ x.r < 0
             \/ \E m1 : /\ MemInv(m1) /\ Follows(mem.dir, mem.free, m1, <<>>) /\ Created(mem, m1)
                        /\ \E t \in Slot : x = Done(m1, <<>>, t)
  <2>1. v.m = m2 /\ v.r \in Nat
    BY <1>7, FsNumbers DEF Done
  <2> QED BY <1>1, <1>5, <1>7, <2>1
<1>8. CASE "O_CREAT" \in cl[c].mode
  <2>1. v = file_create(m, name)
    BY <1>1, <1>8
  <2> QED BY <1>3, <1>4, <1>6, <1>7, <2>1, Create
<1>9. CASE "O_CREAT" \notin cl[c].mode
  <2>1. v = Done(m, <<>>, 0)
    BY <1>1, <1>9 DEF Return
  <2>2. v.m = m /\ v.r = 0
    BY <2>1 DEF Done
  <2> QED BY <1>1, <1>3, <1>5, <2>2
<1> QED BY <1>8, <1>9

\* OPEN, up to the answer: the file is found or made, and truncated if asked for.
LEMMA OpenedOK ==
    ASSUME DirectFiles, MemInv(mem), NEW c \in Client, cl[c].name \in Name, NEW x, x = Opened(c)
    PROVE  Contract(mem, x) /\ (~(x.r < 0) => Found(c).r \in Slot)
           /\ (Found(c).r >= 0 => Found(c).r \in Slot)
<1>1. PICK v, m : v = Found(c) /\ m = mem
  OBVIOUS
<1>2. x = IF v.r < 0 THEN v
          ELSE LET y == IF "O_TRUNC" \in cl[c].mode THEN file_set_size(v.m, v.r, 0) ELSE Return(v.m, 0)
               IN  [y EXCEPT !.w = v.w \o @]
  BY <1>1 DEF Opened, Then
<1>3. CASE Contract(m, v) /\ v.r < 0
  <2>1. x = v /\ ~(v.r >= 0)
    BY <1>2, <1>3 DEF Contract
  <2> QED BY <1>1, <1>3, <2>1
<1>4. ASSUME NEW m1, MemInv(m1), Follows(m.dir, m.free, m1, <<>>), Created(m, m1),
             NEW s \in Slot, v = Done(m1, <<>>, s)
      PROVE  Contract(m, x) /\ v.r \in Slot
  <2>1. v.r = s /\ v.m = m1 /\ v.w = <<>> /\ s \in Nat
    BY <1>4, FsNumbers DEF Done
  <2>2. PICK y : y = IF "O_TRUNC" \in cl[c].mode THEN file_set_size(m1, s, 0) ELSE Return(m1, 0)
    OBVIOUS
  <2>3. x = [y EXCEPT !.w = <<>> \o @]
    BY <1>2, <2>1, <2>2
  <2>4. /\ Contract(m1, y) /\ \E m2, w : y = Done(m2, w, 0)
        /\ \A t \in Slot : y.m.dir[t].name = m1.dir[t].name
    <3>1. CASE "O_TRUNC" \in cl[c].mode
      <4>1. y = file_set_size(m1, s, 0) /\ 0 \in 0 .. MaxSize
        BY <2>2, <3>1, FsNumbers
      <4> QED BY <1>4, <4>1, SetSize
    <3>2. CASE "O_TRUNC" \notin cl[c].mode
      <4>1. y = Done(m1, <<>>, 0) /\ 0 \notin Panics /\ y.m = m1
        BY <2>2, <3>2 DEF Return, Panics, PANIC, PANIC_NO_MEM, Done
      <4> QED BY <1>4, <4>1, NothingChanged
    <3> QED BY <3>1, <3>2
  <2>5. PICK m2, w : y = Done(m2, w, 0)
    BY <2>4
  <2>6. w \in Seq(Write)
    BY <2>4, <2>5 DEF Contract, WritesOK, Done
  <2>7. x = y
    BY <2>3, <2>5, <2>6, NothingBefore
  <2>8. Contract(m, y)
    BY <1>4, <2>4, ContractOn
  <2> QED BY <2>1, <2>7, <2>8
<1>5. \/ Contract(m, v) /\ v.r < 0
      \/ \E m1 : /\ MemInv(m1) /\ Follows(m.dir, m.free, m1, <<>>) /\ Created(m, m1)
                 /\ \E s \in Slot : v = Done(m1, <<>>, s)
  BY <1>1, FoundOK
<1> QED BY <1>1, <1>3, <1>4, <1>5

\* OPEN: the file of the entry that is taken.
LEMMA ServeOpen ==
    ASSUME DirectFiles, SlotInv, MemInv(mem), NEW c \in Client, cl[c].name \in Name,
           \A o \in OpenId : opentab[o].file \in Slot \cup {0},
           NEW a, a = serve_open(c)
    PROVE  /\ Contract(mem, a.x)
           /\ \A o \in OpenId : a.tab[o].file \in Slot \cup {0}
           /\ \A d \in Client : cl[d].fd => a.tab[cl[d].fileid].file = opentab[cl[d].fileid].file
           /\ ~(a.x.r < 0) => a.x.r \in OpenId /\ a.tab[a.x.r].file \in Slot
<1>0. DOMAIN opentab = OpenId
  BY DEF SlotInv, Table
<1>1. CASE open_alloc = {}
  <2>1. a = Answer(Done(mem, <<>>, E_MAX_OPEN), opentab)
    BY <1>1 DEF serve_open, Return
  <2>2. a.tab = opentab /\ a.x = Done(mem, <<>>, E_MAX_OPEN) /\ a.x.r = -9
    BY <2>1 DEF Answer, Done, E_MAX_OPEN
  <2>3. E_MAX_OPEN \in Int /\ E_MAX_OPEN \notin Panics
    BY DEF E_MAX_OPEN, Panics, PANIC, PANIC_NO_MEM
  <2>4. Contract(mem, a.x)
    BY <2>2, <2>3, NothingChanged
  <2> QED BY <2>2, <2>4
<1>3. CASE a = Answer(Return(mem, E_NO_MEM), opentab)
  <2>1. a.tab = opentab /\ a.x = Done(mem, <<>>, E_NO_MEM) /\ a.x.r = -4
    BY <1>3 DEF Answer, Return, Done, E_NO_MEM
  <2>2. E_NO_MEM \in Int /\ E_NO_MEM \notin Panics
    BY DEF E_NO_MEM, Panics, PANIC, PANIC_NO_MEM
  <2>3. Contract(mem, a.x)
    BY <2>1, <2>2, NothingChanged
  <2> QED BY <2>1, <2>3
<1>2. CASE open_alloc # {} /\ a # Answer(Return(mem, E_NO_MEM), opentab)
  <2>1. PICK o : o = CHOOSE p \in open_alloc : \A q \in open_alloc : p <= q
    OBVIOUS
  <2>2. o \in open_alloc
    <3>1. open_alloc \subseteq Nat
      BY FsAssumption DEF open_alloc, OpenId
    <3>2. \E p \in open_alloc : \A q \in open_alloc : p <= q
      BY <1>2, <3>1, LeastNat
    <3> QED BY <2>1, <3>2
  <2>3. o \in OpenId /\ Holds(cl, o) = {} /\ o \in Nat
    BY <2>2, OfferedIsFree, FsAssumption DEF OpenId
  <2>4. PICK y : y = Opened(c)
    OBVIOUS
  <2>5. PICK e : e = [page |-> TRUE, file |-> IF Found(c).r >= 0 THEN Found(c).r ELSE opentab[o].file]
    OBVIOUS
  <2>6. a = Answer(IF y.r < 0 THEN y ELSE [Return(y.m, o) EXCEPT !.w = y.w \o @],
                   [opentab EXCEPT ![o] = e])
    BY <1>2, <2>1, <2>4, <2>5 DEF serve_open, Then
  <2>7. /\ Contract(mem, y) /\ (~(y.r < 0) => Found(c).r \in Slot)
        /\ (Found(c).r >= 0 => Found(c).r \in Slot)
    BY <2>4, OpenedOK
  <2>8. a.tab = [opentab EXCEPT ![o] = e] /\ a.tab[o] = e /\ \A p \in OpenId : p # o => a.tab[p] = opentab[p]
    BY <1>0, <2>3, <2>6 DEF Answer
  <2>9. e.file \in Slot \cup {0} /\ (~(y.r < 0) => e.file \in Slot)
    <3>1. Found(c).r \in Slot => Found(c).r >= 0
      BY FsNumbers
    <3> QED BY <2>3, <2>5, <2>7, <3>1
  <2>10. \A d \in Client : cl[d].fd => cl[d].fileid # o /\ cl[d].fileid \in OpenId
    BY <2>3 DEF Holds, SlotInv, HeldHasPage
  <2>11. CASE y.r < 0
    <3>1. a.x = y
      BY <2>6, <2>11 DEF Answer
    <3> QED BY <2>7, <2>8, <2>9, <2>10, <2>11, <3>1
  <2>12. CASE ~(y.r < 0)
    <3>1. a.x = Done(y.m, y.w \o <<>>, o)
      BY <2>6, <2>12 DEF Answer, Return, Done
    <3>2. y.w \o <<>> = y.w
      BY <2>7, ConcatEmptySeq DEF Contract, WritesOK
    <3>3. a.x.r = o /\ ~(a.x.r < 0) /\ o \in Int /\ o \notin Panics
      BY <2>3, <3>1 DEF Done, Panics, PANIC, PANIC_NO_MEM
    <3>4. Contract(mem, a.x)
      BY <2>7, <3>1, <3>2, <3>3 DEF Contract, Done
    <3> QED BY <2>3, <2>8, <2>9, <2>10, <2>12, <3>3, <3>4
  <2> QED BY <2>11, <2>12
<1> QED BY <1>1, <1>2, <1>3

\* A request on an open file reaches a file.
LEMMA Lookup ==
    ASSUME MemInv(mem), NEW c \in Client, NEW x, FilesOK, SlotInv,
           opentab[cl[c].fileid].file \in Slot => Contract(mem, x),
           NEW a, a = open_lookup(c, x)
    PROVE  Contract(mem, a.x)
<1>1. CASE pageref(cl[c].fileid) <= 1
  <2>1. a.x = Done(mem, <<>>, E_INVAL)
    BY <1>1 DEF open_lookup, Answer, Return
  <2>2. E_INVAL \in Int /\ E_INVAL \notin Panics
    BY DEF E_INVAL, Panics, PANIC, PANIC_NO_MEM
  <2> QED BY <2>1, <2>2, NothingChanged
<1>2. CASE ~(pageref(cl[c].fileid) <= 1)
  <2>1. PICK o : o = cl[c].fileid
    OBVIOUS
  <2>2. o \in OpenId
    BY <2>1 DEF FilesOK, NumbersOK
  <2>3. Holds(cl, o) # {}
    <3>1. SUFFICES ASSUME Holds(cl, o) = {} PROVE FALSE
      OBVIOUS
    <3>2. Cardinality(Holds(cl, o)) = 0
      BY <3>1, FS_EmptySet
    <3>3. pageref(o) = 0 \/ pageref(o) = 1 + Cardinality(Holds(cl, o))
      BY DEF pageref, Holds
    <3> QED BY <1>2, <2>1, <3>2, <3>3
  <2>4. opentab[o].file \in Slot
    BY <2>3 DEF Holds, FilesOK
  <2>5. a.x = x
    BY <1>2 DEF open_lookup, Answer
  <2> QED BY <2>1, <2>4, <2>5
<1> QED BY <1>1, <1>2

\* Every request keeps the contract.
LEMMA ServeTable ==
    ASSUME DirectFiles, SlotInv, BlockInv, NEW c \in Client, cl[c].pc # "idle",
           NEW a, a = serve_table(c)
    PROVE  /\ Contract(mem, a.x)
           /\ \A o \in OpenId : a.tab[o].file \in Slot \cup {0}
           /\ \A d \in Client : cl[d].fd => a.tab[cl[d].fileid].file = opentab[cl[d].fileid].file
           /\ (cl[c].pc = "open" /\ ~(a.x.r < 0)) => a.x.r \in OpenId /\ a.tab[a.x.r].file \in Slot
<1>1. /\ MemInv(mem) /\ FilesOK /\ NumbersOK(cl[c]) /\ ClientOK(cl[c])
      /\ \A o \in OpenId : opentab[o].file \in Slot \cup {0}
      /\ disk.data \in [Blk -> Page]
  BY DEF BlockInv, FilesOK, SlotInv, DiskOK, Disk
<1>2. \A n \in 0 .. MaxSize : n < MaxSize => n \in Direct
  BY FsNumbers DEF DirectFiles, Direct
<1>3. CASE cl[c].pc = "open"
  <2>1. a = serve_open(c) /\ cl[c].name \in Name
    BY <1>1, <1>3 DEF serve_table, NumbersOK
  <2> QED BY <1>1, <2>1, ServeOpen
<1>4. CASE cl[c].pc # "open"
  <2>1. a.tab = opentab
    BY <1>1, <1>4, OthersKeepTable
  <2>2. CASE cl[c].pc = "map"
    <3>1. cl[c].i \in Direct
      BY <1>1, <1>2, <2>2 DEF NumbersOK
    <3>2. PICK x : x = file_get_block(mem, File_(c), cl[c].i)
      OBVIOUS
    <3>3. a = open_lookup(c, x)
      BY <2>2, <3>2 DEF serve_table, serve_map
    <3>4. opentab[cl[c].fileid].file \in Slot => Contract(mem, x)
      <4>1. SUFFICES ASSUME File_(c) \in Slot PROVE Contract(mem, x)
        BY DEF File_
      <4>2. PICK m, s, n : m = mem /\ s = File_(c) /\ n = cl[c].i
        OBVIOUS
      <4>3. MemInv(m) /\ s \in Slot /\ n \in Direct /\ x = file_get_block(m, s, n)
        BY <1>1, <3>1, <3>2, <4>1, <4>2
      <4>4. Contract(m, x)
        BY <1>1, <4>3, GetBlock
      <4> QED BY <4>2, <4>4
    <3> QED BY <1>1, <1>4, <2>1, <3>3, <3>4, Lookup
  <2>3. CASE cl[c].pc \in {"set_size", "rollback"}
    <3>1. cl[c].to \in 0 .. MaxSize
      BY <1>1 DEF NumbersOK
    <3>2. PICK x : x = file_set_size(mem, File_(c), cl[c].to)
      OBVIOUS
    <3>3. a = open_lookup(c, x)
      BY <2>3, <3>2 DEF serve_table, serve_set_size
    <3>4. opentab[cl[c].fileid].file \in Slot => Contract(mem, x)
      BY <1>1, <3>1, <3>2, SetSize DEF File_
    <3> QED BY <1>1, <1>4, <2>1, <2>3, <3>3, <3>4, Lookup
  <2>4. CASE cl[c].pc = "dirty"
    <3>1. cl[c].i \in Direct
      BY <1>1, <1>2, <2>4 DEF NumbersOK
    <3>2. PICK x : x = file_dirty(mem, File_(c), cl[c].i)
      OBVIOUS
    <3>3. a = open_lookup(c, x)
      BY <2>4, <3>2 DEF serve_table, serve_dirty
    <3>4. opentab[cl[c].fileid].file \in Slot => Contract(mem, x)
      BY <1>1, <3>1, <3>2, DirtyBlock DEF File_
    <3> QED BY <1>1, <1>4, <2>1, <2>4, <3>3, <3>4, Lookup
  <2>5. CASE cl[c].pc = "close"
    <3>2. PICK x : x = file_close(mem, File_(c))
      OBVIOUS
    <3>3. a = open_lookup(c, x)
      BY <2>5, <3>2 DEF serve_table, serve_close
    <3>4. opentab[cl[c].fileid].file \in Slot => Contract(mem, x)
      BY <1>1, <3>2, Close DEF File_
    <3> QED BY <1>1, <1>4, <2>1, <2>5, <3>3, <3>4, Lookup
  <2>6. CASE cl[c].pc = "remove"
    <3>1. a.x = file_remove(mem, cl[c].name)
      BY <2>6 DEF serve_table, serve_remove, Answer
    <3>2. cl[c].name \in Name
      BY <1>1, <2>6 DEF NumbersOK
    <3> QED BY <1>1, <1>4, <2>1, <2>6, <3>1, <3>2, Remove
  <2>7. CASE cl[c].pc = "sync"
    <3>1. a.x = fs_sync(mem)
      BY <2>7 DEF serve_table, serve_sync, Answer
    <3> QED BY <1>1, <1>4, <2>1, <2>7, <3>1, Sync
  <2> QED BY <1>1, <1>4, <2>2, <2>3, <2>4, <2>5, <2>6, <2>7 DEF ClientOK, Pcs
<1> QED BY <1>3, <1>4

-----------------------------------------------------------------------------
(* The steps.                                                               *)

\* A request is served.
LEMMA ServeBlocks ==
    ASSUME DirectFiles, SlotInv, BlockInv, NEW c \in Client, serve(c)
    PROVE  BlockInv'
<1>1. PICK a : a = serve_table(c)
  OBVIOUS
<1>2. /\ srv.pc = "serve" /\ srv.whom = NONE /\ cl[c].pc # "idle" /\ opentab' = a.tab /\ mem' = a.x.m
      /\ UNCHANGED <<disk, cl, calls, crashes>> /\ srv' = Served(c, a.x)
  BY <1>1 DEF serve
<1>3. /\ Contract(mem, a.x)
      /\ \A o \in OpenId : a.tab[o].file \in Slot \cup {0}
      /\ \A d \in Client : cl[d].fd => a.tab[cl[d].fileid].file = opentab[cl[d].fileid].file
      /\ (cl[c].pc = "open" /\ ~(a.x.r < 0)) => a.x.r \in OpenId /\ a.tab[a.x.r].file \in Slot
  <2>1. cl[c].pc # "idle"
    BY <1>2
  <2> QED BY <1>1, <2>1, ServeTable
<1>4. \/ srv' = Server("grown")
      \/ srv'.pc = "serve" /\ srv'.writes = a.x.w /\ srv'.whom = c /\ srv'.r = a.x.r
  <2>1. a.x.r # PANIC /\ a.x.r # PANIC_NO_MEM
    BY <1>3 DEF Contract, Panics
  <2>2. \/ srv' = Server("grown")
        \/ \E p : srv' = [srv EXCEPT !.writes = a.x.w, !.whom = c, !.r = a.x.r, !.promise = p]
    BY <1>2, <2>1 DEF Served
  <2> QED BY <1>2, <2>2 DEF SlotInv
<1>0. srv' = Server("grown") =>
          srv'.pc = "grown" /\ srv'.writes = <<>> /\ srv'.whom = NONE /\ WritesOK(a.x.m, <<>>)
  BY DEF Server, WritesOK
<1>5. DiskOK' /\ (calls \in 0 .. MaxCalls /\ crashes \in 0 .. MaxCrashes)'
  BY <1>2 DEF BlockInv, DiskOK
<1>6. MemInv(mem') /\ WritesOK(mem', srv'.writes)
  BY <1>0, <1>2, <1>3, <1>4 DEF Contract
<1>7. srv'.pc = "serve" => Follows(disk.dir, disk.free, mem', srv'.writes)
  <2>1. srv.writes = <<>> /\ Follows(disk.dir, disk.free, mem, srv.writes)
    BY <1>2 DEF BlockInv, SrvOK
  <2>2. Follows(mem.dir, mem.free, a.x.m, a.x.w)
    BY <1>3 DEF Contract
  <2>3. Follows(disk.dir, disk.free, a.x.m, a.x.w)
    BY <2>1, <2>2, FollowsOn
  <2> QED BY <1>0, <1>2, <1>4, <2>3
<1>8. SrvOK'
  <2>1. c # NONE /\ disk.super = "good"
    BY <1>2, FsAssumption DEF BlockInv, SrvOK
  <2> QED BY <1>0, <1>2, <1>4, <1>7, <2>1 DEF SrvOK
<1>9. FilesOK'
  <2>1. NONE \notin Client
    BY FsAssumption
  <2> QED BY <1>0, <1>2, <1>3, <1>4, <2>1 DEF BlockInv, FilesOK
<1> QED BY <1>5, <1>6, <1>8, <1>9 DEF BlockInv

\* A block is written.
LEMMA WriteBlocks ==
    ASSUME SlotInv, BlockInv, write_block
    PROVE  BlockInv'
<1>1. PICK w, m : w = srv.writes /\ m = mem
  OBVIOUS
<1>2. /\ srv.pc = "serve" /\ w # <<>> /\ srv' = [srv EXCEPT !.writes = Tail(w)]
      /\ UNCHANGED <<mem, opentab, cl, calls, crashes>>
  BY <1>1 DEF write_block
<1>3. MemInv(m) /\ WritesOK(m, w) /\ Follows(disk.dir, disk.free, m, w) /\ disk.super = "good"
  BY <1>1, <1>2 DEF BlockInv, SrvOK
<1>4. /\ Head(w) = w[1] /\ w[1] \in Write /\ WritesOK(m, Tail(w))
  BY <1>2, <1>3, OneWritten
<1>5. disk' = CASE w[1].what = "super" -> [disk EXCEPT !.nblock = w[1].nblock]
                [] w[1].what = "bitmap" -> [disk EXCEPT !.free = w[1].free]
                [] w[1].what = "dir" -> [disk EXCEPT !.dir[w[1].s] = w[1].file]
                [] w[1].what = "data" -> [disk EXCEPT !.data[w[1].b] = mem.cache[w[1].b]]
  BY <1>1, <1>4 DEF write_block
<1>6. /\ srv'.pc = srv.pc /\ srv'.writes = Tail(w) /\ srv'.whom = srv.whom /\ srv'.r = srv.r
  BY <1>2 DEF SlotInv
<1>7. /\ disk \in Disk
      /\ Owned(disk.dir, disk.free) /\ Distinct(disk.dir)
  BY DEF BlockInv, DiskOK
<1>8. DiskOK' /\ disk'.super = "good" /\ Follows(disk'.dir, disk'.free, m, Tail(w))
  <2>0. CASE w[1].what = "super"
    <3>1. w[1].nblock \in Nat /\ Follows(disk.dir, disk.free, m, Tail(w))
      BY <1>2, <1>3, <2>0, SuperWritten
    <3>2. disk' = [disk EXCEPT !.nblock = w[1].nblock]
      BY <1>5, <2>0
    <3>3. /\ disk'.free = disk.free /\ disk'.dir = disk.dir /\ disk'.super = disk.super
          /\ disk' \in Disk
      BY <1>7, <3>1, <3>2 DEF Disk
    <3> QED BY <1>3, <1>7, <3>1, <3>3 DEF DiskOK
  <2>1. CASE w[1].what = "bitmap"
    <3>1. PICK f : f = w[1].free
      OBVIOUS
    <3>2. f \subseteq m.free /\ Owned(disk.dir, f) /\ Follows(disk.dir, f, m, Tail(w))
      <4>1. disk.dir \in [Slot -> File]
        BY <1>7 DEF Disk
      <4> QED BY <1>2, <1>3, <1>7, <2>1, <3>1, <4>1, BitmapWritten
    <3>3. disk' = [disk EXCEPT !.free = f] /\ f \subseteq Blk
      BY <1>3, <1>5, <2>1, <3>1, <3>2 DEF MemInv, Memory
    <3>4. /\ disk'.free = f /\ disk'.dir = disk.dir /\ disk'.super = disk.super
          /\ disk' \in Disk
      BY <1>7, <3>3 DEF Disk
    <3> QED BY <1>3, <1>7, <3>2, <3>4 DEF DiskOK
  <2>2. CASE w[1].what = "dir"
    <3>1. PICK e : e = [disk.dir EXCEPT ![w[1].s] = w[1].file]
      OBVIOUS
    <3>2. e \in [Slot -> File] /\ Owned(e, disk.free) /\ Distinct(e) /\ Follows(e, disk.free, m, Tail(w))
      <4>1. PICK d, free : d = disk.dir /\ free = disk.free
        OBVIOUS
      <4>2. d \in [Slot -> File] /\ Owned(d, free) /\ Distinct(d) /\ Follows(d, free, m, w)
        BY <1>3, <1>7, <4>1 DEF Disk
      <4>3. e = [d EXCEPT ![w[1].s] = w[1].file]
        BY <3>1, <4>1
      <4>4. e \in [Slot -> File] /\ Owned(e, free) /\ Distinct(e) /\ Follows(e, free, m, Tail(w))
        BY <1>2, <1>3, <2>2, <4>2, <4>3, EntryWritten
      <4> QED BY <4>1, <4>4
    <3>3. disk' = [disk EXCEPT !.dir = e]
      BY <1>5, <2>2, <3>1
    <3>4. /\ disk'.free = disk.free /\ disk'.dir = e /\ disk'.super = disk.super
          /\ disk' \in Disk
      BY <1>7, <3>2, <3>3 DEF Disk
    <3> QED BY <1>3, <3>2, <3>4 DEF DiskOK
  <2>3. CASE w[1].what = "data"
    <3>1. w[1].b \in Blk /\ m.cache[w[1].b] # Unmapped /\ Follows(disk.dir, disk.free, m, Tail(w))
      BY <1>2, <1>3, <2>3, DataWritten
    <3>2. m.cache[w[1].b] \in Page
      BY <1>3, <3>1 DEF MemInv, Memory
    <3>3. disk' = [disk EXCEPT !.data[w[1].b] = m.cache[w[1].b]]
      BY <1>1, <1>5, <2>3
    <3>4. /\ disk'.free = disk.free /\ disk'.dir = disk.dir /\ disk'.super = disk.super
          /\ disk' \in Disk
      BY <1>7, <3>1, <3>2, <3>3 DEF Disk
    <3> QED BY <1>3, <1>7, <3>1, <3>4 DEF DiskOK
  <2> QED BY <1>4, <2>0, <2>1, <2>2, <2>3 DEF Write
<1>9. SrvOK'
  <2>1. srv.whom \in Client \cup {NONE} /\ srv.whom # NONE
    BY <1>1, <1>2 DEF BlockInv, SrvOK
  <2> QED BY <1>1, <1>2, <1>6, <1>8, <2>1 DEF SrvOK
<1>10. FilesOK'
  BY <1>2, <1>6 DEF BlockInv, FilesOK
<1> QED BY <1>1, <1>2, <1>3, <1>4, <1>6, <1>8, <1>9, <1>10 DEF BlockInv

\* A step of the clients' side.
LEMMA ClientsOnly ==
    ASSUME BlockInv, UNCHANGED <<disk, mem, opentab>>,
           srv'.pc = srv.pc, srv'.writes = srv.writes, srv'.whom \in Client \cup {NONE},
           srv'.whom = NONE => srv.writes = <<>>,
           calls' \in 0 .. MaxCalls, crashes' \in 0 .. MaxCrashes,
           \A c \in Client : NumbersOK(cl'[c]),
           \A c \in Client : cl'[c].fd => opentab[cl'[c].fileid].file \in Slot,
           \A c \in Client : srv'.whom = c => srv.whom = c /\ srv'.r = srv.r /\ cl'[c].pc = cl[c].pc
    PROVE  BlockInv'
<1>1. DiskOK' /\ MemInv(mem') /\ WritesOK(mem', srv'.writes)
  BY DEF BlockInv, DiskOK
<1>2. SrvOK'
  BY DEF BlockInv, SrvOK
<1>3. FilesOK'
  BY DEF BlockInv, FilesOK
<1> QED BY <1>1, <1>2, <1>3 DEF BlockInv

\* The end of a call, and a loop of MAP requests.
LEMMA LoopNumbers ==
    ASSUME NEW k, ClientOK(k), k.fileid \in OpenId, k.f_size \in 0 .. MaxSize,
           k.val \in 0 .. MaxSize, k.i \in 0 .. MaxSize, k.to \in 0 .. MaxSize
    PROVE  /\ NumbersOK(Idle(k)) /\ NumbersOK(fd_close(k))
           /\ \A i, to \in 0 .. MaxSize : NumbersOK(MapFrom(k, i, to))
<1>0. 0 \in 0 .. MaxSize /\ MaxSize \in Nat /\ 0 \in OpenId
  BY FsNumbers
<1>1. PICK h : h = Idle(k)
  OBVIOUS
<1>2. /\ DOMAIN h = Fields /\ h.pc = "idle" /\ h.fileid = k.fileid /\ h.f_size = k.f_size
      /\ h.i = 0 /\ h.to = 0 /\ h.val = 0
  BY <1>1 DEF Idle, ClientOK, Fields
<1>3. NumbersOK(h)
  BY <1>0, <1>2 DEF NumbersOK
<1>4. NumbersOK(fd_close(k))
  <2>1. PICK g : g = [h EXCEPT !.fd = FALSE, !.fileid = 0, !.f_size = 0]
    OBVIOUS
  <2>2. g.pc = "idle" /\ g.fileid = 0 /\ g.f_size = 0 /\ g.i = 0 /\ g.to = 0 /\ g.val = 0
    BY <1>2, <2>1 DEF Fields
  <2>3. NumbersOK(g)
    BY <1>0, <2>2 DEF NumbersOK
  <2> QED BY <1>1, <2>1, <2>3 DEF fd_close
<1>5. ASSUME NEW i \in 0 .. MaxSize, NEW to \in 0 .. MaxSize PROVE NumbersOK(MapFrom(k, i, to))
  <2>1. CASE ~(i < to)
    BY <1>1, <1>3, <2>1 DEF MapFrom
  <2>2. CASE i < to
    <3>1. PICK g : g = [k EXCEPT !.pc = "map", !.i = i, !.to = to]
      OBVIOUS
    <3>2. /\ g.pc = "map" /\ g.i = i /\ g.to = to /\ g.fileid = k.fileid /\ g.f_size = k.f_size
          /\ g.val = k.val
      BY <3>1 DEF ClientOK, Fields
    <3>3. i < MaxSize
      BY <1>0, <2>2
    <3>4. NumbersOK(g)
      BY <3>2, <3>3 DEF NumbersOK
    <3> QED BY <2>2, <3>1, <3>4 DEF MapFrom
  <2> QED BY <2>1, <2>2
<1> QED BY <1>1, <1>3, <1>4, <1>5

\* DIRTY requests, then CLOSE.
LEMMA DirtyNumbers ==
    ASSUME NEW k, ClientOK(k), NumbersOK(k), NEW i \in 0 .. MaxSize, NEW g, g = DirtyFrom(k, i)
    PROVE  NumbersOK(g) /\ g.pc \in {"dirty", "close"}
<1>0. MaxSize \in Nat /\ k.f_size \in 0 .. MaxSize
  BY FsNumbers DEF NumbersOK
<1>1. CASE i < k.f_size
  <2>1. g = [k EXCEPT !.pc = "dirty", !.i = i]
    BY <1>1 DEF DirtyFrom, fsipc_dirty
  <2>2. /\ g.pc = "dirty" /\ g.i = i /\ g.to = k.to /\ g.fileid = k.fileid /\ g.f_size = k.f_size
        /\ g.val = k.val
    BY <2>1 DEF ClientOK, Fields
  <2>3. i < MaxSize
    BY <1>0, <1>1
  <2> QED BY <2>2, <2>3 DEF NumbersOK
<1>2. CASE ~(i < k.f_size)
  <2>1. g = [k EXCEPT !.pc = "close"]
    BY <1>2 DEF DirtyFrom, fsipc_close
  <2>2. /\ g.pc = "close" /\ g.i = k.i /\ g.to = k.to /\ g.fileid = k.fileid /\ g.f_size = k.f_size
        /\ g.val = k.val
    BY <2>1 DEF ClientOK, Fields
  <2> QED BY <2>2 DEF NumbersOK
<1> QED BY <1>1, <1>2

\* What a client does with an answer.
LEMMA GoesOnNumbers ==
    ASSUME MemInv(mem), NEW k, ClientOK(k), NumbersOK(k), k.pc # "idle", NEW r,
           (k.pc = "open" /\ ~(r < 0)) => r \in OpenId /\ opentab[r].file \in Slot,
           NEW j, j = GoesOn(k, r)
    PROVE  NumbersOK(j)
<1>0. /\ k.fileid \in OpenId /\ k.f_size \in 0 .. MaxSize /\ k.i \in 0 .. MaxSize
      /\ k.to \in 0 .. MaxSize /\ k.val \in 0 .. MaxSize /\ MaxSize \in Nat /\ 0 \in 0 .. MaxSize
      /\ k.pc \in {"map", "dirty"} => k.i + 1 \in 0 .. MaxSize
  BY FsNumbers DEF NumbersOK
<1>1. NumbersOK(Idle(k)) /\ NumbersOK(fd_close(k))
  BY <1>0, LoopNumbers
<1>2. CASE k.pc = "open"
  <2>1. j = OpenGoesOn(k, r)
    BY <1>2 DEF GoesOn
  <2>2. CASE r < 0
    BY <1>1, <2>1, <2>2 DEF OpenGoesOn
  <2>3. CASE ~(r < 0)
    <3>1. PICK size : size = mem.dir[opentab[r].file].size
      OBVIOUS
    <3>2. size \in 0 .. MaxSize /\ r \in OpenId
      BY <1>2, <2>3, <3>1, FileFields DEF MemInv, Memory
    <3>3. PICK h : h = [k EXCEPT !.fd = TRUE, !.fileid = r, !.f_size = size]
      OBVIOUS
    <3>4. j = MapFrom(h, 0, size)
      BY <2>1, <2>3, <3>1, <3>3 DEF OpenGoesOn
    <3>5. /\ ClientOK(h) /\ h.fileid = r /\ h.f_size = size /\ h.i = k.i /\ h.to = k.to /\ h.val = k.val
      BY <3>3 DEF ClientOK, Fields, Pcs
    <3> QED BY <1>0, <3>2, <3>4, <3>5, LoopNumbers
  <2> QED BY <2>2, <2>3
<1>3. CASE k.pc = "map"
  <2>1. j = MapGoesOn(k, r)
    BY <1>3 DEF GoesOn
  <2>2. PICK h : h = [k EXCEPT !.pages[k.i] = r]
    OBVIOUS
  <2>3. /\ ClientOK(h) /\ h.fileid = k.fileid /\ h.f_size = k.f_size /\ h.i = k.i /\ h.to = k.to
        /\ h.val = k.val
    BY <2>2 DEF ClientOK, Fields, Pcs
  <2>4. CASE r >= 0
    <3>1. j = MapFrom(h, k.i + 1, k.to)
      BY <2>1, <2>2, <2>4 DEF MapGoesOn
    <3>2. PICK i1 : i1 = k.i + 1 /\ i1 \in 0 .. MaxSize
      BY <1>0, <1>3
    <3> QED BY <1>0, <2>3, <3>1, <3>2, LoopNumbers
  <2>5. CASE ~(r >= 0) /\ k.mode = {"ftruncate"}
    <3>1. j = [k EXCEPT !.pc = "rollback", !.to = k.val]
      BY <2>1, <2>5 DEF MapGoesOn
    <3>2. /\ j.pc = "rollback" /\ j.to = k.val /\ j.i = k.i /\ j.val = k.val /\ j.fileid = k.fileid
          /\ j.f_size = k.f_size
      BY <3>1 DEF ClientOK, Fields
    <3> QED BY <1>0, <3>2 DEF NumbersOK
  <2>6. CASE ~(r >= 0) /\ k.mode # {"ftruncate"}
    BY <1>1, <2>1, <2>6 DEF MapGoesOn
  <2> QED BY <2>4, <2>5, <2>6
<1>4. CASE k.pc = "set_size"
  <2>1. j = SetSizeGoesOn(k, r)
    BY <1>4 DEF GoesOn
  <2>2. PICK h : h = [k EXCEPT !.pages = [n \in FileBno |-> IF n \in k.to .. k.val - 1 THEN 0 ELSE @[n]]]
    OBVIOUS
  <2>3. /\ ClientOK(h) /\ h.fileid = k.fileid /\ h.f_size = k.f_size /\ h.i = k.i /\ h.to = k.to
        /\ h.val = k.val
    BY <2>2 DEF ClientOK, Fields, Pcs
  <2>4. CASE r < 0
    BY <1>1, <2>1, <2>4 DEF SetSizeGoesOn
  <2>5. CASE ~(r < 0)
    <3>1. j = MapFrom(h, k.val, k.to)
      BY <2>1, <2>2, <2>5 DEF SetSizeGoesOn
    <3> QED BY <1>0, <2>3, <3>1, LoopNumbers
  <2> QED BY <2>4, <2>5
<1>5. CASE k.pc = "dirty"
  <2>1. j = DirtyGoesOn(k, r)
    BY <1>5 DEF GoesOn
  <2>2. CASE r < 0
    BY <1>1, <2>1, <2>2 DEF DirtyGoesOn
  <2>3. CASE ~(r < 0)
    <3>1. PICK i1 : i1 = k.i + 1 /\ i1 \in 0 .. MaxSize
      BY <1>0, <1>5
    <3>2. j = DirtyFrom(k, i1)
      BY <2>1, <2>3, <3>1 DEF DirtyGoesOn
    <3> QED BY <3>1, <3>2, DirtyNumbers
  <2> QED BY <2>2, <2>3
<1>6. CASE k.pc = "close"
  <2>1. j = CloseGoesOn(k, r)
    BY <1>6 DEF GoesOn
  <2>2. CASE r < 0
    BY <1>1, <2>1, <2>2 DEF CloseGoesOn
  <2>3. CASE ~(r < 0)
    <3>1. PICK h : h = [k EXCEPT !.pages = [n \in FileBno |-> IF n < k.f_size THEN 0 ELSE @[n]]]
      OBVIOUS
    <3>2. /\ ClientOK(h) /\ h.fileid = k.fileid /\ h.f_size = k.f_size /\ h.i = k.i /\ h.to = k.to
          /\ h.val = k.val
      BY <3>1 DEF ClientOK, Fields, Pcs
    <3>3. j = fd_close(h)
      BY <2>1, <2>3, <3>1 DEF CloseGoesOn
    <3> QED BY <1>0, <3>2, <3>3, LoopNumbers
  <2> QED BY <2>2, <2>3
<1>7. CASE k.pc \in {"rollback", "remove", "sync"}
  BY <1>1, <1>7 DEF GoesOn
<1> QED BY <1>2, <1>3, <1>4, <1>5, <1>6, <1>7 DEF ClientOK, Pcs

\* The answer arrives.
LEMMA AnswerBlocks ==
    ASSUME SlotInv, BlockInv, NEW c \in Client, fsipc(c)
    PROVE  BlockInv'
<1>1. PICK k, r : k = cl[c] /\ r = srv.r
  OBVIOUS
<1>2. PICK j : j = GoesOn(k, r)
  OBVIOUS
<1>3. /\ srv.pc = "serve" /\ srv.whom = c /\ srv.writes = <<>> /\ srv' = Server("serve")
      /\ cl' = [cl EXCEPT ![c] = j] /\ UNCHANGED <<disk, mem, opentab, calls, crashes>>
  BY <1>1, <1>2 DEF fsipc
<1>4. ClientOK(k) /\ k.pc # "idle" /\ DOMAIN cl = Client
  BY <1>1, <1>3 DEF SlotInv
<1>5. /\ MemInv(mem) /\ NumbersOK(k) /\ (k.fd => opentab[k.fileid].file \in Slot)
      /\ (k.pc = "open" /\ ~(r < 0)) => r \in OpenId /\ opentab[r].file \in Slot
      /\ calls \in 0 .. MaxCalls /\ crashes \in 0 .. MaxCrashes
  BY <1>1, <1>3 DEF BlockInv, FilesOK
<1>6. NumbersOK(j)
  BY <1>2, <1>4, <1>5, GoesOnNumbers
<1>7. j.fd => opentab[j.fileid].file \in Slot
  <2>1. \/ SameFd(j, k)
        \/ ~j.fd
        \/ k.pc = "open" /\ ~(r < 0) /\ j.fd /\ j.fileid = r
    BY <1>2, <1>4, GoesOnFd
  <2> QED BY <1>5, <2>1 DEF SameFd
<1>8. cl'[c] = j /\ \A d \in Client : d # c => cl'[d] = cl[d]
  BY <1>3, <1>4
<1>9. srv'.pc = srv.pc /\ srv'.writes = srv.writes /\ srv'.whom = NONE /\ NONE \notin Client
  BY <1>3, FsAssumption DEF Server
<1>10. /\ \A d \in Client : NumbersOK(cl'[d])
       /\ \A d \in Client : cl'[d].fd => opentab[cl'[d].fileid].file \in Slot
  BY <1>6, <1>7, <1>8 DEF BlockInv, FilesOK
<1> QED BY <1>3, <1>5, <1>9, <1>10, ClientsOnly

\* A call of a client.
LEMMA CallBlocks ==
    ASSUME SlotInv, BlockInv, NEW c \in Client, NEW k, Call(c, k), SameFd(k, cl[c]), NumbersOK(k)
    PROVE  BlockInv'
<1>1. /\ cl' = [cl EXCEPT ![c] = k] /\ cl[c].pc = "idle" /\ calls < MaxCalls /\ calls' = calls + 1
      /\ UNCHANGED <<disk, mem, srv, opentab, crashes>>
  BY DEF Call
<1>2. cl'[c] = k /\ \A d \in Client : d # c => cl'[d] = cl[d]
  BY <1>1 DEF SlotInv
<1>3. calls' \in 0 .. MaxCalls /\ crashes' \in 0 .. MaxCrashes
  <2>1. calls \in 0 .. MaxCalls /\ crashes \in 0 .. MaxCrashes /\ MaxCalls \in Nat
    BY FsAssumption DEF BlockInv
  <2> QED BY <1>1, <2>1
<1>4. \A d \in Client : NumbersOK(cl'[d])
  BY <1>2 DEF BlockInv, FilesOK
<1>5. \A d \in Client : cl'[d].fd => opentab[cl'[d].fileid].file \in Slot
  <2>1. \A d \in Client : cl'[d].fd => cl[d].fd /\ cl'[d].fileid = cl[d].fileid
    BY <1>2 DEF SameFd
  <2> QED BY <2>1 DEF BlockInv, FilesOK
<1>6. srv.whom # c
  BY <1>1 DEF SlotInv
<1>7. srv.whom \in Client \cup {NONE} /\ (srv.whom = NONE => srv.writes = <<>>)
  BY DEF BlockInv, SrvOK
<1>8. \A d \in Client : srv'.whom = d => srv.whom = d /\ srv'.r = srv.r /\ cl'[d].pc = cl[d].pc
  BY <1>1, <1>2, <1>6
<1> QED BY <1>1, <1>3, <1>4, <1>5, <1>7, <1>8, ClientsOnly

\* A store into a page of the cache.
LEMMA StoreBlocks ==
    ASSUME SlotInv, BlockInv, NEW c \in Client, NEW n \in FileBno, NEW v \in Data, file_write(c, n, v)
    PROVE  BlockInv'
<1>1. PICK b, m : b = cl[c].pages[n] /\ m = mem
  OBVIOUS
<1>2. /\ mem' = [m EXCEPT !.cache[b] = Filled(v)]
      /\ UNCHANGED <<disk, opentab, cl, calls, crashes>>
      /\ \E p : srv' = [srv EXCEPT !.promise = p]
  BY <1>1 DEF file_write
<1>3. srv'.pc = srv.pc /\ srv'.writes = srv.writes /\ srv'.whom = srv.whom /\ srv'.r = srv.r
  BY <1>2 DEF SlotInv
<1>4. MemInv(m) /\ WritesOK(m, srv.writes)
  BY <1>1 DEF BlockInv
<1>5. v \in Nat
  BY FsAssumption
<1>6. Filled(v) \in Page /\ Filled(v) # Unmapped
  BY <1>5, FilledIsMapped
<1>7. m \in Memory /\ m.cache \in [Blk -> Page \cup {Unmapped}] /\ m.dirty \subseteq Blk
      /\ \A x \in m.dirty : m.cache[x] # Unmapped
  BY <1>4 DEF MemInv, Memory
<1>8. PICK m2 : m2 = mem'
  OBVIOUS
<1>9. /\ m2 \in Memory /\ m2.dir = m.dir /\ m2.free = m.free /\ m2.dirty = m.dirty
      /\ m2.cache = [m.cache EXCEPT ![b] = Filled(v)]
  BY <1>2, <1>6, <1>7, <1>8 DEF Memory
<1>10. \A x \in Blk : m.cache[x] # Unmapped => m2.cache[x] # Unmapped
  BY <1>6, <1>7, <1>9
<1>11. \A x \in m2.dirty : m2.cache[x] # Unmapped
  BY <1>7, <1>9, <1>10
<1>12. /\ MemInv(m2) /\ WritesOK(m2, srv.writes)
       /\ \A d, free, w : Follows(d, free, m, w) => Follows(d, free, m2, w)
  BY <1>4, <1>9, <1>10, <1>11, CacheOnly
<1>13. DiskOK' /\ FilesOK' /\ (calls \in 0 .. MaxCalls /\ crashes \in 0 .. MaxCrashes)'
  BY <1>2, <1>3 DEF BlockInv, DiskOK, FilesOK
<1>14. SrvOK'
  BY <1>1, <1>2, <1>3, <1>8, <1>12 DEF BlockInv, SrvOK
<1> QED BY <1>3, <1>8, <1>12, <1>13, <1>14 DEF BlockInv

\* Numbers of a client that has ended or not begun.
LEMMA NoClientNumbers == ClientOK(NoClient) /\ ~NoClient.fd /\ NumbersOK(NoClient)
<1>1. /\ NoClient.pc = "idle" /\ NoClient.fileid = 0 /\ NoClient.f_size = 0 /\ NoClient.i = 0
      /\ NoClient.to = 0 /\ NoClient.val = 0 /\ ~NoClient.fd
  BY DEF NoClient
<1>2. 0 \in 0 .. MaxSize /\ 0 \in OpenId
  BY FsNumbers
<1>3. ClientOK(NoClient)
  BY DEF NoClient, ClientOK, Fields, Pcs
<1> QED BY <1>1, <1>2, <1>3 DEF NumbersOK

\* A step of a client.
LEMMA ClientBlocks ==
    ASSUME SlotInv, BlockInv, NEW c \in Client, ClientCalls(c)
    PROVE  BlockInv'
<1>0. PICK h : h = cl[c]
  OBVIOUS
<1>1. ClientOK(h) /\ NumbersOK(h) /\ DOMAIN cl = Client /\ MaxSize \in Nat
  BY <1>0, FsNumbers DEF SlotInv, BlockInv, FilesOK
<1>2. ASSUME NEW name \in Name, NEW mode, open(c, name, mode) PROVE BlockInv'
  <2>1. PICK k : k = [h EXCEPT !.pc = "open", !.name = name, !.mode = mode]
    OBVIOUS
  <2>2. SameFd(k, h) /\ NumbersOK(k)
    <3>1. SameFd(k, h) /\ k.pc = "open" /\ k.name = name /\ k.f_size = h.f_size /\ k.i = h.i
          /\ k.to = h.to /\ k.val = h.val
      BY <1>1, <2>1 DEF SameFd, ClientOK, Fields, Pcs
    <3> QED BY <1>1, <3>1 DEF NumbersOK, SameFd
  <2> QED BY <1>0, <1>2, <2>1, <2>2, CallBlocks DEF open
<1>3. ASSUME NEW name \in Name, remove(c, name) PROVE BlockInv'
  <2>1. PICK k : k = fsipc_remove(h, name)
    OBVIOUS
  <2>2. SameFd(k, h) /\ NumbersOK(k)
    <3>1. SameFd(k, h) /\ k.pc = "remove" /\ k.name = name /\ k.f_size = h.f_size /\ k.i = h.i
          /\ k.to = h.to /\ k.val = h.val
      BY <1>1, <2>1 DEF fsipc_remove, SameFd, ClientOK, Fields, Pcs
    <3> QED BY <1>1, <3>1 DEF NumbersOK, SameFd
  <2> QED BY <1>0, <1>3, <2>1, <2>2, CallBlocks DEF remove
<1>4. ASSUME NEW size \in 0 .. MaxSize, ftruncate(c, size) PROVE BlockInv'
  <2>1. PICK k : k = [fsipc_set_size(h, size) EXCEPT !.mode = {"ftruncate"},
                                                     !.val = h.f_size, !.f_size = size]
    OBVIOUS
  <2>2. SameFd(k, h) /\ NumbersOK(k)
    <3>1. SameFd(k, h) /\ k.pc = "set_size" /\ k.f_size = size /\ k.i = h.i
          /\ k.to = size /\ k.val = h.f_size
      BY <1>1, <2>1 DEF fsipc_set_size, SameFd, ClientOK, Fields, Pcs
    <3> QED BY <1>1, <3>1 DEF NumbersOK, SameFd
  <2> QED BY <1>0, <1>4, <2>1, <2>2, CallBlocks DEF ftruncate
<1>5. CASE close(c)
  <2>1. PICK k : k = DirtyFrom(h, 0)
    OBVIOUS
  <2>2. NumbersOK(k)
    <3>1. 0 \in 0 .. MaxSize
      BY <1>1
    <3> QED BY <1>1, <2>1, <3>1, DirtyNumbers
  <2>3. SameFd(k, h)
    BY <1>1, <2>1 DEF DirtyFrom, fsipc_dirty, fsipc_close, SameFd, ClientOK, Fields, Pcs
  <2> QED BY <1>0, <1>5, <2>1, <2>2, <2>3, CallBlocks DEF close
<1>6. CASE sync(c)
  <2>1. PICK k : k = [h EXCEPT !.pc = "sync"]
    OBVIOUS
  <2>2. SameFd(k, h) /\ NumbersOK(k)
    <3>1. SameFd(k, h) /\ k.pc = "sync" /\ k.f_size = h.f_size /\ k.i = h.i
          /\ k.to = h.to /\ k.val = h.val
      BY <1>1, <2>1 DEF SameFd, ClientOK, Fields, Pcs
    <3> QED BY <1>1, <3>1 DEF NumbersOK, SameFd
  <2> QED BY <1>0, <1>6, <2>1, <2>2, CallBlocks DEF sync
<1>7. CASE exit(c)
  <2>1. /\ cl' = [cl EXCEPT ![c] = NoClient] /\ cl[c].pc = "idle"
        /\ UNCHANGED <<disk, mem, srv, opentab, calls, crashes>>
    BY <1>7 DEF exit
  <2>2. cl'[c] = NoClient /\ \A d \in Client : d # c => cl'[d] = cl[d]
    BY <1>1, <2>1
  <2>3. \A d \in Client : NumbersOK(cl'[d])
    BY <2>2, NoClientNumbers DEF BlockInv, FilesOK
  <2>4. \A d \in Client : cl'[d].fd => opentab[cl'[d].fileid].file \in Slot
    <3>1. \A d \in Client : cl'[d].fd => cl'[d] = cl[d]
      BY <2>2, NoClientNumbers
    <3> QED BY <3>1 DEF BlockInv, FilesOK
  <2>5. srv.whom # c
    BY <2>1 DEF SlotInv
  <2>6. /\ srv.whom \in Client \cup {NONE} /\ (srv.whom = NONE => srv.writes = <<>>)
        /\ calls \in 0 .. MaxCalls /\ crashes \in 0 .. MaxCrashes
    BY DEF BlockInv, SrvOK
  <2>7. \A d \in Client : srv'.whom = d => srv.whom = d /\ srv'.r = srv.r /\ cl'[d].pc = cl[d].pc
    BY <2>1, <2>2, <2>5
  <2> QED BY <2>1, <2>3, <2>4, <2>6, <2>7, ClientsOnly
<1> QED BY <1>2, <1>3, <1>4, <1>5, <1>6, <1>7, StoreBlocks DEF ClientCalls

-----------------------------------------------------------------------------
(* Start-up, and the machine stopping.                                      *)

\* The memory before anything is read.
LEMMA NoMemOK ==
    /\ NoFile \in File /\ NoFile.name = NONE /\ \A n \in Direct : NoFile.direct[n] = 0
    /\ MemInv(NoMem) /\ WritesOK(NoMem, <<>>)
<1>1. /\ NoFile.name = NONE /\ NoFile.size = 0 /\ NoFile.indirect = 0
      /\ NoFile.direct = [i \in Direct |-> 0] /\ 0 \in 0 .. MaxSize
  BY FsNumbers DEF NoFile, Direct
<1>2. NoFile \in File
  BY <1>1 DEF NoFile, File, Direct
<1>3. \A n \in Direct : NoFile.direct[n] = 0
  BY <1>1
<1>4. /\ NoMem.free = {} /\ NoMem.dir = [s \in Slot |-> NoFile] /\ NoMem.dirty = {}
      /\ NoMem.cache = [b \in Blk |-> Unmapped] /\ NoMem \in Memory
  BY <1>2 DEF NoMem, Memory
<1>5. Owned(NoMem.dir, NoMem.free) /\ Distinct(NoMem.dir)
  BY <1>1, <1>3, <1>4 DEF Owned, Distinct
<1>6. MemInv(NoMem)
  BY <1>4, <1>5 DEF MemInv
<1>7. WritesOK(NoMem, <<>>)
  BY DEF WritesOK
<1> QED BY <1>1, <1>2, <1>3, <1>6, <1>7

\* The server starts: the invariant holds with any sound disk and idle answers.
LEMMA ServerStarts ==
    ASSUME BlockInv, NEW pc \in {"check_write_block", "read_bitmap", "serve"}, srv' = Server(pc),
           UNCHANGED <<opentab, cl, calls, crashes>>, DiskOK', MemInv(mem'),
           disk'.super = "good" \/ pc = "check_write_block",
           pc = "serve" => Follows(disk'.dir, disk'.free, mem', <<>>)
    PROVE  BlockInv'
<1>1. srv'.pc = pc /\ srv'.writes = <<>> /\ srv'.whom = NONE /\ NONE \notin Client
  BY FsAssumption DEF Server
<1>2. WritesOK(mem', <<>>)
  BY DEF WritesOK
<1>3. SrvOK'
  BY <1>1 DEF SrvOK
<1>4. FilesOK'
  BY <1>1 DEF BlockInv, FilesOK
<1> QED BY <1>1, <1>2, <1>3, <1>4 DEF BlockInv

\* The three steps of the start.
LEMMA StartBlocks ==
    ASSUME BlockInv, read_super \/ check_write_block \/ read_bitmap
    PROVE  BlockInv'
<1>1. /\ disk \in Disk
      /\ Owned(disk.dir, disk.free) /\ Distinct(disk.dir) /\ MemInv(mem)
      /\ disk.super = "good" \/ srv.pc = "check_write_block"
  BY DEF BlockInv, DiskOK, SrvOK
<1>2. CASE read_super
  <2>1. /\ disk' = [disk EXCEPT !.super = "OOPS!"] /\ srv' = Server("check_write_block")
        /\ UNCHANGED <<mem, opentab, cl, calls, crashes>>
    BY <1>1, <1>2 DEF read_super
  <2>2. DiskOK'
    BY <1>1, <2>1 DEF DiskOK, Disk
  <2>3. MemInv(mem')
    BY <1>1, <2>1
  <2> QED BY <2>1, <2>2, <2>3, ServerStarts
<1>3. CASE check_write_block
  <2>1. /\ disk' = [disk EXCEPT !.super = "good"] /\ srv' = Server("read_bitmap")
        /\ UNCHANGED <<mem, opentab, cl, calls, crashes>>
    BY <1>3 DEF check_write_block
  <2>2. DiskOK' /\ disk'.super = "good"
    BY <1>1, <2>1 DEF DiskOK, Disk
  <2>3. MemInv(mem')
    BY <1>1, <2>1
  <2> QED BY <2>1, <2>2, <2>3, ServerStarts
<1>4. CASE read_bitmap
  <2>1. disk.free \cap 0 .. 2 = {}
    BY <1>1, FsNumbers DEF Blk, Disk
  <2>2. /\ srv.pc = "read_bitmap"
        /\ mem' = [NoMem EXCEPT !.free = disk.free, !.dir = disk.dir, !.nblock = disk.nblock]
        /\ srv' = Server("serve") /\ UNCHANGED <<disk, opentab, cl, calls, crashes>>
    BY <1>4, <2>1 DEF read_bitmap
  <2>3. PICK m : m = mem'
    OBVIOUS
  <2>4. m.free = disk.free /\ m.dir = disk.dir /\ m.dirty = {} /\ m \in Memory
    <3>1. NoMem \in Memory /\ NoMem.dirty = {}
      BY NoMemOK DEF MemInv, NoMem
    <3>2. disk.free \subseteq Blk /\ disk.dir \in [Slot -> File] /\ disk.nblock \in Nat
      BY <1>1 DEF Disk
    <3> QED BY <2>2, <2>3, <3>1, <3>2 DEF Memory
  <2>5. MemInv(m)
    BY <1>1, <2>4 DEF MemInv
  <2>6. Follows(disk.dir, disk.free, m, <<>>)
    BY <2>4 DEF Follows
  <2>7. DiskOK' /\ disk'.super = "good"
    BY <1>1, <2>2 DEF DiskOK
  <2> QED BY <2>2, <2>3, <2>5, <2>6, <2>7, ServerStarts
<1> QED BY <1>2, <1>3, <1>4

\* What is left when the machine starts.
LEMMA AfterStop ==
    ASSUME DiskOK, disk.super = "good", mem = NoMem, srv = Server("read_super"), opentab = serve_init,
           cl = [c \in Client |-> NoClient], calls \in 0 .. MaxCalls, crashes \in 0 .. MaxCrashes
    PROVE  BlockInv
<1>1. MemInv(mem) /\ WritesOK(mem, <<>>)
  BY NoMemOK
<1>2. srv.pc = "read_super" /\ srv.writes = <<>> /\ srv.whom = NONE /\ NONE \notin Client
  BY FsAssumption DEF Server
<1>3. SrvOK
  BY <1>2 DEF SrvOK
<1>4. /\ \A c \in Client : cl[c] = NoClient
      /\ \A o \in OpenId : opentab[o].file = 0
  BY DEF serve_init
<1>5. FilesOK
  BY <1>2, <1>4, NoClientNumbers DEF FilesOK
<1> QED BY <1>1, <1>2, <1>3, <1>5 DEF BlockInv

\* A stop of the machine, not in the check of the superblock.
LEMMA CrashBlocks ==
    ASSUME ~CrashInCheck, BlockInv, Crash
    PROVE  BlockInv'
<1>1. /\ crashes < MaxCrashes /\ disk.super = "good" /\ crashes' = crashes + 1
      /\ mem' = NoMem /\ srv' = Server("read_super") /\ opentab' = serve_init
      /\ cl' = [c \in Client |-> NoClient] /\ UNCHANGED <<disk, calls>>
  BY DEF Crash
<1>2. calls' \in 0 .. MaxCalls /\ crashes' \in 0 .. MaxCrashes
  <2>1. calls \in 0 .. MaxCalls /\ crashes \in 0 .. MaxCrashes /\ MaxCrashes \in Nat
    BY FsAssumption DEF BlockInv
  <2> QED BY <1>1, <2>1
<1>3. DiskOK' /\ disk'.super = "good"
  BY <1>1 DEF BlockInv, DiskOK
<1>4. MemInv(mem') /\ WritesOK(mem', <<>>)
  BY <1>1, NoMemOK
<1>5. srv'.pc = "read_super" /\ srv'.writes = <<>> /\ srv'.whom = NONE /\ NONE \notin Client
  BY <1>1, FsAssumption DEF Server
<1>6. SrvOK'
  BY <1>3, <1>5 DEF SrvOK
<1>7. /\ \A c \in Client : cl'[c] = NoClient
      /\ \A o \in OpenId : opentab'[o].file = 0
  BY <1>1 DEF serve_init
<1>8. FilesOK'
  BY <1>5, <1>7, NoClientNumbers DEF FilesOK
<1> QED BY <1>2, <1>3, <1>4, <1>5, <1>6, <1>8 DEF BlockInv

-----------------------------------------------------------------------------
(* The image that tools/fsformat.c makes.                                   *)

\* The files of the image.
LEMMA FileList ==
    /\ Len(Files) \in Nat
    /\ \A k \in 1 .. Len(Files) : Files[k].name \in Name /\ Files[k].size \in 0 .. MaxSize /\ Files[k].size \in Nat
    /\ \A j, k \in 1 .. Len(Files) : j # k => Files[j].name # Files[k].name
<1>1. PICK R : R = [name : Name, size : 0 .. MaxSize]
  OBVIOUS
<1>2. Files \in Seq(R)
  BY <1>1, FsAssumption
<1>3. Len(Files) \in Nat /\ \A k \in 1 .. Len(Files) : Files[k] \in R
  BY <1>2
<1>4. \A f \in R : f.name \in Name /\ f.size \in 0 .. MaxSize /\ f.size \in Nat
  BY <1>1, FsNumbers
<1> QED BY <1>3, <1>4, FsAssumption

\* A file begins behind the end of every file before it.
LEMMA LaidOut ==
    ASSUME NEW L \in Nat, L = Len(Files), NEW b, b = nextbno
    PROVE  /\ b \in [1 .. L + 1 -> 4 .. s_nblocks]
           /\ \A k \in 1 .. L : b[k + 1] = b[k] + Blocks(Files[k])
           /\ \A j, k \in 1 .. L + 1 : j < k => b[j + 1] <= b[k]
<1>1. b \in Starts
  BY ImageFits DEF nextbno
<1>2. /\ b \in [1 .. L + 1 -> 4 .. s_nblocks]
      /\ \A k \in 1 .. L : b[k + 1] = b[k] + Blocks(Files[k])
  BY <1>1 DEF Starts
<1>3. \A k \in 1 .. L : Blocks(Files[k]) \in Nat
  <2>1. \A k \in 1 .. L : Files[k].size \in Nat
    BY FileList
  <2> QED BY <2>1 DEF Blocks
<1>4. \A k \in 1 .. L + 1 : b[k] \in Nat
  BY <1>2, FsNumbers
<1>5. \A k \in 1 .. L : b[k] <= b[k + 1]
  <2>1. SUFFICES ASSUME NEW k \in 1 .. L PROVE b[k] <= b[k + 1]
    OBVIOUS
  <2>2. k \in 1 .. L + 1 /\ k + 1 \in 1 .. L + 1
    OBVIOUS
  <2>3. b[k] \in Nat /\ b[k + 1] \in Nat /\ Blocks(Files[k]) \in Nat /\ b[k + 1] = b[k] + Blocks(Files[k])
    BY <1>2, <1>3, <1>4, <2>2
  <2> QED BY <2>3
<1>6. ASSUME NEW j \in 1 .. L + 1, NEW k0 \in 1 .. L + 1, j < k0, ~(b[j + 1] <= b[k0]) PROVE FALSE
  <2>1. PICK B : B = {k \in Nat : k \in 1 .. L + 1 /\ j < k /\ ~(b[j + 1] <= b[k])}
    OBVIOUS
  <2>2. k0 \in B
    BY <1>6, <2>1
  <2>3. PICK k \in B : \A i \in B : k <= i
    BY <2>1, <2>2, LeastNat
  <2>4. k \in 1 .. L + 1 /\ j < k /\ ~(b[j + 1] <= b[k])
    BY <2>1, <2>3
  <2>5. j + 1 \in 1 .. L + 1 /\ b[j + 1] \in Nat
    BY <1>4, <2>4
  <2>6. k # j + 1
    BY <2>4, <2>5
  <2>7. k - 1 \in 1 .. L + 1 /\ j < k - 1 /\ k - 1 \notin B /\ k - 1 \in 1 .. L /\ (k - 1) + 1 = k
    <3>1. k - 1 \in Nat /\ k - 1 \in 1 .. L + 1 /\ j < k - 1 /\ ~(k <= k - 1) /\ k - 1 \in 1 .. L
      BY <2>4, <2>6
    <3>2. (k - 1) + 1 = k
      BY <2>4
    <3>3. k - 1 \notin B
      BY <2>3, <3>1
    <3> QED BY <3>1, <3>2, <3>3
  <2>8. b[j + 1] <= b[k - 1]
    BY <2>1, <2>7
  <2>9. b[k - 1] <= b[k]
    BY <1>5, <2>7
  <2>10. b[k - 1] \in Nat /\ b[k] \in Nat
    BY <1>4, <2>4, <2>7
  <2> QED BY <2>4, <2>5, <2>8, <2>9, <2>10
<1> QED BY <1>2, <1>6

\* The entries of the image: file k has the blocks from where it begins.
LEMMA ImageEntries ==
    ASSUME DirectFiles, NEW L \in Nat, L = Len(Files), NEW b, b = nextbno, NEW d, d = Image.dir
    PROVE  /\ L <= FILE2BLK /\ d = [s \in Slot |-> IF s <= L THEN write_file(s) ELSE NoFile]
           /\ \A k \in 1 .. L :
                 /\ write_file(k).name = Files[k].name /\ write_file(k).name \in Name
                 /\ write_file(k) \in File
                 /\ \A n \in Direct : write_file(k).direct[n] =
                        IF n < Files[k].size THEN b[k] + n ELSE 0
                 /\ \A n \in Direct : n < Files[k].size =>
                        b[k] + n \in Blk /\ b[k] + n >= b[k] /\ b[k] + n < b[k + 1]
<1>0. /\ b \in [1 .. L + 1 -> 4 .. s_nblocks]
      /\ \A i \in 1 .. L : b[i + 1] = b[i] + Blocks(Files[i])
  BY LaidOut, Zenon
<1>1. L <= FILE2BLK /\ d = [s \in Slot |-> IF s <= L THEN write_file(s) ELSE NoFile]
  BY ImageFits DEF Image
<1>2. ASSUME NEW k \in 1 .. L
      PROVE  /\ write_file(k).name = Files[k].name /\ write_file(k).name \in Name
             /\ write_file(k) \in File
             /\ \A n \in Direct : write_file(k).direct[n] = IF n < Files[k].size THEN b[k] + n ELSE 0
             /\ \A n \in Direct : n < Files[k].size =>
                    b[k] + n \in Blk /\ b[k] + n >= b[k] /\ b[k] + n < b[k + 1]
  <2>1. PICK size \in Nat : size = Files[k].size /\ size \in 0 .. MaxSize /\ size <= NDIRECT
    BY FileList, FsNumbers DEF DirectFiles
  <2>2. PICK nm \in Name : nm = Files[k].name
    BY FileList
  <2>3. PICK lo, hi : lo = b[k] /\ hi = b[k + 1]
    OBVIOUS
  <2>4. lo \in 4 .. s_nblocks /\ hi \in 4 .. s_nblocks /\ lo \in Nat /\ hi \in Nat /\ hi = lo + size
    <3>1. /\ b \in [1 .. L + 1 -> 4 .. s_nblocks]
          /\ \A i \in 1 .. L : b[i + 1] = b[i] + Blocks(Files[i])
      BY <1>0
    <3>2. k \in 1 .. L + 1 /\ k + 1 \in 1 .. L + 1
      OBVIOUS
    <3>3. lo \in 4 .. s_nblocks /\ hi \in 4 .. s_nblocks
      BY <2>3, <3>1, <3>2
    <3>4. lo \in Nat /\ hi \in Nat
      BY <3>3, FsNumbers
    <3>5. Blocks(Files[k]) = size
      BY <2>1, FsNumbers DEF Blocks
    <3> QED BY <2>3, <3>1, <3>3, <3>4, <3>5
  <2>5. \A n \in Direct : n < NDIRECT /\ n \in Nat /\ ~(n > NDIRECT) /\ save_block_link(k, n) = lo + n
    <3>1. \A n \in Direct : n < NDIRECT /\ n \in Nat /\ ~(n > NDIRECT)
      BY FsNumbers DEF Direct
    <3> QED BY <2>3, <2>4, <3>1 DEF save_block_link
  <2>6. \A n \in Direct : n < size => lo + n \in Blk /\ lo + n >= lo /\ lo + n < hi
    <3>1. ASSUME NEW n \in Direct, n < size PROVE lo + n \in Blk /\ lo + n >= lo /\ lo + n < hi
      <4>1. n \in Nat /\ s_nblocks \in Nat
        BY <2>5, FsNumbers
      <4>2. /\ lo + n \in Int /\ lo + n >= lo /\ lo + n < hi
            /\ 4 <= lo + n /\ lo + n <= s_nblocks - 1
        BY <2>4, <3>1, <4>1
      <4> QED BY <4>1, <4>2 DEF Blk
    <3> QED BY <3>1
  <2>7. PICK dr : dr = [n \in Direct |-> IF n < size THEN lo + n ELSE 0]
    OBVIOUS
  <2>8. dr \in [Direct -> {0} \cup Blk]
    BY <2>6, <2>7
  <2>9. write_file(k) = [name |-> nm, size |-> size, direct |-> dr, indirect |-> 0]
    <3>1. ~(size > NDIRECT)
      BY <2>1, FsNumbers
    <3>2. dr = [n \in 0 .. NDIRECT - 1 |-> IF n < size THEN save_block_link(k, n) ELSE 0]
      BY <2>5, <2>7 DEF Direct
    <3> QED BY <2>1, <2>2, <3>1, <3>2 DEF write_file
  <2>10. write_file(k) \in File
    BY <2>1, <2>2, <2>8, <2>9 DEF File
  <2>11. write_file(k).name = nm /\ write_file(k).direct = dr
    BY <2>9
  <2> QED BY <2>1, <2>2, <2>3, <2>6, <2>7, <2>10, <2>11
<1> QED BY <1>1, <1>2

\* The image is sound.
LEMMA ImageOK ==
    ASSUME DirectFiles, disk = [super |-> "good", nblock |-> 1, free |-> flush_bitmap, dir |-> Image.dir, data |-> Image.data]
    PROVE  DiskOK /\ disk.super = "good"
<1>1. PICK L \in Nat : L = Len(Files)
  BY FileList
<1>2. PICK b, d : b = nextbno /\ d = Image.dir
  OBVIOUS
<1>3. disk.dir = d /\ disk.free = flush_bitmap /\ disk.data = Image.data /\ disk.super = "good"
  BY <1>2
<1>4. /\ L <= FILE2BLK /\ d = [s \in Slot |-> IF s <= L THEN write_file(s) ELSE NoFile]
      /\ \A k \in 1 .. L :
            /\ write_file(k).name = Files[k].name /\ write_file(k).name \in Name
            /\ write_file(k) \in File
            /\ \A n \in Direct : write_file(k).direct[n] =
                   IF n < Files[k].size THEN b[k] + n ELSE 0
            /\ \A n \in Direct : n < Files[k].size =>
                   b[k] + n \in Blk /\ b[k] + n >= b[k] /\ b[k] + n < b[k + 1]
  BY <1>1, <1>2, ImageEntries
<1>5. /\ b \in [1 .. L + 1 -> 4 .. s_nblocks]
      /\ \A j, k \in 1 .. L + 1 : j < k => b[j + 1] <= b[k]
  BY <1>1, <1>2, LaidOut
<1>6. \A k \in 1 .. L + 1 : b[k] \in Nat
  BY <1>5, FsNumbers
<1>7. \A s \in Slot : \/ s \in 1 .. L /\ d[s] = write_file(s)
                      \/ s \notin 1 .. L /\ d[s] = NoFile
  <2>1. SUFFICES ASSUME NEW s \in Slot PROVE s <= L <=> s \in 1 .. L
    BY <1>4
  <2>2. s \in Nat /\ s >= 1
    BY FsNumbers
  <2> QED BY <2>2
<1>8. d \in [Slot -> File]
  BY <1>4, <1>7, NoMemOK
<1>9. flush_bitmap = b[L + 1] .. s_nblocks - 1 /\ flush_bitmap \subseteq Blk
  <2>1. flush_bitmap = b[L + 1] .. s_nblocks - 1
    BY <1>1, <1>2 DEF flush_bitmap
  <2>2. L + 1 \in 1 .. L + 1
    OBVIOUS
  <2>3. b[L + 1] \in 4 .. s_nblocks
    BY <1>5, <2>2
  <2> QED BY <2>1, <2>3, FsNumbers DEF Blk
<1>10. \A s \in Slot, n \in Direct : d[s].direct[n] # 0 =>
           /\ s \in 1 .. L /\ n < Files[s].size /\ d[s].direct[n] = b[s] + n
           /\ b[s] + n >= b[s] /\ b[s] + n < b[s + 1] /\ b[s] + n \in Nat
  BY <1>4, <1>7, NoMemOK, FsNumbers
<1>11. Owned(d, flush_bitmap)
  <2>1. SUFFICES ASSUME NEW s \in Slot, NEW n \in Direct, d[s].direct[n] # 0
                 PROVE  /\ d[s].direct[n] \notin flush_bitmap
                        /\ \A t \in Slot, k \in Direct : d[t].direct[k] = d[s].direct[n] => t = s /\ k = n
    BY DEF Owned
  <2>2. PICK p \in Nat : /\ p = d[s].direct[n] /\ s \in 1 .. L /\ p = b[s] + n
                         /\ p >= b[s] /\ p < b[s + 1]
    BY <1>10, <2>1
  <2>3. s + 1 \in 1 .. L + 1 /\ s \in 1 .. L + 1 /\ s < L + 1 /\ L + 1 \in 1 .. L + 1
    BY <2>2
  <2>4. p \notin flush_bitmap
    <3>1. b[s + 1] <= b[L + 1]
      BY <1>5, <2>3
    <3>2. b[s + 1] \in Nat /\ b[L + 1] \in Nat
      BY <1>6, <2>3
    <3>3. ~(p >= b[L + 1])
      BY <2>2, <3>1, <3>2
    <3> QED BY <1>9, <3>2, <3>3
  <2>5. ASSUME NEW t \in Slot, NEW k \in Direct, d[t].direct[k] = p PROVE t = s /\ k = n
    <3>1. d[t].direct[k] # 0
      BY <2>1, <2>2, <2>5
    <3>2. t \in 1 .. L /\ p = b[t] + k /\ p >= b[t] /\ p < b[t + 1]
      BY <1>10, <2>5, <3>1
    <3>3. t + 1 \in 1 .. L + 1 /\ t \in 1 .. L + 1
      BY <3>2
    <3>4. b[s] \in Nat /\ b[t] \in Nat /\ b[s + 1] \in Nat /\ b[t + 1] \in Nat
      BY <1>6, <2>3, <3>3
    <3>5. ~(s < t)
      <4>1. SUFFICES ASSUME s < t PROVE FALSE
        OBVIOUS
      <4>2. b[s + 1] <= b[t]
        BY <1>5, <2>3, <3>3, <4>1
      <4> QED BY <2>2, <3>2, <3>4, <4>2
    <3>6. ~(t < s)
      <4>1. SUFFICES ASSUME t < s PROVE FALSE
        OBVIOUS
      <4>2. b[t + 1] <= b[s]
        BY <1>5, <2>3, <3>3, <4>1
      <4> QED BY <2>2, <3>2, <3>4, <4>2
    <3>7. t = s
      BY <2>2, <3>2, <3>5, <3>6
    <3>8. k \in Nat /\ n \in Nat
      BY FsNumbers
    <3> QED BY <2>2, <3>2, <3>4, <3>7, <3>8
  <2> QED BY <2>2, <2>4, <2>5
<1>12. Distinct(d)
  <2>1. SUFFICES ASSUME NEW s \in Slot, NEW t \in Slot, d[s].name = d[t].name, d[s].name # NONE, s # t
                 PROVE  FALSE
    BY DEF Distinct
  <2>2. s \in 1 .. L /\ t \in 1 .. L
    BY <1>7, <2>1, NoMemOK
  <2>3. d[s].name = Files[s].name /\ d[t].name = Files[t].name
    BY <1>4, <1>7, <2>2
  <2> QED BY <1>1, <2>1, <2>2, <2>3, FileList
<1>13. Image.data \in [Blk -> Page]
  <2>1. Filled(0) \in Page
    BY FilledIsMapped
  <2>2. \A k \in 1 .. Len(Files) : ~(Files[k].size > NDIRECT)
    BY FileList, FsNumbers DEF DirectFiles
  <2>3. \A x \in Blk : {k \in 1 .. Len(Files) : Files[k].size > NDIRECT /\ IndexOf(k) = x} = {}
    BY <2>2
  <2>4. Image.data = [x \in Blk |-> Filled(0)]
    BY <2>3 DEF Image
  <2> QED BY <2>1, <2>4
<1>14. disk \in Disk
  BY <1>2, <1>8, <1>9, <1>13 DEF Disk
<1> QED BY <1>3, <1>11, <1>12, <1>14 DEF DiskOK

\* Both invariants hold always, with files of direct blocks and no stop of the machine
\* in the check of the superblock.
LEMMA BlocksStaySound ==
    ASSUME DirectFiles, ~CrashInCheck
    PROVE  FsSpec => [](SlotInv /\ BlockInv)
<1>1. Init => BlockInv
  <2> SUFFICES ASSUME Init PROVE BlockInv
    OBVIOUS
  <2>1. DiskOK /\ disk.super = "good"
    BY ImageOK DEF Init
  <2>2. calls \in 0 .. MaxCalls /\ crashes \in 0 .. MaxCrashes
    BY FsAssumption DEF Init
  <2> QED BY <2>1, <2>2, AfterStop DEF Init
<1>2. SlotInv /\ BlockInv /\ [Next]_vars => BlockInv'
  <2> SUFFICES ASSUME SlotInv, BlockInv, [Next]_vars PROVE BlockInv'
    OBVIOUS
  <2>1. CASE UNCHANGED vars
    BY <2>1 DEF vars, BlockInv, DiskOK, SrvOK, FilesOK
  <2>2. CASE no_memory
    BY <2>2 DEF no_memory, BlockInv, DiskOK, SrvOK, FilesOK
  <2> QED BY <2>1, <2>2, StartBlocks, WriteBlocks, CrashBlocks, ServeBlocks, AnswerBlocks, ClientBlocks DEF Next
<1> QED BY <1>1, <1>2, SlotInvInit, SlotInvNext, PTL DEF FsSpec

\* The server keeps its state and never stops, whatever its clients ask for, whichever
\* pages the kernel refuses it and wherever the machine stops, for any number of
\* clients, names, blocks and entries, until the directory takes a second block: no
\* request reads a free block or fails to find one that it truncates (fs.c:224, 1389,
\* 1397), what a failed allocation leaves behind is sound (518, 1106), and the
\* superblock and the bitmap are good at every start (565, 619).
THEOREM ServerSoundCorrect == DirectFiles /\ ~CrashInCheck => (FsSpec => []ServerSound)
<1>1. BlockInv => ServerSound
  <2> SUFFICES ASSUME BlockInv PROVE ServerSound
    OBVIOUS
  <2>1. /\ disk.super \in {"good", "OOPS!"} /\ disk.free \subseteq Blk
        /\ DOMAIN disk.dir = Slot /\ DOMAIN disk.data = Blk
    BY DEF BlockInv, DiskOK, Disk
  <2>2. mem.free \subseteq Blk /\ mem.dirty \subseteq {b \in Blk : block_is_mapped(mem, b)}
    BY DEF BlockInv, MemInv, Memory, block_is_mapped
  <2>3. \A s \in Slot : mem.dir[s].name \in Name \cup {NONE} /\ mem.dir[s].size \in 0 .. NINDIRECT
    <3>1. SUFFICES ASSUME NEW s \in Slot
                   PROVE  mem.dir[s].name \in Name \cup {NONE} /\ mem.dir[s].size \in 0 .. NINDIRECT
      OBVIOUS
    <3>2. mem.dir[s].name \in Name \cup {NONE} /\ mem.dir[s].size \in 0 .. MaxSize
      BY FileFields DEF BlockInv, MemInv, Memory
    <3> QED BY <3>2, FsNumbers
  <2>4. /\ srv.pc \in {"read_super", "check_write_block", "read_bitmap", "serve", "grown"}
        /\ srv.whom \in Client \cup {NONE}
    BY DEF BlockInv, SrvOK
  <2>5. \A o \in OpenId : opentab[o].file \in Slot \cup {0}
    BY DEF BlockInv, FilesOK
  <2>6. \A c \in Client : cl[c].fileid \in OpenId /\ cl[c].f_size \in 0 .. NINDIRECT
    BY FsNumbers DEF BlockInv, FilesOK, NumbersOK
  <2>7. calls \in 0 .. MaxCalls /\ crashes \in 0 .. MaxCrashes
    BY DEF BlockInv
  <2> QED BY <2>1, <2>2, <2>3, <2>4, <2>5, <2>6, <2>7 DEF ServerSound, FsTypeOK, NoServerPanic
<1>2. SUFFICES ASSUME DirectFiles, ~CrashInCheck PROVE FsSpec => []ServerSound
  OBVIOUS
<1>3. FsSpec => [](SlotInv /\ BlockInv)
  BY <1>2, BlocksStaySound
<1> QED BY <1>1, <1>3, PTL

\* In the server's memory a block belongs to one file, at one place, and is marked
\* used: alloc_block_num takes what no file has, and file_clear_block forgets what it
\* frees (fs.c:415, 463, 781, 851, 901).
THEOREM BlocksOwnedOnceCorrect == DirectFiles /\ ~CrashInCheck => (FsSpec => []BlocksOwnedOnce)
<1>1. BlockInv => BlocksOwnedOnce
  BY OwnedIsOnce DEF BlockInv, MemInv, Memory, BlocksOwnedOnce
<1>2. SUFFICES ASSUME DirectFiles, ~CrashInCheck PROVE FsSpec => []BlocksOwnedOnce
  OBVIOUS
<1>3. FsSpec => [](SlotInv /\ BlockInv)
  BY <1>2, BlocksStaySound
<1> QED BY <1>1, <1>3, PTL

\* After every single block write, and so wherever the machine stops, no block that a
\* file uses on the disk is marked free there and none belongs to two files: what a
\* request gives up stays out of the bitmap on the disk until the directory without
\* it is written, and the server takes no other request before (fs.c:470, 1444, 1637).
THEOREM DiskPointersUsedCorrect == DirectFiles /\ ~CrashInCheck => (FsSpec => []DiskPointersUsed)
<1>1. BlockInv => DiskPointersUsed
  <2> SUFFICES ASSUME BlockInv PROVE DiskPointersUsed
    OBVIOUS
  <2>1. disk.dir \in [Slot -> File] /\ Owned(disk.dir, disk.free)
    BY DEF BlockInv, DiskOK, Disk
  <2> QED BY <2>1, OwnedIsOnce DEF DiskPointersUsed
<1>2. SUFFICES ASSUME DirectFiles, ~CrashInCheck PROVE FsSpec => []DiskPointersUsed
  OBVIOUS
<1>3. FsSpec => [](SlotInv /\ BlockInv)
  BY <1>2, BlocksStaySound
<1> QED BY <1>1, <1>3, PTL

-----------------------------------------------------------------------------
(* What a close promises.                                                   *)

\* A promise p about file s, as the server's memory has it, and as the disk has it.
PromiseOf(p, s) ==
    /\ p.s = s /\ DOMAIN p.blocks \subseteq Direct
    /\ \A n \in DOMAIN p.blocks : p.blocks[n].b \in Blk
Told(p, s, m) ==
    /\ m.dir[s].name = p.name /\ m.dir[s].size = p.size
    /\ \A n \in DOMAIN p.blocks : /\ m.dir[s].direct[n] = p.blocks[n].b
                                  /\ m.cache[p.blocks[n].b] \in {Unmapped, p.blocks[n].words}
Stored(p, s, d) ==
    /\ d.dir[s].name = p.name /\ d.dir[s].size = p.size
    /\ \A n \in DOMAIN p.blocks : /\ d.dir[s].direct[n] = p.blocks[n].b
                                  /\ d.data[p.blocks[n].b] = p.blocks[n].words

\* The promise of an answer under way: what is not on the disk is still to be written.
Promised(p, s, d, m, w) ==
    /\ PromiseOf(p, s) /\ Told(p, s, m)
    /\ DirPending(w, s) \/ d.dir[s] = m.dir[s]
    /\ \A n \in DOMAIN p.blocks : \/ DataPending(w, p.blocks[n].b)
                                  \/ d.data[p.blocks[n].b] = p.blocks[n].words

SafeInv ==
    /\ safe = [s \in Slot |-> safe[s]]
    /\ \A s \in Slot : safe[s] # NONE =>
          /\ PromiseOf(safe[s], s) /\ Stored(safe[s], s, disk)
          /\ srv.pc = "serve" => Told(safe[s], s, mem)
PromiseInv ==
    srv.promise # NONE =>
        srv.pc = "serve" /\ \E s \in Slot : Promised(srv.promise, s, disk, mem, srv.writes)

\* What a close has marked is dirty in the server's memory.
Starting == srv.pc \in {"read_super", "check_write_block", "read_bitmap"}
MarkedInv ==
    /\ DOMAIN marked = Client
    /\ \A c \in Client : marked[c] \subseteq mem.dirty /\ (Starting => marked[c] = {})

DurableInv == SafeInv /\ PromiseInv /\ MarkedInv

\* A promise that is on the disk stays true of the memory through a request that
\* leaves the file's name and size.
LEMMA ToldKept ==
    ASSUME NEW p, NEW s \in Slot, PromiseOf(p, s), NEW m, MemInv(m), Told(p, s, m), Stored(p, s, disk),
           NEW m2, Keeps(m, m2),
           m2.dir[s].name = m.dir[s].name, m2.dir[s].size = m.dir[s].size
    PROVE  Told(p, s, m2)
<1>1. ASSUME NEW n \in DOMAIN p.blocks
      PROVE  /\ m2.dir[s].direct[n] = p.blocks[n].b
             /\ m2.cache[p.blocks[n].b] \in {Unmapped, p.blocks[n].words}
  <2>1. PICK b : b = p.blocks[n].b
    OBVIOUS
  <2>2. n \in Direct /\ b \in Blk /\ b # 0 /\ m.dir[s].direct[n] = b
    BY <2>1, FsNumbers DEF PromiseOf, Told
  <2>3. m2.dir[s].direct[n] = b
    BY <2>2 DEF Keeps
  <2>4. b \notin m.free
    BY <2>2 DEF MemInv, Owned
  <2>5. disk.data[b] = p.blocks[n].words /\ m.cache[b] \in {Unmapped, p.blocks[n].words}
    BY <2>1 DEF Stored, Told
  <2>6. m2.cache[b] = m.cache[b] \/ m2.cache[b] = disk.data[b]
    BY <2>2, <2>4 DEF Keeps
  <2> QED BY <2>1, <2>3, <2>5, <2>6
<1> QED BY <1>1 DEF Told

\* A request on an open file that succeeds is a request on a file.
LEMMA LookedUp ==
    ASSUME FilesOK, NEW c \in Client, NEW x, NEW a, a = open_lookup(c, x), ~(a.x.r < 0)
    PROVE  a.x = x /\ File_(c) \in Slot
<1>1. CASE pageref(cl[c].fileid) <= 1
  <2>1. a.x = Done(mem, <<>>, E_INVAL)
    BY <1>1 DEF open_lookup, Answer, Return
  <2>2. a.x.r < 0
    BY <2>1 DEF Done, E_INVAL
  <2> QED BY <2>2
<1>2. CASE ~(pageref(cl[c].fileid) <= 1)
  <2>1. PICK o : o = cl[c].fileid
    OBVIOUS
  <2>2. Holds(cl, o) # {}
    <3>1. SUFFICES ASSUME Holds(cl, o) = {} PROVE FALSE
      OBVIOUS
    <3>2. Cardinality(Holds(cl, o)) = 0
      BY <3>1, FS_EmptySet
    <3>3. pageref(o) = 0 \/ pageref(o) = 1 + Cardinality(Holds(cl, o))
      BY DEF pageref, Holds
    <3> QED BY <1>2, <2>1, <3>2, <3>3
  <2>3. opentab[o].file \in Slot
    BY <2>2 DEF Holds, FilesOK
  <2>4. a.x = x
    BY <1>2 DEF open_lookup, Answer
  <2> QED BY <2>1, <2>3, <2>4 DEF File_
<1> QED BY <1>1, <1>2

\* DIRTY marks the block it is asked for.
LEMMA DirtyServed ==
    ASSUME DirectFiles, SlotInv, BlockInv, NEW c \in Client, cl[c].pc = "dirty",
           NEW a, a = serve_table(c), ~(a.x.r < 0)
    PROVE  Pointer(a.x.m, File_(c), cl[c].i) \in a.x.m.dirty
<1>1. MemInv(mem) /\ FilesOK /\ NumbersOK(cl[c])
  BY DEF BlockInv, FilesOK
<1>2. cl[c].i \in Direct
  BY <1>1, FsNumbers DEF NumbersOK, DirectFiles, Direct
<1>3. PICK x : x = file_dirty(mem, File_(c), cl[c].i)
  OBVIOUS
<1>4. a = open_lookup(c, x)
  BY <1>3 DEF serve_table, serve_dirty
<1>5. a.x = x /\ File_(c) \in Slot
  BY <1>1, <1>4, LookedUp
<1>6. x.m.dir[File_(c)].direct[cl[c].i] \in x.m.dirty
  BY <1>1, <1>2, <1>3, <1>5, DirtyBlock
<1>7. cl[c].i < NDIRECT
  BY <1>2, FsNumbers DEF Direct
<1> QED BY <1>5, <1>6, <1>7 DEF Pointer

\* CLOSE writes the directory and every block that the client is promised.
LEMMA CloseServed ==
    ASSUME DirectFiles, SlotInv, BlockInv, MarkedInv, NEW c \in Client, cl[c].pc = "close",
           NEW a, a = serve_table(c), ~(a.x.r < 0), NEW s, s = File_(c), NEW p, p = Promise(c, a.x.m, s)
    PROVE  s \in Slot /\ Promised(p, s, disk, a.x.m, a.x.w)
<1>1. MemInv(mem) /\ FilesOK /\ NumbersOK(cl[c])
  BY DEF BlockInv, FilesOK
<1>2. PICK x : x = file_close(mem, s)
  OBVIOUS
<1>3. a = open_lookup(c, x)
  BY <1>2 DEF serve_table, serve_close
<1>4. a.x = x /\ s \in Slot
  BY <1>1, <1>3, LookedUp
<1>5. /\ x.m = mem /\ DirPending(x.w, s)
      /\ \A n \in Direct : (n < mem.dir[s].size /\ mem.dir[s].direct[n] \in mem.dirty) =>
             DataPending(x.w, mem.dir[s].direct[n])
  BY <1>1, <1>2, <1>4, Close
<1>6. PICK m : m = mem
  OBVIOUS
<1>7. PICK held : held = {n \in FileBno : /\ n < m.dir[s].size /\ n < cl[c].f_size
                                          /\ n < NDIRECT \/ m.dir[s].indirect # 0
                                          /\ cl[c].pages[n] \in marked[c] /\ cl[c].pages[n] = Pointer(m, s, n)}
  OBVIOUS
<1>8. p = [s |-> s, name |-> m.dir[s].name, size |-> m.dir[s].size,
           blocks |-> [n \in held |-> [b |-> cl[c].pages[n], words |-> m.cache[cl[c].pages[n]]]]]
  BY <1>4, <1>5, <1>6, <1>7, Zenon DEF Promise
<1>9. /\ p.s = s /\ p.name = m.dir[s].name /\ p.size = m.dir[s].size /\ DOMAIN p.blocks = held
      /\ \A n \in held : p.blocks[n].b = cl[c].pages[n] /\ p.blocks[n].words = m.cache[cl[c].pages[n]]
  BY ONLY <1>8
<1>10. m.dir[s] \in File /\ m.dir[s].size \in 0 .. MaxSize /\ m.dir[s].direct \in [Direct -> {0} \cup Blk]
  BY <1>1, <1>4, <1>6, FileFields DEF MemInv, Memory
<1>11. ASSUME NEW n \in held
       PROVE  /\ n \in Direct /\ n < m.dir[s].size
              /\ m.dir[s].direct[n] = cl[c].pages[n] /\ cl[c].pages[n] \in m.dirty /\ cl[c].pages[n] \in Blk
  <2>1. /\ n \in FileBno /\ n < m.dir[s].size /\ cl[c].pages[n] \in marked[c]
        /\ cl[c].pages[n] = Pointer(m, s, n)
    BY <1>7, <1>11
  <2>2. n \in Direct /\ n < NDIRECT
    BY <1>10, <2>1, FsNumbers DEF DirectFiles, Direct, FileBno
  <2>3. cl[c].pages[n] \in m.dirty /\ m.dirty \subseteq Blk
    BY <1>1, <1>6, <2>1 DEF MarkedInv, MemInv, Memory
  <2> QED BY <2>1, <2>2, <2>3 DEF Pointer
<1>12. ASSUME NEW n \in held PROVE DataPending(x.w, cl[c].pages[n])
  BY <1>5, <1>6, <1>11, <1>12
<1>13. PromiseOf(p, s) /\ Told(p, s, m)
  <2>1. /\ held \subseteq Direct
        /\ \A n \in held : p.blocks[n].b \in Blk /\ m.dir[s].direct[n] = p.blocks[n].b
                          /\ m.cache[p.blocks[n].b] = p.blocks[n].words
    BY <1>9, <1>11
  <2>2. p.s = s /\ p.name = m.dir[s].name /\ p.size = m.dir[s].size /\ DOMAIN p.blocks = held
    BY <1>9
  <2> QED BY ONLY <2>1, <2>2 DEF PromiseOf, Told
<1> QED BY <1>4, <1>5, <1>6, <1>9, <1>12, <1>13 DEF Promised

\* A request is served.
LEMMA ServeDurable ==
    ASSUME DirectFiles, SlotInv, BlockInv, DurableInv, NEW c \in Client, serve(c)
    PROVE  DurableInv'
<1>1. PICK a : a = serve_table(c)
  OBVIOUS
<1>2. PICK m, m2 : m = mem /\ m2 = a.x.m
  OBVIOUS
<1>3. PICK p : p = IF cl[c].pc = "close" /\ a.x.r >= 0
                   THEN Promise(c, m2, opentab[cl[c].fileid].file) ELSE NONE
  OBVIOUS
<1>4. /\ srv.pc = "serve" /\ srv.whom = NONE /\ cl[c].pc # "idle" /\ opentab' = a.tab /\ mem' = m2
      /\ UNCHANGED <<disk, cl, calls, crashes>>
      /\ marked' = [marked EXCEPT ![c] = MarkedBy(c, a.x)]
      /\ safe' = [s \in Slot |-> IF m2.dir[s].name = m.dir[s].name /\ m2.dir[s].size = m.dir[s].size
                                 THEN safe[s] ELSE NONE]
      /\ srv' = Served(c, a.x)
  BY <1>1, <1>2, <1>3 DEF serve
<1>5. Contract(m, a.x)
  <2>1. cl[c].pc # "idle"
    BY <1>4
  <2> QED BY <1>1, <1>2, <2>1, ServeTable
<1>6. MemInv(m) /\ Keeps(m, m2) /\ a.x.r \in Int /\ a.x.r \notin Panics
  BY <1>2, <1>5 DEF Contract, BlockInv
<1>7. \/ srv'.pc = "grown" /\ srv'.promise = NONE
      \/ srv'.pc = "serve" /\ srv'.writes = a.x.w /\ srv'.promise = p
  <2>1. a.x.r # PANIC /\ a.x.r # PANIC_NO_MEM
    BY <1>6 DEF Panics
  <2>2. CASE a.x.r = GROWN
    <3>1. srv' = Server("grown")
      BY <1>4, <2>1, <2>2 DEF Served
    <3> QED BY <3>1 DEF Server
  <2>3. CASE a.x.r # GROWN
    <3>1. srv' = [srv EXCEPT !.writes = a.x.w, !.whom = c, !.r = a.x.r, !.promise = p]
      BY <1>2, <1>3, <1>4, <2>1, <2>3 DEF Served
    <3> QED BY <1>4, <3>1 DEF SlotInv
  <2> QED BY <2>2, <2>3
<1>8. SafeInv'
  <2>1. ASSUME NEW s \in Slot, safe'[s] # NONE
        PROVE  PromiseOf(safe'[s], s) /\ Stored(safe'[s], s, disk') /\ Told(safe'[s], s, mem')
    <3>1. safe'[s] = safe[s] /\ m2.dir[s].name = m.dir[s].name /\ m2.dir[s].size = m.dir[s].size
      BY <1>4, <2>1
    <3>2. PICK q : q = safe[s]
      OBVIOUS
    <3>3. PromiseOf(q, s) /\ Stored(q, s, disk) /\ Told(q, s, m)
      BY <1>2, <1>4, <2>1, <3>1, <3>2 DEF DurableInv, SafeInv
    <3>4. Told(q, s, m2)
      BY <1>6, <3>1, <3>3, ToldKept
    <3> QED BY <1>4, <3>1, <3>2, <3>3, <3>4
  <2>2. safe' = [s \in Slot |-> safe'[s]]
    BY <1>4
  <2> QED BY <2>1, <2>2 DEF SafeInv
<1>9. PromiseInv'
  <2>1. SUFFICES ASSUME srv'.promise # NONE
                 PROVE  srv'.pc = "serve" /\ \E s \in Slot : Promised(srv'.promise, s, disk', mem', srv'.writes)
    BY DEF PromiseInv
  <2>2. srv'.pc = "serve" /\ srv'.writes = a.x.w /\ srv'.promise = p
    BY <1>7, <2>1
  <2>3. cl[c].pc = "close" /\ a.x.r >= 0
    BY <1>3, <2>1, <2>2
  <2>4. PICK s : s = File_(c)
    OBVIOUS
  <2>5. p = Promise(c, a.x.m, s)
    BY <1>2, <1>3, <2>3, <2>4 DEF File_
  <2>6. ~(a.x.r < 0)
    BY <1>6, <2>3
  <2>7. s \in Slot /\ Promised(p, s, disk, a.x.m, a.x.w)
    BY <1>1, <2>3, <2>4, <2>5, <2>6, CloseServed DEF DurableInv
  <2> QED BY <1>2, <1>4, <2>2, <2>7
<1>10. MarkedInv'
  <2>1. m.dirty \subseteq m2.dirty
    BY <1>6 DEF Keeps
  <2>2. MarkedBy(c, a.x) \subseteq m2.dirty
    <3>1. CASE cl[c].pc = "dirty" /\ a.x.r >= 0
      <4>1. MarkedBy(c, a.x) = marked[c] \cup {Pointer(a.x.m, File_(c), cl[c].i)}
        BY <3>1 DEF MarkedBy
      <4>2. ~(a.x.r < 0)
        BY <1>6, <3>1
      <4>3. Pointer(a.x.m, File_(c), cl[c].i) \in m2.dirty
        BY <1>1, <1>2, <3>1, <4>2, DirtyServed
      <4>4. marked[c] \subseteq m.dirty
        BY <1>2 DEF DurableInv, MarkedInv
      <4> QED BY <2>1, <4>1, <4>3, <4>4
    <3>2. CASE ~(cl[c].pc = "dirty" /\ a.x.r >= 0)
      BY <3>2 DEF MarkedBy
    <3> QED BY <3>1, <3>2
  <2>3. DOMAIN marked = Client /\ \A d \in Client : marked[d] \subseteq m.dirty
    BY <1>2 DEF DurableInv, MarkedInv
  <2>4. PICK u : u = MarkedBy(c, a.x)
    OBVIOUS
  <2>5. /\ DOMAIN marked' = Client /\ marked'[c] = u
        /\ \A d \in Client : d # c => marked'[d] = marked[d]
    BY <1>4, <2>3, <2>4
  <2>6. \A d \in Client : marked'[d] \subseteq m2.dirty
    BY <2>1, <2>2, <2>3, <2>4, <2>5
  <2>7. ~Starting'
    BY <1>7 DEF Starting
  <2> QED BY <1>4, <2>5, <2>6, <2>7 DEF MarkedInv
<1> QED BY <1>8, <1>9, <1>10 DEF DurableInv

\* A block is written.
LEMMA WriteDurable ==
    ASSUME SlotInv, BlockInv, DurableInv, write_block
    PROVE  DurableInv'
<1>1. PICK w, m, d : w = srv.writes /\ m = mem /\ d = disk
  OBVIOUS
<1>2. /\ srv.pc = "serve" /\ w # <<>> /\ srv' = [srv EXCEPT !.writes = Tail(w)]
      /\ UNCHANGED <<mem, opentab, cl, marked, safe, calls, crashes>>
  BY <1>1 DEF write_block
<1>3. WritesOK(m, w) /\ d.dir \in [Slot -> File] /\ d.data \in [Blk -> Page]
      /\ d \in Disk
  BY <1>1 DEF BlockInv, DiskOK, Disk
<1>4. /\ Head(w) = w[1] /\ w[1] \in Write /\ 1 \in 1 .. Len(w)
      /\ \A t : DirPending(w, t) => DirPending(Tail(w), t) \/ (w[1].what = "dir" /\ w[1].s = t)
      /\ \A b : DataPending(w, b) => DataPending(Tail(w), b) \/ (w[1].what = "data" /\ w[1].b = b)
  <2>1. 1 \in 1 .. Len(w)
    BY <1>2, <1>3 DEF WritesOK
  <2> QED BY <1>2, <1>3, <2>1, OneWritten
<1>5. disk' = CASE w[1].what = "super" -> [d EXCEPT !.nblock = w[1].nblock]
                [] w[1].what = "bitmap" -> [d EXCEPT !.free = w[1].free]
                [] w[1].what = "dir" -> [d EXCEPT !.dir[w[1].s] = w[1].file]
                [] w[1].what = "data" -> [d EXCEPT !.data[w[1].b] = m.cache[w[1].b]]
  BY <1>1, <1>4 DEF write_block
<1>6. /\ srv'.pc = srv.pc /\ srv'.writes = Tail(w) /\ srv'.whom = srv.whom /\ srv'.r = srv.r
      /\ srv'.promise = srv.promise
  BY <1>2 DEF SlotInv
<1>7. PICK e : e = disk'
  OBVIOUS
<1>8. /\ \A s \in Slot : e.dir[s] = IF w[1].what = "dir" /\ w[1].s = s THEN m.dir[s] ELSE d.dir[s]
      /\ \A b \in Blk : e.data[b] = IF w[1].what = "data" /\ w[1].b = b THEN m.cache[b] ELSE d.data[b]
  <2>0. CASE w[1].what = "super"
    <3>1. e = [d EXCEPT !.nblock = w[1].nblock]
      BY <1>5, <1>7, <2>0
    <3> QED BY <1>3, <2>0, <3>1 DEF Disk
  <2>1. CASE w[1].what = "bitmap"
    <3>1. e = [d EXCEPT !.free = w[1].free]
      BY <1>5, <1>7, <2>1
    <3> QED BY <1>3, <2>1, <3>1 DEF Disk
  <2>2. CASE w[1].what = "dir"
    <3>1. e = [d EXCEPT !.dir[w[1].s] = w[1].file] /\ w[1].file = m.dir[w[1].s]
      BY <1>3, <1>4, <1>5, <1>7, <2>2 DEF WritesOK
    <3> QED BY <1>3, <2>2, <3>1 DEF Disk
  <2>3. CASE w[1].what = "data"
    <3>1. e = [d EXCEPT !.data[w[1].b] = m.cache[w[1].b]]
      BY <1>5, <1>7, <2>3
    <3> QED BY <1>3, <2>3, <3>1 DEF Disk
  <2> QED BY <1>4, <2>0, <2>1, <2>2, <2>3 DEF Write
<1>9. w[1].what = "data" => m.cache[w[1].b] # Unmapped
  BY <1>3, <1>4 DEF WritesOK
<1>10. ASSUME NEW p, NEW s \in Slot, PromiseOf(p, s), Told(p, s, m), Stored(p, s, d)
       PROVE  Stored(p, s, e)
  <2>1. e.dir[s].name = p.name /\ e.dir[s].size = p.size
    BY <1>8, <1>10 DEF Told, Stored
  <2>2. ASSUME NEW n \in DOMAIN p.blocks
        PROVE  e.dir[s].direct[n] = p.blocks[n].b /\ e.data[p.blocks[n].b] = p.blocks[n].words
    <3>1. p.blocks[n].b \in Blk
      BY <1>10 DEF PromiseOf
    <3>2. e.dir[s].direct[n] = p.blocks[n].b
      BY <1>8, <1>10 DEF Told, Stored
    <3>3. e.data[p.blocks[n].b] = p.blocks[n].words
      BY <1>8, <1>9, <1>10, <3>1 DEF Told, Stored
    <3> QED BY <3>2, <3>3
  <2> QED BY <2>1, <2>2 DEF Stored
<1>11. SafeInv'
  <2>1. ASSUME NEW s \in Slot, safe[s] # NONE
        PROVE  PromiseOf(safe[s], s) /\ Stored(safe[s], s, e) /\ Told(safe[s], s, m)
    <3>1. PromiseOf(safe[s], s) /\ Stored(safe[s], s, d) /\ Told(safe[s], s, m)
      BY <1>1, <1>2, <2>1 DEF DurableInv, SafeInv
    <3> QED BY <1>10, <3>1
  <2>2. safe = [s \in Slot |-> safe[s]]
    BY DEF DurableInv, SafeInv
  <2> QED BY <1>1, <1>2, <1>7, <2>1, <2>2 DEF SafeInv
<1>12. PromiseInv'
  <2>1. SUFFICES ASSUME srv'.promise # NONE
                 PROVE  srv'.pc = "serve" /\ \E s \in Slot : Promised(srv'.promise, s, disk', mem', srv'.writes)
    BY DEF PromiseInv
  <2>2. PICK p : p = srv.promise
    OBVIOUS
  <2>3. PICK s \in Slot : Promised(p, s, d, m, w)
    BY <1>1, <1>6, <2>1, <2>2 DEF DurableInv, PromiseInv
  <2>4. PromiseOf(p, s) /\ Told(p, s, m)
    BY <2>3 DEF Promised
  <2>5. DirPending(Tail(w), s) \/ e.dir[s] = m.dir[s]
    BY <1>4, <1>8, <2>3 DEF Promised
  <2>6. ASSUME NEW n \in DOMAIN p.blocks
        PROVE  DataPending(Tail(w), p.blocks[n].b) \/ e.data[p.blocks[n].b] = p.blocks[n].words
    <3>1. PICK b \in Blk : b = p.blocks[n].b
      BY <2>4 DEF PromiseOf
    <3>2. m.cache[b] \in {Unmapped, p.blocks[n].words}
      BY <2>4, <3>1 DEF Told
    <3>3. DataPending(w, b) \/ d.data[b] = p.blocks[n].words
      BY <2>3, <3>1 DEF Promised
    <3> QED BY <1>4, <1>8, <1>9, <3>1, <3>2, <3>3
  <2>7. Promised(p, s, e, m, Tail(w))
    BY <2>4, <2>5, <2>6 DEF Promised
  <2> QED BY <1>1, <1>2, <1>6, <1>7, <2>2, <2>7
<1>13. MarkedInv'
  BY <1>2, <1>6 DEF DurableInv, MarkedInv, Starting
<1> QED BY <1>11, <1>12, <1>13 DEF DurableInv

\* The answer arrives: what was promised is on the disk.
LEMMA AnswerDurable ==
    ASSUME SlotInv, BlockInv, DurableInv, NEW c \in Client, fsipc(c)
    PROVE  DurableInv'
<1>1. PICK p : p = srv.promise
  OBVIOUS
<1>3. /\ srv.pc = "serve" /\ srv.whom = c /\ srv.writes = <<>> /\ srv' = Server("serve")
      /\ UNCHANGED <<disk, mem, opentab, marked, calls, crashes>>
      /\ safe' = IF p # NONE THEN [safe EXCEPT ![p.s] = p] ELSE safe
  BY <1>1 DEF fsipc
<1>5. srv'.pc = "serve" /\ srv'.whom = NONE /\ srv'.promise = NONE /\ NONE \notin Client
  BY <1>3, FsAssumption DEF Server
<1>7. /\ safe = [s \in Slot |-> safe[s]]
      /\ \A s \in Slot : safe[s] # NONE =>
             PromiseOf(safe[s], s) /\ Stored(safe[s], s, disk) /\ Told(safe[s], s, mem)
  BY <1>3 DEF DurableInv, SafeInv
<1>8. SafeInv'
  <2>1. CASE p = NONE
    BY <1>3, <1>5, <1>7, <2>1 DEF SafeInv
  <2>2. CASE p # NONE
    <3>1. PICK s \in Slot : Promised(p, s, disk, mem, <<>>)
      BY <1>1, <1>3, <2>2 DEF DurableInv, PromiseInv
    <3>2. PromiseOf(p, s) /\ Told(p, s, mem) /\ p.s = s
      BY <3>1 DEF Promised, PromiseOf
    <3>3. ~DirPending(<<>>, s) /\ \A b : ~DataPending(<<>>, b)
      BY DEF DirPending, DataPending
    <3>4. Stored(p, s, disk)
      BY <3>1, <3>2, <3>3 DEF Promised, Stored, Told
    <3>5. DOMAIN safe = Slot /\ safe' = [safe EXCEPT ![s] = p]
      BY <1>3, <1>7, <2>2, <3>2
    <3>6. safe' = [t \in Slot |-> safe'[t]] /\ safe'[s] = p /\ \A t \in Slot : t # s => safe'[t] = safe[t]
      BY <3>5
    <3>7. ASSUME NEW t \in Slot, safe'[t] # NONE
          PROVE  PromiseOf(safe'[t], t) /\ Stored(safe'[t], t, disk) /\ Told(safe'[t], t, mem)
      BY <1>7, <3>2, <3>4, <3>6, <3>7
    <3> QED BY <1>3, <3>6, <3>7 DEF SafeInv
  <2> QED BY <2>1, <2>2
<1>9. PromiseInv'
  BY <1>5 DEF PromiseInv
<1>10. MarkedInv'
  BY <1>3, <1>5 DEF DurableInv, MarkedInv, Starting
<1> QED BY <1>8, <1>9, <1>10 DEF DurableInv

\* What leaves disk, memory and server alone.
LEMMA OthersDurable ==
    ASSUME DurableInv, UNCHANGED <<disk, mem, srv, marked, safe>>
    PROVE  DurableInv'
BY DEF DurableInv, SafeInv, PromiseInv, MarkedInv, Starting

\* A store into a page of the cache: the promises about that page end.
LEMMA StoreDurable ==
    ASSUME SlotInv, BlockInv, DurableInv, NEW c \in Client, NEW n \in FileBno, NEW v \in Data,
           file_write(c, n, v)
    PROVE  DurableInv'
<1>1. PICK b, m, d : b = cl[c].pages[n] /\ m = mem /\ d = disk
  OBVIOUS
<1> DEFINE keeps(p) == IF p = NONE THEN TRUE ELSE \A i \in DOMAIN p.blocks : p.blocks[i].b # b
<1>2. /\ srv.pc = "serve" /\ mem' = [m EXCEPT !.cache[b] = Filled(v)]
      /\ UNCHANGED <<disk, opentab, cl, marked, calls, crashes>>
      /\ safe' = [s \in Slot |-> IF keeps(safe[s]) THEN safe[s] ELSE NONE]
      /\ srv' = [srv EXCEPT !.promise = IF keeps(srv.promise) THEN srv.promise ELSE NONE]
  BY <1>1 DEF file_write
<1>3. /\ srv'.pc = srv.pc /\ srv'.writes = srv.writes /\ srv'.whom = srv.whom /\ srv'.r = srv.r
      /\ srv'.promise = IF keeps(srv.promise) THEN srv.promise ELSE NONE
  BY <1>2 DEF SlotInv
<1>4. m \in Memory
  BY <1>1 DEF BlockInv, MemInv
<1>5. PICK m2 : m2 = mem'
  OBVIOUS
<1>6. m2.dir = m.dir /\ m2.dirty = m.dirty /\ \A x \in Blk : x # b => m2.cache[x] = m.cache[x]
  BY <1>2, <1>4, <1>5 DEF Memory
<1>7. ASSUME NEW p, p # NONE, keeps(p), NEW s \in Slot, PromiseOf(p, s), Told(p, s, m)
      PROVE  Told(p, s, m2)
  <2>1. \A i \in DOMAIN p.blocks : p.blocks[i].b \in Blk /\ p.blocks[i].b # b
    BY <1>7 DEF PromiseOf
  <2> QED BY <1>6, <1>7, <2>1 DEF Told
<1> HIDE DEF keeps
<1>8. SafeInv'
  <2>1. ASSUME NEW s \in Slot, safe'[s] # NONE
        PROVE  PromiseOf(safe'[s], s) /\ Stored(safe'[s], s, disk') /\ Told(safe'[s], s, mem')
    <3>1. PICK p : p = safe[s]
      OBVIOUS
    <3>2. safe'[s] = p /\ keeps(p) /\ p # NONE
      BY <1>2, <2>1, <3>1
    <3>3. PromiseOf(p, s) /\ Stored(p, s, d) /\ Told(p, s, m)
      BY <1>1, <1>2, <3>1, <3>2 DEF DurableInv, SafeInv
    <3> QED BY <1>1, <1>2, <1>5, <1>7, <3>2, <3>3
  <2>2. safe' = [s \in Slot |-> safe'[s]]
    BY <1>2
  <2> QED BY <2>1, <2>2 DEF SafeInv
<1>9. PromiseInv'
  <2>1. SUFFICES ASSUME srv'.promise # NONE
                 PROVE  srv'.pc = "serve" /\ \E s \in Slot : Promised(srv'.promise, s, disk', mem', srv'.writes)
    BY DEF PromiseInv
  <2>2. PICK p, w : p = srv.promise /\ w = srv.writes
    OBVIOUS
  <2>3. srv'.promise = p /\ keeps(p) /\ p # NONE
    BY <1>3, <2>1, <2>2
  <2>4. PICK s \in Slot : Promised(p, s, d, m, w)
    BY <1>1, <2>2, <2>3 DEF DurableInv, PromiseInv
  <2>5. Told(p, s, m2) /\ m2.dir[s] = m.dir[s]
    BY <1>6, <1>7, <2>3, <2>4 DEF Promised
  <2>6. Promised(p, s, d, m2, w)
    BY <2>4, <2>5 DEF Promised
  <2> QED BY <1>1, <1>2, <1>3, <1>5, <2>2, <2>3, <2>6
<1>10. MarkedInv'
  BY <1>1, <1>2, <1>3, <1>5, <1>6 DEF DurableInv, MarkedInv, Starting
<1> QED BY <1>8, <1>9, <1>10 DEF DurableInv

\* A step of a client.
LEMMA ClientDurable ==
    ASSUME SlotInv, BlockInv, DurableInv, NEW c \in Client, ClientCalls(c)
    PROVE  DurableInv'
<1>1. ASSUME NEW n \in FileBno, NEW v \in Data, file_write(c, n, v) PROVE DurableInv'
  BY <1>1, StoreDurable
<1>2. CASE ~ \E n \in FileBno, v \in Data : file_write(c, n, v)
  <2>1. UNCHANGED <<disk, mem, srv, marked, safe>>
    BY <1>2 DEF ClientCalls, open, remove, ftruncate, close, sync, exit, Call
  <2> QED BY <2>1, OthersDurable
<1> QED BY <1>1, <1>2

\* The server starts: nothing is marked and nothing is promised.
LEMMA StartDurable ==
    ASSUME BlockInv, DurableInv, read_super \/ check_write_block \/ read_bitmap
    PROVE  DurableInv'
<1>1. /\ disk \in Disk
      /\ disk.super = "good" \/ srv.pc = "check_write_block"
  BY DEF BlockInv, DiskOK, SrvOK
<1>2. Starting /\ UNCHANGED <<marked, safe>>
  BY DEF read_super, check_write_block, read_bitmap, Starting
<1>3. DOMAIN marked = Client /\ \A c \in Client : marked[c] = {}
  BY <1>2 DEF DurableInv, MarkedInv
<1>4. /\ safe = [s \in Slot |-> safe[s]]
      /\ \A s \in Slot : safe[s] # NONE => PromiseOf(safe[s], s) /\ Stored(safe[s], s, disk)
  BY DEF DurableInv, SafeInv
<1>5. disk'.dir = disk.dir /\ disk'.data = disk.data
  BY <1>1 DEF read_super, check_write_block, read_bitmap, Disk
<1>6. \E pc : srv' = Server(pc) /\ (pc = "serve" => read_bitmap)
  BY DEF read_super, check_write_block, read_bitmap
<1>7. srv'.whom = NONE /\ srv'.promise = NONE /\ NONE \notin Client /\ (srv'.pc = "serve" => read_bitmap)
  BY <1>6, FsAssumption DEF Server
<1>8. ASSUME srv'.pc = "serve" PROVE mem'.dir = disk.dir /\ \A b \in Blk : mem'.cache[b] = Unmapped
  <2>1. mem' = [NoMem EXCEPT !.free = disk.free, !.dir = disk.dir, !.nblock = disk.nblock]
    BY <1>7, <1>8 DEF read_bitmap
  <2> QED BY <2>1 DEF NoMem
<1>9. ASSUME NEW s \in Slot, safe[s] # NONE
      PROVE  /\ PromiseOf(safe[s], s) /\ Stored(safe[s], s, disk')
             /\ srv'.pc = "serve" => Told(safe[s], s, mem')
  <2>1. PICK p : p = safe[s]
    OBVIOUS
  <2>2. PromiseOf(p, s) /\ Stored(p, s, disk)
    BY <1>4, <1>9, <2>1
  <2>3. Stored(p, s, disk')
    BY <1>5, <2>2 DEF Stored
  <2>4. ASSUME srv'.pc = "serve" PROVE Told(p, s, mem')
    BY <1>8, <2>2, <2>4 DEF Stored, Told, PromiseOf
  <2> QED BY <2>1, <2>2, <2>3, <2>4
<1>10. SafeInv' /\ PromiseInv'
  BY <1>2, <1>4, <1>7, <1>9 DEF SafeInv, PromiseInv
<1>11. MarkedInv'
  BY <1>2, <1>3 DEF MarkedInv
<1> QED BY <1>10, <1>11 DEF DurableInv

\* The machine stops: what is on the disk stays.
LEMMA CrashDurable ==
    ASSUME DurableInv, Crash
    PROVE  DurableInv'
<1>1. /\ srv' = Server("read_super") /\ marked' = [c \in Client |-> {}] /\ UNCHANGED <<disk, safe>>
  BY DEF Crash
<1>2. srv'.pc = "read_super" /\ srv'.promise = NONE
  BY <1>1 DEF Server
<1>3. SafeInv' /\ PromiseInv'
  BY <1>1, <1>2 DEF DurableInv, SafeInv, PromiseInv
<1>4. MarkedInv'
  BY <1>1 DEF MarkedInv
<1> QED BY <1>3, <1>4 DEF DurableInv

\* When close has returned 0 the file is on the disk, with the contents of the pages
\* that the client had mapped and the close has marked dirty, and stays there through
\* stops of the machine, want of memory and whatever is done to other files, until the
\* file itself is changed (fs.c:1557, serv.c:388): for any number of clients, names,
\* blocks and entries, whatever the other clients do meanwhile.
THEOREM ClosedIsDurableCorrect == DirectFiles /\ ~CrashInCheck => (FsSpec => []ClosedIsDurable)
<1>1. SUFFICES ASSUME DirectFiles, ~CrashInCheck PROVE FsSpec => []ClosedIsDurable
  OBVIOUS
<1>2. DurableInv => ClosedIsDurable
  <2>1. SUFFICES ASSUME DurableInv, NEW s \in Slot, safe[s] # NONE
                 PROVE  /\ disk.dir[s].name = safe[s].name /\ disk.dir[s].size = safe[s].size
                        /\ \A n \in DOMAIN safe[s].blocks :
                              /\ DiskPointer(s, n) = safe[s].blocks[n].b
                              /\ disk.data[safe[s].blocks[n].b] = safe[s].blocks[n].words
    BY DEF ClosedIsDurable
  <2>2. PICK p : p = safe[s]
    OBVIOUS
  <2>3. PromiseOf(p, s) /\ Stored(p, s, disk)
    BY <2>1, <2>2 DEF DurableInv, SafeInv
  <2>4. \A n \in DOMAIN p.blocks : DiskPointer(s, n) = disk.dir[s].direct[n]
    <3>1. \A n \in DOMAIN p.blocks : n < NDIRECT
      BY <2>3, FsNumbers DEF PromiseOf, Direct
    <3> QED BY <3>1 DEF DiskPointer
  <2> QED BY <2>2, <2>3, <2>4 DEF Stored
<1>3. Init => DurableInv
  <2>1. SUFFICES ASSUME Init PROVE DurableInv
    OBVIOUS
  <2>2. srv.pc = "read_super" /\ srv.promise = NONE
    BY <2>1 DEF Init, Server
  <2>3. SafeInv /\ PromiseInv
    BY <2>1, <2>2 DEF Init, SafeInv, PromiseInv
  <2>4. MarkedInv
    BY <2>1 DEF Init, MarkedInv
  <2> QED BY <2>3, <2>4 DEF DurableInv
<1>4. SlotInv /\ BlockInv /\ DurableInv /\ [Next]_vars => DurableInv'
  <2> SUFFICES ASSUME SlotInv, BlockInv, DurableInv, [Next]_vars PROVE DurableInv'
    OBVIOUS
  <2>1. CASE UNCHANGED vars
    BY <2>1, OthersDurable DEF vars
  <2>2. CASE no_memory
    BY <2>2, OthersDurable DEF no_memory
  <2> QED BY <1>1, <2>1, <2>2, StartDurable, WriteDurable, CrashDurable, ServeDurable, AnswerDurable,
             ClientDurable DEF Next
<1>5. FsSpec => [](SlotInv /\ BlockInv)
  BY <1>1, BlocksStaySound
<1> QED BY <1>2, <1>3, <1>4, <1>5, PTL DEF FsSpec
=============================================================================
