-------------------------------- MODULE Vpt --------------------------------
(***************************************************************************)
(* The page-table window (kern/userspace.c): map_user_vpt shows an         *)
(* environment its own page tables, read-only, at UVPT; unmap_user_vpt     *)
(* takes the pages away again; env_free releases the environment.          *)
(*                                                                         *)
(* A table has SUB entries; a user slot is a first-level entry below UTOP. *)
(* The window shows third-level table x at its page x, the second-level    *)
(* table of slot s at page UVPT / 2^9, the place the window's own tables   *)
(* would have, plus s, and the first-level table at UVPT / 2^9 + UVPT /    *)
(* 2^18.  The window has tables of its own, under the first-level entry of *)
(* UVPT: a second-level one and one for each SUB pages.                    *)
(***************************************************************************)
EXTENDS Integers, FiniteSets, FiniteSetsExt

CONSTANTS
    NSLOT,        \* user slots: 0 .. NSLOT - 1
    SUB,           \* entries of a table: 512
    UVPT_SLOT,     \* the slot of the window, above the user slots
    TablePages     \* physical pages for tables

ASSUME VptAssumption ==
    /\ {NSLOT, SUB, UVPT_SLOT} \subseteq Nat \ {0} /\ NSLOT <= UVPT_SLOT /\ UVPT_SLOT < SUB
    /\ TablePages \subseteq Nat \ {0} /\ IsFiniteSet(TablePages)

UserSlot == 0 .. NSLOT - 1
Place == 0 .. SUB * SUB - 1

VARIABLES
    vp1,          \* the first-level table: its page, 0 when there is no environment
    vp2,          \* [UserSlot -> page of the second-level table, or 0]
    vp3,          \* [third-level number -> page of the table, or 0]
    window,      \* [page of the window -> what is mapped there, or 0]
    wtables,     \* the window's tables: [<<>> or <<slot>> -> page], partial
    pp_ref,      \* references of each page
    bad          \* a table was looked for where there is none

vptVars == <<vp1, vp2, vp3, window, wtables, pp_ref, bad>>

VptInit ==
    /\ vp1 = 0
    /\ vp2 = [s \in UserSlot |-> 0] /\ vp3 = [x \in 0 .. NSLOT * SUB - 1 |-> 0]
    /\ window = [w \in Place |-> 0] /\ wtables = [k \in {} |-> 0]
    /\ pp_ref = [f \in TablePages |-> 0]
    /\ bad = FALSE

\* Pages to hand out, the smallest first; bound: memory does not run out.
Unused(refs) == {f \in TablePages : refs[f] = 0}
Room == Cardinality(Unused(pp_ref)) >= NSLOT + 3

\* env_setup_vm.
setup_vm ==
    /\ vp1 = 0 /\ Room
    /\ vp1' = Min(Unused(pp_ref))
    /\ pp_ref' = [pp_ref EXCEPT ![vp1'] = 1]
    /\ UNCHANGED <<vp2, vp3, window, wtables, bad>>

\* The environment maps a page of third-level table x: pgdir_walk makes the
\* tables on the way.
pgdir_walk(x) ==
    /\ vp1 # 0 /\ Room /\ vp3[x] = 0
    /\ LET s == x \div SUB
           f == IF vp2[s] = 0 THEN Min(Unused(pp_ref)) ELSE vp2[s]
           g == Min(Unused(pp_ref) \ {f})
       IN  /\ vp2' = [vp2 EXCEPT ![s] = f]
           /\ vp3' = [vp3 EXCEPT ![x] = g]
           /\ pp_ref' = [pp_ref EXCEPT ![f] = 1 + (IF vp2[s] = 0 THEN 0 ELSE @ - 1), ![g] = 1]
    /\ UNCHANGED <<vp1, window, wtables, bad>>

----------------------------------------------------------------------------
(* The window. *)

\* A bug: the number of the slot is left out.
ThirdPlace_NoSlot(x) == x % SUB

ThirdPlace(x) == x
SecondPlace(s) == SUB * UVPT_SLOT + s
FirstPlace == SUB * UVPT_SLOT + UVPT_SLOT

\* What map_user_vpt inserts at place w, 0 for nothing: it shows the first level,
\* then the second, then the third, as they are now.
Shown(w) ==
    LET thirds == {x \in DOMAIN vp3 : vp3[x] # 0 /\ ThirdPlace(x) = w}
        seconds == {s \in UserSlot : vp2[s] # 0 /\ SecondPlace(s) = w}
    IN  IF thirds # {} THEN vp3[Max(thirds)]
        ELSE IF seconds # {} THEN vp2[Max(seconds)]
        ELSE IF w = FirstPlace THEN vp1 ELSE 0

\* The tables of the window that these insertions have to make, and pages for them.
MissingTables == ({<<>>} \cup {<<w \div SUB>> : w \in {w \in Place : Shown(w) # 0}}) \ DOMAIN wtables
PagesFor(keys) ==
    CHOOSE g \in [keys -> Unused(pp_ref)] : \A j, k \in keys : g[j] = g[k] => j = k

Places(win, f) == {w \in Place : win[w] = f}

\* page_insert at each of the places: a page gains a reference for a place that
\* shows it now, and loses one for a place that did.
page_insert(new) ==
    /\ window' = [w \in Place |-> IF Shown(w) # 0 THEN Shown(w) ELSE window[w]]
    /\ wtables' = [k \in DOMAIN wtables \cup DOMAIN new |->
                      IF k \in DOMAIN new THEN new[k] ELSE wtables[k]]
    /\ pp_ref' = [f \in TablePages |->
                     IF \E k \in DOMAIN new : new[k] = f THEN 1
                     ELSE pp_ref[f] + Cardinality(Places(window', f)) - Cardinality(Places(window, f))]

map_user_vpt ==
    /\ vp1 # 0 /\ Room
    /\ page_insert(PagesFor(MissingTables))
    /\ UNCHANGED <<vp1, vp2, vp3, bad>>

\* Every page the window maps is removed; the window's tables stay.  Without
\* a window the entry of UVPT is 0, and what lies at physical address 0 is
\* taken for a table.
unmap_user_vpt ==
    /\ vp1 # 0
    /\ IF <<>> \notin DOMAIN wtables
         THEN bad' = TRUE /\ UNCHANGED <<window, pp_ref>>
         ELSE /\ window' = [w \in Place |-> 0]
              /\ pp_ref' = [f \in TablePages |->
                     pp_ref[f] - Cardinality(Places(window, f))]
              /\ UNCHANGED bad
    /\ UNCHANGED <<vp1, vp2, vp3, wtables>>

\* env_free walks the slots below UTOP and the page directory: not the window.
free_env ==
    /\ vp1 # 0
    /\ pp_ref' = [f \in TablePages |-> pp_ref[f]
          - Cardinality({x \in DOMAIN vp3 : vp3[x] = f})
          - Cardinality({s \in UserSlot : vp2[s] = f}) - (IF vp1 = f THEN 1 ELSE 0)]
    /\ vp1' = 0
    /\ vp2' = [s \in UserSlot |-> 0] /\ vp3' = [x \in DOMAIN vp3 |-> 0]
    /\ window' = [w \in Place |-> 0] /\ wtables' = [k \in {} |-> 0]
    /\ UNCHANGED bad

VptNext ==
    \/ setup_vm \/ map_user_vpt \/ unmap_user_vpt \/ free_env
    \/ \E x \in DOMAIN vp3 : pgdir_walk(x)

----------------------------------------------------------------------------
(* Properties *)

\* What the environment reads in the window is its own tables, each at the
\* place its number says, and a page is referenced as often as the tables
\* and the window use it: no table can be handed out again while the window
\* still shows it.
WindowShowsTables ==
    vp1 # 0 =>
        /\ window[FirstPlace] \in {0, vp1}
        /\ \A s \in UserSlot : window[SecondPlace(s)] \in {0, vp2[s]}
        /\ \A x \in DOMAIN vp3 : window[x] \in {0, vp3[x]}
        /\ \A f \in ({vp1} \cup {vp2[s] : s \in UserSlot} \cup {vp3[x] : x \in DOMAIN vp3}) \ {0} :
              pp_ref[f] = 1 + Cardinality(Places(window, f))

\* An environment that is gone leaves no page behind.
NoTableLeft == vp1 = 0 => \A f \in TablePages : pp_ref[f] = 0

\* unmap_user_vpt may be called at any time.
UnmapSafe == ~bad
============================================================================
