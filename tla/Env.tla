-------------------------------- MODULE Env --------------------------------
(***************************************************************************)
(* Process control blocks, their life cycle and the scheduler: kern/env.c, *)
(* kern/sched.c and the system calls of kern/syscall_all.c that act on     *)
(* them.  The kernel runs on one hart with interrupts off, so a trap is    *)
(* one atomic step: an action is a whole trap, from user mode back to user *)
(* mode, possibly in another environment.                                  *)
(*                                                                         *)
(* Of a trap frame only regs[10] is kept: a system call enters with its    *)
(* number in it and leaves with the result, so what an environment finds   *)
(* there when it resumes is what it is told about its own call.            *)
(***************************************************************************)
EXTENDS Tailq, Integers

CONSTANTS
    Env,      \* the elements of envs[NENV]
    NASID,    \* size of the ASID bitmap
    Pri,      \* the priorities environments are created with
    MaxGen,   \* bound: how often mkenvid is called
    Usage     \* which of the calls below user programs make

\* Usage names calls that the kernel accepts and that no program of the
\* repository makes:
\*   destroy_blocked   destroying a child that is not runnable
\*   wake_receiver     making a child runnable that waits for a message
\*   wake_caller       making a child runnable that is blocked in another call
\*   status_self       changing one's own status
\* and in module EnvInterrupt:
\*   two_codes         handling two interrupt codes in one environment
\*   in_handler        registering for a code from an interrupt handler
\*   driver_exit       destroying an environment that handles interrupts
UsagePatterns == {"destroy_blocked", "wake_receiver", "wake_caller", "status_self",
                  "two_codes", "in_handler", "driver_exit"}

ASSUME EnvAssumption ==
    /\ IsFiniteSet(Env) /\ NULL \notin Env /\ HEAD \notin Env
    /\ NASID \in Nat /\ Pri \subseteq Nat \ {0} /\ MaxGen \in Nat
    /\ Usage \subseteq UsagePatterns

VARIABLES
    envs,           \* struct Env of every slot
    env_free_list,  \* LIST of free slots: inserted and taken at the front
    env_sched_list, \* TAILQ of the runnable environments
    asid_bitmap,    \* the ASIDs in use
    gen,            \* mkenvid's static counter
    curenv,
    count,          \* schedule's static counter of remaining time slices
    a0,             \* regs[10] of the running environment
    halted          \* "no", or why the kernel stopped

envVars == <<envs, env_free_list, env_sched_list, asid_bitmap, gen, curenv, count, a0, halted>>
pools == <<env_free_list, asid_bitmap, gen>>

Status == {"FREE", "RUNNABLE", "NOT_RUNNABLE"}

\* An envid is the pair of the counter and the index; 0 is no environment, "the
\* caller" or "anyone", according to where it is used.
NoId == <<0, NULL>>
EnvId == {NoId} \cup ((1 .. MaxGen) \X Env)

\* Values of regs[10]: 0 or -E_INTR as the outcome of a call that blocked or of
\* a fork in the child; the number of a call that left without storing a result;
\* USER for everything else, the values a program computes and the results of
\* calls that return at once.
Word == {"USER", "OK", "E_INTR", "SYS_sleep", "SYS_set_env_status"}

EnvRecord == [env_status : Status, env_id : EnvId, env_parent_id : EnvId,
              env_asid : Nat, env_pri : Nat, env_in_syscall : {0, 1},
              env_ipc_recving : {0, 1}, env_ipc_recv_from : EnvId,
              env_a0 : Word]

Live(e) == envs[e].env_status # "FREE"
Runnable == {e \in Env : envs[e].env_status = "RUNNABLE"}

Init ==
    /\ envs = [e \in Env |->
                [env_status |-> "FREE", env_id |-> NoId, env_parent_id |-> NoId,
                 env_asid |-> 0, env_pri |-> 0, env_in_syscall |-> 0,
                 env_ipc_recving |-> 0, env_ipc_recv_from |-> NoId,
                 env_a0 |-> "USER"]]
    /\ env_free_list \in {s \in Orderings(Env) : Members(s) = Env}
    /\ env_sched_list = TAILQ_INIT(Env)
    /\ asid_bitmap = {}
    /\ gen = 0
    /\ curenv = NULL
    /\ count = 0
    /\ a0 = "USER"
    /\ halted = "no"

-----------------------------------------------------------------------------
(* env_run and schedule.  They run at the end of a trap, after the handler  *)
(* changed the environments to es and the queue to q; cur is curenv as the  *)
(* handler left it and word the regs[10] of the frame below KSTACKTOP.      *)

\* Saves the old environment's frame and resumes e with the one saved for it.
env_run(e, cur, es, word) ==
    LET saved == IF cur = NULL THEN es ELSE [es EXCEPT ![cur].env_a0 = word]
        runs == e # NULL /\ es[e].env_status = "RUNNABLE"
    IN  \/ /\ runs
           /\ envs' = saved
           /\ curenv' = e
           /\ a0' = saved[e].env_a0
           /\ UNCHANGED halted
        \/ /\ ~runs
           /\ halted' = IF e = NULL THEN "no runnable env" ELSE "assertion failed"
           /\ envs' = es
           /\ curenv' = cur
           /\ UNCHANGED a0

schedule(yield, cur, es, q, word) ==
    LET runnable == cur # NULL /\ es[cur].env_status = "RUNNABLE"
        again == runnable /\ ~yield /\ count # 0
        rotated == IF runnable THEN TAILQ_INSERT_TAIL(TAILQ_REMOVE(q, cur), cur) ELSE q
        nextenv == TAILQ_FIRST(rotated)
    IN  \/ /\ again
           /\ count' = count - 1
           /\ env_sched_list' = q
           /\ env_run(cur, cur, es, word)
        \/ /\ ~again
           /\ count' = IF nextenv = NULL THEN count ELSE es[nextenv].env_pri - 1
           /\ env_sched_list' = rotated
           /\ env_run(nextenv, cur, es, word)

-----------------------------------------------------------------------------
(* A running environment traps with a system call.                          *)

Running == curenv # NULL /\ halted = "no"

\* Mutant: the caller is not marked.
Entered_NoMark == envs

\* do_syscall marks the caller on the way in ...
Entered == [envs EXCEPT ![curenv].env_in_syscall = 1]

\* ... and, when the handler returns, unmarks it and stores the result.
Return(es) ==
    /\ envs' = [es EXCEPT ![curenv].env_in_syscall = 0]
    /\ a0' = "USER"
    /\ UNCHANGED <<curenv, count, halted>>

\* envid2env: the slot an envid names, whether it still is that environment,
\* and whether it is the caller or its child.
SlotOf(id) == IF id = NoId THEN curenv ELSE id[2]

\* Mutant: the slot is found whoever lives there now.
Valid_SlotOnly(id) == id # NoId => Live(id[2])

Valid(id) == id # NoId => Live(id[2]) /\ envs[id[2]].env_id = id
Permitted(id) == /\ Valid(id)
                 /\ \/ SlotOf(id) = curenv
                    \/ envs[SlotOf(id)].env_parent_id = envs[curenv].env_id

sys_yield ==
    /\ Running
    /\ schedule(TRUE, curenv, [envs EXCEPT ![curenv].env_in_syscall = 0],
                env_sched_list, "USER")
    /\ UNCHANGED pools

\* Only an interrupt, or a parent's sys_set_env_status, ends the sleep.
sys_sleep ==
    /\ Running
    /\ schedule(TRUE, curenv,
                [Entered EXCEPT ![curenv].env_status = "NOT_RUNNABLE",
                                ![curenv].env_a0 = "OK"],
                TAILQ_REMOVE(env_sched_list, curenv), "SYS_sleep")
    /\ UNCHANGED pools

\* The clock interrupt; the program may have computed since its last trap.
do_clock ==
    /\ Running
    /\ \E word \in {a0, "USER"} : schedule(FALSE, curenv, envs, env_sched_list, word)
    /\ UNCHANGED pools

-----------------------------------------------------------------------------
(* Creating environments.                                                   *)

Asid == 0 .. NASID - 1
FirstFreeAsid(a) == a \in Asid \ asid_bitmap /\ \A b \in Asid : b < a => b \in asid_bitmap

\* mkenvid, then the fields env_alloc sets; the others keep what the slot's
\* previous owner left there.
mkenvid(e) == <<gen + 1, e>>
env_alloc(e, asid, parent_id) ==
    [envs[e] EXCEPT !.env_id = mkenvid(e), !.env_asid = asid,
                    !.env_parent_id = parent_id, !.env_in_syscall = 0,
                    !.env_ipc_recv_from = NoId]

\* env_alloc fails without a free slot or without memory for a page directory.
AllocFails == UNCHANGED pools

\* It also fails when every ASID is taken, with an envid already drawn.
NoAsidLeft == /\ env_free_list # <<>> /\ gen < MaxGen
              /\ Asid \subseteq asid_bitmap
              /\ gen' = gen + 1
              /\ UNCHANGED <<env_free_list, asid_bitmap>>

\* It succeeds with the first slot and the lowest ASID.
Allocates(e, asid) == /\ env_free_list # <<>> /\ gen < MaxGen
                      /\ e = Head(env_free_list) /\ FirstFreeAsid(asid)
                      /\ gen' = gen + 1
                      /\ env_free_list' = Tail(env_free_list)
                      /\ asid_bitmap' = asid_bitmap \cup {asid}

\* Before the first schedule(0) the kernel creates the initial environments.
Booting == curenv = NULL /\ halted = "no"

env_create(pri) ==
    /\ Booting
    /\ \E e \in Env, asid \in Asid :
          /\ Allocates(e, asid)
          /\ envs' = [envs EXCEPT ![e] =
                        [env_alloc(e, asid, NoId) EXCEPT !.env_pri = pri,
                                                         !.env_status = "RUNNABLE"]]
          /\ env_sched_list' = TAILQ_INSERT_HEAD(env_sched_list, e)
    /\ UNCHANGED <<curenv, count, a0, halted>>

start_schedule ==
    /\ Booting
    /\ schedule(FALSE, NULL, envs, env_sched_list, a0)
    /\ UNCHANGED pools

\* fork in the kernel: the child resumes from the same call with 0.
sys_exofork ==
    /\ Running
    /\ \/ /\ AllocFails
          /\ Return(Entered)
          /\ UNCHANGED env_sched_list
       \/ /\ NoAsidLeft
          /\ LET e == Head(env_free_list)
             IN  Return([Entered EXCEPT ![e].env_id = mkenvid(e)])
          /\ UNCHANGED env_sched_list
       \/ \E e \in Env, asid \in Asid :
             /\ Allocates(e, asid)
             /\ Return([Entered EXCEPT ![e] =
                          [env_alloc(e, asid, envs[curenv].env_id) EXCEPT
                              !.env_a0 = "OK", !.env_status = "RUNNABLE",
                              !.env_pri = envs[curenv].env_pri]])
             /\ env_sched_list' = TAILQ_INSERT_HEAD(env_sched_list, e)

-----------------------------------------------------------------------------
(* Destroying environments and changing their status.                       *)

\* Mutants: the ASID, or the slot, is not given back.
env_free_KeepsAsid(e) == env_free_list' = <<e>> \o env_free_list /\ UNCHANGED <<asid_bitmap, gen>>
env_free_LosesSlot(e) ==
    /\ asid_bitmap' = asid_bitmap \ {envs[e].env_asid}
    /\ UNCHANGED <<env_free_list, gen>>

\* env_free gives back the ASID and the slot and unlinks the environment.
env_free(e) ==
    /\ asid_bitmap' = asid_bitmap \ {envs[e].env_asid}
    /\ env_free_list' = <<e>> \o env_free_list
    /\ UNCHANGED gen

sys_env_destroy(id) ==
    /\ Running
    /\ \/ /\ ~Permitted(id)
          /\ Return(Entered)
          /\ UNCHANGED <<pools, env_sched_list>>
       \/ /\ Permitted(id)
          /\ LET e == SlotOf(id)
                 es == [Entered EXCEPT ![e].env_status = "FREE"]
                 q == TAILQ_REMOVE(env_sched_list, e)
             IN  /\ envs[e].env_status = "RUNNABLE" \/ "destroy_blocked" \in Usage
                 /\ env_free(e)
                 /\ \/ /\ e = curenv
                       /\ schedule(TRUE, NULL, es, q, "USER")
                    \/ /\ e # curenv
                       /\ Return(es)
                       /\ env_sched_list' = q

\* Mutant: whoever is blocked is taken to be in a call.
BlockedInCall_StatusOnly(e) == envs[e].env_status = "NOT_RUNNABLE"

BlockedInCall(e) == envs[e].env_status = "NOT_RUNNABLE" /\ envs[e].env_in_syscall = 1
WakePattern(e) == IF envs[e].env_ipc_recving = 1 THEN "wake_receiver" ELSE "wake_caller"

sys_set_env_status(id, status) ==
    /\ Running
    /\ UNCHANGED pools
    /\ \/ /\ status = "FREE" \/ ~Permitted(id)
          /\ Return(Entered)
          /\ UNCHANGED env_sched_list
       \/ /\ status # "FREE" /\ Permitted(id)
          /\ LET e == SlotOf(id)
                 es == [Entered EXCEPT ![e].env_status = status]
                 q == CASE envs[e].env_status = status -> env_sched_list
                        [] envs[e].env_status # status /\ status = "RUNNABLE" ->
                              TAILQ_INSERT_TAIL(env_sched_list, e)
                        [] OTHER -> TAILQ_REMOVE(env_sched_list, e)
             IN  /\ e = curenv => "status_self" \in Usage
                 /\ status = "RUNNABLE" /\ BlockedInCall(e) => WakePattern(e) \in Usage
                 /\ \/ /\ e = curenv
                       /\ schedule(TRUE, curenv, es, q, "SYS_set_env_status")
                    \/ /\ e # curenv
                       /\ Return(es)
                       /\ env_sched_list' = q

EnvNext ==
    \/ \E pri \in Pri : env_create(pri)
    \/ start_schedule
    \/ do_clock
    \/ sys_yield
    \/ sys_sleep
    \/ sys_exofork
    \/ \E id \in EnvId : sys_env_destroy(id)
    \/ \E id \in EnvId, status \in Status : sys_set_env_status(id, status)

EnvSpec == Init /\ [][EnvNext]_envVars

-----------------------------------------------------------------------------
(* Properties.                                                              *)

\* struct Env, the two lists, the ASID bitmap, curenv and schedule's counter hold
\* values of their types; in particular envids are drawn from mkenvid's range and
\* the remaining time slices never go below zero.
TypeOK ==
    /\ envs \in [Env -> EnvRecord]
    /\ env_free_list \in Seq(Env)
    /\ env_sched_list \in Queue(Env)
    /\ asid_bitmap \subseteq Asid
    /\ gen \in 0 .. MaxGen
    /\ curenv \in Env \cup {NULL}
    /\ count \in Nat
    /\ a0 \in Word
    /\ halted \in {"no", "no runnable env", "assertion failed"}

\* kern/env.c:19: "'env' in 'env_sched_list' iff. 'env->env_status' is
\* 'RUNNABLE'".  The queue is intact - linked both ways, without repetition -
\* and links exactly the runnable environments.
SchedListIffRunnable ==
    \E s \in Orderings(Env) : Represents(env_sched_list, s) /\ Members(s) = Runnable

\* The free list holds every free slot once, so that a slot is never given to
\* two environments and never lost.
FreeListIffFree ==
    /\ NoRepeats(env_free_list)
    /\ Members(env_free_list) = {e \in Env : ~Live(e)}

\* Live environments have distinct ASIDs, and exactly those are marked in the
\* bitmap: two address spaces never share TLB entries and no ASID is lost.
AsidsExact ==
    /\ asid_bitmap = {envs[e].env_asid : e \in {x \in Env : Live(x)}}
    /\ \A d, e \in Env : Live(d) /\ Live(e) /\ envs[d].env_asid = envs[e].env_asid => d = e

\* env_run's assertion holds in every call: the kernel never resumes an
\* environment that is blocked or was freed.
AssertHolds == halted # "assertion failed"

\* env_alloc, env_free, schedule and env_run keep the table of environments:
\* well typed, every slot either free or somebody's, nobody resumed who may not run.
TablesConsistent == TypeOK /\ FreeListIffFree /\ AssertHolds

\* kern/syscall_all.c:1129: sys_sleep's result is 0.  A program that resumes from
\* it does not find the call's number instead.
SleepReturnsZero == Running => a0 # "SYS_sleep"

\* kern/syscall_all.c:561: sys_set_env_status returns 0 when it succeeds, also to a
\* caller that changed its own status.
SetStatusReturnsZero == Running => a0 # "SYS_set_env_status"
=============================================================================
