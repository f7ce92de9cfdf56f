----------------------------- MODULE IrqProofs -----------------------------
(***************************************************************************)
(* What user-level interrupts guarantee to the programs they interrupt,    *)
(* for any number of environments and interrupt codes: a receive tells the *)
(* receiver what happened, a code is masked exactly while it is handled,   *)
(* and a program that was not in a call finds its registers unchanged.     *)
(*                                                                         *)
(* Each action is first reduced to its effect on single environments       *)
(* (Keeps, Becomes): status, marks and regs[10], wherever that is kept.    *)
(* The invariants are conditions on single environments as well, so that   *)
(* a step only has to be looked at where it changes one.                   *)
(***************************************************************************)
EXTENDS EnvProofs

\* regs[10] of every environment: live if it is running, saved otherwise.
regs == [e \in Env |-> IF e = curenv THEN a0 ELSE envs[e].env_a0]

\* A step leaves environment d as it is.
Keeps(d) ==
    /\ envs'[d].env_status = envs[d].env_status
    /\ envs'[d].env_id = envs[d].env_id
    /\ envs'[d].env_in_syscall = envs[d].env_in_syscall
    /\ envs'[d].env_ipc_recving = envs[d].env_ipc_recving
    /\ halted' = "no" => regs'[d] = regs[d]

\* A step gives environment e a status, the two marks and a word in regs[10].
Becomes(e, status, sys, recving, word) ==
    /\ envs'[e].env_status = status
    /\ envs'[e].env_id = envs[e].env_id
    /\ envs'[e].env_in_syscall = sys
    /\ envs'[e].env_ipc_recving = recving
    /\ halted' = "no" => regs'[e] = word

\* The fields that the interrupt code reads are those of es, except regs[10].
FieldsOf(es) ==
    \A d \in Env : /\ envs'[d].env_status = es[d].env_status
                   /\ envs'[d].env_id = es[d].env_id
                   /\ envs'[d].env_in_syscall = es[d].env_in_syscall
                   /\ envs'[d].env_ipc_recving = es[d].env_ipc_recving

-----------------------------------------------------------------------------
(* The end of a trap.                                                       *)

\* env_run saves the frame of the one that leaves and no other field.
LEMMA EnvRunEffect ==
    ASSUME NEW es \in [Env -> EnvRecord], NEW cur \in Env \cup {NULL}, NEW e, NEW word \in Word,
           env_run(e, cur, es, word)
    PROVE  /\ FieldsOf(es)
           /\ halted' = "no" => \A d \in Env : regs'[d] = IF d = cur THEN word ELSE es[d].env_a0
<1> DEFINE saved == IF cur = NULL THEN es ELSE [es EXCEPT ![cur].env_a0 = word]
           runs == e # NULL /\ es[e].env_status = "RUNNABLE"
<1>1. NULL \notin Env
  BY EnvAssumption
<1>2. \A d \in Env : /\ saved[d].env_a0 = IF d = cur THEN word ELSE es[d].env_a0
                     /\ saved[d].env_status = es[d].env_status
                     /\ saved[d].env_id = es[d].env_id
                     /\ saved[d].env_in_syscall = es[d].env_in_syscall
                     /\ saved[d].env_ipc_recving = es[d].env_ipc_recving
  BY <1>1 DEF EnvRecord
<1>3. CASE runs
  <2>1. envs' = saved /\ curenv' = e /\ a0' = saved[e].env_a0
    BY <1>3 DEF env_run
  <2> HIDE DEF saved
  <2>2. \A d \in Env : regs'[d] = saved[d].env_a0
    BY <2>1 DEF regs
  <2> QED BY <1>2, <2>1, <2>2 DEF FieldsOf
<1>4. CASE ~runs
  <2>1. envs' = es /\ halted' # "no"
    BY <1>4 DEF env_run
  <2> QED BY <2>1 DEF FieldsOf
<1> QED BY <1>3, <1>4

\* The environment that leaves was freed: nothing is saved.
LEMMA LeaveEffect ==
    ASSUME NEW es \in [Env -> EnvRecord], NEW q, schedule(TRUE, NULL, es, q, "USER")
    PROVE  /\ FieldsOf(es)
           /\ halted' = "no" => \A d \in Env : regs'[d] = es[d].env_a0
<1>1. PICK e : env_run(e, NULL, es, "USER")
  BY DEF schedule
<1>2. envs' = es
  BY <1>1 DEF env_run
<1>3. halted' = "no" => a0' = es[curenv'].env_a0
  BY <1>1 DEF env_run
<1> QED BY <1>2, <1>3 DEF FieldsOf, regs

\* schedule passes on env_run's effect, whoever it picks.
LEMMA ScheduleEffect ==
    ASSUME NEW yield \in BOOLEAN, NEW cur \in Env \cup {NULL}, NEW es \in [Env -> EnvRecord],
           NEW q, NEW word \in Word, schedule(yield, cur, es, q, word)
    PROVE  /\ FieldsOf(es)
           /\ halted' = "no" => \A d \in Env : regs'[d] = IF d = cur THEN word ELSE es[d].env_a0
<1>1. \E e : env_run(e, cur, es, word)
  BY DEF schedule
<1> QED BY <1>1, EnvRunEffect

\* do_syscall's end: the caller is unmarked and finds its result.
LEMMA ReturnEffect ==
    ASSUME NEW es \in [Env -> EnvRecord], curenv \in Env, Return(es)
    PROVE  /\ \A d \in Env \ {curenv} : envs'[d] = es[d] /\ regs'[d] = es[d].env_a0
           /\ envs'[curenv].env_status = es[curenv].env_status
           /\ envs'[curenv].env_id = es[curenv].env_id
           /\ envs'[curenv].env_ipc_recving = es[curenv].env_ipc_recving
           /\ envs'[curenv].env_in_syscall = 0 /\ regs'[curenv] = "USER"
BY DEF Return, regs, EnvRecord

\* What the invariant says of the caller, and what do_syscall's mark changes.
LEMMA Caller ==
    ASSUME IInv, Running
    PROVE  /\ curenv \in Env /\ envs \in [Env -> EnvRecord] /\ Entered \in [Env -> EnvRecord]
           /\ envs[curenv].env_status = "RUNNABLE" /\ envs[curenv].env_ipc_recving = 0
           /\ halted = "no" /\ a0 \in Word /\ regs[curenv] = a0
           /\ \A d \in Env \ {curenv} : Entered[d] = envs[d] /\ regs[d] = envs[d].env_a0
           /\ Entered[curenv].env_id = envs[curenv].env_id
           /\ Entered[curenv].env_status = "RUNNABLE" /\ Entered[curenv].env_ipc_recving = 0
           /\ Entered[curenv].env_in_syscall = 1
<1>1. curenv \in Env /\ envs \in [Env -> EnvRecord] /\ envs[curenv].env_ipc_recving \in {0, 1}
  BY EnteredGood DEF EnvRecord
<1>2. /\ \A d \in Env \ {curenv} : Entered[d] = envs[d]
      /\ Entered[curenv].env_id = envs[curenv].env_id
      /\ Entered[curenv].env_ipc_recving = envs[curenv].env_ipc_recving
      /\ Entered[curenv].env_in_syscall = 1
  BY <1>1 DEF Entered, EnvRecord
<1>3. /\ regs[curenv] = a0
      /\ \A d \in Env \ {curenv} : regs[d] = envs[d].env_a0
  BY <1>1 DEF regs
<1> QED BY <1>1, <1>2, <1>3, EnteredGood

\* A call that only returns.
CallReturns ==
    /\ Becomes(curenv, "RUNNABLE", 0, 0, "USER")
    /\ \A d \in Env \ {curenv} : Keeps(d)

\* A call refused at its checks returns to its caller.
LEMMA RefusedEffect ==
    ASSUME IInv, Running, Return(Entered)
    PROVE  CallReturns
BY Caller, ReturnEffect DEF CallReturns, Becomes, Keeps

-----------------------------------------------------------------------------
(* The effect of each action on single environments.                        *)

\* A slot that was free is given to a new environment, under an id that no one had.
Fresh(e) ==
    /\ envs[e].env_status = "FREE" /\ envs'[e].env_status = "RUNNABLE"
    /\ envs'[e].env_id = <<gen', e>> /\ gen' = gen + 1
    /\ envs'[e].env_in_syscall = 0
    /\ envs'[e].env_ipc_recving = envs[e].env_ipc_recving

\* The head of the free list is a free slot.
LEMMA HeadIsFree ==
    ASSUME IInv, env_free_list # <<>>
    PROVE  Head(env_free_list) \in Env /\ envs[Head(env_free_list)].env_status = "FREE"
<1>1. /\ env_free_list \in Seq(Env) /\ NoRepeats(env_free_list)
      /\ Members(env_free_list) = Env \ LiveIn(envs)
  BY DEF IInv, Good, FreeOK
<1>2. Head(env_free_list) \in Members(env_free_list)
  BY <1>1, PopFree
<1> QED BY <1>1, <1>2 DEF LiveIn

\* At boot one environment appears; nobody runs.
LEMMA CreateEffect ==
    ASSUME IInv, NEW pri \in Pri, env_create(pri)
    PROVE  \E e \in Env : Fresh(e) /\ \A d \in Env \ {e} : Keeps(d)
<1>1. PICK e \in Env, asid \in Asid :
         /\ Allocates(e, asid)
         /\ envs' = [envs EXCEPT ![e] = [env_alloc(e, asid, NoId) EXCEPT !.env_pri = pri,
                                                                       !.env_status = "RUNNABLE"]]
  BY DEF env_create
<1>2. envs[e].env_status = "FREE" /\ gen' = gen + 1 /\ envs \in [Env -> EnvRecord]
  BY <1>1, HeadIsFree DEF Allocates, IInv, Good
<1>3. Fresh(e)
  BY <1>1, <1>2 DEF Fresh, env_alloc, mkenvid, EnvRecord
<1>4. ASSUME NEW d \in Env \ {e} PROVE Keeps(d)
  <2>1. envs'[d] = envs[d] /\ curenv' = curenv /\ a0' = a0
    BY <1>1, <1>2 DEF env_create
  <2> QED BY <2>1 DEF Keeps, regs
<1> QED BY <1>3, <1>4

\* The first schedule changes no receive and no saved word.
LEMMA StartEffect ==
    ASSUME IInv, start_schedule
    PROVE  \A d \in Env : Keeps(d)
<1>1. curenv = NULL /\ schedule(FALSE, NULL, envs, env_sched_list, a0)
  BY DEF start_schedule, Booting
<1>2. envs \in [Env -> EnvRecord] /\ a0 \in Word /\ NULL \notin Env
  BY EnvAssumption DEF IInv, Good
<1>3. \A d \in Env : regs[d] = envs[d].env_a0
  BY <1>1, <1>2 DEF regs
<1>4. /\ FieldsOf(envs)
      /\ halted' = "no" => \A d \in Env : regs'[d] = IF d = NULL THEN a0 ELSE envs[d].env_a0
  BY <1>1, <1>2, ScheduleEffect, ZenonT(30)
<1> QED BY <1>2, <1>3, <1>4 DEF Keeps, FieldsOf

\* The clock takes nothing but the CPU; the program may have computed before it.
LEMMA ClockEffect ==
    ASSUME IInv, do_clock
    PROVE  \E word \in {a0, "USER"} :
             /\ Becomes(curenv, "RUNNABLE", envs[curenv].env_in_syscall, 0, word)
             /\ \A d \in Env \ {curenv} : Keeps(d)
             /\ halted' = "no" => envs'[curenv].env_a0 = word
<1>1. Running
  BY DEF do_clock
<1>2. PICK word \in {a0, "USER"} : schedule(FALSE, curenv, envs, env_sched_list, word)
  BY DEF do_clock
<1>3. word \in Word /\ curenv \in Env \cup {NULL} /\ envs \in [Env -> EnvRecord]
  BY <1>1, Caller DEF Word
<1>4. PICK n : env_run(n, curenv, envs, word)
  BY <1>2 DEF schedule
<1>5. /\ FieldsOf(envs)
      /\ halted' = "no" => \A d \in Env : regs'[d] = IF d = curenv THEN word ELSE envs[d].env_a0
  BY <1>3, <1>4, EnvRunEffect
<1>6. halted' = "no" => envs'[curenv].env_a0 = word
  <2>1. curenv # NULL
    BY <1>1 DEF Running
  <2>2. CASE n # NULL /\ envs[n].env_status = "RUNNABLE"
    <3>1. envs' = [envs EXCEPT ![curenv].env_a0 = word]
      BY <1>4, <2>1, <2>2 DEF env_run
    <3> QED BY <1>1, <3>1, Caller DEF EnvRecord
  <2>3. CASE ~(n # NULL /\ envs[n].env_status = "RUNNABLE")
    BY <1>4, <2>3 DEF env_run
  <2> QED BY <2>2, <2>3
<1> QED BY <1>1, <1>5, <1>6, Caller DEF Becomes, Keeps, FieldsOf

\* sys_yield returns to its caller.
LEMMA YieldEffect ==
    ASSUME IInv, sys_yield
    PROVE  CallReturns
<1> DEFINE es == [envs EXCEPT ![curenv].env_in_syscall = 0]
<1>1. Running /\ schedule(TRUE, curenv, es, env_sched_list, "USER")
  BY DEF sys_yield
<1>2. /\ es \in [Env -> EnvRecord] /\ \A d \in Env \ {curenv} : es[d] = envs[d]
      /\ es[curenv].env_status = "RUNNABLE" /\ es[curenv].env_id = envs[curenv].env_id
      /\ es[curenv].env_in_syscall = 0 /\ es[curenv].env_ipc_recving = 0
  BY <1>1, Caller DEF EnvRecord
<1> HIDE DEF es
<1>3. /\ FieldsOf(es)
      /\ halted' = "no" => \A d \in Env : regs'[d] = IF d = curenv THEN "USER" ELSE es[d].env_a0
  BY <1>1, <1>2, Caller, ScheduleEffect DEF Word
<1> QED BY <1>1, <1>2, <1>3, Caller DEF CallReturns, Becomes, Keeps, FieldsOf

\* sys_sleep blocks its caller and touches nobody else.
LEMMA SleepEffect ==
    ASSUME IInv, sys_sleep
    PROVE  /\ Becomes(curenv, "NOT_RUNNABLE", 1, 0, "SYS_sleep")
           /\ \A d \in Env \ {curenv} : Keeps(d)
<1> DEFINE es == [Entered EXCEPT ![curenv].env_status = "NOT_RUNNABLE", ![curenv].env_a0 = "OK"]
<1>1. Running /\ schedule(TRUE, curenv, es, TAILQ_REMOVE(env_sched_list, curenv), "SYS_sleep")
  BY DEF sys_sleep
<1>2. /\ es \in [Env -> EnvRecord] /\ \A d \in Env \ {curenv} : es[d] = envs[d]
      /\ es[curenv].env_status = "NOT_RUNNABLE" /\ es[curenv].env_id = envs[curenv].env_id
      /\ es[curenv].env_in_syscall = 1 /\ es[curenv].env_ipc_recving = 0
  BY <1>1, Caller DEF EnvRecord, Status, Word
<1> HIDE DEF es
<1>3. /\ FieldsOf(es)
      /\ halted' = "no" => \A d \in Env :
            regs'[d] = IF d = curenv THEN "SYS_sleep" ELSE es[d].env_a0
  BY <1>1, <1>2, Caller, ScheduleEffect DEF Word
<1> QED BY <1>1, <1>2, <1>3, Caller DEF Becomes, Keeps, FieldsOf

\* sys_ipc_recv returns an error or blocks its caller, and touches nobody else.
LEMMA RecvEffect ==
    ASSUME IInv, NEW from \in Senders, sys_ipc_recv(from)
    PROVE  \/ CallReturns
           \/ /\ Becomes(curenv, "NOT_RUNNABLE", 1, 1, "OK")
              /\ \A d \in Env \ {curenv} : Keeps(d)
<1> DEFINE es == [Entered EXCEPT ![curenv].env_ipc_recving = 1,
                                 ![curenv].env_ipc_recv_from = from,
                                 ![curenv].env_status = "NOT_RUNNABLE"]
<1>1. Running /\ (Return(Entered)
                  \/ schedule(TRUE, curenv, es, TAILQ_REMOVE(env_sched_list, curenv), "OK"))
  BY DEF sys_ipc_recv
<1>2. CASE Return(Entered)
  BY <1>1, <1>2, RefusedEffect
<1>3. CASE schedule(TRUE, curenv, es, TAILQ_REMOVE(env_sched_list, curenv), "OK")
  <2>0. from \in EnvId
    BY SendersAreIds
  <2>1. /\ es \in [Env -> EnvRecord] /\ \A d \in Env \ {curenv} : es[d] = envs[d]
        /\ es[curenv].env_status = "NOT_RUNNABLE" /\ es[curenv].env_id = envs[curenv].env_id
        /\ es[curenv].env_in_syscall = 1 /\ es[curenv].env_ipc_recving = 1
    BY <1>1, <2>0, Caller DEF EnvRecord, Status, Word
  <2> HIDE DEF es
  <2>2. /\ FieldsOf(es)
        /\ halted' = "no" => \A d \in Env : regs'[d] = IF d = curenv THEN "OK" ELSE es[d].env_a0
    BY <1>1, <1>3, <2>1, Caller, ScheduleEffect DEF Word
  <2> QED BY <1>1, <2>1, <2>2, Caller DEF Becomes, Keeps, FieldsOf
<1> QED BY <1>1, <1>2, <1>3

\* env_alloc drew an id for the slot and then failed: the slot is still free.
Stillborn(e) ==
    /\ envs[e].env_status = "FREE" /\ envs'[e].env_status = "FREE"
    /\ envs'[e].env_ipc_recving = envs[e].env_ipc_recving

\* sys_exofork returns, and fills or spoils at most one other block.
LEMMA ForkEffect ==
    ASSUME IInv, sys_exofork
    PROVE  /\ Becomes(curenv, "RUNNABLE", 0, 0, "USER")
           /\ \/ \A d \in Env \ {curenv} : Keeps(d)
              \/ \E e \in Env \ {curenv} : /\ Fresh(e) \/ Stillborn(e)
                                           /\ \A d \in Env \ {curenv, e} : Keeps(d)
<1>1. Running
  BY DEF sys_exofork
<1>2. CASE Return(Entered)
  BY <1>1, <1>2, RefusedEffect DEF CallReturns
<1>3. CASE /\ NoAsidLeft
           /\ Return([Entered EXCEPT ![Head(env_free_list)].env_id = mkenvid(Head(env_free_list))])
  <2>1. PICK e : e = Head(env_free_list)
    OBVIOUS
  <2> DEFINE fs == [Entered EXCEPT ![e].env_id = mkenvid(e)]
  <2>2. /\ env_free_list # <<>> /\ gen < MaxGen /\ Return(fs)
    BY <1>3, <2>1 DEF NoAsidLeft
  <2>3. e \in Env /\ envs[e].env_status = "FREE" /\ e # curenv
    BY <1>1, <2>1, <2>2, HeadIsFree, Caller
  <2>4. mkenvid(e) \in EnvId
    BY <1>1, <2>2, <2>3, EnteredGood, EnvAssumption DEF mkenvid, EnvId
  <2>5. /\ fs \in [Env -> EnvRecord] /\ \A d \in Env \ {e} : fs[d] = Entered[d]
        /\ fs[e].env_status = Entered[e].env_status
        /\ fs[e].env_ipc_recving = Entered[e].env_ipc_recving
    BY <1>1, <2>3, <2>4, Caller DEF EnvRecord
  <2> HIDE DEF fs
  <2>6. Becomes(curenv, "RUNNABLE", 0, 0, "USER") /\ Stillborn(e)
    BY <1>1, <2>2, <2>3, <2>5, Caller, ReturnEffect DEF Becomes, Stillborn
  <2>7. \A d \in Env \ {curenv, e} : Keeps(d)
    BY <1>1, <2>2, <2>3, <2>5, Caller, ReturnEffect DEF Keeps
  <2> QED BY <2>3, <2>6, <2>7
<1>4. CASE \E e \in Env, asid \in Asid :
             /\ Allocates(e, asid)
             /\ Return([Entered EXCEPT ![e] =
                          [env_alloc(e, asid, envs[curenv].env_id) EXCEPT
                              !.env_a0 = "OK", !.env_status = "RUNNABLE",
                              !.env_pri = envs[curenv].env_pri]])
  <2>1. PICK e \in Env, asid \in Asid :
             /\ Allocates(e, asid)
             /\ Return([Entered EXCEPT ![e] =
                          [env_alloc(e, asid, envs[curenv].env_id) EXCEPT
                              !.env_a0 = "OK", !.env_status = "RUNNABLE",
                              !.env_pri = envs[curenv].env_pri]])
    BY <1>4
  <2> DEFINE new == env_alloc(e, asid, envs[curenv].env_id)
             pri == envs[curenv].env_pri
             r == [new EXCEPT !.env_a0 = "OK", !.env_status = "RUNNABLE", !.env_pri = pri]
             fs == [Entered EXCEPT ![e] = r]
  <2>2. envs[curenv].env_id \in EnvId /\ pri \in Nat
    BY <1>1, Caller DEF EnvRecord
  <2>3. new \in EnvRecord /\ envs[e].env_status = "FREE" /\ gen' = gen + 1
    BY <2>1, <2>2, AllocatedRecord DEF Allocates
  <2>4. /\ new.env_id = <<gen + 1, e>> /\ new.env_in_syscall = 0
        /\ new.env_ipc_recving = envs[e].env_ipc_recving
    BY <1>1, Caller DEF env_alloc, mkenvid, EnvRecord
  <2> HIDE DEF new, pri
  <2>5. /\ r \in EnvRecord /\ r.env_status = "RUNNABLE" /\ r.env_id = <<gen + 1, e>>
        /\ r.env_in_syscall = 0 /\ r.env_ipc_recving = envs[e].env_ipc_recving
    BY <2>2, <2>3, <2>4 DEF EnvRecord, Status, Word
  <2>6. Return(fs)
    BY <2>1 DEF new, pri
  <2> HIDE DEF r
  <2>7. fs \in [Env -> EnvRecord] /\ fs[e] = r /\ \A d \in Env \ {e} : fs[d] = Entered[d]
    BY <1>1, <2>5, Caller
  <2> HIDE DEF fs
  <2>8. e # curenv
    BY <1>1, <2>3, Caller
  <2>9. Becomes(curenv, "RUNNABLE", 0, 0, "USER") /\ Fresh(e)
    BY <1>1, <2>3, <2>5, <2>6, <2>7, <2>8, Caller, ReturnEffect DEF Becomes, Fresh
  <2>10. \A d \in Env \ {curenv, e} : Keeps(d)
    BY <1>1, <2>6, <2>7, <2>8, Caller, ReturnEffect DEF Keeps
  <2> QED BY <2>8, <2>9, <2>10
<1> QED BY <1>2, <1>3, <1>4 DEF sys_exofork

\* Environment e is gone.
Gone(e) == /\ envs[e].env_status = "RUNNABLE" /\ envs'[e].env_status = "FREE"
           /\ envs'[e].env_ipc_recving = 0

\* sys_env_destroy returns an error or frees one block.
LEMMA DestroyEffect ==
    ASSUME WellBehaved, IInv, NEW id \in EnvId, sys_env_destroy(id)
    PROVE  \/ CallReturns
           \/ \E e \in Env : /\ Gone(e)
                             /\ e # curenv => Becomes(curenv, "RUNNABLE", 0, 0, "USER")
                             /\ \A d \in Env \ {curenv, e} : Keeps(d)
<1>1. Running
  BY DEF sys_env_destroy
<1>2. CASE Return(Entered)
  BY <1>1, <1>2, RefusedEffect
<1>3. CASE Permitted(id) /\ ~Return(Entered)
  <2>1. PICK e : e = SlotOf(id)
    OBVIOUS
  <2> DEFINE fs == [Entered EXCEPT ![e].env_status = "FREE"]
             q == TAILQ_REMOVE(env_sched_list, e)
  <2>2. /\ envs[e].env_status = "RUNNABLE"
        /\ \/ e = curenv /\ schedule(TRUE, NULL, fs, q, "USER")
           \/ e # curenv /\ Return(fs)
    BY <1>3, <2>1 DEF sys_env_destroy, WellBehaved
  <2>3. e \in Env
    BY <1>1, <2>1, SlotFound
  <2>4. envs[e].env_ipc_recving = 0
    <3>1. RecvOK(envs) /\ envs \in [Env -> EnvRecord]
      BY DEF IInv, Good
    <3> QED BY <2>2, <2>3, <3>1 DEF RecvOK, EnvRecord
  <2>5. /\ fs \in [Env -> EnvRecord] /\ \A d \in Env \ {e} : fs[d] = Entered[d]
        /\ fs[e].env_status = "FREE" /\ fs[e].env_ipc_recving = 0
    BY <1>1, <2>3, <2>4, Caller DEF EnvRecord, Status
  <2> HIDE DEF fs, q
  <2>6. CASE e = curenv /\ schedule(TRUE, NULL, fs, q, "USER")
    <3>1. /\ FieldsOf(fs)
          /\ halted' = "no" => \A d \in Env : regs'[d] = fs[d].env_a0
      BY <2>5, <2>6, LeaveEffect
    <3>2. Gone(e)
      BY <2>2, <2>3, <2>5, <3>1 DEF Gone, FieldsOf
    <3>3. \A d \in Env \ {curenv, e} : Keeps(d)
      BY <1>1, <2>5, <2>6, <3>1, Caller DEF Keeps, FieldsOf
    <3> QED BY <2>3, <2>6, <3>2, <3>3
  <2>7. CASE e # curenv /\ Return(fs)
    <3>1. Gone(e) /\ Becomes(curenv, "RUNNABLE", 0, 0, "USER")
      BY <1>1, <2>2, <2>3, <2>5, <2>7, Caller, ReturnEffect DEF Becomes, Gone
    <3>2. \A d \in Env \ {curenv, e} : Keeps(d)
      BY <1>1, <2>5, <2>7, Caller, ReturnEffect DEF Keeps
    <3> QED BY <2>3, <3>1, <3>2
  <2> QED BY <2>2, <2>6, <2>7
<1> QED BY <1>2, <1>3 DEF sys_env_destroy

\* sys_set_env_status returns, or leaves its caller with the status it chose.
LEMMA SetStatusEffect ==
    ASSUME WellBehaved, IInv, NEW id \in EnvId, NEW status \in Status,
           sys_set_env_status(id, status)
    PROVE  \/ CallReturns
           \/ /\ "status_self" \in Usage /\ status # "FREE"
              /\ Becomes(curenv, status, 1, 0, "SYS_set_env_status")
              /\ \A d \in Env \ {curenv} : Keeps(d)
           \/ \E e \in Env \ {curenv} :
                 /\ envs[e].env_status # "FREE" /\ status # "FREE"
                 /\ Becomes(e, status, envs[e].env_in_syscall, envs[e].env_ipc_recving, regs[e])
                 /\ status = "RUNNABLE" /\ BlockedInCall(e) =>
                       "wake_caller" \in Usage /\ envs[e].env_ipc_recving = 0
                 /\ Becomes(curenv, "RUNNABLE", 0, 0, "USER")
                 /\ \A d \in Env \ {curenv, e} : Keeps(d)
<1>1. Running
  BY DEF sys_set_env_status
<1>2. CASE Return(Entered)
  BY <1>1, <1>2, RefusedEffect
<1>3. CASE status # "FREE" /\ Permitted(id) /\ ~Return(Entered)
  <2>1. PICK e : e = SlotOf(id)
    OBVIOUS
  <2> DEFINE fs == [Entered EXCEPT ![e].env_status = status]
  <2>2. /\ e = curenv => "status_self" \in Usage
        /\ status = "RUNNABLE" /\ BlockedInCall(e) => WakePattern(e) \in Usage
        /\ \/ e = curenv /\ \E q : schedule(TRUE, curenv, fs, q, "SYS_set_env_status")
           \/ e # curenv /\ Return(fs)
    BY <1>3, <2>1 DEF sys_set_env_status
  <2>3. e \in Env /\ envs[e].env_status # "FREE"
    BY <1>1, <1>3, <2>1, SlotFound DEF Permitted
  <2>4. /\ fs \in [Env -> EnvRecord] /\ \A d \in Env \ {e} : fs[d] = Entered[d]
        /\ fs[e].env_status = status /\ fs[e].env_id = Entered[e].env_id
        /\ fs[e].env_ipc_recving = Entered[e].env_ipc_recving
        /\ fs[e].env_in_syscall = Entered[e].env_in_syscall
        /\ fs[e].env_a0 = Entered[e].env_a0
    BY <1>1, <2>3, Caller DEF EnvRecord, Status
  <2>5. status = "RUNNABLE" /\ BlockedInCall(e) =>
            "wake_caller" \in Usage /\ envs[e].env_ipc_recving = 0
    <3>1. envs[e].env_ipc_recving \in {0, 1}
      BY <1>1, <2>3, Caller DEF EnvRecord
    <3> QED BY <2>2, <3>1 DEF WakePattern, WellBehaved
  <2> HIDE DEF fs
  <2>6. CASE e = curenv /\ \E q : schedule(TRUE, curenv, fs, q, "SYS_set_env_status")
    <3>1. PICK n : env_run(n, curenv, fs, "SYS_set_env_status")
      BY <2>6 DEF schedule
    <3>2. /\ FieldsOf(fs)
          /\ halted' = "no" => \A d \in Env :
                regs'[d] = IF d = curenv THEN "SYS_set_env_status" ELSE fs[d].env_a0
      BY <1>1, <2>4, <3>1, Caller, EnvRunEffect DEF Word
    <3>3. /\ Becomes(curenv, status, 1, 0, "SYS_set_env_status")
          /\ \A d \in Env \ {curenv} : Keeps(d)
      BY <1>1, <2>4, <2>6, <3>2, Caller DEF Becomes, Keeps, FieldsOf
    <3> QED BY <1>3, <2>2, <2>6, <3>3
  <2>7. CASE e # curenv /\ Return(fs)
    <3>1. /\ Becomes(curenv, "RUNNABLE", 0, 0, "USER")
          /\ Becomes(e, status, envs[e].env_in_syscall, envs[e].env_ipc_recving, regs[e])
      BY <1>1, <2>3, <2>4, <2>7, Caller, ReturnEffect DEF Becomes
    <3>2. \A d \in Env \ {curenv, e} : Keeps(d)
      BY <1>1, <2>4, <2>7, Caller, ReturnEffect DEF Keeps
    <3> QED BY <1>3, <2>3, <2>5, <2>7, <3>1, <3>2
  <2> QED BY <2>2, <2>6, <2>7
<1> QED BY <1>2, <1>3 DEF sys_set_env_status

\* A message is given to a receiver that waits for it, or to nobody.
LEMMA SendEffect ==
    ASSUME IInv, NEW id \in EnvId, sys_ipc_try_send(id)
    PROVE  \/ CallReturns /\ ~(Valid(id) /\ CanReceive(SlotOf(id)))
           \/ \E e \in Env \ {curenv} :
                 /\ Valid(id) /\ CanReceive(SlotOf(id)) /\ e = SlotOf(id)
                 /\ envs[e].env_ipc_recving = 1 /\ BlockedInCall(e)
                 /\ Becomes(e, "RUNNABLE", 0, 0, regs[e])
                 /\ Becomes(curenv, "RUNNABLE", 0, 0, "USER")
                 /\ \A d \in Env \ {curenv, e} : Keeps(d)
<1>1. Running
  BY DEF sys_ipc_try_send
<1>2. CASE ~(Valid(id) /\ CanReceive(SlotOf(id)))
  <2>1. Return(Entered)
    BY <1>2 DEF sys_ipc_try_send
  <2> QED BY <1>1, <1>2, <2>1, RefusedEffect
<1>3. CASE Valid(id) /\ CanReceive(SlotOf(id))
  <2>1. PICK e : e = SlotOf(id)
    OBVIOUS
  <2> DEFINE fs == [Entered EXCEPT ![e].env_ipc_recving = 0,
                                   ![e].env_status = "RUNNABLE",
                                   ![e].env_in_syscall = 0]
  <2>2. Return(fs)
    BY <1>3, <2>1 DEF sys_ipc_try_send
  <2>3. e \in Env /\ envs[e].env_ipc_recving = 1 /\ RecvOK(envs)
    BY <1>1, <1>3, <2>1, SlotFound DEF CanReceive, IInv, Good
  <2>4. e # curenv /\ BlockedInCall(e)
    BY <1>1, <2>3, Caller DEF RecvOK, BlockedInCall
  <2>5. /\ fs \in [Env -> EnvRecord] /\ \A d \in Env \ {e} : fs[d] = Entered[d]
        /\ fs[e].env_status = "RUNNABLE" /\ fs[e].env_id = Entered[e].env_id
        /\ fs[e].env_ipc_recving = 0 /\ fs[e].env_in_syscall = 0
        /\ fs[e].env_a0 = Entered[e].env_a0
    <3> DEFINE r == [Entered[e] EXCEPT !.env_ipc_recving = 0, !.env_status = "RUNNABLE",
                                       !.env_in_syscall = 0]
    <3>1. fs = [Entered EXCEPT ![e] = r]
      BY <1>1, <2>3, Caller
    <3>2. Entered[e] \in EnvRecord
      BY <1>1, <2>3, Caller
    <3>3. /\ r \in EnvRecord /\ r.env_status = "RUNNABLE" /\ r.env_id = Entered[e].env_id
          /\ r.env_ipc_recving = 0 /\ r.env_in_syscall = 0 /\ r.env_a0 = Entered[e].env_a0
      BY <3>2 DEF EnvRecord, Status
    <3> HIDE DEF fs, r
    <3> QED BY <1>1, <2>3, <3>1, <3>3, Caller
  <2> HIDE DEF fs
  <2>6. /\ Becomes(curenv, "RUNNABLE", 0, 0, "USER")
        /\ Becomes(e, "RUNNABLE", 0, 0, regs[e])
    BY <1>1, <2>2, <2>3, <2>4, <2>5, Caller, ReturnEffect DEF Becomes
  <2>7. \A d \in Env \ {curenv, e} : Keeps(d)
    BY <1>1, <2>2, <2>4, <2>5, Caller, ReturnEffect DEF Keeps
  <2> QED BY <1>3, <2>1, <2>3, <2>4, <2>6, <2>7
<1> QED BY <1>2, <1>3

\* sys_set_interrupt_handler returns to its caller.
LEMMA HandlerSetEffect ==
    ASSUME IInv, NEW c \in Irq, sys_set_interrupt_handler(c)
    PROVE  CallReturns
BY RefusedEffect DEF sys_set_interrupt_handler

\* The handler's end: the program finds the frame that was pushed for it.
LEMMA HandlerEndEffect ==
    ASSUME IInv, IrqOK, sys_interrupt_return
    PROVE  \/ /\ xstack[curenv] = <<>> /\ UNCHANGED irqVars
              /\ CallReturns
           \/ /\ xstack[curenv] # <<>>
              /\ Becomes(curenv, "RUNNABLE", 0, 0, xstack[curenv][Len(xstack[curenv])].a0)
              /\ \A d \in Env \ {curenv} : Keeps(d)
              /\ xstack' = [xstack EXCEPT ![curenv] = SubSeq(@, 1, Len(@) - 1)]
              /\ prority' = Unmask(envs[curenv].env_id)
              /\ UNCHANGED interrupt_code_to_envid
<1> DEFINE stack == xstack[curenv]
<1>1. Running
  BY DEF sys_interrupt_return
<1>2. curenv \in Env /\ envs \in [Env -> EnvRecord]
  BY <1>1, Caller
<1>3. CASE stack = <<>>
  <2>1. Return(Entered) /\ UNCHANGED irqVars
    BY <1>3 DEF sys_interrupt_return
  <2> QED BY <1>1, <1>3, <2>1, RefusedEffect
<1>4. CASE stack # <<>>
  <2>1. /\ envs' = [envs EXCEPT ![curenv].env_in_syscall = 0]
        /\ a0' = stack[Len(stack)].a0 /\ curenv' = curenv
        /\ xstack' = [xstack EXCEPT ![curenv] = SubSeq(stack, 1, Len(stack) - 1)]
        /\ prority' = Unmask(envs[curenv].env_id) /\ UNCHANGED interrupt_code_to_envid
    BY <1>4 DEF sys_interrupt_return
  <2>2. Becomes(curenv, "RUNNABLE", 0, 0, stack[Len(stack)].a0)
    BY <1>1, <1>2, <2>1, Caller DEF Becomes, regs, EnvRecord
  <2>3. \A d \in Env \ {curenv} : Keeps(d)
    BY <1>1, <1>2, <2>1, Caller DEF Keeps, regs
  <2> QED BY <1>4, <2>1, <2>2, <2>3
<1> QED BY <1>3, <1>4

\* A delivery to the running environment ends no receive of another.
LEMMA DivertCurrentEffect ==
    ASSUME IInv, NEW c \in Irq, interrupt_current(c)
    PROVE  /\ Becomes(curenv, "RUNNABLE", envs[curenv].env_in_syscall, 0, "USER")
           /\ \A d \in Env \ {curenv} : Keeps(d)
<1>1. Running /\ UNCHANGED <<envs, curenv>> /\ a0' = "USER"
  BY DEF interrupt_current, Delivered
<1> QED BY <1>1, Caller DEF Becomes, Keeps, regs

\* The owner e of the code is woken and diverted; the running environment is stopped.
Diverted(e, c, word) ==
    LET incall == BlockedInCall(e)
    IN  /\ interrupt_code_to_envid[c] # NoId
        /\ e = interrupt_code_to_envid[c][2]
        /\ envs[e].env_status # "FREE" /\ envs[e].env_id = interrupt_code_to_envid[c]
        /\ Becomes(e, "RUNNABLE", IF incall THEN 0 ELSE envs[e].env_in_syscall, 0, "USER")
        /\ Becomes(curenv, "RUNNABLE", envs[curenv].env_in_syscall, 0, word)
        /\ \A d \in Env \ {curenv, e} : Keeps(d)
        /\ xstack' = Push(e, IF incall THEN "E_INTR" ELSE regs[e], c)
        /\ outcome' = IF incall /\ outcome[e].end = "waiting"
                      THEN [ForgetIf(word) EXCEPT ![e].end = "interrupt"]
                      ELSE ForgetIf(word)
        /\ prority' = [prority EXCEPT ![c] = 0]
        /\ UNCHANGED interrupt_code_to_envid

\* A delivery to an environment that is not running diverts only that one.
LEMMA DivertOtherEffect ==
    ASSUME IInv, IrqOK, NEW c \in Irq, interrupt_other(c)
    PROVE  \E e \in Env \ {curenv}, word \in {a0, "USER"} : Diverted(e, c, word)
<1> DEFINE id == interrupt_code_to_envid[c]
<1>1. /\ Running /\ Valid(id) /\ id # NoId /\ id \in EnvId
      /\ prority' = [prority EXCEPT ![c] = 0] /\ UNCHANGED interrupt_code_to_envid
  BY DEF interrupt_other, Delivered, IrqOK
<1>2. PICK e : e = SlotOf(id)
  OBVIOUS
<1>3. /\ e \in Env /\ e = id[2] /\ envs[e].env_id = id /\ envs[e] \in EnvRecord
      /\ envs[e].env_status # "FREE"
  BY <1>1, <1>2, SlotFound, Caller DEF SlotOf, Valid
<1> DEFINE incall == BlockedInCall(e)
           woken == [envs EXCEPT
                       ![e].env_status = "RUNNABLE",
                       ![e].env_in_syscall = IF incall THEN 0 ELSE @,
                       ![e].env_ipc_recving = IF incall THEN 0 ELSE @,
                       ![e].env_a0 = IF incall THEN "E_INTR" ELSE @]
           fs == [woken EXCEPT ![e].env_a0 = "USER"]
<1>4. /\ e # curenv
      /\ xstack' = Push(e, woken[e].env_a0, c)
      /\ \E word \in {a0, "USER"} :
            /\ env_run(e, curenv, fs, word)
            /\ outcome' = IF incall /\ outcome[e].end = "waiting"
                          THEN [ForgetIf(word) EXCEPT ![e].end = "interrupt"]
                          ELSE ForgetIf(word)
  BY <1>2 DEF interrupt_other
<1>5. PICK word \in {a0, "USER"} :
            /\ env_run(e, curenv, fs, word)
            /\ outcome' = IF incall /\ outcome[e].end = "waiting"
                          THEN [ForgetIf(word) EXCEPT ![e].end = "interrupt"]
                          ELSE ForgetIf(word)
  BY <1>4
<1> DEFINE sys == IF incall THEN 0 ELSE envs[e].env_in_syscall
           old == IF incall THEN "E_INTR" ELSE envs[e].env_a0
           r == [envs[e] EXCEPT !.env_status = "RUNNABLE", !.env_in_syscall = sys,
                                !.env_ipc_recving = 0, !.env_a0 = "USER"]
<1>6. (IF incall THEN 0 ELSE envs[e].env_ipc_recving) = 0
  <2>1. RecvOK(envs)
    BY DEF IInv, Good
  <2> QED BY <1>3, <2>1 DEF RecvOK, EnvRecord, BlockedInCall
<1>7. woken[e].env_a0 = old /\ fs = [envs EXCEPT ![e] = r]
  <2>1. woken = [envs EXCEPT ![e] = [envs[e] EXCEPT
                    !.env_status = "RUNNABLE", !.env_in_syscall = sys, !.env_ipc_recving = 0,
                    !.env_a0 = old]]
    BY <1>1, <1>3, <1>6, Caller DEF EnvRecord
  <2> HIDE DEF woken, sys, old, incall
  <2> QED BY <1>1, <1>3, <2>1, Caller DEF EnvRecord
<1>8. /\ r \in EnvRecord /\ r.env_status = "RUNNABLE" /\ r.env_in_syscall = sys
      /\ r.env_ipc_recving = 0 /\ r.env_a0 = "USER" /\ r.env_id = envs[e].env_id
  BY <1>3 DEF EnvRecord, Status, Word
<1> HIDE DEF r, fs, woken, sys, old
<1>9. fs \in [Env -> EnvRecord] /\ fs[e] = r /\ \A d \in Env \ {e} : fs[d] = envs[d]
  BY <1>1, <1>3, <1>7, <1>8, Caller
<1>10. /\ FieldsOf(fs)
       /\ halted' = "no" => \A d \in Env : regs'[d] = IF d = curenv THEN word ELSE fs[d].env_a0
  BY <1>1, <1>5, <1>9, Caller, EnvRunEffect DEF Word
<1>11. Becomes(e, "RUNNABLE", sys, 0, "USER")
  BY <1>3, <1>4, <1>8, <1>9, <1>10 DEF Becomes, FieldsOf
<1>12. Becomes(curenv, "RUNNABLE", envs[curenv].env_in_syscall, 0, word)
  BY <1>1, <1>4, <1>9, <1>10, Caller DEF Becomes, FieldsOf
<1>13. \A d \in Env \ {curenv, e} : Keeps(d)
  BY <1>1, <1>9, <1>10, Caller DEF Keeps, FieldsOf
<1>14. xstack' = Push(e, IF incall THEN "E_INTR" ELSE regs[e], c)
  BY <1>1, <1>3, <1>4, <1>7, Caller DEF old
<1>15. Diverted(e, c, word)
  BY <1>1, <1>3, <1>5, <1>11, <1>12, <1>13, <1>14 DEF Diverted, sys
<1> QED BY <1>3, <1>4, <1>15

-----------------------------------------------------------------------------
(* What a receiver is told.                                                 *)

\* regs[10] of the program that made the call with outcome o: in the frame that
\* was pushed above its level, or in w, the environment's own.
Told(o, s, w) == IF o.level < Len(s) THEN s[o.level + 1].a0 ELSE w

\* One environment's status, marks, outcome o, exception stack s and regs[10] w
\* agree.  Beyond RecvOutcomeTruthful: a call runs at or below the top of the stack,
\* a waiting program has its 0 already, and a program that entered another call
\* on the level of the receive has seen the outcome.
Truth(status, sys, recving, o, s, w) ==
    /\ o.end # "none" => o.level <= Len(s)
    /\ o.end \in {"message", "interrupt"} /\ sys = 1 => o.level < Len(s)
    /\ o.end = "waiting" <=> recving = 1
    /\ o.end = "waiting" => o.level = Len(s) /\ w = "OK"
    /\ status = "FREE" => o.end = "none"
    /\ o.end = "message" => Told(o, s, w) = "OK"
    /\ o.end = "interrupt" => Told(o, s, w) = "E_INTR"

TruthAt(e) == Truth(envs[e].env_status, envs[e].env_in_syscall, envs[e].env_ipc_recving,
                    outcome[e], xstack[e], regs[e])

TruthAfter(e) == Truth(envs'[e].env_status, envs'[e].env_in_syscall, envs'[e].env_ipc_recving,
                       outcome'[e], xstack'[e], regs'[e])

RecvInv == /\ outcome \in [Env -> Outcome]
           /\ halted = "no" => \A e \in Env : TruthAt(e)

\* An environment that a step does not touch.
LEMMA KeptTruth ==
    ASSUME NEW d \in Env, TruthAt(d), Keeps(d), halted' = "no",
           outcome'[d] = outcome[d], xstack'[d] = xstack[d]
    PROVE  TruthAfter(d)
BY DEF TruthAt, TruthAfter, Keeps

\* What Forget does to the caller's outcome, and that it does nothing else.
LEMMA ForgetCaller ==
    ASSUME outcome \in [Env -> Outcome], curenv \in Env
    PROVE  /\ Forget \in [Env -> Outcome]
           /\ \A d \in Env \ {curenv} : Forget[d] = outcome[d]
           /\ Forget[curenv] = IF outcome[curenv].level = Len(xstack[curenv]) THEN NoCall
                                                                             ELSE outcome[curenv]
           /\ \A word : ForgetIf(word) \in [Env -> Outcome]
BY DEF Forget, ForgetIf, NoCall, Outcome

\* The caller made another call, or computed something else: the outcome is either
\* forgotten or that of a program further down the stack.
LEMMA ForgottenTruth ==
    ASSUME NEW s \in Seq(Frame), NEW o \in Outcome, NEW sys, NEW w,
           Truth("RUNNABLE", sys, 0, o, s, w),
           NEW o1, o1 = IF o.level = Len(s) THEN NoCall ELSE o,
           NEW status, status # "FREE", NEW sys1, NEW w1
    PROVE  Truth(status, sys1, 0, o1, s, w1)
<1>1. CASE o.level = Len(s)
  BY <1>1 DEF Truth, NoCall
<1>2. CASE o.level # Len(s)
  <2>1. o.end # "none" => o.level < Len(s)
    BY <1>2 DEF Truth, Outcome
  <2>2. o.end # "waiting"
    BY DEF Truth
  <2> QED BY <1>2, <2>1, <2>2 DEF Truth, Told, Outcome
<1> QED BY <1>1, <1>2

\* An environment whose own call returns has no receive to tell the truth about.
LEMMA CallerTruth ==
    ASSUME IInv, IrqOK, Running, outcome \in [Env -> Outcome], TruthAt(curenv),
           NEW status, status # "FREE", NEW sys, NEW word,
           Becomes(curenv, status, sys, 0, word), halted' = "no",
           outcome'[curenv] = Forget[curenv], xstack'[curenv] = xstack[curenv]
    PROVE  TruthAfter(curenv)
<1>1. /\ curenv \in Env /\ envs[curenv].env_status = "RUNNABLE"
      /\ envs[curenv].env_ipc_recving = 0
  BY Caller
<1>2. xstack[curenv] \in Seq(Frame) /\ outcome[curenv] \in Outcome
  BY <1>1 DEF IrqOK
<1>3. /\ Forget[curenv] = IF outcome[curenv].level = Len(xstack[curenv]) THEN NoCall
                                                                             ELSE outcome[curenv]
  BY <1>1, ForgetCaller
<1>4. Truth("RUNNABLE", envs[curenv].env_in_syscall, 0, outcome[curenv], xstack[curenv],
            regs[curenv])
  BY <1>1 DEF TruthAt
<1>5. Truth(status, sys, 0, Forget[curenv], xstack[curenv], word)
  BY <1>2, <1>3, <1>4, ForgottenTruth
<1> QED BY <1>5 DEF TruthAfter, Becomes

\* A slot that was free has no outcome, whoever gets it.
LEMMA FreshTruth ==
    ASSUME NEW e \in Env, TruthAt(e), Fresh(e) \/ Stillborn(e), outcome'[e] = outcome[e]
    PROVE  TruthAfter(e)
BY DEF TruthAt, TruthAfter, Truth, Fresh, Stillborn

\* The environments that a call of another one does not touch.
LEMMA OthersTruth ==
    ASSUME IInv, RecvInv, Running, halted' = "no", NEW d \in Env \ {curenv},
           Keeps(d), outcome'[d] = Forget[d], xstack'[d] = xstack[d]
    PROVE  TruthAfter(d)
<1>1. curenv \in Env /\ outcome \in [Env -> Outcome] /\ TruthAt(d)
  BY Caller DEF RecvInv, Running
<1>2. outcome'[d] = outcome[d]
  BY <1>1, ForgetCaller
<1> QED BY <1>1, <1>2, KeptTruth

\* A call that returns, or that blocks without being a receive.
LEMMA CallTruth ==
    ASSUME IInv, IrqOK, RecvInv, Running, halted' = "no",
           NEW status, status # "FREE", NEW sys, NEW word,
           Becomes(curenv, status, sys, 0, word),
           \A d \in Env \ {curenv} : Keeps(d),
           outcome' = Forget, UNCHANGED xstack
    PROVE  \A d \in Env : TruthAfter(d)
<1>1. curenv \in Env /\ outcome \in [Env -> Outcome] /\ TruthAt(curenv)
  BY Caller DEF RecvInv, Running
<1>2. TruthAfter(curenv)
  BY <1>1, CallerTruth
<1> QED BY <1>2, OthersTruth

\* A call that returns leaves the other receives as they were.
LEMMA ReturnsTruth ==
    ASSUME IInv, IrqOK, RecvInv, Running, halted' = "no", CallReturns,
           outcome' = Forget, UNCHANGED xstack
    PROVE  \A d \in Env : TruthAfter(d)
BY CallTruth DEF CallReturns

\* After sys_exofork every receive still tells the truth.
LEMMA ForkTruth ==
    ASSUME IInv, IrqOK, RecvInv, sys_exofork, halted' = "no", outcome' = Forget, UNCHANGED xstack
    PROVE  \A d \in Env : TruthAfter(d)
<1>1. Running
  BY DEF sys_exofork
<1>2. curenv \in Env /\ outcome \in [Env -> Outcome] /\ \A d \in Env : TruthAt(d)
  BY <1>1, Caller DEF RecvInv, Running
<1>3. TruthAfter(curenv)
  BY <1>1, <1>2, CallerTruth, ForkEffect
<1>4. CASE \A d \in Env \ {curenv} : Keeps(d)
  BY <1>1, <1>3, <1>4, OthersTruth
<1>5. ASSUME NEW e \in Env \ {curenv}, Fresh(e) \/ Stillborn(e),
             \A d \in Env \ {curenv, e} : Keeps(d)
      PROVE  \A d \in Env : TruthAfter(d)
  <2>1. TruthAfter(e)
    BY <1>2, <1>5, ForgetCaller, FreshTruth
  <2> QED BY <1>1, <1>3, <1>5, <2>1, OthersTruth
<1> QED BY <1>4, <1>5, ForkEffect

\* After sys_set_env_status every receive still tells the truth.
LEMMA SetStatusTruth ==
    ASSUME WellBehaved, IInv, IrqOK, RecvInv, NEW id \in EnvId, NEW status \in Status,
           sys_set_env_status(id, status), halted' = "no", outcome' = Forget, UNCHANGED xstack
    PROVE  \A d \in Env : TruthAfter(d)
<1>1. Running
  BY DEF sys_set_env_status
<1>2. curenv \in Env /\ outcome \in [Env -> Outcome] /\ \A d \in Env : TruthAt(d)
  BY <1>1, Caller DEF RecvInv, Running
<1>3. CASE CallReturns
  BY <1>1, <1>3, ReturnsTruth
<1>4. CASE /\ status # "FREE" /\ Becomes(curenv, status, 1, 0, "SYS_set_env_status")
           /\ \A d \in Env \ {curenv} : Keeps(d)
  BY <1>1, <1>4, CallTruth
<1>5. ASSUME NEW e \in Env \ {curenv}, status # "FREE",
             Becomes(e, status, envs[e].env_in_syscall, envs[e].env_ipc_recving, regs[e]),
             Becomes(curenv, "RUNNABLE", 0, 0, "USER"),
             \A d \in Env \ {curenv, e} : Keeps(d)
      PROVE  \A d \in Env : TruthAfter(d)
  <2>1. outcome'[e] = outcome[e]
    BY <1>2, <1>5, ForgetCaller
  <2>2. TruthAfter(e)
    BY <1>2, <1>5, <2>1 DEF TruthAt, TruthAfter, Truth, Becomes
  <2>3. TruthAfter(curenv)
    BY <1>1, <1>2, <1>5, CallerTruth
  <2> QED BY <1>1, <1>5, <2>2, <2>3, OthersTruth
<1> QED BY <1>3, <1>4, <1>5, SetStatusEffect

\* After a preemption every receive still tells the truth.
LEMMA ClockTruth ==
    ASSUME IInv, IrqOK, RecvInv, do_clock, halted' = "no",
           outcome' = ForgetIf(envs'[curenv].env_a0), UNCHANGED xstack
    PROVE  \A d \in Env : TruthAfter(d)
<1>1. Running
  BY DEF do_clock
<1>2. curenv \in Env /\ outcome \in [Env -> Outcome] /\ \A d \in Env : TruthAt(d)
  BY <1>1, Caller DEF RecvInv, Running
<1>3. PICK word \in {a0, "USER"} :
             /\ Becomes(curenv, "RUNNABLE", envs[curenv].env_in_syscall, 0, word)
             /\ \A d \in Env \ {curenv} : Keeps(d)
             /\ envs'[curenv].env_a0 = word
  BY ClockEffect
<1>4. CASE word = a0
  <2>1. outcome' = outcome
    BY <1>3, <1>4 DEF ForgetIf
  <2>2. Keeps(curenv)
    BY <1>1, <1>3, <1>4, Caller DEF Becomes, Keeps
  <2> QED BY <1>2, <1>3, <2>1, <2>2, KeptTruth
<1>5. CASE word # a0
  <2>1. outcome' = Forget
    BY <1>3, <1>5 DEF ForgetIf
  <2> QED BY <1>1, <1>3, <2>1, CallTruth
<1> QED BY <1>4, <1>5

\* A receive that blocks is recorded as waiting, at the depth of its handlers.
LEMMA RecvTruth ==
    ASSUME IInv, IrqOK, RecvInv, NEW from \in Senders, sys_ipc_recv(from), halted' = "no",
           outcome' = IF envs'[curenv].env_ipc_recving = 1
                      THEN [outcome EXCEPT ![curenv] =
                              [end |-> "waiting", level |-> Len(xstack[curenv])]]
                      ELSE Forget,
           UNCHANGED xstack
    PROVE  \A d \in Env : TruthAfter(d)
<1>1. Running
  BY DEF sys_ipc_recv
<1>2. curenv \in Env /\ outcome \in [Env -> Outcome] /\ \A d \in Env : TruthAt(d)
  BY <1>1, Caller DEF RecvInv, Running
<1>3. CASE CallReturns
  <2>1. outcome' = Forget
    BY <1>3 DEF CallReturns, Becomes
  <2> QED BY <1>1, <1>3, <2>1, ReturnsTruth
<1>4. CASE /\ Becomes(curenv, "NOT_RUNNABLE", 1, 1, "OK")
           /\ \A d \in Env \ {curenv} : Keeps(d)
  <2>1. outcome' = [outcome EXCEPT ![curenv] =
                      [end |-> "waiting", level |-> Len(xstack[curenv])]]
    BY <1>4 DEF Becomes
  <2>2. /\ outcome'[curenv] = [end |-> "waiting", level |-> Len(xstack[curenv])]
        /\ \A d \in Env \ {curenv} : outcome'[d] = outcome[d]
    BY <1>2, <2>1
  <2>3. TruthAfter(curenv)
    BY <1>2, <1>4, <2>2 DEF TruthAfter, Truth, Becomes, IrqOK
  <2> QED BY <1>2, <1>4, <2>2, <2>3, KeptTruth
<1> QED BY <1>3, <1>4, RecvEffect

\* A freed block has no receive and no saved contexts.
LEMMA DestroyTruth ==
    ASSUME WellBehaved, IInv, IrqOK, RecvInv, NEW id \in EnvId, sys_env_destroy(id),
           halted' = "no",
           outcome' = [e \in Env |-> IF Freed(e) THEN NoCall ELSE Forget[e]],
           xstack' = [e \in Env |-> IF Freed(e) THEN <<>> ELSE xstack[e]]
    PROVE  \A d \in Env : TruthAfter(d)
<1>1. Running
  BY DEF sys_env_destroy
<1>2. curenv \in Env /\ outcome \in [Env -> Outcome] /\ \A d \in Env : TruthAt(d)
  BY <1>1, Caller DEF RecvInv, Running
<1>3. ASSUME NEW d \in Env \ {curenv}, Keeps(d) PROVE TruthAfter(d)
  <2>1. ~Freed(d)
    BY <1>3 DEF Freed, Live, Keeps
  <2> QED BY <1>1, <1>3, <2>1, OthersTruth
<1>4. ASSUME Becomes(curenv, "RUNNABLE", 0, 0, "USER") PROVE TruthAfter(curenv)
  <2>1. ~Freed(curenv)
    BY <1>4 DEF Freed, Live, Becomes
  <2>2. outcome'[curenv] = Forget[curenv] /\ xstack'[curenv] = xstack[curenv]
    BY <1>2, <2>1
  <2> QED BY <1>1, <1>2, <1>4, <2>2, CallerTruth
<1>5. ASSUME NEW e \in Env, Gone(e) PROVE TruthAfter(e)
  <2>1. Freed(e)
    BY <1>5 DEF Freed, Live, Gone
  <2>2. outcome'[e] = NoCall
    BY <2>1
  <2> QED BY <1>5, <2>2 DEF TruthAfter, Truth, NoCall, Gone
<1>6. CASE CallReturns
  BY <1>3, <1>4, <1>6 DEF CallReturns
<1>7. ASSUME NEW e \in Env, Gone(e), e # curenv => Becomes(curenv, "RUNNABLE", 0, 0, "USER"),
             \A d \in Env \ {curenv, e} : Keeps(d)
      PROVE  \A d \in Env : TruthAfter(d)
  BY <1>3, <1>4, <1>5, <1>7
<1> QED BY <1>6, <1>7, DestroyEffect

\* The one a message is stored for sees its receive return 0.
LEMMA SendTruth ==
    ASSUME IInv, IrqOK, RecvInv, NEW id \in EnvId, sys_ipc_try_send(id), halted' = "no",
           outcome' = IF Valid(id) /\ CanReceive(SlotOf(id))
                      THEN [Forget EXCEPT ![SlotOf(id)].end = "message"] ELSE Forget,
           UNCHANGED xstack
    PROVE  \A d \in Env : TruthAfter(d)
<1>1. Running
  BY DEF sys_ipc_try_send
<1>2. curenv \in Env /\ outcome \in [Env -> Outcome] /\ \A d \in Env : TruthAt(d)
  BY <1>1, Caller DEF RecvInv, Running
<1>3. CASE CallReturns /\ ~(Valid(id) /\ CanReceive(SlotOf(id)))
  BY <1>1, <1>3, ReturnsTruth
<1>4. ASSUME NEW e \in Env \ {curenv}, Valid(id), CanReceive(SlotOf(id)), e = SlotOf(id),
             envs[e].env_ipc_recving = 1, Becomes(e, "RUNNABLE", 0, 0, regs[e]),
             Becomes(curenv, "RUNNABLE", 0, 0, "USER"),
             \A d \in Env \ {curenv, e} : Keeps(d)
      PROVE  \A d \in Env : TruthAfter(d)
  <2>1. outcome' = [Forget EXCEPT ![e].end = "message"]
    BY <1>4
  <2>2. Forget \in [Env -> Outcome] /\ Forget[e] = outcome[e]
    BY <1>2, <1>4, ForgetCaller
  <2>3. /\ outcome'[e].end = "message" /\ outcome'[e].level = outcome[e].level
        /\ \A d \in Env \ {e} : outcome'[d] = Forget[d]
    BY <2>1, <2>2 DEF Outcome
  <2>4. outcome[e].level = Len(xstack[e]) /\ regs[e] = "OK"
    BY <1>2, <1>4 DEF TruthAt, Truth
  <2>5. Len(xstack[e]) \in Nat
    BY <1>4 DEF IrqOK
  <2>6. TruthAfter(e)
    BY <1>4, <2>3, <2>4, <2>5 DEF TruthAfter, Truth, Told, Becomes
  <2>7. TruthAfter(curenv)
    BY <1>1, <1>2, <1>4, <2>3, CallerTruth
  <2> QED BY <1>1, <1>4, <2>3, <2>6, <2>7, OthersTruth
<1> QED BY <1>3, <1>4, SendEffect

\* The end of a handler gives the interrupted receive the result -E_INTR.
LEMMA HandlerEndTruth ==
    ASSUME IInv, IrqOK, RecvInv, sys_interrupt_return, halted' = "no"
    PROVE  \A d \in Env : TruthAfter(d)
<1>1. Running /\ outcome' = Forget
  BY DEF sys_interrupt_return
<1>2. curenv \in Env /\ outcome \in [Env -> Outcome] /\ \A d \in Env : TruthAt(d)
  BY <1>1, Caller DEF RecvInv, Running
<1>3. CASE CallReturns /\ UNCHANGED irqVars
  BY <1>1, <1>3, ReturnsTruth DEF irqVars
<1> DEFINE s == xstack[curenv]
           o == outcome[curenv]
           s1 == SubSeq(s, 1, Len(s) - 1)
<1>4. CASE /\ s # <<>> /\ Becomes(curenv, "RUNNABLE", 0, 0, s[Len(s)].a0)
           /\ \A d \in Env \ {curenv} : Keeps(d)
           /\ xstack' = [xstack EXCEPT ![curenv] = SubSeq(@, 1, Len(@) - 1)]
  <2>1. s \in Seq(Frame) /\ o \in Outcome /\ Len(s) \in Nat \ {0}
    BY <1>2, <1>4 DEF IrqOK
  <2>2. /\ xstack'[curenv] = s1 /\ \A d \in Env \ {curenv} : xstack'[d] = xstack[d]
    BY <1>2, <1>4 DEF IrqOK
  <2>3. Len(s1) = Len(s) - 1 /\ \A i \in 1 .. Len(s) - 1 : s1[i] = s[i]
    BY <2>1
  <2>4. /\ o.end # "waiting"
        /\ o.end # "none" => o.level \in Nat /\ o.level <= Len(s)
        /\ o.end = "message" => Told(o, s, regs[curenv]) = "OK"
        /\ o.end = "interrupt" => Told(o, s, regs[curenv]) = "E_INTR"
    BY <1>1, <1>2, <2>1, Caller DEF TruthAt, Truth, Outcome
  <2>5. outcome'[curenv] = IF o.level = Len(s) THEN NoCall ELSE o
    BY <1>1, <1>2, ForgetCaller
  <2>6. TruthAfter(curenv)
    <3> HIDE DEF s, o, s1
    <3>1. CASE o.level = Len(s)
      BY <1>4, <2>5, <3>1 DEF TruthAfter, Truth, Becomes, NoCall
    <3>2. CASE o.level # Len(s)
      <4>1. o.end # "none" => Told(o, s1, s[Len(s)].a0) = Told(o, s, regs[curenv])
        BY <2>1, <2>3, <2>4, <3>2 DEF Told
      <4>2. Truth("RUNNABLE", 0, 0, o, s1, s[Len(s)].a0)
        BY <2>1, <2>3, <2>4, <3>2, <4>1 DEF Truth
      <4> QED BY <1>4, <2>2, <2>5, <3>2, <4>2 DEF TruthAfter, Becomes
    <3> QED BY <3>1, <3>2
  <2> QED BY <1>1, <1>4, <2>2, <2>6, OthersTruth
<1> QED BY <1>3, <1>4, HandlerEndEffect

\* A program that is interrupted keeps what it was told, in the pushed frame.
LEMMA PushTruth ==
    ASSUME NEW s \in Seq(Frame), NEW o \in Outcome, NEW f \in Frame, NEW status, NEW sys,
           NEW recving, NEW w, Truth(status, sys, recving, o, s, w), o.end # "waiting",
           o.level = Len(s) /\ o.end # "none" => f.a0 = w,
           NEW s1, s1 = Append(s, f), NEW status1, status1 # "FREE", NEW sys1, NEW w1
    PROVE  Truth(status1, sys1, 0, o, s1, w1)
<1>1. /\ Len(s1) = Len(s) + 1 /\ Len(s) \in Nat /\ s1[Len(s) + 1] = f
      /\ \A i \in 1 .. Len(s) : s1[i] = s[i]
  OBVIOUS
<1>2. o.end # "none" => o.level \in Nat /\ o.level <= Len(s)
  BY DEF Truth, Outcome
<1>3. o.end # "none" => Told(o, s1, w1) = Told(o, s, w)
  <2>1. CASE o.level < Len(s)
    <3>1. o.end # "none" => o.level + 1 \in 1 .. Len(s)
      BY <1>1, <1>2, <2>1
    <3> QED BY <1>1, <1>2, <2>1, <3>1 DEF Told
  <2>2. CASE o.level = Len(s)
    BY <1>1, <2>2 DEF Told
  <2> QED BY <1>1, <1>2, <2>1, <2>2
<1> QED BY <1>1, <1>2, <1>3 DEF Truth

\* A delivery to the running environment ends no receive.
LEMMA DivertCurrentTruth ==
    ASSUME IInv, IrqOK, RecvInv, NEW c \in Irq, interrupt_current(c), halted' = "no"
    PROVE  \A d \in Env : TruthAfter(d)
<1>1. Running
  BY DEF interrupt_current, Delivered
<1>2. curenv \in Env /\ outcome \in [Env -> Outcome] /\ \A d \in Env : TruthAt(d)
  BY <1>1, Caller DEF RecvInv, Running
<1>3. PICK word \in {a0, "USER"} : xstack' = Push(curenv, word, c) /\ outcome' = ForgetIf(word)
  BY DEF interrupt_current
<1> DEFINE s == xstack[curenv]
           o == outcome[curenv]
           f == [a0 |-> word, code |-> c]
<1>4. /\ s \in Seq(Frame) /\ o \in Outcome /\ f \in Frame /\ f.a0 = word
      /\ Truth("RUNNABLE", envs[curenv].env_in_syscall, 0, o, s, a0)
  BY <1>1, <1>2, Caller DEF IrqOK, Frame, TruthAt, Word
<1>5. xstack'[curenv] = Append(s, f) /\ \A d \in Env \ {curenv} : xstack'[d] = xstack[d]
  BY <1>2, <1>3 DEF Push, IrqOK
<1>6. o.end # "waiting"
  BY <1>4 DEF Truth
<1>7. /\ \A d \in Env \ {curenv} : outcome'[d] = outcome[d]
      /\ \/ outcome'[curenv] = o /\ word = a0
         \/ outcome'[curenv] = o /\ o.level # Len(s)
         \/ outcome'[curenv] = NoCall
  BY <1>2, <1>3, ForgetCaller DEF ForgetIf
<1>8. TruthAfter(curenv)
  <2> HIDE DEF s, o, f
  <2>1. CASE outcome'[curenv] = NoCall
    BY <2>1, DivertCurrentEffect DEF TruthAfter, Truth, Becomes, NoCall
  <2>2. CASE outcome'[curenv] = o /\ (word = a0 \/ o.level # Len(s))
    <3>1. Truth("RUNNABLE", envs[curenv].env_in_syscall, 0, o, xstack'[curenv], "USER")
      BY <1>4, <1>5, <1>6, <2>2, PushTruth
    <3> QED BY <2>2, <3>1, DivertCurrentEffect DEF TruthAfter, Becomes
  <2> QED BY <1>7, <2>1, <2>2
<1> QED BY <1>2, <1>5, <1>7, <1>8, DivertCurrentEffect, KeptTruth

\* A delivery to a blocked receiver ends its receive without a message.
LEMMA DivertOtherTruth ==
    ASSUME IInv, IrqOK, RecvInv, NEW c \in Irq, interrupt_other(c), halted' = "no"
    PROVE  \A d \in Env : TruthAfter(d)
<1>1. Running
  BY DEF interrupt_other, Delivered
<1>2. curenv \in Env /\ outcome \in [Env -> Outcome] /\ \A d \in Env : TruthAt(d)
  BY <1>1, Caller DEF RecvInv, Running
<1>3. PICK e \in Env \ {curenv}, word \in {a0, "USER"} : Diverted(e, c, word)
  BY DivertOtherEffect
<1> DEFINE incall == BlockedInCall(e)
           s == xstack[e]
           o == outcome[e]
           f == [a0 |-> IF incall THEN "E_INTR" ELSE regs[e], code |-> c]
           sys == IF incall THEN 0 ELSE envs[e].env_in_syscall
<1>4. /\ s \in Seq(Frame) /\ o \in Outcome /\ envs[e].env_in_syscall \in {0, 1}
      /\ f \in Frame /\ f.a0 = IF incall THEN "E_INTR" ELSE regs[e]
  <2>1. envs[e] \in EnvRecord /\ regs[e] = envs[e].env_a0
    BY <1>1, Caller
  <2> QED BY <1>2, <2>1 DEF IrqOK, Frame, EnvRecord, Word
<1>5. xstack'[e] = Append(s, f) /\ \A d \in Env \ {e} : xstack'[d] = xstack[d]
  BY <1>3 DEF Diverted, Push, IrqOK
<1>6. /\ Becomes(e, "RUNNABLE", sys, 0, "USER")
      /\ Becomes(curenv, "RUNNABLE", envs[curenv].env_in_syscall, 0, word)
      /\ \A d \in Env \ {curenv, e} : Keeps(d)
      /\ outcome' = IF incall /\ o.end = "waiting"
                    THEN [ForgetIf(word) EXCEPT ![e].end = "interrupt"]
                    ELSE ForgetIf(word)
  BY <1>3 DEF Diverted
<1>7. o.end = "waiting" => incall
  <2>1. RecvOK(envs) /\ o.end = "waiting" => envs[e].env_ipc_recving = 1
    BY <1>2 DEF IInv, Good, TruthAt, Truth
  <2>2. RecvOK(envs)
    BY DEF IInv, Good
  <2> QED BY <2>1, <2>2 DEF RecvOK, BlockedInCall
<1>8. /\ ForgetIf(word) \in [Env -> Outcome] /\ ForgetIf(word)[e] = o
      /\ ForgetIf(word)[curenv] = IF word = a0 THEN outcome[curenv] ELSE Forget[curenv]
      /\ \A d \in Env \ {curenv, e} : ForgetIf(word)[d] = outcome[d]
  BY <1>2, <1>3, ForgetCaller DEF ForgetIf
<1>9. \A d \in Env \ {e} : outcome'[d] = ForgetIf(word)[d]
  BY <1>6, <1>8
<1>10. TruthAfter(e)
  <2>1. CASE o.end = "waiting"
    <3>1. outcome'[e].end = "interrupt" /\ outcome'[e].level = o.level
      BY <1>4, <1>6, <1>7, <1>8, <2>1 DEF Outcome
    <3>2. o.level = Len(s)
      BY <1>2, <2>1 DEF TruthAt, Truth
    <3>3. /\ Len(xstack'[e]) = Len(s) + 1 /\ Len(s) \in Nat /\ xstack'[e][Len(s) + 1] = f
          /\ f.a0 = "E_INTR"
      BY <1>4, <1>5, <1>7, <2>1
    <3> HIDE DEF s, o, f, sys, incall
    <3>4. Truth("RUNNABLE", sys, 0, outcome'[e], xstack'[e], "USER")
      BY <3>1, <3>2, <3>3 DEF Truth, Told
    <3> QED BY <1>6, <3>4 DEF TruthAfter, Becomes
  <2>2. CASE o.end # "waiting"
    <3>1. outcome'[e] = o
      BY <1>6, <1>8, <2>2
    <3>2. o.level = Len(s) /\ o.end # "none" => f.a0 = regs[e]
      <4>1. o.end \in {"message", "interrupt"} /\ o.level = Len(s) => envs[e].env_in_syscall # 1
        BY <1>2, <1>4 DEF TruthAt, Truth
      <4> QED BY <1>4, <2>2, <4>1 DEF BlockedInCall, Outcome
    <3>3. Truth(envs[e].env_status, envs[e].env_in_syscall, envs[e].env_ipc_recving, o, s, regs[e])
      BY <1>2 DEF TruthAt
    <3> HIDE DEF s, o, f, sys, incall
    <3>4. Truth("RUNNABLE", sys, 0, o, xstack'[e], "USER")
      BY <1>4, <1>5, <2>2, <3>2, <3>3, PushTruth
    <3> QED BY <1>6, <3>1, <3>4 DEF TruthAfter, Becomes
  <2> QED BY <2>1, <2>2
<1>11. TruthAfter(curenv)
  <2>1. CASE word = a0
    <3>1. Keeps(curenv) /\ outcome'[curenv] = outcome[curenv]
      BY <1>1, <1>2, <1>3, <1>6, <1>8, <1>9, <2>1, Caller DEF Becomes, Keeps
    <3> QED BY <1>2, <1>3, <1>5, <3>1, KeptTruth
  <2>2. CASE word # a0
    BY <1>1, <1>2, <1>3, <1>5, <1>6, <1>8, <1>9, <2>2, CallerTruth
  <2> QED BY <2>1, <2>2
<1>12. ASSUME NEW d \in Env \ {curenv, e} PROVE TruthAfter(d)
  <2>1. outcome'[d] = outcome[d] /\ xstack'[d] = xstack[d] /\ Keeps(d) /\ TruthAt(d)
    BY <1>2, <1>5, <1>6, <1>8, <1>9
  <2> QED BY <2>1, KeptTruth
<1> QED BY <1>10, <1>11, <1>12

\* The recorded outcomes keep their type.
LEMMA OutcomeTyped ==
    ASSUME IInv, IrqOK, outcome \in [Env -> Outcome], [IrqNext]_vars
    PROVE  outcome' \in [Env -> Outcome]
<1>1. NoCall \in Outcome
  BY DEF NoCall, Outcome
<1>2. CASE UNCHANGED outcome
  BY <1>2
<1>3. ASSUME Running
      PROVE  /\ Forget \in [Env -> Outcome] /\ \A word : ForgetIf(word) \in [Env -> Outcome]
             /\ curenv \in Env /\ Len(xstack[curenv]) \in Nat
  BY <1>3, Caller, ForgetCaller DEF IrqOK
<1>4. ASSUME NEW id \in EnvId, sys_env_destroy(id),
             outcome' = [e \in Env |-> IF Freed(e) THEN NoCall ELSE Forget[e]]
      PROVE  outcome' \in [Env -> Outcome]
  BY <1>1, <1>3, <1>4 DEF sys_env_destroy
<1>5. ASSUME NEW from \in Senders, sys_ipc_recv(from),
             outcome' = IF envs'[curenv].env_ipc_recving = 1
                        THEN [outcome EXCEPT ![curenv] =
                                [end |-> "waiting", level |-> Len(xstack[curenv])]]
                        ELSE Forget
      PROVE  outcome' \in [Env -> Outcome]
  BY <1>3, <1>5 DEF sys_ipc_recv, Outcome
<1>6. ASSUME NEW id \in EnvId, sys_ipc_try_send(id),
             outcome' = IF Valid(id) /\ CanReceive(SlotOf(id))
                        THEN [Forget EXCEPT ![SlotOf(id)].end = "message"] ELSE Forget
      PROVE  outcome' \in [Env -> Outcome]
  BY <1>3, <1>6 DEF sys_ipc_try_send, Outcome
<1>7. CASE do_clock /\ outcome' = ForgetIf(envs'[curenv].env_a0)
  BY <1>3, <1>7 DEF do_clock
<1>8. CASE Running /\ outcome' = Forget
  BY <1>3, <1>8
<1>9. ASSUME NEW c \in Irq, interrupt_current(c) PROVE outcome' \in [Env -> Outcome]
  BY <1>3, <1>9 DEF interrupt_current, Delivered
<1>10. ASSUME NEW c \in Irq, interrupt_other(c) PROVE outcome' \in [Env -> Outcome]
  <2>1. PICK e \in Env \ {curenv}, word \in {a0, "USER"} :
           outcome' = IF BlockedInCall(e) /\ outcome[e].end = "waiting"
                      THEN [ForgetIf(word) EXCEPT ![e].end = "interrupt"]
                      ELSE ForgetIf(word)
    BY <1>10, DivertOtherEffect DEF Diverted
  <2>2. ForgetIf(word) \in [Env -> Outcome]
    BY <1>3, <1>10 DEF interrupt_other, Delivered
  <2> QED BY <2>1, <2>2 DEF Outcome
<1>11. CASE ~UNCHANGED vars
  <2>1. IrqNext
    BY <1>11
  <2> QED BY <1>2, <1>4, <1>5, <1>6, <1>7, <1>8, <1>9, <1>10, <2>1
          DEF IrqNext, sys_yield, sys_sleep, sys_exofork, sys_set_env_status,
              sys_set_interrupt_handler, interrupt_without_owner, sys_interrupt_return
<1> QED BY <1>2, <1>11 DEF vars

\* One step per action: every receive tells the truth after it.
LEMMA NextKeepsTruth ==
    ASSUME WellBehaved, IInv, IrqOK, RecvInv, IrqNext, halted' = "no"
    PROVE  \A d \in Env : TruthAfter(d)
<1>1. ASSUME NEW pri \in Pri, env_create(pri), UNCHANGED <<irqVars, outcome>>
      PROVE  \A d \in Env : TruthAfter(d)
  <2>1. \A d \in Env : TruthAt(d)
    BY <1>1 DEF env_create, Booting, RecvInv
  <2>2. PICK e \in Env : Fresh(e) /\ \A d \in Env \ {e} : Keeps(d)
    BY <1>1, CreateEffect
  <2>3. TruthAfter(e)
    BY <1>1, <2>1, <2>2, FreshTruth
  <2> QED BY <1>1, <2>1, <2>2, <2>3, KeptTruth DEF irqVars
<1>2. CASE start_schedule /\ UNCHANGED <<irqVars, outcome>>
  <2>1. \A d \in Env : TruthAt(d)
    BY <1>2 DEF start_schedule, Booting, RecvInv
  <2> QED BY <1>2, <2>1, StartEffect, KeptTruth DEF irqVars
<1>3. CASE do_clock /\ outcome' = ForgetIf(envs'[curenv].env_a0) /\ UNCHANGED irqVars
  BY <1>3, ClockTruth DEF irqVars
<1>4. CASE sys_yield /\ outcome' = Forget /\ UNCHANGED irqVars
  BY <1>4, YieldEffect, ReturnsTruth DEF irqVars, sys_yield
<1>5. CASE sys_sleep /\ outcome' = Forget /\ UNCHANGED irqVars
  BY <1>5, SleepEffect, CallTruth DEF irqVars, sys_sleep
<1>6. CASE sys_exofork /\ outcome' = Forget /\ UNCHANGED irqVars
  BY <1>6, ForkTruth DEF irqVars
<1>7. ASSUME NEW id \in EnvId, NEW status \in Status, sys_set_env_status(id, status),
             outcome' = Forget, UNCHANGED irqVars
      PROVE  \A d \in Env : TruthAfter(d)
  BY <1>7, SetStatusTruth DEF irqVars
<1>8. ASSUME NEW id \in EnvId, sys_env_destroy(id),
             outcome' = [e \in Env |-> IF Freed(e) THEN NoCall ELSE Forget[e]],
             xstack' = [e \in Env |-> IF Freed(e) THEN <<>> ELSE xstack[e]]
      PROVE  \A d \in Env : TruthAfter(d)
  BY <1>8, DestroyTruth
<1>9. ASSUME NEW from \in Senders, sys_ipc_recv(from), UNCHANGED irqVars,
             outcome' = IF envs'[curenv].env_ipc_recving = 1
                        THEN [outcome EXCEPT ![curenv] =
                                [end |-> "waiting", level |-> Len(xstack[curenv])]]
                        ELSE Forget
      PROVE  \A d \in Env : TruthAfter(d)
  BY <1>9, RecvTruth DEF irqVars
<1>10. ASSUME NEW id \in EnvId, sys_ipc_try_send(id), UNCHANGED irqVars,
              outcome' = IF Valid(id) /\ CanReceive(SlotOf(id))
                         THEN [Forget EXCEPT ![SlotOf(id)].end = "message"] ELSE Forget
       PROVE  \A d \in Env : TruthAfter(d)
  BY <1>10, SendTruth DEF irqVars
<1>11. ASSUME NEW c \in Irq, sys_set_interrupt_handler(c) PROVE \A d \in Env : TruthAfter(d)
  BY <1>11, HandlerSetEffect, ReturnsTruth DEF sys_set_interrupt_handler
<1>12. ASSUME NEW c \in Irq, interrupt_without_owner(c) PROVE \A d \in Env : TruthAfter(d)
  <2>1. /\ \A d \in Env : TruthAt(d)
        /\ UNCHANGED <<envs, curenv, a0, xstack, outcome>>
    BY <1>12 DEF interrupt_without_owner, Delivered, Running, RecvInv, envVars
  <2> QED BY <2>1 DEF TruthAt, TruthAfter, regs
<1>13. ASSUME NEW c \in Irq, interrupt_current(c) \/ interrupt_other(c)
       PROVE  \A d \in Env : TruthAfter(d)
  BY <1>13, DivertCurrentTruth, DivertOtherTruth
<1>14. CASE sys_interrupt_return
  BY <1>14, HandlerEndTruth
<1> QED BY <1>1, <1>2, <1>3, <1>4, <1>5, <1>6, <1>7, <1>8, <1>9, <1>10, <1>11, <1>12, <1>13,
           <1>14 DEF IrqNext

\* The interrupt code's whole invariant for the receivers.
LEMMA NextKeepsRecvInv ==
    ASSUME WellBehaved, IInv, IrqOK, RecvInv, [IrqNext]_vars
    PROVE  RecvInv'
<1>1. outcome' \in [Env -> Outcome]
  BY OutcomeTyped DEF RecvInv
<1>2. CASE UNCHANGED vars
  <2>1. UNCHANGED <<envs, curenv, a0, halted, xstack, outcome>>
    BY <1>2 DEF vars, envVars, irqVars
  <2> QED BY <1>1, <2>1 DEF RecvInv, TruthAt, regs
<1>3. CASE IrqNext
  <2>1. halted' = "no" => \A d \in Env : TruthAfter(d)
    BY <1>3, NextKeepsTruth
  <2> QED BY <1>1, <2>1 DEF RecvInv, TruthAt, TruthAfter
<1> QED BY <1>2, <1>3

\* The initial state satisfies the invariants.
LEMMA IrqInitInvariants == IrqInit => IInv /\ IrqOK /\ RecvInv
<1> SUFFICES ASSUME IrqInit PROVE IInv /\ IrqOK /\ RecvInv
  OBVIOUS
<1>1. IInv
  BY InitIInv DEF IrqInit
<1>2. IrqOK
  <2>1. <<>> \in Seq(Frame) /\ NoId \in EnvId
    BY DEF EnvId
  <2> QED BY <2>1 DEF IrqInit, IrqOK
<1>3. outcome \in [Env -> Outcome] /\ \A e \in Env : TruthAt(e)
  BY DEF IrqInit, Init, NoCall, Outcome, TruthAt, Truth
<1> QED BY <1>1, <1>2, <1>3 DEF RecvInv

\* What a returning receive reports is the end that it really had.
LEMMA RecvInvImplies == IInv /\ IrqOK /\ RecvInv => RecvOutcomeTruthful
<1> SUFFICES ASSUME IrqOK, RecvInv, IInv, halted = "no", NEW e \in Env
             PROVE  /\ outcome[e].end = "message" => CallerWord(e) = "OK"
                    /\ outcome[e].end = "interrupt" => CallerWord(e) = "E_INTR"
                    /\ outcome[e].end = "waiting" <=> envs[e].env_ipc_recving = 1
  BY DEF RecvOutcomeTruthful
<1>1. /\ outcome[e] \in Outcome /\ Len(xstack[e]) \in Nat
      /\ Truth(envs[e].env_status, envs[e].env_in_syscall, envs[e].env_ipc_recving,
               outcome[e], xstack[e], regs[e])
  BY DEF RecvInv, TruthAt, IrqOK
<1>2. outcome[e].level \in Nat
  BY <1>1 DEF Outcome
<1>3. outcome[e].end \in {"message", "interrupt"} =>
        CallerWord(e) = Told(outcome[e], xstack[e], regs[e])
  <2>1. outcome[e].end \in {"message", "interrupt"} => outcome[e].level <= Len(xstack[e])
    BY <1>1 DEF Truth
  <2> QED BY <1>1, <1>2, <2>1 DEF CallerWord, Told, regs
<1> QED BY <1>1, <1>3 DEF Truth

\* README.md:223: however messages, interrupts and preemption interleave, and on
\* whatever level of the exception stack the call was made, a program that
\* returns from sys_ipc_recv is told what happened: 0 if it has a message,
\* -E_INTR if it was interrupted first.
THEOREM RecvOutcomeCorrect ==
    ASSUME WellBehaved
    PROVE  IrqSpec => []RecvOutcomeTruthful
<1>1. IrqInit => IInv /\ IrqOK /\ RecvInv
  BY IrqInitInvariants
<1>2. IInv /\ IrqOK /\ RecvInv /\ [IrqNext]_vars => (IInv /\ IrqOK /\ RecvInv)'
  BY IrqNextKeeps, NextKeepsRecvInv
<1>3. IInv /\ IrqOK /\ RecvInv => RecvOutcomeTruthful
  BY RecvInvImplies
<1> QED BY <1>1, <1>2, <1>3, PTL DEF IrqSpec

\* handle_env_interrupt and the system calls for it keep the kernel's tables what
\* the scheduler and sys_ipc_try_send rely on, the exception stacks and the table
\* of registered handlers included.
THEOREM IrqTablesCorrect ==
    ASSUME WellBehaved
    PROVE  IrqSpec => []SchedulerIntact
<1>1. IrqInit => IInv /\ IrqOK /\ RecvInv
  BY IrqInitInvariants
<1>2. IInv /\ IrqOK /\ RecvInv /\ [IrqNext]_vars => (IInv /\ IrqOK /\ RecvInv)'
  BY IrqNextKeeps, NextKeepsRecvInv
<1>3. IInv /\ IrqOK /\ RecvInv => SchedulerIntact
  BY IInvImplies DEF SchedulerIntact, IrqTypeOK, IrqOK, RecvInv
<1> QED BY <1>1, <1>2, <1>3, PTL DEF IrqSpec

-----------------------------------------------------------------------------
(* Masking.  A program registers for one code only, unless two_codes is used *)
(* (ret_env_interrupt unmasks one code, so that the other one would stay    *)
(* masked).                                                                 *)

owner == interrupt_code_to_envid

\* Envids are drawn once: the live ones and the registered ones were drawn.
IdsIssued ==
    /\ \A e \in Env : Live(e) => \E n \in 1 .. gen : envs[e].env_id = <<n, e>>
    /\ \A c \in Irq : owner[c] = NoId \/ \E n \in 1 .. gen, e \in Env : owner[c] = <<n, e>>

OneCode == \A c, d \in Irq : owner[c] = owner[d] /\ owner[c] # NoId => c = d

\* Nobody handles two interrupts at once, and a free slot handles none.
OneHandler == \A e \in Env : /\ Len(xstack[e]) <= 1
                             /\ ~Live(e) => xstack[e] = <<>>

\* The code an environment is registered for is masked iff it is being handled.
MaskedIffHandled ==
    \A e \in Env, c \in Irq : Live(e) /\ owner[c] = envs[e].env_id =>
        /\ prority[c] = 0 <=> xstack[e] # <<>>
        /\ xstack[e] # <<>> => xstack[e][1].code = c

MaskInv == IdsIssued /\ OneCode /\ OneHandler /\ MaskedIffHandled

\* Slots that stay free or in use, by the same environment.
SameEnv(d) == /\ envs'[d].env_id = envs[d].env_id
              /\ envs'[d].env_status = "FREE" <=> envs[d].env_status = "FREE"

\* The number of the next identifier is a natural number.
LEMMA GenIsNat == ASSUME IInv PROVE gen \in Nat
<1>1. gen \in 0 .. MaxGen
  BY DEF IInv
<1>2. MaxGen \in Nat
  BY EnvAssumption
<1> QED BY <1>1, <1>2

\* A step that leaves identities and handlers alone leaves the masks exact.
LEMMA SameEnvsKeepMask ==
    ASSUME MaskInv, gen \in Nat, gen' \in {gen, gen + 1}, \A d \in Env : SameEnv(d),
           UNCHANGED <<interrupt_code_to_envid, prority, xstack>>
    PROVE  MaskInv'
<1> 1 .. gen \subseteq 1 .. gen'
  OBVIOUS
<1>1. IdsIssued'
  BY DEF MaskInv, IdsIssued, SameEnv, Live, owner
<1>2. OneCode' /\ OneHandler' /\ MaskedIffHandled'
  BY DEF MaskInv, OneCode, OneHandler, MaskedIffHandled, SameEnv, Live, owner
<1> QED BY <1>1, <1>2 DEF MaskInv

\* A new environment, or one that could not be created: nothing is registered under
\* the new envid.
LEMMA FreshKeepsMask ==
    ASSUME MaskInv, IrqOK, gen \in Nat, gen' \in {gen, gen + 1}, NEW e \in Env, Fresh(e) \/ Stillborn(e),
           \A d \in Env \ {e} : SameEnv(d),
           UNCHANGED <<interrupt_code_to_envid, prority, xstack>>
    PROVE  MaskInv'
<1>1. 1 .. gen \subseteq 1 .. gen'
  OBVIOUS
<1>2. ~Live(e) /\ (Live(e)' => /\ envs'[e].env_id = <<gen', e>> /\ gen' \in 1 .. gen'
                               /\ gen' \notin 1 .. gen)
  BY DEF Fresh, Stillborn, Live
<1>3. IdsIssued'
  <2>1. ASSUME NEW d \in Env, Live(d)' PROVE \E n \in 1 .. gen' : envs'[d].env_id = <<n, d>>
    <3>1. CASE d = e
      BY <1>1, <1>2, <2>1, <3>1
    <3>2. CASE d # e
      BY <1>1, <2>1, <3>2 DEF MaskInv, IdsIssued, SameEnv, Live
    <3> QED BY <3>1, <3>2
  <2>2. ASSUME NEW c \in Irq
        PROVE  owner'[c] = NoId \/ \E n \in 1 .. gen', d \in Env : owner'[c] = <<n, d>>
    BY <1>1 DEF MaskInv, IdsIssued, owner
  <2> QED BY <2>1, <2>2 DEF IdsIssued
<1>4. ASSUME NEW c \in Irq, Live(e)' PROVE owner'[c] # envs'[e].env_id
  <2>1. envs'[e].env_id = <<gen', e>> /\ gen' # 0 /\ gen' \notin 1 .. gen
    BY <1>2, <1>4
  <2> QED BY <2>1 DEF MaskInv, IdsIssued, owner, NoId
<1>5. MaskedIffHandled'
  BY <1>4 DEF MaskInv, MaskedIffHandled, SameEnv, Live, owner
<1>6. OneCode' /\ OneHandler'
  BY <1>2 DEF MaskInv, OneCode, OneHandler, SameEnv, Live, owner
<1> QED BY <1>3, <1>5, <1>6 DEF MaskInv

\* A freed environment masks nothing: its contexts go with it.
LEMMA GoneKeepsMask ==
    ASSUME MaskInv, IrqOK, gen' = gen, gen \in Nat,
           NEW G \in SUBSET Env, \A e \in G : envs'[e].env_status = "FREE",
           \A d \in Env \ G : SameEnv(d),
           UNCHANGED <<interrupt_code_to_envid, prority>>,
           xstack' = [e \in Env |-> IF e \in G THEN <<>> ELSE xstack[e]]
    PROVE  MaskInv'
<1>1. \A e \in G : ~Live(e)'
  BY DEF Live
<1>2. IdsIssued'
  BY <1>1 DEF MaskInv, IdsIssued, SameEnv, Live, owner
<1>3. OneHandler'
  BY <1>1 DEF MaskInv, OneHandler, SameEnv, Live
<1>4. OneCode' /\ MaskedIffHandled'
  BY <1>1 DEF MaskInv, OneCode, MaskedIffHandled, SameEnv, Live, owner
<1> QED BY <1>2, <1>3, <1>4 DEF MaskInv

\* A registration opens its code, which nobody was handling.
LEMMA HandlerSetKeepsMask ==
    ASSUME IInv, IrqOK, MaskInv, {"two_codes", "in_handler"} \cap Usage = {},
           NEW c \in Irq, sys_set_interrupt_handler(c), \A d \in Env : SameEnv(d)
    PROVE  MaskInv'
<1> DEFINE id == envs[curenv].env_id
<1>1. /\ Running /\ xstack[curenv] = <<>> /\ CodesOf(id) \subseteq {c}
      /\ owner' = [owner EXCEPT ![c] = id] /\ prority' = [prority EXCEPT ![c] = 1]
      /\ gen' = gen /\ UNCHANGED xstack
  BY DEF sys_set_interrupt_handler, pools, owner
<1>2. /\ curenv \in Env /\ Live(curenv) /\ owner \in [Irq -> EnvId] /\ prority \in [Irq -> {0, 1}]
      /\ gen \in Nat
  BY <1>1, Caller, GenIsNat DEF Live, IrqOK, owner
<1>3. PICK n \in 1 .. gen : id = <<n, curenv>>
  BY <1>2 DEF MaskInv, IdsIssued
<1>4. /\ owner'[c] = id /\ \A d \in Irq \ {c} : owner'[d] = owner[d] /\ owner[d] # id
      /\ prority'[c] = 1 /\ \A d \in Irq \ {c} : prority'[d] = prority[d]
  <2>1. \A d \in Irq \ {c} : owner[d] # id
    BY <1>1 DEF CodesOf, owner
  <2> QED BY <1>1, <1>2, <2>1
<1> HIDE DEF id
<1>5. IdsIssued'
  BY <1>1, <1>2, <1>3, <1>4 DEF MaskInv, IdsIssued, SameEnv, Live
<1>6. OneCode'
  BY <1>4 DEF MaskInv, OneCode
<1>7. OneHandler'
  BY <1>1 DEF MaskInv, OneHandler, SameEnv, Live
<1>8. MaskedIffHandled'
  <2> SUFFICES ASSUME NEW e \in Env, NEW d \in Irq, Live(e)', owner'[d] = envs'[e].env_id
               PROVE  /\ prority'[d] = 0 <=> xstack'[e] # <<>>
                      /\ xstack'[e] # <<>> => xstack'[e][1].code = d
    BY DEF MaskedIffHandled
  <2>1. Live(e) /\ envs'[e].env_id = envs[e].env_id
    BY DEF SameEnv, Live
  <2>2. CASE d # c
    BY <1>1, <1>4, <2>1, <2>2 DEF MaskInv, MaskedIffHandled
  <2>3. CASE d = c
    <3>1. envs[e].env_id = <<n, curenv>>
      BY <1>3, <1>4, <2>1, <2>3
    <3>2. e = curenv
      <4>1. PICK m \in 1 .. gen : envs[e].env_id = <<m, e>>
        BY <2>1 DEF MaskInv, IdsIssued
      <4> QED BY <3>1, <4>1
    <3> QED BY <1>1, <1>4, <2>3, <3>2
  <2> QED BY <2>2, <2>3
<1> QED BY <1>5, <1>6, <1>7, <1>8 DEF MaskInv

\* ret_env_interrupt unmasks the code that was handled.
LEMMA HandlerEndKeepsMask ==
    ASSUME IInv, IrqOK, MaskInv, Running, gen' = gen, \A d \in Env : SameEnv(d),
           xstack[curenv] # <<>>,
           xstack' = [xstack EXCEPT ![curenv] = SubSeq(@, 1, Len(@) - 1)],
           prority' = Unmask(envs[curenv].env_id), UNCHANGED interrupt_code_to_envid
    PROVE  MaskInv'
<1> DEFINE id == envs[curenv].env_id
<1>1. /\ curenv \in Env /\ Live(curenv) /\ prority \in [Irq -> {0, 1}] /\ gen \in Nat
      /\ owner' = owner
  BY Caller, GenIsNat DEF Live, IrqOK, owner
<1>2. PICK n \in 1 .. gen : id = <<n, curenv>>
  BY <1>1 DEF MaskInv, IdsIssued
<1>3. id # NoId
  BY <1>2 DEF NoId
<1>4. /\ xstack'[curenv] = <<>> /\ \A d \in Env \ {curenv} : xstack'[d] = xstack[d]
  <2>1. xstack[curenv] \in Seq(Frame) /\ Len(xstack[curenv]) <= 1
    BY <1>1 DEF MaskInv, OneHandler, IrqOK
  <2>2. SubSeq(xstack[curenv], 1, Len(xstack[curenv]) - 1) = <<>>
    BY <2>1
  <2> QED BY <1>1, <2>2 DEF IrqOK
<1>5. \A c \in Irq : prority'[c] = IF owner[c] = id THEN 1 ELSE prority[c]
  <2> SUFFICES ASSUME NEW c \in Irq
               PROVE  prority'[c] = IF owner[c] = id THEN 1 ELSE prority[c]
    OBVIOUS
  <2>1. CASE owner[c] = id
    <3>1. c \in CodesOf(id) /\ \A d \in CodesOf(id) : d = c
      BY <1>3, <2>1 DEF CodesOf, MaskInv, OneCode, owner
    <3>2. c <= c
      BY IrqAssumption
    <3> QED BY <2>1, <3>1, <3>2 DEF Unmask
  <2>2. CASE owner[c] # id
    BY <2>2 DEF Unmask, CodesOf, owner
  <2> QED BY <2>1, <2>2
<1> HIDE DEF id
<1>6. IdsIssued' /\ OneCode'
  BY <1>1 DEF MaskInv, IdsIssued, OneCode, SameEnv, Live
<1>7. OneHandler'
  BY <1>4 DEF MaskInv, OneHandler, SameEnv, Live
<1>8. MaskedIffHandled'
  <2> SUFFICES ASSUME NEW e \in Env, NEW c \in Irq, Live(e)', owner'[c] = envs'[e].env_id
               PROVE  /\ prority'[c] = 0 <=> xstack'[e] # <<>>
                      /\ xstack'[e] # <<>> => xstack'[e][1].code = c
    BY DEF MaskedIffHandled
  <2>1. Live(e) /\ owner[c] = envs[e].env_id
    BY <1>1 DEF SameEnv, Live
  <2>2. CASE e = curenv
    BY <1>4, <1>5, <2>1, <2>2 DEF id
  <2>3. CASE e # curenv
    <3>1. owner[c] # id
      <4>1. PICK m \in 1 .. gen : envs[e].env_id = <<m, e>>
        BY <2>1 DEF MaskInv, IdsIssued
      <4> QED BY <1>2, <2>1, <2>3, <4>1
    <3> QED BY <1>4, <1>5, <2>1, <2>3, <3>1 DEF MaskInv, MaskedIffHandled
  <2> QED BY <2>2, <2>3
<1> QED BY <1>6, <1>7, <1>8 DEF MaskInv

\* The owner of an unmasked code is diverted: it was handling nothing.
LEMMA DivertKeepsMask ==
    ASSUME IInv, IrqOK, MaskInv, gen' = gen, \A d \in Env : SameEnv(d),
           NEW c \in Irq, NEW e \in Env, NEW word, Live(e), owner[c] = envs[e].env_id,
           prority[c] = 1, xstack' = Push(e, word, c),
           prority' = [prority EXCEPT ![c] = 0], UNCHANGED interrupt_code_to_envid
    PROVE  MaskInv'
<1>1. xstack[e] = <<>> /\ owner' = owner
  BY DEF MaskInv, MaskedIffHandled, owner
<1>2. xstack'[e] = <<[a0 |-> word, code |-> c]>> /\ \A d \in Env \ {e} : xstack'[d] = xstack[d]
  <2>1. Append(<<>>, [a0 |-> word, code |-> c]) = <<[a0 |-> word, code |-> c]>>
    OBVIOUS
  <2> QED BY <1>1, <2>1 DEF Push, IrqOK
<1>3. xstack'[e] # <<>> /\ Len(xstack'[e]) <= 1 /\ xstack'[e][1].code = c
  BY <1>2
<1>4. prority'[c] = 0 /\ \A d \in Irq \ {c} : prority'[d] = prority[d]
  BY DEF IrqOK
<1>5. IdsIssued' /\ OneCode'
  BY <1>1 DEF MaskInv, IdsIssued, OneCode, SameEnv, Live
<1>6. OneHandler'
  <2>1. ASSUME NEW d \in Env PROVE Len(xstack'[d]) <= 1 /\ (~Live(d)' => xstack'[d] = <<>>)
    <3>1. CASE d = e
      <4>1. Live(d)'
        BY <3>1 DEF SameEnv, Live
      <4> QED BY <1>3, <3>1, <4>1
    <3>2. CASE d # e
      BY <1>2, <3>2 DEF MaskInv, OneHandler, SameEnv, Live
    <3> QED BY <3>1, <3>2
  <2> QED BY <2>1 DEF OneHandler
<1>7. MaskedIffHandled'
  <2> SUFFICES ASSUME NEW d \in Env, NEW i \in Irq, Live(d)', owner'[i] = envs'[d].env_id
               PROVE  /\ prority'[i] = 0 <=> xstack'[d] # <<>>
                      /\ xstack'[d] # <<>> => xstack'[d][1].code = i
    BY DEF MaskedIffHandled
  <2>1. Live(d) /\ owner[i] = envs[d].env_id
    BY <1>1 DEF SameEnv, Live
  <2>2. PICK n \in 1 .. gen : envs[e].env_id = <<n, e>>
    BY DEF MaskInv, IdsIssued
  <2>3. PICK m \in 1 .. gen : envs[d].env_id = <<m, d>>
    BY <2>1 DEF MaskInv, IdsIssued
  <2>4. envs[e].env_id # NoId
    BY <2>2, GenIsNat DEF NoId
  <2>5. d = e => i = c
    BY <2>1, <2>4 DEF MaskInv, OneCode
  <2>6. i = c => d = e
    BY <2>1, <2>2, <2>3
  <2>7. CASE d = e
    BY <1>3, <1>4, <2>5, <2>7
  <2>8. CASE d # e
    BY <1>2, <1>4, <2>1, <2>6, <2>8 DEF MaskInv, MaskedIffHandled
  <2> QED BY <2>7, <2>8
<1> QED BY <1>5, <1>6, <1>7 DEF MaskInv

\* A call that creates and destroys nobody.
LEMMA CallSame ==
    ASSUME IInv, Running, NEW status, status # "FREE", NEW sys, NEW recving, NEW word,
           Becomes(curenv, status, sys, recving, word), \A d \in Env \ {curenv} : Keeps(d)
    PROVE  \A d \in Env : SameEnv(d)
<1>1. SameEnv(curenv)
  BY Caller DEF SameEnv, Becomes
<1> QED BY <1>1 DEF SameEnv, Keeps

\* The same, with a second environment that the call or the interrupt changes.
LEMMA PairSame ==
    ASSUME IInv, Running, NEW e \in Env, envs[e].env_status # "FREE",
           NEW status, status # "FREE", NEW sys, NEW recving, NEW word,
           Becomes(e, status, sys, recving, word),
           NEW sys1, NEW word1, Becomes(curenv, "RUNNABLE", sys1, 0, word1),
           \A d \in Env \ {curenv, e} : Keeps(d)
    PROVE  \A d \in Env : SameEnv(d)
<1>1. SameEnv(curenv) /\ SameEnv(e)
  BY Caller DEF SameEnv, Becomes
<1> QED BY <1>1 DEF SameEnv, Keeps

\* The calls that touch neither contexts nor codes keep the masks exact.
LEMMA CallsKeepMask ==
    ASSUME WellBehaved, IInv, IrqOK, MaskInv, UNCHANGED irqVars,
           \/ sys_yield \/ sys_sleep \/ do_clock
           \/ \E id \in EnvId, status \in Status : sys_set_env_status(id, status)
           \/ \E from \in Senders : sys_ipc_recv(from)
           \/ \E id \in EnvId : sys_ipc_try_send(id)
    PROVE  MaskInv'
<1>1. Running /\ gen' = gen
  BY DEF sys_yield, sys_sleep, do_clock, sys_set_env_status, sys_ipc_recv, sys_ipc_try_send, pools
<1>2. CASE sys_yield
  BY <1>1, <1>2, YieldEffect, CallSame, SameEnvsKeepMask, GenIsNat DEF CallReturns, irqVars
<1>3. CASE sys_sleep
  BY <1>1, <1>3, SleepEffect, CallSame, SameEnvsKeepMask, GenIsNat DEF irqVars
<1>4. CASE do_clock
  BY <1>1, <1>4, ClockEffect, CallSame, SameEnvsKeepMask, GenIsNat DEF irqVars
<1>5. ASSUME NEW from \in Senders, sys_ipc_recv(from) PROVE MaskInv'
  BY <1>1, <1>5, RecvEffect, CallSame, SameEnvsKeepMask, GenIsNat DEF CallReturns, irqVars
<1>6. ASSUME NEW id \in EnvId, sys_ipc_try_send(id) PROVE MaskInv'
  <2>1. CASE CallReturns
    BY <1>1, <2>1, CallSame, SameEnvsKeepMask, GenIsNat DEF CallReturns, irqVars
  <2>2. ASSUME NEW e \in Env \ {curenv}, BlockedInCall(e),
               Becomes(e, "RUNNABLE", 0, 0, regs[e]),
               Becomes(curenv, "RUNNABLE", 0, 0, "USER"),
               \A d \in Env \ {curenv, e} : Keeps(d)
        PROVE  MaskInv'
    <3>1. envs[e].env_status # "FREE"
      BY <2>2 DEF BlockedInCall
    <3>2. \A d \in Env : SameEnv(d)
      BY <1>1, <2>2, <3>1, PairSame
    <3> QED BY <1>1, <3>2, SameEnvsKeepMask, GenIsNat DEF irqVars
  <2> QED BY <1>6, <2>1, <2>2, SendEffect
<1>7. ASSUME NEW id \in EnvId, NEW status \in Status, sys_set_env_status(id, status)
      PROVE  MaskInv'
  <2>1. CASE CallReturns
    BY <1>1, <2>1, CallSame, SameEnvsKeepMask, GenIsNat DEF CallReturns, irqVars
  <2>2. CASE /\ status # "FREE" /\ Becomes(curenv, status, 1, 0, "SYS_set_env_status")
             /\ \A d \in Env \ {curenv} : Keeps(d)
    BY <1>1, <2>2, CallSame, SameEnvsKeepMask, GenIsNat DEF irqVars
  <2>3. ASSUME NEW e \in Env \ {curenv}, status # "FREE", envs[e].env_status # "FREE",
               Becomes(e, status, envs[e].env_in_syscall, envs[e].env_ipc_recving, regs[e]),
               Becomes(curenv, "RUNNABLE", 0, 0, "USER"),
               \A d \in Env \ {curenv, e} : Keeps(d)
        PROVE  MaskInv'
    <3>1. \A d \in Env : SameEnv(d)
      BY <1>1, <2>3, PairSame
    <3> QED BY <1>1, <3>1, SameEnvsKeepMask, GenIsNat DEF irqVars
  <2> QED BY <1>7, <2>1, <2>2, <2>3, SetStatusEffect
<1> QED BY <1>2, <1>3, <1>4, <1>5, <1>6, <1>7

\* A new environment has no code and no context.
LEMMA ForkKeepsMask ==
    ASSUME IInv, IrqOK, MaskInv, UNCHANGED irqVars, sys_exofork
    PROVE  MaskInv'
<1>1. Running
  BY DEF sys_exofork
<1>2. gen' \in {gen, gen + 1}
  BY DEF sys_exofork, AllocFails, NoAsidLeft, Allocates, pools
<1>3. CASE \A d \in Env \ {curenv} : Keeps(d)
  <2>1. \A d \in Env : SameEnv(d)
    BY <1>1, <1>3, ForkEffect, CallSame
  <2> QED BY <1>2, <2>1, SameEnvsKeepMask, GenIsNat DEF irqVars
<1>4. ASSUME NEW e \in Env \ {curenv}, Fresh(e) \/ Stillborn(e),
             \A d \in Env \ {curenv, e} : Keeps(d)
      PROVE  MaskInv'
  <2>1. \A d \in Env \ {e} : SameEnv(d)
    <3>1. SameEnv(curenv)
      BY <1>1, ForkEffect, Caller DEF SameEnv, Becomes
    <3> QED BY <1>4, <3>1 DEF SameEnv, Keeps
  <2> QED BY <1>2, <1>4, <2>1, FreshKeepsMask, GenIsNat DEF irqVars
<1> QED BY <1>3, <1>4, ForkEffect

\* sys_env_destroy frees contexts and leaves the controller alone.
LEMMA DestroyKeepsMask ==
    ASSUME WellBehaved, IInv, IrqOK, MaskInv, NEW id \in EnvId, sys_env_destroy(id),
           xstack' = [e \in Env |-> IF Freed(e) THEN <<>> ELSE xstack[e]],
           UNCHANGED <<interrupt_code_to_envid, prority, claimed>>
    PROVE  MaskInv'
<1>1. Running /\ gen' = gen
  <2>1. env_free(SlotOf(id)) \/ UNCHANGED pools
    BY DEF sys_env_destroy
  <2> QED BY <2>1 DEF sys_env_destroy, env_free, pools
<1>2. CASE CallReturns
  <2>1. \A d \in Env : SameEnv(d)
    BY <1>1, <1>2, CallSame DEF CallReturns
  <2>2. \A d \in Env : ~Freed(d)
    BY <2>1 DEF SameEnv, Freed, Live
  <2>3. xstack' = xstack
    BY <2>2 DEF IrqOK
  <2> QED BY <1>1, <2>1, <2>3, SameEnvsKeepMask, GenIsNat
<1>3. ASSUME NEW e \in Env, Gone(e), e # curenv => Becomes(curenv, "RUNNABLE", 0, 0, "USER"),
             \A d \in Env \ {curenv, e} : Keeps(d)
      PROVE  MaskInv'
  <2>1. \A d \in Env \ {e} : SameEnv(d)
    <3>1. curenv # e => SameEnv(curenv)
      BY <1>1, <1>3, Caller DEF SameEnv, Becomes
    <3> QED BY <1>3, <3>1 DEF SameEnv, Keeps
  <2>2. Freed(e) /\ \A d \in Env \ {e} : ~Freed(d)
    BY <1>3, <2>1 DEF SameEnv, Freed, Live, Gone
  <2>3. xstack' = [d \in Env |-> IF d \in {e} THEN <<>> ELSE xstack[d]]
    BY <2>2
  <2>4. envs'[e].env_status = "FREE"
    BY <1>3 DEF Gone
  <2> QED BY <1>1, <2>1, <2>3, <2>4, GoneKeepsMask, GenIsNat
<1> QED BY <1>2, <1>3, DestroyEffect

\* One step per action: the masks stay exact.
LEMMA NextKeepsMaskInv ==
    ASSUME WellBehaved, {"two_codes", "in_handler"} \cap Usage = {}, IInv, IrqOK, MaskInv, [IrqNext]_vars
    PROVE  MaskInv'
<1>1. CASE UNCHANGED vars
  <2>1. UNCHANGED <<envs, gen, interrupt_code_to_envid, prority, xstack>>
    BY <1>1 DEF vars, envVars, irqVars
  <2> QED BY <2>1, SameEnvsKeepMask, GenIsNat DEF SameEnv
<1>2. ASSUME NEW pri \in Pri, env_create(pri), UNCHANGED irqVars PROVE MaskInv'
  <2>1. PICK e \in Env : Fresh(e) /\ \A d \in Env \ {e} : Keeps(d)
    BY <1>2, CreateEffect
  <2>2. \A d \in Env \ {e} : SameEnv(d)
    BY <2>1 DEF SameEnv, Keeps
  <2>3. gen' = gen + 1
    BY <2>1 DEF Fresh
  <2> QED BY <1>2, <2>1, <2>2, <2>3, FreshKeepsMask, GenIsNat DEF irqVars
<1>3. CASE start_schedule /\ UNCHANGED irqVars
  <2>1. \A d \in Env : SameEnv(d)
    BY <1>3, StartEffect DEF SameEnv, Keeps
  <2>2. gen' = gen
    BY <1>3 DEF start_schedule, pools
  <2> QED BY <1>3, <2>1, <2>2, SameEnvsKeepMask, GenIsNat DEF irqVars
<1>4. CASE /\ \/ sys_yield \/ sys_sleep \/ do_clock
              \/ \E id \in EnvId, status \in Status : sys_set_env_status(id, status)
              \/ \E from \in Senders : sys_ipc_recv(from)
              \/ \E id \in EnvId : sys_ipc_try_send(id)
           /\ UNCHANGED irqVars
  BY <1>4, CallsKeepMask
<1>5. CASE sys_exofork /\ UNCHANGED irqVars
  BY <1>5, ForkKeepsMask
<1>6. ASSUME NEW id \in EnvId, sys_env_destroy(id),
             xstack' = [e \in Env |-> IF Freed(e) THEN <<>> ELSE xstack[e]],
             UNCHANGED <<interrupt_code_to_envid, prority, claimed>>
      PROVE  MaskInv'
  BY <1>6, DestroyKeepsMask
<1>7. ASSUME NEW c \in Irq, sys_set_interrupt_handler(c) PROVE MaskInv'
  <2>1. Running
    BY <1>7 DEF sys_set_interrupt_handler
  <2>2. \A d \in Env : SameEnv(d)
    BY <1>7, <2>1, HandlerSetEffect, CallSame DEF CallReturns
  <2> QED BY <1>7, <2>2, HandlerSetKeepsMask
<1>8. ASSUME NEW c \in Irq, interrupt_without_owner(c) PROVE MaskInv'
  <2>1. UNCHANGED <<envs, gen, interrupt_code_to_envid, prority, xstack>>
    BY <1>8 DEF interrupt_without_owner, envVars
  <2> QED BY <2>1, SameEnvsKeepMask, GenIsNat DEF SameEnv
<1>9. ASSUME NEW c \in Irq, interrupt_current(c) PROVE MaskInv'
  <2>1. /\ Running /\ prority[c] = 1 /\ owner[c] # NoId /\ Valid(owner[c])
        /\ SlotOf(owner[c]) = curenv /\ prority' = [prority EXCEPT ![c] = 0]
        /\ UNCHANGED interrupt_code_to_envid /\ UNCHANGED envs /\ gen' = gen
    BY <1>9 DEF interrupt_current, Delivered, owner, pools
  <2>2. PICK word : xstack' = Push(curenv, word, c)
    BY <1>9 DEF interrupt_current
  <2>3. curenv \in Env /\ Live(curenv) /\ owner[c] = envs[curenv].env_id
    BY <2>1, Caller DEF SlotOf, Valid, Live
  <2>4. \A d \in Env : SameEnv(d)
    BY <2>1 DEF SameEnv
  <2>5. PICK e : e = curenv
    OBVIOUS
  <2> QED BY <2>1, <2>2, <2>3, <2>4, <2>5, DivertKeepsMask
<1>10. ASSUME NEW c \in Irq, interrupt_other(c) PROVE MaskInv'
  <2>1. Running /\ prority[c] = 1 /\ gen' = gen
    BY <1>10 DEF interrupt_other, Delivered, pools
  <2>2. PICK e \in Env \ {curenv}, word \in {a0, "USER"} : Diverted(e, c, word)
    BY <1>10, DivertOtherEffect
  <2>3. \A d \in Env : SameEnv(d)
    <3>1. /\ Becomes(e, "RUNNABLE", IF BlockedInCall(e) THEN 0 ELSE envs[e].env_in_syscall, 0, "USER")
          /\ Becomes(curenv, "RUNNABLE", envs[curenv].env_in_syscall, 0, word)
          /\ \A d \in Env \ {curenv, e} : Keeps(d) /\ envs[e].env_status # "FREE"
      BY <2>2 DEF Diverted
    <3>2. SameEnv(e) /\ SameEnv(curenv)
      BY <2>1, <2>2, <3>1, Caller DEF SameEnv, Becomes, Diverted
    <3> QED BY <3>1, <3>2 DEF SameEnv, Keeps
  <2>4. /\ Live(e) /\ owner[c] = envs[e].env_id
        /\ xstack' = Push(e, IF BlockedInCall(e) THEN "E_INTR" ELSE regs[e], c)
        /\ prority' = [prority EXCEPT ![c] = 0] /\ UNCHANGED interrupt_code_to_envid
    BY <2>2 DEF Diverted, Live, owner
  <2> QED BY <2>1, <2>3, <2>4, DivertKeepsMask
<1>11. CASE sys_interrupt_return
  <2>1. Running /\ gen' = gen
    BY <1>11 DEF sys_interrupt_return, pools
  <2>2. \A d \in Env : SameEnv(d)
    BY <1>11, <2>1, HandlerEndEffect, CallSame DEF CallReturns
  <2> QED BY <1>11, <2>1, <2>2, HandlerEndEffect, HandlerEndKeepsMask, SameEnvsKeepMask, GenIsNat
          DEF irqVars
<1> QED BY <1>1, <1>2, <1>3, <1>4, <1>5, <1>6, <1>7, <1>8, <1>9, <1>10, <1>11 DEF IrqNext

\* At start no code is registered and none is masked.
LEMMA MaskInvInit == ASSUME IrqInit PROVE MaskInv
BY DEF IrqInit, Init, MaskInv, IdsIssued, OneCode, OneHandler, MaskedIffHandled, Live, owner

\* The property the runs check follows from the invariant.
LEMMA MaskInvImplies == ASSUME IrqOK, MaskInv PROVE MaskingExact
<1>1. HandlerNotReentered
  <2> SUFFICES ASSUME NEW e \in Env, NEW i \in 1 .. Len(xstack[e]), NEW j \in 1 .. Len(xstack[e])
               PROVE  i = j
    BY DEF HandlerNotReentered
  <2>1. Len(xstack[e]) \in Nat /\ Len(xstack[e]) <= 1
    BY DEF IrqOK, MaskInv, OneHandler
  <2> QED BY <2>1
<1>2. MaskedOnlyWhileHandled
  <2> SUFFICES ASSUME NEW c \in Irq, owner[c] # NoId, Valid(owner[c]), prority[c] = 0
               PROVE  \E i \in 1 .. Len(xstack[owner[c][2]]) : xstack[owner[c][2]][i].code = c
    BY DEF MaskedOnlyWhileHandled, owner
  <2> DEFINE e == owner[c][2]
  <2>1. e \in Env
    BY DEF IrqOK, EnvId, owner
  <2>2. Live(e) /\ owner[c] = envs[e].env_id
    BY DEF Valid
  <2>3. xstack[e] # <<>> /\ xstack[e][1].code = c /\ xstack[e] \in Seq(Frame)
    BY <2>1, <2>2 DEF MaskInv, MaskedIffHandled, IrqOK
  <2>4. 1 \in 1 .. Len(xstack[e])
    BY <2>3
  <2> QED BY <2>3, <2>4
<1> QED BY <1>1, <1>2 DEF MaskingExact

\* README.md:338 and 347: with one code for each program, registered outside its
\* handler, a code is masked exactly while it is handled, whoever registers, takes
\* over a code, exits or is created in the slot of a former owner meanwhile.
THEOREM MaskingCorrect ==
    ASSUME WellBehaved, {"two_codes", "in_handler"} \cap Usage = {}
    PROVE  IrqSpec => []MaskingExact
<1>1. IrqInit => IInv /\ IrqOK /\ MaskInv
  BY IrqInitInvariants, MaskInvInit
<1>2. IInv /\ IrqOK /\ MaskInv /\ [IrqNext]_vars => (IInv /\ IrqOK /\ MaskInv)'
  BY IrqNextKeeps, NextKeepsMaskInv
<1>3. IInv /\ IrqOK /\ MaskInv => MaskingExact
  BY MaskInvImplies
<1> QED BY <1>1, <1>2, <1>3, PTL DEF IrqSpec

-----------------------------------------------------------------------------
(* Who is diverted, and with which registers.                               *)

\* Exception stacks grow in two ways only.
LEMMA StackGrows ==
    ASSUME IInv, IrqOK, [IrqNext]_vars, NEW e \in Env, Len(xstack'[e]) > Len(xstack[e])
    PROVE  \E c \in Irq : \E word :
             /\ xstack'[e][Len(xstack'[e])] = [a0 |-> word, code |-> c]
             /\ owner[c] = envs[e].env_id
             /\ halted = "no" /\ e # curenv => word = IF BlockedInCall(e) THEN "E_INTR" ELSE regs[e]
<1>1. xstack[e] \in Seq(Frame) /\ Len(xstack[e]) \in Nat
  BY DEF IrqOK
<1>2. xstack' # xstack
  BY <1>1
<1>3. ASSUME NEW c \in Irq, NEW d \in Env, NEW word, xstack' = Push(d, word, c)
      PROVE  e = d /\ xstack'[e][Len(xstack'[e])] = [a0 |-> word, code |-> c]
  <2>1. \A x \in Env : xstack'[x] = IF x = d THEN Append(xstack[d], [a0 |-> word, code |-> c])
                                             ELSE xstack[x]
    BY <1>3 DEF Push, IrqOK
  <2>2. e = d
    BY <1>1, <2>1
  <2>3. xstack'[e] = Append(xstack[e], [a0 |-> word, code |-> c])
    BY <2>1, <2>2
  <2> HIDE DEF Push
  <2> QED BY <1>1, <2>2, <2>3
<1>4. ASSUME NEW c \in Irq, interrupt_current(c)
      PROVE  \E word : /\ xstack'[e][Len(xstack'[e])] = [a0 |-> word, code |-> c]
                       /\ owner[c] = envs[e].env_id /\ e = curenv
  <2>1. PICK word : xstack' = Push(curenv, word, c)
    BY <1>4 DEF interrupt_current
  <2>2. Running /\ owner[c] # NoId /\ Valid(owner[c]) /\ SlotOf(owner[c]) = curenv
    BY <1>4 DEF interrupt_current, Delivered, owner
  <2>3. curenv \in Env /\ owner[c] = envs[curenv].env_id
    BY <2>2, Caller DEF SlotOf, Valid
  <2> QED BY <1>3, <2>1, <2>3
<1>5. ASSUME NEW c \in Irq, interrupt_other(c)
      PROVE  /\ xstack'[e][Len(xstack'[e])] =
                  [a0 |-> IF BlockedInCall(e) THEN "E_INTR" ELSE regs[e], code |-> c]
             /\ owner[c] = envs[e].env_id
  <2>1. PICK d \in Env \ {curenv}, word \in {a0, "USER"} : Diverted(d, c, word)
    BY <1>5, DivertOtherEffect
  <2>2. /\ xstack' = Push(d, IF BlockedInCall(d) THEN "E_INTR" ELSE regs[d], c)
        /\ owner[c] = envs[d].env_id
    BY <2>1 DEF Diverted, owner
  <2> QED BY <1>3, <2>2
<1>6. ASSUME xstack' = [d \in Env |-> IF Freed(d) THEN <<>> ELSE xstack[d]] PROVE FALSE
  BY <1>1, <1>6
<1>7. ASSUME sys_interrupt_return PROVE FALSE
  <2>1. Running
    BY <1>7 DEF sys_interrupt_return
  <2>2. xstack' = [xstack EXCEPT ![curenv] = SubSeq(@, 1, Len(@) - 1)]
    BY <1>2, <1>7, HandlerEndEffect DEF irqVars
  <2>3. curenv \in Env /\ xstack[curenv] \in Seq(Frame)
    BY <2>1, Caller DEF IrqOK
  <2>4. e = curenv
    BY <1>1, <2>2 DEF IrqOK
  <2>5. Len(SubSeq(xstack[curenv], 1, Len(xstack[curenv]) - 1)) <= Len(xstack[curenv])
    BY <2>3
  <2> QED BY <1>1, <2>2, <2>3, <2>4, <2>5 DEF IrqOK
<1>8. \E c \in Irq : interrupt_current(c) \/ interrupt_other(c)
  BY <1>2, <1>6, <1>7 DEF IrqNext, vars, irqVars, sys_set_interrupt_handler,
                          interrupt_without_owner
<1> QED BY <1>4, <1>5, <1>8

\* kern/env.c:188-199: only the environment that registered for a code is diverted to
\* a handler for it, never one that got the slot after it.
THEOREM DivertedOwnsCodeCorrect ==
    ASSUME WellBehaved
    PROVE  IrqSpec => DivertedOwnsCode
<1>1. IrqInit => IInv /\ IrqOK
  BY IrqInitInvariants
<1>2. IInv /\ IrqOK /\ [IrqNext]_vars => (IInv /\ IrqOK)'
  BY IrqNextKeeps
<1>3. ASSUME IInv, IrqOK, [IrqNext]_vars
      PROVE  [\A e \in Env : Len(xstack'[e]) > Len(xstack[e]) =>
                interrupt_code_to_envid[xstack'[e][Len(xstack'[e])].code] = envs[e].env_id]_vars
  <2> SUFFICES ASSUME NEW e \in Env, Len(xstack'[e]) > Len(xstack[e])
               PROVE  interrupt_code_to_envid[xstack'[e][Len(xstack'[e])].code] = envs[e].env_id
    OBVIOUS
  <2>1. PICK c \in Irq : \E word : /\ xstack'[e][Len(xstack'[e])] = [a0 |-> word, code |-> c]
                                   /\ owner[c] = envs[e].env_id
    BY <1>3, StackGrows
  <2> QED BY <2>1 DEF owner
<1> QED BY <1>1, <1>2, <1>3, PTL DEF IrqSpec, DivertedOwnsCode

\* An environment that is marked as being in a call is blocked in it, and its regs[10]
\* is no value of the program.
MarkedInCall ==
    halted = "no" => \A e \in Env :
        envs[e].env_in_syscall = 1 /\ envs[e].env_status # "FREE" =>
            envs[e].env_status = "NOT_RUNNABLE" /\ regs[e] # "USER"

MarkAfter(e) == envs'[e].env_in_syscall = 1 /\ envs'[e].env_status # "FREE" =>
                    envs'[e].env_status = "NOT_RUNNABLE" /\ regs'[e] # "USER"

\* Those whom a step does not touch keep their marks.
LEMMA KeptMarks ==
    ASSUME MarkedInCall, halted = "no", halted' = "no", NEW d \in Env, Keeps(d)
    PROVE  MarkAfter(d)
BY DEF MarkedInCall, MarkAfter, Keeps

\* One step per action: an environment marked as being in a call is blocked in it.
LEMMA NextKeepsMarks ==
    ASSUME WellBehaved, "status_self" \notin Usage, "wake_caller" \notin Usage,
           IInv, IrqOK, MarkedInCall, IrqNext, halted' = "no"
    PROVE  \A d \in Env : MarkAfter(d)
<1>1. halted = "no"
  BY DEF IrqNext, env_create, start_schedule, do_clock, sys_yield, sys_sleep, sys_exofork,
         sys_set_env_status, sys_env_destroy, sys_ipc_recv, sys_ipc_try_send,
         sys_set_interrupt_handler, interrupt_without_owner, interrupt_current, interrupt_other,
         sys_interrupt_return, Delivered, Running, Booting
<1>2. ASSUME Running PROVE envs[curenv].env_in_syscall = 0 /\ curenv \in Env
  <2>1. curenv \in Env /\ envs[curenv].env_status = "RUNNABLE" /\ envs[curenv] \in EnvRecord
    BY <1>2, Caller
  <2> QED BY <1>1, <2>1 DEF MarkedInCall, EnvRecord
<1>3. ASSUME CallReturns, Running PROVE \A d \in Env : MarkAfter(d)
  <2>1. MarkAfter(curenv)
    BY <1>3 DEF CallReturns, Becomes, MarkAfter
  <2> QED BY <1>1, <1>3, <2>1, KeptMarks DEF CallReturns
<1>4. ASSUME NEW status, NEW sys, NEW recving, NEW word, Running,
             Becomes(curenv, status, sys, recving, word),
             sys = 0 \/ (status = "NOT_RUNNABLE" /\ word # "USER"),
             \A d \in Env \ {curenv} : Keeps(d)
      PROVE  \A d \in Env : MarkAfter(d)
  <2>1. MarkAfter(curenv)
    BY <1>4 DEF Becomes, MarkAfter
  <2> QED BY <1>1, <1>4, <2>1, KeptMarks
<1>5. ASSUME NEW pri \in Pri, env_create(pri) PROVE \A d \in Env : MarkAfter(d)
  <2>1. PICK e \in Env : Fresh(e) /\ \A d \in Env \ {e} : Keeps(d)
    BY <1>5, CreateEffect
  <2>2. MarkAfter(e)
    BY <2>1 DEF Fresh, MarkAfter
  <2> QED BY <1>1, <2>1, <2>2, KeptMarks
<1>6. CASE start_schedule
  BY <1>1, <1>6, StartEffect, KeptMarks
<1>7. CASE do_clock
  <2>1. Running
    BY <1>7 DEF do_clock
  <2> QED BY <1>2, <1>4, <1>7, <2>1, ClockEffect
<1>8. CASE sys_yield
  BY <1>3, <1>8, YieldEffect DEF sys_yield
<1>9. CASE sys_sleep
  BY <1>4, <1>9, SleepEffect DEF sys_sleep
<1>10. CASE sys_exofork
  <2>1. Running
    BY <1>10 DEF sys_exofork
  <2>2. MarkAfter(curenv)
    BY <1>10, ForkEffect DEF Becomes, MarkAfter
  <2>3. \A e \in Env : Fresh(e) \/ Stillborn(e) => MarkAfter(e)
    BY DEF Fresh, Stillborn, MarkAfter
  <2> QED BY <1>1, <1>10, <2>2, <2>3, ForkEffect, KeptMarks
<1>11. ASSUME NEW id \in EnvId, NEW status \in Status, sys_set_env_status(id, status)
       PROVE  \A d \in Env : MarkAfter(d)
  <2>1. Running
    BY <1>11 DEF sys_set_env_status
  <2>2. ASSUME NEW e \in Env \ {curenv}, envs[e].env_status # "FREE",
               Becomes(e, status, envs[e].env_in_syscall, envs[e].env_ipc_recving, regs[e]),
               ~(status = "RUNNABLE" /\ BlockedInCall(e)), status # "FREE",
               Becomes(curenv, "RUNNABLE", 0, 0, "USER"),
               \A d \in Env \ {curenv, e} : Keeps(d)
        PROVE  \A d \in Env : MarkAfter(d)
    <3>1. MarkAfter(e)
      BY <1>1, <2>2 DEF MarkedInCall, MarkAfter, Becomes, BlockedInCall, Status
    <3>2. MarkAfter(curenv)
      BY <2>2 DEF Becomes, MarkAfter
    <3> QED BY <1>1, <2>2, <3>1, <3>2, KeptMarks
  <2> QED BY <1>3, <1>11, <2>1, <2>2, SetStatusEffect
<1>12. ASSUME NEW id \in EnvId, sys_env_destroy(id) PROVE \A d \in Env : MarkAfter(d)
  <2>1. Running
    BY <1>12 DEF sys_env_destroy
  <2>2. \A e \in Env : Gone(e) => MarkAfter(e)
    BY DEF Gone, MarkAfter
  <2>3. Becomes(curenv, "RUNNABLE", 0, 0, "USER") => MarkAfter(curenv)
    BY DEF Becomes, MarkAfter
  <2> QED BY <1>1, <1>3, <1>12, <2>1, <2>2, <2>3, DestroyEffect, KeptMarks
<1>13. ASSUME NEW from \in Senders, sys_ipc_recv(from) PROVE \A d \in Env : MarkAfter(d)
  BY <1>3, <1>4, <1>13, RecvEffect DEF sys_ipc_recv
<1>14. ASSUME NEW id \in EnvId, sys_ipc_try_send(id) PROVE \A d \in Env : MarkAfter(d)
  <2>1. Running
    BY <1>14 DEF sys_ipc_try_send
  <2>2. ASSUME NEW e \in Env \ {curenv}, Becomes(e, "RUNNABLE", 0, 0, regs[e]),
               Becomes(curenv, "RUNNABLE", 0, 0, "USER"),
               \A d \in Env \ {curenv, e} : Keeps(d)
        PROVE  \A d \in Env : MarkAfter(d)
    <3>1. MarkAfter(e) /\ MarkAfter(curenv)
      BY <2>2 DEF Becomes, MarkAfter
    <3> QED BY <1>1, <2>2, <3>1, KeptMarks
  <2> QED BY <1>3, <1>14, <2>1, <2>2, SendEffect
<1>15. ASSUME NEW c \in Irq, sys_set_interrupt_handler(c) PROVE \A d \in Env : MarkAfter(d)
  BY <1>3, <1>15, HandlerSetEffect DEF sys_set_interrupt_handler
<1>16. ASSUME NEW c \in Irq, interrupt_without_owner(c) PROVE \A d \in Env : MarkAfter(d)
  <2>1. UNCHANGED <<envs, curenv, a0>>
    BY <1>16 DEF interrupt_without_owner, envVars
  <2> QED BY <1>1, <2>1 DEF MarkedInCall, MarkAfter, regs
<1>17. ASSUME NEW c \in Irq, interrupt_current(c) PROVE \A d \in Env : MarkAfter(d)
  <2>1. Running
    BY <1>17 DEF interrupt_current, Delivered
  <2> QED BY <1>2, <1>4, <1>17, <2>1, DivertCurrentEffect
<1>18. ASSUME NEW c \in Irq, interrupt_other(c) PROVE \A d \in Env : MarkAfter(d)
  <2>1. Running
    BY <1>18 DEF interrupt_other, Delivered
  <2>2. PICK e \in Env \ {curenv}, word \in {a0, "USER"} : Diverted(e, c, word)
    BY <1>18, DivertOtherEffect
  <2>3. /\ envs'[e].env_in_syscall = IF BlockedInCall(e) THEN 0 ELSE envs[e].env_in_syscall
        /\ envs'[curenv].env_in_syscall = envs[curenv].env_in_syscall
        /\ envs[e].env_status # "FREE" /\ \A d \in Env \ {curenv, e} : Keeps(d)
    BY <2>2 DEF Diverted, Becomes
  <2>4. MarkAfter(e)
    BY <1>1, <2>3 DEF MarkedInCall, MarkAfter, BlockedInCall
  <2>5. MarkAfter(curenv)
    BY <1>2, <2>1, <2>3 DEF MarkAfter
  <2> QED BY <1>1, <2>3, <2>4, <2>5, KeptMarks
<1>19. CASE sys_interrupt_return
  <2>1. Running
    BY <1>19 DEF sys_interrupt_return
  <2> QED BY <1>3, <1>4, <1>19, <2>1, HandlerEndEffect
<1> QED BY <1>5, <1>6, <1>7, <1>8, <1>9, <1>10, <1>11, <1>12, <1>13, <1>14, <1>15, <1>16, <1>17,
           <1>18, <1>19 DEF IrqNext

\* README.md:341: an environment that was stopped outside a blocking call gets its
\* registers back as they were; -E_INTR goes to interrupted calls only.
THEOREM PreemptedKeepsRegistersCorrect ==
    ASSUME WellBehaved, "status_self" \notin Usage, "wake_caller" \notin Usage
    PROVE  IrqSpec => PreemptedKeepsRegisters
<1>1. IrqInit => IInv /\ IrqOK /\ MarkedInCall
  <2>1. IrqInit => MarkedInCall
    BY DEF IrqInit, Init, MarkedInCall
  <2> QED BY <2>1, IrqInitInvariants
<1>2. IInv /\ IrqOK /\ MarkedInCall /\ [IrqNext]_vars => (IInv /\ IrqOK /\ MarkedInCall)'
  <2> SUFFICES ASSUME IInv, IrqOK, MarkedInCall, [IrqNext]_vars PROVE (IInv /\ IrqOK /\ MarkedInCall)'
    OBVIOUS
  <2>1. CASE UNCHANGED vars
    <3>1. UNCHANGED <<envs, curenv, a0, halted>>
      BY <2>1 DEF vars, envVars
    <3>2. MarkedInCall'
      BY <3>1 DEF MarkedInCall, regs
    <3> QED BY <3>2, IrqNextKeeps
  <2>2. CASE IrqNext
    <3>1. halted' = "no" => \A d \in Env : MarkAfter(d)
      BY <2>2, NextKeepsMarks
    <3>2. MarkedInCall'
      BY <3>1 DEF MarkedInCall, MarkAfter
    <3> QED BY <3>2, IrqNextKeeps
  <2> QED BY <2>1, <2>2
<1>3. ASSUME IInv, IrqOK, MarkedInCall, [IrqNext]_vars
      PROVE  [\A e \in Env : /\ Len(xstack'[e]) > Len(xstack[e])
                             /\ e # curenv /\ envs[e].env_a0 = "USER"
                             => xstack'[e][Len(xstack'[e])].a0 = "USER"]_vars
  <2> SUFFICES ASSUME NEW e \in Env, Len(xstack'[e]) > Len(xstack[e]), e # curenv,
                      envs[e].env_a0 = "USER"
               PROVE  xstack'[e][Len(xstack'[e])].a0 = "USER"
    OBVIOUS
  <2>1. halted = "no"
    <3>1. xstack' # xstack
      BY DEF IrqOK
    <3> QED BY <1>3, <3>1 DEF IrqNext, vars, irqVars, sys_env_destroy, sys_set_interrupt_handler,
               interrupt_without_owner, interrupt_current, interrupt_other, sys_interrupt_return,
               Delivered, Running
  <2>2. regs[e] = "USER"
    BY DEF regs
  <2>3. ~BlockedInCall(e)
    BY <1>3, <2>1, <2>2 DEF MarkedInCall, BlockedInCall
  <2>4. PICK c \in Irq : \E word :
          /\ xstack'[e][Len(xstack'[e])] = [a0 |-> word, code |-> c]
          /\ word = IF BlockedInCall(e) THEN "E_INTR" ELSE regs[e]
    BY <1>3, <2>1, StackGrows
  <2> QED BY <2>2, <2>3, <2>4
<1> QED BY <1>1, <1>2, <1>3, PTL DEF IrqSpec, PreemptedKeepsRegisters
=============================================================================
