-------------------------------- MODULE Ipc --------------------------------
(***************************************************************************)
(* Inter-process communication: sys_ipc_recv and sys_ipc_try_send of       *)
(* kern/syscall_all.c on top of the environments and the scheduler.  A     *)
(* receiver blocks; a sender never does: it fails when the target is not   *)
(* waiting for it, and otherwise stores the message in the target's        *)
(* control block and makes it runnable.                                    *)
(***************************************************************************)
EXTENDS Env

\* The senders a program waits for: anyone, or an envid found in a slot.
Senders == {NoId} \cup {envs[e].env_id : e \in Env}

\* sys_ipc_recv never returns: the result 0 is put in the caller's frame, and
\* the caller stays marked as being in a system call.  An illegal dstva is
\* refused.
sys_ipc_recv(from) ==
    /\ Running
    /\ UNCHANGED pools
    /\ \/ /\ Return(Entered)
          /\ UNCHANGED env_sched_list
       \/ schedule(TRUE, curenv,
                   [Entered EXCEPT ![curenv].env_ipc_recving = 1,
                                   ![curenv].env_ipc_recv_from = from,
                                   ![curenv].env_status = "NOT_RUNNABLE"],
                   TAILQ_REMOVE(env_sched_list, curenv), "OK")

\* Mutant: whether the target is waiting is not asked.
CanReceive_NotWaiting(e) == envs[e].env_ipc_recv_from \in {NoId, envs[curenv].env_id}

\* The target is waiting, and for this sender.
CanReceive(e) ==
    /\ envs[e].env_ipc_recving = 1
    /\ envs[e].env_ipc_recv_from \in {NoId, envs[curenv].env_id}

\* The message itself - value, sender, page - goes to the target's control block
\* and page table.  A page that cannot be mapped makes the call fail after the
\* wake-up, which for the environments is the same step.
sys_ipc_try_send(id) ==
    /\ Running
    /\ UNCHANGED pools
    /\ \/ /\ ~Valid(id) \/ ~CanReceive(SlotOf(id))
          /\ Return(Entered)
          /\ UNCHANGED env_sched_list
       \/ /\ Valid(id) /\ CanReceive(SlotOf(id))
          /\ LET e == SlotOf(id)
             IN  /\ Return([Entered EXCEPT ![e].env_ipc_recving = 0,
                                           ![e].env_status = "RUNNABLE",
                                           ![e].env_in_syscall = 0])
                 /\ env_sched_list' = TAILQ_INSERT_TAIL(env_sched_list, e)

IpcNext ==
    \/ EnvNext
    \/ \E from \in Senders : sys_ipc_recv(from)
    \/ \E id \in EnvId : sys_ipc_try_send(id)

\* env_pop_tf arms the timer whenever it resumes an environment and nothing else
\* rearms it, so that the running environment is sooner or later interrupted
\* unless it gives up the CPU itself before: schedule is called again and again.
Reschedule == do_clock \/ sys_yield \/ (IpcNext /\ curenv' # curenv)

\* main in init.c calls schedule(0) in the end.
IpcFairness == WF_envVars(Reschedule) /\ WF_envVars(start_schedule)

IpcSpec == Init /\ [][IpcNext]_envVars /\ IpcFairness

-----------------------------------------------------------------------------
(* Properties.                                                              *)

\* An environment that is waiting for a message is blocked in its system call.
\* sys_ipc_try_send queues its target without looking at its status, and an
\* interrupt cancels the wait only of an environment marked as in a call: both
\* rely on this.
ReceiverBlocked ==
    \A e \in Env : envs[e].env_ipc_recving = 1 => BlockedInCall(e)

\* Round robin (schedule, sched.c): a runnable environment is run.  Under fair ticks, and
\* without interrupts and fork: an environment that forks at every turn puts a new one
\* in front of those that wait, for as long as there are free blocks.
RunnableEventuallyRuns ==
    \A e \in Env : e \in Runnable ~> (curenv = e \/ e \notin Runnable)
=============================================================================
