---------------------------- MODULE EnvInterrupt ----------------------------
(***************************************************************************)
(* User-level interrupts: kern/env_interrupt.c with the PLIC driver it     *)
(* uses (kern/plic.c) and the two system calls for it.  An external        *)
(* interrupt is delivered to the environment registered for it, like a     *)
(* signal: its frame is pushed on its exception stack and its handler      *)
(* runs, even if the environment was blocked in a system call, which then  *)
(* ends with -E_INTR.  The code is masked until the handler returns.       *)
(***************************************************************************)
EXTENDS Ipc

CONSTANT Irq    \* the interrupt codes of devices, a set of positive integers

ASSUME IrqAssumption == Irq \subseteq Nat \ {0} /\ IsFiniteSet(Irq)

VARIABLES
    interrupt_code_to_envid,
    prority,    \* the PLIC's priority register of each code; 0 masks it
    claimed,    \* codes read from the PLIC's claim register and not completed
    xstack,     \* exception stack of each environment, the newest frame last
    outcome     \* how the environment's last sys_ipc_recv stands, see below

irqVars == <<interrupt_code_to_envid, prority, claimed, xstack>>
vars == <<envVars, irqVars, outcome>>

\* A frame on the exception stack, and the code it was pushed for.
Frame == [a0 : Word, code : Irq]

\* outcome is a history variable: whether the environment is waiting, was given
\* a message, or was interrupted; and on which level of its exception stack the
\* code runs that called sys_ipc_recv.
NoCall == [end |-> "none", level |-> 0]
Outcome == [end : {"none", "waiting", "message", "interrupt"}, level : Nat]

IrqInit ==
    /\ Init
    /\ interrupt_code_to_envid = [c \in Irq |-> NoId]
    /\ prority = [c \in Irq |-> 0]
    /\ claimed = {}
    /\ xstack = [e \in Env |-> <<>>]
    /\ outcome = [e \in Env |-> NoCall]

-----------------------------------------------------------------------------
(* The system calls.                                                        *)

\* The program that called sys_ipc_recv goes on once it runs, on the level of
\* the call, and makes another call: the outcome is then history.
Forget == IF outcome[curenv].level = Len(xstack[curenv])
          THEN [outcome EXCEPT ![curenv] = NoCall] ELSE outcome

\* The same when an interrupt finds regs[10] changed.
ForgetIf(word) == IF word = a0 THEN outcome ELSE Forget

\* register_env_interrupt and plic_enable_interrupt.  A driver registers from its
\* main program (unless in_handler is used) and for one code (unless two_codes is).
CodesOf(id) == {c \in Irq : interrupt_code_to_envid[c] = id}

sys_set_interrupt_handler(c) ==
    /\ Running
    /\ xstack[curenv] = <<>> \/ "in_handler" \in Usage
    /\ CodesOf(envs[curenv].env_id) \subseteq {c} \/ "two_codes" \in Usage
    /\ Return(Entered)
    /\ UNCHANGED <<pools, env_sched_list>>
    /\ interrupt_code_to_envid' = [interrupt_code_to_envid EXCEPT ![c] = envs[curenv].env_id]
    /\ prority' = [prority EXCEPT ![c] = 1]
    /\ outcome' = Forget
    /\ UNCHANGED <<claimed, xstack>>

\* Mutant: the code stays masked.
Unmask_Never(id) == prority

\* ret_env_interrupt unmasks the first code registered for the environment.
Unmask(id) == [c \in Irq |-> IF c \in CodesOf(id) /\ \A d \in CodesOf(id) : c <= d
                             THEN 1 ELSE prority[c]]

\* The result of the call is the restored regs[10].  Off the exception stack
\* the call does nothing.
sys_interrupt_return ==
    /\ Running
    /\ LET stack == xstack[curenv]
       IN  \/ /\ stack = <<>>
              /\ Return(Entered)
              /\ UNCHANGED irqVars
           \/ /\ stack # <<>>
              /\ envs' = [envs EXCEPT ![curenv].env_in_syscall = 0]
              /\ a0' = stack[Len(stack)].a0
              /\ xstack' = [xstack EXCEPT ![curenv] = SubSeq(stack, 1, Len(stack) - 1)]
              /\ prority' = Unmask(envs[curenv].env_id)
              /\ UNCHANGED <<curenv, count, halted, interrupt_code_to_envid, claimed>>
    /\ outcome' = Forget
    /\ UNCHANGED <<pools, env_sched_list>>

-----------------------------------------------------------------------------
(* An external interrupt arrives while an environment is in user mode.      *)

\* The PLIC delivers an enabled, unmasked code that is not being handled.
Delivered(c) == /\ Running
                /\ interrupt_code_to_envid[c] # NoId
                /\ prority[c] = 1 /\ c \notin claimed

\* The owner is gone: the handler returns without completing the claim.
interrupt_without_owner(c) ==
    /\ Delivered(c)
    /\ ~Valid(interrupt_code_to_envid[c])
    /\ claimed' = claimed \cup {c}
    /\ UNCHANGED <<envVars, interrupt_code_to_envid, prority, xstack, outcome>>

\* Mutant: the frame is copied to the stack after it was diverted.
Push_Diverted(e, word, c) == [xstack EXCEPT ![e] = Append(@, [a0 |-> "USER", code |-> c])]

Push(e, word, c) == [xstack EXCEPT ![e] = Append(@, [a0 |-> word, code |-> c])]

\* The owner is running: its frame is diverted to the handler.
interrupt_current(c) ==
    /\ Delivered(c)
    /\ Valid(interrupt_code_to_envid[c])
    /\ SlotOf(interrupt_code_to_envid[c]) = curenv
    /\ prority' = [prority EXCEPT ![c] = 0]
    /\ \E word \in {a0, "USER"} : xstack' = Push(curenv, word, c) /\ outcome' = ForgetIf(word)
    /\ a0' = "USER"
    /\ UNCHANGED <<envs, pools, env_sched_list, curenv, count, halted>>
    /\ UNCHANGED <<interrupt_code_to_envid, claimed>>

\* The owner is not running: it is woken if it is blocked, its frame is diverted
\* and it runs at once.  The handler's entry does not look at regs[10].
interrupt_other(c) ==
    /\ Delivered(c)
    /\ Valid(interrupt_code_to_envid[c])
    /\ LET e == SlotOf(interrupt_code_to_envid[c])
           blocked == envs[e].env_status = "NOT_RUNNABLE"
           incall == BlockedInCall(e)
           woken == [envs EXCEPT
                       ![e].env_status = "RUNNABLE",
                       ![e].env_in_syscall = IF incall THEN 0 ELSE @,
                       ![e].env_ipc_recving = IF incall THEN 0 ELSE @,
                       ![e].env_a0 = IF incall THEN "E_INTR" ELSE @]
       IN  /\ e # curenv
           /\ env_sched_list' = IF blocked THEN TAILQ_INSERT_HEAD(env_sched_list, e)
                                           ELSE env_sched_list
           /\ xstack' = Push(e, woken[e].env_a0, c)
           /\ \E word \in {a0, "USER"} :
                 /\ env_run(e, curenv, [woken EXCEPT ![e].env_a0 = "USER"], word)
                 /\ outcome' = IF incall /\ outcome[e].end = "waiting"
                               THEN [ForgetIf(word) EXCEPT ![e].end = "interrupt"]
                               ELSE ForgetIf(word)
    /\ prority' = [prority EXCEPT ![c] = 0]
    /\ UNCHANGED <<pools, count, interrupt_code_to_envid, claimed>>

-----------------------------------------------------------------------------
(* The other calls, with what they mean for exception stacks and outcomes.  *)

\* The exception stack is part of the address space that env_free releases.
Freed(e) == Live(e) /\ envs'[e].env_status = "FREE"

\* A program that handles interrupts does not exit, unless driver_exit is used.
Handles(e) == CodesOf(envs[e].env_id) # {}

IrqNext ==
    \/ /\ (\E pri \in Pri : env_create(pri)) \/ start_schedule
       /\ UNCHANGED <<irqVars, outcome>>
    \/ /\ do_clock
       /\ outcome' = ForgetIf(envs'[curenv].env_a0)
       /\ UNCHANGED irqVars
    \* A program does not fork in a handler: the child's exception stack is empty.
    \/ /\ \/ sys_yield \/ sys_sleep
          \/ sys_exofork /\ xstack[curenv] = <<>>
          \/ \E id \in EnvId, status \in Status : sys_set_env_status(id, status)
       /\ outcome' = Forget
       /\ UNCHANGED irqVars
    \/ \E id \in EnvId :
          /\ sys_env_destroy(id)
          /\ \A e \in Env : Freed(e) /\ Handles(e) => "driver_exit" \in Usage
          /\ outcome' = [e \in Env |-> IF Freed(e) THEN NoCall ELSE Forget[e]]
          /\ xstack' = [e \in Env |-> IF Freed(e) THEN <<>> ELSE xstack[e]]
          /\ UNCHANGED <<interrupt_code_to_envid, prority, claimed>>
    \/ \E from \in Senders :
          /\ sys_ipc_recv(from)
          /\ outcome' = IF envs'[curenv].env_ipc_recving = 1
                        THEN [outcome EXCEPT ![curenv] =
                                [end |-> "waiting", level |-> Len(xstack[curenv])]]
                        ELSE Forget
          /\ UNCHANGED irqVars
    \/ \E id \in EnvId :
          /\ sys_ipc_try_send(id)
          /\ outcome' = IF Valid(id) /\ CanReceive(SlotOf(id))
                        THEN [Forget EXCEPT ![SlotOf(id)].end = "message"] ELSE Forget
          /\ UNCHANGED irqVars
    \/ \E c \in Irq : \/ sys_set_interrupt_handler(c)
                      \/ interrupt_without_owner(c)
                      \/ interrupt_current(c)
                      \/ interrupt_other(c)
    \/ sys_interrupt_return

IrqSpec == IrqInit /\ [][IrqNext]_vars

-----------------------------------------------------------------------------
(* Properties.                                                              *)

\* The same with the table of registered handlers, the PLIC's registers and the
\* exception stacks.
IrqTypeOK ==
    /\ TypeOK
    /\ interrupt_code_to_envid \in [Irq -> EnvId]
    /\ prority \in [Irq -> {0, 1}]
    /\ claimed \subseteq Irq
    /\ xstack \in [Env -> Seq(Frame)]
    /\ outcome \in [Env -> Outcome]

\* regs[10] of the program that called sys_ipc_recv, wherever it is kept.
CallerWord(e) ==
    LET level == outcome[e].level
    IN  CASE Len(xstack[e]) > level -> xstack[e][level + 1].a0
          [] Len(xstack[e]) = level /\ e = curenv -> a0
          [] OTHER -> envs[e].env_a0

\* README.md:223: a process interrupted in sys_ipc_recv gets -E_INTR.  What a
\* receiver is told when it resumes is what happened: 0 if a sender gave it a
\* message and -E_INTR if an interrupt came first, whichever way the two and the
\* preemption of the receiver interleave; the message is never lost in between.
RecvOutcomeTruthful ==
    halted = "no" =>
      \A e \in Env :
        /\ outcome[e].end = "message" => CallerWord(e) = "OK"
        /\ outcome[e].end = "interrupt" => CallerWord(e) = "E_INTR"
        /\ outcome[e].end = "waiting" <=> envs[e].env_ipc_recving = 1

\* README.md:341: only a call that blocks is made to return -E_INTR.  The frame of
\* an environment that was stopped anywhere else is pushed as it is.
PreemptedKeepsRegisters ==
    [][\A e \in Env : /\ Len(xstack'[e]) > Len(xstack[e])
                      /\ e # curenv /\ envs[e].env_a0 = "USER"
                      => xstack'[e][Len(xstack'[e])].a0 = "USER"]_vars

\* README.md:338 and 347: a code is disabled while its handler runs, and only
\* then.  So a handler is never entered again before it returned ...
HandlerNotReentered ==
    \A e \in Env : \A i, j \in 1 .. Len(xstack[e]) :
        xstack[e][i].code = xstack[e][j].code => i = j

\* ... and a registered code of a live environment is never left masked.
MaskedOnlyWhileHandled ==
    \A c \in Irq :
        LET id == interrupt_code_to_envid[c]
        IN  id # NoId /\ Valid(id) /\ prority[c] = 0 =>
              \E i \in 1 .. Len(xstack[id[2]]) : xstack[id[2]][i].code = c

\* handle_env_interrupt and ret_env_interrupt mask a code exactly while it is
\* handled.
MaskingExact == HandlerNotReentered /\ MaskedOnlyWhileHandled

\* handle_env_interrupt queues, wakes and resumes the owner of a code behind the
\* scheduler's back: the tables, the list and the waits stay what the scheduler and
\* sys_ipc_try_send rely on.
SchedulerIntact == IrqTypeOK /\ SchedListIffRunnable /\ ReceiverBlocked /\ AssertHolds

\* kern/env.c:188-199: an envid names one environment, not its slot.  Only the
\* environment that registered for a code is diverted to a handler for it, never
\* another one that got the slot after it.
DivertedOwnsCode ==
    [][\A e \in Env : Len(xstack'[e]) > Len(xstack[e]) =>
          interrupt_code_to_envid[xstack'[e][Len(xstack'[e])].code] = envs[e].env_id]_vars

\* README.md:335: when the interrupt occurs, the process registered for it is
\* signalled.  The PLIC goes on delivering the code of a live environment: no claim
\* of it is left open.
LiveOwnerNotDeaf ==
    \A c \in Irq : interrupt_code_to_envid[c] # NoId /\ Valid(interrupt_code_to_envid[c])
                   => c \notin claimed

\* README.md:190: sys_sleep blocks the process until a user-level interrupt wakes
\* it.  The kernel does not stop while an environment with a handler is blocked.
IdleKernelWaits ==
    halted = "no runnable env" => \A e \in Env : Live(e) => ~Handles(e)
=============================================================================
