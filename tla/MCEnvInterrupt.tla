--------------------------- MODULE MCEnvInterrupt ---------------------------
EXTENDS EnvInterrupt, TLC

CONSTANTS e1, e2, e3

MCEnv == {e1, e2, e3}
MCEnv2 == {e1, e2}
MCSymmetry == Permutations(Env)

\* For liveness: one order of the free list, and drivers and programs that
\* compute, yield, register and handle interrupts.
LiveInit == IrqInit /\ env_free_list = <<e1, e2, e3>>

LiveNext ==
    /\ IrqNext
    /\ \/ \E pri \in Pri : env_create(pri)
       \/ start_schedule
       \/ do_clock
       \/ sys_yield
       \/ sys_interrupt_return
       \/ \E c \in Irq : \/ sys_set_interrupt_handler(c)
                         \/ interrupt_current(c)
                         \/ interrupt_other(c)

LiveSpec == /\ LiveInit /\ [][LiveNext]_vars
            /\ WF_vars(IrqNext /\ Reschedule) /\ WF_vars(IrqNext /\ start_schedule)
=============================================================================
