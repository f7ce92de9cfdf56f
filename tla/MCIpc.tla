------------------------------- MODULE MCIpc -------------------------------
EXTENDS Ipc, TLC

CONSTANTS e1, e2, e3

MCEnv == {e1, e2, e3}
MCSymmetry == Permutations(Env)

\* For liveness, which symmetry does not preserve: one order of the free list,
\* and the calls that the repository's programs make besides fork, which can
\* postpone the others for as long as it succeeds.
LiveInit == Init /\ env_free_list = <<e1, e2, e3>>

LiveNext ==
    \/ \E pri \in Pri : env_create(pri)
    \/ start_schedule
    \/ do_clock
    \/ sys_yield
    \/ sys_sleep
    \/ sys_env_destroy(NoId)
    \/ sys_ipc_recv(NoId)
    \/ \E e \in Env : sys_ipc_try_send(envs[e].env_id)

LiveSpec == LiveInit /\ [][LiveNext]_envVars /\ IpcFairness
=============================================================================
