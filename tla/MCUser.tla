------------------------------- MODULE MCUser -------------------------------
(* The libraries of the kernel and of the firmware, model-checked one after   *)
(* another: the initial state chooses the part, and the others stand still.   *)
EXTENDS Pipe, ReadyList, Factory, TimerHandlers

CONSTANT t1

VARIABLE part

Parts == {"pipe", "ready", "factory", "timer"}
userVars == <<part, pipeVars, readyVars, factoryVars, timerVars>>

McFirstReady == <<t1>>

UserInit ==
    /\ part \in Parts
    /\ PipeInit /\ ReadyInit /\ FactoryInit /\ TimerInit

UserNext ==
    \/ part = "pipe" /\ PipeNext /\ UNCHANGED <<part, readyVars, factoryVars, timerVars>>
    \/ part = "ready" /\ ReadyNext /\ UNCHANGED <<part, pipeVars, factoryVars, timerVars>>
    \/ part = "factory" /\ FactoryNext /\ UNCHANGED <<part, pipeVars, readyVars, timerVars>>
    \/ part = "timer" /\ TimerNext /\ UNCHANGED <<part, pipeVars, readyVars, factoryVars>>

(* The scheduler runs a ready thread in its turn, so a call of the pipe goes  *)
(* on once it has begun.                                                      *)
UserSpec ==
    /\ UserInit /\ [][UserNext]_userVars
    /\ \A t \in Clients : WF_pipeVars(part = "pipe" /\ CallStep(t))
=============================================================================
