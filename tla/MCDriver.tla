------------------------------- MODULE MCDriver -------------------------------
(* The driver below the op level: a call on several cores, a chain steered *)
(* while it runs, the scratch of a context over its domains, and the       *)
(* weights packed into its memory.  Each of them is looked at from a       *)
(* context of its own, one at a time.                                      *)
EXTENDS MultiCore, DynQueue, NpuContext, PackedWeight

VARIABLE which

drvVars == <<mcVars, dynVars, ctxVars, pkVars, which>>

NMaxOf == [s \in {"rk3588", "rk3576"} |-> IF s = "rk3588" THEN 10 ELSE 8]
PkShapes == {<<12, 12>>, <<14, 2>>}
PkKv == <<4, 10, 4>>
PkObjs == 1 .. 24

(* The scenario of the module that does not run is fixed.                  *)
OneCall == /\ kind = CHOOSE k \in Kinds : TRUE
           /\ nn = 2 /\ sk = 2 /\ ~mc_error
OneChain == /\ user = "queue" /\ lead = 0 /\ budget = 0 /\ warmed
            /\ chunk_max = CHOOSE k \in ChunkMax : TRUE
OneMemory == ~views /\ ceil = CHOOSE c \in Ceilings : TRUE

MCInit == /\ which \in {"cores", "chain", "ctx", "weight"}
          /\ McInit /\ DynInit /\ CtxInit /\ PkInit
          /\ which # "weight" => OneMemory
          /\ which # "chain" => OneChain
          /\ which # "cores" => OneCall

InCores(Step) == which = "cores" /\ Step /\ UNCHANGED <<dynVars, ctxVars, pkVars, which>>
InChain(Step) == which = "chain" /\ Step /\ UNCHANGED <<mcVars, ctxVars, pkVars, which>>
InCtx(Step) == which = "ctx" /\ Step /\ UNCHANGED <<mcVars, dynVars, pkVars, which>>
InWeight(Step) == which = "weight" /\ Step /\ UNCHANGED <<mcVars, dynVars, ctxVars, which>>

MCNext == InCores(McNext) \/ InChain(DynNext) \/ InCtx(CtxNext) \/ InWeight(PkNext)

(* The calling thread and the threads of the pool run while they are       *)
(* inside the library, and a program of a per-core round lands unless it   *)
(* stalls.  Nothing is asked of a caller, of the context, or of the NPU    *)
(* while it walks a chain: those waits run out with the clock.             *)
MCFairness ==
    /\ WF_drvVars(InCores(Host))
    /\ \A i \in Core : WF_drvVars(InCores(WorkerStep(i))) /\ WF_drvVars(InCores(Land(i)))
    /\ WF_drvVars(InChain(Driver))

MCSpec == MCInit /\ [][MCNext]_drvVars /\ MCFairness

(* A call on several cores returns: a core that fails does not leave the   *)
(* others at the barrier of colsplit.c, and ork_dyn_end gives a round up   *)
(* that is dropped again and again.                                        *)
McReturns == which = "cores" /\ rpc # "ret" ~> rpc = "ret"

(* A call that steers a chain (flush, append, drain, end, run) returns,    *)
(* however often the hardware refuses or hangs.                            *)
DynReturns == qpc \notin {"user", "ret"} ~> qpc \in {"user", "ret"}

(* No call into the driver blocks for ever, whatever the NPU does.         *)
DriverReturns == McReturns /\ DynReturns
==============================================================================
