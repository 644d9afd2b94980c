----------------------------- MODULE MCExecutors -----------------------------
(* The three ways this code runs work on threads, and the fused chains that *)
(* a call of the NPU pool runs on its cores, one of them at a time: a chain *)
(* has its own core, and for the rest they share no state, so the           *)
(* behaviours of each are all there is to see.                              *)
EXTENDS Spine, NpuPool, ParallelFor, FusedChain

VARIABLE which

allVars == <<vars, poolVars, parVars, fcVars, which>>

FusedLength == [o \in OpLists |-> IF o = "long" THEN 3 ELSE 2]

(* The units and the DAG matter to the spine only.                         *)
OneDag == /\ kind = [u \in Units |-> "NPU"]
          /\ placement = [i \in Ops |-> "NPU"]
          /\ deps = [i \in Ops |-> {}]
(* The environment variables matter to the fused chains only, and the two  *)
(* that keep the pipeline warm are set together.                           *)
OneMode == ~knobs.sticky /\ ~knobs.nothrash

MCInit == /\ which \in {"spine", "npu", "cpu", "fused"}
          /\ Init /\ PoolInit /\ ParInit /\ FcInit
          /\ knobs.f16warm = knobs.nothrash
          /\ which # "fused" => OneMode
          /\ which # "spine" => OneDag

InSpine(A) == which = "spine" /\ A /\ UNCHANGED <<poolVars, parVars, fcVars, which>>
InNpu(A) == which = "npu" /\ A /\ UNCHANGED <<vars, parVars, fcVars, which>>
InCpu(A) == which = "cpu" /\ A /\ UNCHANGED <<vars, poolVars, fcVars, which>>
InFused(A) == which = "fused" /\ A /\ UNCHANGED <<vars, poolVars, parVars, which>>

MCNext == InSpine(Next) \/ InNpu(PoolNext) \/ InCpu(ParNext) \/ InFused(FcNext)

(* The fairness of each module, for its own behaviours.                    *)
MCFairness ==
    /\ WF_allVars(InSpine(Scheduler))
    /\ \A u \in Units : /\ WF_allVars(InSpine(Worker(u)))
                        /\ WF_allVars(InSpine(StopUnit(u)))
    /\ WF_allVars(InNpu(Dispatcher))
    /\ \A i \in Helpers : WF_allVars(InNpu(Helper(i)))
    /\ \A c \in Callers : WF_allVars(InCpu(Caller(c)))
    /\ \A t \in Threads : WF_allVars(InCpu(Thread(t)))

MCSpec == MCInit /\ [][MCNext]_allVars /\ MCFairness

(* ork_spine_run, "run the DAG to completion" or "-1 on a bad config":     *)
(* the call returns, in the behaviours in which the spine is what runs.    *)
SpineReturns == (which = "spine" /\ dpc = "run") ~> dpc \in {"returned", "failed"}

(* Whoever hands work to threads gets it back: the DAG is run and its      *)
(* units stop, a dispatch to the context's pool and the join of its        *)
(* helpers return, and so does every parallel loop.  No wake-up is lost.   *)
ExecutorsReturn == SpineReturns /\ UnitsExit /\ DispatchReturns /\ CallReturns
==============================================================================
