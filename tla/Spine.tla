-------------------------------- MODULE Spine --------------------------------
(***************************************************************************)
(* The CPU/NPU execution-unit dispatcher of include/ork_spine.h: one       *)
(* thread runs an op DAG over worker threads ("units"), each with a mutex, *)
(* a condition variable and a pair of generation counters.                 *)
(*                                                                         *)
(* A step is one critical section of a unit's mutex, or the dispatcher's   *)
(* own work between two of them; pthread_cond_wait is two steps, so that a *)
(* wake-up may be missed.  An op is what its function is: it runs on the   *)
(* worker without the lock, and returns.  The caller runs a DAG, may run   *)
(* another one on the same units, and finally stops them.                  *)
(***************************************************************************)
EXTENDS Integers, FiniteSets

CONSTANTS
    NU,          \* number of units
    NOPS,        \* number of ops of a DAG
    MaxRuns,     \* bound: calls of ork_spine_run
    NeedCpu      \* only DAGs whose CPU ops have a CPU unit to run on

ASSUME SpineAssumption ==
    NU \in Nat \ {0} /\ NOPS \in Nat /\ MaxRuns \in Nat /\ NeedCpu \in BOOLEAN

Units == 0 .. (NU - 1)
Ops == 0 .. (NOPS - 1)
NoOp == -1

VARIABLES
    kind,                                \* units: "NPU" or "CPU"
    placement, deps,                     \* the DAG of this run
    gen, done_gen, stop, fn, uret,       \* shared with the workers
    wpc, took, g,                        \* workers: position, op taken, its gen
    dpc, k, runs,                        \* dispatcher: position, loop index
    busy, op,                            \* dispatcher: unit bookkeeping
    state, opgen, ret, done_mask,        \* dispatcher: op bookkeeping
    calls                                \* history: times each op's fn was called

dag    == <<kind, placement, deps>>
shared == <<gen, done_gen, stop, fn, uret>>
worker == <<wpc, took, g>>
sched  == <<busy, op, state, opgen, ret, done_mask>>
vars == <<dag, shared, worker, dpc, k, runs, sched, calls>>

(* deps names ops of lower index.                                          *)
Dags == {d \in [Ops -> SUBSET Ops] : \A i \in Ops : \A j \in d[i] : j < i}
Placements == [Ops -> {"NPU", "CPU", "EITHER"}]

NpuUnits(kd) == {u \in Units : kd[u] = "NPU"}
Runnable(kd, pl) ==
    NeedCpu /\ (\E i \in Ops : pl[i] = "CPU") => NpuUnits(kd) # Units

Init ==
    /\ kind \in [Units -> {"NPU", "CPU"}]
    /\ placement \in {pl \in Placements : Runnable(kind, pl)}
    /\ deps \in Dags
    /\ gen = [u \in Units |-> 0]
    /\ done_gen = [u \in Units |-> 0]
    /\ stop = [u \in Units |-> FALSE]
    /\ fn = [u \in Units |-> NoOp]
    /\ uret = [u \in Units |-> NoOp]
    /\ wpc = [u \in Units |-> "check"]
    /\ took = [u \in Units |-> NoOp]
    /\ g = [u \in Units |-> 0]
    /\ dpc = "run"
    /\ k = 0
    /\ runs = 0
    /\ busy = [u \in Units |-> FALSE]
    /\ op = [u \in Units |-> NoOp]
    /\ state = [i \in Ops |-> 0]
    /\ opgen = [i \in Ops |-> 0]
    /\ ret = [i \in Ops |-> NoOp]
    /\ done_mask = {}
    /\ calls = [i \in Ops |-> 0]

-----------------------------------------------------------------------------
(* ork__spine_unit_loop                                                    *)

(* pthread_cond_wait: nothing to do, the lock is released and u sleeps.    *)
WorkerSleep(u) ==
    /\ wpc[u] = "check"
    /\ gen[u] = done_gen[u] /\ ~stop[u]
    /\ wpc' = [wpc EXCEPT ![u] = "asleep"]
    /\ UNCHANGED <<dag, shared, took, g, dpc, k, runs, sched, calls>>

WorkerTake(u) ==
    /\ wpc[u] = "check"
    /\ gen[u] # done_gen[u] /\ ~stop[u]
    /\ took' = [took EXCEPT ![u] = fn[u]]
    /\ g' = [g EXCEPT ![u] = gen[u]]
    /\ wpc' = [wpc EXCEPT ![u] = "call"]
    /\ calls' = [calls EXCEPT ![fn[u]] = @ + 1]
    /\ UNCHANGED <<dag, shared, dpc, k, runs, sched>>

(* fn(arg) returns; the result of op i is i.                               *)
WorkerReturn(u) ==
    /\ wpc[u] = "call"
    /\ uret' = [uret EXCEPT ![u] = took[u]]
    /\ done_gen' = [done_gen EXCEPT ![u] = g[u]]
    /\ wpc' = [wpc EXCEPT ![u] = "check"]
    /\ UNCHANGED <<dag, gen, stop, fn, took, g, dpc, k, runs, sched, calls>>

WorkerStop(u) ==
    /\ wpc[u] = "check" /\ stop[u]
    /\ wpc' = [wpc EXCEPT ![u] = "exit"]
    /\ UNCHANGED <<dag, shared, took, g, dpc, k, runs, sched, calls>>

(* pthread_cond_signal: a unit that is not asleep does not notice.         *)
Signal(u) == [wpc EXCEPT ![u] = IF @ = "asleep" THEN "check" ELSE @]

-----------------------------------------------------------------------------
(* ork_spine_run                                                           *)

TwoStreams == Cardinality(NpuUnits(kind)) > 1
Homeless(i) == NpuUnits(kind) = {} /\ placement[i] = "NPU"
BadConfig == TwoStreams \/ \E i \in Ops : Homeless(i)

(* The ops whose state is reset before a bad config is noticed.            *)
Reset(i) == ~TwoStreams /\ \A j \in Ops : j < i => ~Homeless(j)

RunBegin ==
    /\ dpc = "run"
    /\ state' = [i \in Ops |-> IF Reset(i) THEN 0 ELSE state[i]]
    /\ calls' = [i \in Ops |-> IF Reset(i) THEN 0 ELSE calls[i]]
    /\ busy' = IF BadConfig THEN busy ELSE [u \in Units |-> FALSE]
    /\ done_mask' = {}
    /\ runs' = runs + 1
    /\ dpc' = IF BadConfig THEN "failed" ELSE "dispatch"
    /\ k' = 0
    /\ UNCHANGED <<dag, shared, worker, op, opgen, ret>>

(* Mutant: deps are not waited for.                                        *)
Ready_NoDeps(i) == state[i] = 0
Ready(i) == state[i] = 0 /\ deps[i] \subseteq done_mask
Free == {u \in Units : ~busy[u]}

(* ork__spine_pick returns u: the first free unit of the kind asked for.   *)
FirstOf(S, u) == u \in S /\ \A v \in S : u <= v
pick(pl, u) ==
    LET npu == {v \in Free : kind[v] = "NPU"}
        cpu == {v \in Free : kind[v] = "CPU"}
    IN  \/ pl = "NPU" /\ FirstOf(npu, u)
        \/ pl = "CPU" /\ FirstOf(cpu, u)
        \/ pl = "EITHER" /\ FirstOf(IF cpu # {} THEN cpu ELSE npu, u)

(* Op k goes to u: ork_spine_unit_dispatch, and the bookkeeping.           *)
Dispatch(u) ==
    /\ dpc = "dispatch" /\ k \in Ops
    /\ Ready(k) /\ pick(placement[k], u)
    /\ fn' = [fn EXCEPT ![u] = k]
    /\ gen' = [gen EXCEPT ![u] = @ + 1]
    /\ wpc' = Signal(u)
    /\ opgen' = [opgen EXCEPT ![k] = gen[u] + 1]
    /\ state' = [state EXCEPT ![k] = 1]
    /\ busy' = [busy EXCEPT ![u] = TRUE]
    /\ op' = [op EXCEPT ![u] = k]
    /\ k' = k + 1
    /\ UNCHANGED <<dag, done_gen, stop, uret, took, g, dpc, runs, ret, done_mask, calls>>

DispatchSkip ==
    /\ dpc = "dispatch" /\ k \in Ops
    /\ ~(Ready(k) /\ \E u \in Units : pick(placement[k], u))
    /\ k' = k + 1
    /\ UNCHANGED <<dag, shared, worker, dpc, runs, sched, calls>>

DispatchEnd ==
    /\ dpc = "dispatch" /\ k = NOPS
    /\ dpc' = "poll"
    /\ k' = 0
    /\ UNCHANGED <<dag, shared, worker, runs, sched, calls>>

(* Mutant: the generation before counts as done.                           *)
Finished_Early(u) == busy[u] /\ done_gen[u] >= opgen[op[u]] - 1
Finished(u) == busy[u] /\ done_gen[u] >= opgen[op[u]]

(* ork_spine_unit_poll of unit k; a finished op is marked done.            *)
Poll ==
    LET i == op[k] IN
    /\ dpc = "poll" /\ k \in Units /\ Finished(k)
    /\ ret' = [ret EXCEPT ![i] = uret[k]]
    /\ state' = [state EXCEPT ![i] = 2]
    /\ done_mask' = done_mask \cup {i}
    /\ busy' = [busy EXCEPT ![k] = FALSE]
    /\ k' = k + 1
    /\ UNCHANGED <<dag, shared, worker, dpc, runs, op, opgen, calls>>

PollSkip ==
    /\ dpc = "poll" /\ k \in Units /\ ~Finished(k)
    /\ k' = k + 1
    /\ UNCHANGED <<dag, shared, worker, dpc, runs, sched, calls>>

(* ndone < nops: another tick, or the run is over.                         *)
PollEnd ==
    /\ dpc = "poll" /\ k = NU
    /\ dpc' = IF done_mask = Ops THEN "returned" ELSE "dispatch"
    /\ k' = 0
    /\ UNCHANGED <<dag, shared, worker, runs, sched, calls>>

-----------------------------------------------------------------------------
(* The caller                                                              *)

RunAgain ==
    /\ dpc \in {"returned", "failed"}
    /\ runs < MaxRuns
    /\ dpc' = "run"
    /\ placement' \in {pl \in Placements : Runnable(kind, pl)}
    /\ deps' \in Dags
    /\ UNCHANGED <<kind, shared, worker, k, runs, sched, calls>>

(* ork_spine_unit_stop of every unit.                                      *)
StopUnit(u) ==
    /\ dpc \in {"returned", "failed"}
    /\ runs = MaxRuns
    /\ ~stop[u]
    /\ stop' = [stop EXCEPT ![u] = TRUE]
    /\ wpc' = Signal(u)
    /\ UNCHANGED <<dag, gen, done_gen, fn, uret, took, g, dpc, k, runs, sched, calls>>

-----------------------------------------------------------------------------
Worker(u) == WorkerSleep(u) \/ WorkerTake(u) \/ WorkerReturn(u) \/ WorkerStop(u)

Scheduler == \/ RunBegin \/ DispatchSkip \/ DispatchEnd \/ Poll \/ PollSkip \/ PollEnd
             \/ \E u \in Units : Dispatch(u)

Next == \/ Scheduler \/ RunAgain
        \/ \E u \in Units : Worker(u) \/ StopUnit(u)

Spec == Init /\ [][Next]_vars

(* Threads are scheduled; op functions return; the caller stops the units. *)
Fairness == /\ WF_vars(Scheduler)
            /\ \A u \in Units : WF_vars(Worker(u)) /\ WF_vars(StopUnit(u))

FairSpec == Spec /\ Fairness

-----------------------------------------------------------------------------
OpOrNone == Ops \cup {NoOp}

(* Unit, op and worker state have the shape of ork_spine_unit and          *)
(* ork_spine_op, and a unit is never more than one generation behind.      *)
TypeOK ==
    /\ kind \in [Units -> {"NPU", "CPU"}]
    /\ placement \in Placements
    /\ deps \in Dags
    /\ gen \in [Units -> Nat] /\ done_gen \in [Units -> Nat] /\ g \in [Units -> Nat]
    /\ \A u \in Units : gen[u] - done_gen[u] \in {0, 1}
    /\ stop \in [Units -> BOOLEAN] /\ busy \in [Units -> BOOLEAN]
    /\ fn \in [Units -> OpOrNone] /\ uret \in [Units -> OpOrNone]
    /\ took \in [Units -> OpOrNone] /\ op \in [Units -> OpOrNone]
    /\ wpc \in [Units -> {"check", "asleep", "call", "exit"}]
    /\ dpc \in {"run", "dispatch", "poll", "returned", "failed"}
    /\ k \in Nat /\ runs \in Nat
    /\ state \in [Ops -> 0 .. 2]
    /\ opgen \in [Ops -> Nat]
    /\ ret \in [Ops -> OpOrNone]
    /\ done_mask \subseteq Ops
    /\ calls \in [Ops -> Nat]

(* "an op is dispatched only once its deps are done" and "SINGLE-STREAM    *)
(* INVARIANT": while an op's function runs on a worker, every op it        *)
(* depends on has returned, the worker's unit is one the op may run on,    *)
(* and no second unit drives the NPU.                                      *)
Calling(u) == wpc[u] = "call"
DepsRespected ==
    /\ \A u \in Units : Calling(u) =>
         /\ \A j \in deps[took[u]] : state[j] = 2
         /\ placement[took[u]] \in {kind[u], "EITHER"}
    /\ \A u, v \in Units :
         Calling(u) /\ Calling(v) /\ kind[u] = "NPU" /\ kind[v] = "NPU" => u = v

(* "each op's return is stored in ops[i].ret": an op that is done was      *)
(* called exactly once and has its own result, although units are reused   *)
(* and their ret is read outside the lock.  (With the type invariant.)     *)
ResultsExact ==
    /\ TypeOK
    /\ \A i \in Ops : /\ calls[i] <= 1
                      /\ state[i] = 2 => calls[i] = 1 /\ ret[i] = i

(* ork_spine_unit_stop's join returns: every worker sees stop and exits.   *)
UnitsExit == \A u \in Units : stop[u] ~> wpc[u] = "exit"
==============================================================================
