---------------------------- MODULE Executors_proofs ----------------------------
(***************************************************************************)
(* Proofs about the three executors: the units of Spine, the pool of a     *)
(* context (NpuPool) and the pool of the process (ParallelFor); and about  *)
(* FusedChain, the chains that a call of the NPU pool runs.                *)
(***************************************************************************)
EXTENDS Spine, NpuPool, ParallelFor, FusedChain, FiniteSetTheorems, TLAPS

-----------------------------------------------------------------------------
(***************************************************************************)
(* Spine: for every number of units, ops and runs.                         *)
(***************************************************************************)

(* The inductive invariant: what the dispatcher believes of a unit (busy,  *)
(* op, opgen) against what the unit's worker has been given and has done.  *)

Running == dpc \in {"dispatch", "poll"}
Pending(u) == gen[u] # done_gen[u]

(* A busy unit carries one op, the last it was given; until its worker has *)
(* finished it, its generation is ahead; then its ret is that op's.        *)
BusyUnits ==
    \A u \in Units : busy[u] =>
        /\ Running
        /\ op[u] \in Ops /\ state[op[u]] = 1
        /\ fn[u] = op[u] /\ opgen[op[u]] = gen[u]
        /\ deps[op[u]] \subseteq done_mask
        /\ placement[op[u]] \in {kind[u], "EITHER"}
        /\ ~Pending(u) => uret[u] = op[u]

(* A worker is in a function only for the op its unit is pending on.       *)
Workers ==
    \A u \in Units :
        /\ Pending(u) => busy[u] /\ gen[u] = done_gen[u] + 1
        /\ Calling(u) => Pending(u) /\ took[u] = fn[u] /\ g[u] = gen[u]

(* An op in flight is on exactly one unit, and has been called unless its  *)
(* unit has not taken it yet; an op that is done was called once.          *)
OpsCounted ==
    /\ \A i \in Ops : state[i] = 1 => \E u \in Units : busy[u] /\ op[u] = i
    /\ \A u, v \in Units : busy[u] /\ busy[v] /\ op[u] = op[v] => u = v
    /\ \A u \in Units : busy[u] =>
         calls[op[u]] = IF Pending(u) /\ ~Calling(u) THEN 0 ELSE 1
    /\ \A i \in Ops : /\ state[i] = 0 => calls[i] = 0
                      /\ state[i] = 2 => calls[i] = 1 /\ ret[i] = i

(* A run that has started has a valid configuration, its set of done ops   *)
(* is what their states say, and it returns when they all are.             *)
RunValid ==
    /\ Running => ~TwoStreams /\ \A i \in done_mask : state[i] = 2
    /\ dpc = "returned" => \A i \in Ops : state[i] = 2

SpineInv == TypeOK /\ BusyUnits /\ Workers /\ OpsCounted /\ RunValid

-----------------------------------------------------------------------------
(* Before the first run no unit has been given anything.                   *)
LEMMA SpineInit == Init => SpineInv
<1> SUFFICES ASSUME Init PROVE SpineInv
  OBVIOUS
<1> USE SpineAssumption DEF Init
<1>1. TypeOK
  BY DEF TypeOK, OpOrNone, NoOp
<1>2. BusyUnits /\ Workers
  BY DEF BusyUnits, Workers, Pending, Calling
<1>3. OpsCounted
  BY DEF OpsCounted
<1>4. RunValid
  BY DEF RunValid, Running
<1> QED BY <1>1, <1>2, <1>3, <1>4 DEF SpineInv

(* A worker that wakes, sleeps or exits, and a dispatcher that only moves  *)
(* on, leave everything the invariant speaks of alone.                     *)
LEMMA SpineFrame ==
    ASSUME SpineInv,
           wpc' \in [Units -> {"check", "asleep", "call", "exit"}],
           \A u \in Units : Calling(u)' <=> Calling(u),
           dpc' \in {"run", "dispatch", "poll", "returned", "failed"},
           k' \in Nat, stop' \in [Units -> BOOLEAN],
           Running' => Running,
           dpc' = "returned" => \A i \in Ops : state[i] = 2,
           (\E u \in Units : busy[u]) => Running',
           UNCHANGED <<dag, gen, done_gen, fn, uret, took, g, sched, calls, runs>>
    PROVE  SpineInv'
<1> USE DEF SpineInv, dag, sched
<1>1. TypeOK'
  BY DEF TypeOK
<1>2. BusyUnits'
  BY DEF BusyUnits, Pending
<1>3. Workers'
  BY DEF Workers, Pending
<1>4. OpsCounted'
  BY DEF OpsCounted, Pending
<1>5. RunValid'
  BY DEF RunValid, TwoStreams, NpuUnits
<1> QED BY <1>1, <1>2, <1>3, <1>4, <1>5

(* The steps of a worker.                                                  *)
LEMMA SpineWorker ==
    ASSUME SpineInv, NEW u \in Units, Worker(u)
    PROVE  SpineInv'
<1> USE DEF dag, shared, sched
<1>1. CASE WorkerSleep(u)
  BY <1>1, SpineFrame DEF WorkerSleep, SpineInv, TypeOK, Calling, BusyUnits, RunValid, Running
<1>2. CASE WorkerStop(u)
  BY <1>2, SpineFrame DEF WorkerStop, SpineInv, TypeOK, Calling, BusyUnits, RunValid, Running
<1>3. CASE WorkerTake(u)
  <2>0. /\ Pending(u) /\ busy[u] /\ ~Calling(u) /\ fn[u] = op[u] /\ op[u] \in Ops
        /\ calls[op[u]] = 0
    BY <1>3 DEF WorkerTake, SpineInv, BusyUnits, Workers, OpsCounted, Pending, Calling
  <2>1. TypeOK'
    BY <1>3, <2>0 DEF WorkerTake, SpineInv, TypeOK
  <2>2. BusyUnits'
    BY <1>3 DEF WorkerTake, SpineInv, BusyUnits, Pending, Running
  <2>3. Workers'
    BY <1>3, <2>0 DEF WorkerTake, SpineInv, TypeOK, Workers, Pending, Calling
  <2>4. OpsCounted'
    BY <1>3, <2>0 DEF WorkerTake, SpineInv, TypeOK, OpsCounted, Pending, Calling, BusyUnits
  <2>5. RunValid'
    BY <1>3 DEF WorkerTake, SpineInv, RunValid, Running, TwoStreams, NpuUnits
  <2> QED BY <2>1, <2>2, <2>3, <2>4, <2>5 DEF SpineInv
<1>4. CASE WorkerReturn(u)
  <2>0. /\ Pending(u) /\ busy[u] /\ took[u] = op[u] /\ g[u] = gen[u]
        /\ calls[op[u]] = 1
    BY <1>4 DEF WorkerReturn, SpineInv, BusyUnits, Workers, OpsCounted, Pending, Calling
  <2>1. TypeOK'
    BY <1>4, <2>0 DEF WorkerReturn, SpineInv, TypeOK
  <2>2. BusyUnits'
    BY <1>4, <2>0 DEF WorkerReturn, SpineInv, TypeOK, BusyUnits, Pending, Running
  <2>3. Workers'
    BY <1>4, <2>0 DEF WorkerReturn, SpineInv, TypeOK, Workers, Pending, Calling
  <2>4. OpsCounted'
    BY <1>4, <2>0 DEF WorkerReturn, SpineInv, TypeOK, OpsCounted, Pending, Calling, BusyUnits
  <2>5. RunValid'
    BY <1>4 DEF WorkerReturn, SpineInv, RunValid, Running, TwoStreams, NpuUnits
  <2> QED BY <2>1, <2>2, <2>3, <2>4, <2>5 DEF SpineInv
<1> QED BY <1>1, <1>2, <1>3, <1>4 DEF Worker

(* ork_spine_run starts: with a bad configuration some ops are reset and   *)
(* nothing else; otherwise all of them are, and no unit is busy.           *)
LEMMA SpineRunBegin ==
    ASSUME SpineInv, RunBegin
    PROVE  SpineInv'
<1> USE DEF RunBegin, dag, shared, worker
<1>0. \A u \in Units : ~busy[u] /\ ~busy'[u]
  BY DEF SpineInv, BusyUnits, Running, TypeOK
<1>1. TypeOK'
  BY DEF SpineInv, TypeOK
<1>2. BusyUnits'
  BY <1>0 DEF BusyUnits
<1>3. Workers'
  BY <1>0 DEF SpineInv, Workers, Pending, Calling
<1>4. OpsCounted'
  BY <1>0 DEF SpineInv, OpsCounted, TypeOK
<1>5. RunValid'
  BY DEF RunValid, Running, TwoStreams, NpuUnits, BadConfig
<1> QED BY <1>1, <1>2, <1>3, <1>4, <1>5 DEF SpineInv

(* An op that is ready goes to a unit that is free, and of a kind the op   *)
(* may run on.                                                             *)
LEMMA SpineDispatch ==
    ASSUME SpineInv, NEW u \in Units, Dispatch(u)
    PROVE  SpineInv'
<1> USE DEF Dispatch, dag
<1>1. /\ ~busy[u] /\ ~Pending(u) /\ ~Calling(u)
      /\ k \in Ops /\ state[k] = 0 /\ deps[k] \subseteq done_mask
      /\ placement[k] \in {kind[u], "EITHER"}
      /\ \A v \in Units : busy[v] => op[v] # k
  <2>1. ~busy[u] /\ placement[k] \in {kind[u], "EITHER"}
    BY DEF pick, Free, FirstOf, SpineInv, TypeOK, Placements
  <2>2. k \in Ops /\ state[k] = 0 /\ deps[k] \subseteq done_mask
    BY DEF Ready
  <2> QED BY <2>1, <2>2 DEF SpineInv, Workers, BusyUnits
<1>2. \A v \in Units : Calling(v)' <=> Calling(v)
  BY DEF Signal, Calling, SpineInv, TypeOK
<1>3. TypeOK'
  <2>1. wpc' \in [Units -> {"check", "asleep", "call", "exit"}]
    BY DEF Signal, SpineInv, TypeOK
  <2>2. k' \in Nat
    BY DEF SpineInv, TypeOK
  <2>3. /\ gen' \in [Units -> Nat]
        /\ \A v \in Units : gen'[v] - done_gen'[v] \in {0, 1}
        /\ opgen' \in [Ops -> Nat]
    BY <1>1 DEF SpineInv, TypeOK, Pending
  <2>4. /\ fn' \in [Units -> OpOrNone] /\ op' \in [Units -> OpOrNone]
        /\ state' \in [Ops -> 0 .. 2] /\ busy' \in [Units -> BOOLEAN]
    BY <1>1 DEF SpineInv, TypeOK, OpOrNone
  <2> QED BY <2>1, <2>2, <2>3, <2>4 DEF SpineInv, TypeOK
<1>4. BusyUnits'
  <2> SUFFICES ASSUME NEW v \in Units, busy'[v]
               PROVE  /\ op'[v] \in Ops /\ state'[op'[v]] = 1
                      /\ fn'[v] = op'[v] /\ opgen'[op'[v]] = gen'[v]
                      /\ deps[op'[v]] \subseteq done_mask
                      /\ placement[op'[v]] \in {kind[v], "EITHER"}
                      /\ ~Pending(v)' => uret'[v] = op'[v]
    BY DEF BusyUnits, Running
  <2>1. CASE v = u
    BY <1>1, <2>1 DEF SpineInv, TypeOK, Pending
  <2>2. CASE v # u
    BY <1>1, <2>2 DEF SpineInv, TypeOK, Pending, BusyUnits
  <2> QED BY <2>1, <2>2
<1>5. Workers'
  BY <1>1, <1>2 DEF SpineInv, TypeOK, Workers, Pending
<1>6. OpsCounted'
  <2>1. /\ \A v \in Units : busy'[v] <=> (v = u \/ busy[v])
        /\ \A v \in Units : op'[v] = IF v = u THEN k ELSE op[v]
        /\ \A i \in Ops : state'[i] = IF i = k THEN 1 ELSE state[i]
        /\ \A v \in Units : v # u => (Pending(v)' <=> Pending(v))
        /\ Pending(u)'
    BY <1>1 DEF SpineInv, TypeOK, Pending
  <2> QED BY <1>1, <1>2, <2>1 DEF SpineInv, TypeOK, OpsCounted
<1>7. RunValid'
  BY <1>1 DEF SpineInv, TypeOK, RunValid, Running, TwoStreams, NpuUnits
<1> QED BY <1>3, <1>4, <1>5, <1>6, <1>7 DEF SpineInv

(* A unit that has finished gives its op back, with the op's own result.   *)
LEMMA SpinePoll ==
    ASSUME SpineInv, Poll
    PROVE  SpineInv'
<1> USE DEF Poll, dag, shared, worker
<1> DEFINE i == op[k]
<1>1. /\ k \in Units /\ busy[k] /\ i \in Ops /\ state[i] = 1
      /\ ~Pending(k) /\ uret[k] = i /\ calls[i] = 1
  <2>1. k \in Units /\ busy[k] /\ done_gen[k] >= opgen[i]
    BY DEF Finished
  <2>2. opgen[i] = gen[k] /\ i \in Ops /\ state[i] = 1
    BY <2>1 DEF SpineInv, BusyUnits
  <2>3. ~Pending(k)
    BY <2>1, <2>2 DEF SpineInv, TypeOK, Pending
  <2> QED BY <2>1, <2>2, <2>3 DEF SpineInv, BusyUnits, OpsCounted
<1>2. /\ \A v \in Units : busy'[v] <=> (busy[v] /\ v # k)
      /\ \A j \in Ops : state'[j] = IF j = i THEN 2 ELSE state[j]
      /\ \A j \in Ops : ret'[j] = IF j = i THEN uret[k] ELSE ret[j]
      /\ done_mask' = done_mask \cup {i}
      /\ \A v \in Units : busy'[v] => op[v] # i
  BY <1>1 DEF SpineInv, TypeOK, OpsCounted
<1> HIDE DEF i
<1>3. TypeOK'
  BY <1>1 DEF SpineInv, TypeOK, i
<1>4. BusyUnits'
  BY <1>1, <1>2 DEF SpineInv, BusyUnits, Pending, Running
<1>5. Workers'
  BY <1>1, <1>2 DEF SpineInv, Workers, Pending, Calling
<1>6. OpsCounted'
  BY <1>1, <1>2 DEF SpineInv, TypeOK, OpsCounted, Pending, Calling, i
<1>7. RunValid'
  BY <1>1, <1>2 DEF SpineInv, TypeOK, RunValid, Running, TwoStreams, NpuUnits
<1> QED BY <1>3, <1>4, <1>5, <1>6, <1>7 DEF SpineInv

(* Every other step only moves the dispatcher, its caller or a stop flag.  *)
LEMMA SpineMoves ==
    ASSUME SpineInv,
           \/ DispatchSkip \/ DispatchEnd \/ PollSkip \/ PollEnd
           \/ \E u \in Units : StopUnit(u)
    PROVE  SpineInv'
<1> USE DEF dag, shared, worker, sched, Running, Calling
<1>0. /\ wpc \in [Units -> {"check", "asleep", "call", "exit"}]
      /\ k \in Nat /\ stop \in [Units -> BOOLEAN]
      /\ dpc \in {"run", "dispatch", "poll", "returned", "failed"}
      /\ \A u \in Units : busy[u] => Running
      /\ dpc = "returned" => \A i \in Ops : state[i] = 2
  BY DEF SpineInv, TypeOK, BusyUnits, RunValid
<1>1. CASE DispatchSkip
  BY <1>0, <1>1, SpineFrame DEF DispatchSkip
<1>2. CASE DispatchEnd
  BY <1>0, <1>2, SpineFrame DEF DispatchEnd
<1>3. CASE PollSkip
  BY <1>0, <1>3, SpineFrame DEF PollSkip
<1>4. CASE PollEnd
  <2>1. (\E u \in Units : busy[u]) => Running'
    BY <1>4 DEF PollEnd, SpineInv, BusyUnits, RunValid
  <2>2. dpc' = "returned" => \A i \in Ops : state[i] = 2
    BY <1>4 DEF PollEnd, SpineInv, RunValid
  <2> QED BY <1>0, <1>4, <2>1, <2>2, SpineFrame DEF PollEnd
<1>5. ASSUME NEW u \in Units, StopUnit(u) PROVE SpineInv'
  BY <1>0, <1>5, SpineFrame DEF StopUnit, Signal
<1> QED BY <1>1, <1>2, <1>3, <1>4, <1>5

(* A new DAG is given only between runs, when no unit is busy.             *)
LEMMA SpineRunAgain ==
    ASSUME SpineInv, RunAgain
    PROVE  SpineInv'
<1> USE DEF RunAgain, shared, worker, sched
<1>0. \A u \in Units : ~busy[u]
  BY DEF SpineInv, BusyUnits, Running
<1>1. TypeOK'
  BY DEF SpineInv, TypeOK
<1>2. BusyUnits' /\ RunValid'
  BY <1>0 DEF BusyUnits, RunValid, Running
<1>3. Workers' /\ OpsCounted'
  BY DEF SpineInv, Workers, OpsCounted, Pending, Calling
<1> QED BY <1>1, <1>2, <1>3 DEF SpineInv

LEMMA SpineNext == SpineInv /\ [Next]_vars => SpineInv'
<1> SUFFICES ASSUME SpineInv, [Next]_vars PROVE SpineInv'
  OBVIOUS
<1>1. CASE UNCHANGED vars
  BY <1>1 DEF vars, dag, shared, worker, sched, SpineInv, TypeOK, BusyUnits, Workers,
     OpsCounted, RunValid, Running, Pending, Calling, TwoStreams, NpuUnits
<1>2. CASE Next
  BY <1>2, SpineWorker, SpineRunBegin, SpineDispatch, SpinePoll, SpineMoves,
     SpineRunAgain DEF Next, Scheduler
<1> QED BY <1>1, <1>2

LEMMA SpineInvariant == Spec => []SpineInv
<1> QED BY SpineInit, SpineNext, PTL DEF Spec

-----------------------------------------------------------------------------
(* Of two NPU units there is at most one when the check of the run passed. *)
LEMMA OneStream ==
    ASSUME ~TwoStreams, NEW u \in NpuUnits(kind), NEW v \in NpuUnits(kind)
    PROVE  u = v
<1> SUFFICES ASSUME u # v PROVE FALSE
  OBVIOUS
<1>1. IsFiniteSet(NpuUnits(kind))
  <2>1. IsFiniteSet(Units)
    BY FS_Interval, SpineAssumption DEF Units
  <2> QED BY <2>1, FS_Subset DEF NpuUnits
<1>2. Cardinality({u, v}) = 2
  <2>1. IsFiniteSet({u}) /\ Cardinality({u}) = 1
    BY FS_Singleton
  <2>2. {u, v} = {u} \cup {v}
    OBVIOUS
  <2> QED BY <2>1, <2>2, FS_AddElement
<1>3. Cardinality({u, v}) <= Cardinality(NpuUnits(kind))
  BY <1>1, FS_Subset
<1>4. Cardinality(NpuUnits(kind)) \in Nat
  BY <1>1, FS_CardinalityType
<1> QED BY <1>2, <1>3, <1>4 DEF TwoStreams

(* The unit, op and worker records keep their shape, and no unit is ever   *)
(* two generations behind: ork_spine_unit_dispatch is never called on a    *)
(* unit whose last op has not been collected.                              *)
THEOREM SpineTypes == Spec => []TypeOK
<1>1. SpineInv => TypeOK
  BY DEF SpineInv
<1> QED BY <1>1, SpineInvariant, PTL

(* "an op is dispatched only once its deps are done", "SINGLE-STREAM       *)
(* INVARIANT": whatever the DAG, no op's function runs before those of the *)
(* ops it depends on have returned, or on a unit of the wrong kind, and    *)
(* two units never drive the NPU at once.                                  *)
THEOREM DepsAlwaysRespected == Spec => []DepsRespected
<1>1. SpineInv => DepsRespected
  <2> SUFFICES ASSUME SpineInv PROVE DepsRespected
    OBVIOUS
  <2>1. ASSUME NEW u \in Units, Calling(u)
        PROVE  /\ Running /\ took[u] \in Ops
               /\ deps[took[u]] \subseteq done_mask
               /\ placement[took[u]] \in {kind[u], "EITHER"}
    BY <2>1 DEF SpineInv, Workers, BusyUnits
  <2>2. ASSUME NEW u \in Units, NEW v \in Units, Calling(u), Calling(v),
               kind[u] = "NPU", kind[v] = "NPU"
        PROVE  u = v
    <3>1. ~TwoStreams
      BY <2>1, <2>2 DEF SpineInv, RunValid
    <3> QED BY <2>2, <3>1, OneStream DEF NpuUnits
  <2> QED BY <2>1, <2>2 DEF DepsRespected, SpineInv, RunValid
<1> QED BY <1>1, SpineInvariant, PTL

(* "each op's return is stored in ops[i].ret": although units are reused   *)
(* and ret is read outside the lock, an op that is done was called exactly *)
(* once and has its own result, in every run of every DAG.                 *)
THEOREM ResultsAreExact == Spec => []ResultsExact
<1>1. SpineInv => ResultsExact
  <2> SUFFICES ASSUME SpineInv, NEW i \in Ops PROVE calls[i] <= 1
    BY DEF SpineInv, OpsCounted, ResultsExact
  <2>1. state[i] \in {0, 1, 2}
    BY DEF SpineInv, TypeOK
  <2>2. CASE state[i] = 1
    <3>1. PICK u \in Units : busy[u] /\ op[u] = i
      BY <2>2 DEF SpineInv, OpsCounted
    <3> QED BY <3>1 DEF SpineInv, OpsCounted
  <2> QED BY <2>1, <2>2 DEF SpineInv, OpsCounted
<1> QED BY <1>1, SpineInvariant, PTL

(* ork_spine_run returning 0: the DAG has been run to completion, every op *)
(* once, and each result is in its place; no unit still has any of it.     *)
RunComplete ==
    dpc = "returned" => /\ \A i \in Ops : calls[i] = 1 /\ ret[i] = i
                        /\ \A u \in Units : ~Calling(u)

(* What the caller of ork_spine_run is promised, for every DAG.            *)
THEOREM RunsComplete == Spec => []RunComplete
<1>1. SpineInv => RunComplete
  BY DEF SpineInv, RunComplete, RunValid, OpsCounted, Workers, BusyUnits, Running
<1> QED BY <1>1, SpineInvariant, PTL

(* A worker asleep has nothing to take and no stop to see: dispatch and    *)
(* stop signal it under its mutex, so pthread_cond_wait misses nothing.    *)
SpineNoLostWakeup ==
    \A u \in Units : wpc[u] = "asleep" => ~Pending(u) /\ ~stop[u]

(* The safety behind "the run returns and the units exit".                 *)
THEOREM SpineWakeupsKept == Spec => []SpineNoLostWakeup
<1>1. Init => SpineNoLostWakeup
  BY DEF Init, SpineNoLostWakeup
<1>2. TypeOK /\ SpineNoLostWakeup /\ [Next]_vars => SpineNoLostWakeup'
  <2> SUFFICES ASSUME TypeOK, SpineNoLostWakeup, [Next]_vars PROVE SpineNoLostWakeup'
    OBVIOUS
  <2> USE DEF TypeOK, SpineNoLostWakeup, Pending, dag, shared, worker
  <2>1. CASE \E u \in Units : Worker(u)
    BY <2>1 DEF Worker, WorkerSleep, WorkerTake, WorkerReturn, WorkerStop
  <2>2. CASE \E u \in Units : StopUnit(u) \/ Dispatch(u)
    BY <2>2 DEF StopUnit, Dispatch, Signal
  <2>3. CASE RunBegin \/ RunAgain \/ Poll
    BY <2>3 DEF RunBegin, RunAgain, Poll
  <2>4. CASE DispatchSkip \/ DispatchEnd \/ PollSkip \/ PollEnd \/ UNCHANGED vars
    BY <2>4 DEF DispatchSkip, DispatchEnd, PollSkip, PollEnd, vars
  <2> QED BY <2>1, <2>2, <2>3, <2>4 DEF Next, Scheduler
<1> QED BY <1>1, <1>2, SpineTypes, PTL DEF Spec

-----------------------------------------------------------------------------
(***************************************************************************)
(* NpuPool: for every number of cores and of jobs.                         *)
(***************************************************************************)

(* The inductive invariant.                                                *)

(* The helpers that have a part in the published job, and those of them    *)
(* that have done it: they took this job and are out of its function.      *)
Part == {i \in Helpers : i < pjob_nc}
Done == {i \in Part : mygen[i] = pgen /\ apc[i] \notin {"run", "report"}}

(* A context's jobs are numbered from 1; a helper may be any number of     *)
(* jobs behind, never ahead.                                               *)
JobsNumbered ==
    /\ pgen > 0 <=> pjob_nc > 0
    /\ mpc = "new" => pgen = 0
    /\ InJob => pgen > 0
    /\ \A i \in Helpers : mygen[i] <= pgen

(* pdone counts the helpers that are done, and outside a dispatch those    *)
(* are all that had a part.                                                *)
DoneCounted ==
    /\ pdone = Cardinality(Done)
    /\ InJob \/ Done = Part

(* An element has been run once by its owner, unless it is still to come.  *)
RanSoFar ==
    /\ ran[0] = IF pgen > 0 /\ mpc # "own" THEN 1 ELSE 0
    /\ \A i \in Helpers :
         ran[i] = IF i \in Part /\ mygen[i] = pgen /\ apc[i] # "run" THEN 1 ELSE 0

(* Whoever sleeps has nothing to do: the wake-up is never missed.          *)
Sleepers ==
    /\ mpc = "asleep" => ~AllDone
    /\ \A i \in Helpers : /\ apc[i] = "asleep" => mygen[i] = pgen /\ ~pstop
                          /\ apc[i] \in {"run", "report"} => anc[i] = pjob_nc

PoolInv ==
    PoolTypeOK /\ FrameLive /\ JobsNumbered /\ DoneCounted /\ RanSoFar /\ Sleepers
-----------------------------------------------------------------------------
(* There are finitely many helpers, so what is done of a job can be        *)
(* counted.                                                                *)
LEMMA DoneFinite ==
    /\ IsFiniteSet(Helpers) /\ IsFiniteSet(Part) /\ IsFiniteSet(Done)
    /\ Cardinality(Done) \in Nat
<1>1. IsFiniteSet(Helpers)
  BY FS_Interval, PoolAssumption DEF Helpers
<1>2. IsFiniteSet(Part) /\ IsFiniteSet(Done)
  BY <1>1, FS_Subset DEF Part, Done
<1> QED BY <1>1, <1>2, FS_CardinalityType

(* pdone reaching pjob_nc - 1 means that every helper with a part in the   *)
(* job is done with it, and only that.                                     *)
LEMMA AllDoneMeans ==
    ASSUME PoolTypeOK, JobsNumbered, DoneCounted, pgen > 0
    PROVE  AllDone <=> Done = Part
<1>1. pjob_nc \in 1 .. pool_n
  BY DEF PoolTypeOK, JobsNumbered
<1>2. Part = 1 .. (pjob_nc - 1)
  BY <1>1, PoolAssumption DEF Part, Helpers
<1>3. Cardinality(Part) = pjob_nc - 1
  BY <1>1, <1>2, FS_Interval, PoolAssumption
<1>4. Done \in SUBSET Part
  BY DEF Done
<1>5. /\ Cardinality(Done) <= Cardinality(Part)
      /\ Cardinality(Part) = Cardinality(Done) => Part = Done
  BY <1>4, DoneFinite, FS_Subset
<1> QED BY <1>1, <1>3, <1>5, DoneFinite, PoolAssumption DEF AllDone, DoneCounted

LEMMA NpuPoolInit == PoolInit => PoolInv
<1> SUFFICES ASSUME PoolInit PROVE PoolInv
  OBVIOUS
<1> USE PoolAssumption DEF PoolInit
<1>1. PoolTypeOK /\ FrameLive /\ JobsNumbered
  <2>1. 0 \in 0 .. pool_n
    OBVIOUS
  <2>2. PoolTypeOK
    BY <2>1 DEF PoolTypeOK
  <2>3. FrameLive /\ JobsNumbered
    BY DEF FrameLive, JobsNumbered, InJob
  <2> QED BY <2>2, <2>3
<1>2. Part = {} /\ Done = {}
  BY DEF Part, Done, Helpers
<1>3. DoneCounted
  BY <1>2, FS_EmptySet DEF DoneCounted
<1>4. RanSoFar /\ Sleepers
  BY <1>2 DEF RanSoFar, Sleepers, Helpers
<1> QED BY <1>1, <1>3, <1>4 DEF PoolInv

(* A step after which the same helpers are done, none is in a function     *)
(* that was not, and no element was run.                                   *)
LEMMA PoolFrame ==
    ASSUME PoolInv, PoolTypeOK',
           UNCHANGED <<pgen, pjob_nc, pdone, mygen, anc, ran>>,
           \A i \in Helpers :
              /\ apc'[i] \in {"run", "report"} <=> apc[i] \in {"run", "report"}
              /\ apc'[i] = "run" <=> apc[i] = "run",
           InJob \/ (\E i \in Helpers : apc[i] \in {"run", "report"}) => InJob' \/ Done = Part,
           InJob' => InJob, mpc' = "new" => mpc = "new", mpc' = "own" <=> mpc = "own",
           Sleepers'
    PROVE  PoolInv'
<1>0. pjob_nc \in Int /\ Helpers \subseteq Int
  BY DEF Helpers, PoolInv, PoolTypeOK
<1>1. Part' = Part /\ Done' = Done
  BY DEF Part, Done
<1>2. FrameLive'
  BY <1>0 DEF PoolInv, FrameLive, Done, Part
<1>3. JobsNumbered' /\ DoneCounted' /\ RanSoFar'
  BY <1>1 DEF PoolInv, JobsNumbered, DoneCounted, RanSoFar
<1> QED BY <1>2, <1>3 DEF PoolInv

(* A helper that wakes late takes the job published last.  If it has a     *)
(* part in it, that job's dispatcher is still there.                       *)
LEMMA PoolTake ==
    ASSUME PoolInv, NEW i \in Helpers, HelperTake(i)
    PROVE  PoolInv'
<1> USE DEF HelperTake, poolShared
<1>0. Helpers \subseteq Int /\ pjob_nc \in Int /\ i \notin Done
  BY DEF PoolInv, PoolTypeOK, Helpers, Done
<1>1. PoolTypeOK'
  BY DEF PoolInv, PoolTypeOK
<1>2. Part' = Part /\ Done' = Done
  BY <1>0 DEF Part, Done, PoolInv, PoolTypeOK
<1>3. i < pjob_nc => InJob
  BY <1>0 DEF PoolInv, DoneCounted, Part
<1>4. FrameLive'
  BY <1>3 DEF PoolInv, PoolTypeOK, FrameLive, InJob
<1>5. JobsNumbered'
  BY DEF PoolInv, PoolTypeOK, JobsNumbered
<1>6. DoneCounted'
  BY <1>2 DEF PoolInv, DoneCounted, InJob
<1>7. RanSoFar'
  BY <1>0, <1>2 DEF PoolInv, PoolTypeOK, RanSoFar, Part
<1>8. Sleepers'
  BY DEF PoolInv, PoolTypeOK, Sleepers, AllDone
<1> QED BY <1>1, <1>4, <1>5, <1>6, <1>7, <1>8 DEF PoolInv

(* A helper runs its element: nobody else does.                            *)
LEMMA PoolRun ==
    ASSUME PoolInv, NEW i \in Helpers, HelperRun(i)
    PROVE  PoolInv'
<1> USE DEF HelperRun, poolShared
<1>0. Helpers \subseteq 1 .. pool_n /\ i \in Part /\ mygen[i] = pgen /\ i # 0
  BY PoolAssumption DEF PoolInv, PoolTypeOK, FrameLive, Helpers, Part
<1>00. i \in 0 .. (pool_n - 1)
  BY PoolAssumption DEF Helpers
<1>1. PoolTypeOK'
  BY <1>00 DEF PoolInv, PoolTypeOK
<1>2. Part' = Part /\ Done' = Done
  BY DEF Part, Done, PoolInv, PoolTypeOK
<1>3. FrameLive' /\ JobsNumbered'
  BY DEF PoolInv, PoolTypeOK, FrameLive, JobsNumbered, InJob
<1>4. DoneCounted'
  BY <1>2 DEF PoolInv, DoneCounted, InJob
<1>5. RanSoFar'
  <2>1. ran'[0] = ran[0]
    BY <1>0, <1>00 DEF PoolInv, PoolTypeOK
  <2>2. ran[i] = 0 /\ ran'[i] = 1
    BY <1>00 DEF PoolInv, PoolTypeOK, RanSoFar
  <2>3. \A j \in Helpers : j # i => ran'[j] = ran[j] /\ apc'[j] = apc[j]
    BY PoolAssumption DEF PoolInv, PoolTypeOK, Helpers
  <2>4. apc'[i] = "report"
    BY DEF PoolInv, PoolTypeOK
  <2> QED BY <1>0, <1>2, <2>1, <2>2, <2>3, <2>4 DEF PoolInv, RanSoFar
<1>6. Sleepers'
  BY DEF PoolInv, PoolTypeOK, Sleepers, AllDone
<1> QED BY <1>1, <1>3, <1>4, <1>5, <1>6 DEF PoolInv

(* A helper reports: it counts once, and the last one wakes the sleeper.   *)
LEMMA PoolReport ==
    ASSUME PoolInv, NEW i \in Helpers, HelperReport(i)
    PROVE  PoolInv'
<1> USE DEF HelperReport, poolShared
<1>0. /\ i \in Part /\ i \notin Done /\ mygen[i] = pgen /\ InJob /\ anc[i] = pjob_nc
      /\ pgen \in Nat /\ pjob_nc \in 1 .. pool_n /\ pgen > 0
  BY PoolAssumption DEF PoolInv, PoolTypeOK, FrameLive, Sleepers, JobsNumbered, Part, Done, Helpers
<1>1. InJob' /\ (mpc' = "own" <=> mpc = "own") /\ mpc' # "new"
  BY <1>0 DEF InJob, SignalDone
<1>2. PoolTypeOK'
  BY <1>1 DEF PoolInv, PoolTypeOK, InJob
<1>3. Part' = Part /\ Done' = Done \cup {i}
  BY <1>0 DEF Part, Done, PoolInv, PoolTypeOK
<1>4. DoneCounted'
  BY <1>0, <1>1, <1>3, DoneFinite, FS_AddElement DEF PoolInv, DoneCounted
<1>5. FrameLive' /\ JobsNumbered'
  BY <1>1 DEF PoolInv, PoolTypeOK, FrameLive, JobsNumbered
<1>6. RanSoFar'
  BY <1>1, <1>3 DEF PoolInv, PoolTypeOK, RanSoFar
<1>7. Sleepers'
  <2>1. mpc' = "asleep" => ~AllDone'
    BY <1>0 DEF PoolInv, PoolTypeOK, Sleepers, AllDone, SignalDone
  <2> QED BY <2>1 DEF PoolInv, PoolTypeOK, Sleepers
<1> QED BY <1>2, <1>4, <1>5, <1>6, <1>7 DEF PoolInv

(* A helper that goes back to sleep or exits.                              *)
LEMMA PoolIdle ==
    ASSUME PoolInv, NEW i \in Helpers, HelperSleep(i) \/ HelperStop(i)
    PROVE  PoolInv'
<1> USE DEF HelperSleep, HelperStop, poolShared
<1>1. PoolTypeOK'
  BY DEF PoolInv, PoolTypeOK
<1>2. Sleepers'
  BY DEF PoolInv, PoolTypeOK, Sleepers, AllDone
<1> QED BY <1>1, <1>2, PoolFrame DEF PoolInv, PoolTypeOK, FrameLive, InJob

(* The threads are created: any of them may not be.                        *)
LEMMA PoolCreate ==
    ASSUME PoolInv, NEW S \in SUBSET Helpers, PoolEnsure(S)
    PROVE  PoolInv'
<1> USE DEF PoolEnsure, poolShared
<1>1. PoolTypeOK'
  BY DEF PoolInv, PoolTypeOK
<1>2. \A i \in Helpers : apc[i] \notin {"run", "report"} /\ ~InJob
  BY DEF PoolInv, FrameLive, InJob
<1>3. Sleepers'
  BY DEF Sleepers
<1> QED BY <1>1, <1>2, <1>3, PoolFrame DEF InJob

(* A job is published only when the one before is done with, by everyone   *)
(* that had a part in it; no helper has taken the new one.                 *)
LEMMA PoolPublish ==
    ASSUME PoolInv, NEW nc \in 1 .. pool_n, PoolDispatch(nc)
    PROVE  PoolInv'
<1> USE DEF PoolDispatch
<1>0. \A i \in Helpers : apc[i] \notin {"run", "report"} /\ mygen[i] # pgen'
  BY DEF PoolInv, PoolTypeOK, FrameLive, JobsNumbered, InJob
<1>1. PoolTypeOK'
  BY PoolAssumption DEF PoolInv, PoolTypeOK, Width, Broadcast
<1>2. FrameLive'
  BY <1>0 DEF FrameLive, Broadcast
<1>3. JobsNumbered'
  BY DEF PoolInv, PoolTypeOK, JobsNumbered, Width
<1>4. Done' = {}
  BY <1>0 DEF Done, Part
<1>5. DoneCounted'
  BY <1>4, FS_EmptySet DEF DoneCounted, InJob
<1>6. RanSoFar'
  BY <1>0, PoolAssumption DEF RanSoFar, Part, Helpers
<1>7. Sleepers'
  BY <1>0 DEF Sleepers, Broadcast
<1> QED BY <1>1, <1>2, <1>3, <1>5, <1>6, <1>7 DEF PoolInv

(* The dispatcher's own steps.                                             *)
LEMMA PoolDispatcher ==
    ASSUME PoolInv, Dispatcher \/ StopPool
    PROVE  PoolInv'
<1> USE DEF poolShared, helper
<1>1. CASE RunOwn
  <2>1. PoolTypeOK'
    BY <1>1, PoolAssumption DEF RunOwn, PoolInv, PoolTypeOK
  <2>2. Part' = Part /\ Done' = Done
    BY <1>1 DEF RunOwn, Part, Done
  <2>3. /\ mpc # "new" /\ InJob /\ InJob'
        /\ pgen > 0 /\ ran[0] = 0 /\ ran'[0] = 1
        /\ \A i \in Helpers : ran'[i] = ran[i]
    BY <1>1, PoolAssumption
       DEF RunOwn, InJob, PoolInv, PoolTypeOK, JobsNumbered, RanSoFar, Helpers
  <2>4. FrameLive' /\ JobsNumbered' /\ DoneCounted'
    BY <1>1, <2>2, <2>3 DEF RunOwn, PoolInv, FrameLive, JobsNumbered, DoneCounted
  <2>5. RanSoFar' /\ Sleepers'
    BY <1>1, <2>2, <2>3 DEF RunOwn, PoolInv, RanSoFar, Sleepers
  <2> QED BY <2>1, <2>4, <2>5 DEF PoolInv
<1>2. CASE WaitSleep
  BY <1>2, PoolFrame
     DEF WaitSleep, InJob, PoolInv, PoolTypeOK, Sleepers, AllDone
<1>3. CASE WaitReturn
  <2>1. Done = Part
    BY <1>3, AllDoneMeans DEF WaitReturn, PoolInv, JobsNumbered, InJob
  <2> QED BY <1>3, <2>1, PoolFrame
          DEF WaitReturn, InJob, PoolInv, PoolTypeOK, Sleepers, AllDone
<1>4. CASE JoinReturn
  BY <1>4, PoolFrame
     DEF JoinReturn, InJob, PoolInv, PoolTypeOK, FrameLive, Sleepers, AllDone
<1>5. CASE StopPool
  BY <1>5, PoolFrame
     DEF StopPool, Broadcast, InJob, PoolInv, PoolTypeOK, FrameLive, Sleepers, AllDone
<1> QED BY <1>1, <1>2, <1>3, <1>4, <1>5 DEF Dispatcher

LEMMA NpuPoolNext == PoolInv /\ [PoolNext]_poolVars => PoolInv'
<1> SUFFICES ASSUME PoolInv, [PoolNext]_poolVars PROVE PoolInv'
  OBVIOUS
<1>1. CASE UNCHANGED poolVars
  BY <1>1 DEF poolVars, poolShared, helper, PoolInv, PoolTypeOK, FrameLive, JobsNumbered,
     DoneCounted, RanSoFar, Sleepers, InJob, AllDone, Part, Done
<1>2. ASSUME NEW i \in Helpers, Helper(i) PROVE PoolInv'
  BY <1>2, PoolIdle, PoolTake, PoolRun, PoolReport DEF Helper
<1>3. CASE \/ \E S \in SUBSET Helpers : PoolEnsure(S)
           \/ \E nc \in 1 .. pool_n : PoolDispatch(nc)
           \/ Dispatcher \/ StopPool
  BY <1>3, PoolCreate, PoolPublish, PoolDispatcher
<1> QED BY <1>1, <1>2, <1>3 DEF PoolNext

LEMMA NpuPoolInvariant == PoolSpec => []PoolInv
<1> QED BY NpuPoolInit, NpuPoolNext, PTL DEF PoolSpec

-----------------------------------------------------------------------------
(* orki_npu_pool_dispatch: whichever helpers were created, woke late or    *)
(* slept through jobs they had no part in, a dispatch that returns ran     *)
(* every element of its array once and nothing else, and no helper is ever *)
(* inside the frame of a dispatch that has returned.                       *)
THEOREM JobsComplete == PoolSpec => []JobComplete
<1>1. PoolInv => JobComplete
  <2> SUFFICES ASSUME PoolInv, mpc = "idle", pgen > 0, NEW i \in 0 .. (pool_n - 1)
               PROVE  ran[i] = IF i < pjob_nc THEN 1 ELSE 0
    BY DEF PoolInv, JobComplete
  <2>1. pjob_nc > 0
    BY DEF PoolInv, JobsNumbered
  <2>2. CASE i = 0
    BY <2>1, <2>2 DEF PoolInv, RanSoFar
  <2>3. CASE i # 0
    <3>1. i \in Helpers
      BY <2>3, PoolAssumption DEF Helpers
    <3>2. Done = Part
      BY DEF PoolInv, DoneCounted, InJob
    <3> QED BY <3>1, <3>2 DEF PoolInv, RanSoFar, Part, Done
  <2> QED BY <2>2, <2>3
<1> QED BY <1>1, NpuPoolInvariant, PTL

(* The condition variables lose no wake-up: a dispatcher asleep still has  *)
(* a helper to wait for, and a helper asleep has neither a new job nor a   *)
(* stop to take note of.                                                   *)
PoolNoLostWakeup ==
    /\ mpc = "asleep" => Done # Part
    /\ \A i \in Helpers : apc[i] = "asleep" => mygen[i] = pgen /\ ~pstop

(* The safety behind "a dispatch returns": pdone is compared and changed   *)
(* under pmu, and who changes it signals.                                  *)
THEOREM PoolWakeupsKept == PoolSpec => []PoolNoLostWakeup
<1>1. PoolInv => PoolNoLostWakeup
  BY AllDoneMeans DEF PoolInv, PoolNoLostWakeup, Sleepers, JobsNumbered, InJob
<1> QED BY <1>1, NpuPoolInvariant, PTL

-----------------------------------------------------------------------------
(***************************************************************************)
(* ParallelFor: for every pool size, every set of callers and every length. *)
(***************************************************************************)

(* The split of a range.                                                   *)

(* The quotient the code rounds up: enough chunks of that length cover n.  *)
LEMMA ChunkCovers ==
    ASSUME NEW n \in Nat \ {0}, NEW nthr \in Nat \ {0}
    PROVE  /\ Chunk(n, nthr) \in Nat \ {0}
           /\ nthr * Chunk(n, nthr) >= n
<1> DEFINE q == (n + nthr - 1) \div nthr
<1>1. q \in Int /\ nthr * q <= n + nthr - 1 /\ n + nthr - 1 < nthr * (q + 1)
  OBVIOUS
<1> HIDE DEF q
<1>2. nthr * (q + 1) = nthr * q + nthr
  BY <1>1
<1>3. nthr * q >= n
  BY <1>1, <1>2
<1>4. q > 0
  BY <1>1, <1>3
<1> QED BY <1>1, <1>3, <1>4 DEF Chunk, q

(* Lanes lie inside the range, cover it and do not overlap, whether there  *)
(* are more lanes than indices or fewer.                                   *)
LEMMA LanesPartition ==
    ASSUME NEW n \in Nat, n > 1, pn \in Nat, pn > 1
    PROVE  /\ \A l \in Nat : LaneLo(n, l) \in 0 .. n /\ LaneHi(n, l) \in 0 .. n
           /\ \A x \in 0 .. (n - 1) :
                \E l \in 0 .. (pn - 1) : LaneLo(n, l) <= x /\ x < LaneHi(n, l)
           /\ \A l, m \in Nat, x \in Int :
                /\ LaneLo(n, l) <= x /\ x < LaneHi(n, l)
                /\ LaneLo(n, m) <= x /\ x < LaneHi(n, m)
                => l = m
<1> DEFINE nthr == AtMost(pn, n)
           ch == Chunk(n, nthr)
<1>1. nthr \in Nat \ {0} /\ nthr <= pn /\ nthr <= n
  BY DEF AtMost
<1>2. ch \in Nat \ {0} /\ nthr * ch >= n
  BY <1>1, ChunkCovers
<1>3. \A l \in Nat : LaneLo(n, l) = AtMost(l * ch, n) /\ LaneHi(n, l) = AtMost(LaneLo(n, l) + ch, n)
  BY DEF LaneLo, LaneHi
<1> HIDE DEF nthr, ch
<1>4. \A l \in Nat : l * ch \in Nat /\ (l + 1) * ch = l * ch + ch
  BY <1>2
<1>5. \A l \in Nat : LaneLo(n, l) \in 0 .. n /\ LaneHi(n, l) \in 0 .. n
  BY <1>2, <1>3, <1>4 DEF AtMost
<1>6. \A l \in Nat, x \in Int :
         LaneLo(n, l) <= x /\ x < LaneHi(n, l) <=> /\ l * ch <= x /\ x < l * ch + ch
                                                    /\ x < n
  BY <1>2, <1>3, <1>4 DEF AtMost
<1>7. ASSUME NEW x \in 0 .. (n - 1)
      PROVE  \E l \in 0 .. (pn - 1) : LaneLo(n, l) <= x /\ x < LaneHi(n, l)
  <2> DEFINE q == x \div ch
  <2>1. q \in Int /\ ch * q <= x /\ x < ch * (q + 1)
    BY <1>2
  <2> HIDE DEF q
  <2>2. q >= 0
    BY <1>2, <2>1
  <2>3. q < nthr
    <3> SUFFICES ASSUME q >= nthr PROVE FALSE
      BY <1>1, <2>1
    <3>1. ch * q >= ch * nthr
      BY <1>1, <1>2, <2>1
    <3>2. ch * nthr = nthr * ch
      BY <1>1, <1>2
    <3>3. ch * q \in Int /\ ch * nthr \in Int
      BY <1>1, <1>2, <2>1
    <3> HIDE DEF nthr
    <3> QED BY <1>1, <1>2, <2>1, <3>1, <3>2, <3>3
  <2>4. q * ch <= x /\ x < q * ch + ch
    BY <1>2, <2>1
  <2> QED BY <1>1, <1>6, <2>1, <2>2, <2>3, <2>4
<1>8. ASSUME NEW l \in Nat, NEW m \in Nat, NEW x \in Int, l < m,
             LaneLo(n, l) <= x, x < LaneHi(n, l), LaneLo(n, m) <= x, x < LaneHi(n, m)
      PROVE  FALSE
  <2>1. x < l * ch + ch /\ m * ch <= x
    BY <1>6, <1>8
  <2>2. (l + 1) * ch <= m * ch
    BY <1>2, <1>8
  <2> QED BY <1>4, <2>1, <2>2
<1>9. ASSUME NEW l \in Nat, NEW m \in Nat, NEW x \in Int,
             LaneLo(n, l) <= x, x < LaneHi(n, l), LaneLo(n, m) <= x, x < LaneHi(n, m)
      PROVE  l = m
  BY <1>8, <1>9
<1> QED BY <1>5, <1>7, <1>9

-----------------------------------------------------------------------------
(* The inductive invariant.                                                *)

(* The caller between its lock and its unlock of "dispatch".               *)
Holds(c) == cpc[c] \in {"split", "own", "wait", "asleep"}

(* One caller at a time, with a pool to split its range over.              *)
OneCall ==
    \A c \in Callers :
        /\ Holds(c) <=> dispatch = c
        /\ Holds(c) => inited /\ pn > 1
        /\ cpc[c] # "out" => len[c] > 1
        /\ Inside(c) => owner = c

(* The helpers that exist are those below pn; none has a job before the    *)
(* first and none is ahead.                                                *)
PoolMade ==
    /\ ~inited => pn = 0 /\ gen2 = 0
    /\ \A t \in Threads : (tpc[t] # "none" <=> t < pn) /\ seen[t] <= gen2

(* A helper in a function runs the range of its own lane, for the caller   *)
(* that holds the mutex.                                                   *)
Busy(t) == tpc[t] \in {"run", "report"}
HelpersServe ==
    \A t \in Threads : Busy(t) =>
        /\ seen[t] = gen2 /\ towner[t] = dispatch /\ dispatch \in Callers
        /\ Inside(dispatch)
        /\ tlo[t] = lo[t] /\ thi[t] = hi[t]

(* running counts the helpers that have not reported; outside a call there *)
(* is none.                                                                *)
Left == {t \in Threads : t < pn /\ (seen[t] # gen2 \/ Busy(t))}
RunningCounted ==
    /\ running = Cardinality(Left)
    /\ Left # {} => dispatch \in Callers /\ Inside(dispatch)

(* The lanes of a call are the split of its range.                         *)
LanesSplit ==
    \A c \in Callers : Inside(c) =>
        \A l \in Lanes : l < pn => lo[l] = LaneLo(len[c], l) /\ hi[l] = LaneHi(len[c], l)

(* An index has been visited once if its lane's owner has run.             *)
Visited(c, l) == IF l = 0 THEN cpc[c] # "own" ELSE seen[l] = gen2 /\ tpc[l] # "run"
InLane(l, x) == l < pn /\ lo[l] <= x /\ x < hi[l]
HitsSoFar ==
    \A c \in Callers : \A x \in Indices :
        /\ cpc[c] = "out" => hits[c][x] = IF x < len[c] THEN 1 ELSE 0
        /\ cpc[c] \in {"lock", "split"} => hits[c][x] = 0
        /\ Inside(c) =>
             hits[c][x] = IF \E l \in Lanes : InLane(l, x) /\ Visited(c, l) THEN 1 ELSE 0

(* Whoever sleeps has nothing to do.                                       *)
ParNoLostWakeup ==
    /\ \A c \in Callers : cpc[c] = "asleep" => StillRunning
    /\ \A t \in Threads : tpc[t] = "asleep" => seen[t] = gen2

ParInv == /\ ParTypeOK /\ OneCall /\ PoolMade /\ HelpersServe /\ RunningCounted
          /\ LanesSplit /\ HitsSoFar /\ ParNoLostWakeup
-----------------------------------------------------------------------------
LEMMA LeftFinite ==
    /\ IsFiniteSet(Left) /\ Cardinality(Left) \in Nat
    /\ Cardinality(Left) = 0 <=> Left = {}
<1>1. IsFiniteSet(Threads)
  BY FS_Interval, ParAssumption DEF Threads
<1>2. IsFiniteSet(Left)
  BY <1>1, FS_Subset DEF Left
<1> QED BY <1>2, FS_CardinalityType, FS_EmptySet

LEMMA IndicesAreNat == Indices \subseteq Nat
BY ParAssumption DEF Indices

(* Visiting a .. b-1 of c's range.                                         *)
LEMMA VisitMeans ==
    ASSUME ParTypeOK, NEW c \in Callers, NEW a \in Int, NEW b \in Int
    PROVE  /\ Visit(c, a, b) \in [Callers -> [Indices -> Nat]]
           /\ \A d \in Callers : d # c => Visit(c, a, b)[d] = hits[d]
           /\ \A x \in Indices : Visit(c, a, b)[c][x] =
                 IF a <= x /\ x < b THEN hits[c][x] + 1 ELSE hits[c][x]
BY IndicesAreNat DEF Visit, ParTypeOK

LEMMA ParallelInit == ParInit => ParInv
<1> SUFFICES ASSUME ParInit PROVE ParInv
  OBVIOUS
<1> USE ParAssumption DEF ParInit
<1>1. ParTypeOK
  <2>1. 0 \in 0 .. POOL_MAX
    OBVIOUS
  <2>2. hits \in [Callers -> [Indices -> Nat]]
    BY DEF NoHits
  <2>3. /\ lo \in [Lanes -> Nat] /\ hi \in [Lanes -> Nat]
        /\ len \in [Callers -> Int] /\ ncalls \in [Callers -> Nat]
        /\ cpc \in [Callers -> {"out", "lock", "split", "own", "wait", "asleep"}]
    OBVIOUS
  <2>4. /\ tpc \in [Threads -> {"none", "check", "asleep", "run", "report"}]
        /\ seen \in [Threads -> Nat] /\ tlo \in [Threads -> Nat] /\ thi \in [Threads -> Nat]
        /\ towner \in [Threads -> Callers \cup {NoCaller}]
    OBVIOUS
  <2> QED BY <2>1, <2>2, <2>3, <2>4 DEF ParTypeOK
<1>2. OneCall /\ PoolMade /\ HelpersServe /\ LanesSplit /\ ParNoLostWakeup
  BY DEF OneCall, PoolMade, HelpersServe, LanesSplit, ParNoLostWakeup, Holds, Inside, Busy,
     Threads
<1>3. Left = {}
  BY DEF Left, Threads
<1>4. RunningCounted
  BY <1>3, FS_EmptySet DEF RunningCounted
<1>5. HitsSoFar
  BY IndicesAreNat DEF HitsSoFar, NoHits, Inside
<1> QED BY <1>1, <1>2, <1>4, <1>5 DEF ParInv

(* A caller enters: with a range of at most one index it is done at once.  *)
LEMMA ParCallStep ==
    ASSUME ParInv, NEW c \in Callers, NEW n \in Lengths, ParCall(c, n)
    PROVE  ParInv'
<1> USE ParAssumption DEF ParCall, pool, thread
<1>0. /\ cpc[c] = "out" /\ ~Holds(c) /\ ~Holds(c)' /\ ~Inside(c) /\ ~Inside(c)'
      /\ \A d \in Callers : d # c => cpc'[d] = cpc[d] /\ len'[d] = len[d] /\ hits'[d] = hits[d]
      /\ \A d \in Callers : (Holds(d)' <=> Holds(d)) /\ (Inside(d)' <=> Inside(d))
  BY DEF ParInv, ParTypeOK, Holds, Inside
<1>1. ParTypeOK'
  BY DEF ParInv, ParTypeOK
<1>2. OneCall'
  BY <1>0 DEF ParInv, ParTypeOK, OneCall
<1>3. PoolMade' /\ HelpersServe' /\ RunningCounted'
  BY <1>0 DEF ParInv, PoolMade, HelpersServe, RunningCounted, Left, Busy
<1>4. LanesSplit'
  BY <1>0 DEF ParInv, LanesSplit, LaneLo, LaneHi
<1>5. HitsSoFar'
  <2> SUFFICES ASSUME NEW d \in Callers, NEW x \in Indices
               PROVE  /\ cpc'[d] = "out" => hits'[d][x] = IF x < len'[d] THEN 1 ELSE 0
                      /\ cpc'[d] \in {"lock", "split"} => hits'[d][x] = 0
                      /\ Inside(d)' => hits'[d][x] =
                           IF \E l \in Lanes : InLane(l, x)' /\ Visited(d, l)' THEN 1 ELSE 0
    BY DEF HitsSoFar
  <2>1. x \in Nat /\ n \in Int
    BY IndicesAreNat
  <2>2. CASE d = c
    BY <1>0, <2>1, <2>2 DEF ParInv, ParTypeOK
  <2>3. CASE d # c
    BY <1>0, <2>3 DEF ParInv, HitsSoFar, InLane, Visited
  <2> QED BY <2>2, <2>3
<1>6. ParNoLostWakeup'
  BY <1>0 DEF ParInv, ParTypeOK, ParNoLostWakeup, StillRunning
<1> QED BY <1>1, <1>2, <1>3, <1>4, <1>5, <1>6 DEF ParInv

(* The first caller makes the pool; with no helper in it every caller runs *)
(* its own range, and otherwise it now holds the mutex, alone.             *)
LEMMA ParEnterStep ==
    ASSUME ParInv, NEW c \in Callers, NEW wide \in 1 .. POOL_MAX, ParEnter(c, wide)
    PROVE  ParInv'
<1> USE ParAssumption DEF ParEnter, MayEnter, PoolSize
<1>0. /\ cpc[c] = "lock" /\ len[c] > 1 /\ len[c] \in Int /\ ~Holds(c) /\ ~Inside(c)
      /\ ~Inside(c)' /\ pn' = wide /\ dispatch = NoCaller
      /\ \A d \in Callers : ~Holds(d) /\ ~Inside(d) /\ ~Inside(d)'
      /\ \A d \in Callers : d # c => cpc'[d] = cpc[d] /\ hits'[d] = hits[d]
  <2>1. cpc[c] = "lock" /\ len[c] > 1 /\ pn' = wide /\ dispatch = NoCaller
    BY DEF ParInv, OneCall
  <2>2. \A d \in Callers : ~Holds(d) /\ ~Inside(d)
    BY <2>1 DEF ParInv, OneCall, Holds, Inside
  <2>3. \A d \in Callers : d # c => cpc'[d] = cpc[d] /\ hits'[d] = hits[d]
    BY <2>1, VisitMeans DEF ParInv, ParTypeOK
  <2>4. ~Inside(c)'
    BY DEF ParInv, ParTypeOK, Inside
  <2> QED BY <2>1, <2>2, <2>3, <2>4 DEF Inside, ParInv, ParTypeOK
<1>1. Left = {} /\ \A t \in Threads : ~Busy(t)
  BY <1>0 DEF ParInv, RunningCounted, HelpersServe
<1>2. /\ inited => tpc' = tpc /\ pn' = pn
      /\ ~inited => /\ gen2 = 0 /\ \A t \in Threads : seen[t] = 0
                    /\ \A t \in Threads : tpc'[t] = IF t < wide THEN "check" ELSE "none"
  <2>1. ~inited => gen2 = 0 /\ \A t \in Threads : seen[t] = 0
    BY DEF ParInv, ParTypeOK, PoolMade
  <2> QED BY <1>0, <2>1
<1>3. ParTypeOK'
  <2>1. hits' \in [Callers -> [Indices -> Nat]]
    BY <1>0, VisitMeans DEF ParInv, ParTypeOK
  <2>2. tpc' \in [Threads -> {"none", "check", "asleep", "run", "report"}]
    BY DEF ParInv, ParTypeOK
  <2>3. /\ cpc' \in [Callers -> {"out", "lock", "split", "own", "wait", "asleep"}]
        /\ dispatch' \in Callers \cup {NoCaller}
    BY DEF ParInv, ParTypeOK
  <2> QED BY <1>0, <2>1, <2>2, <2>3 DEF ParInv, ParTypeOK
<1>4. OneCall'
  <2>1. CASE wide <= 1
    BY <1>0, <2>1 DEF ParInv, ParTypeOK, OneCall, Holds, Inside
  <2>2. CASE wide > 1
    BY <1>0, <2>2 DEF ParInv, ParTypeOK, OneCall, Holds, Inside
  <2> QED BY <2>1, <2>2
<1>5. PoolMade'
  BY <1>0, <1>2 DEF ParInv, ParTypeOK, PoolMade, Threads
<1>6. Left' = {} /\ HelpersServe'
  BY <1>0, <1>1, <1>2 DEF ParInv, HelpersServe, Left, Busy
<1>7. RunningCounted'
  BY <1>1, <1>6 DEF ParInv, RunningCounted
<1>8. LanesSplit'
  BY <1>0 DEF LanesSplit
<1>9. HitsSoFar'
  <2> SUFFICES ASSUME NEW d \in Callers, NEW x \in Indices
               PROVE  /\ cpc'[d] = "out" => hits'[d][x] = IF x < len[d] THEN 1 ELSE 0
                      /\ cpc'[d] \in {"lock", "split"} => hits'[d][x] = 0
    BY <1>0 DEF HitsSoFar
  <2>1. x \in Nat
    BY IndicesAreNat
  <2>2. CASE d # c
    BY <1>0, <2>2 DEF ParInv, HitsSoFar
  <2>3. CASE d = c /\ wide <= 1
    <3>1. hits'[c][x] = IF x < len[c] THEN hits[c][x] + 1 ELSE hits[c][x]
      BY <1>0, <2>1, <2>3, VisitMeans DEF ParInv
    <3>2. cpc'[c] = "out" /\ hits[c][x] = 0
      BY <1>0, <2>3 DEF ParInv, ParTypeOK, HitsSoFar
    <3> QED BY <2>3, <3>1, <3>2
  <2>4. CASE d = c /\ wide > 1
    BY <1>0, <2>4 DEF ParInv, ParTypeOK, HitsSoFar
  <2> QED BY <2>2, <2>3, <2>4
<1>10. ParNoLostWakeup'
  BY <1>0, <1>2 DEF ParInv, ParTypeOK, ParNoLostWakeup, StillRunning, Inside, Holds
<1> QED BY <1>3, <1>4, <1>5, <1>6, <1>7, <1>8, <1>9, <1>10 DEF ParInv

(* The range is split: every helper of the pool owes a report.             *)
LEMMA ParSplitStep ==
    ASSUME ParInv, NEW c \in Callers, ParSplit(c)
    PROVE  ParInv'
<1> USE ParAssumption DEF ParSplit
<1>0. /\ dispatch = c /\ inited /\ pn > 1 /\ len[c] > 1 /\ pn \in 0 .. POOL_MAX
      /\ len[c] \in Nat /\ Inside(c)' /\ ~Inside(c) /\ gen2 \in Nat
      /\ \A d \in Callers : (Holds(d)' <=> Holds(d)) /\ (Holds(d) <=> d = c)
      /\ \A d \in Callers : d # c => ~Inside(d) /\ ~Inside(d)' /\ cpc'[d] = cpc[d]
  BY DEF ParInv, ParTypeOK, OneCall, Holds, Inside
<1>1. \A t \in Threads : ~Busy(t) /\ ~Busy(t)' /\ seen[t] # gen2'
  <2>1. \A t \in Threads : ~Busy(t)
    BY <1>0 DEF ParInv, HelpersServe
  <2> QED BY <2>1, <1>0 DEF Busy, ParInv, ParTypeOK, PoolMade
<1>2. \A l \in Lanes : l < pn => /\ lo'[l] = LaneLo(len[c], l) /\ hi'[l] = LaneHi(len[c], l)
                                /\ lo'[l] \in Nat /\ hi'[l] \in Nat
  <2>1. \A l \in Nat : LaneLo(len[c], l) \in 0 .. len[c] /\ LaneHi(len[c], l) \in 0 .. len[c]
    <3>1. pn \in Nat
      BY <1>0
    <3> QED BY <1>0, <3>1, LanesPartition
  <2>2. Lanes \subseteq Nat
    BY DEF Lanes
  <2> QED BY <1>0, <2>1, <2>2
<1>3. ParTypeOK'
  <2>1. lo' \in [Lanes -> Nat] /\ hi' \in [Lanes -> Nat]
    BY <1>2 DEF ParInv, ParTypeOK
  <2>2. running' \in Nat /\ gen2' \in Nat
    BY <1>0
  <2> QED BY <2>1, <2>2 DEF ParInv, ParTypeOK
<1>4. OneCall'
  BY <1>0 DEF ParInv, ParTypeOK, OneCall
<1>5. PoolMade'
  BY <1>0 DEF ParInv, ParTypeOK, PoolMade
<1>6. HelpersServe'
  BY <1>1 DEF HelpersServe
<1>7. Left' = 1 .. (pn - 1)
  BY <1>0, <1>1 DEF Left, Threads
<1>8. RunningCounted'
  BY <1>0, <1>7, FS_Interval DEF RunningCounted
<1>9. LanesSplit'
  BY <1>0, <1>2 DEF LanesSplit, LaneLo, LaneHi
<1>10. HitsSoFar'
  <2> SUFFICES ASSUME NEW d \in Callers, NEW x \in Indices
               PROVE  /\ cpc'[d] = "out" => hits[d][x] = IF x < len[d] THEN 1 ELSE 0
                      /\ cpc'[d] \in {"lock", "split"} => hits[d][x] = 0
                      /\ Inside(d)' => hits[d][x] =
                           IF \E l \in Lanes : InLane(l, x)' /\ Visited(d, l)' THEN 1 ELSE 0
    BY DEF HitsSoFar
  <2>1. CASE d # c
    BY <1>0, <2>1 DEF ParInv, HitsSoFar
  <2>2. CASE d = c
    <3>1. cpc'[c] = "own" /\ hits[c][x] = 0
      BY <1>0 DEF ParInv, ParTypeOK, HitsSoFar
    <3>2. \A l \in Lanes : l < pn => ~Visited(c, l)'
      BY <1>0, <1>1, <3>1 DEF Visited, Lanes, Threads
    <3> QED BY <2>2, <3>1, <3>2 DEF InLane
  <2> QED BY <2>1, <2>2
<1>11. ParNoLostWakeup'
  BY <1>0 DEF ParInv, ParTypeOK, ParNoLostWakeup, Inside, Holds
<1> QED BY <1>3, <1>4, <1>5, <1>6, <1>8, <1>9, <1>10, <1>11 DEF ParInv

(* One lane of the call is run, by whoever owns it: nobody had visited an  *)
(* index of it.                                                            *)
LEMMA LaneRuns ==
    ASSUME ParInv, NEW c \in Callers, Inside(c), Inside(c)', NEW t \in Lanes, t < pn,
           ~Visited(c, t), Visited(c, t)',
           \A l \in Lanes : l # t => (Visited(c, l)' <=> Visited(c, l)),
           UNCHANGED <<pn, lo, hi, len>>,
           \A d \in Callers : d # c => cpc'[d] = cpc[d],
           hits' = Visit(c, lo[t], hi[t])
    PROVE  HitsSoFar'
<1>0. /\ pn > 1 /\ pn \in Nat /\ len[c] \in Nat /\ len[c] > 1
      /\ lo[t] \in Int /\ hi[t] \in Int
      /\ \A d \in Callers : d # c => ~Inside(d)
      /\ cpc'[c] \notin {"out", "lock", "split"}
  BY DEF ParInv, ParTypeOK, OneCall, Holds, Inside
<1>1. /\ \A d \in Callers : d # c => hits'[d] = hits[d]
      /\ \A x \in Indices : hits'[c][x] =
            IF lo[t] <= x /\ x < hi[t] THEN hits[c][x] + 1 ELSE hits[c][x]
  BY <1>0, VisitMeans DEF ParInv
<1>2. ASSUME NEW x \in Indices
      PROVE  hits'[c][x] = IF \E l \in Lanes : InLane(l, x)' /\ Visited(c, l)' THEN 1 ELSE 0
  <2>0. x \in Nat /\ Lanes \subseteq Nat
    BY IndicesAreNat DEF Lanes
  <2>1. hits[c][x] = IF \E l \in Lanes : InLane(l, x) /\ Visited(c, l) THEN 1 ELSE 0
    BY DEF ParInv, HitsSoFar
  <2>2. \A l \in Lanes : InLane(l, x)' <=> InLane(l, x)
    BY DEF InLane
  <2>3. InLane(t, x) <=> lo[t] <= x /\ x < hi[t]
    BY DEF InLane
  <2>4. \A l \in Lanes : InLane(l, x) /\ InLane(t, x) => l = t
    <3>1. \A l \in Lanes : l < pn => lo[l] = LaneLo(len[c], l) /\ hi[l] = LaneHi(len[c], l)
      BY DEF ParInv, LanesSplit
    <3>2. \A l, m \in Nat :
             /\ LaneLo(len[c], l) <= x /\ x < LaneHi(len[c], l)
             /\ LaneLo(len[c], m) <= x /\ x < LaneHi(len[c], m)
             => l = m
      BY <1>0, <2>0, LanesPartition
    <3> QED BY <2>0, <3>1, <3>2 DEF InLane
  <2>5. CASE InLane(t, x)
    <3>1. hits[c][x] = 0
      BY <2>1, <2>4, <2>5
    <3> QED BY <1>1, <2>2, <2>3, <2>5, <3>1
  <2>6. CASE ~InLane(t, x)
    BY <1>1, <2>1, <2>2, <2>3, <2>6
  <2> QED BY <2>5, <2>6
<1> QED BY <1>0, <1>1, <1>2 DEF ParInv, HitsSoFar, Inside

LEMMA ParOwnStep ==
    ASSUME ParInv, NEW c \in Callers, ParOwn(c)
    PROVE  ParInv'
<1> USE ParAssumption DEF ParOwn, pool, thread
<1>0. /\ Inside(c) /\ Inside(c)' /\ cpc'[c] = "wait" /\ pn > 1 /\ 0 \in Lanes
      /\ lo[0] \in Int /\ hi[0] \in Int
      /\ \A d \in Callers : d # c => cpc'[d] = cpc[d]
      /\ \A d \in Callers : (Holds(d)' <=> Holds(d)) /\ (Inside(d)' <=> Inside(d))
  BY DEF ParInv, ParTypeOK, OneCall, Holds, Inside, Lanes
<1>1. ParTypeOK'
  BY <1>0, VisitMeans DEF ParInv, ParTypeOK
<1>2. OneCall'
  BY <1>0 DEF ParInv, ParTypeOK, OneCall
<1>3. PoolMade' /\ HelpersServe' /\ RunningCounted'
  BY <1>0 DEF ParInv, PoolMade, HelpersServe, RunningCounted, Left, Busy
<1>4. LanesSplit'
  BY <1>0 DEF ParInv, LanesSplit, LaneLo, LaneHi
<1>5. HitsSoFar'
  <2>1. \A l \in Lanes : l # 0 => (Visited(c, l)' <=> Visited(c, l))
    BY DEF Visited
  <2>2. ~Visited(c, 0) /\ Visited(c, 0)'
    BY <1>0 DEF Visited
  <2>3. 0 < pn
    BY <1>0 DEF ParInv, ParTypeOK
  <2>4. UNCHANGED <<pn, lo, hi, len>> /\ hits' = Visit(c, lo[0], hi[0])
    OBVIOUS
  <2> QED BY <1>0, <2>1, <2>2, <2>3, <2>4, LaneRuns
<1>6. ParNoLostWakeup'
  BY <1>0 DEF ParInv, ParNoLostWakeup, StillRunning
<1> QED BY <1>1, <1>2, <1>3, <1>4, <1>5, <1>6 DEF ParInv

LEMMA ThreadRunStep ==
    ASSUME ParInv, NEW t \in Threads, ThreadRun(t)
    PROVE  ParInv'
<1> USE ParAssumption DEF ThreadRun, pool
<1>c. PICK c \in Callers : c = dispatch /\ Inside(c)
  BY DEF ParInv, HelpersServe, Busy
<1>0. /\ c \in Callers /\ Inside(c) /\ towner[t] = c /\ seen[t] = gen2 /\ t < pn
      /\ tlo[t] = lo[t] /\ thi[t] = hi[t] /\ lo[t] \in Int /\ hi[t] \in Int
      /\ t \in Lanes /\ t # 0 /\ Lanes \ {0} \subseteq Threads
      /\ tpc'[t] = "report" /\ \A u \in Threads : u # t => tpc'[u] = tpc[u]
  <2>1. /\ towner[t] = c /\ seen[t] = gen2 /\ tlo[t] = lo[t] /\ thi[t] = hi[t]
        /\ t < pn
    BY <1>c DEF ParInv, HelpersServe, Busy, PoolMade
  <2>2. t \in Lanes /\ t # 0 /\ Lanes \ {0} \subseteq Threads
    BY DEF Threads, Lanes
  <2> QED BY <1>c, <2>1, <2>2 DEF ParInv, ParTypeOK
<1>1. \A u \in Threads : (Busy(u)' <=> Busy(u)) /\ (tpc'[u] = "asleep" <=> tpc[u] = "asleep")
                          /\ (tpc'[u] = "none" <=> tpc[u] = "none")
  BY <1>0 DEF Busy, ParInv, ParTypeOK
<1>2. ParTypeOK'
  BY <1>0, VisitMeans DEF ParInv, ParTypeOK
<1>3. OneCall' /\ LanesSplit'
  BY DEF ParInv, OneCall, LanesSplit, Holds, Inside, LaneLo, LaneHi
<1>4. PoolMade' /\ HelpersServe'
  BY <1>1 DEF ParInv, PoolMade, HelpersServe, Inside
<1>5. RunningCounted'
  <2>1. Left' = Left
    BY <1>1 DEF Left
  <2> QED BY <2>1 DEF ParInv, RunningCounted, Inside
<1>6. HitsSoFar'
  <2>1. \A l \in Lanes : l # t => (Visited(c, l)' <=> Visited(c, l))
    BY <1>0 DEF Visited
  <2>2. ~Visited(c, t) /\ Visited(c, t)'
    BY <1>0 DEF Visited
  <2>3. Inside(c)'
    BY <1>0 DEF Inside
  <2>4. UNCHANGED <<pn, lo, hi, len, cpc>> /\ hits' = Visit(c, lo[t], hi[t])
    BY <1>0
  <2> QED BY <1>0, <2>1, <2>2, <2>3, <2>4, LaneRuns
<1>7. ParNoLostWakeup'
  BY <1>1 DEF ParInv, ParNoLostWakeup, StillRunning
<1> QED BY <1>2, <1>3, <1>4, <1>5, <1>6, <1>7 DEF ParInv
(* A helper that wakes takes the lane that is its own, for the caller that *)
(* waits for it.                                                           *)
LEMMA ThreadTakeStep ==
    ASSUME ParInv, NEW t \in Threads, ThreadTake(t)
    PROVE  ParInv'
<1> USE ParAssumption DEF ThreadTake, pool
<1>0. /\ t \in Left /\ t < pn /\ ~Busy(t) /\ Busy(t)' /\ tpc'[t] = "run" /\ seen'[t] = gen2
      /\ t \in Lanes
      /\ \A u \in Threads : u # t => seen'[u] = seen[u] /\ tpc'[u] = tpc[u]
      /\ \A u \in Threads : tpc'[u] = "none" <=> tpc[u] = "none"
      /\ \A u \in Threads : tpc'[u] = "asleep" => tpc[u] = "asleep"
  <2>1. tpc[t] # "none" /\ t < pn /\ t \in Left /\ ~Busy(t)
    BY DEF ParInv, PoolMade, Left, Busy
  <2>2. /\ tpc'[t] = "run" /\ seen'[t] = gen2
        /\ \A u \in Threads : u # t => seen'[u] = seen[u] /\ tpc'[u] = tpc[u]
    BY DEF ParInv, ParTypeOK
  <2>3. t \in Lanes
    BY DEF Threads, Lanes
  <2> QED BY <2>1, <2>2, <2>3 DEF Busy
<1>c. PICK c \in Callers : c = dispatch /\ Inside(c) /\ owner = c
  BY <1>0 DEF ParInv, RunningCounted, OneCall
<1>1. ParTypeOK'
  BY <1>0 DEF ParInv, ParTypeOK
<1>2. OneCall' /\ LanesSplit'
  BY DEF ParInv, OneCall, LanesSplit, Holds, Inside, LaneLo, LaneHi
<1>3. PoolMade'
  BY <1>0 DEF ParInv, ParTypeOK, PoolMade
<1>4. HelpersServe'
  BY <1>0, <1>c DEF ParInv, ParTypeOK, HelpersServe, Busy, Inside
<1>5. RunningCounted'
  <2>1. Left' = Left
    BY <1>0 DEF Left, Busy
  <2> QED BY <1>c, <2>1 DEF ParInv, RunningCounted, Inside
<1>6. HitsSoFar'
  <2>1. \A d \in Callers, l \in Lanes : Visited(d, l)' <=> Visited(d, l)
    <3>1. \A l \in Lanes : l # 0 => l \in Threads
      BY DEF Lanes, Threads
    <3>2. seen[t] # gen2
      OBVIOUS
    <3> QED BY <1>0, <3>1, <3>2 DEF Visited
  <2> QED BY <2>1 DEF ParInv, HitsSoFar, InLane, Inside
<1>7. ParNoLostWakeup'
  BY <1>0 DEF ParInv, ParNoLostWakeup, StillRunning
<1> QED BY <1>1, <1>2, <1>3, <1>4, <1>5, <1>6, <1>7 DEF ParInv

(* A helper reports, once, and is no longer in the caller's function.      *)
LEMMA ThreadReportStep ==
    ASSUME ParInv, NEW t \in Threads, ThreadReport(t)
    PROVE  ParInv'
<1> USE ParAssumption DEF ThreadReport
<1>c. PICK c \in Callers : c = dispatch /\ Inside(c) /\ seen[t] = gen2
  BY DEF ParInv, HelpersServe, Busy
<1>0. /\ t \in Left /\ ~Busy(t)' /\ tpc'[t] = "check" /\ Busy(t)
      /\ \A u \in Threads : u # t => tpc'[u] = tpc[u]
      /\ \A u \in Threads : tpc'[u] = "none" <=> tpc[u] = "none"
  BY DEF ParInv, ParTypeOK, PoolMade, Left, Busy
<1>1. Left' = Left \ {t}
  BY <1>0, <1>c DEF Left, Busy
<1>2. running > 0 /\ running' = Cardinality(Left') /\ running' \in Nat
  <2>1. running = Cardinality(Left)
    BY DEF ParInv, RunningCounted
  <2>2. running \in Nat /\ running # 0
    BY <1>0, <2>1, LeftFinite
  <2>3. Cardinality(Left \ {t}) = Cardinality(Left) - 1
    BY <1>0, LeftFinite, FS_RemoveElement
  <2> QED BY <1>1, <2>1, <2>2, <2>3
<1>3. \A d \in Callers : /\ cpc'[d] = IF running = 1 /\ cpc[d] = "asleep" THEN "wait" ELSE cpc[d]
                         /\ (Holds(d)' <=> Holds(d)) /\ (Inside(d)' <=> Inside(d))
  BY DEF WakeCaller, Holds, Inside
<1>4. ParTypeOK'
  BY <1>2 DEF ParInv, ParTypeOK, WakeCaller
<1>5. OneCall' /\ LanesSplit'
  BY <1>3 DEF ParInv, OneCall, LanesSplit, LaneLo, LaneHi
<1>6. PoolMade' /\ HelpersServe'
  BY <1>0, <1>3 DEF ParInv, PoolMade, HelpersServe, Busy
<1>7. RunningCounted'
  BY <1>c, <1>2, <1>3 DEF RunningCounted
<1>8. HitsSoFar'
  <2>1. \A d \in Callers, l \in Lanes : Visited(d, l)' <=> Visited(d, l)
    <3>1. \A l \in Lanes : l # 0 => l \in Threads
      BY DEF Lanes, Threads
    <3> QED BY <1>0, <1>3, <3>1 DEF Visited
  <2> QED BY <1>3, <2>1 DEF ParInv, HitsSoFar, InLane
<1>9. ParNoLostWakeup'
  <2>1. running \in Nat /\ (running # 1 => running' > 0)
    BY <1>2 DEF ParInv, ParTypeOK
  <2>2. \A u \in Threads : tpc'[u] = "asleep" => tpc[u] = "asleep"
    BY <1>0
  <2> QED BY <1>3, <2>1, <2>2 DEF ParInv, ParNoLostWakeup, StillRunning
<1> QED BY <1>4, <1>5, <1>6, <1>7, <1>8, <1>9 DEF ParInv

(* Going to sleep: a helper with nothing new, a caller still owed reports. *)
LEMMA ParSleepSteps ==
    ASSUME ParInv,
           \/ \E t \in Threads : ThreadSleep(t)
           \/ \E c \in Callers : ParSleep(c)
    PROVE  ParInv'
<1> USE DEF pool, thread
<1>1. ASSUME NEW t \in Threads, ThreadSleep(t) PROVE ParInv'
  <2> USE <1>1 DEF ThreadSleep
  <2>0. \A u \in Threads : /\ Busy(u)' <=> Busy(u)
                           /\ tpc'[u] = "run" <=> tpc[u] = "run"
                           /\ tpc'[u] = "none" <=> tpc[u] = "none"
    BY DEF ParInv, ParTypeOK, Busy
  <2>1. ParTypeOK' /\ ParNoLostWakeup'
    BY DEF ParInv, ParTypeOK, ParNoLostWakeup, StillRunning
  <2>2. OneCall' /\ LanesSplit'
    BY DEF ParInv, OneCall, LanesSplit, Holds, Inside, LaneLo, LaneHi
  <2>3. PoolMade' /\ HelpersServe' /\ RunningCounted'
    BY <2>0 DEF ParInv, PoolMade, HelpersServe, RunningCounted, Left, Inside
  <2>4. HitsSoFar'
    <3>1. \A l \in Lanes : l # 0 => l \in Threads
      BY ParAssumption DEF Lanes, Threads
    <3>2. \A d \in Callers, l \in Lanes : Visited(d, l)' <=> Visited(d, l)
      BY <2>0, <3>1 DEF Visited
    <3> QED BY <3>2 DEF ParInv, HitsSoFar, InLane, Inside
  <2> QED BY <2>1, <2>2, <2>3, <2>4 DEF ParInv
<1>2. ASSUME NEW c \in Callers, ParSleep(c) PROVE ParInv'
  <2> USE <1>2 DEF ParSleep
  <2>0. \A d \in Callers : /\ (Holds(d)' <=> Holds(d)) /\ (Inside(d)' <=> Inside(d))
                           /\ \A p \in {"out", "lock", "split", "own"} : cpc'[d] = p <=> cpc[d] = p
    BY DEF ParInv, ParTypeOK, Holds, Inside
  <2>1. ParTypeOK' /\ ParNoLostWakeup'
    BY DEF ParInv, ParTypeOK, ParNoLostWakeup, StillRunning
  <2>2. OneCall' /\ LanesSplit'
    BY <2>0 DEF ParInv, OneCall, LanesSplit, LaneLo, LaneHi
  <2>3. PoolMade' /\ HelpersServe' /\ RunningCounted'
    BY <2>0 DEF ParInv, PoolMade, HelpersServe, RunningCounted, Left, Busy
  <2>4. HitsSoFar'
    <3>1. \A d \in Callers, l \in Lanes : Visited(d, l)' <=> Visited(d, l)
      BY <2>0 DEF Visited
    <3> QED BY <2>0, <3>1 DEF ParInv, HitsSoFar, InLane
  <2> QED BY <2>1, <2>2, <2>3, <2>4 DEF ParInv
<1> QED BY <1>1, <1>2

(* The call returns: nobody is left, so every lane has been run.           *)
LEMMA ParReturnStep ==
    ASSUME ParInv, NEW c \in Callers, ParReturn(c)
    PROVE  ParInv'
<1> USE ParAssumption DEF ParReturn, pool, thread
<1>0. /\ dispatch = c /\ Inside(c) /\ ~Holds(c)' /\ ~Inside(c)' /\ NoCaller \notin Callers
      /\ cpc'[c] = "out" /\ pn > 1 /\ pn \in Nat /\ len[c] > 1 /\ len[c] \in Nat
      /\ \A d \in Callers : d # c => /\ ~Holds(d) /\ ~Inside(d) /\ ~Holds(d)' /\ ~Inside(d)'
                                     /\ cpc'[d] = cpc[d]
  BY DEF ParInv, ParTypeOK, OneCall, Holds, Inside
<1>1. Left = {}
  BY LeftFinite DEF ParInv, ParTypeOK, RunningCounted, StillRunning
<1>2. ParTypeOK'
  BY DEF ParInv, ParTypeOK
<1>3. OneCall'
  BY <1>0 DEF ParInv, ParTypeOK, OneCall
<1>4. \A t \in Threads : ~Busy(t)
  BY <1>1 DEF ParInv, PoolMade, Left, Busy
<1>5. PoolMade' /\ HelpersServe' /\ RunningCounted'
  BY <1>1, <1>4 DEF ParInv, PoolMade, HelpersServe, RunningCounted, Left, Busy
<1>6. LanesSplit'
  BY <1>0 DEF LanesSplit
<1>7. HitsSoFar'
  <2> SUFFICES ASSUME NEW x \in Indices
               PROVE  hits[c][x] = IF x < len[c] THEN 1 ELSE 0
    BY <1>0 DEF ParInv, HitsSoFar
  <2>0. x \in Nat /\ Lanes \subseteq Nat /\ 0 .. (pn - 1) \subseteq Lanes
    BY IndicesAreNat DEF Lanes, ParInv, ParTypeOK
  <2>1. \A l \in Lanes : l < pn => Visited(c, l)
    BY <1>1 DEF Visited, Left, Busy, Lanes, Threads
  <2>2. hits[c][x] = IF \E l \in Lanes : InLane(l, x) THEN 1 ELSE 0
    BY <1>0, <2>1 DEF ParInv, HitsSoFar, InLane
  <2>3. \A l \in Lanes : l < pn => lo[l] = LaneLo(len[c], l) /\ hi[l] = LaneHi(len[c], l)
    BY <1>0 DEF ParInv, LanesSplit
  <2>4. (\E l \in Lanes : InLane(l, x)) <=> x < len[c]
    <3>1. ASSUME x < len[c] PROVE \E l \in Lanes : InLane(l, x)
      <4>1. x \in 0 .. (len[c] - 1)
        BY <1>0, <2>0, <3>1
      <4>2. PICK l \in 0 .. (pn - 1) : LaneLo(len[c], l) <= x /\ x < LaneHi(len[c], l)
        BY <1>0, <4>1, LanesPartition
      <4> QED BY <1>0, <2>0, <2>3, <4>2 DEF InLane
    <3>2. ASSUME NEW l \in Lanes, InLane(l, x) PROVE x < len[c]
      <4>1. LaneHi(len[c], l) \in 0 .. len[c]
        BY <1>0, <2>0, LanesPartition
      <4> QED BY <1>0, <2>0, <2>3, <3>2, <4>1 DEF InLane
    <3> QED BY <3>1, <3>2
  <2> QED BY <2>2, <2>4
<1>8. ParNoLostWakeup'
  BY <1>0 DEF ParInv, ParNoLostWakeup, StillRunning
<1> QED BY <1>2, <1>3, <1>5, <1>6, <1>7, <1>8 DEF ParInv

LEMMA ParallelNext == ParInv /\ [ParNext]_parVars => ParInv'
<1> SUFFICES ASSUME ParInv, [ParNext]_parVars PROVE ParInv'
  OBVIOUS
<1>1. CASE UNCHANGED parVars
  BY <1>1 DEF parVars, pool, thread, ParInv, ParTypeOK, OneCall, PoolMade, HelpersServe,
     RunningCounted, LanesSplit, HitsSoFar, ParNoLostWakeup, Holds, Inside, Busy, Left,
     Visited, InLane, LaneLo, LaneHi, StillRunning
<1>2. CASE \E c \in Callers : Caller(c) \/ \E n \in Lengths : ParCall(c, n)
  BY <1>2, ParCallStep, ParEnterStep, ParSplitStep, ParOwnStep, ParSleepSteps, ParReturnStep
     DEF Caller
<1>3. CASE \E t \in Threads : Thread(t)
  BY <1>3, ThreadTakeStep, ThreadRunStep, ThreadReportStep, ParSleepSteps DEF Thread
<1> QED BY <1>1, <1>2, <1>3 DEF ParNext

LEMMA ParallelInvariant == ParSpec => []ParInv
<1> QED BY ParallelInit, ParallelNext, PTL DEF ParSpec

-----------------------------------------------------------------------------
(* ork_parallel_for, for every length, every number of threads that could  *)
(* be created and any number of callers: when a call returns each index of *)
(* 0 .. n-1 was visited once and no other, and while helpers run its       *)
(* function the caller is still inside.                                    *)
THEOREM IndicesVisitedOnce == ParSpec => []EachIndexOnce
<1>1. ParInv => EachIndexOnce
  BY DEF ParInv, EachIndexOnce, CallerWaits, HelpersServe, HitsSoFar, Busy
<1> QED BY <1>1, ParallelInvariant, PTL

(* A caller asleep is still owed a report and a helper asleep has seen the *)
(* last job: the safety behind "every call returns".                       *)
THEOREM ParWakeupsKept == ParSpec => []ParNoLostWakeup
<1>1. ParInv => ParNoLostWakeup
  BY DEF ParInv
<1> QED BY <1>1, ParallelInvariant, PTL

-----------------------------------------------------------------------------
(***************************************************************************)
(* FusedChain: for any number of cores, entry points, curves, op lists and *)
(* chains.                                                                 *)
(***************************************************************************)
(* The inductive invariant.                                                *)

CurveOrNone == Curves \cup {NoCurve}
Tables == CurveOrNone \cup {Cleared, Foreign}
TaskArrays == OpLists \cup {"none", "load"}
Records == [lut_p : AllEntries \cup {NoEntryYet}, lrc : CurveOrNone, sram : Tables,
            devloaded : BOOLEAN, tk : TaskArrays, P : Nat, built : BOOLEAN, behind : BOOLEAN]
Ran == [k : Nat, landed : BOOLEAN, curve : Tables, tasks : TaskArrays, ops : OpLists,
        reused : BOOLEAN, behind : BOOLEAN]
Places == [at : {"off", "take", "load", "run"}, k : Nat, ops : OpLists \cup {"none"},
           reused : BOOLEAN]
Calls == [on : BOOLEAN, entry : AllEntries \cup {NoEntryYet}, curve : CurveOrNone, n : Nat,
          taken : Nat, rc : {0, -1, -2}, warm4 : BOOLEAN, ran : SUBSET Ran]

FcTypeOK ==
    /\ knobs \in [sticky : BOOLEAN, nothrash : BOOLEAN, f16warm : BOOLEAN]
    /\ last_dt \in FcModes
    /\ lut \in [AllEntries -> CurveOrNone]
    /\ unit \in [Fcore -> Records] /\ call \in Calls /\ core \in [Fcore -> Places]
    /\ fused \in Nat /\ events \in Nat

(* The records of a core against what they are about: the load program of  *)
(* an entry that clears the records is its array as it is now; the SRAM    *)
(* holds the load program unless it was changed behind the record; a task  *)
(* array that counts as built has the recorded length.                     *)
RecordTrue(r, arrays) ==
    /\ r.lut_p \in Biased => r.lrc = arrays[r.lut_p]
    /\ r.devloaded => r.sram = r.lrc \/ r.behind
    /\ r.built => r.tk \in OpLists /\ r.P = Length[r.tk]
RecordsTrue == \A i \in Fcore : RecordTrue(unit[i], lut)

(* Which chains have been handed out, to which core, and which have run.   *)
InHand(i) == core[i].at \in {"load", "run"}
Chain(i) == core[i].k
RanOf(j) == {r \in call.ran : r.k = j}

CallUnderWay ==
    /\ ~call.on => \A i \in Fcore : core[i].at = "off"
    /\ call.on => /\ call.entry \in AllEntries /\ call.n > 0 /\ call.taken <= call.n
                  /\ call.curve = lut[call.entry]
                  /\ \A i \in Fcore : core[i].at # "off" => core[i].ops \in OpLists
                  /\ call.entry \in RoundRobin =>
                       (\E i \in Fcore : core[i].at # "off") \/ call.taken = call.n
                  /\ call.entry \notin RoundRobin => /\ call.taken = call.n /\ call.n = 1
                                                     /\ \A i \in Fcore : core[i].at # "take"
    /\ \A i \in Fcore : InHand(i) => Chain(i) \in 1 .. call.taken
    /\ \A i, j \in Fcore : InHand(i) /\ InHand(j) /\ Chain(i) = Chain(j) => i = j

(* As long as nothing failed each chain that was handed out is with a core *)
(* or has run, once.                                                       *)
EachOnce ==
    call.rc = 0 /\ call.n > 0 =>
        /\ ~call.on => call.taken = call.n
        /\ \A r \in call.ran : r.k \in 1 .. call.taken
        /\ \A j \in 1 .. call.taken :
             \/ /\ \E i \in Fcore : InHand(i) /\ Chain(i) = j
                /\ RanOf(j) = {}
             \/ /\ ~ \E i \in Fcore : InHand(i) /\ Chain(i) = j
                /\ \E r \in call.ran : RanOf(j) = {r}

(* What a core that is about to run has in its SRAM, and what has run.     *)
ReadyToRun ==
    call.rc = 0 => \A i \in Fcore : core[i].at = "run" =>
        \/ unit[i].sram = call.curve
        \/ call.entry \notin Biased /\ core[i].reused
        \/ knobs.sticky /\ unit[i].behind
RanWell ==
    call.rc = 0 /\ call.n > 0 => \A r \in call.ran : r.landed => OwnCurve(r) /\ OwnTasks(r)

FcInv == FcTypeOK /\ RecordsTrue /\ CallUnderWay /\ EachOnce /\ ReadyToRun /\ RanWell /\ ~call.warm4

-----------------------------------------------------------------------------
(* What a record may become.                                               *)
GoodRecord(r, arrays) == r \in Records /\ RecordTrue(r, arrays)
GoodUnits(u, arrays) == u \in [Fcore -> Records] /\ \A i \in Fcore : RecordTrue(u[i], arrays)

(* Both resets, and a table of another op, keep a record good.             *)
LEMMA RecordSteps ==
    ASSUME NEW arrays, NEW r, GoodRecord(r, arrays)
    PROVE  /\ GoodRecord([r EXCEPT !.sram = Cleared, !.devloaded = FALSE, !.built = FALSE,
                                   !.behind = FALSE], arrays)
           /\ GoodRecord([r EXCEPT !.sram = Cleared, !.behind = TRUE], arrays)
           /\ GoodRecord([r EXCEPT !.sram = Foreign, !.behind = TRUE], arrays)
<1> USE DEF GoodRecord, RecordTrue, Records, Tables, CurveOrNone, TaskArrays
<1>1. GoodRecord([r EXCEPT !.sram = Cleared, !.devloaded = FALSE, !.built = FALSE,
                          !.behind = FALSE], arrays)
  OBVIOUS
<1>2. GoodRecord([r EXCEPT !.sram = Cleared, !.behind = TRUE], arrays)
  OBVIOUS
<1>3. GoodRecord([r EXCEPT !.sram = Foreign, !.behind = TRUE], arrays)
  OBVIOUS
<1> QED BY <1>1, <1>2, <1>3

(* A reset of every core, known to the records or not.                     *)
LEMMA ResetsGood ==
    ASSUME NEW arrays, NEW u, GoodUnits(u, arrays)
    PROVE  GoodUnits(ResetKnown(u), arrays) /\ GoodUnits(ResetUnknown(u), arrays)
<1>1. \A i \in Fcore : GoodRecord(u[i], arrays)
  BY DEF GoodUnits, GoodRecord
<1>2. GoodUnits(ResetKnown(u), arrays)
  BY <1>1, RecordSteps DEF GoodUnits, GoodRecord, ResetKnown
<1>3. GoodUnits(ResetUnknown(u), arrays)
  BY <1>1, RecordSteps DEF GoodUnits, GoodRecord, ResetUnknown
<1> QED BY <1>2, <1>3

(* The array of an entry is built anew.                                    *)
LEMMA ForgottenGood ==
    ASSUME FcTypeOK, RecordsTrue, NEW e \in AllEntries, NEW curve \in Curves
    PROVE  /\ [lut EXCEPT ![e] = curve] \in [AllEntries -> CurveOrNone]
           /\ GoodUnits(Forgotten(e, curve), [lut EXCEPT ![e] = curve])
<1> DEFINE arrays == [lut EXCEPT ![e] = curve]
<1>1. arrays \in [AllEntries -> CurveOrNone] /\ arrays[e] = curve
      /\ \A x \in AllEntries : x # e => arrays[x] = lut[x]
  BY DEF FcTypeOK, CurveOrNone
<1>2. Biased \subseteq AllEntries /\ NoEntryYet \notin Biased
  BY DEF Biased, AllEntries, RoundRobin, NoEntryYet
<1>3. unit \in [Fcore -> Records] /\ \A i \in Fcore : RecordTrue(unit[i], lut)
  BY DEF FcTypeOK, RecordsTrue
<1> HIDE DEF arrays
<1>4. ASSUME e \in Biased /\ lut[e] # curve PROVE GoodUnits(Forgotten(e, curve), arrays)
  <2>1. ASSUME NEW i \in Fcore
        PROVE  GoodRecord([unit[i] EXCEPT !.lut_p = NoEntryYet], arrays)
    <3>1. unit[i] \in Records /\ RecordTrue(unit[i], lut)
      BY <1>3
    <3> QED BY <3>1, <1>2 DEF GoodRecord, RecordTrue, Records
  <2> QED BY <1>4, <2>1 DEF Forgotten, GoodUnits, GoodRecord
<1>5. ASSUME ~ (e \in Biased /\ lut[e] # curve) PROVE GoodUnits(Forgotten(e, curve), arrays)
  <2>1. ASSUME NEW i \in Fcore PROVE RecordTrue(unit[i], arrays)
    BY <1>1, <1>2, <1>3, <1>5 DEF RecordTrue
  <2> QED BY <1>3, <1>5, <2>1 DEF Forgotten, GoodUnits
<1> QED BY <1>1, <1>4, <1>5 DEF arrays

(* The operating mode is entered.                                          *)
LEMMA EnterGood ==
    ASSUME NEW profile, NEW to \in FcModes, NEW arrays, NEW u, GoodUnits(u, arrays),
           ork_npu_enter(profile, to, u)
    PROVE  last_dt' \in FcModes /\ GoodUnits(unit', arrays)
BY ResetsGood DEF ork_npu_enter

(* From an int4 chain or stream the int8 chain resets the NPU.             *)
LEMMA Int4Resets ==
    ASSUME last_dt \in {"i4chain", "i4stream"}
    PROVE  Resets("CHAIN_NT", last_dt, "i8chain")
BY DEF Resets, KeptWarm, XSPEC, IntDt, KwDt, Live

-----------------------------------------------------------------------------
(* Ops between the calls.                                                  *)

(* What happens between the calls leaves the invariant alone as long as    *)
(* the records stay good.                                                  *)
LEMMA BetweenCalls ==
    ASSUME FcInv, ~call.on, UNCHANGED <<knobs, lut, call, core>>,
           last_dt' \in FcModes, GoodUnits(unit', lut), fused' \in Nat, events' \in Nat
    PROVE  FcInv'
<1> USE DEF FcInv
<1>1. FcTypeOK' /\ RecordsTrue'
  BY DEF FcTypeOK, RecordsTrue, GoodUnits
<1>2. CallUnderWay' /\ EachOnce'
  BY DEF CallUnderWay, EachOnce, InHand, Chain, RanOf
<1>3. ReadyToRun'
  <2>1. \A i \in Fcore : core'[i].at = "off"
    BY DEF CallUnderWay
  <2> QED BY <2>1 DEF ReadyToRun
<1>4. RanWell' /\ ~call'.warm4
  BY DEF RanWell, OwnCurve, OwnTasks
<1> QED BY <1>1, <1>2, <1>3, <1>4

(* The units of a state that satisfies the invariant.                      *)
LEMMA UnitsGood == FcInv => GoodUnits(unit, lut)
BY DEF FcInv, FcTypeOK, RecordsTrue, GoodUnits

LEMMA EventCounted == FcTypeOK /\ FcEvent => events' \in Nat
BY DEF FcTypeOK, FcEvent

LEMMA OtherOpKeeps == ASSUME FcInv, NEW sw \in Switches, OtherOp(sw) PROVE FcInv'
<1>1. sw[2] \in FcModes
  BY DEF Switches, FcModes
<1>2. GoodUnits(unit', lut) /\ last_dt' \in FcModes
  BY <1>1, UnitsGood, EnterGood DEF OtherOp
<1> QED BY <1>2, BetweenCalls, EventCounted DEF OtherOp, FcInv, FcTypeOK

LEMMA SdpOpKeeps == ASSUME FcInv, NEW i \in Fcore, SdpOp(i) PROVE FcInv'
<1>1. GoodUnits(unit', lut)
  BY UnitsGood, RecordSteps DEF SdpOp, GoodUnits, GoodRecord
<1>2. last_dt' \in FcModes
  BY DEF SdpOp, FcInv, FcTypeOK, FcModes
<1> QED BY <1>1, <1>2, BetweenCalls, EventCounted DEF SdpOp, FcInv, FcTypeOK

LEMMA OtherFailsKeeps == ASSUME FcInv, OtherFails PROVE FcInv'
<1>1. GoodUnits(unit', lut)
  BY UnitsGood, ResetsGood DEF OtherFails
<1> QED BY <1>1, BetweenCalls, EventCounted DEF OtherFails, FcKeep, FcInv, FcTypeOK

-----------------------------------------------------------------------------
(* A call begins and ends.                                                 *)

LEMMA CallFusedKeeps ==
    ASSUME FcAssumption, FcInv, NEW e \in Entrypoints, NEW curve \in Curves, NEW ops \in OpLists,
           NEW n \in (IF e \in RoundRobin THEN 1 .. MaxChains ELSE {1}),
           CallFused(e, curve, n, ops)
    PROVE  FcInv'
<1>1. e \in AllEntries /\ n \in Nat \ {0} /\ 0 \in Fcore /\ 0 < RrWidth(n)
      /\ (e \notin RoundRobin => n = 1 /\ RrWidth(n) = 1)
  BY DEF FcAssumption, Fcore, RrWidth
<1>2. lut' \in [AllEntries -> CurveOrNone] /\ GoodUnits(unit', lut') /\ last_dt' \in FcModes
      /\ lut' = [lut EXCEPT ![e] = curve]
  BY <1>1, ForgottenGood, EnterGood DEF CallFused, FcInv, FcModes
<1>3. /\ call'.on /\ call'.entry = e /\ call'.curve = curve /\ call'.n = n /\ call'.ran = {}
      /\ call'.taken = (IF e \in RoundRobin THEN 0 ELSE 1) /\ call'.rc = 0
      /\ call'.warm4 = (last_dt \in {"i4chain", "i4stream"}
                        /\ ~Resets("CHAIN_NT", last_dt, "i8chain"))
  BY DEF CallFused
<1>4. ~call'.warm4
  BY <1>3, Int4Resets
<1>5. call' \in Calls
  <2>1. (last_dt \in {"i4chain", "i4stream"} /\ ~Resets("CHAIN_NT", last_dt, "i8chain")) = FALSE
    BY Int4Resets
  <2> QED BY <1>1, <2>1 DEF CallFused, Calls, CurveOrNone
<1>6. ASSUME NEW i \in Fcore
      PROVE  /\ core'[i] \in Places
             /\ i >= RrWidth(n) => core'[i] = Out
             /\ i < RrWidth(n) /\ e \in RoundRobin => core'[i] = [Out EXCEPT !.at = "take", !.ops = ops]
             /\ i < RrWidth(n) /\ e \notin RoundRobin
                  => core'[i] = [Out EXCEPT !.at = "load", !.k = 1, !.ops = ops]
  <2>1. i \in Int /\ RrWidth(n) \in Int
    BY DEF Fcore, RrWidth, FcAssumption
  <2>2. core'[i] = IF i >= RrWidth(n) THEN Out
                   ELSE IF e \in RoundRobin THEN [Out EXCEPT !.at = "take", !.ops = ops]
                   ELSE [Out EXCEPT !.at = "load", !.k = 1, !.ops = ops]
    BY DEF CallFused
  <2>3. /\ Out \in Places /\ [Out EXCEPT !.at = "take", !.ops = ops] \in Places
        /\ [Out EXCEPT !.at = "load", !.k = 1, !.ops = ops] \in Places
    BY DEF Out, Places
  <2> QED BY <2>1, <2>2, <2>3
<1>7. core' \in [Fcore -> Places]
  BY <1>6 DEF CallFused
<1>8. FcTypeOK' /\ RecordsTrue'
  <2>1. knobs' = knobs /\ events' = events /\ fused' = fused + 1
    BY DEF CallFused
  <2>2. RecordsTrue' /\ unit' \in [Fcore -> Records]
    BY <1>2 DEF RecordsTrue, GoodUnits
  <2> QED BY <1>2, <1>5, <1>7, <2>1, <2>2 DEF FcInv, FcTypeOK
<1>9. ASSUME NEW i \in Fcore
      PROVE  /\ e \in RoundRobin => core'[i].at \in {"off", "take"}
             /\ e \notin RoundRobin => core'[i].at = (IF i = 0 THEN "load" ELSE "off")
             /\ core'[i].at = "load" => core'[i].k = 1 /\ i = 0
             /\ core'[i].at # "off" => core'[i].ops \in OpLists
             /\ i = 0 => core'[i].at # "off"
             /\ core'[i].at # "run"
  <2>1. i \in Nat /\ RrWidth(n) \in Nat
    BY DEF Fcore, RrWidth, FcAssumption
  <2>2. CASE i >= RrWidth(n)
    BY <1>1, <1>6, <2>1, <2>2 DEF Out
  <2>3. CASE i < RrWidth(n) /\ e \in RoundRobin
    <3>1. core'[i] = [Out EXCEPT !.at = "take", !.ops = ops]
      BY <1>6, <2>3
    <3> QED BY <2>3, <3>1 DEF Out
  <2>4. CASE i < RrWidth(n) /\ e \notin RoundRobin
    <3>1. core'[i] = [Out EXCEPT !.at = "load", !.k = 1, !.ops = ops]
      BY <1>6, <2>4
    <3>2. i = 0
      BY <1>1, <2>1, <2>4
    <3> QED BY <2>4, <3>1, <3>2 DEF Out
  <2> QED BY <2>1, <2>2, <2>3, <2>4
<1>10. CallUnderWay'
  <2>1. call'.curve = lut'[call'.entry]
    BY <1>1, <1>2, <1>3 DEF FcInv, FcTypeOK
  <2>2. call'.taken <= call'.n
    BY <1>1, <1>3
  <2>3. e \in RoundRobin => \A i \in Fcore : ~InHand(i)'
    BY <1>9 DEF InHand
  <2>4. e \notin RoundRobin => \A i \in Fcore : InHand(i)' => i = 0 /\ Chain(i)' = 1
    BY <1>9 DEF InHand, Chain
  <2> QED BY <1>1, <1>3, <1>9, <2>1, <2>2, <2>3, <2>4 DEF CallUnderWay
<1>11. EachOnce'
  <2>1. CASE e \in RoundRobin
    BY <1>3, <2>1 DEF EachOnce
  <2>2. CASE e \notin RoundRobin
    <3>1. InHand(0)' /\ Chain(0)' = 1
      BY <1>1, <1>9, <2>2 DEF InHand, Chain
    <3> QED BY <1>1, <1>3, <2>2, <3>1 DEF EachOnce, RanOf
  <2> QED BY <2>1, <2>2
<1>12. ReadyToRun' /\ RanWell'
  BY <1>3, <1>9 DEF ReadyToRun, RanWell
<1> QED BY <1>4, <1>8, <1>10, <1>11, <1>12 DEF FcInv

LEMMA CallRefusedKeeps ==
    ASSUME FcAssumption, FcInv, NEW e \in Entrypoints, NEW curve \in Curves, CallRefused(e, curve)
    PROVE  FcInv'
<1>1. e \in AllEntries
  BY DEF FcAssumption
<1>2. lut' \in [AllEntries -> CurveOrNone] /\ GoodUnits(unit', lut')
  BY <1>1, ForgottenGood DEF CallRefused, FcInv
<1>3. call' \in Calls /\ ~call'.on /\ call'.rc = -2 /\ ~call'.warm4
  BY <1>1 DEF CallRefused, FcInv, FcTypeOK, Calls, CurveOrNone
<1>4. FcTypeOK' /\ RecordsTrue'
  <2>1. UNCHANGED <<knobs, last_dt, core>> /\ fused' = fused + 1 /\ events' \in Nat
    BY EventCounted DEF CallRefused, FcInv
  <2> QED BY <1>2, <1>3, <2>1 DEF FcInv, FcTypeOK, RecordsTrue, GoodUnits
<1>5. \A i \in Fcore : core'[i].at = "off"
  BY DEF CallRefused, FcInv, CallUnderWay
<1>6. CallUnderWay'
  BY <1>3, <1>5 DEF CallUnderWay, InHand
<1>7. EachOnce' /\ ReadyToRun' /\ RanWell'
  BY <1>3 DEF EachOnce, ReadyToRun, RanWell
<1> QED BY <1>3, <1>4, <1>6, <1>7 DEF FcInv

LEMMA FusedReturnsKeeps == ASSUME FcInv, FusedReturns PROVE FcInv'
<1> USE DEF FcInv
<1>1. /\ call'.on = FALSE /\ call' \in Calls
      /\ \A f \in {"entry", "curve", "n", "taken", "rc", "warm4", "ran"} : call'[f] = call[f]
      /\ UNCHANGED <<knobs, last_dt, lut, unit, core, fused, events>>
  BY DEF FusedReturns, FcKeep, FcTypeOK, Calls
<1>2. /\ call'.entry = call.entry /\ call'.curve = call.curve /\ call'.n = call.n
      /\ call'.taken = call.taken /\ call'.rc = call.rc /\ call'.warm4 = call.warm4
      /\ call'.ran = call.ran
  BY <1>1
<1>3. FcTypeOK' /\ RecordsTrue'
  BY <1>1 DEF FcTypeOK, RecordsTrue
<1>4. CallUnderWay'
  BY <1>1, <1>2 DEF FusedReturns, CallUnderWay, InHand
<1>5. call.taken = call.n
  BY DEF FusedReturns, CallUnderWay
<1>6. EachOnce'
  BY <1>1, <1>2, <1>5 DEF EachOnce, InHand, Chain, RanOf
<1>7. ReadyToRun' /\ RanWell'
  BY <1>1, <1>2 DEF FusedReturns, ReadyToRun, RanWell, OwnCurve, OwnTasks
<1> QED BY <1>2, <1>3, <1>4, <1>6, <1>7

-----------------------------------------------------------------------------
(* A core in a call.                                                       *)

(* What a chain was taken for, or failed, leaves of the call.              *)
LEMMA TakeChainKeeps == ASSUME FcInv, NEW i \in Fcore, TakeChain(i) PROVE FcInv'
<1> USE DEF FcInv
<1>1. /\ call \in Calls /\ core \in [Fcore -> Places] /\ core[i].at = "take" /\ ~InHand(i)
      /\ UNCHANGED <<knobs, last_dt, lut, unit, fused, events>> /\ call.taken \in Nat /\ call.n \in Nat
  BY DEF TakeChain, FcKeep, FcTypeOK, InHand, Calls
<1>2. call.on
  BY <1>1 DEF CallUnderWay
<1>3. CASE call.taken < call.n
  <2>1. /\ call' = [call EXCEPT !.taken = call.taken + 1]
        /\ core' = [core EXCEPT ![i] = [core[i] EXCEPT !.at = "load", !.k = call.taken + 1]]
    BY <1>1, <1>3 DEF TakeChain
  <2>2. /\ call'.taken = call.taken + 1 /\ call'.on = call.on /\ call'.entry = call.entry
        /\ call'.curve = call.curve /\ call'.n = call.n /\ call'.rc = call.rc
        /\ call'.warm4 = call.warm4 /\ call'.ran = call.ran /\ call' \in Calls
    BY <1>1, <2>1 DEF Calls
  <2>3. /\ core' \in [Fcore -> Places] /\ \A j \in Fcore : j # i => core'[j] = core[j]
        /\ core'[i].at = "load" /\ core'[i].k = call.taken + 1 /\ core'[i].ops = core[i].ops
    <3>1. core[i] \in Places /\ call.taken + 1 \in Nat
      BY <1>1
    <3>2. [core[i] EXCEPT !.at = "load", !.k = call.taken + 1] \in Places
      BY <3>1 DEF Places
    <3>3. core'[i] = [core[i] EXCEPT !.at = "load", !.k = call.taken + 1]
      BY <1>1, <2>1
    <3>4. core' \in [Fcore -> Places] /\ \A j \in Fcore : j # i => core'[j] = core[j]
      BY <1>1, <2>1, <3>2
    <3> QED BY <3>1, <3>3, <3>4 DEF Places
  <2>4. FcTypeOK' /\ RecordsTrue'
    BY <1>1, <2>2, <2>3 DEF FcTypeOK, RecordsTrue
  <2>5. /\ InHand(i)' /\ Chain(i)' = call.taken + 1
        /\ \A j \in Fcore : j # i => (InHand(j)' <=> InHand(j)) /\ Chain(j)' = Chain(j)
        /\ \A x : RanOf(x)' = RanOf(x)
    BY <2>2, <2>3 DEF InHand, Chain, RanOf
  <2>6. CallUnderWay'
    <3>1. \A j \in Fcore : InHand(j)' => Chain(j)' \in 1 .. call'.taken
      BY <1>1, <2>2, <2>5 DEF CallUnderWay
    <3>2. \A j, x \in Fcore : InHand(j)' /\ InHand(x)' /\ Chain(j)' = Chain(x)' => j = x
      BY <1>1, <2>5 DEF CallUnderWay
    <3>3. call.entry \in RoundRobin
      BY <1>1, <1>2 DEF CallUnderWay
    <3> QED BY <1>1, <1>2, <1>3, <2>2, <2>3, <3>1, <3>2, <3>3 DEF CallUnderWay
  <2>7. EachOnce'
    <3> SUFFICES ASSUME call.rc = 0, call.n > 0 PROVE EachOnce'
      BY <2>2 DEF EachOnce
    <3>1. \A r \in call'.ran : r.k \in 1 .. call'.taken
      BY <1>1, <2>2 DEF EachOnce
    <3>2. \A j \in 1 .. call.taken : j # call.taken + 1
      BY <1>1
    <3>3. ASSUME NEW j \in 1 .. call'.taken, j # call.taken + 1
          PROVE  \/ /\ \E x \in Fcore : InHand(x)' /\ Chain(x)' = j
                    /\ RanOf(j)' = {}
                 \/ /\ ~ \E x \in Fcore : InHand(x)' /\ Chain(x)' = j
                    /\ \E r \in call'.ran : RanOf(j)' = {r}
      <4>1. j \in 1 .. call.taken
        BY <1>1, <2>2, <3>3
      <4> QED BY <1>1, <2>2, <2>5, <3>3, <4>1 DEF EachOnce
    <3>4. ASSUME NEW j, j = call.taken + 1
          PROVE  InHand(i)' /\ Chain(i)' = j /\ RanOf(j)' = {}
      <4>1. \A r \in call.ran : r.k # j
        BY <1>1, <3>2, <3>4 DEF EachOnce
      <4> QED BY <2>5, <3>4, <4>1 DEF RanOf
    <3>5. ASSUME NEW j \in 1 .. call'.taken
          PROVE  \/ /\ \E x \in Fcore : InHand(x)' /\ Chain(x)' = j
                    /\ RanOf(j)' = {}
                 \/ /\ ~ \E x \in Fcore : InHand(x)' /\ Chain(x)' = j
                    /\ \E r \in call'.ran : RanOf(j)' = {r}
      <4>1. CASE j = call.taken + 1
        BY <3>4, <4>1
      <4> QED BY <3>3, <4>1
    <3> QED BY <1>2, <2>2, <3>1, <3>5 DEF EachOnce
  <2>8. ReadyToRun' /\ RanWell'
    BY <1>1, <2>2, <2>3 DEF ReadyToRun, RanWell, OwnCurve, OwnTasks
  <2> QED BY <2>2, <2>4, <2>6, <2>7, <2>8
<1>4. CASE ~(call.taken < call.n)
  <2>1. call' = call /\ core' = [core EXCEPT ![i] = Out]
    BY <1>1, <1>4 DEF TakeChain
  <2>2. /\ core' \in [Fcore -> Places] /\ \A j \in Fcore : j # i => core'[j] = core[j]
        /\ core'[i].at = "off"
    BY <1>1, <2>1 DEF Places, Out
  <2>3. FcTypeOK' /\ RecordsTrue'
    BY <1>1, <2>1, <2>2 DEF FcTypeOK, RecordsTrue
  <2>4. /\ ~InHand(i)' /\ \A j \in Fcore : (InHand(j)' <=> InHand(j)) /\ (j # i => Chain(j)' = Chain(j))
        /\ \A x : RanOf(x)' = RanOf(x)
    BY <1>1, <2>1, <2>2 DEF InHand, Chain, RanOf
  <2>5. call.taken = call.n
    BY <1>1, <1>2, <1>4 DEF CallUnderWay
  <2>6. CallUnderWay'
    <3>1. \A j \in Fcore : InHand(j)' => Chain(j)' \in 1 .. call'.taken
      BY <1>1, <2>1, <2>4 DEF CallUnderWay
    <3>2. \A j, x \in Fcore : InHand(j)' /\ InHand(x)' /\ Chain(j)' = Chain(x)' => j = x
      BY <1>1, <2>4 DEF CallUnderWay
    <3>3. \A j \in Fcore : /\ core'[j].at # "off" => core'[j].ops \in OpLists
                           /\ call.entry \notin RoundRobin => core'[j].at # "take"
      BY <1>2, <2>2 DEF CallUnderWay
    <3> QED BY <1>1, <1>2, <2>1, <2>5, <3>1, <3>2, <3>3 DEF CallUnderWay
  <2>7. EachOnce'
    BY <1>1, <1>2, <2>1, <2>4 DEF EachOnce
  <2>8. ReadyToRun' /\ RanWell'
    BY <1>1, <2>1, <2>2 DEF ReadyToRun, RanWell, OwnCurve, OwnTasks
  <2> QED BY <2>1, <2>3, <2>6, <2>7, <2>8
<1> QED BY <1>3, <1>4

(* A core that is done with its chain goes for another or is out.          *)
LEMMA ChainOverAt ==
    ASSUME core \in [Fcore -> Places], NEW i \in Fcore, ChainOver(i)
    PROVE  /\ core' \in [Fcore -> Places] /\ \A j \in Fcore : j # i => core'[j] = core[j]
           /\ core'[i].at = (IF call.entry \in RoundRobin THEN "take" ELSE "off")
           /\ call.entry \in RoundRobin => core'[i].ops = core[i].ops
<1>1. CASE call.entry \in RoundRobin
  <2>1. core' = [core EXCEPT ![i] = [core[i] EXCEPT !.at = "take", !.reused = FALSE]]
    BY <1>1 DEF ChainOver
  <2> QED BY <1>1, <2>1 DEF Places
<1>2. CASE call.entry \notin RoundRobin
  <2>1. core' = [core EXCEPT ![i] = Out]
    BY <1>2 DEF ChainOver
  <2> QED BY <1>2, <2>1 DEF Places, Out
<1> QED BY <1>1, <1>2

(* When a chain is over the call is under way as before.                   *)
LEMMA ChainOverUnderWay ==
    ASSUME FcInv, NEW i \in Fcore, InHand(i), ChainOver(i), lut' = lut,
           call'.on = call.on, call'.entry = call.entry, call'.curve = call.curve,
           call'.n = call.n, call'.taken = call.taken
    PROVE  CallUnderWay'
<1> USE DEF FcInv
<1>1. /\ core' \in [Fcore -> Places] /\ \A j \in Fcore : j # i => core'[j] = core[j]
      /\ core'[i].at = (IF call.entry \in RoundRobin THEN "take" ELSE "off")
      /\ call.entry \in RoundRobin => core'[i].ops = core[i].ops
  BY ChainOverAt DEF FcTypeOK
<1>2. /\ ~InHand(i)' /\ \A j \in Fcore : j # i => (InHand(j)' <=> InHand(j)) /\ Chain(j)' = Chain(j)
  BY <1>1 DEF InHand, Chain
<1>3. call.on /\ core[i].at # "off"
  BY DEF CallUnderWay, InHand
<1>4. \A j \in Fcore : InHand(j)' => Chain(j)' \in 1 .. call'.taken
  BY <1>2 DEF CallUnderWay
<1>5. \A j, x \in Fcore : InHand(j)' /\ InHand(x)' /\ Chain(j)' = Chain(x)' => j = x
  BY <1>2 DEF CallUnderWay
<1>6. \A j \in Fcore : /\ core'[j].at # "off" => core'[j].ops \in OpLists
                       /\ call.entry \notin RoundRobin => core'[j].at # "take"
  BY <1>1, <1>3 DEF CallUnderWay
<1>7. call.entry \in RoundRobin => \E j \in Fcore : core'[j].at # "off"
  BY <1>1
<1> QED BY <1>1, <1>3, <1>4, <1>5, <1>6, <1>7 DEF CallUnderWay

(* A call that has failed promises nothing of its chains.                  *)
LEMMA CallFailed ==
    ASSUME FcInv, NEW i \in Fcore, InHand(i), ChainOver(i), NEW code \in {-1, -2},
           call' = [call EXCEPT !.rc = code], GoodUnits(unit', lut),
           UNCHANGED <<knobs, last_dt, lut, fused>>, events' \in Nat
    PROVE  FcInv'
<1> USE DEF FcInv
<1>1. /\ call' \in Calls /\ call'.on = call.on /\ call'.entry = call.entry /\ call'.curve = call.curve
      /\ call'.n = call.n /\ call'.taken = call.taken /\ call'.warm4 = call.warm4 /\ call'.rc = code
  BY DEF FcTypeOK, Calls
<1>2. core' \in [Fcore -> Places]
  BY ChainOverAt DEF FcTypeOK
<1>3. FcTypeOK' /\ RecordsTrue'
  BY <1>1, <1>2 DEF FcTypeOK, RecordsTrue, GoodUnits
<1>4. CallUnderWay'
  BY <1>1, ChainOverUnderWay
<1>5. EachOnce' /\ ReadyToRun' /\ RanWell'
  BY <1>1 DEF EachOnce, ReadyToRun, RanWell
<1> QED BY <1>1, <1>3, <1>4, <1>5

LEMMA ChainFailsKeeps == ASSUME FcInv, NEW i \in Fcore, ChainFails(i) PROVE FcInv'
<1>1. InHand(i) /\ events' \in Nat /\ GoodUnits(unit', lut)
  BY UnitsGood, EventCounted DEF ChainFails, InHand, FcInv
<1> QED BY <1>1, CallFailed DEF ChainFails, FcKeep

(* The load program after the check of its record, for a core whose record *)
(* is good: it is that of the curve where the entry clears the records or  *)
(* the core held another, and the SRAM holds it or was changed behind.     *)
LEMMA LutGood ==
    ASSUME FcInv, NEW i \in Fcore, call.on
    PROVE  /\ GoodRecord(WithLut(i), lut)
           /\ WithLut(i).lut_p = call.entry
           /\ WithLut(i).lrc = call.curve \/ (call.entry \notin Biased /\ Hit(i))
           /\ WithLut(i).devloaded => WithLut(i).sram = WithLut(i).lrc \/ WithLut(i).behind
           /\ WithLut(i).sram = unit[i].sram /\ WithLut(i).behind = unit[i].behind
<1>1. unit[i] \in Records /\ RecordTrue(unit[i], lut)
  BY DEF FcInv, FcTypeOK, RecordsTrue
<1>2. call.entry \in AllEntries /\ call.curve = lut[call.entry] /\ call.curve \in CurveOrNone
  BY DEF FcInv, CallUnderWay, FcTypeOK
<1>3. CASE Hit(i)
  BY <1>1, <1>2, <1>3 DEF WithLut, GoodRecord, RecordTrue, Hit
<1>4. CASE ~Hit(i)
  <2>1. /\ WithLut(i) \in Records /\ WithLut(i).lut_p = call.entry /\ WithLut(i).lrc = call.curve
        /\ WithLut(i).devloaded = FALSE /\ WithLut(i).sram = unit[i].sram
        /\ WithLut(i).behind = unit[i].behind /\ WithLut(i).built = unit[i].built
        /\ WithLut(i).tk = unit[i].tk /\ WithLut(i).P = unit[i].P
    BY <1>1, <1>2, <1>4 DEF WithLut, Patched, Records
  <2>2. PICK r : r = WithLut(i)
    OBVIOUS
  <2>3. r.built => r.tk \in OpLists /\ r.P = Length[r.tk]
    BY <1>1, <2>1, <2>2 DEF RecordTrue
  <2>4. r.lut_p \in Biased => r.lrc = lut[r.lut_p]
    BY <1>2, <2>1, <2>2
  <2>5. ~r.devloaded
    BY <2>1, <2>2
  <2>6. GoodRecord(r, lut)
    BY <2>1, <2>2, <2>3, <2>4, <2>5 DEF GoodRecord, RecordTrue
  <2>7. GoodRecord(WithLut(i), lut)
    BY <2>2, <2>6
  <2>8. ~WithLut(i).devloaded
    BY <2>1
  <2> QED BY <2>1, <2>7, <2>8
<1> QED BY <1>3, <1>4

(* What a load, or one that failed, leaves of a good record.               *)
LEMMA LoadGood ==
    ASSUME NEW arrays, NEW r, GoodRecord(r, arrays), NEW s \in Tables, NEW b \in BOOLEAN,
           s = r.sram \/ b, r.behind => b
    PROVE  /\ GoodRecord(SramLoaded(Loading(r)), arrays)
           /\ SramLoaded(Loading(r)).sram = r.lrc
           /\ GoodRecord([Loading(r) EXCEPT !.sram = s, !.behind = b], arrays)
<1> DEFINE a == Loading(r)
<1>1. /\ a \in Records /\ a.lut_p = r.lut_p /\ a.lrc = r.lrc /\ a.built = FALSE
      /\ a.devloaded = r.devloaded /\ a.sram = r.sram /\ a.behind = r.behind
  BY DEF GoodRecord, Records, TaskArrays, Loading
<1> HIDE DEF a
<1>2. r.lrc \in Tables /\ RecordTrue(r, arrays) /\ r \in Records
  BY DEF GoodRecord, Records, Tables
<1>3. GoodRecord(SramLoaded(a), arrays) /\ SramLoaded(a).sram = r.lrc
  BY <1>1, <1>2 DEF GoodRecord, RecordTrue, Records, SramLoaded
<1>4. GoodRecord([a EXCEPT !.sram = s, !.behind = b], arrays)
  <2> DEFINE c == [a EXCEPT !.sram = s, !.behind = b]
  <2>1. /\ c \in Records /\ c.lut_p = r.lut_p /\ c.lrc = r.lrc /\ c.built = FALSE
        /\ c.devloaded = r.devloaded /\ c.sram = s /\ c.behind = b
    BY <1>1 DEF Records
  <2> HIDE DEF c
  <2>2. r.devloaded => s = r.lrc \/ b
    BY <1>2 DEF RecordTrue
  <2>3. GoodRecord(c, arrays)
    BY <1>2, <2>1, <2>2 DEF GoodRecord, RecordTrue
  <2> QED BY <2>3 DEF c
<1> QED BY <1>3, <1>4 DEF a

(* The table is in the SRAM, or the submit that brings it fails.           *)
LEMMA LoadLutKeeps == ASSUME FcInv, NEW i \in Fcore, LoadLut(i) PROVE FcInv'
<1> USE DEF FcInv
<1>1. /\ core[i].at = "load" /\ InHand(i) /\ call.on /\ call \in Calls
      /\ core \in [Fcore -> Places] /\ unit \in [Fcore -> Records] /\ knobs.sticky \in BOOLEAN
      /\ UNCHANGED <<knobs, last_dt, lut, fused>>
  BY DEF LoadLut, FcKeep, InHand, FcTypeOK, CallUnderWay
<1>2. PICK u : u = WithLut(i)
  OBVIOUS
<1>3. /\ GoodRecord(u, lut) /\ u.lut_p = call.entry
      /\ u.lrc = call.curve \/ (call.entry \notin Biased /\ Hit(i))
      /\ u.devloaded => u.sram = u.lrc \/ u.behind
      /\ u.sram = unit[i].sram /\ u.behind = unit[i].behind
  BY <1>1, <1>2, LutGood
<1>4. u \in Records /\ u.sram \in Tables /\ u.behind \in BOOLEAN
  BY <1>3 DEF GoodRecord, Records
<1>5. GoodUnits(unit, lut)
  BY UnitsGood
<1>6. ASSUME unit' = [unit EXCEPT ![i] = IF knobs.sticky /\ u.devloaded THEN u
                                         ELSE SramLoaded(Loading(u))],
             core' = [core EXCEPT ![i].at = "run", ![i].reused = Hit(i)], call' = call,
             events' = events
      PROVE  FcInv'
  <2>1. /\ GoodRecord(unit'[i], lut) /\ unit'[i] \in Records
        /\ \/ unit'[i].sram = call.curve
           \/ call.entry \notin Biased /\ Hit(i)
           \/ knobs.sticky /\ unit'[i].behind
    <3>1. CASE knobs.sticky /\ u.devloaded
      <4>1. unit'[i] = u
        BY <1>1, <1>6, <3>1
      <4> QED BY <1>3, <1>4, <3>1, <4>1
    <3>2. CASE ~(knobs.sticky /\ u.devloaded)
      <4>1. unit'[i] = SramLoaded(Loading(u))
        BY <1>1, <1>6, <3>2
      <4>2. GoodRecord(SramLoaded(Loading(u)), lut) /\ SramLoaded(Loading(u)).sram = u.lrc
        BY <1>3, <1>4, LoadGood
      <4> QED BY <1>3, <4>1, <4>2 DEF GoodRecord
    <3> QED BY <3>1, <3>2
  <2>2. unit' \in [Fcore -> Records] /\ \A j \in Fcore : j # i => unit'[j] = unit[j]
    <3>1. unit' = [unit EXCEPT ![i] = unit'[i]]
      BY <1>1, <1>6
    <3> QED BY <1>1, <2>1, <3>1
  <2>3. RecordsTrue'
    BY <1>1, <2>1, <2>2 DEF RecordsTrue, GoodRecord
  <2>4. /\ core' \in [Fcore -> Places] /\ \A j \in Fcore : j # i => core'[j] = core[j]
        /\ core'[i].at = "run" /\ core'[i].k = core[i].k /\ core'[i].ops = core[i].ops
        /\ core'[i].reused = Hit(i)
    <3>1. core[i] \in Places /\ Hit(i) \in BOOLEAN
      BY <1>1 DEF Hit
    <3>2. core'[i] = [core[i] EXCEPT !.at = "run", !.reused = Hit(i)]
      BY <1>1, <1>6
    <3>3. [core[i] EXCEPT !.at = "run", !.reused = Hit(i)] \in Places
      BY <3>1 DEF Places
    <3>4. core' \in [Fcore -> Places] /\ \A j \in Fcore : j # i => core'[j] = core[j]
      BY <1>1, <1>6, <3>3
    <3> QED BY <3>1, <3>2, <3>4 DEF Places
  <2>5. FcTypeOK'
    BY <1>1, <1>6, <2>2, <2>4 DEF FcTypeOK
  <2>6. /\ \A j \in Fcore : (InHand(j)' <=> InHand(j)) /\ Chain(j)' = Chain(j)
        /\ \A x : RanOf(x)' = RanOf(x)
    BY <1>1, <1>6, <2>4 DEF InHand, Chain, RanOf
  <2>7. CallUnderWay'
    <3>1. \A j \in Fcore : InHand(j)' => Chain(j)' \in 1 .. call'.taken
      BY <1>6, <2>6 DEF CallUnderWay
    <3>2. \A j, x \in Fcore : InHand(j)' /\ InHand(x)' /\ Chain(j)' = Chain(x)' => j = x
      BY <2>6 DEF CallUnderWay
    <3>3. \A j \in Fcore : /\ core'[j].at # "off" => core'[j].ops \in OpLists
                           /\ call.entry \notin RoundRobin => core'[j].at # "take"
      BY <1>1, <2>4 DEF CallUnderWay
    <3> QED BY <1>1, <1>6, <2>4, <3>1, <3>2, <3>3 DEF CallUnderWay
  <2>8. EachOnce'
    BY <1>6, <2>6 DEF EachOnce
  <2>9. ReadyToRun'
    BY <1>1, <1>6, <2>1, <2>2, <2>4 DEF ReadyToRun
  <2>10. RanWell' /\ ~call'.warm4
    BY <1>1, <1>6 DEF RanWell, OwnCurve, OwnTasks
  <2> QED BY <2>3, <2>5, <2>7, <2>8, <2>9, <2>10
<1>7. ASSUME NEW v \in {unit, ResetUnknown(unit)}, FcEvent, ChainOver(i),
             unit' = [v EXCEPT ![i] = [Loading(u) EXCEPT !.sram = v[i].sram, !.behind = v[i].behind]],
             call' = [call EXCEPT !.rc = -1]
      PROVE  FcInv'
  <2>1. GoodUnits(v, lut)
    BY <1>5, ResetsGood
  <2>2. v[i].sram \in Tables /\ v[i].behind \in BOOLEAN
    BY <2>1 DEF GoodUnits, Records
  <2>3. (v[i].sram = u.sram \/ v[i].behind) /\ (u.behind => v[i].behind)
    <3>1. CASE v = unit
      BY <1>3, <3>1
    <3>2. CASE v = ResetUnknown(unit)
      <4>1. v[i] = [unit[i] EXCEPT !.sram = Cleared, !.behind = TRUE]
        BY <3>2 DEF ResetUnknown
      <4> QED BY <1>1, <4>1 DEF Records
    <3> QED BY <3>1, <3>2
  <2>4. GoodRecord([Loading(u) EXCEPT !.sram = v[i].sram, !.behind = v[i].behind], lut)
    BY <1>3, <2>2, <2>3, LoadGood
  <2>5. GoodUnits(unit', lut)
    BY <1>7, <2>1, <2>4 DEF GoodUnits, GoodRecord
  <2>6. events' \in Nat
    BY <1>7, EventCounted
  <2> QED BY <1>1, <1>7, <2>5, <2>6, CallFailed
<1> QED BY <1>1, <1>2, <1>6, <1>7 DEF LoadLut

(* The task array of a chain is its own or one of the same length.         *)
LEMMA TasksGood ==
    ASSUME NEW arrays, NEW r, GoodRecord(r, arrays), NEW ops \in OpLists,
           Length \in [OpLists -> Nat], knobs.sticky \in BOOLEAN
    PROVE  LET u == WithTasks(r, ops)
           IN /\ GoodRecord(u, arrays)
              /\ u.sram = r.sram /\ u.behind = r.behind
              /\ \/ u.tk = ops
                 \/ knobs.sticky /\ u.tk \in OpLists /\ Length[u.tk] = Length[ops]
<1>1. CASE knobs.sticky /\ r.devloaded /\ r.built /\ r.P = Length[ops]
  BY <1>1 DEF WithTasks, GoodRecord, RecordTrue
<1>2. CASE ~(knobs.sticky /\ r.devloaded /\ r.built /\ r.P = Length[ops])
  <2>1. WithTasks(r, ops) = [r EXCEPT !.tk = ops, !.built = TRUE, !.P = Length[ops]]
    BY <1>2 DEF WithTasks
  <2>2. Length[ops] \in Nat /\ ops \in TaskArrays
    BY DEF TaskArrays
  <2> QED BY <2>1, <2>2 DEF GoodRecord, RecordTrue, Records
<1> QED BY <1>1, <1>2

(* A chain is submitted.                                                   *)
LEMMA RunChainKeeps == ASSUME FcAssumption, FcInv, NEW i \in Fcore, RunChain(i) PROVE FcInv'
<1> USE DEF FcInv
<1>1. /\ core[i].at = "run" /\ InHand(i) /\ call.on /\ call \in Calls /\ ChainOver(i)
      /\ core \in [Fcore -> Places] /\ unit \in [Fcore -> Records] /\ knobs.sticky \in BOOLEAN
      /\ UNCHANGED <<knobs, last_dt, lut, fused>>
  BY DEF RunChain, FcKeep, InHand, FcTypeOK, CallUnderWay
<1>2. GoodUnits(unit, lut) /\ GoodRecord(unit[i], lut) /\ core[i].ops \in OpLists
  BY <1>1, UnitsGood DEF GoodUnits, GoodRecord, CallUnderWay
<1>3. PICK u : u = WithTasks(unit[i], core[i].ops)
  OBVIOUS
<1>4. /\ GoodRecord(u, lut) /\ u.sram = unit[i].sram /\ u.behind = unit[i].behind
      /\ \/ u.tk = core[i].ops
         \/ knobs.sticky /\ u.tk \in OpLists /\ Length[u.tk] = Length[core[i].ops]
  BY <1>1, <1>2, <1>3, TasksGood DEF FcAssumption
<1>5. PICK built : built = [unit EXCEPT ![i] = u]
  OBVIOUS
<1>6. GoodUnits(built, lut)
  BY <1>2, <1>4, <1>5 DEF GoodUnits, GoodRecord
<1>7. ASSUME FcEvent, unit' \in {built, ResetUnknown(built)}, call' = [call EXCEPT !.rc = -1]
      PROVE  FcInv'
  <2>1. GoodUnits(unit', lut) /\ events' \in Nat
    BY <1>6, <1>7, ResetsGood, EventCounted
  <2> QED BY <1>1, <1>7, <2>1, CallFailed
<1>8. ASSUME NEW landed \in BOOLEAN, IF landed THEN UNCHANGED events ELSE FcEvent, unit' = built,
             call' = [call EXCEPT !.ran = @ \cup
                        {[k |-> core[i].k, landed |-> landed, curve |-> u.sram, tasks |-> u.tk,
                          ops |-> core[i].ops, reused |-> core[i].reused, behind |-> u.behind]}]
      PROVE  FcInv'
  <2>1. PICK r : r = [k |-> core[i].k, landed |-> landed, curve |-> u.sram, tasks |-> u.tk,
                      ops |-> core[i].ops, reused |-> core[i].reused, behind |-> u.behind]
    OBVIOUS
  <2>2. /\ r.k = core[i].k /\ r.curve = u.sram /\ r.tasks = u.tk /\ r.ops = core[i].ops
        /\ r.reused = core[i].reused /\ r.behind = u.behind /\ r \in Ran
    BY <1>1, <1>2, <1>4, <2>1 DEF Ran, Places, GoodRecord, Records
  <2>3. /\ call' \in Calls /\ call'.on = call.on /\ call'.entry = call.entry
        /\ call'.curve = call.curve /\ call'.n = call.n /\ call'.taken = call.taken
        /\ call'.rc = call.rc /\ call'.warm4 = call.warm4 /\ call'.ran = call.ran \cup {r}
    BY <1>1, <1>8, <2>1, <2>2 DEF Calls
  <2>4. /\ core' \in [Fcore -> Places] /\ \A j \in Fcore : j # i => core'[j] = core[j]
        /\ core'[i].at \in {"off", "take"}
    BY <1>1, ChainOverAt
  <2>5. events' \in Nat
    BY <1>8, EventCounted DEF FcTypeOK
  <2>6. FcTypeOK' /\ RecordsTrue'
    BY <1>1, <1>6, <1>8, <2>3, <2>4, <2>5 DEF FcTypeOK, RecordsTrue, GoodUnits
  <2>7. CallUnderWay'
    BY <1>1, <2>3, ChainOverUnderWay
  <2>8. EachOnce'
    <3> SUFFICES ASSUME call.rc = 0, call.n > 0 PROVE EachOnce'
      BY <2>3 DEF EachOnce
    <3>1. Chain(i) \in 1 .. call.taken /\ r.k = Chain(i)
      BY <1>1, <2>2 DEF CallUnderWay, Chain
    <3>2. \A x \in call'.ran : x.k \in 1 .. call'.taken
      BY <2>3, <3>1 DEF EachOnce
    <3>3. /\ ~InHand(i)'
          /\ \A j \in Fcore : j # i => (InHand(j)' <=> InHand(j)) /\ Chain(j)' = Chain(j)
      BY <2>4 DEF InHand, Chain
    <3>4. ASSUME NEW j \in 1 .. call'.taken
          PROVE  \/ /\ \E x \in Fcore : InHand(x)' /\ Chain(x)' = j
                    /\ RanOf(j)' = {}
                 \/ /\ ~ \E x \in Fcore : InHand(x)' /\ Chain(x)' = j
                    /\ \E x \in call'.ran : RanOf(j)' = {x}
      <4>1. CASE j = Chain(i)
        <5>1. RanOf(j) = {}
          BY <1>1, <3>1, <4>1 DEF EachOnce
        <5>2. RanOf(j)' = {r} /\ r \in call'.ran
          BY <2>3, <3>1, <4>1, <5>1 DEF RanOf
        <5>3. ~ \E x \in Fcore : InHand(x)' /\ Chain(x)' = j
          BY <1>1, <3>3, <4>1 DEF CallUnderWay
        <5> QED BY <5>2, <5>3
      <4>2. CASE j # Chain(i)
        <5>1. RanOf(j)' = RanOf(j)
          BY <2>3, <3>1, <4>2 DEF RanOf
        <5>2. (\E x \in Fcore : InHand(x)' /\ Chain(x)' = j) <=> (\E x \in Fcore : InHand(x) /\ Chain(x) = j)
          BY <3>3, <4>2
        <5> QED BY <2>3, <5>1, <5>2 DEF EachOnce
      <4> QED BY <4>1, <4>2
    <3> QED BY <1>1, <2>3, <3>2, <3>4 DEF EachOnce
  <2>9. ReadyToRun'
    <3>1. \A j \in Fcore : j # i => unit'[j] = unit[j]
      BY <1>1, <1>5, <1>8
    <3> QED BY <1>1, <2>3, <2>4, <3>1 DEF ReadyToRun
  <2>10. RanWell'
    <3> SUFFICES ASSUME call.rc = 0, call.n > 0 PROVE \A x \in call'.ran : x.landed => OwnCurve(x)' /\ OwnTasks(x)'
      BY <2>3 DEF RanWell
    <3>1. OwnCurve(r)' /\ OwnTasks(r)'
      BY <1>1, <1>4, <2>2, <2>3 DEF ReadyToRun, OwnCurve, OwnTasks
    <3>2. \A x \in call.ran : x.landed => OwnCurve(x)' /\ OwnTasks(x)'
      BY <1>1, <2>3 DEF RanWell, OwnCurve, OwnTasks
    <3> QED BY <2>3, <3>1, <3>2
  <2> QED BY <2>3, <2>6, <2>7, <2>8, <2>9, <2>10
<1> QED BY <1>1, <1>3, <1>5, <1>7, <1>8 DEF RunChain

-----------------------------------------------------------------------------
(* The theorem.                                                            *)

LEMMA FcInvInit == FcAssumption /\ FcInit => FcInv
<1> SUFFICES ASSUME FcAssumption, FcInit PROVE FcInv
  OBVIOUS
<1>1. FcTypeOK
  BY DEF FcInit, FcTypeOK, FcModes, Records, Calls, Places, Out, CurveOrNone, Tables, TaskArrays,
         AllEntries, NoEntryYet, NoCurve, Cleared
<1>2. RecordsTrue
  BY DEF FcInit, RecordsTrue, RecordTrue, Biased, NoEntryYet
<1>3. \A i \in Fcore : core[i].at = "off"
  BY DEF FcInit, Out
<1>4. call.on = FALSE /\ call.n = 0 /\ call.warm4 = FALSE
  BY DEF FcInit
<1>5. CallUnderWay /\ ReadyToRun
  BY <1>3, <1>4 DEF CallUnderWay, ReadyToRun, InHand
<1>6. EachOnce /\ RanWell
  BY <1>4 DEF EachOnce, RanWell
<1> QED BY <1>1, <1>2, <1>4, <1>5, <1>6 DEF FcInv

LEMMA FcInvNext == FcAssumption /\ FcInv /\ [FcNext]_fcVars => FcInv'
<1> SUFFICES ASSUME FcAssumption, FcInv, [FcNext]_fcVars PROVE FcInv'
  OBVIOUS
<1>1. CASE FcNext
  BY <1>1, CallRefusedKeeps, CallFusedKeeps, TakeChainKeeps, ChainFailsKeeps, LoadLutKeeps,
     RunChainKeeps, SdpOpKeeps, FusedReturnsKeeps, OtherOpKeeps, OtherFailsKeeps DEF FcNext
<1>2. CASE UNCHANGED fcVars
  BY <1>2 DEF fcVars, FcInv, FcTypeOK, RecordsTrue, RecordTrue, CallUnderWay, InHand, Chain, EachOnce,
              RanOf, ReadyToRun, RanWell, OwnCurve, OwnTasks
<1> QED BY <1>1, <1>2

LEMMA FcInvariant == FcSpec => []FcInv
<1> USE FcAssumption
<1> QED BY FcInvInit, FcInvNext, PTL DEF FcSpec

(* A set with one element for every number from 1 to n has n elements.     *)
LEMMA OnePerChain ==
    ASSUME NEW n \in Nat, NEW Set, NEW key \in [Set -> 1 .. n],
           \A j \in 1 .. n : \E r \in Set : {x \in Set : key[x] = j} = {r}
    PROVE  {key[r] : r \in Set} = 1 .. n /\ Cardinality(Set) = n
<1>1. \A j \in 1 .. n : \E r \in Set : key[r] = j
  <2> SUFFICES ASSUME NEW j \in 1 .. n PROVE \E r \in Set : key[r] = j
    OBVIOUS
  <2>1. PICK r \in Set : {x \in Set : key[x] = j} = {r}
    OBVIOUS
  <2>2. r \in {x \in Set : key[x] = j}
    BY <2>1
  <2> QED BY <2>2
<1>2. PICK first : first = [j \in 1 .. n |-> CHOOSE r \in Set : key[r] = j]
  OBVIOUS
<1>3. \A j \in 1 .. n : first[j] \in Set /\ key[first[j]] = j
  BY <1>1, <1>2
<1>4. \A r \in Set : first[key[r]] = r
  <2> SUFFICES ASSUME NEW r \in Set PROVE first[key[r]] = r
    OBVIOUS
  <2>1. PICK y \in Set : {z \in Set : key[z] = key[r]} = {y}
    OBVIOUS
  <2>2. r \in {z \in Set : key[z] = key[r]} /\ first[key[r]] \in {z \in Set : key[z] = key[r]}
    BY <1>3
  <2> QED BY <2>1, <2>2
<1>5. first \in Bijection(1 .. n, Set)
  <2>1. first \in [1 .. n -> Set]
    BY <1>2, <1>3
  <2>2. \A i, j \in 1 .. n : first[i] = first[j] => i = j
    BY <1>3
  <2>3. \A r \in Set : \E j \in 1 .. n : first[j] = r
    BY <1>4
  <2> QED BY <2>1, <2>2, <2>3 DEF Bijection, Injection, Surjection, IsInjective
<1>6. IsFiniteSet(1 .. n) /\ Cardinality(1 .. n) = n
  BY FS_Interval
<1>7. Cardinality(Set) = n
  BY <1>5, <1>6, FS_Bijection DEF ExistsBijection
<1>8. {key[r] : r \in Set} = 1 .. n
  BY <1>1
<1> QED BY <1>7, <1>8

(* A call of a fused chain that returns 0 has run each of its chains once, *)
(* every one that landed with its curve and its op list, as FusedExact     *)
(* says, and never without the reset after an int4 chain.                  *)
THEOREM FusedIsExact == FcSpec => []FusedExact
<1>1. FcInv => FusedExact
  <2> SUFFICES ASSUME FcInv, ~call.on, call.rc = 0, call.n > 0 PROVE FusedExact
    BY DEF FusedExact
  <2> USE DEF FcInv
  <2>1. call.n \in Nat /\ call.taken = call.n /\ \A i \in Fcore : ~InHand(i)
    BY DEF FcTypeOK, Calls, EachOnce, CallUnderWay, InHand
  <2>2. \A r \in call.ran : r.k \in 1 .. call.n
    BY <2>1 DEF EachOnce
  <2>3. \A j \in 1 .. call.n : \E r \in call.ran : {x \in call.ran : x.k = j} = {r}
    BY <2>1 DEF EachOnce, RanOf
  <2>4. {r.k : r \in call.ran} = 1 .. call.n /\ Cardinality(call.ran) = call.n
    <3>1. PICK key : key = [r \in call.ran |-> r.k]
      OBVIOUS
    <3>2. \A r \in call.ran : key[r] = r.k
      BY <3>1
    <3>3. key \in [call.ran -> 1 .. call.n]
      BY <2>2, <3>1
    <3>4. \A j \in 1 .. call.n : \E r \in call.ran : {x \in call.ran : key[x] = j} = {r}
      <4> SUFFICES ASSUME NEW j \in 1 .. call.n
                   PROVE  \E r \in call.ran : {x \in call.ran : key[x] = j} = {r}
        OBVIOUS
      <4>1. {x \in call.ran : key[x] = j} = {x \in call.ran : x.k = j}
        BY <3>2
      <4> QED BY <2>3, <4>1
    <3>5. {key[r] : r \in call.ran} = 1 .. call.n /\ Cardinality(call.ran) = call.n
      BY <2>1, <3>3, <3>4, OnePerChain
    <3>6. {key[r] : r \in call.ran} = {r.k : r \in call.ran}
      BY <3>2
    <3> QED BY <3>5, <3>6
  <2> QED BY <2>4 DEF FusedExact, RanWell
<1> QED BY <1>1, FcInvariant, PTL
=============================================================================
