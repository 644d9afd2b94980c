----------------------------- MODULE ParallelFor -----------------------------
(***************************************************************************)
(* ork_parallel_for of src/npu/core/sched.c: the process-wide pool that    *)
(* packing and tiling split their index ranges over.                       *)
(*                                                                         *)
(* Any thread may call it; calls are serialised by a "dispatch" mutex, and *)
(* the threads are made by the first call that needs them.  The function   *)
(* and its context belong to the caller, so no thread may touch them once  *)
(* the call has returned.                                                  *)
(***************************************************************************)
EXTENDS Integers, FiniteSets

CONSTANTS
    Callers,     \* the threads that call ork_parallel_for
    NoCaller,
    POOL_MAX,    \* cores * ORK_POOL_MULT, at most ORK_POOL_MAX
    Lengths,     \* the lengths they pass
    MaxCalls     \* bound: calls per caller

ASSUME ParAssumption ==
    /\ POOL_MAX \in Nat \ {0}
    /\ Lengths \subseteq Int
    /\ NoCaller \notin Callers
    /\ MaxCalls \in Nat

Threads == 1 .. (POOL_MAX - 1)
Lanes == 0 .. (POOL_MAX - 1)

VARIABLES
    dispatch,                      \* holder of the dispatch mutex
    inited, pn, gen2, owner,       \* orki_pool: n, gen, fn/ctx (whose they are)
    lo, hi, running,
    tpc, seen, tlo, thi, towner,   \* helpers: position, gen seen, range and fn taken
    cpc, len, ncalls,              \* callers: position, n
    hits                           \* history: visits of each index of a caller's range

pool == <<inited, pn, gen2, owner, lo, hi, running>>
thread == <<tpc, seen, tlo, thi, towner>>
parVars == <<dispatch, pool, thread, cpc, len, ncalls, hits>>

Indices == UNION {0 .. (n - 1) : n \in Lengths}
NoHits == [x \in Indices |-> 0]

ParInit ==
    /\ dispatch = NoCaller
    /\ inited = FALSE /\ pn = 0 /\ gen2 = 0 /\ owner = NoCaller /\ running = 0
    /\ lo = [t \in Lanes |-> 0] /\ hi = [t \in Lanes |-> 0]
    /\ tpc = [t \in Threads |-> "none"]
    /\ seen = [t \in Threads |-> 0]
    /\ tlo = [t \in Threads |-> 0] /\ thi = [t \in Threads |-> 0]
    /\ towner = [t \in Threads |-> NoCaller]
    /\ cpc = [c \in Callers |-> "out"]
    /\ len = [c \in Callers |-> 0]
    /\ ncalls = [c \in Callers |-> 0]
    /\ hits = [c \in Callers |-> NoHits]

(* fn(a, b, ctx) visits a .. b-1 of c's range.                             *)
Visit(c, a, b) ==
    [hits EXCEPT ![c] = [x \in Indices |-> IF a <= x /\ x < b THEN @[x] + 1 ELSE @[x]]]

-----------------------------------------------------------------------------
(* ork_parallel_for                                                        *)

(* n <= 0 does nothing; n = 1 runs on the caller and takes no lock.        *)
ParCall(c, n) ==
    /\ cpc[c] = "out" /\ ncalls[c] < MaxCalls
    /\ ncalls' = [ncalls EXCEPT ![c] = @ + 1]
    /\ len' = [len EXCEPT ![c] = n]
    /\ hits' = [hits EXCEPT ![c] = [x \in Indices |-> IF n = 1 /\ x = 0 THEN 1 ELSE 0]]
    /\ cpc' = [cpc EXCEPT ![c] = IF n <= 1 THEN "out" ELSE "lock"]
    /\ UNCHANGED <<dispatch, pool, thread>>

(* Mutant: a caller does not wait for the mutex.                           *)
MayEnter_Always == TRUE
MayEnter == dispatch = NoCaller

(* Helpers 1 .. k-1 were created.                                          *)
PoolSize(k) == k

(* The mutex, ork_pool_init (pthread_create fails first for helper k) and  *)
(* the case of a pool of one, which unlocks and runs inline.               *)
ParEnter(c, k) ==
    LET n == IF inited THEN pn ELSE PoolSize(k) IN
    /\ cpc[c] = "lock" /\ MayEnter
    /\ inited => k = pn
    /\ inited' = TRUE
    /\ pn' = n
    /\ tpc' = IF inited THEN tpc
              ELSE [t \in Threads |-> IF t < n THEN "check" ELSE "none"]
    /\ IF n <= 1
       THEN /\ hits' = Visit(c, 0, len[c])
            /\ cpc' = [cpc EXCEPT ![c] = "out"]
            /\ UNCHANGED dispatch
       ELSE /\ dispatch' = c
            /\ cpc' = [cpc EXCEPT ![c] = "split"]
            /\ UNCHANGED hits
    /\ UNCHANGED <<gen2, owner, lo, hi, running, seen, tlo, thi, towner, len, ncalls>>

Chunk(n, nthr) == (n + nthr - 1) \div nthr
StillRunning == running > 0

AtMost(a, b) == IF a > b THEN b ELSE a

(* Lane t's range: every lane gets one, the idle ones an empty one.        *)
LaneLo(n, t) == AtMost(t * Chunk(n, AtMost(pn, n)), n)
LaneHi(n, t) == AtMost(LaneLo(n, t) + Chunk(n, AtMost(pn, n)), n)

ParSplit(c) ==
    /\ cpc[c] = "split"
    /\ owner' = c
    /\ lo' = [t \in Lanes |-> IF t < pn THEN LaneLo(len[c], t) ELSE lo[t]]
    /\ hi' = [t \in Lanes |-> IF t < pn THEN LaneHi(len[c], t) ELSE hi[t]]
    /\ running' = pn - 1
    /\ gen2' = gen2 + 1
    /\ tpc' = [t \in Threads |-> IF tpc[t] = "asleep" THEN "check" ELSE tpc[t]]
    /\ cpc' = [cpc EXCEPT ![c] = "own"]
    /\ UNCHANGED <<dispatch, inited, pn, seen, tlo, thi, towner, len, ncalls, hits>>

(* The caller runs chunk 0.                                                *)
ParOwn(c) ==
    /\ cpc[c] = "own"
    /\ hits' = Visit(c, lo[0], hi[0])
    /\ cpc' = [cpc EXCEPT ![c] = "wait"]
    /\ UNCHANGED <<dispatch, pool, thread, len, ncalls>>

ParSleep(c) ==
    /\ cpc[c] = "wait" /\ StillRunning
    /\ cpc' = [cpc EXCEPT ![c] = "asleep"]
    /\ UNCHANGED <<dispatch, pool, thread, len, ncalls, hits>>

ParReturn(c) ==
    /\ cpc[c] = "wait" /\ ~StillRunning
    /\ dispatch' = NoCaller
    /\ cpc' = [cpc EXCEPT ![c] = "out"]
    /\ UNCHANGED <<pool, thread, len, ncalls, hits>>

-----------------------------------------------------------------------------
(* ork_pool_worker; quit is never set.                                     *)

ThreadSleep(t) ==
    /\ tpc[t] = "check" /\ gen2 = seen[t]
    /\ tpc' = [tpc EXCEPT ![t] = "asleep"]
    /\ UNCHANGED <<dispatch, pool, seen, tlo, thi, towner, cpc, len, ncalls, hits>>

ThreadTake(t) ==
    /\ tpc[t] = "check" /\ gen2 # seen[t]
    /\ seen' = [seen EXCEPT ![t] = gen2]
    /\ tlo' = [tlo EXCEPT ![t] = lo[t]]
    /\ thi' = [thi EXCEPT ![t] = hi[t]]
    /\ towner' = [towner EXCEPT ![t] = owner]
    /\ tpc' = [tpc EXCEPT ![t] = "run"]
    /\ UNCHANGED <<dispatch, pool, cpc, len, ncalls, hits>>

ThreadRun(t) ==
    /\ tpc[t] = "run"
    /\ hits' = Visit(towner[t], tlo[t], thi[t])
    /\ tpc' = [tpc EXCEPT ![t] = "report"]
    /\ UNCHANGED <<dispatch, pool, seen, tlo, thi, towner, cpc, len, ncalls>>

(* The last helper to finish signals.                                      *)
WakeCaller ==
    [c \in Callers |-> IF running = 1 /\ cpc[c] = "asleep" THEN "wait" ELSE cpc[c]]

ThreadReport(t) ==
    /\ tpc[t] = "report"
    /\ running' = running - 1
    /\ cpc' = WakeCaller
    /\ tpc' = [tpc EXCEPT ![t] = "check"]
    /\ UNCHANGED <<dispatch, inited, pn, gen2, owner, lo, hi, seen, tlo, thi, towner,
                   len, ncalls, hits>>

-----------------------------------------------------------------------------
Thread(t) == ThreadSleep(t) \/ ThreadTake(t) \/ ThreadRun(t) \/ ThreadReport(t)
Caller(c) == \/ \E k \in 1 .. POOL_MAX : ParEnter(c, k)
             \/ ParSplit(c) \/ ParOwn(c) \/ ParSleep(c) \/ ParReturn(c)

ParNext == \/ \E c \in Callers : Caller(c) \/ \E n \in Lengths : ParCall(c, n)
           \/ \E t \in Threads : Thread(t)

ParSpec == ParInit /\ [][ParNext]_parVars

(* Threads are scheduled and their functions return.  The dispatch mutex   *)
(* need not be fair: the other callers make MaxCalls calls each.           *)
ParFairness == /\ \A c \in Callers : WF_parVars(Caller(c))
               /\ \A t \in Threads : WF_parVars(Thread(t))

-----------------------------------------------------------------------------
Inside(c) == cpc[c] \in {"own", "wait", "asleep"}

ParTypeOK ==
    /\ dispatch \in Callers \cup {NoCaller} /\ owner \in Callers \cup {NoCaller}
    /\ inited \in BOOLEAN /\ pn \in 0 .. POOL_MAX /\ gen2 \in Nat /\ running \in Nat
    /\ lo \in [Lanes -> Nat] /\ hi \in [Lanes -> Nat]
    /\ tpc \in [Threads -> {"none", "check", "asleep", "run", "report"}]
    /\ seen \in [Threads -> Nat]
    /\ tlo \in [Threads -> Nat] /\ thi \in [Threads -> Nat]
    /\ towner \in [Threads -> Callers \cup {NoCaller}]
    /\ cpc \in [Callers -> {"out", "lock", "split", "own", "wait", "asleep"}]
    /\ len \in [Callers -> Int] /\ ncalls \in [Callers -> Nat]
    /\ hits \in [Callers -> [Indices -> Nat]]

(* "pool is a shared singleton - one job at a time": a helper that runs a  *)
(* function runs it for a caller that is still inside its call, so the     *)
(* context on that caller's stack exists.                                  *)
CallerWaits ==
    \A t \in Threads : tpc[t] \in {"run", "report"} => Inside(towner[t]) /\ towner[t] = dispatch

(* When a call returns every index of 0 .. n-1 was visited exactly once    *)
(* and no other was: the chunks partition the range for every length and   *)
(* every number of threads that could be created.  While it runs, every    *)
(* thread in its function is one that it waits for.                        *)
EachIndexOnce ==
    /\ ParTypeOK /\ CallerWaits
    /\ \A c \in Callers : cpc[c] = "out" =>
        \A x \in Indices : hits[c][x] = IF x < len[c] THEN 1 ELSE 0

(* Every call returns.                                                     *)
CallReturns == \A c \in Callers : cpc[c] = "lock" ~> cpc[c] = "out"
==============================================================================
