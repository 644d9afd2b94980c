------------------------------- MODULE NpuPool -------------------------------
(***************************************************************************)
(* The per-context worker pool of src/npu/core/sched.c, through which the  *)
(* multi-core paths (column split, chain batches, stream and de-tile       *)
(* workers) run one function per NPU core.                                 *)
(*                                                                         *)
(* The dispatcher is the thread that owns the context.  It publishes an    *)
(* array of arguments that lives on its own stack, runs element 0 itself   *)
(* and waits for the workers that own elements 1 .. nc-1.  A step is one   *)
(* critical section of pmu, or the call between two of them;               *)
(* pthread_cond_wait is two steps, so that a wake-up may be missed.        *)
(***************************************************************************)
EXTENDS Integers, FiniteSets

CONSTANTS
    pool_n,      \* min(soc cores, ORK_MAXCORE): threads, the caller included
    MaxJobs      \* bound: dispatches of one context

ASSUME PoolAssumption == pool_n \in Nat \ {0} /\ MaxJobs \in Nat

Helpers == 1 .. (pool_n - 1)

VARIABLES
    pgen, pjob_nc, pdone, pstop,   \* shared, under pmu; pgen names the job's arguments
    apc, mygen, anc,               \* helpers: position, job taken, its width
    mpc, made,                     \* dispatcher: position; helpers that exist
    ran                            \* history: calls of the job's function per element

poolShared == <<pgen, pjob_nc, pdone, pstop>>
helper == <<apc, mygen, anc>>
poolVars == <<poolShared, helper, mpc, made, ran>>

PoolInit ==
    /\ pgen = 0 /\ pjob_nc = 0 /\ pdone = 0 /\ pstop = FALSE
    /\ apc = [i \in Helpers |-> "none"]
    /\ mygen = [i \in Helpers |-> 0]
    /\ anc = [i \in Helpers |-> 0]
    /\ mpc = "new"
    /\ made = {}
    /\ ran = [i \in 0 .. (pool_n - 1) |-> 0]

-----------------------------------------------------------------------------
(* orki_npu_pool_worker                                                    *)

HelperSleep(i) ==
    /\ apc[i] = "check"
    /\ pgen = mygen[i] /\ ~pstop
    /\ apc' = [apc EXCEPT ![i] = "asleep"]
    /\ UNCHANGED <<poolShared, mygen, anc, mpc, made, ran>>

(* A helper outside the job's width takes note of it and waits again.      *)
HelperTake(i) ==
    /\ apc[i] = "check"
    /\ pgen # mygen[i] /\ ~pstop
    /\ mygen' = [mygen EXCEPT ![i] = pgen]
    /\ anc' = [anc EXCEPT ![i] = pjob_nc]
    /\ apc' = [apc EXCEPT ![i] = IF i < pjob_nc THEN "run" ELSE "check"]
    /\ UNCHANGED <<poolShared, mpc, made, ran>>

(* fn(args + id * stride) returns.                                         *)
HelperRun(i) ==
    /\ apc[i] = "run"
    /\ ran' = [ran EXCEPT ![i] = @ + 1]
    /\ apc' = [apc EXCEPT ![i] = "report"]
    /\ UNCHANGED <<poolShared, mygen, anc, mpc, made>>

(* Mutants: the last helper is not waited for; the signal is lost.         *)
AllDone_Early == pdone + 1 >= pjob_nc - 1
SignalDone_Lost(n) == mpc

AllDone == pdone >= pjob_nc - 1
SignalDone(n) == IF n /\ mpc = "asleep" THEN "wait" ELSE mpc

HelperReport(i) ==
    /\ apc[i] = "report"
    /\ pdone' = pdone + 1
    /\ mpc' = SignalDone(pdone + 1 = anc[i] - 1)
    /\ apc' = [apc EXCEPT ![i] = "check"]
    /\ UNCHANGED <<pgen, pjob_nc, pstop, mygen, anc, made, ran>>

HelperStop(i) ==
    /\ apc[i] = "check" /\ pstop
    /\ apc' = [apc EXCEPT ![i] = "exit"]
    /\ UNCHANGED <<poolShared, mygen, anc, mpc, made, ran>>

-----------------------------------------------------------------------------
(* The dispatcher                                                          *)

(* orki_npu_pool_ensure: the result of pthread_create is not looked at, so *)
(* the helpers in S exist and the others do not.                           *)
PoolEnsure(S) ==
    /\ mpc = "new"
    /\ made' = S
    /\ apc' = [i \in Helpers |-> IF i \in S THEN "check" ELSE "none"]
    /\ mpc' = "idle"
    /\ UNCHANGED <<poolShared, mygen, anc, ran>>

(* pthread_cond_broadcast(&c->pgo).                                        *)
Broadcast == [i \in Helpers |-> IF apc[i] = "asleep" THEN "check" ELSE apc[i]]

(* The call sites bound nc by the number of cores.                         *)
Width(nc) == nc

PoolDispatch(nc) ==
    /\ mpc = "idle" /\ pgen < MaxJobs
    /\ pjob_nc' = Width(nc)
    /\ pdone' = 0
    /\ pgen' = pgen + 1
    /\ apc' = Broadcast
    /\ ran' = [i \in 0 .. (pool_n - 1) |-> 0]
    /\ mpc' = "own"
    /\ UNCHANGED <<pstop, mygen, anc, made>>

(* Element 0 runs on the calling thread.                                   *)
RunOwn ==
    /\ mpc = "own"
    /\ ran' = [ran EXCEPT ![0] = @ + 1]
    /\ mpc' = "wait"
    /\ UNCHANGED <<poolShared, helper, made>>

WaitSleep ==
    /\ mpc = "wait" /\ ~AllDone
    /\ mpc' = "asleep"
    /\ UNCHANGED <<poolShared, helper, made, ran>>

WaitReturn ==
    /\ mpc = "wait" /\ AllDone
    /\ mpc' = "idle"
    /\ UNCHANGED <<poolShared, helper, made, ran>>

(* ork_npu_free: pstop, and a join of every helper it believes it has; the *)
(* join of a thread that was never created is undefined and may crash.     *)
StopPool ==
    /\ mpc = "idle"
    /\ pstop' = TRUE
    /\ apc' = Broadcast
    /\ mpc' = "join"
    /\ UNCHANGED <<pgen, pjob_nc, pdone, mygen, anc, made, ran>>

JoinReturn ==
    /\ mpc = "join"
    /\ \A i \in made : apc[i] = "exit"
    /\ \/ mpc' = "freed"
       \/ made # Helpers /\ mpc' = "crashed"
    /\ UNCHANGED <<poolShared, helper, made, ran>>

-----------------------------------------------------------------------------
Helper(i) == \/ HelperSleep(i) \/ HelperTake(i) \/ HelperRun(i)
             \/ HelperReport(i) \/ HelperStop(i)

Dispatcher == RunOwn \/ WaitSleep \/ WaitReturn \/ JoinReturn

PoolNext == \/ \E i \in Helpers : Helper(i)
            \/ \E S \in SUBSET Helpers : PoolEnsure(S)
            \/ \E nc \in 1 .. pool_n : PoolDispatch(nc)
            \/ Dispatcher \/ StopPool

PoolSpec == PoolInit /\ [][PoolNext]_poolVars

(* Threads are scheduled and the functions they run return.                *)
PoolFairness == /\ WF_poolVars(Dispatcher)
                /\ \A i \in Helpers : WF_poolVars(Helper(i))

-----------------------------------------------------------------------------
InJob == mpc \in {"own", "wait", "asleep"}

PoolTypeOK ==
    /\ pgen \in Nat /\ pjob_nc \in 0 .. pool_n /\ pdone \in Nat /\ pstop \in BOOLEAN
    /\ apc \in [Helpers -> {"none", "check", "asleep", "run", "report", "exit"}]
    /\ mygen \in [Helpers -> Nat] /\ anc \in [Helpers -> 0 .. pool_n]
    /\ mpc \in {"new", "idle", "own", "wait", "asleep", "join", "freed", "crashed"}
    /\ made \subseteq Helpers
    /\ ran \in [0 .. (pool_n - 1) -> Nat]

(* "cs", "acc", "args" are arrays on the dispatcher's stack: a helper that *)
(* is inside its function works for the call that is still waiting for it, *)
(* never for one that has returned.                                        *)
FrameLive ==
    \A i \in Helpers : apc[i] \in {"run", "report"} =>
        InJob /\ mygen[i] = pgen /\ i < pjob_nc

(* A dispatch that returned ran every element of its array exactly once    *)
(* and nothing else, whichever helpers woke late or slept through a job    *)
(* they had no part in.  While it ran no helper left its frame behind.     *)
JobComplete ==
    /\ PoolTypeOK /\ FrameLive
    /\ mpc = "idle" /\ pgen > 0 =>
        \A i \in 0 .. (pool_n - 1) : ran[i] = IF i < pjob_nc THEN 1 ELSE 0

(* A dispatch whose helpers exist returns, and ork_npu_free's join of them *)
(* does too: no wake-up is lost.                                           *)
DispatchReturns ==
    /\ (InJob /\ 1 .. (pjob_nc - 1) \subseteq made) ~> mpc = "idle"
    /\ mpc = "join" ~> mpc \in {"freed", "crashed"}
==============================================================================
