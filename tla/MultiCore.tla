------------------------------ MODULE MultiCore ------------------------------
(***************************************************************************)
(* One matmul, or one stream of matmuls, on several NPU cores: the run     *)
(* level of src/npu.c (run_multicore), the column split of colsplit.c, the *)
(* block distribution of dyn.c (orki_dyn_begin_mc_impl), and the wait, the *)
(* recovery and the write-back of dyn_ctl.c (ork_dyn_end).                 *)
(*                                                                         *)
(* The output is a row of column tiles, or one tile per op of a stream.    *)
(* What a tile holds is abstracted to whether it is this call's result.    *)
(* A core's submit is a list of programs, one per entry and K-slice, that  *)
(* land in order; it may be rejected, or stall for ever.  The environment  *)
(* is the default one: blocking submits on the pool's threads for a split  *)
(* matmul, one non-blocking round for a stream.                            *)
(***************************************************************************)
EXTENDS Integers, FiniteSets

CONSTANTS
    Cores,        \* soc->cores
    Kinds,        \* calls explored, a subset of AllKinds
    Widths,       \* column tiles of a matmul, or ops of a stream
    Slices,       \* w->Sk, the K-slices of a weight
    RECOV_MAX,    \* 6: resubmissions of a dropped integer round
    MaxFaults     \* bound: rejections and stalls

(* fp16 matmul with one buffer per K-slice, or with the slices in one      *)
(* buffer (contig); int8 matmul; streams of int8 or fp16 ops.              *)
AllKinds == {"f16", "f16contig", "i8", "i8stream", "f16stream"}

ASSUME McAssumption ==
    /\ Cores \in Nat \ {0} /\ Kinds \subseteq AllKinds
    /\ Widths \subseteq Nat \ {0} /\ Slices \subseteq Nat \ {0}
    /\ RECOV_MAX \in Nat /\ MaxFaults \in Nat

VARIABLES
    kind, nn, nc, sk,      \* the call: kind, tiles, cores used, K-slices
    rpc,                   \* run level: begin, workers, end, poll, judge, sc, ret
    wpc, wks,              \* workers: position and K-slice
    job, todo,             \* kernel: state of each core's job, programs left
    out,                   \* scratch: content of each entry's partial outputs
    C, dst,                \* the caller's tiles; entries still to copy back
    mc_error, dom_dirty,   \* flags of the context
    recov, last,           \* ork_dyn_end: attempts, frontier
    result, faults

callVars == <<kind, nn, nc, sk>>
mcVars == <<callVars, rpc, wpc, wks, job, todo, out, C, dst, mc_error, dom_dirty,
            recov, last, result, faults>>

-----------------------------------------------------------------------------
(* How the work is divided                                                 *)

Core == 0 .. (Cores - 1)
Used == 0 .. (nc - 1)
F16 == kind \in {"f16", "f16contig", "f16stream"}
Stream == kind \in {"i8stream", "f16stream"}
Least(a, b) == IF a < b THEN a ELSE b

(* A contiguous share of 0 .. n-1 for each core.                           *)
Lo(i, n) == (i * n) \div nc
Hi(i, n) == ((i + 1) * n) \div nc
Share(i, n) == Lo(i, n) .. (Hi(i, n) - 1)

(* An entry is what ork_dyn_end waits for: a core of a split matmul, an op *)
(* of a stream.                                                            *)
S == IF Stream THEN nn ELSE nc
Entries == 0 .. (S - 1)
TilesOf(e) == IF Stream THEN {e} ELSE Share(e, nn)
Tile == 0 .. (nn - 1)
Slice == 0 .. (sk - 1)

(* fp16 slices that lie in different buffers are submitted one by one.     *)
Sliced == kind = "f16" /\ sk > 1
EntriesOf(i) == IF Stream THEN Share(i, S) ELSE {i}
Programs(i) == EntriesOf(i) \X (IF Sliced THEN {wks[i]} ELSE Slice)
Before(p, q) == p[1] < q[1] \/ (p[1] = q[1] /\ p[2] < q[2])

(* csub_barrier; mutant: the cores are not held together.                  *)
csub_barrier_Off == FALSE
csub_barrier == Sliced /\ nc > 1 /\ \A i \in Used : Share(i, nn) # {}

-----------------------------------------------------------------------------
McInit ==
    /\ kind \in Kinds /\ nn \in Widths /\ sk \in Slices
    /\ ~Stream => nn >= 2
    /\ kind = "f16contig" => sk > 1
    /\ kind = "f16stream" => sk = 1
    /\ nc = Least(Cores, nn)
    /\ rpc = "begin"
    /\ wpc = [i \in Core |-> "idle"] /\ wks = [i \in Core |-> 0]
    /\ job = [i \in Core |-> "none"] /\ todo = [i \in Core |-> {}]
    /\ out = [p \in Entries \X Slice |-> "old"]
    /\ C = [t \in Tile |-> "old"] /\ dst = {}
    /\ mc_error \in BOOLEAN /\ dom_dirty = FALSE
    /\ recov = 0 /\ last = -1 /\ result = 1 /\ faults = 0

(* A soft reset: what was running never completes.                         *)
Reset(j) == [i \in Core |-> IF j[i] = "run" THEN "stuck" ELSE j[i]]

(* A non-blocking submit on every core, none of whose results is acted on: *)
(* the cores in R reject it, the last of them with or without a reset.     *)
SubmitAll(R, heal) ==
    /\ faults + Cardinality(R) <= MaxFaults
    /\ faults' = faults + Cardinality(R)
    /\ todo' = [i \in Core |-> IF i \in Used \ R THEN Programs(i) ELSE {}]
    /\ job' = [i \in Core |->
                 IF i \notin Used \ R \/ Programs(i) = {} THEN "none"
                 ELSE IF heal /\ \E r \in R : r > i THEN "stuck" ELSE "run"]
    /\ out' = [p \in Entries \X Slice |-> "sent"]

-----------------------------------------------------------------------------
(* begin                                                                   *)

(* No legal tiling, or no memory: fp16 falls to one core, int8 refuses.    *)
BeginFails ==
    /\ rpc = "begin"
    /\ mc_error' = (mc_error /\ ~(F16 /\ ~Stream))
    /\ IF F16 /\ ~Stream
       THEN rpc' = "sc" /\ UNCHANGED result
       ELSE rpc' = "ret" /\ result' = -1
    /\ UNCHANGED <<callVars, wpc, wks, job, todo, out, C, dst, dom_dirty, recov, last, faults>>

(* ork_dyn_begin_colsplit: only the surfaces of fp16 K-slices are seeded.  *)
BeginColsplit ==
    /\ rpc = "begin" /\ ~Stream
    /\ mc_error' = (mc_error /\ ~F16)
    /\ out' = [p \in Entries \X Slice |-> IF F16 /\ sk > 1 THEN "sent" ELSE out[p]]
    /\ dst' = Entries
    /\ wpc' = [i \in Core |-> IF i \in Used THEN "sub" ELSE "idle"]
    /\ rpc' = "workers"
    /\ UNCHANGED <<callVars, wks, job, todo, C, dom_dirty, recov, last, result, faults>>

(* orki_dyn_begin_mc_impl.                                                 *)
BeginStream(R, heal) ==
    /\ rpc = "begin" /\ Stream
    /\ SubmitAll(R, heal)
    /\ dst' = Entries
    /\ rpc' = "poll"
    /\ UNCHANGED <<callVars, wpc, wks, C, mc_error, dom_dirty, recov, last, result>>

-----------------------------------------------------------------------------
(* The NPU                                                                 *)

Land(i) ==
    /\ job[i] = "run"
    /\ LET p == CHOOSE x \in todo[i] : \A y \in todo[i] \ {x} : Before(x, y) IN
       /\ out' = [out EXCEPT ![p] = "new"]
       /\ todo' = [todo EXCEPT ![i] = @ \ {p}]
       /\ job' = [job EXCEPT ![i] = IF todo[i] = {p} THEN "none" ELSE "run"]
    /\ UNCHANGED <<callVars, rpc, wpc, wks, C, dst, mc_error, dom_dirty, recov, last, result, faults>>

Stall(i) ==
    /\ job[i] = "run" /\ faults < MaxFaults
    /\ job' = [job EXCEPT ![i] = "stuck"]
    /\ faults' = faults + 1
    /\ UNCHANGED <<callVars, rpc, wpc, wks, todo, out, C, dst, mc_error, dom_dirty, recov, last, result>>

-----------------------------------------------------------------------------
(* ork_csub_worker, one per core, on the threads of NpuPool                *)

(* Only fp16 takes note of a failed submit.                                *)
Flag(failed) == mc_error \/ (failed /\ F16)

(* The next K-slice.                                                       *)
NextSlice(i) == IF wks[i] + 1 < sk THEN "sub" ELSE "acc"

(* Where a worker goes after its submit; mutant: a failure leaves the loop *)
(* over the slices.                                                        *)
After_Break(i, failed) ==
    IF ~Sliced \/ failed THEN "acc" ELSE IF csub_barrier THEN "bar" ELSE NextSlice(i)
After(i, failed) ==
    IF ~Sliced THEN "acc" ELSE IF csub_barrier THEN "bar" ELSE NextSlice(i)

Submitted(i, failed) ==
    /\ mc_error' = Flag(failed)
    /\ wpc' = [wpc EXCEPT ![i] = After(i, failed)]
    /\ wks' = IF Sliced /\ After(i, failed) = "sub" THEN [wks EXCEPT ![i] = @ + 1] ELSE wks
    /\ UNCHANGED <<callVars, rpc, out, C, dst, dom_dirty, recov, last, result>>

WorkerSubmit(i) ==
    /\ wpc[i] = "sub"
    /\ job' = [job EXCEPT ![i] = "run"]
    /\ todo' = [todo EXCEPT ![i] = Programs(i)]
    /\ wpc' = [wpc EXCEPT ![i] = "wait"]
    /\ UNCHANGED <<callVars, rpc, wks, out, C, dst, mc_error, dom_dirty, recov, last, result, faults>>

(* The submit fails at once; most errors end in a reset of the device.     *)
WorkerReject(i, heal) ==
    /\ wpc[i] = "sub" /\ faults < MaxFaults
    /\ faults' = faults + 1
    /\ job' = IF heal THEN Reset(job) ELSE job
    /\ Submitted(i, TRUE)
    /\ UNCHANGED todo

(* The blocking submit returns: done, or the kernel gives up on the job.   *)
WorkerDone(i) ==
    /\ wpc[i] = "wait" /\ job[i] = "none"
    /\ Submitted(i, FALSE)
    /\ UNCHANGED <<job, todo, faults>>

WorkerTimeout(i) ==
    /\ wpc[i] = "wait" /\ job[i] = "stuck"
    /\ job' = Reset([job EXCEPT ![i] = "none"])
    /\ todo' = [todo EXCEPT ![i] = {}]
    /\ Submitted(i, TRUE)
    /\ UNCHANGED faults

(* pthread_barrier_wait: the last of the nc cores releases them all.       *)
Barrier ==
    /\ rpc = "workers" /\ \A i \in Used : wpc[i] = "bar"
    /\ wpc' = [i \in Core |-> IF i \in Used THEN NextSlice(i) ELSE wpc[i]]
    /\ wks' = [i \in Core |-> IF i \in Used /\ NextSlice(i) = "sub" THEN wks[i] + 1 ELSE wks[i]]
    /\ UNCHANGED <<callVars, rpc, job, todo, out, C, dst, mc_error, dom_dirty, recov, last, result, faults>>

Landed(e) == \A k \in Slice : out[<<e, k>>] = "new"
WriteBack(D) == [t \in Tile |-> IF \E e \in D : t \in TilesOf(e)
                                THEN IF \A e \in D : t \in TilesOf(e) => Landed(e) THEN "good" ELSE "bad"
                                ELSE C[t]]

(* The core sums its own partials into its own columns.                    *)
WorkerSum(i) ==
    /\ wpc[i] = "acc"
    /\ C' = IF sk > 1 THEN WriteBack({i}) ELSE C
    /\ dst' = IF sk > 1 THEN dst \ {i} ELSE dst
    /\ wpc' = [wpc EXCEPT ![i] = "done"]
    /\ UNCHANGED <<callVars, rpc, wks, job, todo, out, mc_error, dom_dirty, recov, last, result, faults>>

(* The dispatcher has all cores back; a dropped fp16 K-slice is reset and  *)
(* reaped here, and not submitted again.                                   *)
Join ==
    /\ rpc = "workers" /\ \A i \in Used : wpc[i] = "done"
    /\ job' = IF F16 /\ sk > 1 /\ mc_error THEN [i \in Core |-> "none"] ELSE job
    /\ rpc' = "end"
    /\ UNCHANGED <<callVars, wpc, wks, todo, out, C, dst, mc_error, dom_dirty, recov, last, result, faults>>

WorkerStep(i) == \/ WorkerSubmit(i) \/ WorkerDone(i) \/ WorkerTimeout(i) \/ WorkerSum(i)

-----------------------------------------------------------------------------
(* ork_dyn_end                                                             *)

(* ork_dyn_progress: the end of the landed prefix; mutant: the highest     *)
(* landed entry.                                                           *)
Frontier_Highest ==
    CHOOSE n \in -1 .. (S - 1) : (n >= 0 => Landed(n)) /\ \A e \in Entries : Landed(e) => e <= n
Frontier ==
    CHOOSE n \in -1 .. (S - 1) : /\ \A e \in 0 .. n : Landed(e)
                                 /\ n + 1 \in Entries => ~Landed(n + 1)

recov_max == IF F16 THEN 0 ELSE RECOV_MAX

EndWith(n) ==
    /\ last' = n
    /\ C' = WriteBack(dst)
    /\ rpc' = "judge"
    /\ UNCHANGED <<callVars, wpc, wks, job, todo, out, dst, mc_error, dom_dirty, recov, result, faults>>

(* prepolled: the workers have drained every core.                         *)
EndPrepolled == rpc = "end" /\ EndWith(S - 1)

EndLanded == rpc = "poll" /\ \A e \in Entries : Landed(e) /\ EndWith(S - 1)

(* The window closes.  A round that is only late counts as dropped.        *)
Missed == rpc = "poll" /\ \E e \in Entries : ~Landed(e)

EndGivesUp == Missed /\ recov >= recov_max /\ EndWith(Frontier)

(* Mutant: only the int4 path marks its domain.                            *)
Mark_Int4Only == dom_dirty
Mark == TRUE

(* orki_mc_recover_resubmit.                                               *)
EndRecovers(R, heal) ==
    /\ Missed /\ recov < recov_max
    /\ dom_dirty' = Mark
    /\ SubmitAll(R, heal)
    /\ recov' = recov + 1
    /\ UNCHANGED <<callVars, rpc, wpc, wks, C, dst, mc_error, last, result>>

-----------------------------------------------------------------------------
(* The callers                                                             *)

(* What the callers of a stream accept, and those of a split matmul.       *)
StreamOk == last = S - 1

CallerOk == CASE kind = "i8" -> last >= 0
              [] Stream -> StreamOk
              [] OTHER -> last >= 0 /\ ~mc_error

(* fp16 that was dropped is computed again on one core.                    *)
Judge ==
    /\ rpc = "judge"
    /\ IF F16 /\ ~Stream /\ ~CallerOk
       THEN rpc' = "sc" /\ mc_error' = FALSE /\ UNCHANGED result
       ELSE rpc' = "ret" /\ result' = (IF CallerOk THEN 0 ELSE -1) /\ UNCHANGED mc_error
    /\ UNCHANGED <<callVars, wpc, wks, job, todo, out, C, dst, dom_dirty, recov, last, faults>>

(* orki_run's single-core loop: C is written once every tile has landed.   *)
SingleCore(ok) ==
    /\ rpc = "sc"
    /\ C' = IF ok THEN [t \in Tile |-> "good"] ELSE C
    /\ result' = IF ok THEN 0 ELSE -1
    /\ rpc' = "ret"
    /\ UNCHANGED <<callVars, wpc, wks, job, todo, out, dst, mc_error, dom_dirty, recov, last, faults>>

Host == \/ BeginColsplit \/ Barrier \/ Join
        \/ EndPrepolled \/ EndLanded \/ EndGivesUp \/ Judge
        \/ \E ok \in BOOLEAN : SingleCore(ok)
        \/ \E R \in SUBSET Used, heal \in BOOLEAN : BeginStream(R, heal) \/ EndRecovers(R, heal)

McNext == \/ Host \/ BeginFails
          \/ \E i \in Core : \/ WorkerStep(i) \/ Land(i) \/ Stall(i)
                             \/ \E heal \in BOOLEAN : WorkerReject(i, heal)

McSpec == McInit /\ [][McNext]_mcVars

-----------------------------------------------------------------------------
McTypeOK ==
    /\ kind \in AllKinds /\ nn \in Widths /\ nc \in 1 .. Cores /\ sk \in Slices
    /\ rpc \in {"begin", "workers", "end", "poll", "judge", "sc", "ret"}
    /\ wpc \in [Core -> {"idle", "sub", "wait", "bar", "acc", "done"}] /\ wks \in [Core -> Slice]
    /\ job \in [Core -> {"none", "run", "stuck"}] /\ todo \in [Core -> SUBSET (Entries \X Slice)]
    /\ out \in [Entries \X Slice -> {"old", "sent", "new"}]
    /\ C \in [Tile -> {"old", "good", "bad"}] /\ dst \subseteq Entries
    /\ mc_error \in BOOLEAN /\ dom_dirty \in BOOLEAN
    /\ recov \in 0 .. RECOV_MAX /\ last \in -1 .. (S - 1)
    /\ result \in {-1, 0, 1} /\ faults \in 0 .. MaxFaults

(* "A silently wrong number is worse than a crash": a call that reports    *)
(* success has written every tile of the caller's C from partials that all *)
(* landed in this call, whatever was rejected, stalled, reset or           *)
(* resubmitted.  (With the type invariant.)                                *)
CompleteIsLanded ==
    /\ McTypeOK
    /\ rpc = "ret" /\ result = 0 => \A t \in Tile : C[t] = "good"

(* "never two distinct fp16 weight buffers on the CDMA at once": while the *)
(* K-slices of an fp16 weight lie in different buffers, all cores that     *)
(* fetch, fetch from the same one.                                         *)
Lockstep == Sliced => \A i, j \in Used : job[i] = "run" /\ job[j] = "run" => wks[i] = wks[j]

(* A job that may still be on a core when a call returns has marked its    *)
(* domain, so that the next switch of domain reaps it first.               *)
DropMarked == rpc = "ret" /\ (\E i \in Core : job[i] # "none") => dom_dirty
==============================================================================
