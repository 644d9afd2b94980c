------------------------------ MODULE NpuContext ------------------------------
(***************************************************************************)
(* One direct context (ork_npu) over its life: the run scratch it keeps    *)
(* for every IOMMU domain it has run in, the switch between domains        *)
(* (orki_dom_activate), the buffers the run paths create and grow lazily,  *)
(* the job that a dropped doorbell round leaves on a core, and teardown.   *)
(*                                                                         *)
(* A buffer is the domain it is mapped in and a size class.  The kernel's  *)
(* mappings are slots paired with domains; a mapping whose last handle is  *)
(* overwritten is lost.  Time is only what the reap needs: a stuck job can *)
(* be reaped once it is older than the timeout it was submitted with, and  *)
(* may be older at any moment.                                             *)
(***************************************************************************)
EXTENDS Integers, FiniteSets

CONSTANTS
    NDom,             \* domains in use, 0 .. NDom-1
    NCore,            \* soc->cores
    Sizes,            \* size classes a run can need
    I4_TMO, MM_TMO,   \* orki_i4_submit_tmo_ms, orki_mm_timeout_ms
    MaxTrouble        \* bound: one per dropped round, two per failed allocation

ASSUME CtxAssumption ==
    /\ NDom \in Nat \ {0} /\ NCore \in Nat \ {0} /\ Sizes \subseteq Nat \ {0}
    /\ I4_TMO \in Nat \ {0} /\ MM_TMO \in Nat \ {0} /\ MaxTrouble \in Nat

VARIABLES
    ctx,              \* struct ork_npu; live, lost: the kernel's mappings
    stuck,            \* jobs that never completed: [dom, tmo]
    sub,              \* the submit of the call under way: its domain and what it names
    phase,            \* up, run, freed, closed
    drops, ooms

ctxVars == <<ctx, stuck, sub, phase, drops, ooms>>

-----------------------------------------------------------------------------
Dom == 0 .. (NDom - 1)
CoreNo == 0 .. (NCore - 1)

(* The slots of struct ork_dom_scratch.                                    *)
Shared(name) == <<name, 0>>
PerCoreOf(i) == {"mrc", "mtk", "maf", "mcc"} \X {i}
PerCore == UNION {PerCoreOf(i) : i \in CoreNo}
Scratch == ({"regcmd", "task", "Af", "Cc", "mtk_all"} \X {0}) \cup PerCore
Furniture == {Shared("regcmd"), Shared("task"), Shared("Af")}
Sized == {Shared("Cc")} \cup ({"mcc"} \X CoreNo)      \* with a ccsz or mccsz[i]

NoSub == [dom |-> -1, need |-> 0, named |-> {}, has |-> {}]
Unused == [used |-> FALSE, buf |-> {}, sz |-> [s \in Sized |-> 0]]

(* Allocations that can fail besides the slots.                            *)
Failing == Scratch \cup ({"dom_save", "reap"} \X {0})

-----------------------------------------------------------------------------
(* The buffers of a context are records [slot, dom, size].                 *)
In(c, T) == {b \in c.buf : b.slot \in T}
Has(c, T) == \A s \in T : \E b \in c.buf : b.slot = s
Short(c, T, n) == {s \in T : \A b \in c.buf : b.slot = s => b.size < n}
Mappings(B) == {<<b.slot, b.dom>> : b \in B}

(* orki_bcreate and orki_bdestroy on the slots in T; those in F fail.      *)
Create(c, T, d, n, F) ==
    LET made == {[slot |-> s, dom |-> d, size |-> n] : s \in T \ F} IN
    [c EXCEPT !.buf = (@ \ In(c, T)) \cup made,
              !.lost = @ + Cardinality(c.live \cap Mappings(made)),
              !.live = @ \cup Mappings(made)]

(* orki_destroy of a set of slots.                                         *)
Destroy(c, T) == [c EXCEPT !.live = @ \ Mappings(In(c, T)), !.buf = @ \ In(c, T)]

(* Mutant: the old buffer is not destroyed.                                *)
Recreate_Leak(c, T, n, F) == Create(c, T, c.dom_active, n, F)
Recreate(c, T, n, F) == Create(Destroy(c, T), T, c.dom_active, n, F)

(* Slots of T grown by the size of their buffer (Af, maf, mrc, mtk).       *)
GrowBuf(c, T, n, F) == Recreate(c, Short(c, T, n), n, F)

(* Slots of T grown by the size recorded for them, which is written first  *)
(* (early) or only when the buffer was created.                            *)
GrowSized(c, T, n, F, early) ==
    LET grown == {s \in T : c.sz[s] < n} IN
    [Recreate(c, grown, n, F) EXCEPT
       !.sz = [s \in Sized |-> IF s \in grown /\ (early \/ s \notin F) THEN n ELSE c.sz[s]]]

(* Cores are served in order; the first one that fails is the last.        *)
Served(fails) == {i \in CoreNo : \A j \in 0 .. (i - 1) : j \notin fails}

-----------------------------------------------------------------------------
(* orki_mc_ensure: per core all three buffers, unless it has a regcmd.     *)
McEnsure(c, F) ==
    LET c1 == IF Has(c, {Shared("mtk_all")}) THEN c
              ELSE Create(c, {Shared("mtk_all")}, c.dom_active, 1, F)
        bare == {i \in CoreNo : ~Has(c, {<<"mrc", i>>})}
        fails == {i \in bare : \E s \in {"mrc", "mtk", "maf"} \X {i} : s \in F}
    IN IF ~Has(c1, {Shared("mtk_all")}) THEN c1
       ELSE Create(c1, {"mrc", "mtk", "maf"} \X (bare \cap Served(fails)), c.dom_active, 1, F)

(* Does this call of it return 0?                                          *)
McEnsureOk(c, F) ==
    /\ Has(McEnsure(c, F), {Shared("mtk_all")})
    /\ \A i \in CoreNo : Has(c, {<<"mrc", i>>}) \/ \A x \in {"mrc", "mtk", "maf"} : <<x, i>> \notin F

-----------------------------------------------------------------------------
(* orki_dom_activate                                                       *)

Swapped == Scratch

(* First touch: the domain is furnished; mutant: it never is.              *)
First_Never(c, neo) == FALSE
First(c, neo) == ~neo.used /\ ~Has(neo, {Shared("regcmd")})

Park(c) == [c EXCEPT !.save[c.dom_active] =
              [used |-> TRUE, buf |-> In(c, Swapped), sz |-> c.sz]]

Switch(c, d, F) ==
    LET neo == c.save[d]
        c1 == [Park(c) EXCEPT !.buf = (@ \ In(c, Swapped)) \cup neo.buf,
                              !.sz = neo.sz, !.dom_active = d, !.dom_save = TRUE]
    IN IF First(c, neo) THEN Create(c1, Furniture, d, 1, F) ELSE c1

Clean(c) == [c EXCEPT !.dom_dirty = FALSE, !.dom_dirty_ms = 0]

(* The drain and the flush come first; no memory for the arrays, no switch. *)
Activate(c, d, F) ==
    IF d = c.dom_active THEN c
    ELSE IF Shared("dom_save") \in F THEN Clean(c)
    ELSE Switch(Clean(c), d, F)

(* ork_dom_flush_if_dirty waits as long as the slowest dropped job needs;  *)
(* mutant: as long as an int4 job needs.                                   *)
ReapWait_I4 == I4_TMO
ReapWait == IF ctx.dom_dirty_ms > 0 THEN ctx.dom_dirty_ms ELSE I4_TMO

(* Which jobs can outlive a flush: what is not older than the wait, and    *)
(* what the dummies cannot reach.                                          *)
MayOutlive(F) == IF ctx.dom_dirty /\ Shared("reap") \notin F
                 THEN {j \in stuck : j.dom # ctx.dom_active \/ j.tmo > ReapWait}
                 ELSE stuck

(* The host reaches a switch to d; every submit on the way may reap.       *)
Reaped(d, F) == IF d = ctx.dom_active THEN stuck' \in SUBSET stuck
                                      ELSE stuck' \in SUBSET MayOutlive(F)

-----------------------------------------------------------------------------
CtxInit ==
    LET bare == [dom_active |-> 0, dom_save |-> FALSE, dom_dirty |-> FALSE, dom_dirty_ms |-> 0,
                 buf |-> {}, sz |-> [s \in Sized |-> 0],
                 save |-> [d \in Dom |-> Unused],
                 live |-> {}, lost |-> 0]
    IN /\ ctx = GrowSized(McEnsure(Create(bare, Furniture, 0, 1, {}), {}), {"mcc"} \X CoreNo, 1, {}, FALSE)
       /\ stuck = {} /\ sub = NoSub /\ phase = "up" /\ drops = 0 /\ ooms = 0

(* The allocations of one call that fail: at most one.                     *)
FailSets == {{}} \cup (IF drops + 2 * ooms + 2 <= MaxTrouble THEN {{s} : s \in Failing} ELSE {})
Fails(F) == phase = "up" /\ ooms' = ooms + Cardinality(F)

(* The submit of a run in domain d that names the slots T, if it comes to  *)
(* one, and the return of the call.                                        *)
Submits(ok, c, d, n, T) ==
    IF ok THEN phase' = "run" /\ sub' = [dom |-> d, need |-> n, named |-> T, has |-> In(c, T)]
          ELSE UNCHANGED <<phase, sub>>

Return == /\ phase = "run" /\ phase' = "up" /\ sub' = NoSub
          /\ UNCHANGED <<ctx, stuck, drops, ooms>>

(* A run first switches to the domain of its weight: c is the context then. *)
Activated(d, F) == {c \in {Activate(ctx, d, F)} : phase = "up"}

(* orki_run on one core.                                                   *)
RunSingle(d, n, F) ==
    \E c0 \in Activated(d, F) : \E c1 \in {GrowSized(c0, {Shared("Cc")}, n, F, TRUE)} :
    LET Af == Shared("Af")
        Cc == Shared("Cc")
        c1ok == c0.sz[Cc] >= n \/ Has(c1, {Cc})
    IN \E c2 \in {IF c1ok THEN GrowBuf(c1, {Af}, n, F) ELSE c1} :
       /\ Fails(F) /\ Reaped(d, F)
       /\ ctx' = c2
       /\ Submits(c1ok /\ Has(c2, {Af}), c2, d, n, Furniture \cup {Cc})
       /\ UNCHANGED drops

(* A round is dropped, which marks the domain with the job's timeout.      *)
Later(a, b) == IF a > b THEN a ELSE b
LoseRound(c, tmo) == [c EXCEPT !.dom_dirty = TRUE, !.dom_dirty_ms = Later(c.dom_dirty_ms, tmo)]

(* orki_dyn_begin_mc_impl and ork_dyn_end, or their int4 counterparts; a   *)
(* round submitted with timeout tmo is dropped, or none is (0).            *)
StreamGrown(c, n, F) ==
    LET short == {i \in CoreNo : c.sz[<<"mcc", i>>] < n /\ <<"mcc", i>> \in F}
        lack == {s[2] : s \in Short(c, {"maf"} \X CoreNo, n) \cap F}
        c1 == GrowSized(c, {"mcc"} \X Served(short), n, F, FALSE)
    IN IF short # {} THEN c1 ELSE GrowBuf(c1, {"maf"} \X Served(lack), n, F)

RunStream(d, n, tmo, F) ==
    \E c0 \in Activated(d, F) : \E c1 \in {McEnsure(c0, F)} :
    \E c2 \in {IF McEnsureOk(c0, F) THEN StreamGrown(c1, n, F) ELSE c1} :
    LET ok == /\ McEnsureOk(c0, F)
              /\ \A i \in CoreNo : c2.sz[<<"mcc", i>>] >= n
              /\ Short(c2, {"maf"} \X CoreNo, n) = {}
    IN /\ Fails(F)
       /\ IF tmo = 0
          THEN ctx' = c2 /\ Reaped(d, F) /\ UNCHANGED drops
          ELSE /\ ok /\ drops + 2 * ooms' < MaxTrouble /\ drops' = drops + 1
               /\ ctx' = LoseRound(c2, tmo)
               /\ \E K \in SUBSET (IF d = ctx.dom_active THEN stuck ELSE MayOutlive(F)) :
                    stuck' = K \cup {[dom |-> c2.dom_active, tmo |-> tmo]}
       /\ Submits(ok, c2, d, n, PerCore)

(* run_i4_experts_bchain_db: a core grows all its buffers before they are  *)
(* looked at; before it returns it reaps what an earlier drop left behind, *)
(* and with more than one domain the output scratch is given back.         *)
ExpertsGrown(c, T, n, F) == GrowSized(GrowBuf(c, T \ Sized, n, F), T \cap Sized, n, F, TRUE)
GiveBack(c, T) == [Destroy(c, T) EXCEPT !.sz = [s \in Sized |-> IF s \in T THEN 0 ELSE c.sz[s]]]

RunExperts(d, n, F) ==
    \E c0 \in Activated(d, F) : \E c1 \in {McEnsure(c0, F)} :
    \E all \in {ExpertsGrown(c1, PerCore, n, F)} :
    LET bad == {i \in CoreNo : ~Has(all, PerCoreOf(i))}
        ok == McEnsureOk(c0, F) /\ bad = {}
    IN /\ Fails(F)
       /\ IF ok THEN stuck' \in SUBSET MayOutlive(F) ELSE Reaped(d, F)
       /\ ctx' = IF ~McEnsureOk(c0, F) THEN c1
                 ELSE IF ~ok THEN ExpertsGrown(c1, UNION {PerCoreOf(i) : i \in Served(bad)}, n, F)
                 ELSE Clean(IF all.dom_save THEN GiveBack(all, {"mcc"} \X CoreNo) ELSE all)
       /\ Submits(ok, all, d, n, PerCore)
       /\ UNCHANGED drops

(* ork_npu_activate_domain.                                                *)
ActivateDomain(d, F) ==
    /\ Fails(F) /\ Reaped(d, F)
    /\ ctx' = Activate(ctx, d, F)
    /\ UNCHANGED <<sub, phase, drops>>

(* ork_npu_free: the active set, then the parked ones; the parked copy of  *)
(* the active one is stale.                                                *)
ParkedDoms(c) == {d \in Dom : d # c.dom_active /\ c.save[d].used}

NpuFree ==
    /\ phase = "up"
    /\ ctx' = [Destroy(ctx, Scratch) EXCEPT
                 !.live = @ \ UNION {Mappings(ctx.save[d].buf) : d \in ParkedDoms(ctx)},
                 !.save = [d \in Dom |-> Unused]]
    /\ phase' = "freed"
    /\ UNCHANGED <<stuck, sub, drops, ooms>>

(* orki_live_reap, the net under it, and the close of the device.          *)
LiveReap ==
    /\ phase = "freed"
    /\ ctx' = [ctx EXCEPT !.live = {}, !.lost = 0]
    /\ stuck' = {} /\ phase' = "closed"
    /\ UNCHANGED <<sub, drops, ooms>>

CtxNext ==
    \/ \E F \in FailSets :
         \/ \E d \in Dom, n \in Sizes :
              \/ RunSingle(d, n, F)
              \/ RunExperts(d, n, F)
              \/ \E tmo \in {0, I4_TMO, MM_TMO} : RunStream(d, n, tmo, F)
         \/ \E d \in Dom : ActivateDomain(d, F)
    \/ Return \/ NpuFree \/ LiveReap

CtxSpec == CtxInit /\ [][CtxNext]_ctxVars

-----------------------------------------------------------------------------
CtxTypeOK ==
    /\ ctx.dom_active \in Dom /\ ctx.buf \subseteq [slot : Scratch, dom : Dom, size : Sizes \cup {1}]
    /\ Cardinality({b.slot : b \in ctx.buf}) = Cardinality(ctx.buf)
    /\ ctx.sz \in [Sized -> Sizes \cup {0, 1}]
    /\ ctx.dom_dirty_ms \in (IF ctx.dom_dirty THEN {I4_TMO, MM_TMO} ELSE {0})
    /\ stuck \subseteq [dom : Dom, tmo : {I4_TMO, MM_TMO}]
    /\ phase \in {"up", "run", "freed", "closed"} /\ drops + 2 * ooms \in 0 .. MaxTrouble

(* The handles the context will still use or destroy.                      *)
Handles == {<<ctx.dom_active, b>> : b \in ctx.buf}
           \cup UNION {{<<d, b>> : b \in ctx.save[d].buf} : d \in ParkedDoms(ctx)}
Named == {<<x[2].slot, x[2].dom>> : x \in Handles}

(* No handle of the context outlives its mapping and no mapping has two    *)
(* handles, through any sequence of switches, growth and failed            *)
(* allocations: nothing is destroyed twice.                                *)
NoDangling == Named \subseteq ctx.live /\ Cardinality(Named) = Cardinality(Handles)

(* As long as no allocation has failed nothing is leaked either: what is   *)
(* mapped is what the active and the parked scratch name, and teardown     *)
(* leaves nothing for its safety net.  Also when allocations fail nothing  *)
(* dangles, the scratch in use lies in the active domain and every parked  *)
(* set in its own.  (With the type invariant.)                             *)
ScratchExact ==
    /\ CtxTypeOK /\ NoDangling
    /\ \A x \in Handles : x[2].dom = x[1]
    /\ ooms = 0 => ctx.lost = 0 /\ ctx.live = Named

(* Every buffer a submit names exists, is large enough and is mapped in    *)
(* the domain the submit runs in, unless an allocation has failed.         *)
SubmitsComplete ==
    ooms = 0 => \A s \in sub.named : \E b \in sub.has :
       /\ b.slot = s /\ b.dom = sub.dom
       /\ s \in Sized \cup ({"maf"} \X CoreNo) => b.size >= sub.need

(* A stuck job holds its domain: it has been reaped before the context     *)
(* leaves that domain, whatever timeout it was submitted with.             *)
SwitchReaped == ooms = 0 => \A j \in stuck : j.dom = ctx.dom_active
==============================================================================
