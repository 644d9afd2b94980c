----------------------------- MODULE FusedChain -----------------------------
(***************************************************************************)
(* Fused chains: matmuls and SDP ops that run as one submit on one core,   *)
(* with an activation table in the SRAM of that core                       *)
(* (src/src/npu/i8/chain.c), and the switch of the operating mode that     *)
(* every op goes through (ork_npu_enter, src/src/npu/core/mode.c).         *)
(*                                                                         *)
(* Each entry point computes its curve into a static array of its own.  A  *)
(* core keeps a copy of one array in its load program, and that copy, or   *)
(* what another op loaded, in its SRAM.  It keeps the task array of the    *)
(* last chain as well.  What is there is recorded by the address of the    *)
(* array and the length of the chain, and records go stale.                *)
(*                                                                         *)
(* A curve is a value, an op list is a member of OpLists.  Warm-up submits *)
(* and the growth of scratch at a mode switch are left out, and so are     *)
(* chains of one op or without SDP ops, which take other paths, and the    *)
(* entry whose array belongs to the caller.                                *)
(***************************************************************************)
EXTENDS Integers, FiniteSets

CONSTANTS
    FCores,       \* the cores of the SoC, numbered from 0
    Entrypoints,  \* the entry points called, a subset of AllEntries
    Curves,       \* what an entry point may be asked for: scales and bias
    OpLists,      \* the op lists of chains
    Length,       \* how many programs a chain of each has
    MaxChains,    \* bound: chains in a round-robin call
    MaxFused,     \* bound: calls of an entry point
    MaxEvents     \* bound: ops of other kinds, submits that fail or do not land,
                  \* refused calls

RoundRobin == {"rr", "rr_biased"}
AllEntries == {"ffn", "sdpsilu", "exp_biased"} \cup RoundRobin

ASSUME FcAssumption ==
    /\ FCores \in Nat \ {0} /\ Entrypoints \subseteq AllEntries
    /\ Length \in [OpLists -> Nat]
    /\ MaxChains \in Nat \ {0} /\ MaxFused \in Nat /\ MaxEvents \in Nat

VARIABLES
    knobs,    \* ORK_CHAIN_LUT_STICKY, ORK_MIXED_NOTHRASH, ORK_SSM_KEEPWARM
    last_dt,  \* c->last_dt
    lut,      \* the array of each entry point
    unit,     \* the records of each core and what they are about
    call,     \* the call in progress, or the last one
    core,     \* where each core is in its chain
    fused,    \* calls so far
    events

fcVars == <<knobs, last_dt, lut, unit, call, core, fused, events>>

Fcore == 0 .. (FCores - 1)
NoEntryYet == "none"
NoCurve == "none"
Cleared == "cleared"
Foreign == "foreign"

-----------------------------------------------------------------------------
(* The operating mode.                                                     *)
FcModes == {"cold", "f16", "i8", "i4", "i8chain", "i4chain", "i4stream"}
Live(m) == m \in {"i8", "i8chain"}           \* ORK_I8_LIVE
IntDt(m) == Live(m) \/ m = "i4"              \* ORK_INT_DT
KwDt(m) == Live(m) \/ m = "f16"              \* ORK_KW_DT

(* XSPEC: per kind of op, when the pipeline is kept warm and when it is    *)
(* reset.  The two other kinds of int4 op have the row of I4_MC.           *)
XSPEC == [MC_MM     |-> [kwp |-> "MC",   rst |-> "I8ENTRY"],
          SC_MM     |-> [kwp |-> "SC",   rst |-> "I8ENTRY"],
          CHAIN_NT  |-> [kwp |-> "MC",   rst |-> "NOTLIVE_NOTKW"],
          STREAM_I8 |-> [kwp |-> "MC",   rst |-> "NOTLIVE_NOTKW"],
          STREAM_F16 |-> [kwp |-> "F16", rst |-> "NOTKW"],
          I4_MC     |-> [kwp |-> "NTI",  rst |-> "NOTKW"],
          I4CHAIN   |-> [kwp |-> "NONE", rst |-> "ALWAYS"],
          I4_STREAM |-> [kwp |-> "NONE", rst |-> "ALWAYS"]]

KeptWarm(kwp, from, to) ==
    \/ kwp = "MC" /\ knobs.nothrash /\ IntDt(from) /\ IntDt(to)
    \/ kwp \in {"MC", "SC"} /\ knobs.f16warm /\ KwDt(from) /\ KwDt(to)
    \/ kwp = "NTI" /\ knobs.nothrash /\ IntDt(from)
    \/ kwp = "F16" /\ knobs.f16warm /\ KwDt(from)

Resets(profile, from, to) ==
    LET kw == KeptWarm(XSPEC[profile].kwp, from, to)
        rst == XSPEC[profile].rst
    IN /\ from # to
       /\ \/ rst = "ALWAYS"
          \/ rst = "NOTKW" /\ ~kw
          \/ rst = "I8ENTRY" /\ to = "i8" /\ ~Live(from) /\ ~kw
          \/ rst = "NOTLIVE_NOTKW" /\ ~Live(from) /\ ~kw

(* A reset clears the SRAM of every core; ork_npu_enter knows it, the      *)
(* recovery from a submit that failed does not.                            *)
ResetKnown(u) == [i \in Fcore |-> [u[i] EXCEPT !.sram = Cleared, !.devloaded = FALSE,
                                               !.built = FALSE, !.behind = FALSE]]
ResetUnknown(u) == [i \in Fcore |-> [u[i] EXCEPT !.sram = Cleared, !.behind = TRUE]]

ork_npu_enter(profile, to, u) ==
    /\ unit' = IF Resets(profile, last_dt, to) THEN ResetKnown(u) ELSE u
    /\ last_dt' = to

FcEvent == events < MaxEvents /\ events' = events + 1

-----------------------------------------------------------------------------
Out == [at |-> "off", k |-> 0, ops |-> "none", reused |-> FALSE]
FcInit ==
    /\ knobs \in [sticky : BOOLEAN, nothrash : BOOLEAN, f16warm : BOOLEAN]
    /\ last_dt = "cold"
    /\ lut = [e \in AllEntries |-> NoCurve]
    /\ unit = [i \in Fcore |->
                 [lut_p |-> NoEntryYet,   \* chain_lut_p: whose array lrc copies
                  lrc |-> NoCurve,        \* chain_lrc: the load program
                  sram |-> Cleared,       \* the SRAM of the core
                  devloaded |-> FALSE,    \* chain_lut_devloaded: sram holds lrc
                  tk |-> "none",          \* chain_tk: the task array
                  P |-> 0, built |-> FALSE,  \* chain_task_P, chain_task_built
                  behind |-> FALSE]]      \* the SRAM was changed behind devloaded
    /\ call = [on |-> FALSE, entry |-> NoEntryYet, curve |-> NoCurve, n |-> 0, taken |-> 0,
               rc |-> 0, warm4 |-> FALSE, ran |-> {}]
    /\ core = [i \in Fcore |-> Out]
    /\ fused = 0 /\ events = 0

(* The curve: built when the scales differ from the last ones, and by      *)
(* _ffn and _sdpsilu each time.  The biased entries clear the record of    *)
(* every core when they have rebuilt the array.                            *)
Biased == {"exp_biased", "rr_biased"}
Forgotten_Not(e, curve) == unit           \* mutant: the records are kept
Forgotten(e, curve) ==
    IF e \in Biased /\ lut[e] # curve
    THEN [i \in Fcore |-> [unit[i] EXCEPT !.lut_p = NoEntryYet]]
    ELSE unit

(* A single chain runs on chain_core, which the public setter clamps to 0; *)
(* the pool runs several on as many cores.                                 *)
RrWidth(n) == IF n < FCores THEN n ELSE FCores
CallFused(e, curve, n, ops) ==
    /\ ~call.on /\ fused < MaxFused /\ fused' = fused + 1
    /\ lut' = [lut EXCEPT ![e] = curve]
    /\ ork_npu_enter("CHAIN_NT", "i8chain", Forgotten(e, curve))
    /\ call' = [on |-> TRUE, entry |-> e, curve |-> curve, n |-> n, rc |-> 0, ran |-> {},
                taken |-> IF e \in RoundRobin THEN 0 ELSE 1,
                warm4 |-> last_dt \in {"i4chain", "i4stream"} /\ ~Resets("CHAIN_NT", last_dt, "i8chain")]
    /\ core' = [i \in Fcore |->
                    IF i >= RrWidth(n) THEN Out
                    ELSE IF e \in RoundRobin THEN [Out EXCEPT !.at = "take", !.ops = ops]
                    ELSE [Out EXCEPT !.at = "load", !.k = 1, !.ops = ops]]
    /\ UNCHANGED <<knobs, events>>

(* A single chain is checked after its curve is built and before the mode  *)
(* is entered.                                                             *)
CallRefused(e, curve) ==
    /\ ~call.on /\ e \notin RoundRobin /\ fused < MaxFused /\ fused' = fused + 1 /\ FcEvent
    /\ lut' = [lut EXCEPT ![e] = curve]
    /\ unit' = Forgotten(e, curve)
    /\ call' = [call EXCEPT !.entry = e, !.curve = curve, !.n = 1, !.rc = -2, !.ran = {}, !.warm4 = FALSE]
    /\ UNCHANGED <<knobs, last_dt, core>>

-----------------------------------------------------------------------------
(* orki_i8_run_chain_impl on core i.                                       *)
ChainOver(i) ==
    core' = [core EXCEPT ![i] = IF call.entry \in RoundRobin
                                    THEN [@ EXCEPT !.at = "take", !.reused = FALSE] ELSE Out]
FcKeep == UNCHANGED <<knobs, last_dt, lut, fused>>

(* chainrr_worker: fetch and add.                                          *)
TakeChain(i) ==
    /\ core[i].at = "take"
    /\ IF call.taken < call.n
       THEN /\ call' = [call EXCEPT !.taken = @ + 1]
            /\ core' = [core EXCEPT ![i].at = "load", ![i].k = call.taken + 1]
       ELSE core' = [core EXCEPT ![i] = Out] /\ UNCHANGED call
    /\ UNCHANGED <<unit, events>> /\ FcKeep

(* The chain is refused, or a buffer of it cannot be had.                  *)
ChainFails(i) ==
    /\ core[i].at = "load" /\ FcEvent
    /\ call' = [call EXCEPT !.rc = -2] /\ ChainOver(i)
    /\ UNCHANGED unit /\ FcKeep

(* The load program is patched when it was made from another array.        *)
Patched(u) == [u EXCEPT !.lut_p = call.entry, !.lrc = lut[call.entry], !.devloaded = FALSE]
Hit(i) == unit[i].lut_p = call.entry
WithLut(i) == IF Hit(i) THEN unit[i] ELSE Patched(unit[i])
Loading(u) == [u EXCEPT !.tk = "load", !.built = FALSE]
SramLoaded(u) == [u EXCEPT !.sram = u.lrc, !.devloaded = TRUE, !.behind = FALSE]

(* The table goes to the SRAM in a submit of its own, by way of the task   *)
(* array, unless it is there.                                              *)
LoadLut(i) ==
    LET u == WithLut(i)
        sticks == knobs.sticky /\ u.devloaded
    IN /\ core[i].at = "load"
       /\ \/ /\ unit' = [unit EXCEPT ![i] = IF sticks THEN u ELSE SramLoaded(Loading(u))]
             /\ core' = [core EXCEPT ![i].at = "run", ![i].reused = Hit(i)]
             /\ UNCHANGED <<call, events>>
          \/ /\ ~sticks /\ FcEvent
             /\ \E v \in {unit, ResetUnknown(unit)} :
                  unit' = [v EXCEPT ![i] = [Loading(u) EXCEPT !.sram = v[i].sram, !.behind = v[i].behind]]
             /\ call' = [call EXCEPT !.rc = -1] /\ ChainOver(i)
       /\ FcKeep

(* The task array, unless the one that is there will do.                   *)
WithTasks(u, ops) ==
    IF knobs.sticky /\ u.devloaded /\ u.built /\ u.P = Length[ops] THEN u
    ELSE [u EXCEPT !.tk = ops, !.built = TRUE, !.P = Length[ops]]

(* The submit of the chain.  The wait for its last output gives up at the  *)
(* timeout and the chain counts as run.                                    *)
RunChain(i) ==
    LET w == core[i]
        u == WithTasks(unit[i], w.ops)
        built == [unit EXCEPT ![i] = u]
    IN /\ w.at = "run" /\ ChainOver(i)
       /\ \/ \E landed \in BOOLEAN :
               /\ IF landed THEN UNCHANGED events ELSE FcEvent
               /\ call' = [call EXCEPT !.ran = @ \cup
                             {[k |-> w.k, landed |-> landed, curve |-> u.sram, tasks |-> u.tk,
                               ops |-> w.ops, reused |-> w.reused, behind |-> u.behind]}]
               /\ unit' = built
          \/ /\ FcEvent
             /\ unit' \in {built, ResetUnknown(built)}
             /\ call' = [call EXCEPT !.rc = -1]
       /\ FcKeep

FusedReturns ==
    /\ call.on /\ \A i \in Fcore : core[i].at = "off"
    /\ call' = [call EXCEPT !.on = FALSE]
    /\ UNCHANGED <<unit, core, events>> /\ FcKeep

-----------------------------------------------------------------------------
(* Ops between the calls.  An op of another kind enters its mode.          *)
Switches == {<<"MC_MM", "f16">>, <<"MC_MM", "i8">>, <<"SC_MM", "f16">>, <<"SC_MM", "i8">>,
             <<"CHAIN_NT", "i8chain">>, <<"STREAM_I8", "i8chain">>, <<"STREAM_F16", "f16">>,
             <<"I4_MC", "i4">>, <<"I4CHAIN", "i4chain">>, <<"I4_STREAM", "i4stream">>}
OtherOp(sw) ==
    /\ ~call.on /\ FcEvent
    /\ ork_npu_enter(sw[1], sw[2], unit)
    /\ UNCHANGED <<knobs, lut, call, core, fused>>

(* A plain SDP op brings a table of its own to core 0, a sequence of ops   *)
(* (dyn_seq.c) to any core.  XP_SDP is entered with the mode that is on    *)
(* and, by default, does nothing; ops fused with a matmul take the mode to *)
(* be int8 from then on.                                                   *)
SdpOp(i) ==
    /\ ~call.on /\ FcEvent
    /\ unit' = [unit EXCEPT ![i].sram = Foreign, ![i].behind = TRUE]
    /\ last_dt' \in {last_dt, "i8"}
    /\ UNCHANGED <<knobs, lut, call, core, fused>>

(* A submit of another op fails, and its recovery resets the NPU.          *)
OtherFails ==
    /\ ~call.on /\ FcEvent
    /\ unit' = ResetUnknown(unit)
    /\ UNCHANGED <<call, core>> /\ FcKeep

FcNext ==
    \/ \E e \in Entrypoints, curve \in Curves :
         \/ CallRefused(e, curve)
         \/ \E ops \in OpLists : \E n \in (IF e \in RoundRobin THEN 1 .. MaxChains ELSE {1}) :
              CallFused(e, curve, n, ops)
    \/ \E i \in Fcore : TakeChain(i) \/ ChainFails(i) \/ LoadLut(i) \/ RunChain(i) \/ SdpOp(i)
    \/ FusedReturns
    \/ \E sw \in Switches : OtherOp(sw)
    \/ OtherFails

FcSpec == FcInit /\ [][FcNext]_fcVars

-----------------------------------------------------------------------------
(* An entry that does not clear the records is served only where the core  *)
(* held the array of another.  With ORK_CHAIN_LUT_STICKY a table can be    *)
(* replaced behind the record, and a task array of the same length be      *)
(* taken for the chain's own.                                              *)
OwnCurve(r) == \/ r.curve = call.curve
               \/ call.entry \notin Biased /\ r.reused
               \/ knobs.sticky /\ r.behind
OwnTasks(r) == \/ r.tasks = r.ops
               \/ knobs.sticky /\ r.tasks \in OpLists /\ Length[r.tasks] = Length[r.ops]

(* A call of a fused chain that returns 0 has run each of its chains once, *)
(* every one that landed with the curve of this call and with the task     *)
(* array of its own op list, though tables and arrays are kept from call   *)
(* to call, dropped by a reset, and shared by cores that run side by side; *)
(* and it has not crossed from an int4 chain to the int8 pipeline without  *)
(* the reset that internal.h calls load-bearing.                           *)
FusedExact ==
    ~call.on /\ call.rc = 0 /\ call.n > 0 =>
        /\ {r.k : r \in call.ran} = 1 .. call.n /\ Cardinality(call.ran) = call.n
        /\ \A r \in call.ran : r.landed => OwnCurve(r) /\ OwnTasks(r)
        /\ ~call.warm4
=============================================================================
