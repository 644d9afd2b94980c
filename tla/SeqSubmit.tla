------------------------------ MODULE SeqSubmit ------------------------------
(* ork_submit_seq and ork_submit_chain (npu.c): a sequence of ops of any   *)
(* kind, run in order.  Matmuls that the doorbell path takes are gathered  *)
(* into a batch and submitted at once; any other op closes the batch and   *)
(* is run by itself; a contiguous run of grouped ops is built into one     *)
(* program chain per core (npu/i8/dyn_seq.c), or run op by op when it does *)
(* not qualify.  ork_submit_chain cuts the sequence where the table of     *)
(* transitions says so.                                                    *)
(*                                                                         *)
(* An input either comes from outside or is the buffer an earlier op of    *)
(* the sequence writes.  Inputs are copied when a submit is built, results *)
(* reach their buffers when it is over: what matters is which results were *)
(* there when an op's inputs were copied.                                  *)
EXTENDS Integers, Sequences, FiniteSets, SequencesExt

CONSTANTS
    OpCount,    \* the longest sequence
    Caps,       \* ORK_SEQ_HWBATCH: 256
    SeqCores,   \* soc->cores
    GroupIds,   \* 0 for an op in no group
    Entry,      \* which of "seq" and "chain" the caller calls
    MaxRefused  \* bound: how many submits may go wrong

ASSUME SeqAssumption ==
    /\ OpCount \in Nat \ {0} /\ SeqCores \in Nat \ {0} /\ MaxRefused \in Nat
    /\ Caps \subseteq Nat \ {0} /\ GroupIds \subseteq Nat
    /\ Entry \subseteq {"seq", "chain"}

(* A matmul, by dtype, domain and whether it has a shape the doorbell path *)
(* takes; an int8 SDP op, SiLU with one table or another; a requantising   *)
(* matmul, which always runs by itself; an op with no dispatch yet.        *)
Shape(kind, dom, fits, lut) == [kind |-> kind, dom |-> dom, fits |-> fits, lut |-> lut]
OpShapes ==
    {Shape("mm8", 0, TRUE, 0), Shape("mm8", 1, TRUE, 0), Shape("mm8", 0, FALSE, 0),
     Shape("mm16", 0, TRUE, 0), Shape("ewmul", 0, TRUE, 0), Shape("silu", 0, TRUE, 1),
     Shape("silu", 0, TRUE, 2), Shape("requant", 0, FALSE, 0), Shape("unwired", 0, FALSE, 0)}

(* Which results can be inputs: int8 into int8.                            *)
GivesInt8(o) == o.kind \in {"ewmul", "silu", "requant"}
TakesInt8(o) == o.kind \in {"mm8", "ewmul", "silu", "requant"}

VARIABLES
    seq,      \* the sequence: shape, group, and the ops whose result it reads
    entered, cap,
    next,     \* the op it is at
    upto,     \* the last op of this call of ork_submit_seq
    sofar     \* what has happened so far, see SeqInit

seqVars == <<seq, entered, cap, next, upto, sofar>>

N == Len(seq)

(* ork_chain_lookup is not ORK_CHAIN_DISALLOW.                             *)
Chainable(a, b) ==
    \/ a \in {"mm8", "mm16"} /\ b \in {"mm8", "mm16"}
    \/ a = "mm8" /\ b \in {"silu", "ewmul"}
    \/ a \in {"silu", "ewmul"} /\ b = "mm8"

(* Where a call of ork_submit_seq that starts with op i ends.              *)
RunEnd(i) ==
    IF entered = "seq" THEN N
    ELSE CHOOSE z \in i..N :
            /\ z = N \/ ~Chainable(seq[z].kind, seq[z + 1].kind)
            /\ \A p \in i..(z - 1) : Chainable(seq[p].kind, seq[p + 1].kind)

(* The results each op reads: two operands at most.                        *)
Reads(sh) ==
    {u \in [DOMAIN sh -> SUBSET {j \in DOMAIN sh : GivesInt8(sh[j])}] :
        \A i \in DOMAIN sh :
          /\ Cardinality(u[i]) <= (IF sh[i].kind = "ewmul" THEN 2 ELSE 1)
          /\ \A j \in u[i] : j < i /\ TakesInt8(sh[i])}

(* Group ids that differ: an id matters only next to another, so 1 comes   *)
(* before 2.  A call of ork_submit_chain that is never cut is a call of    *)
(* ork_submit_seq.                                                         *)
SeqInit ==
    /\ entered \in Entry /\ cap \in Caps
    /\ \E n \in 1..OpCount : \E sh \in [1..n -> OpShapes], g \in [1..n -> GroupIds] :
         /\ \A i \in 1..n : g[i] > 1 => i > 1 /\ g[i - 1] > 0
         /\ \E u \in Reads(sh) :
              seq = [i \in 1..n |-> [kind |-> sh[i].kind, dom |-> sh[i].dom, lut |-> sh[i].lut,
                                    fits |-> sh[i].fits, group |-> g[i], src |-> u[i]]]
    /\ entered = "chain" => RunEnd(1) < N
    /\ next = 1 /\ upto = RunEnd(1)
    /\ sofar = [batch |-> << >>,    \* ops gathered and not yet submitted
                rc |-> 0,
                log |-> << >>,      \* the ops submitted, in order
                landed |-> {},      \* those whose result is in its buffer
                saw |-> [i \in 1..N |-> {}],  \* the results an op's inputs hold
                chains |-> << >>,   \* the chains of the last grouped run, one per core
                lost |-> FALSE,     \* ork_dyn_end reported less than was submitted
                refused |-> 0]

-----------------------------------------------------------------------------
(* Submits.  Each gives the states it can leave.                           *)

(* Programs built together: every input is copied before any of them runs. *)
Submit(t, is, ok) ==
    [t EXCEPT !.log = @ \o is,
              !.saw = [i \in DOMAIN @ |-> IF i \in Range(is) THEN seq[i].src \cap t.landed
                                          ELSE @[i]],
              !.landed = IF ok THEN @ \cup Range(is) ELSE @]

Trouble(t) == IF t.refused < MaxRefused THEN {[t EXCEPT !.refused = @ + 1]} ELSE {}

seq_hw_ok(o) == o.kind \in {"mm8", "mm16"} /\ o.fits

(* A doorbell submit that was taken: it lands, or it does not and nobody   *)
(* looks at what ork_dyn_end returns.                                      *)
Doorbell(t, is) ==
    {Submit(t, is, TRUE)} \cup {[Submit(u, is, FALSE) EXCEPT !.lost = TRUE] : u \in Trouble(t)}

(* SEQ_CLASS[kind].fn, or a run of the datapath's own.                     *)
Dispatch(t, i) ==
    IF t.rc # 0 THEN {t}
    ELSE IF seq[i].kind = "unwired" THEN {[t EXCEPT !.rc = -3]}
    ELSE {Submit(t, <<i>>, TRUE)} \cup {[Submit(u, <<i>>, FALSE) EXCEPT !.rc = -1] : u \in Trouble(t)}

(* An op of a run that does not qualify, by itself.                        *)
ByItself(t, i) ==
    IF t.rc = 0 /\ seq_hw_ok(seq[i])
    THEN Doorbell(t, <<i>>) \cup UNION {Dispatch(u, i) : u \in Trouble(t)}
    ELSE Dispatch(t, i)

(* One op after another, until one fails: those of a grouped run that does  *)
(* not qualify, or of a batch that ork_dyn_begin_mc refuses.               *)
InTurn(t, is, grouped) ==
    LET One(u, i) == IF grouped THEN ByItself(u, i) ELSE Dispatch(u, i)
        out[k \in 0..Len(is)] ==
          IF k = 0 THEN {t} ELSE UNION {One(u, is[k]) : u \in out[k - 1]}
    IN out[Len(is)]

(* SEQ_FLUSH_HW: ork_dyn_begin_mc takes the batch, or refuses it.          *)
SEQ_FLUSH_HW(t) ==
    LET b == t.batch
        u == [t EXCEPT !.batch = << >>]
    IN IF b = << >> THEN {t}
       ELSE Doorbell(u, b) \cup UNION {InTurn(v, b, FALSE) : v \in Trouble(u)}

-----------------------------------------------------------------------------
(* Grouped runs.                                                           *)

(* The groups of the run i..j, each the ops of one number: a change of the *)
(* id starts a new one.                                                    *)
GroupNo(i, p) == Cardinality({q \in i..p : q = i \/ seq[q].group # seq[q - 1].group})
Groups(i, j) ==
    [g \in 1..GroupNo(i, j) |->
       LET ops == {p \in i..j : GroupNo(i, p) = g}
       IN [k \in 1..Cardinality(ops) |-> Min(ops) + k - 1]]

Witness == 0
IsMm(i) == i = Witness \/ seq[i].kind = "mm8"

(* A witness matmul closes every group that ends in an SDP op.             *)
Closed(g) == IF IsMm(Last(g)) THEN g ELSE Append(g, Witness)

(* orki_seq_op_ok of each op; one domain, one table of SiLU for all.  The  *)
(* witness was packed when it was first needed, here in domain 0.          *)
OpOk(o) == (o.kind = "mm8" /\ o.fits) \/ o.kind \in {"ewmul", "silu"}
Eligible(i, j) ==
    /\ \A p \in i..j : OpOk(seq[p])
    /\ (\E g \in Range(Groups(i, j)) : ~IsMm(Last(g))) => \A p \in i..j : seq[p].dom = 0
    /\ \A p, q \in i..j : seq[p].kind = seq[q].kind =>
         seq[p].dom = seq[q].dom /\ seq[p].lut = seq[q].lut

(* The greedy assignment of groups to cores.  A matmul weighs its weight,  *)
(* an SDP op its surface: here 3 and 1.                                    *)
Cost(g) == Len(g) + 2 * Cardinality({k \in DOMAIN g : IsMm(g[k])})
NcOf(gs) ==
    IF \E g \in Range(gs) : \E i \in Range(g) \ {Witness} : seq[i].kind = "silu" THEN 1
    ELSE IF Len(gs) < SeqCores THEN Len(gs) ELSE SeqCores

(* Mutant: what a core is given is not added to its load.                  *)
LoadedCore_Not(load, core, cost) == load
LoadedCore(load, core, cost) == [load EXCEPT ![core] = @ + cost]

(* The first of the least loaded cores gets the next group.               *)
Lightest(load) ==
    CHOOSE c \in DOMAIN load : /\ \A d \in DOMAIN load : load[c] <= load[d]
                              /\ \A d \in 1..(c - 1) : load[c] < load[d]
Give(p, g) ==
    LET best == Lightest(p.load)
    IN [load |-> LoadedCore(p.load, best, Cost(g)), chain |-> [p.chain EXCEPT ![best] = @ \o g]]

ChainsOf(gs) ==
    LET cores == NcOf(gs)
        given[k \in 0..Len(gs)] ==
          IF k = 0 THEN [load |-> [c \in 1..cores |-> 0], chain |-> [c \in 1..cores |-> << >>]]
          ELSE Give(given[k - 1], gs[k])
    IN given[Len(gs)].chain

(* ork_i8_dyn_begin_seq_mc builds the chains of all cores, then submits    *)
(* them; ork_dyn_seq_end waits for the last matmul of each.                *)
Grouped(t, i, j) ==
    LET run == [k \in 1..(j - i + 1) |-> i + k - 1]
        gs  == [g \in DOMAIN Groups(i, j) |-> Closed(Groups(i, j)[g])]
        u   == [t EXCEPT !.chains = ChainsOf(gs)]
        fits == Len(FlattenSeq(gs)) <= cap
    IN IF Eligible(i, j) /\ fits
       THEN {Submit(u, run, TRUE)}
            \cup {[Submit(v, run, FALSE) EXCEPT !.rc = -1] : v \in Trouble(u)}
            \cup UNION {InTurn(v, run, TRUE) : v \in Trouble(t)}
       ELSE InTurn(t, run, TRUE)

-----------------------------------------------------------------------------
(* The loop of ork_submit_seq.                                             *)

Inside == next <= upto /\ sofar.rc = 0
Stay == UNCHANGED <<seq, entered, cap, upto>>

(* A grouped run, up to the first op in no group.                          *)
SeqGroup ==
    /\ Inside /\ seq[next].group > 0
    /\ LET j == CHOOSE j \in next..upto :
                  /\ \A p \in next..j : seq[p].group > 0
                  /\ j = upto \/ seq[j + 1].group = 0
       IN \E t \in SEQ_FLUSH_HW(sofar) :
            IF t.rc # 0 THEN sofar' = t /\ next' = next
            ELSE sofar' \in Grouped(t, next, j) /\ next' = j + 1
    /\ Stay

SameBatch(t, o) ==
    t.batch # << >> => /\ seq[t.batch[1]].kind = o.kind /\ seq[t.batch[1]].dom = o.dom
                       /\ Len(t.batch) < cap

(* A matmul for the batch, which holds one dtype and one domain.           *)
SeqHw ==
    /\ Inside /\ seq[next].group = 0 /\ seq_hw_ok(seq[next])
    /\ \E t \in IF SameBatch(sofar, seq[next]) THEN {sofar} ELSE SEQ_FLUSH_HW(sofar) :
         sofar' = [t EXCEPT !.batch = Append(@, next)]
    /\ next' = next + 1 /\ Stay

(* Mutant: an op that runs by itself does not wait for the batch.          *)
SwBreak_Overtakes(t) == {t}
SwBreak(t) == SEQ_FLUSH_HW(t)

SeqSw ==
    /\ Inside /\ seq[next].group = 0 /\ ~seq_hw_ok(seq[next])
    /\ \E t \in SwBreak(sofar) : sofar' \in Dispatch(t, next)
    /\ next' = next + 1 /\ Stay

(* The end of a call: what is left of the batch is submitted, also after a *)
(* failure, and ork_submit_chain goes on with the next run.                *)
SeqEnd ==
    /\ ~Inside /\ (sofar.batch # << >> \/ (sofar.rc = 0 /\ upto < N))
    /\ sofar' \in SEQ_FLUSH_HW(sofar)
    /\ upto' = IF sofar'.rc = 0 /\ upto < N THEN RunEnd(upto + 1) ELSE upto
    /\ UNCHANGED <<seq, entered, cap, next>>

SeqNext == SeqGroup \/ SeqHw \/ SeqSw \/ SeqEnd

SeqSpec == SeqInit /\ [][SeqNext]_seqVars

-----------------------------------------------------------------------------
SeqTypeOK ==
    /\ next \in 1..(N + 1) /\ upto \in 1..N /\ cap \in Caps /\ entered \in Entry
    /\ sofar.rc \in {0, -1, -3}
    /\ Range(sofar.log) \cup sofar.landed \cup Range(sofar.batch) \subseteq 1..N

Returned == ~Inside /\ sofar.batch = << >> /\ (sofar.rc = 0 => upto = N)
Copied(i) == sofar.saw[i] = seq[i].src

(* "Run the n-op sequence in order, HW-batching + SW-breaking": ops are    *)
(* submitted once each and in order whichever path takes them, without a   *)
(* gap unless one fails, a call that returns 0 has submitted every op, and *)
(* an op in no group has read the results of the ops before it, as long as *)
(* no doorbell round was lost.  (With the type invariant.)                 *)
SeqExact ==
    /\ SeqTypeOK
    /\ \A k \in 1..(Len(sofar.log) - 1) : sofar.log[k] < sofar.log[k + 1]
    /\ sofar.rc = 0 => Range(sofar.log) = 1..Len(sofar.log)
    /\ Returned /\ sofar.rc = 0 => Len(sofar.log) = N
    /\ ~sofar.lost /\ sofar.rc = 0 => \A i \in Range(sofar.log) : seq[i].group = 0 => Copied(i)
    /\ \A i, j \in Range(sofar.batch) : seq[i].kind = seq[j].kind /\ seq[i].dom = seq[j].dom

(* "GROUPS ... assigned whole to cores ... so a core runs its groups       *)
(* back-to-back", "each core's LAST program (a matmul) carries the         *)
(* completion sentinel": the ops of a group follow each other on one core, *)
(* no core is submitted an empty chain, and each chain ends in a matmul.   *)
GroupsWhole ==
    LET at_(c, i) == CHOOSE k \in DOMAIN sofar.chains[c] : sofar.chains[c][k] = i
        On(i) == {c \in DOMAIN sofar.chains : i \in Range(sofar.chains[c])}
        grouped == (UNION {Range(sofar.chains[c]) : c \in DOMAIN sofar.chains}) \ {Witness}
    IN /\ \A c \in DOMAIN sofar.chains : sofar.chains[c] # << >> /\ IsMm(Last(sofar.chains[c]))
       /\ \A i \in grouped : Cardinality(On(i)) = 1
       /\ \A i \in grouped : i + 1 \in grouped /\ seq[i].group = seq[i + 1].group =>
            \E c \in On(i) : c \in On(i + 1) /\ at_(c, i + 1) = at_(c, i) + 1

(* include/ork/seq.h: "CONTIGUOUS ops sharing a group id form ONE          *)
(* sequential chain (kept on one core, in order)"; npu.c: "Callers express *)
(* a resident dependent chain by aliasing buffers".  An op has read the    *)
(* results of the ops before it, in a group as elsewhere.  It has not: the *)
(* inputs of a grouped run are copied when the run is built.               *)
ReadsInOrder ==
    ~sofar.lost /\ sofar.rc = 0 => \A i \in Range(sofar.log) : Copied(i)
=============================================================================
