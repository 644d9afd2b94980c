----------------------------- MODULE MCResident -----------------------------
(* What clients leave in the daemon and in the window of the NPU: the      *)
(* tables of weights, the descriptors and mappings of a connection, the    *)
(* slots of a ring and the entries of a stream pool; and the sequences of  *)
(* ops they submit.  They share no state; each is looked at on its own.    *)
EXTENDS OrkdTables, OrkdRequest, OrkdRing, StreamPool, SeqSubmit

VARIABLE which

allVars == <<tabVars, vars, ringVars, strVars, seqVars, which>>

(* The sequence of the parts that do not run is fixed.                     *)
OneOp == /\ entered = "seq" /\ cap = CHOOSE c \in Caps : TRUE
         /\ seq = << [kind |-> "unwired", dom |-> 0, lut |-> 0, fits |-> FALSE, group |-> 0, src |-> {}] >>

MCInit == /\ which \in {"tables", "stream", "ring", "pool", "seq"}
          /\ which # "seq" => OneOp
          /\ SeqInit /\ TabInit /\ Init /\ RingInit /\ StrInit
          /\ which # "stream" => ~srv.adopt_zc

InTables(Step) == which = "tables" /\ Step /\ UNCHANGED <<vars, ringVars, strVars, seqVars, which>>
InStream(Step) == which = "stream" /\ Step /\ UNCHANGED <<tabVars, ringVars, strVars, seqVars, which>>
InRing(Step) == which = "ring" /\ Step /\ UNCHANGED <<tabVars, vars, strVars, seqVars, which>>
InPool(Step) == which = "pool" /\ Step /\ UNCHANGED <<tabVars, vars, ringVars, seqVars, which>>
InSeq(Step) == which = "seq" /\ Step /\ UNCHANGED <<tabVars, vars, ringVars, strVars, which>>

(* A ring whose daemon is gone may rest, and so may a sequence that is     *)
(* over; nothing else ever may.                                            *)
Rest == InRing(dpc = "gone" /\ UNCHANGED ringVars) \/ InSeq(Returned /\ UNCHANGED seqVars)

MCNext == InTables(TabNext) \/ InStream(Next) \/ InRing(RingNext) \/ InPool(StrNext)
          \/ InSeq(SeqNext) \/ Rest

MCSpec == MCInit /\ [][MCNext]_allVars
=============================================================================
