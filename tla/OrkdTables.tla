----------------------------- MODULE OrkdTables -----------------------------
(***************************************************************************)
(* The memory the daemon holds for its clients: the slots of the array     *)
(* cl[], each with a table of resident weights (wt, nw) and a table of     *)
(* resident-KV handles (kvt, nkv), as accept, the handlers PACK, FREE and  *)
(* KV_ALLOC, and the drop path with its compaction use them (src/orkd.c,   *)
(* src/orkd_handlers.c).                                                   *)
(*                                                                         *)
(* A slot above nc is not in use but keeps what was last stored in it.     *)
(* Weights and KV handles are heap objects: a freed one may be allocated   *)
(* again.  main() does not initialise cl[]; the model starts from pages of *)
(* zeroes, which is what the first use of that stack gives at best.        *)
(***************************************************************************)
EXTENDS Integers, Sequences, FiniteSets

CONSTANTS
    W,               \* addresses of ork_w objects
    KV,              \* addresses of ork_kv_resident objects
    MAX_CLIENTS,     \* ORKD_MAX_CLIENTS
    MAX_WEIGHTS,     \* ORKD_MAX_WEIGHTS, the size of wt and of kvt
    MaxWid           \* bound: handles issued to one connection

ASSUME TablesAssumption ==
    MAX_CLIENTS \in Nat \ {0} /\ MAX_WEIGHTS \in Nat /\ MaxWid \in Nat

VARIABLES
    nc,        \* slots in use
    cl,        \* the slots
    weights,   \* ork_w objects allocated
    kvs        \* ork_kv_resident objects allocated

tabVars == <<nc, cl, weights, kvs>>

Slots == 1 .. MAX_CLIENTS
Used == 1 .. nc
Wids == 1 .. MaxWid

TabInit ==
    /\ nc = 0
    /\ cl = [i \in Slots |-> [wt |-> {}, next_wid |-> 0, kvt |-> {}]]
    /\ weights = {}
    /\ kvs = {}

WeightsOf(i) == {x.w : x \in cl[i].wt}
KvsOf(i) == {x.kv : x \in cl[i].kvt}

(* accept fills every field of the new slot but the kv table.              *)
Accept ==
    /\ nc < MAX_CLIENTS
    /\ nc' = nc + 1
    /\ cl' = [cl EXCEPT ![nc + 1].wt = {}, ![nc + 1].next_wid = 0]
    /\ UNCHANGED <<weights, kvs>>

(* A weight that finds the table full is freed again.                      *)
PackInto(i) ==
    /\ cl[i].next_wid < MaxWid
    /\ \E w \in W \ weights :
         IF Cardinality(cl[i].wt) < MAX_WEIGHTS
         THEN /\ cl' = [cl EXCEPT
                          ![i].next_wid = @ + 1,
                          ![i].wt = @ \cup {[id |-> cl[i].next_wid + 1, w |-> w]}]
              /\ weights' = weights \cup {w}
         ELSE UNCHANGED <<cl, weights>>
    /\ UNCHANGED <<nc, kvs>>

Free(i, id) ==
    LET hit == {x \in cl[i].wt : x.id = id} IN
    /\ cl' = [cl EXCEPT ![i].wt = @ \ hit]
    /\ weights' = weights \ {x.w : x \in hit}
    /\ UNCHANGED <<nc, kvs>>

(* Room for the pair's two weights and its handle.                         *)
KvFits(i) ==
    /\ Cardinality(cl[i].wt) + 2 <= MAX_WEIGHTS
    /\ Cardinality(cl[i].kvt) < MAX_WEIGHTS

(* K^T and V are registered as weights of their own, the pair as a handle; *)
(* without room for all three the pair is freed again.                     *)
KvPair(i) ==
    LET n == cl[i].next_wid IN
    /\ n + 3 <= MaxWid
    /\ \E wkt \in W \ weights, kv \in KV \ kvs :
         \E wv \in W \ (weights \cup {wkt}) :
           IF KvFits(i)
           THEN /\ cl' = [cl EXCEPT
                    ![i].next_wid = n + 3,
                    ![i].wt = @ \cup {[id |-> n + 1, w |-> wkt], [id |-> n + 2, w |-> wv]},
                    ![i].kvt = @ \cup {[id |-> n + 3, kv |-> kv]}]
                /\ weights' = weights \cup {wkt, wv}
                /\ kvs' = kvs \cup {kv}
           ELSE UNCHANGED <<cl, weights, kvs>>
    /\ UNCHANGED nc

(* client_reclaim: the weights, then the kv structs; both tables empty.    *)
Reclaimed(i) == [cl[i] EXCEPT !.wt = {}, !.kvt = {}]

(* Mutant: the slot is reclaimed after the last one has moved into it.     *)
FreedOnDrop_Late(i) == WeightsOf(nc)
FreedOnDrop(i) == WeightsOf(i)

(* The drop path, then cl[i] = cl[nc-1]; nc--: the last slot keeps its old *)
(* contents.                                                               *)
DropClient(i) ==
    /\ weights' = weights \ FreedOnDrop(i)
    /\ kvs' = kvs \ KvsOf(i)
    /\ cl' = [cl EXCEPT ![i] = IF i = nc THEN Reclaimed(i) ELSE cl[nc]]
    /\ nc' = nc - 1

TabNext == \/ Accept
        \/ \E i \in Used : \/ PackInto(i) \/ KvPair(i) \/ DropClient(i)
                           \/ \E id \in Wids : Free(i, id)

TabSpec == TabInit /\ [][TabNext]_tabVars

-----------------------------------------------------------------------------
(* The slots, tables and heap objects have the shape of struct client, and *)
(* no table of a slot in use is longer than its array.                     *)
TabTypeOK ==
    /\ nc \in 0 .. MAX_CLIENTS
    /\ cl \in [Slots -> [wt : SUBSET [id : Wids, w : W], next_wid : 0 .. MaxWid,
                         kvt : SUBSET [id : Wids, kv : KV]]]
    /\ \A i \in Slots : Cardinality(cl[i].wt) <= MAX_WEIGHTS
                        /\ Cardinality(cl[i].kvt) <= MAX_WEIGHTS
    /\ weights \subseteq W
    /\ kvs \subseteq KV

(* "the leak-safe reclaim (a crashed client can't leak)": the weights that *)
(* are allocated are exactly those in the tables of the slots in use, each *)
(* in one table under one handle, whatever PACK, FREE, KV_ALLOC, drops and *)
(* compaction did; so every weight is freed once and none is used after.   *)
(* (With the type invariant.)                                              *)
WeightsExact ==
    /\ TabTypeOK
    /\ weights = UNION {WeightsOf(i) : i \in Used}
    /\ \A i, j \in Used : i # j => WeightsOf(i) \cap WeightsOf(j) = {}
    /\ \A i \in Used : \A x, y \in cl[i].wt : x.w = y.w \/ x.id = y.id => x = y

(* "keep the kv handle in kvt[] for append. Freed with the rest on client  *)
(* drop": a kv handle belongs to one connected client, which is the one    *)
(* that frees it.                                                          *)
KvExact ==
    /\ kvs = UNION {KvsOf(i) : i \in Used}
    /\ \A i, j \in Used : i # j => KvsOf(i) \cap KvsOf(j) = {}
=============================================================================
