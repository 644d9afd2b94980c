----------------------------- MODULE StreamPool -----------------------------
(***************************************************************************)
(* ork_stream_pool (npu.c, npu/core/buf.c): weights held in RAM as bare    *)
(* dma-bufs and mapped into the IOVA window when they are used.  The pool  *)
(* slides the window itself: a run whose weight does not fit unmaps the    *)
(* least recently used one and tries again from the first buffer.          *)
(*                                                                         *)
(* An entry is a stage of buffers that are mapped one ioctl at a time.     *)
(* The rest of the window belongs to other users of the device, who take   *)
(* and give back room at any time.  What is in the buffers is left out.    *)
(***************************************************************************)
EXTENDS Integers, Sequences, FiniteSets

CONSTANTS
    Entries,      \* entries there can be at one time
    NoEntry,
    Bufs,         \* how many buffers (Bb, then Bf) an entry may have
    WINDOW,       \* room of the IOVA window, in buffers
    MaxOther,     \* bound: room taken by others
    MaxClock      \* bound: runs

ASSUME PoolAssumption ==
    /\ NoEntry \notin Entries
    /\ Bufs \subseteq Nat \ {0} /\ WINDOW \in Nat /\ MaxOther \in Nat /\ MaxClock \in Nat

VARIABLES
    e,           \* p->e, the entries of the pool
    size,        \* [entry -> its buffers, 0 for none]
    iova,        \* the buffers <<entry, i>> that are mapped
    mapped,      \* e->mapped
    stg_mapped,  \* s->mapped, of the entry's stage
    last_use, clock,
    other,       \* room of the window others have taken
    doing,       \* the call in progress, or how the last one ended
    entry,       \* the entry it is about
    ix           \* position: the next buffer to map, 0 outside ork_stage_map

poolState == <<e, size, mapped, stg_mapped, last_use, clock>>
strVars == <<e, size, iova, mapped, stg_mapped, last_use, clock, other, doing, entry, ix>>

StrInit ==
    /\ e = <<>> /\ size = [x \in Entries |-> 0] /\ iova = {}
    /\ mapped = [x \in Entries |-> FALSE] /\ stg_mapped = [x \in Entries |-> FALSE]
    /\ last_use = [x \in Entries |-> 0] /\ clock = 0
    /\ other = 0
    /\ doing = "none" /\ entry = NoEntry /\ ix = 0

Pooled == {e[i] : i \in DOMAIN e}
Of(x) == {b \in iova : b[1] = x}
Vacant == WINDOW - other - Cardinality(iova)

(* The call returns.                                                       *)
Returns(r) == doing' = r /\ ix' = 0
Idle == doing \notin {"map", "run"}

Others ==
    /\ other' \in 0 .. MaxOther /\ other' + Cardinality(iova) <= WINDOW
    /\ UNCHANGED <<poolState, iova, doing, entry, ix>>

(* orki_pool_new_entry: the buffers are allocated and filled, not mapped.  *)
Add(x, n) ==
    /\ Idle /\ x \notin Pooled
    /\ e' = Append(e, x) /\ size' = [size EXCEPT ![x] = n]
    /\ UNCHANGED <<iova, mapped, stg_mapped, last_use, clock, other, doing, entry, ix>>

(* ork_stream_pool_map and ork_stream_pool_run, to the call of              *)
(* ork_stage_map.                                                          *)
PoolMap(x) ==
    /\ Idle /\ x \in Pooled /\ ~mapped[x]
    /\ doing' = "map" /\ entry' = x /\ ix' = 1
    /\ UNCHANGED <<poolState, iova, other>>

Ran(x) == /\ clock' = clock + 1
          /\ last_use' = [last_use EXCEPT ![x] = clock + 1]

PoolRun(x) ==
    /\ Idle /\ x \in Pooled /\ clock < MaxClock
    /\ entry' = x
    /\ IF mapped[x] THEN Returns("ran") /\ Ran(x)
       ELSE doing' = "run" /\ ix' = 1 /\ UNCHANGED <<clock, last_use>>
    /\ UNCHANGED <<e, size, iova, mapped, stg_mapped, other>>

(* ork_stage_map: one MEM_CREATE.                                          *)
MapBuf ==
    /\ ix > 0 /\ ix <= size[entry] /\ Vacant > 0
    /\ iova' = iova \cup {<<entry, ix>>}
    /\ ix' = ix + 1
    /\ UNCHANGED <<poolState, other, doing, entry>>

(* Every buffer is mapped: the stage is, then the entry, and a run runs.   *)
MapDone ==
    /\ ~Idle /\ ix = size[entry] + 1
    /\ stg_mapped' = [stg_mapped EXCEPT ![entry] = TRUE]
    /\ mapped' = [mapped EXCEPT ![entry] = TRUE]
    /\ IF doing = "run" THEN Returns("ran") /\ Ran(entry)
       ELSE Returns("none") /\ UNCHANGED <<clock, last_use>>
    /\ UNCHANGED <<e, size, iova, other, entry>>

(* Mutant: the maps made before the one that failed are kept.              *)
RolledBack_Not(x) == iova
RolledBack(x) == iova \ Of(x)

(* The window is full: the maps made so far are rolled back.               *)
MapFails ==
    /\ ix > 0 /\ ix <= size[entry] /\ Vacant = 0
    /\ iova' = RolledBack(entry)
    /\ IF doing = "run" THEN ix' = 0 /\ UNCHANGED doing ELSE Returns("full")
    /\ UNCHANGED <<poolState, other, entry>>

(* pool_unmap_lru, and the next attempt.                                   *)
Candidates == {x \in Pooled : mapped[x] /\ x # entry}
Oldest == {x \in Candidates : \A y \in Candidates : last_use[x] <= last_use[y]}

ork_stage_unmap(x) ==
    /\ iova' = iova \ Of(x)
    /\ stg_mapped' = [stg_mapped EXCEPT ![x] = FALSE]
    /\ mapped' = [mapped EXCEPT ![x] = FALSE]

Evict ==
    /\ doing = "run" /\ ix = 0
    /\ IF Oldest = {}
       THEN Returns("oom") /\ UNCHANGED <<iova, stg_mapped, mapped>>
       ELSE LET first == CHOOSE i \in DOMAIN e :
                           e[i] \in Oldest /\ \A j \in 1 .. (i - 1) : e[j] \notin Oldest
            IN ork_stage_unmap(e[first]) /\ ix' = 1 /\ UNCHANGED doing
    /\ UNCHANGED <<e, size, last_use, clock, other, entry>>

PoolUnmap(x) ==
    /\ Idle /\ mapped[x]
    /\ ork_stage_unmap(x)
    /\ doing' = "none" /\ entry' = NoEntry
    /\ UNCHANGED <<e, size, last_use, clock, other, ix>>

(* ork_stream_pool_remove: ork_stage_free, and the last entry takes the    *)
(* place of the one that goes.                                             *)
PoolRemove(i) ==
    /\ Idle
    /\ ork_stage_unmap(e[i])
    /\ e' = SubSeq([e EXCEPT ![i] = e[Len(e)]], 1, Len(e) - 1)
    /\ size' = [size EXCEPT ![e[i]] = 0] /\ last_use' = [last_use EXCEPT ![e[i]] = 0]
    /\ doing' = "none" /\ entry' = NoEntry
    /\ UNCHANGED <<clock, other, ix>>

StrNext ==
    \/ Others \/ MapBuf \/ MapDone \/ MapFails \/ Evict
    \/ \E x \in Entries : \/ PoolMap(x) \/ PoolRun(x) \/ PoolUnmap(x)
                          \/ \E n \in Bufs : Add(x, n)
    \/ \E i \in DOMAIN e : PoolRemove(i)

StrSpec == StrInit /\ [][StrNext]_strVars

-----------------------------------------------------------------------------
StrTypeOK ==
    /\ \A i, j \in DOMAIN e : i # j => e[i] # e[j]
    /\ \A x \in Entries : size[x] = 0 <=> x \notin Pooled
    /\ iova \subseteq {b \in Entries \X Nat : b[2] \in 1 .. size[b[1]]}
    /\ doing \in {"none", "map", "run", "ran", "full", "oom"}
    /\ entry \in Pooled \cup {NoEntry}
    /\ IF Idle THEN ix = 0 ELSE ix \in 0 .. (size[entry] + 1)

(* A weight is in the window as a whole or not at all, and the three       *)
(* records of it agree: the entry's flag, its stage's, and the buffers     *)
(* that are mapped, but for the one ork_stage_map is at work on.  A run    *)
(* that fails ("nothing left to evict -> genuine OOM") has left no other   *)
(* entry mapped, and one that ran has its weight mapped.  (With the type   *)
(* invariant.)                                                             *)
PoolExact ==
    /\ StrTypeOK
    /\ Cardinality(iova) + other <= WINDOW
    /\ \A x \in Entries :
         /\ mapped[x] = stg_mapped[x]
         /\ mapped[x] => Of(x) = {x} \X (1 .. size[x])
         /\ ~mapped[x] => Of(x) = (IF x = entry /\ ~Idle THEN {x} \X (1 .. (ix - 1)) ELSE {})
    /\ doing = "ran" => mapped[entry]
    /\ doing = "oom" => \A x \in Entries \ {entry} : ~mapped[x]
=============================================================================
