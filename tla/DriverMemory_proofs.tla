-------------------------- MODULE DriverMemory_proofs --------------------------
(***************************************************************************)
(* Proofs about what the driver keeps mapped: the weights that slide       *)
(* through the window of a streaming pool (StreamPool), and the run        *)
(* scratch of a context in every domain it has run in (NpuContext).        *)
(***************************************************************************)
EXTENDS StreamPool, NpuContext, FiniteSetTheorems, SequenceTheorems, WellFoundedInduction, TLAPS

-----------------------------------------------------------------------------
(***************************************************************************)
(* StreamPool: for any number of entries and buffers and any window.       *)
(***************************************************************************)

(* The inductive invariant.                                                *)

Shapes ==
    /\ e \in Seq(Entries)
    /\ size \in [Entries -> Nat]
    /\ mapped \in [Entries -> BOOLEAN] /\ stg_mapped \in [Entries -> BOOLEAN]
    /\ last_use \in [Entries -> Nat] /\ clock \in Nat
    /\ iova \subseteq Entries \X Nat /\ IsFiniteSet(iova)
    /\ other \in Nat
    /\ doing \in {"none", "map", "run", "ran", "full", "oom"}
    /\ entry \in Entries \cup {NoEntry}
    /\ ix \in Nat

(* The pool lists each of its entries once, and they have buffers.         *)
Listed ==
    /\ \A i, j \in DOMAIN e : i # j => e[i] # e[j]
    /\ \A x \in Entries : size[x] = 0 <=> x \notin Pooled
    /\ \A x \in Entries : mapped[x] => x \in Pooled
    /\ entry \in Pooled \cup {NoEntry}

(* Where ork_stage_map is: at an entry of the pool that is not mapped.     *)
Position ==
    IF Idle THEN ix = 0
    ELSE /\ entry \in Pooled /\ ~mapped[entry]
         /\ ix <= size[entry] + 1
         /\ doing = "map" => ix > 0

(* How many of x's buffers are in the window, counted from the first.      *)
Room(x) == IF mapped[x] THEN size[x] ELSE IF ~Idle /\ x = entry THEN ix - 1 ELSE 0
WindowHolds ==
    /\ \A x \in Entries, i \in Nat : <<x, i>> \in iova <=> 1 <= i /\ i <= Room(x)
    /\ Cardinality(iova) + other <= WINDOW

Outcome ==
    /\ stg_mapped = mapped
    /\ doing = "ran" => entry \in Entries /\ mapped[entry]
    /\ doing = "oom" => \A x \in Entries \ {entry} : ~mapped[x]

StreamInv == Shapes /\ Listed /\ Position /\ WindowHolds /\ Outcome
-----------------------------------------------------------------------------
(* Facts about numbers and sequences.                                      *)

(* Among numbers there is a least: an LRU victim, the first of its kind.   *)
LEMMA Least ==
    ASSUME NEW S, S \subseteq Nat, S # {}
    PROVE  \E x \in S : \A y \in S : x <= y
<1>1. PICK x \in S : \A y \in S : ~ (<<y, x>> \in OpToRel(<, Nat))
  <2>1. \E x \in S : \A y \in S : ~ (<<y, x>> \in OpToRel(<, Nat))
    BY NatLessThanWellFounded, WFMin
  <2> QED BY <2>1
<1>2. ASSUME NEW y \in S PROVE x <= y
  <2>1. ~ (<<y, x>> \in OpToRel(<, Nat))
    BY <1>1
  <2>2. <<y, x>> \in Nat \X Nat /\ x \in Nat /\ y \in Nat
    OBVIOUS
  <2>3. ~ (y < x)
    BY <2>1, <2>2 DEF OpToRel
  <2> QED BY <2>2, <2>3
<1> QED BY <1>2

LEMMA FirstOf ==
    ASSUME NEW S, NEW s, NEW n \in Nat, \A i \in 1 .. n : s[i] \in S
    PROVE  /\ SubSeq(s, 1, n) \in Seq(S) /\ Len(SubSeq(s, 1, n)) = n
           /\ \A j \in 1 .. n : SubSeq(s, 1, n)[j] = s[j]
OBVIOUS

(* ork_stream_pool_remove's compaction takes exactly one entry off.        *)
LEMMA CompactEntries ==
    ASSUME Shapes, Listed, NEW i \in DOMAIN e,
           e' = SubSeq([e EXCEPT ![i] = e[Len(e)]], 1, Len(e) - 1)
    PROVE  /\ e' \in Seq(Entries)
           /\ \A j, k \in DOMAIN e' : j # k => e'[j] # e'[k]
           /\ Pooled' = Pooled \ {e[i]}
<1> DEFINE n == Len(e)
           s == [e EXCEPT ![i] = e[n]]
<1>1. e \in Seq(Entries) /\ n \in Nat /\ i \in 1 .. n /\ DOMAIN e = 1 .. n
  BY DEF Shapes
<1>2. \A j \in 1 .. n : s[j] \in Entries /\ s[j] = IF j = i THEN e[n] ELSE e[j]
  BY <1>1
<1> HIDE DEF s, n
<1>3. /\ e' \in Seq(Entries) /\ Len(e') = n - 1
      /\ \A j \in 1 .. (n - 1) : e'[j] = s[j]
  <2>1. e' = SubSeq(s, 1, n - 1) /\ n - 1 \in Nat
    BY <1>1 DEF s, n
  <2>2. \A j \in 1 .. (n - 1) : s[j] \in Entries
    BY <1>1, <1>2
  <2>3. /\ SubSeq(s, 1, n - 1) \in Seq(Entries) /\ Len(SubSeq(s, 1, n - 1)) = n - 1
        /\ \A j \in 1 .. (n - 1) : SubSeq(s, 1, n - 1)[j] = s[j]
    BY <2>1, <2>2, FirstOf
  <2> QED BY <2>1, <2>3, Zenon
<1>4. DOMAIN e' = 1 .. (n - 1)
  BY <1>3
<1>5. \A j \in 1 .. (n - 1) : e'[j] = IF j = i THEN e[n] ELSE e[j]
  BY <1>1, <1>2, <1>3
<1>6. \A j, k \in 1 .. n : j # k => e[j] # e[k]
  BY <1>1 DEF Listed
<1>7. \A j, k \in DOMAIN e' : j # k => e'[j] # e'[k]
  BY <1>1, <1>4, <1>5, <1>6
<1>8. Pooled' = {e'[j] : j \in 1 .. (n - 1)} /\ Pooled = {e[j] : j \in 1 .. n}
  BY <1>1, <1>4 DEF Pooled
<1>9. ASSUME NEW x PROVE x \in Pooled' <=> x \in Pooled \ {e[i]}
  <2>1. ASSUME NEW j \in 1 .. (n - 1), x = e'[j] PROVE x \in Pooled \ {e[i]}
    <3>1. CASE j = i
      BY <1>1, <1>5, <1>6, <1>8, <2>1, <3>1
    <3>2. CASE j # i
      BY <1>1, <1>5, <1>6, <1>8, <2>1, <3>2
    <3> QED BY <3>1, <3>2
  <2>2. ASSUME NEW j \in 1 .. n, x = e[j], x # e[i] PROVE x \in Pooled'
    <3>1. CASE j = n
      BY <1>1, <1>5, <1>8, <2>2, <3>1
    <3>2. CASE j # n
      BY <1>1, <1>5, <1>8, <2>2, <3>2
    <3> QED BY <3>1, <3>2
  <2> QED BY <1>8, <2>1, <2>2
<1> QED BY <1>3, <1>7, <1>9

LEMMA PooledEntries == Shapes => Pooled \subseteq Entries
BY DEF Shapes, Pooled

-----------------------------------------------------------------------------
LEMMA StreamInit == StrInit => StreamInv
<1> SUFFICES ASSUME StrInit PROVE StreamInv
  OBVIOUS
<1> USE PoolAssumption DEF StrInit
<1>1. Pooled = {}
  BY DEF Pooled
<1>2. Shapes
  BY FS_EmptySet DEF Shapes
<1>3. Listed /\ Position /\ Outcome
  BY <1>1 DEF Listed, Position, Outcome, Idle
<1>4. WindowHolds
  BY FS_EmptySet DEF WindowHolds, Room, Idle
<1> QED BY <1>2, <1>3, <1>4 DEF StreamInv

(* Others come and go in what the pool leaves free.                        *)
LEMMA StreamOthers ==
    ASSUME StreamInv, Others
    PROVE  StreamInv'
<1> USE PoolAssumption DEF Others, poolState
<1>1. Shapes' /\ Listed' /\ Position'
  BY DEF StreamInv, Shapes, Listed, Position, Idle, Pooled
<1>2. WindowHolds'
  <2>1. \A x \in Entries : Room(x)' = Room(x)
    BY DEF Room, Idle
  <2>2. Cardinality(iova) \in Nat /\ other' \in Nat /\ iova' = iova
    BY FS_CardinalityType DEF StreamInv, Shapes
  <2> QED BY <2>1, <2>2 DEF StreamInv, WindowHolds
<1>3. Outcome'
  BY DEF StreamInv, Outcome
<1> QED BY <1>1, <1>2, <1>3 DEF StreamInv

(* A new entry has nothing in the window.                                  *)
LEMMA StreamAdd ==
    ASSUME StreamInv, NEW x \in Entries, NEW n \in Bufs, Add(x, n)
    PROVE  StreamInv'
<1> USE PoolAssumption DEF Add
<1>0. x \notin Pooled /\ n \in Nat /\ n # 0 /\ ~mapped[x] /\ x # NoEntry
  BY DEF StreamInv, Listed
<1>1. /\ e' \in Seq(Entries) /\ DOMAIN e' = 1 .. (Len(e) + 1) /\ DOMAIN e = 1 .. Len(e)
      /\ Len(e) \in Nat
      /\ \A i \in 1 .. Len(e) : e'[i] = e[i]
      /\ e'[Len(e) + 1] = x
  BY DEF StreamInv, Shapes
<1>2. Pooled' = Pooled \cup {x}
  BY <1>1 DEF Pooled
<1>3. Shapes'
  BY <1>0, <1>1 DEF StreamInv, Shapes
<1>4. Listed'
  <2>1. \A i, j \in DOMAIN e' : i # j => e'[i] # e'[j]
    <3>1. \A i \in 1 .. Len(e) : e[i] # x
      BY <1>0, <1>1 DEF Pooled
    <3>2. \A i, j \in 1 .. Len(e) : i # j => e[i] # e[j]
      BY <1>1 DEF StreamInv, Listed
    <3> QED BY <1>1, <3>1, <3>2
  <2> QED BY <1>0, <1>2, <2>1 DEF StreamInv, Shapes, Listed
<1>5. Position' /\ Outcome'
  BY DEF StreamInv, Position, Outcome, Idle
<1>6. WindowHolds'
  <2>1. \A y \in Entries : Room(y)' = Room(y)
    BY <1>0 DEF Room, Idle, StreamInv, Shapes
  <2> QED BY <2>1 DEF StreamInv, WindowHolds
<1> QED BY <1>3, <1>4, <1>5, <1>6 DEF StreamInv

(* A run is entered in the LRU clock.                                      *)
LEMMA RanShapes ==
    ASSUME Shapes, NEW x \in Entries, Ran(x)
    PROVE  clock' \in Nat /\ last_use' \in [Entries -> Nat]
<1>1. clock \in Nat /\ clock + 1 \in Nat /\ last_use \in [Entries -> Nat]
  BY DEF Shapes
<1> QED BY <1>1 DEF Ran

(* A call begins: on an entry that is not mapped, from its first buffer.   *)
LEMMA StreamCall ==
    ASSUME StreamInv, NEW x \in Entries, PoolMap(x) \/ PoolRun(x)
    PROVE  StreamInv'
<1> USE DEF PoolMap, PoolRun, Returns, poolState
<1>0. /\ Idle /\ x \in Pooled /\ ix = 0 /\ entry' = x
      /\ UNCHANGED <<e, size, iova, mapped, stg_mapped, other>>
  BY DEF StreamInv, Position
<1>1. CASE mapped[x] /\ doing' = "ran" /\ ix' = 0
  <2>1. Shapes'
    <3>1. clock' \in Nat /\ last_use' \in [Entries -> Nat]
      BY <1>1, RanShapes DEF StreamInv
    <3> QED BY <1>0, <1>1, <3>1 DEF StreamInv, Shapes
  <2>2. Listed' /\ Position' /\ Outcome'
    BY <1>0, <1>1 DEF StreamInv, Listed, Position, Outcome, Idle, Pooled
  <2>3. WindowHolds'
    BY <1>0, <1>1 DEF StreamInv, WindowHolds, Room, Idle
  <2> QED BY <2>1, <2>2, <2>3 DEF StreamInv
<1>2. CASE ~mapped[x] /\ doing' \in {"map", "run"} /\ ix' = 1
  <2>0. ~Idle' /\ size[x] \in Nat
    BY <1>2 DEF Idle, StreamInv, Shapes
  <2>1. Shapes'
    BY <1>0, <1>2 DEF StreamInv, Shapes
  <2>2. Listed' /\ Position' /\ Outcome'
    BY <1>0, <1>2, <2>0 DEF StreamInv, Listed, Position, Outcome, Pooled
  <2>3. WindowHolds'
    <3>1. \A y \in Entries : Room(y)' = Room(y)
      BY <1>0, <1>2, <2>0 DEF Room
    <3> QED BY <1>0, <3>1 DEF StreamInv, WindowHolds
  <2> QED BY <2>1, <2>2, <2>3 DEF StreamInv
<1>3. mapped[x] \in BOOLEAN
  BY DEF StreamInv, Shapes
<1> QED BY <1>1, <1>2, <1>3

(* One more buffer of the entry is in the window, which had room.          *)
LEMMA StreamMapBuf ==
    ASSUME StreamInv, MapBuf
    PROVE  StreamInv'
<1> USE DEF MapBuf, poolState
<1>0. /\ ~Idle /\ ~Idle' /\ entry \in Entries /\ ~mapped[entry] /\ ix \in Nat /\ ix > 0
      /\ <<entry, ix>> \notin iova /\ size[entry] \in Nat
  <2>1. ~Idle /\ ~Idle' /\ entry \in Entries /\ ~mapped[entry] /\ ix \in Nat /\ ix > 0
    BY PooledEntries DEF StreamInv, Position, Shapes, Idle
  <2>2. Room(entry) = ix - 1
    BY <2>1 DEF Room
  <2> QED BY <2>1, <2>2 DEF StreamInv, WindowHolds, Shapes
<1>1. Shapes'
  <2>1. iova' \subseteq Entries \X Nat
    BY <1>0 DEF StreamInv, Shapes
  <2>2. IsFiniteSet(iova')
    BY FS_AddElement DEF StreamInv, Shapes
  <2>3. ix' \in Nat
    BY <1>0
  <2> QED BY <2>1, <2>2, <2>3 DEF StreamInv, Shapes
<1>2. Listed' /\ Position' /\ Outcome'
  BY <1>0 DEF StreamInv, Listed, Position, Outcome, Pooled
<1>3. WindowHolds'
  <2>1. \A x \in Entries : Room(x)' = IF x = entry THEN ix ELSE Room(x)
    BY <1>0 DEF Room
  <2>2. Room(entry) = ix - 1
    BY <1>0 DEF Room
  <2>3. \A x \in Entries, i \in Nat : <<x, i>> \in iova' <=> 1 <= i /\ i <= Room(x)'
    <3> SUFFICES ASSUME NEW x \in Entries, NEW i \in Nat
                 PROVE  <<x, i>> \in iova' <=> 1 <= i /\ i <= Room(x)'
      OBVIOUS
    <3>1. <<x, i>> \in iova' <=> <<x, i>> \in iova \/ (x = entry /\ i = ix)
      OBVIOUS
    <3>2. <<x, i>> \in iova <=> 1 <= i /\ i <= Room(x)
      BY DEF StreamInv, WindowHolds
    <3> QED BY <1>0, <2>1, <2>2, <3>1, <3>2
  <2>4. Cardinality(iova') + other' <= WINDOW
    <3>1. Cardinality(iova') = Cardinality(iova) + 1 /\ Cardinality(iova) \in Nat
      BY <1>0, FS_AddElement, FS_CardinalityType DEF StreamInv, Shapes
    <3> QED BY <3>1, PoolAssumption DEF Vacant, StreamInv, Shapes
  <2> QED BY <2>3, <2>4 DEF WindowHolds
<1> QED BY <1>1, <1>2, <1>3 DEF StreamInv

(* The last buffer is in: the entry is mapped as a whole.                  *)
LEMMA StreamMapDone ==
    ASSUME StreamInv, MapDone
    PROVE  StreamInv'
<1> USE DEF MapDone, Returns
<1>0. /\ ~Idle /\ Idle' /\ entry \in Entries /\ entry \in Pooled /\ ~mapped[entry]
      /\ ix = size[entry] + 1 /\ size[entry] \in Nat /\ doing' \in {"ran", "none"} /\ ix' = 0
      /\ \A x \in Entries : mapped'[x] <=> (x = entry \/ mapped[x])
  BY PooledEntries DEF StreamInv, Position, Shapes, Idle
<1>1. Shapes'
  <2>1. clock' \in Nat /\ last_use' \in [Entries -> Nat]
    <3>1. CASE doing = "run"
      BY <1>0, <3>1, RanShapes DEF StreamInv
    <3>2. CASE doing # "run"
      BY <3>2 DEF StreamInv, Shapes
    <3> QED BY <3>1, <3>2
  <2>2. mapped' \in [Entries -> BOOLEAN] /\ stg_mapped' \in [Entries -> BOOLEAN]
    BY DEF StreamInv, Shapes
  <2> QED BY <1>0, <2>1, <2>2 DEF StreamInv, Shapes
<1>2. Listed' /\ Position'
  BY <1>0 DEF StreamInv, Listed, Position, Pooled
<1>3. Outcome'
  BY <1>0 DEF StreamInv, Outcome, Shapes
<1>4. WindowHolds'
  <2>1. \A x \in Entries : Room(x)' = Room(x)
    BY <1>0 DEF Room
  <2> QED BY <2>1 DEF StreamInv, WindowHolds
<1> QED BY <1>1, <1>2, <1>3, <1>4 DEF StreamInv

(* Taking all of an entry's buffers out of the window.                     *)
LEMMA TakeOut ==
    ASSUME StreamInv, NEW x \in Entries, iova' = iova \ Of(x), other' = other
    PROVE  /\ iova' \subseteq Entries \X Nat /\ IsFiniteSet(iova')
           /\ Cardinality(iova') + other' <= WINDOW
           /\ \A y \in Entries, i \in Nat :
                <<y, i>> \in iova' <=> y # x /\ 1 <= i /\ i <= Room(y)
<1>1. iova \subseteq Entries \X Nat /\ IsFiniteSet(iova) /\ other \in Nat
  BY DEF StreamInv, Shapes
<1>2. iova' \in SUBSET iova
  OBVIOUS
<1>3. IsFiniteSet(iova') /\ Cardinality(iova') <= Cardinality(iova)
  BY <1>1, <1>2, FS_Subset
<1>4. Cardinality(iova') \in Nat /\ Cardinality(iova) \in Nat
  BY <1>1, <1>3, FS_CardinalityType
<1>5. \A y \in Entries, i \in Nat : <<y, i>> \in iova' <=> <<y, i>> \in iova /\ y # x
  BY DEF Of
<1>6. Cardinality(iova) + other <= WINDOW
  BY DEF StreamInv, WindowHolds
<1>7. Cardinality(iova') + other' <= WINDOW
  BY <1>1, <1>3, <1>4, <1>6, PoolAssumption
<1> QED BY <1>1, <1>2, <1>3, <1>5, <1>7 DEF StreamInv, WindowHolds

(* The window is full: nothing of the entry stays.                         *)
LEMMA StreamMapFails ==
    ASSUME StreamInv, MapFails
    PROVE  StreamInv'
<1> USE DEF MapFails, Returns, RolledBack, poolState
<1>0. /\ ~Idle /\ entry \in Entries /\ entry \in Pooled /\ ~mapped[entry] /\ ix' = 0
      /\ doing' \in {"run", "full"} /\ (doing' = "full" <=> Idle') /\ size[entry] \in Nat
  BY PooledEntries DEF StreamInv, Position, Shapes, Idle
<1>1. /\ iova' \subseteq Entries \X Nat /\ IsFiniteSet(iova')
      /\ Cardinality(iova') + other' <= WINDOW
      /\ \A y \in Entries, i \in Nat :
           <<y, i>> \in iova' <=> y # entry /\ 1 <= i /\ i <= Room(y)
  BY <1>0, TakeOut
<1>2. Shapes'
  BY <1>0, <1>1 DEF StreamInv, Shapes
<1>3. Listed' /\ Position' /\ Outcome'
  BY <1>0 DEF StreamInv, Listed, Position, Outcome, Pooled
<1>4. WindowHolds'
  <2>1. \A y \in Entries : Room(y)' = IF y # entry THEN Room(y) ELSE IF Idle' THEN 0 ELSE -1
    BY <1>0 DEF Room
  <2> QED BY <1>1, <2>1 DEF WindowHolds
<1> QED BY <1>2, <1>3, <1>4 DEF StreamInv

(* An entry other than the one a call is at work on is unmapped.           *)
LEMMA StreamUnmaps ==
    ASSUME StreamInv, NEW x \in Entries, mapped[x], ork_stage_unmap(x),
           UNCHANGED <<e, size, last_use, clock, other>>,
           doing' \in {"none", "run"}, ix' \in Nat,
           IF Idle THEN doing' = "none" /\ ix' = 0 /\ entry' = NoEntry
           ELSE doing' = "run" /\ doing = "run" /\ entry' = entry /\ ix = 0 /\ ix' = 1
    PROVE  StreamInv'
<1> USE DEF ork_stage_unmap
<1>0. /\ (Idle' <=> Idle) /\ (~Idle => x # entry)
      /\ \A y \in Entries : mapped'[y] <=> (mapped[y] /\ y # x)
      /\ ~Idle => entry \in Entries /\ ~mapped[entry] /\ size[entry] \in Nat
  BY PooledEntries DEF StreamInv, Shapes, Position, Idle
<1>1. /\ iova' \subseteq Entries \X Nat /\ IsFiniteSet(iova')
      /\ Cardinality(iova') + other' <= WINDOW
      /\ \A y \in Entries, i \in Nat :
           <<y, i>> \in iova' <=> y # x /\ 1 <= i /\ i <= Room(y)
  BY TakeOut
<1>2. Shapes'
  BY <1>0, <1>1 DEF StreamInv, Shapes
<1>3. Listed' /\ Position'
  BY <1>0 DEF StreamInv, Listed, Position, Pooled
<1>4. Outcome'
  BY <1>0 DEF StreamInv, Outcome, Shapes
<1>5. WindowHolds'
  <2>1. \A y \in Entries :
          \/ y = x /\ Room(y)' = 0
          \/ y # x /\ Room(y)' = Room(y)
          \/ y # x /\ Room(y)' = 0 /\ Room(y) = -1
    BY <1>0 DEF Room
  <2> QED BY <1>1, <2>1 DEF WindowHolds
<1> QED BY <1>2, <1>3, <1>4, <1>5 DEF StreamInv

(* pool_unmap_lru finds a victim whenever another entry is mapped.         *)
LEMMA VictimExists ==
    ASSUME StreamInv
    PROVE  /\ Candidates # {} => Oldest # {}
           /\ Oldest # {} =>
                LET first == CHOOSE i \in DOMAIN e :
                               e[i] \in Oldest /\ \A j \in 1 .. (i - 1) : e[j] \notin Oldest
                IN  first \in DOMAIN e /\ e[first] \in Oldest
<1>1. e \in Seq(Entries) /\ last_use \in [Entries -> Nat] /\ Candidates \subseteq Entries
  BY PooledEntries DEF StreamInv, Shapes, Candidates
<1>2. ASSUME Candidates # {} PROVE Oldest # {}
  <2> DEFINE U == {last_use[x] : x \in Candidates}
  <2>0. U \subseteq Nat /\ U # {}
    BY <1>1, <1>2
  <2>1. PICK m \in U : \A y \in U : m <= y
    <3> HIDE DEF U
    <3>1. \E m \in U : \A y \in U : m <= y
      BY <2>0, Least
    <3> QED BY <3>1
  <2> QED BY <2>1 DEF Oldest
<1>3. ASSUME Oldest # {}
      PROVE  \E i \in DOMAIN e : e[i] \in Oldest /\ \A j \in 1 .. (i - 1) : e[j] \notin Oldest
  <2> DEFINE I == {i \in DOMAIN e : e[i] \in Oldest}
  <2>1. DOMAIN e = 1 .. Len(e) /\ Len(e) \in Nat
    BY <1>1
  <2>2. I # {}
    BY <1>3 DEF Oldest, Candidates, Pooled
  <2>3. PICK i \in I : \A j \in I : i <= j
    <3>1. I \subseteq Nat
      BY <2>1
    <3> HIDE DEF I
    <3>2. \E i \in I : \A j \in I : i <= j
      BY <2>2, <3>1, Least
    <3> QED BY <3>2
  <2>4. \A j \in 1 .. (i - 1) : j \notin I /\ j \in DOMAIN e
    BY <2>1, <2>3
  <2> QED BY <2>3, <2>4
<1> QED BY <1>2, <1>3

(* The eviction of the least recently used entry, or the genuine OOM.      *)
LEMMA StreamEvict ==
    ASSUME StreamInv, Evict
    PROVE  StreamInv'
<1> USE DEF Evict, Returns
<1>0. doing = "run" /\ ix = 0 /\ ~Idle /\ entry \in Entries /\ ~mapped[entry]
  BY PooledEntries DEF StreamInv, Position, Idle
<1>1. CASE Oldest = {}
  <2>1. \A x \in Entries \ {entry} : ~mapped[x]
    BY <1>1, VictimExists DEF Candidates, StreamInv, Listed
  <2>2. doing' = "oom" /\ ix' = 0 /\ UNCHANGED <<e, size, iova, mapped, stg_mapped, entry, other>>
    BY <1>1
  <2>3. Shapes'
    BY <2>2 DEF StreamInv, Shapes
  <2>4. Listed' /\ Position' /\ Outcome'
    BY <2>1, <2>2 DEF StreamInv, Listed, Position, Outcome, Idle, Pooled
  <2>5. WindowHolds'
    <3>1. \A y \in Entries : Room(y)' = IF y = entry THEN 0 ELSE Room(y)
      BY <1>0, <2>2 DEF Room, Idle
    <3>2. Room(entry) = -1
      BY <1>0 DEF Room
    <3> QED BY <1>0, <2>2, <3>1, <3>2 DEF StreamInv, WindowHolds
  <2> QED BY <2>3, <2>4, <2>5 DEF StreamInv
<1>2. CASE Oldest # {}
  <2> DEFINE first == CHOOSE i \in DOMAIN e :
                        e[i] \in Oldest /\ \A j \in 1 .. (i - 1) : e[j] \notin Oldest
  <2>1. e[first] \in Oldest
    BY <1>2, VictimExists
  <2>2. ork_stage_unmap(e[first]) /\ ix' = 1 /\ doing' = doing
    BY <1>2
  <2> HIDE DEF first
  <2>3. e[first] \in Entries /\ mapped[e[first]]
    BY <2>1, PooledEntries DEF Oldest, Candidates, StreamInv
  <2> QED BY <1>0, <2>2, <2>3, StreamUnmaps
<1> QED BY <1>1, <1>2

(* ork_stream_pool_remove: the entry goes, with all it had in the window.  *)
LEMMA StreamRemove ==
    ASSUME StreamInv, NEW i \in DOMAIN e, PoolRemove(i)
    PROVE  StreamInv'
<1> USE DEF PoolRemove, ork_stage_unmap
<1> DEFINE x == e[i]
<1>0. /\ Idle /\ Idle' /\ ix = 0 /\ x \in Entries /\ entry' = NoEntry /\ NoEntry \notin Entries
  BY PooledEntries, PoolAssumption DEF StreamInv, Position, Idle, Pooled
<1>1. /\ e' \in Seq(Entries)
      /\ \A j, k \in DOMAIN e' : j # k => e'[j] # e'[k]
      /\ Pooled' = Pooled \ {x}
  BY CompactEntries DEF StreamInv
<1>2. /\ iova' \subseteq Entries \X Nat /\ IsFiniteSet(iova')
      /\ Cardinality(iova') + other' <= WINDOW
      /\ \A y \in Entries, j \in Nat :
           <<y, j>> \in iova' <=> y # x /\ 1 <= j /\ j <= Room(y)
  BY <1>0, TakeOut
<1>3. \A y \in Entries : /\ mapped'[y] <=> (mapped[y] /\ y # x)
                         /\ size'[y] = IF y = x THEN 0 ELSE size[y]
  BY <1>0 DEF StreamInv, Shapes
<1> HIDE DEF x
<1>4. Shapes'
  BY <1>0, <1>1, <1>2 DEF StreamInv, Shapes, x
<1>5. Listed' /\ Position'
  BY <1>0, <1>1, <1>3 DEF StreamInv, Listed, Position
<1>6. Outcome'
  BY <1>0, <1>3 DEF StreamInv, Outcome, Shapes, x
<1>7. WindowHolds'
  <2>1. \A y \in Entries : Room(y)' = IF y = x THEN 0 ELSE Room(y)
    BY <1>0, <1>3 DEF Room
  <2> QED BY <1>2, <2>1 DEF WindowHolds
<1> QED BY <1>4, <1>5, <1>6, <1>7 DEF StreamInv

LEMMA StreamNext == StreamInv /\ [StrNext]_strVars => StreamInv'
<1> SUFFICES ASSUME StreamInv, [StrNext]_strVars PROVE StreamInv'
  OBVIOUS
<1>1. CASE UNCHANGED strVars
  BY <1>1 DEF strVars, StreamInv, Shapes, Listed, Position, WindowHolds, Outcome, Room, Idle, Pooled
<1>2. ASSUME NEW x \in Entries, PoolUnmap(x) PROVE StreamInv'
  BY <1>2, StreamUnmaps DEF PoolUnmap, StreamInv, Position
<1>3. CASE Others \/ MapBuf \/ MapDone \/ MapFails \/ Evict
  BY <1>3, StreamOthers, StreamMapBuf, StreamMapDone, StreamMapFails, StreamEvict
<1>4. ASSUME NEW x \in Entries, PoolMap(x) \/ PoolRun(x) \/ \E n \in Bufs : Add(x, n)
      PROVE  StreamInv'
  BY <1>4, StreamCall, StreamAdd
<1>5. ASSUME NEW i \in DOMAIN e, PoolRemove(i) PROVE StreamInv'
  BY <1>5, StreamRemove
<1> QED BY <1>1, <1>2, <1>3, <1>4, <1>5 DEF StrNext

LEMMA StreamInvariant == StrSpec => []StreamInv
<1> QED BY StreamInit, StreamNext, PTL DEF StrSpec

-----------------------------------------------------------------------------
(* ork_stream_pool: for any entries, any window and whatever room others   *)
(* take and give back, a weight is in the window as a whole or not at all  *)
(* but for the one being mapped, the three records of it agree, the window *)
(* is never overdrawn, and a run fails only when there was nothing left to *)
(* evict.                                                                  *)
THEOREM PoolIsExact == StrSpec => []PoolExact
<1>1. StreamInv => PoolExact
  <2> SUFFICES ASSUME StreamInv PROVE PoolExact
    OBVIOUS
  <2>1. ASSUME NEW x \in Entries
        PROVE  /\ mapped[x] => Of(x) = {x} \X (1 .. size[x])
               /\ ~mapped[x] => Of(x) = (IF x = entry /\ ~Idle THEN {x} \X (1 .. (ix - 1)) ELSE {})
    <3>1. Room(x) \in Int
      BY DEF Room, StreamInv, Shapes
    <3>2. Of(x) = {x} \X (1 .. Room(x))
      <4>1. iova \subseteq Entries \X Nat
        BY DEF StreamInv, Shapes
      <4>2. \A i \in Nat : <<x, i>> \in iova <=> i \in 1 .. Room(x)
        BY <3>1 DEF StreamInv, WindowHolds
      <4>3. ASSUME NEW b \in Of(x) PROVE b \in {x} \X (1 .. Room(x))
        <5>1. b \in Entries \X Nat /\ b[1] = x /\ b \in iova
          BY <4>1 DEF Of
        <5>2. b = <<x, b[2]>> /\ b[2] \in Nat
          BY <5>1
        <5> QED BY <4>2, <5>1, <5>2
      <4>4. ASSUME NEW i \in 1 .. Room(x) PROVE <<x, i>> \in Of(x)
        BY <3>1, <4>2 DEF Of
      <4> QED BY <4>3, <4>4
    <3>3. {x} \X (1 .. 0) = {}
      OBVIOUS
    <3> QED BY <3>2, <3>3 DEF Room
  <2>2. StrTypeOK
    <3>1. iova \subseteq {b \in Entries \X Nat : b[2] \in 1 .. size[b[1]]}
      <4> SUFFICES ASSUME NEW x \in Entries, NEW i \in Nat, <<x, i>> \in iova
                   PROVE  i \in 1 .. size[x]
        BY DEF StreamInv, Shapes
      <4>1. 1 <= i /\ i <= Room(x)
        BY DEF StreamInv, WindowHolds
      <4>2. size[x] \in Nat /\ ix \in Nat
        BY DEF StreamInv, Shapes
      <4> QED BY <4>1, <4>2 DEF Room, StreamInv, Position
    <3>2. IF Idle THEN ix = 0 ELSE ix \in 0 .. (size[entry] + 1)
      BY PooledEntries DEF StreamInv, Position, Shapes
    <3> QED BY <3>1, <3>2 DEF StrTypeOK, StreamInv, Listed, Shapes
  <2> QED BY <2>1, <2>2 DEF PoolExact, StreamInv, WindowHolds, Outcome
<1> QED BY <1>1, StreamInvariant, PTL

-----------------------------------------------------------------------------
(***************************************************************************)
(* NpuContext: for any number of domains, cores and size classes.          *)
(***************************************************************************)

(* The inductive invariant.                                                *)

Buffers == [slot : Scratch, dom : Dom, size : Sizes \cup {1}]
SlotSizes == [Sized -> Sizes \cup {0, 1}]
Contexts == [dom_active : Dom, dom_save : BOOLEAN, dom_dirty : BOOLEAN,
             dom_dirty_ms : {0, I4_TMO, MM_TMO}, buf : SUBSET Buffers, sz : SlotSizes,
             save : [Dom -> [used : BOOLEAN, buf : SUBSET Buffers, sz : SlotSizes]],
             live : SUBSET (Scratch \X Dom), lost : Nat]

(* A set of buffers of domain d, at most one in a slot; a buffer of size m *)
(* at least in slot s.                                                     *)
SetOf(B, d) == /\ B \subseteq Buffers /\ \A b \in B : b.dom = d
               /\ \A a, b \in B : a.slot = b.slot => a = b
HasRoom(B, s, m) == \E b \in B : b.slot = s /\ b.size >= m

(* The mappings the context will still use or undo.                        *)
Names(c) == Mappings(c.buf) \cup UNION {Mappings(c.save[d].buf) : d \in ParkedDoms(c)}

(* A context nothing of which dangles, whatever has failed.                *)
Good(c) ==
    /\ c \in Contexts
    /\ c.dom_dirty_ms \in (IF c.dom_dirty THEN {I4_TMO, MM_TMO} ELSE {0})
    /\ SetOf(c.buf, c.dom_active)
    /\ \A d \in Dom \ {c.dom_active} : /\ SetOf(c.save[d].buf, d)
                                       /\ ~c.save[d].used => c.save[d] = Unused
    /\ Names(c) \subseteq c.live

(* As long as no allocation has failed: nothing is leaked, and a set of    *)
(* scratch has what its records say and what every run expects of it.      *)
Exact(c) == c.lost = 0 /\ c.live \subseteq Names(c)
Three(i) == {"mrc", "mtk", "maf"} \X {i}
Equipped(B, z) ==
    /\ \A s \in Furniture : HasRoom(B, s, 0)
    /\ \A s \in Sized : z[s] > 0 => HasRoom(B, s, z[s])
    /\ \A i \in CoreNo : \A s \in Three(i) : HasRoom(B, s, 0) <=> HasRoom(B, <<"mrc", i>>, 0)
Furnished(c) == /\ Equipped(c.buf, c.sz)
                /\ \A d \in ParkedDoms(c) : Equipped(c.save[d].buf, c.save[d].sz)

(* The jobs that may still be on a core are of the active domain, and the  *)
(* mark it bears makes the flush wait long enough for each of them.        *)
StuckJobs == [dom : Dom, tmo : {I4_TMO, MM_TMO}]
Waited(c, K) ==
    \A j \in K : j.dom = c.dom_active /\ c.dom_dirty /\ j.tmo <= c.dom_dirty_ms

CtxInv ==
    /\ Good(ctx) /\ stuck \subseteq StuckJobs
    /\ phase \in {"up", "run", "freed", "closed"}
    /\ drops \in Nat /\ ooms \in Nat /\ drops + 2 * ooms <= MaxTrouble
    /\ phase \in {"freed", "closed"} => ctx.buf = {} /\ \A d \in Dom : ctx.save[d] = Unused
    /\ ooms = 0 =>
         /\ Exact(ctx) /\ Waited(ctx, stuck) /\ SubmitsComplete
         /\ phase \in {"up", "run"} => Furnished(ctx)

-----------------------------------------------------------------------------
(* Slots.                                                                  *)
LEMMA Slots ==
    /\ Furniture \subseteq Scratch /\ Sized \subseteq Scratch /\ Shared("mtk_all") \in Scratch
    /\ Shared("Cc") \in Sized /\ Shared("Af") \in Furniture
    /\ Furniture \cap Sized = {} /\ Shared("mtk_all") \notin Furniture \cup Sized
    /\ \A i \in CoreNo : /\ PerCoreOf(i) = Three(i) \cup {<<"mcc", i>>}
                         /\ Three(i) \subseteq Scratch /\ <<"mcc", i>> \in Sized
                         /\ Three(i) \cap (Sized \cup Furniture \cup {Shared("mtk_all")}) = {}
                         /\ <<"mrc", i>> \in Three(i) /\ <<"maf", i>> \in Three(i)
    /\ \A i, j \in CoreNo : i # j => Three(i) \cap Three(j) = {}
    /\ PerCore \subseteq Scratch
    /\ \A s \in PerCore : \E i \in CoreNo : s \in PerCoreOf(i)
<1> USE DEF Scratch, PerCore, PerCoreOf, Furniture, Sized, Shared, Three
<1>1. /\ Furniture \subseteq Scratch /\ Sized \subseteq Scratch /\ Shared("mtk_all") \in Scratch
      /\ Shared("Cc") \in Sized /\ Shared("Af") \in Furniture
  OBVIOUS
<1>2. Furniture \cap Sized = {} /\ Shared("mtk_all") \notin Furniture \cup Sized
  OBVIOUS
<1>3. ASSUME NEW i \in CoreNo
      PROVE  /\ PerCoreOf(i) = Three(i) \cup {<<"mcc", i>>}
             /\ Three(i) \subseteq Scratch /\ <<"mcc", i>> \in Sized
             /\ Three(i) \cap (Sized \cup Furniture \cup {Shared("mtk_all")}) = {}
             /\ <<"mrc", i>> \in Three(i) /\ <<"maf", i>> \in Three(i)
  OBVIOUS
<1>4. \A i, j \in CoreNo : i # j => Three(i) \cap Three(j) = {}
  OBVIOUS
<1>5. PerCore \subseteq Scratch /\ \A s \in PerCore : \E i \in CoreNo : s \in PerCoreOf(i)
  OBVIOUS
<1> QED BY <1>1, <1>2, <1>3, <1>4, <1>5

LEMMA ScratchFinite ==
    ASSUME CtxAssumption
    PROVE  IsFiniteSet(Scratch) /\ IsFiniteSet(Scratch \X Dom)
<1>1. IsFiniteSet(CoreNo) /\ IsFiniteSet(Dom)
  BY FS_Interval DEF CtxAssumption, CoreNo, Dom
<1>2. PICK A : A = {"regcmd", "task", "Af", "Cc", "mtk_all"}
  OBVIOUS
<1>3. PICK B : B = {"mrc", "mtk", "maf", "mcc"}
  OBVIOUS
<1>4. IsFiniteSet(A) /\ IsFiniteSet(B)
  <2>1. /\ A = (((({} \cup {"regcmd"}) \cup {"task"}) \cup {"Af"}) \cup {"Cc"}) \cup {"mtk_all"}
        /\ B = ((({} \cup {"mrc"}) \cup {"mtk"}) \cup {"maf"}) \cup {"mcc"}
    BY <1>2, <1>3
  <2> QED BY <2>1, FS_EmptySet, FS_AddElement
<1>5. Scratch = (A \X {0}) \cup (B \X CoreNo)
  BY <1>2, <1>3 DEF Scratch, PerCore, PerCoreOf
<1>6. IsFiniteSet({0})
  BY FS_Singleton
<1>7. IsFiniteSet(A \X {0}) /\ IsFiniteSet(B \X CoreNo)
  BY <1>1, <1>4, <1>6, FS_Product
<1>8. IsFiniteSet(Scratch)
  BY <1>5, <1>7, FS_Union
<1> QED BY <1>1, <1>8, FS_Product

-----------------------------------------------------------------------------
(* The operations on a context.                                            *)

(* What no operation but the switch of domains changes.                    *)
SameDomain(c, r) ==
    /\ r.dom_active = c.dom_active /\ r.dom_save = c.dom_save /\ r.save = c.save
    /\ r.dom_dirty = c.dom_dirty /\ r.dom_dirty_ms = c.dom_dirty_ms
SameRecords(c, r) == SameDomain(c, r) /\ r.sz = c.sz

(* Which slots have room now: those of T that did not fail, and no other   *)
(* slot has more or less than it had.                                      *)
OtherRoom(c, r, T) == \A s, k : s \notin T => (HasRoom(r.buf, s, k) <=> HasRoom(c.buf, s, k))
Refilled(c, r, T, m, F) ==
    OtherRoom(c, r, T) /\ \A s : s \in T /\ s \notin F => HasRoom(r.buf, s, m)

LEMMA SameNames ==
    ASSUME NEW c, NEW r, SameDomain(c, r)
    PROVE  /\ ParkedDoms(r) = ParkedDoms(c)
           /\ \A x : x \in Names(c) <=> \/ x \in Mappings(c.buf)
                                        \/ \E d \in ParkedDoms(c) : x \in Mappings(c.save[d].buf)
           /\ \A x : x \in Names(r) <=> \/ x \in Mappings(r.buf)
                                        \/ \E d \in ParkedDoms(c) : x \in Mappings(c.save[d].buf)
BY DEF SameDomain, ParkedDoms, Names

(* The active buffers change: what is mapped in the other domains stays.   *)
LEMMA BuffersChange ==
    ASSUME NEW c, Good(c), NEW r, r \in Contexts, SameDomain(c, r), SetOf(r.buf, c.dom_active),
           Mappings(r.buf) \subseteq r.live,
           \A x \in c.live : x[2] # c.dom_active => x \in r.live
    PROVE  Good(r)
<1>1. ParkedDoms(r) = ParkedDoms(c) /\ r.save = c.save /\ r.dom_active = c.dom_active
  BY SameNames DEF SameDomain
<1>2. ASSUME NEW x \in Names(r) PROVE x \in r.live
  <2>1. CASE x \in Mappings(r.buf)
    BY <2>1
  <2>2. CASE \E d \in ParkedDoms(c) : x \in Mappings(c.save[d].buf)
    <3>1. PICK d \in ParkedDoms(c) : x \in Mappings(c.save[d].buf)
      BY <2>2
    <3>2. d \in Dom /\ d # c.dom_active /\ SetOf(c.save[d].buf, d)
      BY <3>1 DEF ParkedDoms, Good
    <3>3. x[2] = d
      BY <3>1, <3>2 DEF Mappings, SetOf
    <3>4. x \in c.live
      BY <3>1 DEF Good, Names
    <3> QED BY <3>2, <3>3, <3>4
  <2> QED BY <1>2, <2>1, <2>2, SameNames
<1> QED BY <1>1, <1>2 DEF Good, SameDomain

(* A context's mappings in the active domain are those of its buffers.     *)
LEMMA ExactHere ==
    ASSUME NEW c, Good(c), Exact(c), NEW x \in c.live
    PROVE  \/ x[2] = c.dom_active /\ \E b \in c.buf : x = <<b.slot, b.dom>>
           \/ x[2] # c.dom_active /\ \E d \in ParkedDoms(c) : x \in Mappings(c.save[d].buf)
<1>1. CASE x \in Mappings(c.buf)
  BY <1>1 DEF Mappings, Good, SetOf
<1>2. CASE \E d \in ParkedDoms(c) : x \in Mappings(c.save[d].buf)
  <2>1. PICK d \in ParkedDoms(c) : x \in Mappings(c.save[d].buf)
    BY <1>2
  <2>2. d # c.dom_active /\ SetOf(c.save[d].buf, d)
    BY <2>1 DEF ParkedDoms, Good
  <2> QED BY <2>1, <2>2 DEF Mappings, SetOf
<1> QED BY <1>1, <1>2 DEF Exact, Names

(* orki_bcreate: the slots whose creation fails are left empty, and what   *)
(* was in the others before is forgotten; nothing is if they were empty.   *)
LEMMA CreateKeeps ==
    ASSUME CtxAssumption, NEW c, Good(c), NEW T, T \subseteq Scratch, NEW a, a = c.dom_active,
           NEW m \in Sizes \cup {1}, NEW F, NEW r, r = Create(c, T, a, m, F)
    PROVE  /\ Good(r) /\ SameRecords(c, r) /\ Refilled(c, r, T, m, F)
           /\ Exact(c) /\ In(c, T) = {} => Exact(r)
<1>1. a = c.dom_active
  OBVIOUS
<1>2. PICK made : made = {[slot |-> s, dom |-> a, size |-> m] : s \in T \ F}
  OBVIOUS
<1>3. c \in Contexts /\ a \in Dom
  BY <1>1 DEF Good, Contexts
<1>4. /\ \A b \in made : b \in Buffers /\ b.slot \in T /\ b.dom = a /\ b.size = m
      /\ \A b1, b2 \in made : b1.slot = b2.slot => b1 = b2
      /\ \A s \in T \ F : \E b \in made : b.slot = s /\ b.size = m
  <2>1. ASSUME NEW b \in made PROVE b \in Buffers /\ b.slot \in T /\ b.dom = a /\ b.size = m
    <3>1. PICK s \in T \ F : b = [slot |-> s, dom |-> a, size |-> m]
      BY <1>2
    <3>2. s \in Scratch
      OBVIOUS
    <3> QED BY <1>3, <3>1, <3>2 DEF Buffers
  <2>2. \A b1, b2 \in made : b1.slot = b2.slot => b1 = b2
    BY <1>2
  <2>3. ASSUME NEW s \in T \ F PROVE \E b \in made : b.slot = s /\ b.size = m
    <3>1. [slot |-> s, dom |-> a, size |-> m] \in made
      BY <1>2
    <3> QED BY <3>1
  <2> QED BY <2>1, <2>2, <2>3
<1>5. r = [c EXCEPT !.buf = (c.buf \ In(c, T)) \cup made,
                    !.lost = c.lost + Cardinality(c.live \cap Mappings(made)),
                    !.live = c.live \cup Mappings(made)]
  BY <1>1, <1>2 DEF Create
<1>6. Mappings(made) \subseteq Scratch \X Dom
  BY <1>4 DEF Mappings, Buffers
<1>7. Cardinality(c.live \cap Mappings(made)) \in Nat
  <2>1. c.live \cap Mappings(made) \in SUBSET (Scratch \X Dom)
    BY <1>6
  <2>2. IsFiniteSet(c.live \cap Mappings(made))
    BY <2>1, ScratchFinite, FS_Subset
  <2> QED BY <2>2, FS_CardinalityType
<1>8. PICK gone : gone = Cardinality(c.live \cap Mappings(made))
  OBVIOUS
<1>9. /\ r.buf = (c.buf \ In(c, T)) \cup made /\ r.lost = c.lost + gone
      /\ r.live = c.live \cup Mappings(made) /\ r.sz = c.sz /\ SameDomain(c, r)
  BY <1>3, <1>5, <1>8 DEF Contexts, SameDomain
<1>10. r \in Contexts
  <2>1. /\ (c.buf \ In(c, T)) \cup made \in SUBSET Buffers /\ c.lost + gone \in Nat
        /\ c.live \cup Mappings(made) \in SUBSET (Scratch \X Dom)
    BY <1>3, <1>4, <1>6, <1>7, <1>8 DEF Contexts
  <2> QED BY <1>3, <1>5, <1>8, <2>1 DEF Contexts
<1>11. SetOf(r.buf, c.dom_active)
  <2>1. /\ \A b \in c.buf : b \in Buffers /\ b.dom = a
        /\ \A b1, b2 \in c.buf : b1.slot = b2.slot => b1 = b2
        /\ \A b \in c.buf \ In(c, T) : b.slot \notin T
    BY <1>1 DEF Good, In, SetOf
  <2>2. \A b \in r.buf : (b \in c.buf /\ b \in c.buf \ In(c, T)) \/ b \in made
    BY <1>9
  <2>3. \A b \in r.buf : b \in Buffers /\ b.dom = a
    BY <1>4, <2>1, <2>2
  <2>4. \A b1, b2 \in r.buf : b1.slot = b2.slot => b1 = b2
    BY <1>4, <2>1, <2>2
  <2> QED BY <1>1, <2>3, <2>4 DEF SetOf
<1>12. Mappings(r.buf) \subseteq r.live
  <2>1. Mappings(c.buf) \subseteq c.live
    BY DEF Good, Names
  <2> QED BY <1>9, <2>1 DEF Mappings
<1>13. Good(r)
  BY <1>9, <1>10, <1>11, <1>12, BuffersChange
<1>14. \A s : s \in T /\ s \notin F => HasRoom(r.buf, s, m)
  <2>1. m \in Int
    BY DEF CtxAssumption
  <2> QED BY <1>4, <1>9, <2>1 DEF HasRoom
<1>15. ASSUME NEW s, s \notin T, NEW k PROVE HasRoom(r.buf, s, k) <=> HasRoom(c.buf, s, k)
  <2>1. \A b : b.slot = s => (b \in r.buf <=> b \in c.buf)
    BY <1>4, <1>9, <1>15 DEF In
  <2> QED BY <2>1 DEF HasRoom
<1>16. ASSUME Exact(c), In(c, T) = {} PROVE Exact(r)
  <2>1. c.live \cap Mappings(made) = {}
    <3> SUFFICES ASSUME NEW x \in c.live, x \in Mappings(made) PROVE FALSE
      OBVIOUS
    <3>1. PICK b \in made : x = <<b.slot, b.dom>>
      BY DEF Mappings
    <3>2. b.dom = a /\ b.slot \in T
      BY <1>4
    <3>3. PICK d \in c.buf : x = <<d.slot, d.dom>>
      BY <1>1, <1>16, <3>1, <3>2, ExactHere
    <3>4. d \in In(c, T)
      BY <3>1, <3>2, <3>3 DEF In
    <3> QED BY <1>16, <3>4
  <2>2. gone = 0
    BY <1>8, <2>1, FS_EmptySet
  <2>3. r.lost = 0
    BY <1>9, <1>16, <2>2 DEF Exact
  <2>4. c.live \subseteq Names(r)
    <3> SUFFICES ASSUME NEW x \in c.live PROVE x \in Names(r)
      OBVIOUS
    <3>1. x \in Mappings(c.buf) => x \in Mappings(r.buf)
      BY <1>9, <1>16 DEF Mappings
    <3>2. x \in Names(c)
      BY <1>16 DEF Exact
    <3> QED BY <1>9, <3>1, <3>2, SameNames
  <2>5. Mappings(made) \subseteq Names(r)
    BY <1>9 DEF Names, Mappings
  <2> QED BY <1>9, <2>3, <2>4, <2>5 DEF Exact
<1> QED BY <1>9, <1>13, <1>14, <1>15, <1>16 DEF Refilled, OtherRoom, SameRecords

(* orki_destroy.                                                           *)
LEMMA DestroyKeeps ==
    ASSUME CtxAssumption, NEW c, Good(c), NEW T, NEW r, r = Destroy(c, T)
    PROVE  /\ Good(r) /\ SameRecords(c, r)
           /\ In(r, T) = {} /\ r.buf = c.buf \ In(c, T)
           /\ OtherRoom(c, r, T)
           /\ Exact(c) => Exact(r)
<1>1. c \in Contexts /\ SetOf(c.buf, c.dom_active)
  BY DEF Good
<1>2. r = [c EXCEPT !.live = c.live \ Mappings(In(c, T)), !.buf = c.buf \ In(c, T)]
  BY DEF Destroy
<1>3. /\ r.buf = c.buf \ In(c, T) /\ r.live = c.live \ Mappings(In(c, T))
      /\ r.sz = c.sz /\ SameDomain(c, r) /\ r.lost = c.lost
  BY <1>1, <1>2 DEF Contexts, SameDomain
<1>4. r \in Contexts
  BY <1>1, <1>2 DEF Contexts
<1>5. SetOf(r.buf, c.dom_active)
  BY <1>1, <1>3 DEF SetOf
<1>6. \A x \in Mappings(In(c, T)) : x[2] = c.dom_active /\ \E b \in c.buf : b.slot \in T /\ x = <<b.slot, b.dom>>
  BY <1>1 DEF Mappings, In, SetOf
<1>7. Mappings(r.buf) \subseteq r.live
  <2> SUFFICES ASSUME NEW b \in c.buf, b \notin In(c, T) PROVE <<b.slot, b.dom>> \in r.live
    BY <1>3 DEF Mappings
  <2>1. <<b.slot, b.dom>> \in c.live
    BY DEF Good, Names, Mappings
  <2>2. b.slot \notin T
    BY DEF In
  <2>3. <<b.slot, b.dom>> \notin Mappings(In(c, T))
    BY <1>6, <2>2
  <2> QED BY <1>3, <2>1, <2>3
<1>8. Good(r)
  BY <1>3, <1>4, <1>5, <1>6, <1>7, BuffersChange
<1>9. ASSUME Exact(c) PROVE Exact(r)
  <2> SUFFICES ASSUME NEW x \in r.live PROVE x \in Names(r)
    BY <1>3, <1>9 DEF Exact
  <2>1. x \in c.live /\ x \notin Mappings(In(c, T))
    BY <1>3
  <2>2. x \in Mappings(c.buf) => x \in Mappings(r.buf)
    BY <1>3, <2>1 DEF Mappings
  <2>3. x \in Names(c)
    BY <1>9, <2>1 DEF Exact
  <2> QED BY <1>3, <2>1, <2>2, <2>3, SameNames
<1>10. In(r, T) = {}
  BY <1>3 DEF In
<1>11. \A s, k : s \notin T => (HasRoom(r.buf, s, k) <=> HasRoom(c.buf, s, k))
  BY <1>3 DEF HasRoom, In
<1> QED BY <1>3, <1>8, <1>9, <1>10, <1>11 DEF OtherRoom, SameRecords

(* A buffer is replaced by another of its slot: nothing can be forgotten.  *)
LEMMA RecreateKeeps ==
    ASSUME CtxAssumption, NEW c, Good(c), NEW T, T \subseteq Scratch, NEW m \in Sizes \cup {1}, NEW F,
           NEW r, r = Recreate(c, T, m, F)
    PROVE  /\ Good(r) /\ SameRecords(c, r) /\ Refilled(c, r, T, m, F)
           /\ Exact(c) => Exact(r)
<1>1. PICK d : d = Destroy(c, T)
  OBVIOUS
<1>0. Good(d)
  BY <1>1, DestroyKeeps
<1>2. /\ SameRecords(c, d) /\ In(d, T) = {}
      /\ OtherRoom(c, d, T)
      /\ Exact(c) => Exact(d)
  BY <1>1, DestroyKeeps
<1>3. r = Create(d, T, c.dom_active, m, F) /\ c.dom_active = d.dom_active
  BY <1>1, <1>2 DEF Recreate, SameRecords, SameDomain
<1>4. /\ Good(r) /\ SameRecords(d, r) /\ Refilled(d, r, T, m, F)
      /\ Exact(d) /\ In(d, T) = {} => Exact(r)
  BY <1>0, <1>3, CreateKeeps
<1>5. Refilled(c, r, T, m, F)
  BY <1>2, <1>4 DEF Refilled, OtherRoom
<1>6. SameRecords(c, r)
  BY <1>2, <1>4 DEF SameRecords, SameDomain
<1> QED BY <1>2, <1>4, <1>5, <1>6

LEMMA SizesTyped ==
    ASSUME CtxAssumption, NEW c, Good(c)
    PROVE  (\A b \in c.buf : b.size \in Nat) /\ \A s \in Sized : c.sz[s] \in Nat
<1>1. Sizes \cup {1} \subseteq Nat /\ Sizes \cup {0, 1} \subseteq Nat
  BY DEF CtxAssumption
<1>2. c.buf \subseteq Buffers /\ c.sz \in SlotSizes
  BY DEF Good, SetOf, Contexts
<1>3. \A b \in Buffers : b.size \in Sizes \cup {1}
  BY DEF Buffers
<1>4. \A s \in Sized : c.sz[s] \in Sizes \cup {0, 1}
  BY <1>2 DEF SlotSizes
<1> QED BY <1>1, <1>2, <1>3, <1>4

(* A buffer of at least a size has at least any smaller one.               *)
LEMMA LessRoom ==
    ASSUME CtxAssumption, NEW c, Good(c), NEW s, NEW n \in Nat, NEW k \in Nat, k <= n,
           HasRoom(c.buf, s, n)
    PROVE  HasRoom(c.buf, s, k)
<1>1. PICK b \in c.buf : b.slot = s /\ b.size >= n
  BY DEF HasRoom
<1>2. b.size \in Nat
  BY <1>1, SizesTyped
<1> QED BY <1>1, <1>2 DEF HasRoom

(* There is a buffer in a slot.                                            *)
LEMMA HasIsRoom ==
    ASSUME CtxAssumption, NEW c, Good(c), NEW T
    PROVE  Has(c, T) <=> \A s \in T : HasRoom(c.buf, s, 0)
<1>1. \A b \in c.buf : b.size >= 0
  BY SizesTyped
<1> QED BY <1>1 DEF Has, HasRoom

(* No slot has less room than before.                                      *)
Grown(c, r) == \A s : \A k \in Nat : HasRoom(c.buf, s, k) => HasRoom(r.buf, s, k)
RoomIn(r, T, n) == \A s \in T : HasRoom(r.buf, s, n)

LEMMA GrownTwice == ASSUME NEW c, NEW d, NEW r, Grown(c, d), Grown(d, r) PROVE Grown(c, r)
BY DEF Grown

LEMMA FilledEmpty ==
    ASSUME NEW c, NEW r, NEW T, NEW m, NEW F, Refilled(c, r, T, m, F), In(c, T) = {}
    PROVE  Grown(c, r)
<1> SUFFICES ASSUME NEW s, NEW k \in Nat, HasRoom(c.buf, s, k) PROVE HasRoom(r.buf, s, k)
  BY DEF Grown
<1>1. s \notin T
  BY DEF HasRoom, In
<1> QED BY <1>1 DEF Refilled, OtherRoom

(* The slots whose buffers are too small are filled anew.                  *)
LEMMA GrowBufKeeps ==
    ASSUME CtxAssumption, NEW c, Good(c), NEW T, T \subseteq Scratch, NEW n \in Sizes, NEW F,
           NEW r, r = GrowBuf(c, T, n, F)
    PROVE  /\ Good(r) /\ SameRecords(c, r) /\ OtherRoom(c, r, T)
           /\ Exact(c) => Exact(r)
           /\ F = {} => Grown(c, r) /\ RoomIn(r, T, n)
<1>1. PICK S : S = Short(c, T, n)
  OBVIOUS
<1>2. S \subseteq T /\ r = Recreate(c, S, n, F) /\ n \in Nat
  BY <1>1 DEF GrowBuf, Short, CtxAssumption
<1>3. S \subseteq Scratch /\ n \in Sizes \cup {1}
  BY <1>2
<1>4. Good(r) /\ SameRecords(c, r) /\ Refilled(c, r, S, n, F) /\ (Exact(c) => Exact(r))
  BY <1>2, <1>3, RecreateKeeps
<1>5. OtherRoom(c, r, T)
  BY <1>2, <1>4 DEF Refilled, OtherRoom
<1>6. \A b \in c.buf : b.size \in Nat
  BY SizesTyped
<1>7. ASSUME F = {} PROVE Grown(c, r) /\ RoomIn(r, T, n)
  <2>1. \A s \in S : HasRoom(r.buf, s, n)
    BY <1>4, <1>7 DEF Refilled
  <2>2. ASSUME NEW s, NEW k \in Nat, HasRoom(c.buf, s, k) PROVE HasRoom(r.buf, s, k)
    <3>1. CASE s \in S
      <4>1. PICK b \in c.buf : b.slot = s /\ b.size >= k
        BY <2>2 DEF HasRoom
      <4>2. b.size < n
        BY <1>1, <3>1, <4>1 DEF Short
      <4>3. k <= n
        BY <1>2, <1>6, <4>1, <4>2
      <4> QED BY <1>2, <1>4, <2>1, <3>1, <4>3, LessRoom
    <3>2. CASE s \notin S
      BY <1>4, <2>2, <3>2 DEF Refilled, OtherRoom
    <3> QED BY <3>1, <3>2
  <2>3. ASSUME NEW s \in T PROVE HasRoom(r.buf, s, n)
    <3>1. CASE s \in S
      BY <2>1, <3>1
    <3>2. CASE s \notin S
      <4>1. HasRoom(c.buf, s, n)
        BY <1>1, <1>2, <1>6, <3>2 DEF Short, HasRoom
      <4> QED BY <1>2, <2>2, <4>1
    <3> QED BY <3>1, <3>2
  <2> QED BY <2>2, <2>3 DEF Grown, RoomIn
<1> QED BY <1>4, <1>5, <1>7

(* Whatever the three buffers of a core do, they do together.              *)
AllCores(B) == \A i \in CoreNo : \A s \in Three(i) : HasRoom(B, s, 0)

LEMMA StaysEquipped ==
    ASSUME NEW c, NEW r, SameRecords(c, r), Equipped(c.buf, c.sz), Good(c), CtxAssumption,
           Grown(c, r), AllCores(r.buf) \/ \A i \in CoreNo : OtherRoom(c, r, Scratch \ Three(i))
    PROVE  Equipped(r.buf, r.sz)
<1>1. \A s \in Furniture : HasRoom(r.buf, s, 0)
  BY DEF Equipped, Grown
<1>2. \A s \in Sized : c.sz[s] \in Nat
  BY SizesTyped
<1>3. \A s \in Sized : r.sz[s] > 0 => HasRoom(r.buf, s, r.sz[s])
  BY <1>2 DEF Equipped, Grown, SameRecords
<1>4. ASSUME NEW i \in CoreNo, NEW s \in Three(i)
      PROVE  HasRoom(r.buf, s, 0) <=> HasRoom(r.buf, <<"mrc", i>>, 0)
  <2>1. <<"mrc", i>> \in Three(i)
    BY Slots
  <2>2. CASE AllCores(r.buf)
    BY <1>4, <2>1, <2>2 DEF AllCores
  <2>3. CASE OtherRoom(c, r, Scratch \ Three(i))
    BY <1>4, <2>1, <2>3 DEF OtherRoom, Equipped
  <2> QED BY <2>2, <2>3
<1> QED BY <1>1, <1>3, <1>4 DEF Equipped

(* The slots whose recorded size is too small are filled anew.             *)
LEMMA GrowSizedKeeps ==
    ASSUME CtxAssumption, NEW c, Good(c), NEW T, T \subseteq Sized, NEW n \in Sizes \cup {1}, NEW F,
           NEW early \in BOOLEAN, NEW r, r = GrowSized(c, T, n, F, early)
    PROVE  /\ Good(r) /\ SameDomain(c, r) /\ OtherRoom(c, r, T)
           /\ Exact(c) => Exact(r)
           /\ F = {} /\ Equipped(c.buf, c.sz) =>
                Equipped(r.buf, r.sz) /\ RoomIn(r, T, n)
<1>1. PICK S : S = {s \in T : c.sz[s] < n}
  OBVIOUS
<1>2. PICK q : q = Recreate(c, S, n, F)
  OBVIOUS
<1>3. PICK z : z = [s \in Sized |-> IF s \in S /\ (early \/ s \notin F) THEN n ELSE c.sz[s]]
  OBVIOUS
<1>4. r = [q EXCEPT !.sz = z] /\ n \in Nat /\ n > 0
  BY <1>1, <1>2, <1>3 DEF GrowSized, CtxAssumption
<1>5. S \subseteq Scratch
  BY <1>1, Slots
<1>6. Good(q) /\ SameRecords(c, q) /\ Refilled(c, q, S, n, F) /\ (Exact(c) => Exact(q))
  BY <1>2, <1>5, RecreateKeeps
<1>7. c.sz \in SlotSizes /\ z \in SlotSizes
  BY <1>3 DEF Good, Contexts, SlotSizes
<1>8. /\ r \in Contexts /\ SameDomain(q, r) /\ r.sz = z
      /\ r.buf = q.buf /\ r.live = q.live /\ r.lost = q.lost
  BY <1>4, <1>6, <1>7 DEF Good, Contexts, SameDomain
<1>9. Good(r) /\ (Exact(q) => Exact(r)) /\ SameDomain(c, r)
  BY <1>6, <1>8 DEF Good, Exact, Names, SameDomain, SameRecords, ParkedDoms
<1>10. OtherRoom(c, r, S)
  BY <1>6, <1>8 DEF Refilled, OtherRoom
<1>11. OtherRoom(c, r, T)
  BY <1>1, <1>10 DEF OtherRoom
<1>12. ASSUME F = {}, Equipped(c.buf, c.sz) PROVE Equipped(r.buf, r.sz) /\ RoomIn(r, T, n)
  <2>1. \A s \in S : HasRoom(r.buf, s, n) /\ r.sz[s] = n
    BY <1>1, <1>3, <1>6, <1>8, <1>12 DEF Refilled
  <2>2. \A s \in Sized \ S : r.sz[s] = c.sz[s] /\ c.sz[s] \in Nat
    BY <1>3, <1>8, SizesTyped
  <2>3. ASSUME NEW s \in Sized, r.sz[s] > 0 PROVE HasRoom(r.buf, s, r.sz[s])
    <3>1. CASE s \in S
      BY <2>1, <3>1
    <3>2. CASE s \notin S
      <4>1. HasRoom(c.buf, s, c.sz[s])
        BY <1>12, <2>2, <2>3, <3>2 DEF Equipped
      <4> QED BY <1>10, <2>2, <3>2, <4>1 DEF OtherRoom
    <3> QED BY <3>1, <3>2
  <2>4. ASSUME NEW s \in T PROVE HasRoom(r.buf, s, n)
    <3>1. CASE s \in S
      BY <2>1, <3>1
    <3>2. CASE s \notin S
      <4>1. s \in Sized /\ r.sz[s] \in Nat /\ r.sz[s] >= n
        BY <1>1, <1>4, <2>2, <3>2
      <4>2. HasRoom(r.buf, s, r.sz[s])
        BY <1>4, <2>3, <4>1
      <4> QED BY <1>4, <1>9, <4>1, <4>2, LessRoom
    <3> QED BY <3>1, <3>2
  <2>5. \A s \in Furniture : HasRoom(r.buf, s, 0)
    BY <1>11, <1>12, Slots DEF OtherRoom, Equipped
  <2>6. ASSUME NEW i \in CoreNo, NEW s \in Three(i)
        PROVE  HasRoom(r.buf, s, 0) <=> HasRoom(r.buf, <<"mrc", i>>, 0)
    <3>1. s \notin T /\ <<"mrc", i>> \notin T /\ <<"mrc", i>> \in Three(i)
      BY Slots
    <3>2. HasRoom(c.buf, s, 0) <=> HasRoom(c.buf, <<"mrc", i>>, 0)
      BY <1>12 DEF Equipped
    <3> QED BY <1>11, <3>1, <3>2 DEF OtherRoom
  <2> QED BY <2>3, <2>4, <2>5, <2>6 DEF Equipped, RoomIn
<1> QED BY <1>9, <1>6, <1>11, <1>12

(* orki_mc_ensure: what is created was not there, as long as the three     *)
(* buffers of a core come together.                                        *)
LEMMA CoresEnsured ==
    ASSUME CtxAssumption, NEW c, Good(c), NEW F,
           NEW T, T \subseteq Scratch, NEW r, r = Create(c, T, c.dom_active, 1, F)
    PROVE  /\ Good(r) /\ SameRecords(c, r) /\ OtherRoom(c, r, T)
           /\ F = {} /\ In(c, T) = {} =>
                (Exact(c) => Exact(r)) /\ Grown(c, r) /\ RoomIn(r, T, 1)
<1>1. PICK a : a = c.dom_active
  OBVIOUS
<1>2. 1 \in Sizes \cup {1} /\ r = Create(c, T, a, 1, F)
  BY <1>1
<1>3. PICK m \in Sizes \cup {1} : m = 1
  BY <1>2
<1>4. r = Create(c, T, a, m, F)
  BY <1>2, <1>3
<1>5. Good(r) /\ SameRecords(c, r) /\ Refilled(c, r, T, m, F) /\ (Exact(c) /\ In(c, T) = {} => Exact(r))
  BY <1>1, <1>4, CreateKeeps
<1>6. OtherRoom(c, r, T) /\ (F = {} => RoomIn(r, T, 1))
  BY <1>3, <1>5 DEF Refilled, RoomIn
<1>7. In(c, T) = {} => Grown(c, r)
  BY <1>5, FilledEmpty
<1> QED BY <1>5, <1>6, <1>7

LEMMA McEnsureKeeps ==
    ASSUME CtxAssumption, NEW c, Good(c), NEW F, NEW r, r = McEnsure(c, F)
    PROVE  /\ Good(r) /\ SameRecords(c, r)
           /\ F = {} /\ Equipped(c.buf, c.sz) =>
                /\ Exact(c) => Exact(r)
                /\ Equipped(r.buf, r.sz) /\ AllCores(r.buf) /\ Grown(c, r)
<1>1. PICK all : all = {Shared("mtk_all")}
  OBVIOUS
<1>2. PICK c1 : c1 = IF Has(c, all) THEN c ELSE Create(c, all, c.dom_active, 1, F)
  OBVIOUS
<1>3. PICK bare : bare = {i \in CoreNo : ~Has(c, {<<"mrc", i>>})}
  OBVIOUS
<1>4. PICK fails : fails = {i \in bare : \E s \in {"mrc", "mtk", "maf"} \X {i} : s \in F}
  OBVIOUS
<1>5. PICK T : T = {"mrc", "mtk", "maf"} \X (bare \cap Served(fails))
  OBVIOUS
<1>6. r = IF ~Has(c1, all) THEN c1 ELSE Create(c1, T, c.dom_active, 1, F)
  BY <1>1, <1>2, <1>3, <1>4, <1>5 DEF McEnsure
<1>7. all \subseteq Scratch
  BY <1>1, Slots
<1>8. bare \subseteq CoreNo /\ \A s : s \in T <=> \E i \in bare \cap Served(fails) : s \in Three(i)
  BY <1>3, <1>5 DEF Three
<1>9. T \subseteq Scratch
  BY <1>8, Slots
<1>10. Good(c1) /\ SameRecords(c, c1) /\ OtherRoom(c, c1, all)
  <2>1. CASE Has(c, all)
    BY <1>2, <2>1 DEF SameRecords, SameDomain, OtherRoom
  <2>2. CASE ~Has(c, all)
    BY <1>2, <1>7, <2>2, CoresEnsured
  <2> QED BY <2>1, <2>2
<1>11. c1.dom_active = c.dom_active
  BY <1>10 DEF SameRecords, SameDomain
<1>12. Good(r) /\ SameRecords(c, r)
  <2>1. CASE ~Has(c1, all)
    BY <1>6, <1>10, <2>1
  <2>2. CASE Has(c1, all)
    <3>1. r = Create(c1, T, c1.dom_active, 1, F)
      BY <1>6, <1>11, <2>2
    <3>2. Good(r) /\ SameRecords(c1, r)
      BY <1>9, <1>10, <3>1, CoresEnsured
    <3> QED BY <1>10, <3>2 DEF SameRecords, SameDomain
  <2> QED BY <2>1, <2>2
<1>13. ASSUME F = {}, Equipped(c.buf, c.sz)
       PROVE  /\ Exact(c) => Exact(r)
              /\ Equipped(r.buf, r.sz) /\ AllCores(r.buf) /\ Grown(c, r)
  <2>1. /\ Exact(c) => Exact(c1)
        /\ Grown(c, c1) /\ RoomIn(c1, all, 0)
    <3>1. CASE Has(c, all)
      BY <1>2, <3>1, HasIsRoom DEF Grown, RoomIn
    <3>2. CASE ~Has(c, all)
      <4>1. In(c, all) = {}
        BY <1>1, <3>2 DEF In, Has
      <4>2. c1 = Create(c, all, c.dom_active, 1, F)
        BY <1>2, <3>2
      <4>3. (Exact(c) => Exact(c1)) /\ Grown(c, c1) /\ RoomIn(c1, all, 1)
        BY <1>7, <1>13, <4>1, <4>2, CoresEnsured
      <4>4. RoomIn(c1, all, 0)
        BY <1>10, <4>3, LessRoom DEF RoomIn
      <4> QED BY <4>3, <4>4
    <3> QED BY <3>1, <3>2
  <2>2. Has(c1, all)
    BY <1>10, <2>1, HasIsRoom DEF RoomIn
  <2>3. r = Create(c1, T, c1.dom_active, 1, F)
    BY <1>6, <1>11, <2>2
  <2>4. Served(fails) = CoreNo
    BY <1>4, <1>13 DEF Served
  <2>5. \A i \in bare : ~HasRoom(c.buf, <<"mrc", i>>, 0)
    BY <1>3, HasIsRoom
  <2>6. ASSUME NEW i \in CoreNo, NEW s \in Three(i), NEW k
        PROVE  HasRoom(c1.buf, s, k) <=> HasRoom(c.buf, s, k)
    <3>1. s \notin all
      BY <1>1, Slots
    <3> QED BY <1>10, <3>1 DEF OtherRoom
  <2>7. In(c1, T) = {}
    <3> SUFFICES ASSUME NEW b \in c1.buf, b.slot \in T PROVE FALSE
      BY DEF In
    <3>1. PICK i \in bare : b.slot \in Three(i)
      BY <1>8
    <3>2. HasRoom(c1.buf, b.slot, 0)
      BY <1>10, SizesTyped DEF HasRoom
    <3>3. HasRoom(c.buf, b.slot, 0)
      BY <1>8, <2>6, <3>1, <3>2
    <3>4. HasRoom(c.buf, <<"mrc", i>>, 0)
      BY <1>8, <1>13, <3>1, <3>3 DEF Equipped
    <3> QED BY <2>5, <3>4
  <2>8. (Exact(c1) => Exact(r)) /\ Grown(c1, r) /\ RoomIn(r, T, 1)
    BY <1>9, <1>10, <1>13, <2>3, <2>7, CoresEnsured
  <2>9. Grown(c, r)
    BY <2>1, <2>8, GrownTwice
  <2>10. AllCores(r.buf)
    <3> SUFFICES ASSUME NEW i \in CoreNo, NEW s \in Three(i) PROVE HasRoom(r.buf, s, 0)
      BY DEF AllCores
    <3>1. CASE i \in bare
      <4>1. HasRoom(r.buf, s, 1)
        BY <1>8, <2>4, <2>8, <3>1 DEF RoomIn
      <4> QED BY <1>12, <4>1, LessRoom
    <3>2. CASE i \notin bare
      <4>1. HasRoom(c.buf, <<"mrc", i>>, 0)
        BY <1>3, <3>2, HasIsRoom
      <4>2. HasRoom(c.buf, s, 0)
        BY <1>13, <4>1 DEF Equipped
      <4> QED BY <2>9, <4>2 DEF Grown
    <3> QED BY <3>1, <3>2
  <2>11. Equipped(r.buf, r.sz)
    BY <1>12, <1>13, <2>9, <2>10, StaysEquipped
  <2> QED BY <2>1, <2>8, <2>9, <2>10, <2>11
<1> QED BY <1>12, <1>13

(* Growth of any of the buffers of cores that have theirs.                 *)
LEMMA ThreeGrow ==
    ASSUME CtxAssumption, NEW c, Good(c), NEW T, T \subseteq Scratch, NEW n \in Sizes, NEW F,
           NEW r, r = GrowBuf(c, T, n, F), F = {}, Equipped(c.buf, c.sz), AllCores(c.buf)
    PROVE  Equipped(r.buf, r.sz) /\ AllCores(r.buf) /\ RoomIn(r, T, n)
<1>1. Good(r) /\ SameRecords(c, r) /\ Grown(c, r) /\ RoomIn(r, T, n)
  BY GrowBufKeeps
<1>2. AllCores(r.buf)
  BY <1>1 DEF AllCores, Grown
<1> QED BY <1>1, <1>2, StaysEquipped

LEMMA SizedKeepsCores ==
    ASSUME NEW c, NEW r, NEW T, T \subseteq Sized, OtherRoom(c, r, T), AllCores(c.buf)
    PROVE  AllCores(r.buf)
BY Slots DEF AllCores, OtherRoom

LEMMA ExpertsGrownKeeps ==
    ASSUME CtxAssumption, NEW c, Good(c), NEW T, T \subseteq PerCore, NEW n \in Sizes, NEW F,
           NEW r, r = ExpertsGrown(c, T, n, F)
    PROVE  /\ Good(r) /\ SameDomain(c, r)
           /\ Exact(c) => Exact(r)
           /\ F = {} /\ Equipped(c.buf, c.sz) /\ AllCores(c.buf) =>
                Equipped(r.buf, r.sz) /\ AllCores(r.buf) /\ RoomIn(r, T, n)
<1>1. PICK U : U = T \ Sized
  OBVIOUS
<1>2. PICK V : V = T \cap Sized
  OBVIOUS
<1>3. PICK q : q = GrowBuf(c, U, n, F)
  OBVIOUS
<1>4. r = GrowSized(q, V, n, F, TRUE)
  BY <1>1, <1>2, <1>3 DEF ExpertsGrown
<1>5. U \subseteq Scratch /\ V \subseteq Sized /\ n \in Sizes \cup {1} /\ TRUE \in BOOLEAN
  BY <1>1, <1>2, Slots
<1>6. Good(q) /\ SameRecords(c, q) /\ (Exact(c) => Exact(q))
  BY <1>3, <1>5, GrowBufKeeps
<1>7. Good(r) /\ SameDomain(q, r) /\ OtherRoom(q, r, V) /\ (Exact(q) => Exact(r))
  BY <1>4, <1>5, <1>6, GrowSizedKeeps
<1>8. SameDomain(c, r)
  BY <1>6, <1>7 DEF SameRecords, SameDomain
<1>9. ASSUME F = {}, Equipped(c.buf, c.sz), AllCores(c.buf)
      PROVE  Equipped(r.buf, r.sz) /\ AllCores(r.buf) /\ RoomIn(r, T, n)
  <2>1. Equipped(q.buf, q.sz) /\ AllCores(q.buf) /\ RoomIn(q, U, n)
    BY <1>3, <1>5, <1>9, ThreeGrow
  <2>2. Equipped(r.buf, r.sz) /\ RoomIn(r, V, n)
    BY <1>4, <1>5, <1>6, <1>9, <2>1, GrowSizedKeeps
  <2>3. AllCores(r.buf)
    BY <1>5, <1>7, <2>1, SizedKeepsCores
  <2>4. RoomIn(r, T, n)
    BY <1>1, <1>2, <1>7, <2>1, <2>2 DEF RoomIn, OtherRoom
  <2> QED BY <2>2, <2>3, <2>4
<1> QED BY <1>6, <1>7, <1>8, <1>9

LEMMA StreamGrownKeeps ==
    ASSUME CtxAssumption, NEW c, Good(c), NEW n \in Sizes, NEW F,
           NEW r, r = StreamGrown(c, n, F)
    PROVE  /\ Good(r) /\ SameDomain(c, r)
           /\ Exact(c) => Exact(r)
           /\ F = {} /\ Equipped(c.buf, c.sz) /\ AllCores(c.buf) =>
                Equipped(r.buf, r.sz) /\ AllCores(r.buf)
<1>1. PICK short : short = {i \in CoreNo : c.sz[<<"mcc", i>>] < n /\ <<"mcc", i>> \in F}
  OBVIOUS
<1>2. PICK lack : lack = {s[2] : s \in Short(c, {"maf"} \X CoreNo, n) \cap F}
  OBVIOUS
<1>3. PICK V : V = {"mcc"} \X Served(short)
  OBVIOUS
<1>4. PICK U : U = {"maf"} \X Served(lack)
  OBVIOUS
<1>5. PICK q : q = GrowSized(c, V, n, F, FALSE)
  OBVIOUS
<1>6. r = IF short # {} THEN q ELSE GrowBuf(q, U, n, F)
  BY <1>1, <1>2, <1>3, <1>4, <1>5 DEF StreamGrown
<1>7. V \subseteq Sized /\ U \subseteq Scratch /\ n \in Sizes \cup {1} /\ FALSE \in BOOLEAN
  BY <1>3, <1>4 DEF Sized, Served, Scratch, PerCore, PerCoreOf
<1>8. Good(q) /\ SameDomain(c, q) /\ OtherRoom(c, q, V) /\ (Exact(c) => Exact(q))
  BY <1>5, <1>7, GrowSizedKeeps
<1>9. Good(r) /\ SameDomain(c, r) /\ (Exact(c) => Exact(r))
  <2>1. CASE short # {}
    BY <1>6, <1>8, <2>1
  <2>2. CASE short = {}
    <3>1. r = GrowBuf(q, U, n, F)
      BY <1>6, <2>2
    <3>2. Good(r) /\ SameRecords(q, r) /\ (Exact(q) => Exact(r))
      BY <1>7, <1>8, <3>1, GrowBufKeeps
    <3> QED BY <1>8, <3>2 DEF SameRecords, SameDomain
  <2> QED BY <2>1, <2>2
<1>10. ASSUME F = {}, Equipped(c.buf, c.sz), AllCores(c.buf)
       PROVE  Equipped(r.buf, r.sz) /\ AllCores(r.buf)
  <2>1. Equipped(q.buf, q.sz) /\ AllCores(q.buf)
    BY <1>5, <1>7, <1>8, <1>10, GrowSizedKeeps, SizedKeepsCores
  <2>2. r = GrowBuf(q, U, n, F)
    BY <1>1, <1>6, <1>10
  <2> QED BY <1>7, <1>8, <1>10, <2>1, <2>2, ThreeGrow
<1> QED BY <1>9, <1>10

(* The output scratch of the cores is given back.                          *)
LEMMA GiveBackKeeps ==
    ASSUME CtxAssumption, NEW c, Good(c), NEW T, T \subseteq Sized, NEW r, r = GiveBack(c, T)
    PROVE  /\ Good(r) /\ SameDomain(c, r)
           /\ Exact(c) => Exact(r)
           /\ Equipped(c.buf, c.sz) => Equipped(r.buf, r.sz)
<1>1. PICK q : q = Destroy(c, T)
  OBVIOUS
<1>2. PICK z : z = [s \in Sized |-> IF s \in T THEN 0 ELSE c.sz[s]]
  OBVIOUS
<1>3. r = [q EXCEPT !.sz = z]
  BY <1>1, <1>2 DEF GiveBack
<1>4. Good(q) /\ SameRecords(c, q) /\ OtherRoom(c, q, T) /\ (Exact(c) => Exact(q))
  BY <1>1, DestroyKeeps
<1>5. z \in SlotSizes
  BY <1>2 DEF Good, Contexts, SlotSizes
<1>6. /\ r \in Contexts /\ SameDomain(q, r) /\ r.sz = z
      /\ r.buf = q.buf /\ r.live = q.live /\ r.lost = q.lost
  BY <1>3, <1>4, <1>5 DEF Good, Contexts, SameDomain
<1>7. Good(r) /\ (Exact(q) => Exact(r)) /\ SameDomain(c, r)
  BY <1>4, <1>6 DEF Good, Exact, Names, SameDomain, SameRecords, ParkedDoms
<1>8. OtherRoom(c, r, T)
  BY <1>4, <1>6 DEF OtherRoom
<1>9. ASSUME Equipped(c.buf, c.sz) PROVE Equipped(r.buf, r.sz)
  <2>1. \A s \in Furniture : HasRoom(r.buf, s, 0)
    BY <1>8, <1>9, Slots DEF OtherRoom, Equipped
  <2>2. \A s \in Sized : r.sz[s] > 0 => HasRoom(r.buf, s, r.sz[s])
    <3>1. \A s \in Sized : r.sz[s] > 0 => s \notin T /\ r.sz[s] = c.sz[s]
      BY <1>2, <1>6
    <3> QED BY <1>8, <1>9, <3>1 DEF OtherRoom, Equipped
  <2>3. ASSUME NEW i \in CoreNo, NEW s \in Three(i)
        PROVE  HasRoom(r.buf, s, 0) <=> HasRoom(r.buf, <<"mrc", i>>, 0)
    <3>1. s \notin T /\ <<"mrc", i>> \notin T
      BY Slots
    <3>2. HasRoom(c.buf, s, 0) <=> HasRoom(c.buf, <<"mrc", i>>, 0)
      BY <1>9 DEF Equipped
    <3> QED BY <1>8, <3>1, <3>2 DEF OtherRoom
  <2> QED BY <2>1, <2>2, <2>3 DEF Equipped
<1> QED BY <1>4, <1>7, <1>9

-----------------------------------------------------------------------------
(* Domains.                                                                *)

(* A context that lacks nothing.                                           *)
Whole(c) == Exact(c) /\ Furnished(c)

LEMMA WholeHere ==
    ASSUME NEW c, NEW r, Whole(c), SameDomain(c, r), Exact(r), Equipped(r.buf, r.sz)
    PROVE  Whole(r)
<1>1. ParkedDoms(r) = ParkedDoms(c) /\ r.save = c.save
  BY DEF SameDomain, ParkedDoms
<1> QED BY <1>1 DEF Whole, Furnished

(* The flags change alone.                                                 *)
SameMemory(c, r) ==
    /\ r.dom_active = c.dom_active /\ r.save = c.save /\ r.buf = c.buf /\ r.sz = c.sz
    /\ r.live = c.live /\ r.lost = c.lost

LEMMA FlagsChange ==
    ASSUME NEW c, Good(c), NEW r, r \in Contexts, SameMemory(c, r),
           r.dom_dirty_ms \in (IF r.dom_dirty THEN {I4_TMO, MM_TMO} ELSE {0})
    PROVE  /\ Good(r) /\ (Exact(c) => Exact(r)) /\ (Whole(c) => Whole(r))
<1>1. ParkedDoms(r) = ParkedDoms(c) /\ Names(r) = Names(c)
  BY DEF SameMemory, ParkedDoms, Names
<1> QED BY <1>1 DEF Good, Exact, Whole, Furnished, SameMemory

LEMMA CleanKeeps ==
    ASSUME NEW c, Good(c), NEW r, r = Clean(c)
    PROVE  /\ Good(r) /\ SameMemory(c, r) /\ (Whole(c) => Whole(r))
           /\ ~r.dom_dirty /\ r.dom_dirty_ms = 0
<1>1. r \in Contexts /\ SameMemory(c, r) /\ ~r.dom_dirty /\ r.dom_dirty_ms = 0
  BY DEF Good, Contexts, Clean, SameMemory
<1> QED BY <1>1, FlagsChange

(* The set of the domain the context leaves is parked, that of the domain  *)
(* it enters comes back.                                                   *)
Exchanged(c, d) ==
    [Park(c) EXCEPT !.buf = (@ \ In(c, Swapped)) \cup c.save[d].buf,
                    !.sz = c.save[d].sz, !.dom_active = d, !.dom_save = TRUE]

LEMMA Swap ==
    ASSUME CtxAssumption, NEW c, Good(c), NEW d \in Dom, d # c.dom_active,
           NEW q, q = Exchanged(c, d)
    PROVE  /\ Good(q) /\ q.dom_active = d /\ (Exact(c) => Exact(q))
           /\ q.buf = c.save[d].buf /\ q.sz = c.save[d].sz
           /\ q.dom_dirty = c.dom_dirty /\ q.dom_dirty_ms = c.dom_dirty_ms
           /\ Whole(c) => \A o \in ParkedDoms(q) : Equipped(q.save[o].buf, q.save[o].sz)
<1>1. PICK a : a = c.dom_active
  OBVIOUS
<1>2. a \in Dom /\ a # d /\ c \in Contexts
  BY <1>1 DEF Good, Contexts
<1>3. In(c, Swapped) = c.buf
  BY <1>2 DEF In, Swapped, Contexts, Buffers
<1>4. PICK old : old = [used |-> TRUE, buf |-> c.buf, sz |-> c.sz]
  OBVIOUS
<1>5. old \in [used : BOOLEAN, buf : SUBSET Buffers, sz : SlotSizes]
  BY <1>2, <1>4 DEF Contexts
<1>6. PICK saved : saved = [c.save EXCEPT ![a] = old]
  OBVIOUS
<1>7. /\ saved \in [Dom -> [used : BOOLEAN, buf : SUBSET Buffers, sz : SlotSizes]]
      /\ saved[a] = old /\ \A o \in Dom \ {a} : saved[o] = c.save[o]
  BY <1>2, <1>5, <1>6 DEF Contexts
<1>8. Park(c) = [c EXCEPT !.save = saved]
  <2>1. Park(c) = [c EXCEPT !.save[a] = old]
    BY <1>1, <1>3, <1>4 DEF Park
  <2> QED BY <1>2, <1>6, <2>1 DEF Contexts
<1>9. PICK p : p = [c EXCEPT !.save = saved]
  OBVIOUS
<1>10. p \in Contexts /\ p.save = saved /\ p.buf = c.buf /\ p.live = c.live /\ p.lost = c.lost
       /\ p.dom_dirty = c.dom_dirty /\ p.dom_dirty_ms = c.dom_dirty_ms
  BY <1>2, <1>7, <1>9 DEF Contexts
<1>11. q = [p EXCEPT !.buf = c.save[d].buf, !.sz = c.save[d].sz, !.dom_active = d, !.dom_save = TRUE]
  <2>1. (p.buf \ In(c, Swapped)) \cup c.save[d].buf = c.save[d].buf
    BY <1>3, <1>10
  <2>2. q = [p EXCEPT !.buf = (p.buf \ In(c, Swapped)) \cup c.save[d].buf,
                      !.sz = c.save[d].sz, !.dom_active = d, !.dom_save = TRUE]
    BY <1>8, <1>9 DEF Exchanged
  <2> QED BY <2>1, <2>2
<1>12. c.save[d].buf \in SUBSET Buffers /\ c.save[d].sz \in SlotSizes
  BY <1>2 DEF Contexts
<1>13. /\ q \in Contexts /\ q.dom_active = d /\ q.buf = c.save[d].buf /\ q.sz = c.save[d].sz
       /\ q.save = saved /\ q.live = c.live /\ q.lost = c.lost
       /\ q.dom_dirty = c.dom_dirty /\ q.dom_dirty_ms = c.dom_dirty_ms
  BY <1>10, <1>11, <1>12 DEF Contexts
<1>14. /\ SetOf(c.buf, a)
       /\ \A o \in Dom \ {a} : SetOf(c.save[o].buf, o) /\ (~c.save[o].used => c.save[o] = Unused)
  BY <1>1 DEF Good
<1>15. ASSUME NEW o \in Dom, o # d PROVE SetOf(q.save[o].buf, o) /\ (~q.save[o].used => q.save[o] = Unused)
  <2>1. CASE o = a
    BY <1>4, <1>7, <1>13, <1>14, <2>1
  <2>2. CASE o # a
    BY <1>7, <1>13, <1>14, <2>2
  <2> QED BY <2>1, <2>2
<1>16. \A o : o \in ParkedDoms(q) <=> o = a \/ (o # d /\ o \in ParkedDoms(c))
  BY <1>1, <1>2, <1>4, <1>7, <1>13 DEF ParkedDoms
<1>17. d \in ParkedDoms(c) \/ c.save[d].buf = {}
  BY <1>1, <1>2, <1>14 DEF ParkedDoms, Unused
<1>18. \A o \in ParkedDoms(c) : o \in Dom /\ o # a
  BY <1>1 DEF ParkedDoms
<1>19. \A x : x \in Names(q) <=> x \in Names(c)
  <2> SUFFICES ASSUME NEW x PROVE x \in Names(q) <=> x \in Names(c)
    OBVIOUS
  <2>1. x \in Names(q) <=> \/ x \in Mappings(c.save[d].buf)
                           \/ \E o \in ParkedDoms(q) : x \in Mappings(saved[o].buf)
    BY <1>13 DEF Names
  <2>2. x \in Names(c) <=> \/ x \in Mappings(c.buf)
                           \/ \E o \in ParkedDoms(c) : x \in Mappings(c.save[o].buf)
    BY DEF Names
  <2>3. saved[a].buf = c.buf
    BY <1>4, <1>7
  <2>4. x \in Mappings(c.save[d].buf) => d \in ParkedDoms(c)
    BY <1>17 DEF Mappings
  <2> QED BY <1>7, <1>16, <1>18, <2>1, <2>2, <2>3, <2>4
<1>20. Good(q)
  <2>1. SetOf(q.buf, d)
    BY <1>2, <1>13, <1>14
  <2>2. q.dom_dirty_ms \in (IF q.dom_dirty THEN {I4_TMO, MM_TMO} ELSE {0})
    BY <1>13 DEF Good
  <2>3. Names(q) \subseteq q.live
    BY <1>13, <1>19 DEF Good
  <2> QED BY <1>13, <1>15, <2>1, <2>2, <2>3 DEF Good
<1>21. Exact(c) => Exact(q)
  BY <1>13, <1>19 DEF Exact
<1>22. ASSUME Whole(c), NEW o \in ParkedDoms(q) PROVE Equipped(q.save[o].buf, q.save[o].sz)
  <2>1. CASE o = a
    BY <1>4, <1>7, <1>13, <1>22, <2>1 DEF Whole, Furnished
  <2>2. CASE o # a
    <3>1. o \in ParkedDoms(c) /\ saved[o] = c.save[o]
      BY <1>7, <1>16, <1>18, <1>22, <2>2
    <3> QED BY <1>13, <1>22, <3>1 DEF Whole, Furnished
  <2> QED BY <2>1, <2>2
<1> QED BY <1>13, <1>20, <1>21, <1>22

(* An empty set of scratch is furnished.                                   *)
LEMMA Furnish ==
    ASSUME CtxAssumption, NEW q, Good(q), q.buf = {}, q.sz = [s \in Sized |-> 0], NEW F,
           NEW r, r = Create(q, Furniture, q.dom_active, 1, F)
    PROVE  /\ Good(r) /\ SameRecords(q, r)
           /\ F = {} => (Exact(q) => Exact(r)) /\ Equipped(r.buf, r.sz)
<1>1. Furniture \subseteq Scratch
  BY Slots
<1>2. Good(r) /\ SameRecords(q, r) /\ OtherRoom(q, r, Furniture)
  BY <1>1, CoresEnsured
<1>3. ASSUME F = {} PROVE (Exact(q) => Exact(r)) /\ Equipped(r.buf, r.sz)
  <2>1. In(q, Furniture) = {}
    BY DEF In
  <2>2. (Exact(q) => Exact(r)) /\ RoomIn(r, Furniture, 1)
    BY <1>1, <1>3, <2>1, CoresEnsured
  <2>3. \A s \in Furniture : HasRoom(r.buf, s, 0)
    BY <1>2, <2>2, LessRoom DEF RoomIn
  <2>4. \A s \in Sized : r.sz[s] = 0
    BY <1>2 DEF SameRecords
  <2>5. \A i \in CoreNo : \A s \in Three(i) : ~HasRoom(r.buf, s, 0)
    BY <1>2, Slots DEF OtherRoom, HasRoom
  <2>6. \A i \in CoreNo : <<"mrc", i>> \in Three(i)
    BY Slots
  <2> QED BY <2>2, <2>3, <2>4, <2>5, <2>6 DEF Equipped
<1> QED BY <1>2, <1>3

LEMMA SwitchKeeps ==
    ASSUME CtxAssumption, NEW c, Good(c), NEW d \in Dom, d # c.dom_active, NEW F,
           NEW r, r = Switch(c, d, F)
    PROVE  /\ Good(r) /\ r.dom_active = d
           /\ r.dom_dirty = c.dom_dirty /\ r.dom_dirty_ms = c.dom_dirty_ms
           /\ F = {} /\ Whole(c) => Whole(r)
<1>1. PICK q : q = Exchanged(c, d)
  OBVIOUS
<1>2. r = IF First(c, c.save[d]) THEN Create(q, Furniture, d, 1, F) ELSE q
  BY <1>1 DEF Switch, Exchanged
<1>3. /\ Good(q) /\ q.dom_active = d /\ (Exact(c) => Exact(q))
      /\ q.buf = c.save[d].buf /\ q.sz = c.save[d].sz
      /\ q.dom_dirty = c.dom_dirty /\ q.dom_dirty_ms = c.dom_dirty_ms
      /\ Whole(c) => \A o \in ParkedDoms(q) : Equipped(q.save[o].buf, q.save[o].sz)
  BY <1>1, Swap
<1>4. CASE c.save[d].used
  <2>1. r = q
    BY <1>2, <1>4 DEF First
  <2>2. d \in ParkedDoms(c)
    BY <1>4 DEF ParkedDoms
  <2>3. Whole(c) => Equipped(q.buf, q.sz)
    BY <1>3, <2>2 DEF Whole, Furnished
  <2> QED BY <1>3, <2>1, <2>3 DEF Whole, Furnished
<1>5. CASE ~c.save[d].used
  <2>1. c.save[d] = Unused
    BY <1>5 DEF Good
  <2>2. q.buf = {} /\ q.sz = [s \in Sized |-> 0] /\ c.save[d].buf = {}
    BY <1>3, <2>1 DEF Unused
  <2>3. First(c, c.save[d])
    BY <1>5, <2>2 DEF First, Has
  <2>4. r = Create(q, Furniture, q.dom_active, 1, F)
    BY <1>2, <1>3, <2>3
  <2>5. Good(r) /\ SameRecords(q, r)
    BY <1>3, <2>2, <2>4, Furnish
  <2>6. ASSUME F = {}, Whole(c) PROVE Whole(r)
    <3>1. Exact(r) /\ Equipped(r.buf, r.sz)
      BY <1>3, <2>2, <2>4, <2>6, Furnish DEF Whole
    <3>2. ParkedDoms(r) = ParkedDoms(q) /\ r.save = q.save
      BY <2>5 DEF SameRecords, SameDomain, ParkedDoms
    <3> QED BY <1>3, <2>6, <3>1, <3>2 DEF Whole, Furnished
  <2> QED BY <1>3, <2>5, <2>6 DEF SameRecords, SameDomain
<1> QED BY <1>4, <1>5

(* orki_dom_activate.                                                      *)
LEMMA ActivateKeeps ==
    ASSUME CtxAssumption, NEW c, Good(c), NEW d \in Dom, NEW F, NEW r, r = Activate(c, d, F)
    PROVE  /\ Good(r)
           /\ d = c.dom_active => r = c
           /\ F = {} => r.dom_active = d
           /\ F = {} /\ Whole(c) => Whole(r)
<1>1. CASE d = c.dom_active
  BY <1>1 DEF Activate
<1>2. CASE d # c.dom_active
  <2>1. PICK q : q = Clean(c)
    OBVIOUS
  <2>2. Good(q) /\ q.dom_active = c.dom_active /\ (Whole(c) => Whole(q))
    BY <2>1, CleanKeeps DEF SameMemory
  <2>3. CASE Shared("dom_save") \in F
    BY <1>2, <2>1, <2>2, <2>3 DEF Activate
  <2>4. CASE Shared("dom_save") \notin F
    <3>1. r = Switch(q, d, F) /\ d # q.dom_active
      BY <1>2, <2>1, <2>2, <2>4 DEF Activate
    <3> QED BY <1>2, <2>2, <3>1, SwitchKeeps
  <2> QED BY <2>3, <2>4
<1> QED BY <1>1, <1>2

-----------------------------------------------------------------------------
(* Calls.                                                                  *)

(* As many allocations have failed as are counted, within the bound.       *)
LEMMA FailCount ==
    ASSUME CtxAssumption, CtxInv, NEW F \in FailSets, Fails(F)
    PROVE  /\ ooms' \in Nat /\ drops + 2 * ooms' <= MaxTrouble
           /\ ooms' = 0 => F = {} /\ ooms = 0
<1>1. drops \in Nat /\ ooms \in Nat /\ drops + 2 * ooms <= MaxTrouble /\ MaxTrouble \in Nat
  BY DEF CtxInv, CtxAssumption
<1>2. CASE F = {}
  <2>1. Cardinality(F) = 0
    BY <1>2, FS_EmptySet
  <2> QED BY <1>1, <1>2, <2>1 DEF Fails
<1>3. CASE F # {}
  <2>1. drops + 2 * ooms + 2 <= MaxTrouble /\ \E s : F = {s}
    BY <1>3 DEF FailSets
  <2>2. Cardinality(F) = 1
    BY <2>1, FS_Singleton
  <2> QED BY <1>1, <2>1, <2>2 DEF Fails
<1> QED BY <1>2, <1>3

(* What can be stuck when the host comes to a domain: only jobs of that    *)
(* domain, and the flush at the next switch waits long enough for them.    *)
LEMMA FlushReaps ==
    ASSUME CtxAssumption, CtxInv, ooms = 0
    PROVE  MayOutlive({}) = {}
<1> SUFFICES ASSUME NEW j \in MayOutlive({}) PROVE FALSE
  OBVIOUS
<1>1. j \in stuck
  BY DEF MayOutlive
<1>2. j.dom = ctx.dom_active /\ ctx.dom_dirty /\ j.tmo <= ctx.dom_dirty_ms
  BY <1>1 DEF CtxInv, Waited
<1>3. ctx.dom_dirty_ms \in {I4_TMO, MM_TMO} /\ I4_TMO \in Nat \ {0} /\ MM_TMO \in Nat \ {0}
  BY <1>2 DEF CtxInv, Good, CtxAssumption
<1>4. ReapWait = ctx.dom_dirty_ms
  BY <1>3 DEF ReapWait
<1>5. j.tmo \in Nat
  BY <1>1, <1>3 DEF CtxInv, StuckJobs
<1>6. j.tmo > ReapWait
  BY <1>1, <1>2 DEF MayOutlive
<1> QED BY <1>2, <1>3, <1>4, <1>5, <1>6

LEMMA ArrivedClean ==
    ASSUME CtxAssumption, CtxInv, ooms = 0, NEW d \in Dom, NEW c, c = Activate(ctx, d, {}),
           NEW K, K \subseteq (IF d = ctx.dom_active THEN stuck ELSE MayOutlive({}))
    PROVE  Waited(c, K)
<1>1. CASE d = ctx.dom_active
  <2>1. c = ctx
    BY <1>1 DEF Activate
  <2> QED BY <1>1, <2>1 DEF CtxInv, Waited
<1>2. CASE d # ctx.dom_active
  BY <1>2, FlushReaps DEF Waited
<1> QED BY <1>1, <1>2

LEMMA StaysWaited ==
    ASSUME NEW c, NEW r, NEW K, Waited(c, K), SameDomain(c, r)
    PROVE  Waited(r, K)
BY DEF Waited, SameDomain

LEMMA ReapedTyped ==
    ASSUME CtxInv, NEW d, NEW F, NEW K,
           K \subseteq (IF d = ctx.dom_active THEN stuck ELSE MayOutlive(F)) \/ K \subseteq MayOutlive(F)
    PROVE  K \subseteq StuckJobs
<1>1. MayOutlive(F) \subseteq stuck
  BY DEF MayOutlive
<1> QED BY <1>1 DEF CtxInv

(* A submit names buffers that are there, large enough, in its domain.     *)
Complete(c, T, n) ==
    \A s \in T : /\ HasRoom(c.buf, s, 0)
                 /\ s \in Sized \cup ({"maf"} \X CoreNo) => HasRoom(c.buf, s, n)

LEMMA SubmitIsComplete ==
    ASSUME CtxAssumption, CtxInv, NEW ok, NEW c, Good(c), NEW d, NEW n, NEW T,
           Submits(ok, c, d, n, T), ooms = 0,
           ok => d = c.dom_active /\ Complete(c, T, n)
    PROVE  SubmitsComplete'
<1>1. CASE ok
  <2>1. sub'.dom = d /\ sub'.need = n /\ sub'.named = T /\ sub'.has = In(c, T)
    BY <1>1 DEF Submits
  <2>2. ASSUME NEW s \in T
        PROVE  \E b \in In(c, T) : /\ b.slot = s /\ b.dom = d
                                   /\ s \in Sized \cup ({"maf"} \X CoreNo) => b.size >= n
    <3>1. \A b \in c.buf : b.dom = d
      BY <1>1 DEF Good, SetOf
    <3>2. CASE s \in Sized \cup ({"maf"} \X CoreNo)
      <4>1. HasRoom(c.buf, s, n)
        BY <1>1, <3>2 DEF Complete
      <4> QED BY <3>1, <4>1 DEF HasRoom, In
    <3>3. CASE s \notin Sized \cup ({"maf"} \X CoreNo)
      <4>1. HasRoom(c.buf, s, 0)
        BY <1>1 DEF Complete
      <4> QED BY <3>1, <3>3, <4>1 DEF HasRoom, In
    <3> QED BY <3>2, <3>3
  <2> QED BY <2>1, <2>2 DEF SubmitsComplete
<1>2. CASE ~ok
  <2>1. sub' = sub
    BY <1>2 DEF Submits
  <2> QED BY <2>1 DEF CtxInv, SubmitsComplete
<1> QED BY <1>1, <1>2

(* A call is over, or has submitted.                                       *)
LEMMA CallDone ==
    ASSUME CtxAssumption, CtxInv, phase = "up", NEW F \in FailSets, Fails(F),
           Good(ctx'), stuck' \subseteq StuckJobs, phase' \in {"up", "run"},
           drops' \in Nat, drops' + 2 * ooms' <= MaxTrouble,
           F = {} /\ ooms = 0 => Whole(ctx') /\ Waited(ctx', stuck') /\ SubmitsComplete'
    PROVE  CtxInv'
<1>1. ooms' \in Nat /\ (ooms' = 0 => F = {} /\ ooms = 0)
  BY FailCount
<1> QED BY <1>1 DEF CtxInv, Whole

LEMMA SubmitsPhase ==
    ASSUME NEW ok, NEW c, NEW d, NEW n, NEW T, Submits(ok, c, d, n, T), phase = "up"
    PROVE  phase' \in {"up", "run"}
BY DEF Submits

LEMMA ActivatedIs ==
    ASSUME NEW d, NEW F, NEW c, c \in Activated(d, F)
    PROVE  c = Activate(ctx, d, F) /\ phase = "up"
BY DEF Activated

(* What the context is when a call has switched to its domain.             *)
LEMMA Arrived ==
    ASSUME CtxAssumption, CtxInv, NEW d \in Dom, NEW F, NEW c, c = Activate(ctx, d, F), phase = "up"
    PROVE  /\ Good(c)
           /\ F = {} => c.dom_active = d
           /\ F = {} /\ ooms = 0 => Whole(c) /\ Exact(c) /\ Equipped(c.buf, c.sz)
<1>1. Good(ctx) /\ (ooms = 0 => Whole(ctx))
  BY DEF CtxInv, Whole
<1>2. Good(c) /\ (F = {} => c.dom_active = d) /\ (F = {} /\ Whole(ctx) => Whole(c))
  BY <1>1, ActivateKeeps
<1> QED BY <1>1, <1>2 DEF Whole, Furnished

-----------------------------------------------------------------------------
(* The actions.                                                            *)

LEMMA ActivateDomainKeeps ==
    ASSUME CtxAssumption, CtxInv, NEW d \in Dom, NEW F \in FailSets, ActivateDomain(d, F)
    PROVE  CtxInv'
<1>1. phase = "up" /\ Fails(F) /\ Reaped(d, F) /\ UNCHANGED <<sub, phase, drops>>
  BY DEF ActivateDomain, Fails
<1>2. PICK c : c = Activate(ctx, d, F)
  OBVIOUS
<1>3. ctx' = c
  BY <1>2 DEF ActivateDomain
<1>4. Good(c) /\ (F = {} /\ ooms = 0 => Whole(c))
  BY <1>1, <1>2, Arrived
<1>5. stuck' \subseteq (IF d = ctx.dom_active THEN stuck ELSE MayOutlive(F))
  BY <1>1 DEF Reaped
<1>6. stuck' \subseteq StuckJobs
  BY <1>5, ReapedTyped
<1>7. F = {} /\ ooms = 0 => Waited(c, stuck')
  BY <1>2, <1>5, ArrivedClean
<1>8. ooms = 0 => SubmitsComplete'
  BY <1>1 DEF CtxInv, SubmitsComplete
<1>9. drops' \in Nat /\ drops' + 2 * ooms' <= MaxTrouble
  BY <1>1, FailCount DEF CtxInv
<1> QED BY <1>1, <1>3, <1>4, <1>6, <1>7, <1>8, <1>9, CallDone

LEMMA RunSingleKeeps ==
    ASSUME CtxAssumption, CtxInv, NEW d \in Dom, NEW n \in Sizes, NEW F \in FailSets, RunSingle(d, n, F)
    PROVE  CtxInv'
<1>1. PICK Cc : Cc = Shared("Cc")
  OBVIOUS
<1>2. PICK Af : Af = Shared("Af")
  OBVIOUS
<1>3. PICK c0 : c0 = Activate(ctx, d, F)
  OBVIOUS
<1>4. PICK c1 : c1 = GrowSized(c0, {Cc}, n, F, TRUE)
  OBVIOUS
<1>5. PICK c2 : c2 = IF c0.sz[Cc] >= n \/ Has(c1, {Cc}) THEN GrowBuf(c1, {Af}, n, F) ELSE c1
  OBVIOUS
<1>6. PICK ok \in BOOLEAN : ok <=> (c0.sz[Cc] >= n \/ Has(c1, {Cc})) /\ Has(c2, {Af})
  OBVIOUS
<1>7. /\ phase = "up" /\ Fails(F) /\ Reaped(d, F) /\ drops' = drops
      /\ ctx' = c2 /\ Submits(ok, c2, d, n, Furniture \cup {Cc})
  BY <1>1, <1>2, <1>3, <1>4, <1>5, <1>6 DEF RunSingle, Activated, Submits
<1>8. /\ Good(c0) /\ (F = {} => c0.dom_active = d)
      /\ F = {} /\ ooms = 0 => Whole(c0) /\ Exact(c0) /\ Equipped(c0.buf, c0.sz)
  BY <1>3, <1>7, Arrived
<1>9. {Cc} \subseteq Sized /\ {Af} \subseteq Scratch /\ Af \in Furniture /\ n \in Sizes \cup {1} /\ TRUE \in BOOLEAN
      /\ n \in Nat
  BY <1>1, <1>2, Slots DEF CtxAssumption
<1>10. /\ Good(c1) /\ SameDomain(c0, c1) /\ OtherRoom(c0, c1, {Cc}) /\ (Exact(c0) => Exact(c1))
       /\ F = {} /\ Equipped(c0.buf, c0.sz) => Equipped(c1.buf, c1.sz) /\ RoomIn(c1, {Cc}, n)
  <2>1. PICK V : V = {Cc}
    OBVIOUS
  <2>2. V \subseteq Sized /\ c1 = GrowSized(c0, V, n, F, TRUE)
    BY <1>4, <1>9, <2>1
  <2>3. Good(c1) /\ SameDomain(c0, c1) /\ OtherRoom(c0, c1, V) /\ (Exact(c0) => Exact(c1))
    BY <1>8, <1>9, <2>2, GrowSizedKeeps
  <2>4. F = {} /\ Equipped(c0.buf, c0.sz) => Equipped(c1.buf, c1.sz) /\ RoomIn(c1, V, n)
    BY <1>8, <1>9, <2>2, GrowSizedKeeps
  <2> QED BY <2>1, <2>3, <2>4
<1>11. /\ Good(c2) /\ SameDomain(c1, c2) /\ (Exact(c1) => Exact(c2))
       /\ F = {} /\ Equipped(c1.buf, c1.sz) /\ RoomIn(c1, {Cc}, n) =>
            Equipped(c2.buf, c2.sz) /\ RoomIn(c2, {Cc}, n)
  <2>1. CASE c0.sz[Cc] >= n \/ Has(c1, {Cc})
    <3>1. c2 = GrowBuf(c1, {Af}, n, F)
      BY <1>5, <2>1
    <3>2. /\ Good(c2) /\ SameRecords(c1, c2) /\ OtherRoom(c1, c2, {Af}) /\ (Exact(c1) => Exact(c2))
          /\ F = {} => Grown(c1, c2)
      BY <1>9, <1>10, <3>1, GrowBufKeeps
    <3>3. \A i \in CoreNo : OtherRoom(c1, c2, Scratch \ Three(i))
      <4>1. \A i \in CoreNo : Af \in Scratch \ Three(i)
        BY <1>9, Slots
      <4> QED BY <3>2, <4>1 DEF OtherRoom
    <3>4. F = {} /\ Equipped(c1.buf, c1.sz) => Equipped(c2.buf, c2.sz)
      BY <1>10, <3>2, <3>3, StaysEquipped
    <3>5. F = {} /\ RoomIn(c1, {Cc}, n) => RoomIn(c2, {Cc}, n)
      BY <1>9, <3>2 DEF RoomIn, Grown
    <3> QED BY <3>2, <3>4, <3>5 DEF SameRecords
  <2>2. CASE ~(c0.sz[Cc] >= n \/ Has(c1, {Cc}))
    BY <1>5, <1>10, <2>2 DEF SameDomain
  <2> QED BY <2>1, <2>2
<1>12. SameDomain(c0, c2)
  BY <1>10, <1>11 DEF SameDomain
<1>13. stuck' \subseteq (IF d = ctx.dom_active THEN stuck ELSE MayOutlive(F))
  BY <1>7 DEF Reaped
<1>14. stuck' \subseteq StuckJobs
  BY <1>13, ReapedTyped
<1>15. ASSUME F = {}, ooms = 0 PROVE Whole(c2) /\ Waited(c2, stuck') /\ SubmitsComplete'
  <2>1. Exact(c2) /\ Equipped(c2.buf, c2.sz) /\ RoomIn(c2, {Cc}, n)
    BY <1>8, <1>10, <1>11, <1>15
  <2>2. Whole(c2)
    BY <1>8, <1>12, <1>15, <2>1, WholeHere
  <2>3. Waited(c2, stuck')
    <3>1. Waited(c0, stuck')
      BY <1>3, <1>13, <1>15, ArrivedClean
    <3> QED BY <1>12, <3>1, StaysWaited
  <2>4. c2.dom_active = d
    BY <1>8, <1>12, <1>15 DEF SameDomain
  <2>5. Complete(c2, Furniture \cup {Cc}, n)
    <3>1. HasRoom(c2.buf, Cc, n) /\ HasRoom(c2.buf, Cc, 0)
      BY <1>9, <1>11, <2>1, LessRoom DEF RoomIn
    <3>2. \A s \in Furniture : HasRoom(c2.buf, s, 0)
      BY <2>1 DEF Equipped
    <3>3. \A s \in Furniture : s \notin Sized \cup ({"maf"} \X CoreNo)
      BY Slots DEF Furniture, Shared
    <3> QED BY <3>1, <3>2, <3>3 DEF Complete
  <2>6. SubmitsComplete'
    BY <1>7, <1>11, <1>15, <2>4, <2>5, SubmitIsComplete
  <2> QED BY <2>2, <2>3, <2>6
<1>16. drops' \in Nat /\ drops' + 2 * ooms' <= MaxTrouble
  BY <1>7, FailCount DEF CtxInv
<1>17. phase' \in {"up", "run"}
  BY <1>7, SubmitsPhase
<1>18. Good(ctx') /\ (F = {} /\ ooms = 0 => Whole(ctx') /\ Waited(ctx', stuck') /\ SubmitsComplete')
  BY <1>7, <1>11, <1>15
<1> QED BY <1>7, <1>14, <1>16, <1>17, <1>18, CallDone

(* A dropped round marks its domain with the longest wait needed so far.   *)
LEMMA RoundLost ==
    ASSUME CtxAssumption, NEW c, Good(c), NEW tmo \in {I4_TMO, MM_TMO}, NEW r, r = LoseRound(c, tmo),
           NEW K, \A j \in K : j.tmo \in Nat
    PROVE  /\ Good(r) /\ SameMemory(c, r) /\ (Whole(c) => Whole(r))
           /\ Waited(c, K) => Waited(r, K \cup {[dom |-> c.dom_active, tmo |-> tmo]})
<1>1. I4_TMO \in Nat /\ MM_TMO \in Nat
  BY DEF CtxAssumption
<1>2. c.dom_dirty_ms \in {0, I4_TMO, MM_TMO} /\ c.dom_dirty_ms \in Nat /\ tmo \in Nat
      /\ (c.dom_dirty_ms > 0 => c.dom_dirty_ms \in {I4_TMO, MM_TMO})
  BY <1>1 DEF Good, Contexts
<1>3. PICK ms : ms = Later(c.dom_dirty_ms, tmo)
  OBVIOUS
<1>4. ms \in {I4_TMO, MM_TMO} /\ ms \in Nat /\ ms >= tmo /\ ms >= c.dom_dirty_ms
  <2>1. CASE c.dom_dirty_ms > tmo
    BY <1>1, <1>2, <1>3, <2>1 DEF Later
  <2>2. CASE ~(c.dom_dirty_ms > tmo)
    BY <1>1, <1>2, <1>3, <2>2 DEF Later
  <2> QED BY <2>1, <2>2
<1>5. r = [c EXCEPT !.dom_dirty = TRUE, !.dom_dirty_ms = ms]
  BY <1>3 DEF LoseRound
<1>6. r \in Contexts /\ SameMemory(c, r) /\ r.dom_dirty /\ r.dom_dirty_ms = ms
  BY <1>4, <1>5 DEF Good, Contexts, SameMemory
<1>7. Good(r) /\ (Whole(c) => Whole(r))
  BY <1>4, <1>6, FlagsChange
<1>8. ASSUME Waited(c, K), NEW j \in K \cup {[dom |-> c.dom_active, tmo |-> tmo]}
      PROVE  j.dom = r.dom_active /\ r.dom_dirty /\ j.tmo <= r.dom_dirty_ms
  <2>1. r.dom_active = c.dom_active
    BY <1>6 DEF SameMemory
  <2>2. CASE j \in K
    <3>1. j.dom = c.dom_active /\ j.tmo <= c.dom_dirty_ms /\ c.dom_dirty
      BY <1>8, <2>2 DEF Waited
    <3>2. j.tmo \in Nat
      BY <2>2
    <3> QED BY <1>2, <1>4, <1>6, <2>1, <3>1, <3>2
  <2>3. CASE j \notin K
    BY <1>4, <1>6, <1>8, <2>1, <2>3
  <2> QED BY <2>2, <2>3
<1> QED BY <1>6, <1>7, <1>8 DEF Waited

LEMMA RunStreamKeeps ==
    ASSUME CtxAssumption, CtxInv, NEW d \in Dom, NEW n \in Sizes, NEW tmo \in {0, I4_TMO, MM_TMO},
           NEW F \in FailSets, RunStream(d, n, tmo, F)
    PROVE  CtxInv'
<1>1. PICK c0 : c0 = Activate(ctx, d, F)
  OBVIOUS
<1>2. PICK c1 : c1 = McEnsure(c0, F)
  OBVIOUS
<1>3. PICK c2 : c2 = IF McEnsureOk(c0, F) THEN StreamGrown(c1, n, F) ELSE c1
  OBVIOUS
<1>4. PICK ok \in BOOLEAN : ok <=> /\ McEnsureOk(c0, F)
                                   /\ \A i \in CoreNo : c2.sz[<<"mcc", i>>] >= n
                                   /\ Short(c2, {"maf"} \X CoreNo, n) = {}
  OBVIOUS
<1>5. /\ phase = "up" /\ Fails(F) /\ Submits(ok, c2, d, n, PerCore)
      /\ IF tmo = 0
         THEN ctx' = c2 /\ Reaped(d, F) /\ UNCHANGED drops
         ELSE /\ drops + 2 * ooms' < MaxTrouble /\ drops' = drops + 1 /\ ctx' = LoseRound(c2, tmo)
              /\ \E K \in SUBSET (IF d = ctx.dom_active THEN stuck ELSE MayOutlive(F)) :
                   stuck' = K \cup {[dom |-> c2.dom_active, tmo |-> tmo]}
  <2>1. /\ phase = "up" /\ Fails(F)
        /\ Submits(/\ McEnsureOk(c0, F)
                   /\ \A i \in CoreNo : c2.sz[<<"mcc", i>>] >= n
                   /\ Short(c2, {"maf"} \X CoreNo, n) = {}, c2, d, n, PerCore)
        /\ IF tmo = 0
           THEN ctx' = c2 /\ Reaped(d, F) /\ UNCHANGED drops
           ELSE /\ drops + 2 * ooms' < MaxTrouble /\ drops' = drops + 1 /\ ctx' = LoseRound(c2, tmo)
                /\ \E K \in SUBSET (IF d = ctx.dom_active THEN stuck ELSE MayOutlive(F)) :
                     stuck' = K \cup {[dom |-> c2.dom_active, tmo |-> tmo]}
    BY <1>1, <1>2, <1>3 DEF RunStream, Activated
  <2>2. Submits(ok, c2, d, n, PerCore)
    <3>1. CASE ok
      <4>1. /\ McEnsureOk(c0, F) /\ Short(c2, {"maf"} \X CoreNo, n) = {}
            /\ \A i \in CoreNo : c2.sz[<<"mcc", i>>] >= n
        BY <1>4, <3>1
      <4>2. phase' = "run" /\ sub' = [dom |-> d, need |-> n, named |-> PerCore, has |-> In(c2, PerCore)]
        BY <2>1, <4>1 DEF Submits
      <4> QED BY <3>1, <4>2 DEF Submits
    <3>2. CASE ~ok
      BY <1>4, <2>1, <3>2 DEF Submits
    <3> QED BY <3>1, <3>2
  <2> QED BY <2>1, <2>2
<1>6. /\ Good(c0) /\ (F = {} => c0.dom_active = d)
      /\ F = {} /\ ooms = 0 => Whole(c0) /\ Exact(c0) /\ Equipped(c0.buf, c0.sz)
  BY <1>1, <1>5, Arrived
<1>7. /\ Good(c1) /\ SameRecords(c0, c1)
      /\ F = {} /\ Equipped(c0.buf, c0.sz) =>
           (Exact(c0) => Exact(c1)) /\ Equipped(c1.buf, c1.sz) /\ AllCores(c1.buf)
  BY <1>2, <1>6, McEnsureKeeps
<1>8. /\ Good(c2) /\ SameDomain(c1, c2) /\ (Exact(c1) => Exact(c2))
      /\ F = {} /\ Equipped(c1.buf, c1.sz) /\ AllCores(c1.buf) =>
           Equipped(c2.buf, c2.sz) /\ AllCores(c2.buf)
  <2>1. CASE McEnsureOk(c0, F)
    <3>1. c2 = StreamGrown(c1, n, F)
      BY <1>3, <2>1
    <3> QED BY <1>7, <3>1, StreamGrownKeeps
  <2>2. CASE ~McEnsureOk(c0, F)
    BY <1>3, <1>7, <2>2 DEF SameDomain
  <2> QED BY <2>1, <2>2
<1>9. SameDomain(c0, c2)
  BY <1>7, <1>8 DEF SameDomain, SameRecords
<1>10. PICK K \in SUBSET (IF d = ctx.dom_active THEN stuck ELSE MayOutlive(F)) :
         stuck' = IF tmo = 0 THEN K ELSE K \cup {[dom |-> c2.dom_active, tmo |-> tmo]}
  BY <1>5 DEF Reaped
<1>11. K \subseteq StuckJobs
  BY <1>10, ReapedTyped
<1>12. \A j \in K : j.tmo \in Nat
  BY <1>11 DEF StuckJobs, CtxAssumption
<1>13. tmo # 0 => tmo \in {I4_TMO, MM_TMO}
  OBVIOUS
<1>14. c2.dom_active \in Dom
  BY <1>8 DEF Good, Contexts
<1>15. stuck' \subseteq StuckJobs
  BY <1>10, <1>11, <1>13, <1>14 DEF StuckJobs
<1>16. Good(ctx') /\ (Whole(c2) => Whole(ctx'))
  <2>1. CASE tmo = 0
    BY <1>5, <1>8, <2>1
  <2>2. CASE tmo # 0
    <3>1. ctx' = LoseRound(c2, tmo)
      BY <1>5, <2>2
    <3>2. PICK r : r = LoseRound(c2, tmo)
      OBVIOUS
    <3>3. Good(r) /\ (Whole(c2) => Whole(r))
      BY <1>8, <1>12, <1>13, <2>2, <3>2, RoundLost
    <3> QED BY <3>1, <3>2, <3>3
  <2> QED BY <2>1, <2>2
<1>17. ASSUME F = {}, ooms = 0 PROVE Whole(ctx') /\ Waited(ctx', stuck') /\ SubmitsComplete'
  <2>1. Exact(c2) /\ Equipped(c2.buf, c2.sz) /\ AllCores(c2.buf)
    BY <1>6, <1>7, <1>8, <1>17
  <2>2. Whole(c2)
    BY <1>6, <1>9, <1>17, <2>1, WholeHere
  <2>3. Waited(c2, K)
    <3>1. Waited(c0, K)
      BY <1>1, <1>10, <1>17, ArrivedClean
    <3> QED BY <1>9, <3>1, StaysWaited
  <2>4. Waited(ctx', stuck')
    <3>1. CASE tmo = 0
      BY <1>5, <1>10, <2>3, <3>1
    <3>2. CASE tmo # 0
      <4>1. PICK r : r = LoseRound(c2, tmo)
        OBVIOUS
      <4>2. Waited(r, K \cup {[dom |-> c2.dom_active, tmo |-> tmo]})
        BY <1>8, <1>12, <1>13, <2>3, <3>2, <4>1, RoundLost
      <4> QED BY <1>5, <1>10, <3>2, <4>1, <4>2
    <3> QED BY <3>1, <3>2
  <2>5. c2.dom_active = d
    BY <1>6, <1>9, <1>17 DEF SameDomain
  <2>6. ASSUME ok PROVE Complete(c2, PerCore, n)
    <3> SUFFICES ASSUME NEW i \in CoreNo, NEW s \in PerCoreOf(i)
                 PROVE  /\ HasRoom(c2.buf, s, 0)
                        /\ s \in Sized \cup ({"maf"} \X CoreNo) => HasRoom(c2.buf, s, n)
      BY Slots DEF Complete
    <3>1. n \in Nat /\ n > 0
      BY DEF CtxAssumption
    <3>2. CASE s = <<"mcc", i>>
      <4>1. s \in Sized /\ c2.sz[s] >= n /\ c2.sz[s] \in Nat
        BY <1>4, <1>8, <2>6, <3>2, Slots, SizesTyped
      <4>2. HasRoom(c2.buf, s, c2.sz[s])
        BY <2>1, <3>1, <4>1 DEF Equipped
      <4> QED BY <1>8, <3>1, <4>1, <4>2, LessRoom
    <3>3. CASE s = <<"maf", i>>
      <4>1. s \in {"maf"} \X CoreNo
        BY <3>3
      <4>2. \E b \in c2.buf : b.slot = s /\ ~(b.size < n)
        BY <1>4, <2>6, <4>1 DEF Short
      <4>3. HasRoom(c2.buf, s, n)
        BY <1>8, <3>1, <4>2, SizesTyped DEF HasRoom
      <4> QED BY <1>8, <3>1, <4>3, LessRoom
    <3>4. CASE s \in Three(i) /\ s # <<"maf", i>>
      <4>1. HasRoom(c2.buf, s, 0)
        BY <2>1, <3>4 DEF AllCores
      <4>2. s \notin Sized
        BY <3>4, Slots
      <4>3. s \notin {"maf"} \X CoreNo
        BY <3>4 DEF Three
      <4> QED BY <4>1, <4>2, <4>3
    <3>5. s \in Three(i) \/ s = <<"mcc", i>>
      <4>1. PerCoreOf(i) = Three(i) \cup {<<"mcc", i>>}
        BY Slots
      <4> QED BY <4>1
    <3> QED BY <3>2, <3>3, <3>4, <3>5
  <2>7. SubmitsComplete'
    BY <1>5, <1>8, <1>17, <2>5, <2>6, SubmitIsComplete
  <2> QED BY <1>16, <2>2, <2>4, <2>7
<1>18. drops' \in Nat /\ drops' + 2 * ooms' <= MaxTrouble
  <2>1. drops \in Nat /\ MaxTrouble \in Nat /\ ooms' \in Nat /\ drops + 2 * ooms' <= MaxTrouble
    BY <1>5, FailCount DEF CtxInv, CtxAssumption
  <2>2. CASE tmo = 0
    BY <1>5, <2>1, <2>2
  <2>3. CASE tmo # 0
    <3>1. PICK o \in Nat : o = ooms'
      BY <2>1
    <3>2. drops' = drops + 1 /\ drops + 2 * o < MaxTrouble
      BY <1>5, <2>3, <3>1
    <3>3. drops + 1 \in Nat /\ drops + 1 + 2 * o <= MaxTrouble
      BY <2>1, <3>2
    <3> QED BY <3>1, <3>2, <3>3
  <2> QED BY <2>2, <2>3
<1>19. phase' \in {"up", "run"}
  BY <1>5, SubmitsPhase
<1> QED BY <1>5, <1>15, <1>16, <1>17, <1>18, <1>19, CallDone

LEMMA RunExpertsKeeps ==
    ASSUME CtxAssumption, CtxInv, NEW d \in Dom, NEW n \in Sizes, NEW F \in FailSets, RunExperts(d, n, F)
    PROVE  CtxInv'
<1>1. PICK c0 : c0 = Activate(ctx, d, F)
  OBVIOUS
<1>2. PICK c1 : c1 = McEnsure(c0, F)
  OBVIOUS
<1>3. PICK g : g = ExpertsGrown(c1, PerCore, n, F)
  OBVIOUS
<1>4. PICK bad : bad = {i \in CoreNo : ~Has(g, PerCoreOf(i))}
  OBVIOUS
<1>5. PICK T : T = UNION {PerCoreOf(i) : i \in Served(bad)}
  OBVIOUS
<1>6. PICK V : V = {"mcc"} \X CoreNo
  OBVIOUS
<1>7. PICK ok \in BOOLEAN : ok <=> McEnsureOk(c0, F) /\ bad = {}
  OBVIOUS
<1>8. /\ phase = "up" /\ Fails(F) /\ drops' = drops
      /\ IF ok THEN stuck' \in SUBSET MayOutlive(F) ELSE Reaped(d, F)
      /\ ctx' = IF ~McEnsureOk(c0, F) THEN c1
                ELSE IF ~ok THEN ExpertsGrown(c1, T, n, F)
                ELSE Clean(IF g.dom_save THEN GiveBack(g, V) ELSE g)
      /\ Submits(ok, g, d, n, PerCore)
  <2>1. /\ phase = "up" /\ Fails(F) /\ drops' = drops
        /\ IF McEnsureOk(c0, F) /\ bad = {} THEN stuck' \in SUBSET MayOutlive(F) ELSE Reaped(d, F)
        /\ ctx' = IF ~McEnsureOk(c0, F) THEN c1
                  ELSE IF ~(McEnsureOk(c0, F) /\ bad = {}) THEN ExpertsGrown(c1, T, n, F)
                  ELSE Clean(IF g.dom_save THEN GiveBack(g, V) ELSE g)
        /\ Submits(McEnsureOk(c0, F) /\ bad = {}, g, d, n, PerCore)
    BY <1>1, <1>2, <1>3, <1>4, <1>5, <1>6 DEF RunExperts, Activated
  <2>2. CASE ok
    BY <1>7, <2>1, <2>2 DEF Submits
  <2>3. CASE ~ok
    BY <1>7, <2>1, <2>3 DEF Submits
  <2> QED BY <2>2, <2>3
<1>9. /\ Good(c0) /\ (F = {} => c0.dom_active = d)
      /\ F = {} /\ ooms = 0 => Whole(c0) /\ Exact(c0) /\ Equipped(c0.buf, c0.sz)
  BY <1>1, <1>8, Arrived
<1>10. /\ Good(c1) /\ SameRecords(c0, c1)
       /\ F = {} /\ Equipped(c0.buf, c0.sz) =>
            (Exact(c0) => Exact(c1)) /\ Equipped(c1.buf, c1.sz) /\ AllCores(c1.buf)
  BY <1>2, <1>9, McEnsureKeeps
<1>11. SameDomain(c0, c1)
  BY <1>10 DEF SameRecords
<1>12. T \subseteq PerCore /\ V \subseteq Sized
  BY <1>4, <1>5, <1>6 DEF PerCore, Served, Sized
<1>13. ASSUME NEW U, U \subseteq PerCore, NEW r, r = ExpertsGrown(c1, U, n, F)
       PROVE  /\ Good(r) /\ SameDomain(c0, r)
              /\ F = {} /\ ooms = 0 => Whole(r) /\ Equipped(r.buf, r.sz) /\ Exact(r) /\ RoomIn(r, U, n)
  <2>1. /\ Good(r) /\ SameDomain(c1, r) /\ (Exact(c1) => Exact(r))
        /\ F = {} /\ Equipped(c1.buf, c1.sz) /\ AllCores(c1.buf) =>
             Equipped(r.buf, r.sz) /\ RoomIn(r, U, n)
    BY <1>10, <1>13, ExpertsGrownKeeps
  <2>2. SameDomain(c0, r)
    BY <1>11, <2>1 DEF SameDomain
  <2> QED BY <1>9, <1>10, <2>1, <2>2, WholeHere
<1>14. /\ Good(g) /\ SameDomain(c0, g)
       /\ F = {} /\ ooms = 0 => Whole(g) /\ Equipped(g.buf, g.sz) /\ Exact(g) /\ RoomIn(g, PerCore, n)
  BY <1>3, <1>13
<1>15. /\ Good(ctx') /\ (~ok => SameDomain(c0, ctx'))
       /\ F = {} /\ ooms = 0 => Whole(ctx')
  <2>1. CASE ~McEnsureOk(c0, F)
    <3>1. ctx' = c1 /\ ~ok
      BY <1>7, <1>8, <2>1
    <3>2. F = {} /\ ooms = 0 => Whole(c1)
      BY <1>9, <1>10, <1>11, WholeHere
    <3> QED BY <1>10, <1>11, <3>1, <3>2
  <2>2. CASE McEnsureOk(c0, F) /\ ~ok
    <3>1. ctx' = ExpertsGrown(c1, T, n, F)
      BY <1>8, <2>2
    <3>2. PICK r : r = ExpertsGrown(c1, T, n, F)
      OBVIOUS
    <3>3. Good(r) /\ SameDomain(c0, r) /\ (F = {} /\ ooms = 0 => Whole(r))
      BY <1>12, <1>13, <3>2
    <3> QED BY <3>1, <3>2, <3>3
  <2>3. CASE ok
    <3>1. PICK q : q = GiveBack(g, V)
      OBVIOUS
    <3>2. /\ Good(q) /\ SameDomain(g, q) /\ (Exact(g) => Exact(q))
          /\ Equipped(g.buf, g.sz) => Equipped(q.buf, q.sz)
      BY <1>12, <1>14, <3>1, GiveBackKeeps
    <3>3. F = {} /\ ooms = 0 => Whole(q)
      BY <1>14, <3>2, WholeHere
    <3>4. PICK r : r = IF g.dom_save THEN q ELSE g
      OBVIOUS
    <3>5. Good(r) /\ (F = {} /\ ooms = 0 => Whole(r))
      BY <1>14, <3>2, <3>3, <3>4
    <3>6. ctx' = Clean(r)
      BY <1>7, <1>8, <2>3, <3>1, <3>4
    <3>7. PICK v : v = Clean(r)
      OBVIOUS
    <3>8. Good(v) /\ (Whole(r) => Whole(v))
      BY <3>5, <3>7, CleanKeeps
    <3> QED BY <2>3, <3>5, <3>6, <3>7, <3>8
  <2> QED BY <2>1, <2>2, <2>3
<1>16. CASE ok
  <2>1. stuck' \subseteq MayOutlive(F)
    BY <1>8, <1>16
  <2>2. stuck' \subseteq StuckJobs
    BY <2>1, ReapedTyped
  <2>3. F = {} /\ ooms = 0 => Waited(ctx', stuck')
    BY <2>1, FlushReaps DEF Waited
  <2>4. ASSUME F = {}, ooms = 0 PROVE SubmitsComplete'
    <3>1. n \in Nat
      BY DEF CtxAssumption
    <3>2. Complete(g, PerCore, n)
      BY <1>14, <2>4, <3>1, LessRoom DEF Complete, RoomIn
    <3>3. g.dom_active = d
      BY <1>9, <1>14, <2>4 DEF SameDomain
    <3> QED BY <1>8, <1>14, <2>4, <3>2, <3>3, SubmitIsComplete
  <2>5. drops' \in Nat /\ drops' + 2 * ooms' <= MaxTrouble
    BY <1>8, FailCount DEF CtxInv
  <2>6. phase' \in {"up", "run"}
    BY <1>8, SubmitsPhase
  <2> QED BY <1>8, <1>15, <2>2, <2>3, <2>4, <2>5, <2>6, CallDone
<1>17. CASE ~ok
  <2>1. stuck' \subseteq (IF d = ctx.dom_active THEN stuck ELSE MayOutlive(F))
    BY <1>8, <1>17 DEF Reaped
  <2>2. stuck' \subseteq StuckJobs
    BY <2>1, ReapedTyped
  <2>3. ASSUME F = {}, ooms = 0 PROVE Waited(ctx', stuck')
    <3>1. Waited(c0, stuck')
      BY <1>1, <2>1, <2>3, ArrivedClean
    <3> QED BY <1>15, <1>17, <3>1, StaysWaited
  <2>4. ASSUME F = {}, ooms = 0 PROVE SubmitsComplete'
    BY <1>8, <1>14, <1>17, <2>4, SubmitIsComplete
  <2>5. drops' \in Nat /\ drops' + 2 * ooms' <= MaxTrouble
    BY <1>8, FailCount DEF CtxInv
  <2>6. phase' \in {"up", "run"}
    BY <1>8, SubmitsPhase
  <2> QED BY <1>8, <1>15, <2>2, <2>3, <2>4, <2>5, <2>6, CallDone
<1> QED BY <1>16, <1>17

(* ork_npu_free: what the active and the parked sets name is unmapped.     *)
LEMMA NpuFreeKeeps == ASSUME CtxAssumption, CtxInv, NpuFree PROVE CtxInv'
<1>1. PICK q : q = Destroy(ctx, Scratch)
  OBVIOUS
<1>2. PICK parked : parked = UNION {Mappings(ctx.save[d].buf) : d \in ParkedDoms(ctx)}
  OBVIOUS
<1>3. PICK fresh : fresh = [d \in Dom |-> Unused]
  OBVIOUS
<1>4. /\ ctx' = [q EXCEPT !.live = q.live \ parked, !.save = fresh]
      /\ phase = "up" /\ phase' = "freed" /\ UNCHANGED <<stuck, sub, drops, ooms>>
  BY <1>1, <1>2, <1>3 DEF NpuFree
<1>5. Good(ctx)
  BY DEF CtxInv
<1>6. Good(q) /\ SameRecords(ctx, q) /\ (Exact(ctx) => Exact(q)) /\ q.buf = ctx.buf \ In(ctx, Scratch)
  BY <1>1, <1>5, DestroyKeeps
<1>7. q.buf = {}
  BY <1>5, <1>6 DEF Good, Contexts, Buffers, In
<1>8. Unused \in [used : BOOLEAN, buf : SUBSET Buffers, sz : SlotSizes]
  BY DEF Unused, SlotSizes
<1>9. fresh \in [Dom -> [used : BOOLEAN, buf : SUBSET Buffers, sz : SlotSizes]]
  BY <1>3, <1>8
<1>10. /\ ctx' \in Contexts /\ ctx'.buf = {} /\ ctx'.save = fresh /\ ctx'.live = q.live \ parked
       /\ ctx'.lost = q.lost /\ ctx'.dom_active = q.dom_active
       /\ ctx'.dom_dirty = q.dom_dirty /\ ctx'.dom_dirty_ms = q.dom_dirty_ms
  BY <1>4, <1>6, <1>7, <1>9 DEF Good, Contexts
<1>11. \A d \in Dom : fresh[d] = Unused /\ fresh[d].buf = {}
  BY <1>3 DEF Unused
<1>12. PICK r : r = ctx'
  OBVIOUS
<1>13. ParkedDoms(r) = {} /\ Names(r) = {}
  BY <1>10, <1>11, <1>12 DEF ParkedDoms, Names, Mappings, Unused
<1>14. Good(r)
  <2>1. SetOf({}, r.dom_active) /\ \A d \in Dom : SetOf({}, d)
    BY DEF SetOf
  <2> QED BY <1>6, <1>10, <1>11, <1>12, <1>13, <2>1 DEF Good
<1>15. ASSUME ooms = 0 PROVE Exact(r)
  <2>1. Exact(q)
    BY <1>6, <1>15 DEF CtxInv
  <2>2. ParkedDoms(q) = ParkedDoms(ctx) /\ q.save = ctx.save
    BY <1>6 DEF SameRecords, SameDomain, ParkedDoms
  <2>3. q.live \subseteq parked
    BY <1>2, <1>7, <2>1, <2>2 DEF Exact, Names, Mappings
  <2> QED BY <1>10, <1>12, <2>1, <2>3 DEF Exact
<1>16. ooms = 0 => Waited(r, stuck)
  BY <1>6, <1>10, <1>12 DEF CtxInv, Waited, SameRecords, SameDomain
<1>17. ooms = 0 => SubmitsComplete'
  BY <1>4 DEF CtxInv, SubmitsComplete
<1> QED BY <1>4, <1>10, <1>11, <1>12, <1>14, <1>15, <1>16, <1>17 DEF CtxInv

(* The net under it and the close of the device.                           *)
LEMMA LiveReapKeeps == ASSUME CtxAssumption, CtxInv, LiveReap PROVE CtxInv'
<1>1. /\ ctx' = [ctx EXCEPT !.live = {}, !.lost = 0] /\ stuck' = {} /\ phase = "freed" /\ phase' = "closed"
      /\ UNCHANGED <<sub, drops, ooms>>
  BY DEF LiveReap
<1>2. Good(ctx) /\ ctx.buf = {} /\ \A d \in Dom : ctx.save[d] = Unused
  BY <1>1 DEF CtxInv
<1>3. PICK r : r = ctx'
  OBVIOUS
<1>4. /\ r \in Contexts /\ r.live = {} /\ r.lost = 0 /\ r.buf = {} /\ r.save = ctx.save
      /\ r.dom_active = ctx.dom_active /\ r.dom_dirty = ctx.dom_dirty /\ r.dom_dirty_ms = ctx.dom_dirty_ms
  BY <1>1, <1>2, <1>3 DEF Good, Contexts
<1>5. ParkedDoms(r) = {} /\ Names(r) = {}
  BY <1>2, <1>4 DEF ParkedDoms, Names, Mappings, Unused
<1>6. Good(r)
  BY <1>2, <1>4, <1>5 DEF Good
<1>7. Exact(r) /\ Waited(r, {})
  BY <1>4 DEF Exact, Waited
<1>8. ooms = 0 => SubmitsComplete'
  BY <1>1 DEF CtxInv, SubmitsComplete
<1> QED BY <1>1, <1>2, <1>3, <1>4, <1>6, <1>7, <1>8 DEF CtxInv

LEMMA ReturnKeeps == ASSUME CtxAssumption, CtxInv, Return PROVE CtxInv'
<1>1. SubmitsComplete'
  BY DEF Return, SubmitsComplete, NoSub
<1> QED BY <1>1 DEF CtxInv, Return

-----------------------------------------------------------------------------
(* The invariant.                                                          *)

(* A context begins with its furniture and the scratch of its cores.       *)
LEMMA CtxInvInit == CtxAssumption /\ CtxInit => CtxInv
<1> SUFFICES ASSUME CtxAssumption, CtxInit PROVE CtxInv
  OBVIOUS
<1>1. PICK bare : bare = [dom_active |-> 0, dom_save |-> FALSE, dom_dirty |-> FALSE, dom_dirty_ms |-> 0,
                          buf |-> {}, sz |-> [s \in Sized |-> 0], save |-> [d \in Dom |-> Unused],
                          live |-> {}, lost |-> 0]
  OBVIOUS
<1>2. PICK V : V = {"mcc"} \X CoreNo
  OBVIOUS
<1>3. PICK F : F = {}
  OBVIOUS
<1>4. PICK c1 : c1 = Create(bare, Furniture, 0, 1, F)
  OBVIOUS
<1>5. PICK c2 : c2 = McEnsure(c1, F)
  OBVIOUS
<1>6. PICK n \in Sizes \cup {1} : n = 1
  OBVIOUS
<1>7. PICK c3 : c3 = GrowSized(c2, V, n, F, FALSE)
  OBVIOUS
<1>8. /\ ctx = c3 /\ stuck = {} /\ sub = NoSub /\ phase = "up" /\ drops = 0 /\ ooms = 0
  BY <1>1, <1>2, <1>3, <1>4, <1>5, <1>6, <1>7 DEF CtxInit
<1>9. Unused \in [used : BOOLEAN, buf : SUBSET Buffers, sz : SlotSizes]
  BY DEF Unused, SlotSizes
<1>10. 0 \in Dom
  BY DEF Dom, CtxAssumption
<1>11. bare \in Contexts
  <2>1. [s \in Sized |-> 0] \in SlotSizes
    BY DEF SlotSizes
  <2>2. [d \in Dom |-> Unused] \in [Dom -> [used : BOOLEAN, buf : SUBSET Buffers, sz : SlotSizes]]
    BY <1>9
  <2> QED BY <1>1, <1>10, <2>1, <2>2 DEF Contexts
<1>12. ParkedDoms(bare) = {} /\ Names(bare) = {}
  BY <1>1 DEF ParkedDoms, Names, Mappings, Unused
<1>13. \A d \in Dom : bare.save[d] = Unused /\ SetOf(bare.save[d].buf, d)
  BY <1>1 DEF Unused, SetOf
<1>14. Good(bare) /\ Exact(bare)
  <2>1. /\ bare.dom_dirty = FALSE /\ bare.dom_dirty_ms = 0
        /\ bare.buf = {} /\ bare.live = {} /\ bare.lost = 0
    BY <1>1
  <2>2. SetOf(bare.buf, bare.dom_active)
    BY <2>1 DEF SetOf
  <2>3. Good(bare)
    BY <1>11, <1>12, <1>13, <2>1, <2>2 DEF Good
  <2> QED BY <1>12, <2>1, <2>3 DEF Exact
<1>15. /\ bare.buf = {} /\ bare.sz = [s \in Sized |-> 0]
       /\ c1 = Create(bare, Furniture, bare.dom_active, 1, F)
  BY <1>1, <1>4
<1>16. Good(c1) /\ SameRecords(bare, c1) /\ Exact(c1) /\ Equipped(c1.buf, c1.sz)
  BY <1>3, <1>14, <1>15, Furnish
<1>17. Good(c2) /\ SameRecords(c1, c2) /\ Exact(c2) /\ Equipped(c2.buf, c2.sz)
  BY <1>3, <1>5, <1>16, McEnsureKeeps
<1>18. V \subseteq Sized /\ FALSE \in BOOLEAN
  BY <1>2 DEF Sized
<1>19. Good(c3) /\ SameDomain(c2, c3) /\ (Exact(c2) => Exact(c3))
  BY <1>7, <1>17, <1>18, GrowSizedKeeps
<1>20. Equipped(c3.buf, c3.sz)
  BY <1>3, <1>7, <1>17, <1>18, GrowSizedKeeps
<1>21. ParkedDoms(c3) = {}
  BY <1>12, <1>16, <1>17, <1>19 DEF SameRecords, SameDomain, ParkedDoms
<1>22. Furnished(ctx) /\ Exact(ctx) /\ Good(ctx)
  BY <1>8, <1>17, <1>19, <1>20, <1>21 DEF Furnished
<1>23. SubmitsComplete /\ Waited(ctx, stuck)
  BY <1>8 DEF SubmitsComplete, NoSub, Waited
<1> QED BY <1>8, <1>22, <1>23 DEF CtxInv, CtxAssumption

LEMMA CtxInvNext == CtxAssumption /\ CtxInv /\ [CtxNext]_ctxVars => CtxInv'
<1> SUFFICES ASSUME CtxAssumption, CtxInv, [CtxNext]_ctxVars PROVE CtxInv'
  OBVIOUS
<1>1. ASSUME NEW F \in FailSets, NEW d \in Dom, NEW n \in Sizes, RunSingle(d, n, F) PROVE CtxInv'
  BY <1>1, RunSingleKeeps
<1>2. ASSUME NEW F \in FailSets, NEW d \in Dom, NEW n \in Sizes, RunExperts(d, n, F) PROVE CtxInv'
  BY <1>2, RunExpertsKeeps
<1>3. ASSUME NEW F \in FailSets, NEW d \in Dom, NEW n \in Sizes, NEW tmo \in {0, I4_TMO, MM_TMO},
             RunStream(d, n, tmo, F)
      PROVE  CtxInv'
  BY <1>3, RunStreamKeeps
<1>4. ASSUME NEW F \in FailSets, NEW d \in Dom, ActivateDomain(d, F) PROVE CtxInv'
  BY <1>4, ActivateDomainKeeps
<1>5. CASE Return
  BY <1>5, ReturnKeeps
<1>6. CASE NpuFree
  BY <1>6, NpuFreeKeeps
<1>7. CASE LiveReap
  BY <1>7, LiveReapKeeps
<1>8. CASE UNCHANGED ctxVars
  BY <1>8 DEF ctxVars, CtxInv, SubmitsComplete
<1> QED BY <1>1, <1>2, <1>3, <1>4, <1>5, <1>6, <1>7, <1>8 DEF CtxNext

LEMMA CtxInvariant == CtxSpec => []CtxInv
BY CtxInvInit, CtxInvNext, CtxAssumption, PTL DEF CtxSpec

-----------------------------------------------------------------------------
(* What is counted is what is there: an injection keeps the number.        *)
LEMMA SameNumber ==
    ASSUME NEW S, NEW T, IsFiniteSet(T), NEW f \in [S -> T],
           \A x, y \in S : f[x] = f[y] => x = y, \A y \in T : \E x \in S : f[x] = y
    PROVE  Cardinality(S) = Cardinality(T)
<1>1. f \in Injection(S, T) /\ f \in Surjection(S, T)
  BY DEF Injection, Surjection, IsInjective
<1> QED BY <1>1, FS_Injection

LEMMA CtxTypes == ASSUME CtxAssumption, CtxInv PROVE CtxTypeOK
<1>1. Good(ctx) /\ ctx \in Contexts /\ SetOf(ctx.buf, ctx.dom_active)
  BY DEF CtxInv, Good
<1>2. Cardinality({b.slot : b \in ctx.buf}) = Cardinality(ctx.buf)
  <2>1. PICK T : T = {b.slot : b \in ctx.buf}
    OBVIOUS
  <2>2. PICK f : f = [b \in ctx.buf |-> b.slot]
    OBVIOUS
  <2>3. T \in SUBSET Scratch
    BY <1>1, <2>1 DEF SetOf, Buffers
  <2>4. IsFiniteSet(T)
    BY <2>3, ScratchFinite, FS_Subset
  <2>5. f \in [ctx.buf -> T] /\ \A y \in T : \E x \in ctx.buf : f[x] = y
    BY <2>1, <2>2
  <2>6. \A x, y \in ctx.buf : f[x] = f[y] => x = y
    BY <1>1, <2>2 DEF SetOf
  <2> QED BY <2>1, <2>4, <2>5, <2>6, SameNumber
<1>3. ctx.dom_active \in Dom /\ ctx.sz \in [Sized -> Sizes \cup {0, 1}]
      /\ ctx.buf \subseteq [slot : Scratch, dom : Dom, size : Sizes \cup {1}]
  BY <1>1 DEF Contexts, SlotSizes, Buffers
<1>4. ctx.dom_dirty_ms \in (IF ctx.dom_dirty THEN {I4_TMO, MM_TMO} ELSE {0})
  BY <1>1 DEF Good
<1>5. drops + 2 * ooms \in 0 .. MaxTrouble
  BY DEF CtxInv, CtxAssumption
<1> QED BY <1>2, <1>3, <1>4, <1>5 DEF CtxTypeOK, CtxInv, StuckJobs

(* The handles of the context, and what they name.                         *)
ScratchOf(d) == IF d = ctx.dom_active THEN ctx.buf ELSE ctx.save[d].buf

LEMMA HandleSets ==
    ASSUME CtxInv
    PROVE  /\ \A x \in Handles : \E d \in Dom :
                 SetOf(ScratchOf(d), d) /\ x[2] \in ScratchOf(d) /\ x = <<d, x[2]>>
           /\ Named = Names(ctx)
<1>1. Good(ctx) /\ ctx.dom_active \in Dom
  BY DEF CtxInv, Good, Contexts
<1>2. ASSUME NEW x \in Handles
      PROVE  \E d \in Dom : SetOf(ScratchOf(d), d) /\ x[2] \in ScratchOf(d) /\ x = <<d, x[2]>>
  <2>1. CASE \E b \in ctx.buf : x = <<ctx.dom_active, b>>
    BY <1>1, <2>1 DEF Good, ScratchOf
  <2>2. CASE \E d \in ParkedDoms(ctx) : \E b \in ctx.save[d].buf : x = <<d, b>>
    <3>0. PICK d \in ParkedDoms(ctx) : \E b \in ctx.save[d].buf : x = <<d, b>>
      BY <2>2
    <3>1. PICK b \in ctx.save[d].buf : x = <<d, b>>
      BY <3>0
    <3>2. d \in Dom /\ d # ctx.dom_active /\ SetOf(ctx.save[d].buf, d)
      BY <1>1, <3>1 DEF ParkedDoms, Good
    <3> QED BY <3>1, <3>2 DEF ScratchOf
  <2> QED BY <2>1, <2>2 DEF Handles
<1>3. ASSUME NEW y \in Named PROVE y \in Names(ctx)
  <2>1. PICK x \in Handles : y = <<x[2].slot, x[2].dom>>
    BY DEF Named
  <2>2. CASE \E b \in ctx.buf : x = <<ctx.dom_active, b>>
    BY <2>1, <2>2 DEF Names, Mappings
  <2>3. CASE \E d \in ParkedDoms(ctx) : \E b \in ctx.save[d].buf : x = <<d, b>>
    BY <2>1, <2>3 DEF Names, Mappings
  <2> QED BY <2>2, <2>3 DEF Handles
<1>4. ASSUME NEW y \in Names(ctx) PROVE y \in Named
  <2>1. CASE \E b \in ctx.buf : y = <<b.slot, b.dom>>
    <3>1. PICK b \in ctx.buf : y = <<b.slot, b.dom>>
      BY <2>1
    <3>2. <<ctx.dom_active, b>> \in Handles
      BY DEF Handles
    <3> QED BY <3>1, <3>2 DEF Named
  <2>2. CASE \E d \in ParkedDoms(ctx) : \E b \in ctx.save[d].buf : y = <<b.slot, b.dom>>
    <3>0. PICK d \in ParkedDoms(ctx) : \E b \in ctx.save[d].buf : y = <<b.slot, b.dom>>
      BY <2>2
    <3>1. PICK b \in ctx.save[d].buf : y = <<b.slot, b.dom>>
      BY <3>0
    <3>2. <<d, b>> \in Handles
      BY <3>1 DEF Handles
    <3> QED BY <3>1, <3>2 DEF Named
  <2> QED BY <2>1, <2>2 DEF Names, Mappings
<1> QED BY <1>2, <1>3, <1>4

-----------------------------------------------------------------------------
(* No handle dangles and no mapping has two, through any switches, growth  *)
(* and failures; without failures what is mapped is what is named, and     *)
(* every set of scratch is mapped in its own domain.                       *)
THEOREM ScratchIsExact == CtxSpec => []ScratchExact
<1>1. CtxInv => ScratchExact
  <2> SUFFICES ASSUME CtxInv PROVE ScratchExact
    OBVIOUS
  <2>1. CtxTypeOK
    BY CtxAssumption, CtxTypes
  <2>2. Good(ctx) /\ ctx \in Contexts /\ Named = Names(ctx)
    BY HandleSets DEF CtxInv, Good
  <2>3. Named \subseteq ctx.live
    BY <2>2 DEF Good
  <2>4. \A x \in Handles : x[2].dom = x[1]
    BY HandleSets DEF SetOf
  <2>5. Cardinality(Named) = Cardinality(Handles)
    <3>1. PICK f : f = [x \in Handles |-> <<x[2].slot, x[2].dom>>]
      OBVIOUS
    <3>2. Named \in SUBSET (Scratch \X Dom)
      BY <2>2, <2>3 DEF Contexts
    <3>3. IsFiniteSet(Named)
      BY <3>2, CtxAssumption, ScratchFinite, FS_Subset
    <3>4. f \in [Handles -> Named] /\ \A y \in Named : \E x \in Handles : f[x] = y
      BY <3>1 DEF Named
    <3>5. ASSUME NEW x \in Handles, NEW y \in Handles, f[x] = f[y] PROVE x = y
      <4>1. x[2].slot = y[2].slot /\ x[2].dom = y[2].dom
        BY <3>1, <3>5
      <4>2. PICK d \in Dom : SetOf(ScratchOf(d), d) /\ x[2] \in ScratchOf(d) /\ x = <<d, x[2]>>
        BY HandleSets
      <4>3. PICK o \in Dom : SetOf(ScratchOf(o), o) /\ y[2] \in ScratchOf(o) /\ y = <<o, y[2]>>
        BY HandleSets
      <4>4. d = o
        BY <4>1, <4>2, <4>3 DEF SetOf
      <4>5. x[2] = y[2]
        BY <4>1, <4>2, <4>3, <4>4 DEF SetOf
      <4> QED BY <4>2, <4>3, <4>4, <4>5
    <3> QED BY <3>3, <3>4, <3>5, SameNumber
  <2>6. ooms = 0 => ctx.lost = 0 /\ ctx.live = Named
    BY <2>2, <2>3 DEF CtxInv, Exact
  <2> QED BY <2>1, <2>3, <2>4, <2>5, <2>6 DEF ScratchExact, NoDangling
<1> QED BY <1>1, CtxInvariant, PTL

(* Every buffer a submit names is there, large enough and mapped in the    *)
(* domain it runs in, in whatever order calls use and leave domains.       *)
THEOREM SubmitsAreComplete == CtxSpec => []SubmitsComplete
<1>1. CtxInv => SubmitsComplete
  BY DEF CtxInv, SubmitsComplete
<1> QED BY <1>1, CtxInvariant, PTL

(* A job that was dropped is reaped before its domain is left, whichever   *)
(* timeouts the rounds dropped before it had.                              *)
THEOREM SwitchesReap == CtxSpec => []SwitchReaped
<1>1. CtxInv => SwitchReaped
  BY DEF CtxInv, SwitchReaped, Waited
<1> QED BY <1>1, CtxInvariant, PTL
=============================================================================
