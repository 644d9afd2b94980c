------------------------ MODULE Submission_proofs ------------------------
(***************************************************************************)
(* Proofs about how work reaches the cores: one matmul divided among them  *)
(* (MultiCore), and a sequence of ops cut into batches (SeqSubmit).        *)
(***************************************************************************)
EXTENDS SeqSubmit, MultiCore, FiniteSetTheorems, SequenceTheorems, WellFoundedInduction, TLAPS

-----------------------------------------------------------------------------
(***************************************************************************)
(* MultiCore: for any number of cores, tiles, K-slices and faults.         *)
(***************************************************************************)

(* The shares of a division.                                               *)

(* Quotients of naturals.                                                  *)
LEMMA Quotient ==
    ASSUME NEW a \in Nat, NEW k \in Nat \ {0}
    PROVE  /\ a \div k \in Nat
           /\ k * (a \div k) <= a /\ a < k * (a \div k) + k
<1>1. a \div k \in Int /\ k * (a \div k) <= a /\ a < k * (a \div k) + k
  OBVIOUS
<1>2. a \div k >= 0
  OBVIOUS
<1> QED BY <1>1, <1>2

(* A quotient is below another when it is so times the divisor.            *)
LEMMA QuotientBelow ==
    ASSUME NEW k \in Nat \ {0}, NEW q \in Int, NEW r \in Int, k * q < k * r + k
    PROVE  q <= r
<1> SUFFICES ASSUME q >= r + 1 PROVE FALSE
  OBVIOUS
<1>1. k * q >= k * (r + 1)
  OBVIOUS
<1>2. k * (r + 1) = k * r + k
  OBVIOUS
<1>3. k * q \in Int /\ k * r \in Int /\ k * (r + 1) \in Int
  OBVIOUS
<1> QED BY <1>1, <1>2, <1>3

(* Division keeps the order, and what is k more has a larger quotient.     *)
LEMMA QuotientOrder ==
    ASSUME NEW k \in Nat \ {0}, NEW a \in Nat, NEW b \in Nat
    PROVE  /\ a <= b => a \div k <= b \div k
           /\ a + k <= b => a \div k < b \div k
<1> DEFINE q == a \div k  r == b \div k
<1>1. q \in Nat /\ k * q <= a /\ a < k * q + k
  BY Quotient
<1>2. r \in Nat /\ k * r <= b /\ b < k * r + k
  BY Quotient
<1>3. k * q \in Int /\ k * r \in Int /\ k * (q + 1) = k * q + k
  BY <1>1, <1>2
<1> HIDE DEF q, r
<1>4. ASSUME a <= b PROVE q <= r
  <2>1. k * q < k * r + k
    BY <1>1, <1>2, <1>3, <1>4
  <2> QED BY <1>1, <1>2, <2>1, QuotientBelow
<1>5. ASSUME a + k <= b PROVE q < r
  <2>1. k * (q + 1) < k * r + k
    BY <1>1, <1>2, <1>3, <1>5
  <2>2. q + 1 <= r
    BY <1>1, <1>2, <2>1, QuotientBelow
  <2> QED BY <1>1, <1>2, <2>2
<1> QED BY <1>4, <1>5 DEF q, r

(* Among naturals there is a least.                                        *)
LEMMA Smallest ==
    ASSUME NEW Set, Set \subseteq Nat, Set # {}
    PROVE  \E x \in Set : \A y \in Set : x <= y
<1>1. PICK x \in Set : \A y \in Set : ~ (<<y, x>> \in OpToRel(<, Nat))
  <2>1. \E x \in Set : \A y \in Set : ~ (<<y, x>> \in OpToRel(<, Nat))
    BY NatLessThanWellFounded, WFMin
  <2> QED BY <2>1
<1>2. ASSUME NEW y \in Set PROVE x <= y
  <2>1. ~ (<<y, x>> \in OpToRel(<, Nat))
    BY <1>1
  <2>2. <<y, x>> \in Nat \X Nat /\ x \in Nat /\ y \in Nat
    OBVIOUS
  <2>3. ~ (y < x)
    BY <2>1, <2>2 DEF OpToRel
  <2> QED BY <2>2, <2>3
<1> QED BY <1>2

(* Where the shares of 0 .. n-1 begin and end.                             *)
LEMMA ShareEnds ==
    ASSUME nc \in Nat \ {0}, NEW n \in Nat
    PROVE  /\ \A i \in Nat : Lo(i, n) \in Nat /\ Hi(i, n) = Lo(i + 1, n)
           /\ \A i, j \in Nat : i <= j => Lo(i, n) <= Lo(j, n)
           /\ \A i \in Nat : nc <= n => Lo(i, n) < Hi(i, n)
           /\ Lo(0, n) = 0 /\ Lo(nc, n) = n
<1>1. \A i \in Nat : i * n \in Nat /\ (i + 1) * n = i * n + n
  OBVIOUS
<1>2. \A i \in Nat : Lo(i, n) \in Nat /\ Hi(i, n) = Lo(i + 1, n)
  BY <1>1, Quotient DEF Lo, Hi
<1>3. ASSUME NEW i \in Nat, NEW j \in Nat, i <= j PROVE Lo(i, n) <= Lo(j, n)
  <2>1. i * n <= j * n
    BY <1>3
  <2> QED BY <1>1, <2>1, QuotientOrder DEF Lo
<1>4. ASSUME NEW i \in Nat, nc <= n PROVE Lo(i, n) < Hi(i, n)
  <2>1. i * n + nc <= (i + 1) * n
    BY <1>1, <1>4
  <2> QED BY <1>1, <2>1, QuotientOrder DEF Lo, Hi
<1>5. Lo(0, n) = 0
  <2>1. 0 * n = 0
    OBVIOUS
  <2>2. nc * Lo(0, n) <= 0 /\ Lo(0, n) \in Nat
    BY <1>2, <2>1, Quotient DEF Lo
  <2> QED BY <2>2
<1>6. Lo(nc, n) = n
  <2> DEFINE q == Lo(nc, n)
  <2>1. q \in Nat /\ nc * q <= nc * n /\ nc * n < nc * q + nc
    BY <1>1, Quotient DEF Lo
  <2> HIDE DEF q
  <2>2. nc * q \in Int /\ nc * n \in Int
    BY <2>1
  <2>3. nc * q < nc * n + nc
    BY <2>1, <2>2
  <2>4. q <= n /\ n <= q
    BY <2>1, <2>3, QuotientBelow
  <2> QED BY <2>1, <2>4 DEF q
<1> QED BY <1>2, <1>3, <1>4, <1>5, <1>6

(* The shares of the cores partition the range, and none is empty when     *)
(* there is something for everybody.                                       *)
LEMMA SharesPartition ==
    ASSUME nc \in Nat \ {0}, NEW n \in Nat
    PROVE  /\ \A i \in Used : Share(i, n) \subseteq 0 .. (n - 1)
           /\ \A t \in 0 .. (n - 1) : \E i \in Used : t \in Share(i, n)
           /\ \A i, j \in Used : i # j => Share(i, n) \cap Share(j, n) = {}
           /\ nc <= n => \A i \in Used : Share(i, n) # {}
<1> USE DEF Used
<1>1. \A i \in Nat : Lo(i, n) \in Nat /\ Hi(i, n) \in Nat /\ Hi(i, n) = Lo(i + 1, n)
  BY ShareEnds
<1>2. \A i, j \in Nat : i <= j => Lo(i, n) <= Lo(j, n)
  BY ShareEnds
<1>3. ASSUME NEW i \in Used PROVE Share(i, n) \subseteq 0 .. (n - 1)
  <2>1. i \in Nat /\ i + 1 \in Nat /\ i + 1 <= nc
    OBVIOUS
  <2>2. Lo(i + 1, n) <= Lo(nc, n) /\ Lo(nc, n) = n
    BY <1>2, <2>1, ShareEnds
  <2> QED BY <1>1, <2>1, <2>2 DEF Share
<1>4. ASSUME NEW t \in 0 .. (n - 1) PROVE \E i \in Used : t \in Share(i, n)
  <2> DEFINE After1 == {i \in Used : t < Hi(i, n)}
  <2>1. nc - 1 \in After1
    <3>1. Hi(nc - 1, n) = Lo(nc, n) /\ Lo(nc, n) = n
      BY <1>1, ShareEnds
    <3> QED BY <3>1
  <2>2. After1 \subseteq Nat /\ After1 # {}
    BY <2>1
  <2>3. PICK i \in After1 : \A j \in After1 : i <= j
    BY <2>2, Smallest
  <2>4. Lo(i, n) <= t
    <3>1. CASE i = 0
      BY <3>1, ShareEnds
    <3>2. CASE i # 0
      <4>1. i - 1 \in Used /\ i - 1 \notin After1
        BY <2>3, <3>2
      <4>2. Hi(i - 1, n) = Lo(i, n) /\ Lo(i, n) \in Nat
        BY <1>1, <2>3, <3>2
      <4> QED BY <4>1, <4>2
    <3> QED BY <3>1, <3>2
  <2>5. i \in Used /\ t < Hi(i, n) /\ Lo(i, n) \in Nat /\ Hi(i, n) \in Nat
    BY <1>1, <2>3
  <2> QED BY <2>4, <2>5 DEF Share
<1>5. ASSUME NEW i \in Used, NEW j \in Used, i < j PROVE Share(i, n) \cap Share(j, n) = {}
  <2>1. Hi(i, n) <= Lo(j, n)
    BY <1>1, <1>2, <1>5
  <2>2. Hi(i, n) \in Nat /\ Lo(j, n) \in Nat /\ Lo(i, n) \in Nat /\ Hi(j, n) \in Nat
    BY <1>1
  <2> QED BY <2>1, <2>2 DEF Share
<1>6. \A i, j \in Used : i # j => Share(i, n) \cap Share(j, n) = {}
  BY <1>5
<1>7. ASSUME nc <= n, NEW i \in Used PROVE Share(i, n) # {}
  <2>1. Lo(i, n) < Hi(i, n) /\ Lo(i, n) \in Nat /\ Hi(i, n) \in Nat
    BY <1>1, <1>7, ShareEnds
  <2>2. Lo(i, n) \in Share(i, n)
    BY <2>1 DEF Share
  <2> QED BY <2>2
<1> QED BY <1>3, <1>4, <1>6, <1>7

-----------------------------------------------------------------------------
(* The inductive invariant.                                                *)

(* What BeginColsplit or BeginStream may count on.                         *)
CallValid ==
    /\ kind \in Kinds /\ nc = Least(Cores, nn)
    /\ rpc \in {"workers", "end"} => ~Stream
    /\ rpc = "poll" => Stream
    /\ rpc = "sc" => F16 /\ ~Stream

(* The cores that take part in a split matmul, and what they are doing.    *)
Workers ==
    \A i \in Core :
        /\ rpc = "workers" => (wpc[i] # "idle" <=> i \in Used)
        /\ rpc # "workers" => wpc[i] \in {"idle", "done"}
        /\ rpc \in {"begin", "poll"} => wpc[i] = "idle"
        /\ rpc = "begin" => wks[i] = 0
        /\ rpc = "end" /\ i \in Used => wpc[i] = "done"

(* A job is a list of programs still to land, of its core's entries only;  *)
(* a worker has one only while it waits for it.                            *)
Jobs ==
    \A i \in Core :
        /\ job[i] = "none" <=> todo[i] = {}
        /\ todo[i] # {} => i \in Used /\ todo[i] \subseteq EntriesOf(i) \X Slice
        /\ ~Stream /\ job[i] # "none" => wpc[i] = "wait"
        /\ rpc = "begin" => job[i] = "none"
        /\ \A p \in todo[i] : Stream => out[p] # "new"

(* The K-slices a worker is through with, and those of the others.         *)
Through(i, k) ==
    \/ wpc[i] \in {"acc", "done"}
    \/ k < wks[i]
    \/ k = wks[i] /\ wpc[i] = "bar"
SlicesDone ==
    \A i \in Used : wpc[i] \in {"acc", "done"} /\ Sliced => wks[i] = sk - 1
Together ==
    Sliced /\ rpc = "workers" =>
        \A i, j \in Used : wks[i] = wks[j] /\ (wpc[i] \in {"acc", "done"} <=> wpc[j] \in {"acc", "done"})

(* What a worker was through with has landed, unless the call knows that   *)
(* something failed.                                                       *)
Trusted == F16 /\ ~mc_error /\ ~Stream
LandedSoFar ==
    \A i \in Used :
        /\ wpc[i] = "wait" => \A p \in Programs(i) : p \in todo[i] \/ out[p] = "new"
        /\ Trusted => \A k \in Slice : rpc \in {"workers", "end"} /\ wpc[i] # "idle" /\ Through(i, k)
                                         => out[<<i, k>>] = "new"

(* What has been written to the caller's tiles.                            *)
Written ==
    /\ rpc = "workers" => dst = IF sk > 1 THEN {i \in Used : wpc[i] # "done"} ELSE Entries
    /\ rpc = "end" => dst = IF sk > 1 THEN {} ELSE Entries
    /\ rpc = "poll" => dst = Entries
    /\ rpc \in {"workers", "end"} /\ Trusted /\ sk > 1 =>
         \A i \in Used : wpc[i] = "done" => \A t \in TilesOf(i) : C[t] = "good"
    /\ rpc = "judge" /\ (Trusted \/ (Stream /\ last = S - 1)) => \A t \in Tile : C[t] = "good"
    /\ rpc = "ret" /\ result = 0 /\ kind # "i8" => \A t \in Tile : C[t] = "good"

(* A round that was dropped has marked its domain.                         *)
Marked ==
    /\ recov > 0 => dom_dirty
    /\ rpc \in {"judge", "ret"} /\ kind = "i8stream" /\ RECOV_MAX > 0 =>
         dom_dirty \/ \A i \in Core : job[i] = "none"

McInv == /\ McTypeOK /\ CallValid /\ Workers /\ Jobs /\ SlicesDone /\ Together
         /\ LandedSoFar /\ Written /\ Marked
-----------------------------------------------------------------------------
(* What a call fixes: how its work is divided.                             *)
LEMMA Division ==
    ASSUME McTypeOK, CallValid
    PROVE  /\ nc \in Nat \ {0} /\ nn \in Nat \ {0} /\ sk \in Nat \ {0} /\ S \in Nat \ {0}
           /\ nc <= nn /\ nc <= Cores /\ Used \subseteq Core
           /\ \A i \in Used : EntriesOf(i) \subseteq Entries
           /\ \A i, j \in Used : i # j => EntriesOf(i) \cap EntriesOf(j) = {}
           /\ \A t \in Tile : \E e \in Entries : t \in TilesOf(e)
           /\ Sliced /\ nc > 1 => csub_barrier
<1> USE McAssumption
<1>1. nc \in Nat \ {0} /\ nn \in Nat \ {0} /\ sk \in Nat \ {0} /\ nc <= nn /\ nc <= Cores
  BY DEF McTypeOK, CallValid, Least
<1>2. S \in Nat \ {0} /\ Used \subseteq Core
  BY <1>1 DEF S, Used, Core
<1>3. \A i \in Used : EntriesOf(i) \subseteq Entries
  <2>1. ~Stream => S = nc
    BY DEF S
  <2> QED BY <1>1, <1>2, <2>1, SharesPartition DEF EntriesOf, Entries, Used
<1>4. \A i, j \in Used : i # j => EntriesOf(i) \cap EntriesOf(j) = {}
  BY <1>1, <1>2, SharesPartition DEF EntriesOf
<1>5. ASSUME NEW t \in Tile PROVE \E e \in Entries : t \in TilesOf(e)
  <2>1. CASE Stream
    BY <2>1 DEF TilesOf, Entries, S, Tile
  <2>2. CASE ~Stream
    BY <1>1, <2>2, SharesPartition DEF TilesOf, Entries, S, Tile, Used
  <2> QED BY <2>1, <2>2
<1>6. Sliced /\ nc > 1 => csub_barrier
  BY <1>1, SharesPartition DEF csub_barrier
<1> QED BY <1>1, <1>2, <1>3, <1>4, <1>5, <1>6

(* No step changes the call.                                               *)
LEMMA SameCall ==
    ASSUME UNCHANGED callVars
    PROVE  /\ kind' = kind /\ nn' = nn /\ nc' = nc /\ sk' = sk
           /\ F16' = F16 /\ Stream' = Stream /\ Sliced' = Sliced /\ S' = S
           /\ Used' = Used /\ Entries' = Entries /\ Tile' = Tile /\ Slice' = Slice
           /\ \A e : TilesOf(e)' = TilesOf(e) /\ EntriesOf(e)' = EntriesOf(e)
BY DEF callVars, F16, Stream, Sliced, S, Used, Entries, Tile, Slice, TilesOf, EntriesOf,
       Share, Lo, Hi

(* The programs of a core are of its own entries.                          *)
LEMMA OwnPrograms ==
    ASSUME McTypeOK, CallValid, NEW i \in Used
    PROVE  Programs(i) \subseteq EntriesOf(i) \X Slice /\ Programs(i) \subseteq Entries \X Slice
<1>1. i \in Core /\ EntriesOf(i) \subseteq Entries
  BY Division
<1>2. wks[i] \in Slice
  BY <1>1 DEF McTypeOK
<1> QED BY <1>1, <1>2 DEF Programs

(* A call begins with nothing running, nothing written and no claim made.  *)
LEMMA McInvInit == McInit => McInv
<1> SUFFICES ASSUME McInit PROVE McInv
  OBVIOUS
<1> USE McAssumption
<1>1. nc \in 1 .. Cores /\ nn \in Nat \ {0} /\ sk \in Nat \ {0}
  BY DEF McInit, Least
<1>2. McTypeOK
  <2>1. 0 \in Slice /\ S \in Nat \ {0}
    BY <1>1 DEF Slice, S
  <2>2. last \in -1 .. (S - 1) /\ recov \in 0 .. RECOV_MAX /\ faults \in 0 .. MaxFaults
    BY <2>1 DEF McInit
  <2>3. /\ kind \in AllKinds /\ nn \in Widths /\ nc \in 1 .. Cores /\ sk \in Slices
        /\ C \in [Tile -> {"old", "good", "bad"}] /\ dst \subseteq Entries
        /\ mc_error \in BOOLEAN /\ dom_dirty \in BOOLEAN /\ result \in {-1, 0, 1}
        /\ rpc \in {"begin", "workers", "end", "poll", "judge", "sc", "ret"}
    BY <1>1 DEF McInit
  <2>4. /\ wpc \in [Core -> {"idle", "sub", "wait", "bar", "acc", "done"}] /\ wks \in [Core -> Slice]
        /\ job \in [Core -> {"none", "run", "stuck"}] /\ todo \in [Core -> SUBSET (Entries \X Slice)]
        /\ out \in [Entries \X Slice -> {"old", "sent", "new"}]
    BY <2>1 DEF McInit
  <2> QED BY <2>2, <2>3, <2>4 DEF McTypeOK
<1>3. CallValid /\ Workers /\ Jobs
  BY DEF McInit, CallValid, Workers, Jobs
<1>4. SlicesDone /\ Together /\ LandedSoFar /\ Written /\ Marked
  <2>1. Used \subseteq Core
    BY <1>1 DEF Used, Core
  <2> QED BY <2>1 DEF McInit, SlicesDone, Together, LandedSoFar, Written, Marked
<1> QED BY <1>2, <1>3, <1>4 DEF McInv

-----------------------------------------------------------------------------
(* The steps.                                                              *)

LEMMA SamePrograms ==
    ASSUME UNCHANGED callVars
    PROVE  /\ UNCHANGED wks => \A i : Programs(i)' = Programs(i)
           /\ \A i : wks'[i] = wks[i] => Programs(i)' = Programs(i)
BY SameCall DEF Programs

(* Of the programs still to land there is a first one.                     *)
LEMMA NextProgram ==
    ASSUME NEW P, P \subseteq Nat \X Nat, P # {}
    PROVE  \E x \in P : \A y \in P \ {x} : Before(x, y)
<1> DEFINE E1 == {p[1] : p \in P}
<1>1. E1 \subseteq Nat /\ E1 # {}
  OBVIOUS
<1>2. PICK m \in E1 : \A y \in E1 : m <= y
  BY <1>1, Smallest
<1> DEFINE K1 == {p[2] : p \in {q \in P : q[1] = m}}
<1>3. K1 \subseteq Nat /\ K1 # {}
  BY <1>2
<1>4. PICK k \in K1 : \A y \in K1 : k <= y
  BY <1>3, Smallest
<1>5. PICK x \in P : x[1] = m /\ x[2] = k
  BY <1>4
<1>6. ASSUME NEW y \in P \ {x} PROVE Before(x, y)
  <2>1. x = <<x[1], x[2]>> /\ y = <<y[1], y[2]>> /\ y[1] \in Nat /\ y[2] \in Nat
    OBVIOUS
  <2>2. m <= y[1] /\ m \in Nat /\ k \in Nat
    BY <1>1, <1>2, <1>3, <1>4
  <2>3. CASE y[1] = m
    <3>1. k <= y[2]
      BY <1>4, <2>3
    <3>2. y[2] # k
      BY <1>5, <2>1, <2>3
    <3> QED BY <1>5, <2>1, <2>2, <2>3, <3>1, <3>2 DEF Before
  <2>4. CASE y[1] # m
    BY <1>5, <2>1, <2>2, <2>4 DEF Before
  <2> QED BY <2>3, <2>4
<1> QED BY <1>5, <1>6

(* A worker at work belongs to a split matmul.                             *)
LEMMA AtWork ==
    ASSUME McInv, NEW i \in Core, wpc[i] \notin {"idle", "done"}
    PROVE  /\ rpc = "workers" /\ i \in Used /\ ~Stream /\ EntriesOf(i) = {i}
           /\ Programs(i) = IF Sliced THEN {<<i, wks[i]>>} ELSE {i} \X Slice
           /\ wks[i] \in Slice
<1>1. rpc = "workers" /\ i \in Used /\ wks[i] \in Slice
  BY DEF McInv, Workers, McTypeOK
<1>2. ~Stream
  BY <1>1 DEF McInv, CallValid
<1> QED BY <1>1, <1>2 DEF EntriesOf, Programs

(* What follows where no worker is at work: most of the invariant.         *)
LEMMA NobodyWaits ==
    ASSUME Workers', Used' \subseteq Core', rpc' \notin {"workers", "end"}
    PROVE  LandedSoFar' /\ Together'
BY DEF Workers, LandedSoFar, Together

(* A submit on all cores of a stream.                                      *)
LEMMA StreamSubmitted ==
    ASSUME McTypeOK, CallValid, Stream, NEW R \in SUBSET Used, NEW heal \in BOOLEAN,
           SubmitAll(R, heal)
    PROVE  /\ faults' \in 0 .. MaxFaults
           /\ todo' \in [Core -> SUBSET (Entries \X Slice)]
           /\ job' \in [Core -> {"none", "run", "stuck"}]
           /\ out' = [p \in Entries \X Slice |-> "sent"]
           /\ \A i \in Core : /\ job'[i] = "none" <=> todo'[i] = {}
                              /\ todo'[i] # {} => i \in Used /\ todo'[i] \subseteq EntriesOf(i) \X Slice
<1>1. \A i \in Used : Programs(i) \subseteq EntriesOf(i) \X Slice /\ Programs(i) \subseteq Entries \X Slice
  BY OwnPrograms
<1>2. Cardinality(R) \in Nat
  <2>1. IsFiniteSet(Used)
    BY FS_Interval DEF Used, McTypeOK
  <2> QED BY <2>1, FS_Subset, FS_CardinalityType
<1>3. faults' \in 0 .. MaxFaults
  BY <1>2, McAssumption DEF SubmitAll, McTypeOK
<1>4. todo' = [i \in Core |-> IF i \in Used \ R THEN Programs(i) ELSE {}]
  BY DEF SubmitAll
<1>5. job' = [i \in Core |->
                 IF i \notin Used \ R \/ Programs(i) = {} THEN "none"
                 ELSE IF heal /\ \E r \in R : r > i THEN "stuck" ELSE "run"]
  BY DEF SubmitAll
<1>6. ASSUME NEW i \in Core
      PROVE  /\ job'[i] = "none" <=> todo'[i] = {}
             /\ todo'[i] # {} => i \in Used /\ todo'[i] \subseteq EntriesOf(i) \X Slice
  BY <1>1, <1>4, <1>5
<1> QED BY <1>1, <1>3, <1>4, <1>5, <1>6 DEF SubmitAll

-----------------------------------------------------------------------------
(* begin                                                                   *)

(* No legal tiling, or no memory.                                          *)
LEMMA McBeginFails ==
    ASSUME McInv, BeginFails
    PROVE  McInv'
<1> USE McAssumption DEF McInv, BeginFails
<1>0. UNCHANGED callVars
  OBVIOUS
<1>1. McTypeOK' /\ CallValid' /\ Workers' /\ Jobs'
  BY <1>0, SameCall, Division DEF McTypeOK, CallValid, Workers, Jobs, F16, Stream
<1>2. SlicesDone' /\ Written'
  BY <1>0, SameCall, Division DEF SlicesDone, Written, Workers
<1>3. LandedSoFar' /\ Together'
  BY <1>0, <1>1, SameCall, Division, NobodyWaits
<1>4. Marked'
  BY <1>0, SameCall DEF Marked, Jobs
<1> QED BY <1>1, <1>2, <1>3, <1>4

(* The workers of a split matmul start from their first slice.             *)
LEMMA McBeginColsplit ==
    ASSUME McInv, BeginColsplit
    PROVE  McInv'
<1> USE McAssumption DEF McInv, BeginColsplit
<1>0. UNCHANGED callVars /\ UNCHANGED wks
  OBVIOUS
<1>1. \A i \in Core : wpc'[i] = IF i \in Used THEN "sub" ELSE "idle"
  OBVIOUS
<1>2. McTypeOK' /\ CallValid' /\ Workers' /\ Jobs'
  BY <1>0, SameCall, Division DEF McTypeOK, CallValid, Workers, Jobs
<1>3. SlicesDone' /\ Written' /\ Marked'
  BY <1>0, <1>1, SameCall, Division DEF SlicesDone, Written, Marked, S, Entries, Used
<1>4. \A i \in Used : wks[i] = 0
  BY Division DEF Workers
<1>5. Together' /\ LandedSoFar'
  BY <1>0, <1>1, <1>4, SameCall, Division DEF Together, LandedSoFar, Through, McTypeOK, Slice
<1> QED BY <1>2, <1>3, <1>5

(* A stream's first round.                                                 *)
LEMMA McBeginStream ==
    ASSUME McInv, NEW R \in SUBSET Used, NEW heal \in BOOLEAN, BeginStream(R, heal)
    PROVE  McInv'
<1> USE DEF McInv, BeginStream
<1>0. UNCHANGED callVars
  OBVIOUS
<1>1. /\ faults' \in 0 .. MaxFaults
      /\ todo' \in [Core -> SUBSET (Entries \X Slice)]
      /\ job' \in [Core -> {"none", "run", "stuck"}]
      /\ out' = [p \in Entries \X Slice |-> "sent"]
      /\ \A i \in Core : /\ job'[i] = "none" <=> todo'[i] = {}
                         /\ todo'[i] # {} => i \in Used /\ todo'[i] \subseteq EntriesOf(i) \X Slice
  BY StreamSubmitted
<1>2. McTypeOK' /\ CallValid' /\ Workers'
  BY <1>0, <1>1, SameCall, Division DEF McTypeOK, CallValid, Workers
<1>3. Jobs'
  BY <1>0, <1>1, SameCall, Division DEF Jobs, McTypeOK
<1>4. SlicesDone' /\ Written' /\ Marked'
  BY <1>0, SameCall, Division DEF SlicesDone, Written, Marked, Workers
<1>5. LandedSoFar' /\ Together'
  BY <1>0, <1>2, SameCall, Division, NobodyWaits
<1> QED BY <1>2, <1>3, <1>4, <1>5

-----------------------------------------------------------------------------
(* The NPU                                                                 *)

LEMMA McLand ==
    ASSUME McInv, NEW i \in Core, Land(i)
    PROVE  McInv'
<1> USE DEF McInv
<1>0. UNCHANGED callVars /\ UNCHANGED <<rpc, wpc, wks, C, dst, mc_error, dom_dirty, recov, last, result>>
  BY DEF Land
<1>1. todo[i] # {} /\ i \in Used /\ todo[i] \subseteq EntriesOf(i) \X Slice /\ todo[i] \subseteq Entries \X Slice
  BY DEF Jobs, Land, McTypeOK
<1>2. PICK p \in todo[i] : /\ out' = [out EXCEPT ![p] = "new"]
                           /\ todo' = [todo EXCEPT ![i] = @ \ {p}]
                           /\ job' = [job EXCEPT ![i] = IF todo[i] = {p} THEN "none" ELSE "run"]
  <2>1. todo[i] \subseteq Nat \X Nat
    BY <1>1, Division DEF Entries, Slice
  <2>2. \E x \in todo[i] : \A y \in todo[i] \ {x} : Before(x, y)
    BY <1>1, <2>1, NextProgram
  <2> QED BY <2>2 DEF Land
<1>3. p \in Entries \X Slice
  BY <1>1, <1>2
<1>4. McTypeOK' /\ CallValid' /\ Workers'
  BY <1>0, <1>2, <1>3, SameCall DEF McTypeOK, CallValid, Workers, Land
<1>5. \A q \in Entries \X Slice : out'[q] = IF q = p THEN "new" ELSE out[q]
  BY <1>2, <1>3 DEF McTypeOK
<1>6. \A j \in Core : /\ todo'[j] = IF j = i THEN todo[i] \ {p} ELSE todo[j]
                      /\ job'[j] = IF j # i THEN job[j] ELSE IF todo[i] = {p} THEN "none" ELSE "run"
  BY <1>2 DEF McTypeOK
<1>7. ASSUME NEW j \in Core, j # i PROVE p \notin todo[j]
  <2>1. CASE j \in Used
    <3>1. EntriesOf(i) \cap EntriesOf(j) = {}
      BY <1>1, <1>7, <2>1, Division
    <3> QED BY <1>1, <1>2, <3>1 DEF Jobs
  <2>2. CASE j \notin Used
    BY <2>2 DEF Jobs
  <2> QED BY <2>1, <2>2
<1>8. Jobs'
  <2>1. ASSUME NEW j \in Core
        PROVE  /\ job'[j] = "none" <=> todo'[j] = {}
               /\ todo'[j] # {} => j \in Used /\ todo'[j] \subseteq EntriesOf(j) \X Slice
               /\ ~Stream /\ job'[j] # "none" => wpc[j] = "wait"
               /\ rpc = "begin" => job'[j] = "none"
    <3>1. CASE j = i
      <4>1. job[i] = "run" /\ (todo[i] = {p} <=> todo[i] \ {p} = {})
        BY <1>2 DEF Land
      <4> QED BY <1>1, <1>6, <3>1, <4>1 DEF Jobs
    <3>2. CASE j # i
      BY <1>6, <3>2 DEF Jobs
    <3> QED BY <3>1, <3>2
  <2>2. ASSUME NEW j \in Core, NEW q \in todo'[j], Stream PROVE out'[q] # "new"
    <3>1. q \in todo[j] /\ q # p /\ q \in Entries \X Slice
      BY <1>6, <1>7, <2>2 DEF McTypeOK
    <3> QED BY <1>5, <2>2, <3>1 DEF Jobs
  <2> QED BY <1>0, <2>1, <2>2, SameCall DEF Jobs
<1>9. SlicesDone' /\ Together'
  BY <1>0, SameCall DEF SlicesDone, Together
<1>10. LandedSoFar'
  <2>1. ASSUME NEW j \in Used, wpc[j] = "wait", NEW q \in Programs(j)
        PROVE  q \in todo'[j] \/ out'[q] = "new"
    BY <1>5, <1>6, <2>1, Division, OwnPrograms DEF LandedSoFar
  <2>2. ASSUME NEW j \in Used, Trusted, NEW k \in Slice, rpc \in {"workers", "end"},
               wpc[j] # "idle", Through(j, k)
        PROVE  out'[<<j, k>>] = "new"
    <3>1. out[<<j, k>>] = "new"
      BY <2>2 DEF LandedSoFar
    <3>2. Entries = Used
      BY <2>2 DEF Trusted, Entries, Used, S
    <3> QED BY <1>5, <3>1, <3>2
  <2> QED BY <1>0, <2>1, <2>2, SameCall, SamePrograms DEF LandedSoFar, Trusted, Through
<1>11. Written' /\ Marked'
  <2>1. Written'
    BY <1>0, SameCall DEF Written, Trusted
  <2>2. Marked'
    BY <1>0, <1>6, SameCall DEF Marked, Land
  <2> QED BY <2>1, <2>2
<1> QED BY <1>4, <1>8, <1>9, <1>10, <1>11

LEMMA McStall ==
    ASSUME McInv, NEW i \in Core, Stall(i)
    PROVE  McInv'
<1> USE McAssumption DEF McInv, Stall
<1>0. /\ UNCHANGED callVars
      /\ UNCHANGED <<rpc, wpc, wks, todo, out, C, dst, mc_error, dom_dirty, recov, last, result>>
  OBVIOUS
<1>1. McTypeOK' /\ CallValid' /\ Workers' /\ Jobs'
  BY <1>0, SameCall DEF McTypeOK, CallValid, Workers, Jobs
<1>2. SlicesDone' /\ Together' /\ Marked'
  BY <1>0, SameCall DEF SlicesDone, Together, Marked, McTypeOK
<1>3. LandedSoFar'
  BY <1>0, SameCall, SamePrograms DEF LandedSoFar, Trusted, Through
<1>4. Written'
  BY <1>0, SameCall DEF Written, Trusted
<1> QED BY <1>1, <1>2, <1>3, <1>4

-----------------------------------------------------------------------------
(* The workers                                                             *)

LEMMA McWorkerSubmit ==
    ASSUME McInv, NEW i \in Core, WorkerSubmit(i)
    PROVE  McInv'
<1> USE DEF McInv
<1>0. UNCHANGED callVars /\ UNCHANGED <<rpc, wks, out, C, dst, mc_error, dom_dirty, recov, last, result, faults>>
  BY DEF WorkerSubmit
<1>1. rpc = "workers" /\ i \in Used /\ ~Stream /\ Programs(i) # {} /\ wpc[i] = "sub"
  <2>1. 0 \in Slice
    BY Division DEF Slice
  <2>2. wpc[i] = "sub" /\ wpc[i] \notin {"idle", "done"}
    BY DEF WorkerSubmit
  <2>3. /\ rpc = "workers" /\ i \in Used /\ ~Stream
        /\ Programs(i) = IF Sliced THEN {<<i, wks[i]>>} ELSE {i} \X Slice
    BY <2>2, AtWork
  <2>4. <<i, 0>> \in {i} \X Slice
    BY <2>1
  <2> QED BY <2>2, <2>3, <2>4
<1>2. Programs(i) \subseteq EntriesOf(i) \X Slice /\ Programs(i) \subseteq Entries \X Slice
  BY <1>1, OwnPrograms
<1>3. \A j \in Core : /\ wpc'[j] = IF j = i THEN "wait" ELSE wpc[j]
                      /\ job'[j] = IF j = i THEN "run" ELSE job[j]
                      /\ todo'[j] = IF j = i THEN Programs(i) ELSE todo[j]
  BY DEF WorkerSubmit, McTypeOK
<1>4. McTypeOK'
  BY <1>0, <1>2, SameCall DEF McTypeOK, WorkerSubmit
<1>5. CallValid' /\ Workers'
  BY <1>0, <1>1, <1>3, SameCall DEF CallValid, Workers
<1>6. Jobs'
  BY <1>0, <1>1, <1>2, <1>3, SameCall DEF Jobs
<1>7. SlicesDone' /\ Together'
  BY <1>0, <1>1, <1>3, SameCall, Division DEF SlicesDone, Together
<1>8. LandedSoFar'
  BY <1>0, <1>1, <1>3, SameCall, SamePrograms, Division DEF LandedSoFar, Trusted, Through
<1>9. Written' /\ Marked'
  <2>1. sk > 1 => dst = {j \in Used : wpc'[j] # "done"}
    BY <1>1, <1>3, Division DEF Written
  <2>2. Written'
    BY <1>0, <1>1, <1>3, <2>1, SameCall, Division DEF Written, Trusted
  <2>3. Marked'
    BY <1>0, <1>1 DEF Marked
  <2> QED BY <2>2, <2>3
<1> QED BY <1>4, <1>5, <1>6, <1>7, <1>8, <1>9

(* A worker after its submit, which landed or failed: it has no job, the   *)
(* others keep theirs but for a reset.                                     *)
LEMMA McSubmitted ==
    ASSUME McInv, NEW i \in Core, NEW failed \in BOOLEAN,
           wpc[i] \in {"sub", "wait"}, Submitted(i, failed),
           job' \in [Core -> {"none", "run", "stuck"}],
           job'[i] = "none", todo' = [todo EXCEPT ![i] = {}],
           \A j \in Core \ {i} : job'[j] = "none" <=> job[j] = "none",
           faults' \in 0 .. MaxFaults,
           failed \/ \A p \in Programs(i) : out[p] = "new"
    PROVE  McInv'
<1> USE DEF McInv
<1>0. UNCHANGED callVars /\ UNCHANGED <<rpc, out, C, dst, dom_dirty, recov, last, result>>
  BY DEF Submitted
<1>1. /\ rpc = "workers" /\ i \in Used /\ ~Stream /\ wks[i] \in Slice
      /\ Programs(i) = IF Sliced THEN {<<i, wks[i]>>} ELSE {i} \X Slice
  BY AtWork
<1>2. /\ nc \in Nat \ {0} /\ sk \in Nat \ {0} /\ Used \subseteq Core
      /\ Sliced /\ nc > 1 => csub_barrier
  BY Division
<1> DEFINE a == After(i, failed)
<1>3. \A j \in Core : wpc'[j] = IF j = i THEN a ELSE wpc[j]
  BY DEF Submitted, McTypeOK
<1>4. /\ a \in {"acc", "bar", "sub"}
      /\ a = "bar" => Sliced
      /\ a = "sub" => Sliced /\ nc = 1 /\ wks[i] + 1 \in Slice
      /\ a = "acc" /\ Sliced => nc = 1 /\ wks[i] = sk - 1
  BY <1>1, <1>2 DEF After, NextSlice, Slice
<1>5. \A j \in Core : wks'[j] = IF j = i /\ a = "sub" THEN wks[i] + 1 ELSE wks[j]
  BY <1>4 DEF Submitted, McTypeOK
<1>6. mc_error' \in BOOLEAN /\ (~mc_error' => ~mc_error /\ ~(failed /\ F16))
  BY DEF Submitted, Flag, McTypeOK, F16
<1>7. /\ wpc' = [wpc EXCEPT ![i] = a]
      /\ wks' = IF Sliced /\ a = "sub" THEN [wks EXCEPT ![i] = @ + 1] ELSE wks
  BY DEF Submitted
<1> HIDE DEF a
<1>8. McTypeOK'
  <2>1. wpc' \in [Core -> {"idle", "sub", "wait", "bar", "acc", "done"}] /\ wks' \in [Core -> Slice]
    BY <1>4, <1>7 DEF McTypeOK
  <2>2. todo' \in [Core -> SUBSET (Entries \X Slice)]
    BY DEF McTypeOK
  <2> QED BY <1>0, <1>6, <2>1, <2>2, SameCall DEF McTypeOK
<1>9. CallValid' /\ Workers'
  BY <1>0, <1>1, <1>3, <1>4, SameCall DEF CallValid, Workers
<1>10. Jobs'
  <2>1. \A j \in Core : todo'[j] = IF j = i THEN {} ELSE todo[j]
    BY DEF McTypeOK
  <2> QED BY <1>0, <1>1, <1>3, <2>1, SameCall DEF Jobs
<1>11. SlicesDone'
  BY <1>0, <1>2, <1>3, <1>4, <1>5, SameCall DEF SlicesDone
<1>12. Together'
  <2>1. CASE nc = 1
    <3>1. \A j, k \in Used : j = k
      BY <2>1 DEF Used
    <3> QED BY <1>0, <3>1, SameCall DEF Together
  <2>2. CASE nc # 1
    <3> SUFFICES ASSUME Sliced, NEW j \in Used, NEW k \in Used
                 PROVE  /\ wks'[j] = wks'[k]
                        /\ wpc'[j] \in {"acc", "done"} <=> wpc'[k] \in {"acc", "done"}
      BY <1>0, SameCall DEF Together
    <3>1. a = "bar"
      BY <1>4, <2>2
    <3>2. \A x \in Used : wks'[x] = wks[x] /\ wks[x] = wks[i]
      BY <1>1, <1>2, <1>5, <3>1 DEF Together
    <3>3. \A x \in Used : wpc'[x] \notin {"acc", "done"}
      BY <1>1, <1>2, <1>3, <3>1 DEF Together
    <3> QED BY <3>2, <3>3
  <2> QED BY <2>1, <2>2
<1>13. LandedSoFar'
  <2>1. ASSUME NEW j \in Used, wpc'[j] = "wait", NEW q \in Programs(j)'
        PROVE  q \in todo'[j] \/ out'[q] = "new"
    <3>1. j # i /\ j \in Core /\ wpc[j] = "wait" /\ wks'[j] = wks[j] /\ todo'[j] = todo[j]
      BY <1>2, <1>3, <1>4, <1>5, <2>1 DEF McTypeOK
    <3>2. q \in Programs(j)
      BY <1>0, <2>1, <3>1, SamePrograms
    <3> QED BY <1>0, <3>1, <3>2 DEF LandedSoFar
  <2>2. ASSUME NEW j \in Used, Trusted', NEW k \in Slice, wpc'[j] # "idle", Through(j, k)'
        PROVE  out[<<j, k>>] = "new"
    <3>1. Trusted /\ ~failed
      <4>1. F16' /\ ~mc_error' /\ ~Stream'
        BY <2>2 DEF Trusted
      <4>2. F16 /\ ~Stream
        BY <1>0, <4>1 DEF F16, Stream, callVars
      <4> QED BY <1>6, <4>1, <4>2 DEF Trusted
    <3>2. CASE j # i
      BY <1>1, <1>2, <1>3, <1>5, <2>2, <3>1, <3>2 DEF Through, LandedSoFar
    <3>3. CASE j = i /\ Through(i, k)
      BY <1>1, <3>1, <3>3 DEF LandedSoFar
    <3>4. CASE j = i /\ ~Through(i, k)
      <4>1. ~Sliced \/ k = wks[i]
        BY <1>1, <1>2, <1>3, <1>4, <1>5, <2>2, <3>4 DEF Through, Slice
      <4>2. <<i, k>> \in Programs(i)
        BY <1>1, <4>1
      <4> QED BY <3>1, <3>4, <4>2
    <3> QED BY <3>2, <3>3, <3>4
  <2> QED BY <1>0, <2>1, <2>2, SameCall DEF LandedSoFar
<1>14. Written' /\ Marked'
  <2>1. {j \in Used : wpc'[j] # "done"} = {j \in Used : wpc[j] # "done"}
    BY <1>2, <1>3, <1>4
  <2>2. \A j \in Used : wpc'[j] = "done" => wpc[j] = "done"
    BY <1>2, <1>3, <1>4
  <2>3. Trusted' => Trusted
    BY <1>0, <1>6, SameCall DEF Trusted
  <2>4. Written'
    BY <1>0, <1>1, <2>1, <2>2, <2>3, SameCall DEF Written
  <2>5. Marked'
    BY <1>0, <1>1 DEF Marked
  <2> QED BY <2>4, <2>5
<1> QED BY <1>8, <1>9, <1>10, <1>11, <1>12, <1>13, <1>14

LEMMA McWorkerReject ==
    ASSUME McInv, NEW i \in Core, NEW heal \in BOOLEAN, WorkerReject(i, heal)
    PROVE  McInv'
<1>1. job[i] = "none" /\ todo[i] = {}
  <2>1. ~Stream
    BY AtWork DEF WorkerReject
  <2> QED BY <2>1 DEF McInv, Jobs, WorkerReject
<1>2. job' \in [Core -> {"none", "run", "stuck"}] /\ \A j \in Core : job'[j] = "none" <=> job[j] = "none"
  BY DEF WorkerReject, Reset, McInv, McTypeOK
<1>3. todo' = [todo EXCEPT ![i] = {}]
  BY <1>1 DEF WorkerReject, McInv, McTypeOK
<1>4. faults' \in 0 .. MaxFaults
  BY McAssumption DEF WorkerReject, McInv, McTypeOK
<1>5. wpc[i] = "sub" /\ Submitted(i, TRUE)
  BY DEF WorkerReject
<1> QED BY <1>1, <1>2, <1>3, <1>4, <1>5, McSubmitted

LEMMA McWorkerDone ==
    ASSUME McInv, NEW i \in Core, WorkerDone(i)
    PROVE  McInv'
<1>1. todo[i] = {} /\ i \in Used
  BY AtWork DEF McInv, Jobs, WorkerDone
<1>2. \A p \in Programs(i) : out[p] = "new"
  BY <1>1 DEF McInv, LandedSoFar, WorkerDone
<1>3. todo' = [todo EXCEPT ![i] = {}]
  BY <1>1 DEF WorkerDone, McInv, McTypeOK
<1>4. /\ job' \in [Core -> {"none", "run", "stuck"}] /\ job'[i] = "none" /\ UNCHANGED job
      /\ faults' \in 0 .. MaxFaults
  BY DEF WorkerDone, McInv, McTypeOK
<1>5. wpc[i] = "wait" /\ Submitted(i, FALSE)
  BY DEF WorkerDone
<1> QED BY <1>2, <1>3, <1>4, <1>5, McSubmitted

LEMMA McWorkerTimeout ==
    ASSUME McInv, NEW i \in Core, WorkerTimeout(i)
    PROVE  McInv'
<1>1. /\ job' \in [Core -> {"none", "run", "stuck"}] /\ job'[i] = "none"
      /\ \A j \in Core \ {i} : job'[j] = "none" <=> job[j] = "none"
  BY DEF WorkerTimeout, Reset, McInv, McTypeOK
<1>2. faults' \in 0 .. MaxFaults
  BY DEF WorkerTimeout, McInv, McTypeOK
<1>3. wpc[i] = "wait" /\ Submitted(i, TRUE) /\ todo' = [todo EXCEPT ![i] = {}]
  BY DEF WorkerTimeout
<1> QED BY <1>1, <1>2, <1>3, McSubmitted

(* All workers leave the barrier together.                                 *)
LEMMA McBarrier ==
    ASSUME McInv, Barrier
    PROVE  McInv'
<1> USE DEF McInv
<1>0. UNCHANGED callVars /\ UNCHANGED <<rpc, job, todo, out, C, dst, mc_error, dom_dirty, recov, last, result, faults>>
  BY DEF Barrier
<1>1. rpc = "workers" /\ ~Stream /\ \A i \in Used : wpc[i] = "bar" /\ i \in Core
  BY Division DEF Barrier, CallValid
<1>2. \A i \in Core : /\ wpc'[i] = IF i \in Used THEN NextSlice(i) ELSE wpc[i]
                      /\ wks'[i] = IF i \in Used /\ NextSlice(i) = "sub" THEN wks[i] + 1 ELSE wks[i]
  BY DEF Barrier
<1>3. \A i \in Used : /\ wks[i] \in Slice /\ NextSlice(i) \in {"sub", "acc"}
                      /\ NextSlice(i) = "sub" => wks[i] + 1 \in Slice
                      /\ NextSlice(i) = "acc" => wks[i] = sk - 1
  BY <1>1, Division DEF NextSlice, Slice, McTypeOK
<1>4. McTypeOK'
  <2>1. wpc' \in [Core -> {"idle", "sub", "wait", "bar", "acc", "done"}]
    BY <1>3 DEF Barrier, McTypeOK
  <2>2. wks' \in [Core -> Slice]
    BY <1>1, <1>3 DEF Barrier, McTypeOK
  <2> QED BY <1>0, <2>1, <2>2, SameCall DEF McTypeOK
<1>5. CallValid' /\ Workers'
  BY <1>0, <1>1, <1>2, <1>3, SameCall DEF CallValid, Workers
<1>6. Jobs'
  BY <1>0, <1>1, <1>2, SameCall DEF Jobs
<1>7. SlicesDone'
  BY <1>0, <1>1, <1>2, <1>3, SameCall DEF SlicesDone
<1>8. Together'
  BY <1>0, <1>1, <1>2, <1>3, SameCall DEF Together, NextSlice
<1>9. LandedSoFar'
  <2>1. \A j \in Used : wpc'[j] # "wait"
    BY <1>1, <1>2, <1>3
  <2>2. ASSUME NEW j \in Used, Trusted, NEW k \in Slice, Through(j, k)'
        PROVE  out[<<j, k>>] = "new"
    <3>1. k <= wks[j]
      BY <1>1, <1>2, <1>3, <2>2, Division DEF Through, Slice
    <3>2. Through(j, k)
      BY <1>1, <1>3, <3>1 DEF Through, Slice
    <3> QED BY <1>1, <2>2, <3>2 DEF LandedSoFar
  <2> QED BY <1>0, <2>1, <2>2, SameCall DEF LandedSoFar, Trusted
<1>10. Written' /\ Marked'
  <2>1. {j \in Used : wpc'[j] # "done"} = {j \in Used : wpc[j] # "done"}
    BY <1>1, <1>2, <1>3
  <2>2. Written'
    BY <1>0, <1>1, <1>2, <1>3, <2>1, SameCall DEF Written, Trusted
  <2>3. Marked'
    BY <1>0, <1>1 DEF Marked
  <2> QED BY <2>2, <2>3
<1> QED BY <1>4, <1>5, <1>6, <1>7, <1>8, <1>9, <1>10

(* A core sums its partials into its own columns.                          *)
LEMMA McWorkerSum ==
    ASSUME McInv, NEW i \in Core, WorkerSum(i)
    PROVE  McInv'
<1> USE DEF McInv
<1>0. UNCHANGED callVars /\ UNCHANGED <<rpc, wks, job, todo, out, mc_error, dom_dirty, recov, last, result, faults>>
  BY DEF WorkerSum
<1>1. rpc = "workers" /\ i \in Used /\ ~Stream /\ wpc[i] = "acc"
  BY AtWork DEF WorkerSum
<1>2. Used \subseteq Core /\ Entries = Used
  BY <1>1, Division DEF Entries, Used, S
<1>3. \A j \in Core : wpc'[j] = IF j = i THEN "done" ELSE wpc[j]
  BY DEF WorkerSum, McTypeOK
<1>4. McTypeOK'
  <2>1. C' \in [Tile -> {"old", "good", "bad"}]
    BY DEF WorkerSum, WriteBack, McTypeOK
  <2>2. wpc' \in [Core -> {"idle", "sub", "wait", "bar", "acc", "done"}] /\ dst' \subseteq Entries
    BY DEF WorkerSum, McTypeOK
  <2> QED BY <1>0, <2>1, <2>2, SameCall DEF McTypeOK
<1>5. CallValid' /\ Workers'
  BY <1>0, <1>1, <1>3, SameCall DEF CallValid, Workers
<1>6. Jobs'
  BY <1>0, <1>1, <1>3, SameCall DEF Jobs
<1>7. SlicesDone'
  BY <1>0, <1>1, <1>2, <1>3, SameCall DEF SlicesDone
<1>8. Together'
  <2> SUFFICES ASSUME Sliced, NEW j \in Used, NEW k \in Used
               PROVE  /\ wks[j] = wks[k]
                      /\ wpc'[j] \in {"acc", "done"} <=> wpc'[k] \in {"acc", "done"}
    BY <1>0, SameCall DEF Together
  <2>1. \A x \in Used : wpc'[x] \in {"acc", "done"} <=> wpc[x] \in {"acc", "done"}
    BY <1>1, <1>2, <1>3
  <2> QED BY <1>1, <2>1 DEF Together
<1>9. LandedSoFar'
  <2>1. ASSUME NEW j \in Used, wpc'[j] = "wait", NEW q \in Programs(j)'
        PROVE  q \in todo[j] \/ out[q] = "new"
    BY <1>0, <1>2, <1>3, <2>1, SamePrograms DEF LandedSoFar
  <2>2. ASSUME NEW j \in Used, Trusted, NEW k \in Slice, wpc'[j] # "idle", Through(j, k)'
        PROVE  out[<<j, k>>] = "new"
    <3>1. wpc[j] # "idle" /\ Through(j, k)
      BY <1>0, <1>1, <1>2, <1>3, <2>2 DEF Through
    <3> QED BY <1>1, <2>2, <3>1 DEF LandedSoFar
  <2> QED BY <1>0, <2>1, <2>2, SameCall DEF LandedSoFar, Trusted
<1>10. Written'
  <2>1. dst' = IF sk > 1 THEN {j \in Used : wpc'[j] # "done"} ELSE Entries
    BY <1>1, <1>2, <1>3 DEF WorkerSum, Written
  <2>2. ASSUME Trusted, sk > 1, NEW j \in Used, wpc'[j] = "done", NEW t \in TilesOf(j)
        PROVE  C'[t] = "good"
    <3>1. Landed(i)
      BY <1>1, <2>2 DEF LandedSoFar, Through, Landed
    <3>2. t \in Tile
      BY <1>1, <2>2, Division, SharesPartition DEF TilesOf, Tile
    <3>3. C'[t] = IF t \in TilesOf(i) THEN "good" ELSE C[t]
      BY <2>2, <3>1, <3>2 DEF WorkerSum, WriteBack
    <3>4. j # i => C[t] = "good"
      BY <1>1, <1>2, <1>3, <2>2 DEF Written
    <3> QED BY <2>2, <3>3, <3>4
  <2> QED BY <1>0, <1>1, <2>1, <2>2, SameCall DEF Written, Trusted
<1>11. Marked'
  BY <1>0, <1>1 DEF Marked
<1> QED BY <1>4, <1>5, <1>6, <1>7, <1>8, <1>9, <1>10, <1>11

(* The dispatcher has all cores back.                                      *)
LEMMA McJoin ==
    ASSUME McInv, Join
    PROVE  McInv'
<1> USE DEF McInv
<1>0. UNCHANGED callVars /\ UNCHANGED <<wpc, wks, todo, out, C, dst, mc_error, dom_dirty, recov, last, result, faults>>
  BY DEF Join
<1>1. rpc = "workers" /\ rpc' = "end" /\ ~Stream /\ Used \subseteq Core /\ \A i \in Used : wpc[i] = "done"
  BY Division DEF Join, CallValid
<1>2. \A i \in Core : job[i] = "none" /\ job'[i] = "none"
  BY <1>1 DEF Join, Jobs
<1>3. McTypeOK' /\ CallValid' /\ Workers'
  BY <1>0, <1>1, SameCall DEF McTypeOK, CallValid, Workers, Join
<1>4. Jobs'
  BY <1>0, <1>1, <1>2, SameCall DEF Jobs
<1>5. SlicesDone' /\ Together' /\ Marked'
  BY <1>0, <1>1, SameCall DEF SlicesDone, Together, Marked
<1>6. LandedSoFar'
  BY <1>0, <1>1, SameCall DEF LandedSoFar, Trusted, Through
<1>7. Written'
  <2>1. {i \in Used : wpc[i] # "done"} = {}
    BY <1>1
  <2> QED BY <1>0, <1>1, <2>1, SameCall DEF Written, Trusted
<1> QED BY <1>3, <1>4, <1>5, <1>6, <1>7

-----------------------------------------------------------------------------
(* ork_dyn_end and the callers                                             *)

(* Where a round has not landed whole there is a frontier short of its end.*)
LEMMA FrontierShort ==
    ASSUME S \in Nat \ {0}, \E e \in Entries : ~Landed(e)
    PROVE  Frontier \in -1 .. (S - 2)
<1> DEFINE Lack == {e \in Entries : ~Landed(e)}
           P(n) == /\ \A e \in 0 .. n : Landed(e)
                   /\ n + 1 \in Entries => ~Landed(n + 1)
<1>1. Lack \subseteq Nat /\ Lack # {}
  BY DEF Entries
<1>2. PICK m \in Lack : \A y \in Lack : m <= y
  BY <1>1, Smallest
<1>3. m \in 0 .. (S - 1) /\ ~Landed(m)
  BY <1>2 DEF Entries
<1>4. \A e \in 0 .. (m - 1) : Landed(e)
  BY <1>2, <1>3 DEF Entries
<1>5. m - 1 \in -1 .. (S - 1) /\ P(m - 1)
  <2>1. (m - 1) + 1 = m
    BY <1>3
  <2> QED BY <1>3, <1>4, <2>1
<1>6. Frontier = CHOOSE n \in -1 .. (S - 1) : P(n)
  BY DEF Frontier
<1>7. Frontier \in -1 .. (S - 1) /\ P(Frontier)
  <2> HIDE DEF P
  <2> QED BY <1>5, <1>6
<1>8. Frontier # S - 1
  BY <1>3, <1>7
<1> QED BY <1>7, <1>8

(* The end of a call that knows nothing of a failure writes all its tiles. *)
LEMMA McEndWith ==
    ASSUME McInv, NEW n \in -1 .. (S - 1), EndWith(n),
           \/ rpc = "end"
           \/ /\ rpc = "poll"
              /\ n = S - 1 => \A e \in Entries : Landed(e)
              /\ \/ \A e \in Entries : Landed(e)
                 \/ recov >= recov_max
    PROVE  McInv'
<1> USE DEF McInv
<1>0. UNCHANGED callVars /\ UNCHANGED <<wpc, wks, job, todo, out, dst, mc_error, dom_dirty, recov, result, faults>>
  BY DEF EndWith
<1>1. C' = WriteBack(dst) /\ rpc' = "judge" /\ last' = n /\ dst \subseteq Entries
  BY DEF EndWith, McTypeOK
<1>2. C' \in [Tile -> {"old", "good", "bad"}]
  BY <1>1 DEF WriteBack, McTypeOK
<1>3. McTypeOK' /\ CallValid' /\ Workers'
  BY <1>0, <1>1, <1>2, SameCall DEF McTypeOK, CallValid, Workers
<1>4. Jobs' /\ SlicesDone'
  BY <1>0, <1>1, SameCall DEF Jobs, SlicesDone, CallValid, Workers
<1>5. LandedSoFar' /\ Together'
  BY <1>0, <1>1, <1>3, SameCall, Division, NobodyWaits
<1>6. Written'
  <2>1. ASSUME \A e \in dst : Landed(e), dst = Entries, NEW t \in Tile PROVE C'[t] = "good"
    <3>1. \E e \in dst : t \in TilesOf(e)
      BY <2>1, Division
    <3> QED BY <1>1, <2>1, <3>1 DEF WriteBack
  <2>2. ASSUME rpc = "end", Trusted, NEW t \in Tile PROVE C'[t] = "good"
    <3>1. Entries = Used /\ Used \subseteq Core /\ \A i \in Used : wpc[i] = "done"
      <4>1. Entries = Used /\ Used \subseteq Core
        BY <2>2, Division DEF Trusted, Entries, Used, S
      <4> QED BY <2>2, <4>1 DEF Workers
    <3>2. CASE sk > 1
      <4>1. PICK i \in Used : t \in TilesOf(i)
        BY <3>1, Division
      <4>2. C[t] = "good"
        BY <2>2, <3>1, <3>2, <4>1 DEF Written
      <4>3. dst = {}
        BY <2>2, <3>2 DEF Written
      <4> QED BY <1>1, <4>2, <4>3 DEF WriteBack
    <3>3. CASE ~(sk > 1)
      <4>1. \A e \in Entries : Landed(e)
        BY <2>2, <3>1 DEF LandedSoFar, Through, Landed
      <4>2. dst = Entries
        BY <2>2, <3>3 DEF Written
      <4> QED BY <2>1, <4>1, <4>2
    <3> QED BY <3>2, <3>3
  <2>3. ASSUME rpc = "poll", n = S - 1, NEW t \in Tile PROVE C'[t] = "good"
    BY <2>1, <2>3 DEF Written
  <2>4. rpc = "poll" => Stream
    BY DEF CallValid
  <2>5. rpc = "end" => ~Stream
    BY DEF CallValid
  <2> QED BY <1>0, <1>1, <2>2, <2>3, <2>4, <2>5, SameCall DEF Written, Trusted
<1>7. Marked'
  <2> SUFFICES ASSUME kind = "i8stream", RECOV_MAX > 0
               PROVE  dom_dirty \/ \A i \in Core : job[i] = "none"
    BY <1>0, <1>1, SameCall DEF Marked
  <2>1. rpc = "poll"
    BY DEF CallValid, Stream
  <2>2. CASE \A e \in Entries : Landed(e)
    <3>1. ASSUME NEW i \in Core PROVE todo[i] = {}
      <4> SUFFICES ASSUME NEW p \in todo[i] PROVE FALSE
        OBVIOUS
      <4>1. p \in Entries \X Slice
        BY DEF McTypeOK
      <4>2. out[p] = "new" /\ Stream
        BY <2>2, <4>1 DEF Landed, Stream
      <4> QED BY <4>2 DEF Jobs
    <3> QED BY <3>1 DEF Jobs
  <2>3. CASE recov >= recov_max
    <3>1. recov_max = RECOV_MAX /\ recov \in Nat
      BY DEF recov_max, F16, McTypeOK
    <3> QED BY <2>3, <3>1, McAssumption DEF Marked
  <2> QED BY <2>1, <2>2, <2>3
<1> QED BY <1>3, <1>4, <1>5, <1>6, <1>7

LEMMA McEnd ==
    ASSUME McInv, EndPrepolled \/ EndLanded \/ EndGivesUp
    PROVE  McInv'
<1>1. S \in Nat \ {0}
  BY Division DEF McInv
<1>2. CASE EndPrepolled
  BY <1>1, <1>2, McEndWith DEF EndPrepolled
<1>3. CASE EndLanded
  <2>1. 0 \in Entries
    BY <1>1 DEF Entries
  <2>2. rpc = "poll" /\ (\A e \in Entries : Landed(e)) /\ EndWith(S - 1)
    BY <1>3, <2>1 DEF EndLanded
  <2>3. S - 1 \in -1 .. (S - 1)
    BY <1>1
  <2> QED BY <2>2, <2>3, McEndWith
<1>4. CASE EndGivesUp
  <2>1. Frontier \in -1 .. (S - 2)
    BY <1>1, <1>4, FrontierShort DEF EndGivesUp, Missed
  <2>2. rpc = "poll" /\ recov >= recov_max /\ EndWith(Frontier)
    BY <1>4 DEF EndGivesUp, Missed
  <2>3. Frontier \in -1 .. (S - 1) /\ Frontier # S - 1
    BY <1>1, <2>1
  <2> QED BY <2>2, <2>3, McEndWith
<1> QED BY <1>2, <1>3, <1>4

(* orki_mc_recover_resubmit.                                               *)
LEMMA McEndRecovers ==
    ASSUME McInv, NEW R \in SUBSET Used, NEW heal \in BOOLEAN, EndRecovers(R, heal)
    PROVE  McInv'
<1> USE DEF McInv
<1>0. UNCHANGED callVars /\ UNCHANGED <<rpc, wpc, wks, C, dst, mc_error, last, result>>
  BY DEF EndRecovers
<1>1. rpc = "poll" /\ Stream /\ recov < recov_max /\ dom_dirty' = TRUE /\ recov' = recov + 1
  BY DEF EndRecovers, Missed, CallValid, Mark
<1>2. /\ faults' \in 0 .. MaxFaults
      /\ todo' \in [Core -> SUBSET (Entries \X Slice)]
      /\ job' \in [Core -> {"none", "run", "stuck"}]
      /\ out' = [p \in Entries \X Slice |-> "sent"]
      /\ \A i \in Core : /\ job'[i] = "none" <=> todo'[i] = {}
                         /\ todo'[i] # {} => i \in Used /\ todo'[i] \subseteq EntriesOf(i) \X Slice
  BY <1>1, StreamSubmitted DEF EndRecovers
<1>3. recov' \in 0 .. RECOV_MAX
  BY <1>1, McAssumption DEF recov_max, McTypeOK
<1>4. McTypeOK' /\ CallValid' /\ Workers'
  BY <1>0, <1>1, <1>2, <1>3, SameCall DEF McTypeOK, CallValid, Workers
<1>5. Jobs'
  BY <1>0, <1>1, <1>2, SameCall DEF Jobs, McTypeOK
<1>6. SlicesDone' /\ Written' /\ Marked'
  BY <1>0, <1>1, SameCall DEF SlicesDone, Written, Marked, Workers, Trusted
<1>7. LandedSoFar' /\ Together'
  BY <1>0, <1>1, <1>4, SameCall, Division, NobodyWaits
<1> QED BY <1>4, <1>5, <1>6, <1>7

(* The caller reads the frontier and the error flag.                       *)
LEMMA McJudge ==
    ASSUME McInv, Judge
    PROVE  McInv'
<1> USE DEF McInv
<1>0. UNCHANGED callVars /\ UNCHANGED <<wpc, wks, job, todo, out, C, dst, dom_dirty, recov, last, faults>>
  BY DEF Judge
<1>1. rpc = "judge" /\ rpc' \in {"sc", "ret"} /\ (rpc' = "sc" => F16 /\ ~Stream)
  BY DEF Judge
<1>2. mc_error' \in BOOLEAN /\ result' \in {-1, 0, 1}
  BY DEF Judge, McTypeOK
<1>3. McTypeOK' /\ CallValid' /\ Workers'
  BY <1>0, <1>1, <1>2, SameCall DEF McTypeOK, CallValid, Workers
<1>4. Jobs' /\ SlicesDone' /\ Marked'
  BY <1>0, <1>1, SameCall DEF Jobs, SlicesDone, Marked, Workers
<1>5. LandedSoFar' /\ Together'
  BY <1>0, <1>1, <1>3, SameCall, Division, NobodyWaits
<1>6. Written'
  <2> SUFFICES ASSUME rpc' = "ret", result' = 0, kind # "i8" PROVE \A t \in Tile : C[t] = "good"
    BY <1>0, <1>1, SameCall DEF Written
  <2>1. CallerOk /\ (Stream \/ F16)
    <3>1. CallerOk
      BY DEF Judge
    <3>2. kind \in AllKinds
      BY DEF McTypeOK
    <3> QED BY <3>1, <3>2 DEF AllKinds, Stream, F16
  <2>2. CASE Stream
    BY <1>1, <2>1, <2>2 DEF CallerOk, StreamOk, Written
  <2>3. CASE ~Stream
    BY <1>1, <2>1, <2>3 DEF CallerOk, Written, Trusted
  <2> QED BY <2>2, <2>3
<1> QED BY <1>3, <1>4, <1>5, <1>6

(* The fall-back to one core.                                              *)
LEMMA McSingleCore ==
    ASSUME McInv, NEW ok \in BOOLEAN, SingleCore(ok)
    PROVE  McInv'
<1> USE DEF McInv
<1>0. /\ UNCHANGED callVars
      /\ UNCHANGED <<wpc, wks, job, todo, out, dst, mc_error, dom_dirty, recov, last, faults>>
      /\ rpc = "sc" /\ rpc' = "ret"
  BY DEF SingleCore
<1>1. McTypeOK' /\ CallValid' /\ Workers'
  BY <1>0, SameCall DEF McTypeOK, CallValid, Workers, SingleCore
<1>2. Jobs' /\ SlicesDone'
  BY <1>0, SameCall DEF Jobs, SlicesDone, Workers
<1>3. LandedSoFar' /\ Together'
  BY <1>0, <1>1, SameCall, Division, NobodyWaits
<1>4. Written'
  BY <1>0, SameCall DEF Written, SingleCore
<1>5. Marked'
  BY <1>0, SameCall DEF Marked, CallValid, Stream, F16
<1> QED BY <1>1, <1>2, <1>3, <1>4, <1>5

-----------------------------------------------------------------------------
LEMMA McInvNext == McInv /\ [McNext]_mcVars => McInv'
<1> SUFFICES ASSUME McInv, [McNext]_mcVars PROVE McInv'
  OBVIOUS
<1>1. CASE UNCHANGED mcVars
  BY <1>1 DEF mcVars, callVars, McInv, McTypeOK, CallValid, Workers, Jobs, SlicesDone, Together,
     LandedSoFar, Written, Marked, Trusted, Through, F16, Stream, Sliced, S, Used, Entries, Tile,
     Slice, TilesOf, EntriesOf, Programs, Share, Lo, Hi
<1>2. ASSUME NEW i \in Core, NEW heal \in BOOLEAN,
             WorkerStep(i) \/ Land(i) \/ Stall(i) \/ WorkerReject(i, heal)
      PROVE  McInv'
  BY <1>2, McWorkerSubmit, McWorkerDone, McWorkerTimeout, McWorkerSum, McLand, McStall,
     McWorkerReject DEF WorkerStep
<1>3. CASE Host
  BY <1>3, McBeginColsplit, McBarrier, McJoin, McEnd, McJudge, McSingleCore, McBeginStream,
     McEndRecovers DEF Host
<1>4. CASE BeginFails
  BY <1>4, McBeginFails
<1> QED BY <1>1, <1>2, <1>3, <1>4 DEF McNext

LEMMA McInvariant == McSpec => []McInv
BY McInvInit, McInvNext, PTL DEF McSpec

-----------------------------------------------------------------------------
(* "never two distinct fp16 weight buffers on the CDMA at once", for any   *)
(* number of cores and slices, whichever core's submit is rejected, stalls *)
(* or is reset: the barrier is on whenever the slices lie apart, and a     *)
(* worker that failed still attends it.                                    *)
THEOREM SlicesInLockstep == McSpec => []Lockstep
<1>1. McInv => Lockstep
  <2> SUFFICES ASSUME McInv, Sliced, NEW i \in Used, NEW j \in Used, job[i] = "run", job[j] = "run"
               PROVE  wks[i] = wks[j]
    BY DEF Lockstep
  <2>1. ~Stream /\ Used \subseteq Core
    BY Division DEF McInv, Sliced, Stream
  <2>2. wpc[i] = "wait"
    BY <2>1 DEF McInv, Jobs
  <2>3. rpc = "workers"
    BY <2>1, <2>2 DEF McInv, Workers
  <2> QED BY <2>3 DEF McInv, Together
<1> QED BY <1>1, McInvariant, PTL

(* "A silently wrong number is worse than a crash", for every call but the *)
(* int8 column split, whose workers do not note a failed submit.           *)
THEOREM SuccessIsComplete ==
    ASSUME "i8" \notin Kinds
    PROVE  McSpec => []CompleteIsLanded
<1>1. McInv => CompleteIsLanded
  BY DEF McInv, CompleteIsLanded, CallValid, Written
<1> QED BY <1>1, McInvariant, PTL

(* A job that may still be on a core when a call returns has marked its    *)
(* domain, for every call but a stream of fp16 ops, of which a dropped     *)
(* round is given up without a resubmission and without a mark.            *)
THEOREM DropsAreMarked ==
    ASSUME "f16stream" \notin Kinds, RECOV_MAX > 0
    PROVE  McSpec => []DropMarked
<1>1. McInv => DropMarked
  <2> SUFFICES ASSUME McInv, rpc = "ret", NEW i \in Core, job[i] # "none" PROVE dom_dirty
    BY DEF DropMarked
  <2>1. Stream
    BY DEF McInv, Jobs, Workers
  <2>2. kind = "i8stream"
    BY <2>1 DEF McInv, CallValid, Stream
  <2> QED BY <2>2 DEF McInv, Marked
<1> QED BY <1>1, McInvariant, PTL

-----------------------------------------------------------------------------
(***************************************************************************)
(* SeqSubmit: for sequences of any length, any cap of a batch, any group   *)
(* ids, any number of cores and of submits that go wrong.                  *)
(*                                                                         *)
(* Between two steps a sequence is cut in two: the ops up to lo have been  *)
(* dealt with, those from lo + 1 to the op the loop is at are the batch.   *)
(***************************************************************************)

(* Ops a + 1 .. b, in order.                                               *)
Span(a, b) == [k \in 1..(b - a) |-> a + k]
Rising(s) == \A k \in 1..(Len(s) - 1) : s[k] < s[k + 1]

IsMatmul(o) == o.kind \in {"mm8", "mm16"}
Op == [kind : {"mm8", "mm16", "ewmul", "silu", "requant", "unwired"}, dom : Nat, lut : Nat,
       fits : BOOLEAN, group : Nat, src : SUBSET Nat]

(* An op reads results of earlier ops, and never that of a matmul.         *)
Input ==
    /\ N \in Nat \ {0} /\ seq \in Seq(Op)
    /\ \A i \in 1..N : \A j \in seq[i].src : j \in 1..(i - 1) /\ ~IsMatmul(seq[j])

(* Chains, or groups: none is empty, each ends in a matmul, an op that is  *)
(* not the witness is in one of them once, and the op after it in the same *)
(* group is next to it.                                                    *)
Whole(x) ==
    /\ \A c \in DOMAIN x : x[c] \in Seq(Nat) /\ x[c] # << >> /\ IsMm(Last(x[c]))
    /\ \A c, d \in DOMAIN x : \A k \in 1..Len(x[c]), l \in 1..Len(x[d]) :
         x[c][k] # Witness /\ x[c][k] = x[d][l] => c = d /\ k = l
    /\ \A c, d \in DOMAIN x : \A k \in 1..Len(x[c]), l \in 1..Len(x[d]) :
         x[c][k] # Witness /\ x[d][l] = x[c][k] + 1 /\ seq[x[c][k]].group = seq[x[d][l]].group
           => d = c /\ l = k + 1

(* What has happened when the ops up to lo have been dealt with: they were *)
(* submitted in order, each once and, unless one has failed, all of them.  *)
Kept(t, lo) ==
    /\ t = [batch |-> t.batch, rc |-> t.rc, log |-> t.log, landed |-> t.landed, saw |-> t.saw,
            chains |-> t.chains, lost |-> t.lost, refused |-> t.refused]
    /\ t.rc \in {0, -1, -3} /\ t.lost \in BOOLEAN
    /\ t.log \in Seq(1..lo) /\ Rising(t.log)
    /\ t.rc = 0 => t.log = Span(0, lo)
    /\ t.landed \subseteq 1..lo
    /\ t.saw \in [1..N -> SUBSET (1..N)]
    /\ Whole(t.chains)

(* As long as none is lost all results are there, and an op in no group    *)
(* has seen those it reads.                                                *)
Sighted(t, lo) ==
    t.rc = 0 /\ ~t.lost =>
        /\ t.landed = 1..lo
        /\ \A i \in 1..lo : seq[i].group = 0 => t.saw[i] = seq[i].src

Dealt(t, lo) == Kept(t, lo) /\ Sighted(t, lo)

(* The results that the ops lo + 1 .. hi are to see are of ops before them. *)
Ready(lo, hi) == \A i \in (lo + 1)..hi : seq[i].group = 0 => seq[i].src \subseteq 1..lo

(* The batch: matmuls in no group, of one kind and one domain.             *)
Gathered(lo, hi) ==
    /\ \A i \in (lo + 1)..hi : IsMatmul(seq[i]) /\ seq[i].group = 0
    /\ \A i, j \in (lo + 1)..hi : seq[i].kind = seq[j].kind /\ seq[i].dom = seq[j].dom

Standing(lo) ==
    /\ lo \in 0..(next - 1) /\ Dealt(sofar, lo)
    /\ sofar.batch = Span(lo, next - 1) /\ Gathered(lo, next - 1)

SInv ==
    /\ Input /\ cap \in Caps /\ entered \in Entry
    /\ next \in 1..(N + 1) /\ upto \in 1..N /\ next <= upto + 1
    /\ \E lo \in 0..N : Standing(lo)

-----------------------------------------------------------------------------
(* Numbers and sequences.                                                  *)
LEMMA LeastOfSet ==
    ASSUME NEW Cs, Cs \subseteq Nat, Cs # {}
    PROVE  \E x \in Cs : \A y \in Cs : x <= y
<1>1. PICK x \in Cs : \A y \in Cs : ~ (<<y, x>> \in OpToRel(<, Nat))
  <2>1. \E x \in Cs : \A y \in Cs : ~ (<<y, x>> \in OpToRel(<, Nat))
    BY NatLessThanWellFounded, WFMin
  <2> QED BY <2>1
<1>2. ASSUME NEW y \in Cs PROVE x <= y
  <2>1. ~ (<<y, x>> \in OpToRel(<, Nat))
    BY <1>1
  <2>2. y \in Nat /\ x \in Nat
    OBVIOUS
  <2>3. ~ (y < x)
    BY <2>1, <2>2 DEF OpToRel
  <2> QED BY <2>2, <2>3
<1> QED BY <1>2

LEMMA SpanIs ==
    ASSUME NEW a \in Nat, NEW b \in Nat, a <= b
    PROVE  /\ Span(a, b) \in Seq((a + 1)..b) /\ Len(Span(a, b)) = b - a /\ Rising(Span(a, b))
           /\ \A k \in 1..(b - a) : Span(a, b)[k] = a + k
           /\ Range(Span(a, b)) = (a + 1)..b
<1>1. Span(a, b) \in Seq((a + 1)..b) /\ Len(Span(a, b)) = b - a /\ DOMAIN Span(a, b) = 1..(b - a)
  BY DEF Span
<1>2. \A k \in 1..(b - a) : Span(a, b)[k] = a + k
  BY DEF Span
<1>3. Rising(Span(a, b))
  BY <1>1, <1>2 DEF Rising
<1>4. ASSUME NEW i \in (a + 1)..b PROVE i \in Range(Span(a, b))
  <2>1. i - a \in 1..(b - a) /\ Span(a, b)[i - a] = i
    BY <1>2
  <2> QED BY <1>1, <2>1 DEF Range
<1>5. Range(Span(a, b)) \subseteq (a + 1)..b
  BY <1>1, <1>2 DEF Range
<1> QED BY <1>1, <1>2, <1>3, <1>4, <1>5

LEMMA SpanOne == ASSUME NEW i \in Nat \ {0} PROVE <<i>> = Span(i - 1, i)
<1>1. i - (i - 1) = 1
  OBVIOUS
<1> QED BY <1>1 DEF Span

LEMMA SpanNone == ASSUME NEW a \in Nat PROVE Span(a, a) = << >>
<1>1. a - a = 0
  OBVIOUS
<1>2. Span(a, a) \in Seq(Nat) /\ Len(Span(a, a)) = 0
  BY <1>1, SpanIs, IsASeq DEF Span
<1> QED BY <1>2, EmptySeq

(* Sequences that rise, one beyond the other.                              *)
LEMMA RisingOn ==
    ASSUME NEW a \in Nat, NEW b \in Nat, a <= b, NEW s \in Seq(1..a), Rising(s)
    PROVE  s \o Span(a, b) \in Seq(1..b) /\ Rising(s \o Span(a, b))
<1>1. PICK z : z = Span(a, b)
  OBVIOUS
<1>2. z \in Seq((a + 1)..b) /\ Len(z) = b - a /\ \A k \in 1..(b - a) : z[k] = a + k
  BY <1>1, SpanIs
<1>3. s \in Seq(1..b) /\ z \in Seq(1..b)
  <2>1. 1..a \subseteq 1..b /\ (a + 1)..b \subseteq 1..b
    OBVIOUS
  <2> QED BY <1>2, <2>1
<1>4. /\ s \o z \in Seq(1..b) /\ Len(s \o z) = Len(s) + Len(z)
      /\ \A k \in 1..(Len(s) + Len(z)) : (s \o z)[k] = IF k <= Len(s) THEN s[k] ELSE z[k - Len(s)]
  BY <1>3, ConcatProperties
<1>5. ASSUME NEW k \in 1..(Len(s \o z) - 1) PROVE (s \o z)[k] < (s \o z)[k + 1]
  <2>1. CASE k < Len(s)
    BY <1>3, <1>4, <2>1 DEF Rising
  <2>2. CASE k = Len(s)
    BY <1>2, <1>3, <1>4, <2>2
  <2>3. CASE k > Len(s)
    <3>1. /\ k \in 1..(Len(s) + Len(z)) /\ k + 1 \in 1..(Len(s) + Len(z))
          /\ k - Len(s) \in 1..(b - a) /\ (k + 1) - Len(s) \in 1..(b - a)
      BY <1>2, <1>3, <1>4, <2>3
    <3>2. (s \o z)[k] = z[k - Len(s)] /\ (s \o z)[k + 1] = z[(k + 1) - Len(s)]
      BY <1>3, <1>4, <2>3, <3>1
    <3> QED BY <1>2, <1>3, <3>1, <3>2
  <2> QED BY <2>1, <2>2, <2>3, <1>3
<1> QED BY <1>1, <1>4, <1>5 DEF Rising

LEMMA SpanJoins ==
    ASSUME NEW a \in Nat, NEW b \in Nat, NEW c \in Nat, a <= b, b <= c
    PROVE  Span(a, b) \o Span(b, c) = Span(a, c)
<1>1. PICK x : x = Span(a, b)
  OBVIOUS
<1>2. PICK y : y = Span(b, c)
  OBVIOUS
<1>3. PICK z : z = Span(a, c)
  OBVIOUS
<1>4. /\ x \in Seq(Nat) /\ Len(x) = b - a /\ \A k \in 1..(b - a) : x[k] = a + k
      /\ y \in Seq(Nat) /\ Len(y) = c - b /\ \A k \in 1..(c - b) : y[k] = b + k
      /\ z \in Seq(Nat) /\ Len(z) = c - a /\ \A k \in 1..(c - a) : z[k] = a + k
  <2>1. (a + 1)..b \subseteq Nat /\ (b + 1)..c \subseteq Nat /\ (a + 1)..c \subseteq Nat /\ a <= c
    OBVIOUS
  <2>2. x \in Seq((a + 1)..b) /\ Len(x) = b - a /\ \A k \in 1..(b - a) : x[k] = a + k
    BY <1>1, SpanIs
  <2>3. y \in Seq((b + 1)..c) /\ Len(y) = c - b /\ \A k \in 1..(c - b) : y[k] = b + k
    BY <1>2, SpanIs
  <2>4. z \in Seq((a + 1)..c) /\ Len(z) = c - a /\ \A k \in 1..(c - a) : z[k] = a + k
    BY <1>3, <2>1, SpanIs
  <2> QED BY <2>1, <2>2, <2>3, <2>4
<1>5. /\ Len(x \o y) = c - a /\ x \o y \in Seq(Nat)
      /\ \A k \in 1..(Len(x) + Len(y)) : (x \o y)[k] = IF k <= Len(x) THEN x[k] ELSE y[k - Len(x)]
  <2>1. /\ Len(x \o y) = Len(x) + Len(y) /\ x \o y \in Seq(Nat)
        /\ \A k \in 1..(Len(x) + Len(y)) : (x \o y)[k] = IF k <= Len(x) THEN x[k] ELSE y[k - Len(x)]
    BY <1>4, ConcatProperties, Zenon
  <2>2. Len(x) + Len(y) = c - a
    BY <1>4
  <2> QED BY <2>1, <2>2
<1>6. ASSUME NEW k \in 1..(c - a) PROVE (x \o y)[k] = z[k]
  <2>1. k \in 1..(Len(x) + Len(y))
    BY <1>4
  <2>2. CASE k <= b - a
    BY <1>4, <1>5, <2>1, <2>2
  <2>3. CASE k > b - a
    <3>1. k - (b - a) \in 1..(c - b)
      BY <2>3
    <3>2. (x \o y)[k] = y[k - (b - a)]
      BY <1>4, <1>5, <2>1, <2>3
    <3>3. y[k - (b - a)] = b + (k - (b - a))
      BY <1>4, <3>1
    <3> QED BY <1>4, <3>2, <3>3
  <2>4. k <= b - a \/ k > b - a
    OBVIOUS
  <2> QED BY <2>2, <2>3, <2>4, Zenon
<1>7. x \o y = z
  BY <1>4, <1>5, <1>6, SeqEqual
<1> QED BY <1>1, <1>2, <1>3, <1>7

(* A condition that holds at b holds first at some place between a and b.  *)
FirstIn(Cs, a, z) == z \in Cs /\ \A p \in a..(z - 1) : p \notin Cs
LEMMA First ==
    ASSUME NEW a \in Nat, NEW b \in Nat, a <= b, NEW Cs, b \in Cs
    PROVE  \E z \in a..b : FirstIn(Cs, a, z)
<1>1. PICK T : T = {z \in a..b : z \in Cs}
  OBVIOUS
<1>2. T \subseteq Nat /\ b \in T
  BY <1>1
<1>3. PICK z \in T : \A y \in T : z <= y
  BY <1>2, LeastOfSet
<1>4. ASSUME NEW p \in a..(z - 1), p \in Cs PROVE FALSE
  <2>1. z \in a..b /\ p \in a..b /\ ~ (z <= p)
    BY <1>1, <1>3
  <2> QED BY <1>1, <1>3, <1>4, <2>1
<1> QED BY <1>1, <1>3, <1>4 DEF FirstIn

-----------------------------------------------------------------------------
(* The groups of a run.                                                    *)
LEMMA NumberOf ==
    ASSUME NEW i \in Nat, NEW p \in Nat, i <= p
    PROVE  /\ GroupNo(i, p) \in Nat \ {0}
           /\ p = i => GroupNo(i, p) = 1
           /\ GroupNo(i, p + 1) = GroupNo(i, p) + (IF seq[p + 1].group # seq[p].group THEN 1 ELSE 0)
<1>1. PICK Cs : Cs = {q \in i..p : q = i \/ seq[q].group # seq[q - 1].group}
  OBVIOUS
<1>2. IsFiniteSet(i..p) /\ Cs \subseteq i..p /\ i \in Cs
  BY <1>1, FS_Interval
<1>3. IsFiniteSet(Cs) /\ Cardinality(Cs) \in Nat /\ Cardinality(Cs) # 0
  BY <1>2, FS_Subset, FS_CardinalityType, FS_EmptySet
<1>4. ASSUME p = i PROVE Cardinality(Cs) = 1
  <2>1. Cs = {i}
    BY <1>1, <1>2, <1>4
  <2> QED BY <2>1, FS_Singleton
<1>5. PICK T : T = {q \in i..(p + 1) : q = i \/ seq[q].group # seq[q - 1].group}
  OBVIOUS
<1>6. CASE seq[p + 1].group # seq[p].group
  <2>1. T = Cs \cup {p + 1} /\ p + 1 \notin Cs
    <3>1. (p + 1) - 1 = p /\ p + 1 \in i..(p + 1) /\ p + 1 \notin i..p /\ i..(p + 1) = i..p \cup {p + 1}
      OBVIOUS
    <3> QED BY <1>1, <1>5, <1>6, <3>1
  <2>2. Cardinality(T) = Cardinality(Cs) + 1
    BY <1>3, <2>1, FS_AddElement
  <2>3. GroupNo(i, p) = Cardinality(Cs) /\ GroupNo(i, p + 1) = Cardinality(T)
    BY <1>1, <1>5 DEF GroupNo
  <2> QED BY <1>3, <1>4, <1>6, <2>2, <2>3
<1>7. CASE seq[p + 1].group = seq[p].group
  <2>1. T = Cs
    <3>1. (p + 1) - 1 = p /\ p + 1 # i /\ i..(p + 1) = i..p \cup {p + 1}
      OBVIOUS
    <3> QED BY <1>1, <1>5, <1>7, <3>1
  <2>2. GroupNo(i, p) = Cardinality(Cs) /\ GroupNo(i, p + 1) = Cardinality(T)
    BY <1>1, <1>5 DEF GroupNo
  <2> QED BY <1>3, <1>4, <1>7, <2>1, <2>2
<1> QED BY <1>6, <1>7

LEMMA NumbersGrow ==
    ASSUME NEW i \in Nat, NEW p \in Nat, NEW q \in Nat, i <= p, p <= q
    PROVE  GroupNo(i, p) <= GroupNo(i, q)
<1>1. PICK Cs : Cs = {x \in i..p : x = i \/ seq[x].group # seq[x - 1].group}
  OBVIOUS
<1>2. PICK T : T = {x \in i..q : x = i \/ seq[x].group # seq[x - 1].group}
  OBVIOUS
<1>3. i..p \subseteq i..q
  OBVIOUS
<1>4. Cs \subseteq T /\ T \subseteq i..q
  BY <1>1, <1>2, <1>3
<1>5. IsFiniteSet(T)
  <2>1. i \in Int /\ q \in Int
    OBVIOUS
  <2>2. IsFiniteSet(i..q)
    BY <2>1, FS_Interval
  <2> QED BY <1>4, <2>2, FS_Subset
<1>6. Cardinality(Cs) <= Cardinality(T)
  BY <1>4, <1>5, FS_Subset
<1> QED BY <1>1, <1>2, <1>6 DEF GroupNo

LEMMA MinOf ==
    ASSUME NEW a \in Nat, NEW b \in Nat, a <= b
    PROVE  Min(a..b) = a
<1>1. a \in a..b /\ \A y \in a..b : a <= y
  OBVIOUS
<1>2. \A x \in a..b : (\A y \in a..b : x <= y) => x = a
  BY <1>1
<1> QED BY <1>1, <1>2 DEF Min

(* A group is an interval of the run.                                      *)
LEMMA GroupSpan ==
    ASSUME NEW i \in Nat \ {0}, NEW j \in Nat, i <= j, NEW g \in 1..GroupNo(i, j)
    PROVE  \E a \in i..j, b \in i..j :
              /\ a <= b /\ Groups(i, j)[g] = Span(a - 1, b)
              /\ \A p \in a..b : GroupNo(i, p) = g
<1>1. GroupNo(i, j) \in Nat /\ g \in Nat \ {0} /\ g <= GroupNo(i, j)
  BY NumberOf
<1>2. ASSUME NEW p \in i..j PROVE GroupNo(i, p) \in Nat /\ p \in Nat
  <2>1. p \in Nat /\ i <= p /\ i \in Nat
    OBVIOUS
  <2> QED BY <2>1, NumberOf
<1>3. PICK Cs : Cs = {p \in i..j : GroupNo(i, p) >= g}
  OBVIOUS
<1>4. i \in Nat /\ j \in Nat /\ i <= j /\ j \in Cs
  BY <1>1, <1>3
<1>5. PICK a \in i..j : a \in Cs /\ \A p \in i..(a - 1) : p \notin Cs
  <2>1. \E z \in i..j : FirstIn(Cs, i, z)
    BY <1>4, First
  <2> QED BY <2>1 DEF FirstIn
<1>6. GroupNo(i, a) = g /\ \A p \in i..(a - 1) : GroupNo(i, p) < g
  <2>1. ASSUME NEW p \in i..(a - 1) PROVE GroupNo(i, p) < g
    <3>1. p \in i..j
      OBVIOUS
    <3> QED BY <1>1, <1>2, <1>3, <1>5, <3>1
  <2>2. GroupNo(i, a) >= g /\ GroupNo(i, a) \in Nat
    BY <1>2, <1>3, <1>5
  <2>3. CASE a = i
    BY <1>1, <2>2, <2>3, NumberOf
  <2>4. CASE a # i
    <3>1. PICK p : p = a - 1
      OBVIOUS
    <3>2. p \in Nat /\ i <= p /\ p + 1 = a /\ p \in i..(a - 1) /\ p \in i..j
      BY <2>4, <3>1
    <3>3. GroupNo(i, p) < g /\ GroupNo(i, p) \in Nat
      BY <1>2, <2>1, <3>2
    <3>4. GroupNo(i, p + 1) = GroupNo(i, p) + (IF seq[p + 1].group # seq[p].group THEN 1 ELSE 0)
      BY <1>4, <3>2, NumberOf
    <3>5. GroupNo(i, p + 1) <= GroupNo(i, p) + 1
      BY <3>3, <3>4
    <3>6. GroupNo(i, a) = g
      BY <1>1, <2>2, <3>2, <3>3, <3>5
    <3> QED BY <2>1, <3>6
  <2> QED BY <2>1, <2>3, <2>4
<1>7. PICK T : T = {p \in i..j : p = j \/ GroupNo(i, p + 1) # g}
  OBVIOUS
<1>8. j \in T /\ a \in Nat /\ a <= j
  BY <1>7
<1>9. PICK b \in a..j : b \in T /\ \A p \in a..(b - 1) : p \notin T
  BY <1>8, First DEF FirstIn
<1>10. ASSUME NEW p \in a..b PROVE GroupNo(i, p) = g
  <2>1. CASE p = a
    BY <1>6, <2>1
  <2>2. CASE p # a
    <3>1. p - 1 \in a..(b - 1) /\ p - 1 \in i..j /\ (p - 1) + 1 = p
      BY <2>2
    <3> QED BY <1>7, <1>9, <3>1
  <2> QED BY <2>1, <2>2
<1>11. ASSUME NEW p \in i..j, p > b PROVE GroupNo(i, p) > g
  <2>1. b # j /\ b + 1 \in i..j /\ b + 1 <= p /\ b + 1 \in Nat /\ p \in Nat /\ i <= b + 1 /\ b \in Nat /\ a <= b + 1
    BY <1>8, <1>11
  <2>2. GroupNo(i, b + 1) # g
    BY <1>7, <1>9, <2>1
  <2>3. GroupNo(i, a) <= GroupNo(i, b + 1) /\ GroupNo(i, b + 1) <= GroupNo(i, p)
    BY <1>8, <2>1, NumbersGrow
  <2>4. GroupNo(i, b + 1) \in Nat /\ GroupNo(i, p) \in Nat
    BY <1>2, <2>1
  <2> QED BY <1>1, <1>6, <2>2, <2>3, <2>4
<1>12. {p \in i..j : GroupNo(i, p) = g} = a..b
  <2>1. ASSUME NEW p \in i..j, GroupNo(i, p) = g PROVE p \in a..b
    <3>1. ~ (p \in i..(a - 1))
      BY <1>1, <1>6, <2>1
    <3>2. ~ (p > b)
      BY <1>1, <1>11, <2>1
    <3> QED BY <3>1, <3>2
  <2>2. a..b \subseteq i..j
    BY <1>8
  <2> QED BY <1>10, <2>1, <2>2
<1>13. Min(a..b) = a /\ Cardinality(a..b) = b - a + 1 /\ a <= b /\ b \in i..j
  <2>1. a \in Nat /\ b \in Nat /\ a <= b /\ b \in i..j
    BY <1>8
  <2>2. a \in Int /\ b \in Int /\ ~ (a > b)
    BY <2>1
  <2>3. Cardinality(a..b) = b - a + 1
    BY <2>2, FS_Interval
  <2> QED BY <2>1, <2>3, MinOf
<1>14. Groups(i, j)[g] = [k \in 1..(b - a + 1) |-> a + k - 1]
  BY <1>12, <1>13 DEF Groups
<1>15. Groups(i, j)[g] = Span(a - 1, b)
  <2>1. b - a + 1 = b - (a - 1) /\ \A k \in 1..(b - a + 1) : a + k - 1 = (a - 1) + k
    BY <1>13
  <2> QED BY <1>14, <2>1 DEF Span
<1> QED BY <1>10, <1>13, <1>15

(* Of a group that is closed: what is not the witness is in it.            *)
ClosedAt(x, a, i, j, g) ==
    /\ x \in Seq(Nat) /\ x # << >> /\ IsMm(Last(x))
    /\ \A k \in 1..Len(x) : x[k] # Witness =>
         x[k] = a + k /\ x[k] \in i..j /\ GroupNo(i, x[k]) = g

LEMMA ClosedIs ==
    ASSUME Input, NEW i \in 1..N, NEW j \in i..N, NEW g \in 1..GroupNo(i, j),
           NEW x, x = Closed(Groups(i, j)[g])
    PROVE  \E a \in Nat : ClosedAt(x, a, i, j, g)
<1>1. i \in Nat \ {0} /\ j \in Nat /\ i <= j
  BY DEF Input
<1>2. PICK a \in i..j, b \in i..j :
              /\ a <= b /\ Groups(i, j)[g] = Span(a - 1, b)
              /\ \A p \in a..b : GroupNo(i, p) = g
  BY <1>1, GroupSpan
<1>3. PICK y : y = Groups(i, j)[g]
  OBVIOUS
<1>4. PICK e : e = a - 1
  OBVIOUS
<1>5. /\ e \in Nat /\ b \in Nat /\ e <= b /\ b - e > 0 /\ e + 1 = a /\ y = Span(e, b)
  BY <1>1, <1>2, <1>3, <1>4
<1>6. y \in Seq((e + 1)..b) /\ Len(y) = b - e /\ \A k \in 1..(b - e) : y[k] = e + k
  BY <1>5, SpanIs
<1>7. y \in Seq(Nat) /\ y # << >>
  <2>1. (e + 1)..b \subseteq Nat
    BY <1>5
  <2>2. Len(y) # 0
    BY <1>5, <1>6
  <2> QED BY <1>6, <2>1, <2>2, SeqMonotonic, EmptySeq
<1>8. ASSUME NEW k \in 1..Len(y) PROVE y[k] = e + k /\ y[k] \in i..j /\ GroupNo(i, y[k]) = g
  <2>1. k \in 1..(b - e) /\ e + k \in a..b /\ e + k \in i..j
    BY <1>1, <1>2, <1>5, <1>6
  <2> QED BY <1>2, <1>6, <2>1
<1>9. CASE IsMm(Last(y))
  <2>1. x = y
    BY <1>3, <1>9 DEF Closed
  <2> QED BY <1>5, <1>7, <1>8, <1>9, <2>1 DEF ClosedAt
<1>10. CASE ~IsMm(Last(y))
  <2>1. x = Append(y, Witness) /\ Witness = 0
    BY <1>3, <1>10 DEF Closed, Witness
  <2>2. x \in Seq(Nat) /\ Len(x) = Len(y) + 1 /\ x[Len(y) + 1] = Witness
        /\ \A k \in 1..Len(y) : x[k] = y[k]
    BY <1>7, <2>1, AppendProperties
  <2>3. x # << >>
    BY <1>7, <2>2, EmptySeq
  <2>4. IsMm(Last(x))
    BY <2>2 DEF IsMm, Last
  <2>5. ASSUME NEW k \in 1..Len(x), x[k] # Witness
        PROVE  x[k] = e + k /\ x[k] \in i..j /\ GroupNo(i, x[k]) = g
    <3>1. k \in 1..Len(y)
      BY <1>7, <2>2, <2>5
    <3> QED BY <1>8, <2>2, <3>1
  <2> QED BY <1>5, <2>2, <2>3, <2>4, <2>5 DEF ClosedAt
<1> QED BY <1>9, <1>10

(* The groups of a run, closed: each is where its number says.             *)
Numbered(gs, i, j) == \A g \in DOMAIN gs : \E a \in Nat : ClosedAt(gs[g], a, i, j, g)

LEMMA GroupsAreWhole ==
    ASSUME Input, NEW i \in 1..N, NEW j \in i..N,
           NEW gs, gs = [g \in DOMAIN Groups(i, j) |-> Closed(Groups(i, j)[g])]
    PROVE  Whole(gs) /\ gs \in Seq(Seq(Nat)) /\ gs # << >>
<1>1. PICK n : n = GroupNo(i, j)
  OBVIOUS
<1>2. n \in Nat \ {0} /\ i \in Nat /\ j \in Nat /\ i <= j
  <2>1. i \in Nat /\ j \in Nat /\ i <= j
    BY DEF Input
  <2> QED BY <1>1, <2>1, NumberOf
<1>3. DOMAIN gs = 1..n /\ \A g \in 1..n : gs[g] = Closed(Groups(i, j)[g])
  BY <1>1 DEF Groups
<1>4. Numbered(gs, i, j)
  <2>1. ASSUME NEW g \in 1..n PROVE \E a \in Nat : ClosedAt(gs[g], a, i, j, g)
    <3>1. PICK x : x = Closed(Groups(i, j)[g])
      OBVIOUS
    <3>2. g \in 1..GroupNo(i, j) /\ gs[g] = x
      BY <1>1, <1>3, <3>1
    <3> QED BY <3>1, <3>2, ClosedIs
  <2> QED BY <1>3, <2>1 DEF Numbered
<1>5. gs \in Seq(Seq(Nat)) /\ Len(gs) = n
  <2>1. gs = [g \in 1..n |-> gs[g]] /\ \A g \in 1..n : gs[g] \in Seq(Nat)
    BY <1>3, <1>4 DEF Numbered, ClosedAt
  <2> QED BY <1>2, <2>1
<1>6. ASSUME NEW g \in 1..n
      PROVE  \E a \in Nat : \A x \in 1..Len(gs[g]) : gs[g][x] # Witness => gs[g][x] = a + x
  <2>1. g \in DOMAIN gs
    BY <1>3
  <2>2. PICK a \in Nat : \A k \in 1..Len(gs[g]) : gs[g][k] # Witness =>
           gs[g][k] = a + k /\ gs[g][k] \in i..j /\ GroupNo(i, gs[g][k]) = g
    BY <1>4, <2>1, Zenon DEF Numbered, ClosedAt
  <2> QED BY <2>2, Zenon
<1>7. ASSUME NEW g \in 1..n, NEW h \in 1..n, NEW k \in 1..Len(gs[g]), NEW l \in 1..Len(gs[h]),
             gs[g][k] # Witness, gs[g][k] = gs[h][l]
      PROVE  g = h /\ k = l
  <2>1. g = h
    <3>1. GroupNo(i, gs[g][k]) = g
      BY <1>3, <1>4, <1>7 DEF Numbered, ClosedAt
    <3>2. GroupNo(i, gs[h][l]) = h
      BY <1>3, <1>4, <1>7 DEF Numbered, ClosedAt
    <3> QED BY <1>7, <3>1, <3>2
  <2>2. PICK a \in Nat : \A x \in 1..Len(gs[g]) : gs[g][x] # Witness => gs[g][x] = a + x
    BY <1>6
  <2>3. l \in 1..Len(gs[g]) /\ gs[g][k] = a + k /\ gs[g][l] = a + l
    BY <1>7, <2>1, <2>2
  <2>4. a + k = a + l
    BY <1>7, <2>1, <2>3
  <2>5. k \in Nat /\ l \in Nat
    BY <1>3, <1>4 DEF Numbered, ClosedAt
  <2> QED BY <2>1, <2>2, <2>4, <2>5
<1>8. ASSUME NEW g \in 1..n, NEW h \in 1..n, NEW k \in 1..Len(gs[g]), NEW l \in 1..Len(gs[h]),
             gs[g][k] # Witness, gs[h][l] = gs[g][k] + 1, seq[gs[g][k]].group = seq[gs[h][l]].group
      PROVE  h = g /\ l = k + 1
  <2>1. PICK p : p = gs[g][k]
    OBVIOUS
  <2>2. p \in i..j /\ GroupNo(i, p) = g
    BY <1>3, <1>4, <1>8, <2>1 DEF Numbered, ClosedAt
  <2>3. p \in Nat /\ i <= p /\ p + 1 # 0
    BY <1>2, <2>2
  <2>4. gs[h][l] # Witness
    BY <1>8, <2>1, <2>3 DEF Witness
  <2>5. GroupNo(i, gs[h][l]) = h
    BY <1>3, <1>4, <2>4 DEF Numbered, ClosedAt
  <2>6. GroupNo(i, p + 1) = GroupNo(i, p) + (IF seq[p + 1].group # seq[p].group THEN 1 ELSE 0)
        /\ GroupNo(i, p) \in Nat
    BY <1>2, <2>3, NumberOf
  <2>7. gs[h][l] = p + 1 /\ ~ (seq[p + 1].group # seq[p].group)
    BY <1>8, <2>1
  <2>8. h = g
    BY <2>2, <2>5, <2>6, <2>7
  <2>9. PICK a \in Nat : \A x \in 1..Len(gs[g]) : gs[g][x] # Witness => gs[g][x] = a + x
    BY <1>6
  <2>10. p = a + k /\ p + 1 = a + l
    <3>1. gs[g][k] = a + k
      BY <1>8, <2>9
    <3>2. l \in 1..Len(gs[g]) /\ gs[g][l] # Witness /\ gs[g][l] = p + 1
      BY <2>4, <2>7, <2>8
    <3> QED BY <2>1, <2>9, <3>1, <3>2
  <2>11. k \in Nat /\ l \in Nat
    BY <1>3, <1>4 DEF Numbered, ClosedAt
  <2> QED BY <2>3, <2>8, <2>9, <2>10, <2>11
<1>9. \A g \in 1..n : gs[g] \in Seq(Nat) /\ gs[g] # << >> /\ IsMm(Last(gs[g]))
  BY <1>3, <1>4 DEF Numbered, ClosedAt
<1>10. Whole(gs)
  <2>1. \A c, d \in DOMAIN gs : \A k \in 1..Len(gs[c]), l \in 1..Len(gs[d]) :
         gs[c][k] # Witness /\ gs[c][k] = gs[d][l] => c = d /\ k = l
    BY <1>3, <1>7
  <2>2. \A c, d \in DOMAIN gs : \A k \in 1..Len(gs[c]), l \in 1..Len(gs[d]) :
         gs[c][k] # Witness /\ gs[d][l] = gs[c][k] + 1 /\ seq[gs[c][k]].group = seq[gs[d][l]].group
           => d = c /\ l = k + 1
    BY <1>3, <1>8
  <2> QED BY <1>3, <1>9, <2>1, <2>2 DEF Whole
<1> QED BY <1>2, <1>5, <1>10, EmptySeq

-----------------------------------------------------------------------------
(* The chains of the cores.                                                *)

(* The groups handed out.                                                  *)
GroupList(gs) ==
    gs \in Seq(Seq(Nat)) /\ \A g \in 1..Len(gs) : gs[g] # << >> /\ IsMm(Last(gs[g]))

(* Group g is in the chain of core own[g], from off[g] on, and what is in  *)
(* a chain is in one of its groups.                                        *)
Placed(chain, gs, k, own, off) ==
    /\ \A g \in 1..k : /\ off[g] + Len(gs[g]) <= Len(chain[own[g]])
                       /\ \A m \in 1..Len(gs[g]) : chain[own[g]][off[g] + m] = gs[g][m]
    /\ \A c \in DOMAIN chain : \A x \in 1..Len(chain[c]) :
         \E g \in 1..k : own[g] = c /\ off[g] < x /\ x <= off[g] + Len(gs[g])

(* Of n cores, when k groups have been handed out: a core without load has *)
(* no chain, and the first k cores are the ones that have.                 *)
Shared(p, n, gs, k) ==
    /\ p.load \in [1..n -> Nat] /\ p.chain \in [1..n -> Seq(Nat)]
    /\ \A c \in 1..n : /\ p.load[c] > 0 <=> c <= k
                       /\ p.chain[c] # << >> <=> c <= k
                       /\ c <= k => IsMm(Last(p.chain[c]))
    /\ \E own \in [1..k -> 1..n], off \in [1..k -> Nat] : Placed(p.chain, gs, k, own, off)

(* The first of the least loaded cores.                                    *)
LEMMA LightestIs ==
    ASSUME NEW n \in Nat \ {0}, NEW load \in [1..n -> Nat]
    PROVE  /\ Lightest(load) \in 1..n
           /\ \A d \in 1..n : load[Lightest(load)] <= load[d]
           /\ \A d \in 1..(Lightest(load) - 1) : load[Lightest(load)] < load[d]
<1>1. PICK V : V = {load[c] : c \in 1..n}
  OBVIOUS
<1>2. V \subseteq Nat /\ load[1] \in V
  BY <1>1
<1>3. PICK v \in V : \A y \in V : v <= y
  BY <1>2, LeastOfSet
<1>4. PICK M : M = {c \in 1..n : load[c] = v}
  OBVIOUS
<1>5. M \subseteq Nat /\ M # {}
  BY <1>1, <1>3, <1>4
<1>6. PICK b \in M : \A y \in M : b <= y
  BY <1>5, LeastOfSet
<1>7. b \in 1..n /\ load[b] = v
  BY <1>4, <1>6
<1>8. \A d \in 1..n : load[b] <= load[d]
  BY <1>1, <1>3, <1>7
<1>9. ASSUME NEW d \in 1..(b - 1) PROVE load[b] < load[d]
  <2>1. d \in 1..n /\ ~ (b <= d)
    BY <1>7
  <2>2. load[d] # v
    BY <1>4, <1>6, <2>1
  <2>3. load[b] <= load[d] /\ load[b] \in Nat /\ load[d] \in Nat
    BY <1>7, <1>8, <2>1
  <2> QED BY <1>7, <2>2, <2>3
<1>10. \E c \in DOMAIN load : (\A d \in DOMAIN load : load[c] <= load[d])
                              /\ (\A d \in 1..(c - 1) : load[c] < load[d])
  BY <1>7, <1>8, <1>9
<1>11. DOMAIN load = 1..n
  OBVIOUS
<1>12. /\ Lightest(load) \in DOMAIN load
       /\ \A d \in DOMAIN load : load[Lightest(load)] <= load[d]
       /\ \A d \in 1..(Lightest(load) - 1) : load[Lightest(load)] < load[d]
  BY <1>10 DEF Lightest
<1> QED BY <1>11, <1>12

(* A group has a cost.                                                     *)
LEMMA CostIs ==
    ASSUME NEW g \in Seq(Nat), g # << >>
    PROVE  Cost(g) \in Nat /\ Cost(g) > 0
<1>1. Len(g) \in Nat \ {0} /\ DOMAIN g = 1..Len(g)
  BY EmptySeq, LenProperties
<1>2. PICK K : K = {k \in DOMAIN g : IsMm(g[k])}
  OBVIOUS
<1>3. 1 \in Int /\ Len(g) \in Int /\ K \subseteq 1..Len(g)
  BY <1>1, <1>2
<1>4. IsFiniteSet(1..Len(g))
  BY <1>3, FS_Interval
<1>5. Cardinality(K) \in Nat
  BY <1>3, <1>4, FS_Subset, FS_CardinalityType
<1>6. Cost(g) = Len(g) + 2 * Cardinality(K)
  BY <1>2 DEF Cost
<1> QED BY <1>1, <1>5, <1>6

(* As many cores as there are groups, at most.                             *)
LEMMA NcIs ==
    ASSUME SeqAssumption, NEW gs \in Seq(Seq(Nat)), gs # << >>
    PROVE  NcOf(gs) \in Nat \ {0} /\ NcOf(gs) <= Len(gs)
<1>1. Len(gs) \in Nat \ {0} /\ SeqCores \in Nat \ {0}
  BY EmptySeq DEF SeqAssumption
<1> QED BY <1>1 DEF NcOf

LEMMA JoinIs ==
    ASSUME NEW s \in Seq(Nat), NEW g \in Seq(Nat), g # << >>
    PROVE  /\ s \o g \in Seq(Nat) /\ s \o g # << >>
           /\ Len(s) \in Nat /\ Len(g) \in Nat /\ Len(s \o g) = Len(s) + Len(g)
           /\ \A x \in 1..Len(s) : (s \o g)[x] = s[x]
           /\ \A m \in 1..Len(g) : (s \o g)[Len(s) + m] = g[m]
           /\ Last(s \o g) = Last(g)
<1>1. Len(s) \in Nat /\ Len(g) \in Nat \ {0}
  BY EmptySeq, LenProperties
<1>2. s \o g \in Seq(Nat) /\ Len(s \o g) = Len(s) + Len(g)
  BY ConcatProperties
<1>3. \A i \in 1..(Len(s) + Len(g)) : (s \o g)[i] = IF i <= Len(s) THEN s[i] ELSE g[i - Len(s)]
  BY ConcatProperties
<1>4. \A x \in 1..Len(s) : (s \o g)[x] = s[x]
  BY <1>1, <1>3
<1>5. ASSUME NEW m \in 1..Len(g) PROVE (s \o g)[Len(s) + m] = g[m]
  <2>1. Len(s) + m \in 1..(Len(s) + Len(g)) /\ ~ (Len(s) + m <= Len(s)) /\ (Len(s) + m) - Len(s) = m
    BY <1>1
  <2> QED BY <1>3, <2>1
<1>6. s \o g # << >>
  BY <1>1, <1>2, EmptySeq
<1>7. Last(s \o g) = Last(g)
  <2>1. (s \o g)[Len(s) + Len(g)] = g[Len(g)]
    BY <1>1, <1>5
  <2> QED BY <1>2, <2>1 DEF Last
<1> QED BY <1>1, <1>2, <1>4, <1>5, <1>6, <1>7

(* One more group handed out.                                              *)
LEMMA GiveKeeps ==
    ASSUME NEW n \in Nat \ {0}, NEW gs, GroupList(gs), NEW k \in Nat, k < Len(gs), NEW p, Shared(p, n, gs, k)
    PROVE  Shared(Give(p, gs[k + 1]), n, gs, k + 1)
<1>1. PICK load \in [1..n -> Nat], chain \in [1..n -> Seq(Nat)] : p.load = load /\ p.chain = chain
  BY DEF Shared
<1>2. PICK own \in [1..k -> 1..n], off \in [1..k -> Nat] : Placed(chain, gs, k, own, off)
  BY <1>1 DEF Shared
<1>3. ASSUME NEW c \in 1..n
      PROVE  /\ load[c] > 0 <=> c <= k
             /\ chain[c] # << >> <=> c <= k
             /\ c <= k => IsMm(Last(chain[c]))
  BY <1>1 DEF Shared
<1>4. PICK g : g = gs[k + 1]
  OBVIOUS
<1>5. Len(gs) \in Nat /\ k + 1 \in 1..Len(gs) /\ g \in Seq(Nat) /\ g # << >> /\ IsMm(Last(g))
      /\ \A x \in 1..k : gs[x] \in Seq(Nat) /\ Len(gs[x]) \in Nat
  <2>1. gs \in Seq(Seq(Nat)) /\ Len(gs) \in Nat
    BY LenProperties DEF GroupList
  <2>2. k + 1 \in 1..Len(gs) /\ \A x \in 1..k : x \in 1..Len(gs)
    BY <2>1
  <2>3. \A x \in 1..Len(gs) : gs[x] \in Seq(Nat)
    BY <2>1, ElementOfSeq
  <2>4. \A x \in 1..k : gs[x] \in Seq(Nat) /\ Len(gs[x]) \in Nat
    BY <2>2, <2>3, LenProperties
  <2> QED BY <1>4, <2>1, <2>2, <2>3, <2>4 DEF GroupList
<1>6. PICK b : b = Lightest(load)
  OBVIOUS
<1>7. b \in 1..n /\ (\A d \in 1..n : load[b] <= load[d]) /\ (\A d \in 1..(b - 1) : load[b] < load[d])
  BY <1>6, LightestIs
(* While there are cores without load, the next of them.                   *)
<1>8. k < n => b = k + 1
  <2>1. SUFFICES ASSUME k < n PROVE b = k + 1
    OBVIOUS
  <2>2. k + 1 \in 1..n /\ ~ (k + 1 <= k)
    BY <2>1
  <2>3. load[k + 1] = 0
    BY <1>3, <2>2
  <2>4. load[b] <= load[k + 1] /\ load[b] \in Nat
    BY <1>7, <2>2
  <2>5. ~ (b <= k)
    BY <1>3, <1>7, <2>3, <2>4
  <2>6. ~ (k + 1 \in 1..(b - 1))
    BY <1>7, <2>3, <2>4
  <2> QED BY <1>7, <2>2, <2>5, <2>6
<1>9. PICK q : q = Give(p, g)
  OBVIOUS
<1>10. PICK s : s = chain[b]
  OBVIOUS
<1>11. s \in Seq(Nat)
  BY <1>7, <1>10
<1>12. Cost(g) \in Nat /\ Cost(g) > 0
  BY <1>5, CostIs
<1>13. /\ q.load = [load EXCEPT ![b] = @ + Cost(g)]
       /\ q.chain = [chain EXCEPT ![b] = s \o g]
  <2>1. q = [load |-> LoadedCore(load, b, Cost(g)), chain |-> [chain EXCEPT ![b] = chain[b] \o g]]
    BY <1>1, <1>6, <1>9 DEF Give
  <2> QED BY <1>10, <2>1 DEF LoadedCore
<1>14. /\ s \o g \in Seq(Nat) /\ s \o g # << >>
       /\ Len(s) \in Nat /\ Len(g) \in Nat /\ Len(s \o g) = Len(s) + Len(g)
       /\ \A x \in 1..Len(s) : (s \o g)[x] = s[x]
       /\ \A m \in 1..Len(g) : (s \o g)[Len(s) + m] = g[m]
       /\ Last(s \o g) = Last(g)
  BY <1>5, <1>11, JoinIs
<1>15. q.load \in [1..n -> Nat] /\ q.chain \in [1..n -> Seq(Nat)]
  <2>1. load[b] + Cost(g) \in Nat
    BY <1>7, <1>12
  <2> QED BY <1>7, <1>13, <1>14, <2>1
<1>16. /\ q.load[b] = load[b] + Cost(g) /\ q.chain[b] = s \o g
       /\ \A c \in 1..n : c # b => q.load[c] = load[c] /\ q.chain[c] = chain[c]
  BY <1>7, <1>13
<1>17. ASSUME NEW c \in 1..n
       PROVE  /\ q.load[c] > 0 <=> c <= k + 1
              /\ q.chain[c] # << >> <=> c <= k + 1
              /\ c <= k + 1 => IsMm(Last(q.chain[c]))
  <2>1. CASE c = b
    <3>1. c <= k + 1
      BY <1>7, <1>8, <2>1
    <3>2. q.load[c] > 0
      BY <1>7, <1>12, <1>16, <2>1
    <3> QED BY <1>5, <1>14, <1>16, <2>1, <3>1, <3>2
  <2>2. CASE c # b
    <3>1. c <= k + 1 <=> c <= k
      BY <1>7, <1>8, <2>2
    <3> QED BY <1>3, <1>16, <2>2, <3>1
  <2> QED BY <2>1, <2>2
<1>18. PICK own2, off2 : /\ own2 = [x \in 1..(k + 1) |-> IF x = k + 1 THEN b ELSE own[x]]
                         /\ off2 = [x \in 1..(k + 1) |-> IF x = k + 1 THEN Len(s) ELSE off[x]]
  OBVIOUS
<1>19. /\ own2 \in [1..(k + 1) -> 1..n] /\ off2 \in [1..(k + 1) -> Nat]
       /\ own2[k + 1] = b /\ off2[k + 1] = Len(s)
       /\ \A x \in 1..k : x \in 1..(k + 1) /\ own2[x] = own[x] /\ off2[x] = off[x]
  <2>1. k + 1 \in 1..(k + 1) /\ \A x \in 1..k : x \in 1..(k + 1) /\ x # k + 1
    OBVIOUS
  <2>2. \A x \in 1..(k + 1) : x = k + 1 \/ x \in 1..k
    OBVIOUS
  <2>3. own2 \in [1..(k + 1) -> 1..n]
    BY <1>7, <1>18, <2>2
  <2>4. off2 \in [1..(k + 1) -> Nat]
    <3>1. ASSUME NEW x \in 1..(k + 1) PROVE off2[x] \in Nat
      BY <1>14, <1>18, <2>2
    <3> QED BY <1>18, <3>1
  <2> QED BY <1>18, <2>1, <2>3, <2>4
<1>20. Placed(q.chain, gs, k + 1, own2, off2)
  <2>1. ASSUME NEW x \in 1..k
        PROVE  /\ off[x] + Len(gs[x]) <= Len(chain[own[x]])
               /\ \A m \in 1..Len(gs[x]) : chain[own[x]][off[x] + m] = gs[x][m]
    BY <1>2 DEF Placed
  <2>2. ASSUME NEW x \in 1..k
        PROVE  /\ off2[x] + Len(gs[x]) <= Len(q.chain[own2[x]])
               /\ \A m \in 1..Len(gs[x]) : q.chain[own2[x]][off2[x] + m] = gs[x][m]
    <3>1. own[x] \in 1..n /\ off[x] \in Nat /\ own2[x] = own[x] /\ off2[x] = off[x] /\ Len(gs[x]) \in Nat
      BY <1>5, <1>19
    <3>2. CASE own[x] = b
      <4>1. off[x] + Len(gs[x]) <= Len(s) /\ \A m \in 1..Len(gs[x]) : s[off[x] + m] = gs[x][m]
        BY <1>10, <2>1, <3>2
      <4>2. ASSUME NEW m \in 1..Len(gs[x]) PROVE off[x] + m \in 1..Len(s)
        <5>1. PICK o, w, y : o = off[x] /\ w = Len(gs[x]) /\ y = Len(s)
          OBVIOUS
        <5>2. o \in Nat /\ w \in Nat /\ y \in Nat /\ m \in 1..w /\ o + w <= y
          BY <1>14, <3>1, <4>1, <5>1
        <5>3. o + m \in 1..y
          BY <5>2
        <5> QED BY <5>1, <5>3
      <4>3. \A m \in 1..Len(gs[x]) : (s \o g)[off[x] + m] = gs[x][m]
        BY <1>14, <4>1, <4>2
      <4>4. off[x] + Len(gs[x]) <= Len(s \o g)
        <5>1. PICK z, y, w : z = off[x] + Len(gs[x]) /\ y = Len(s) /\ w = Len(g)
          OBVIOUS
        <5>2. z \in Nat
          <6>1. PICK o, l : o = off[x] /\ l = Len(gs[x])
            OBVIOUS
          <6>2. o \in Nat /\ l \in Nat /\ z = o + l
            BY <3>1, <5>1, <6>1
          <6> QED BY <6>2
        <5>3. y \in Nat /\ w \in Nat /\ Len(s \o g) = y + w
          BY <1>14, <5>1
        <5>4. z <= y
          BY <4>1, <5>1
        <5>5. z <= y + w
          BY <5>2, <5>3, <5>4
        <5> QED BY <5>1, <5>3, <5>5
      <4> QED BY <1>16, <3>1, <3>2, <4>3, <4>4
    <3>3. CASE own[x] # b
      BY <1>16, <2>1, <3>1, <3>3
    <3> QED BY <3>2, <3>3
  <2>3. /\ off2[k + 1] + Len(gs[k + 1]) <= Len(q.chain[own2[k + 1]])
        /\ \A m \in 1..Len(gs[k + 1]) : q.chain[own2[k + 1]][off2[k + 1] + m] = gs[k + 1][m]
    <3>1. Len(s) + Len(g) <= Len(s \o g)
      BY <1>14
    <3>2. q.chain[own2[k + 1]] = s \o g /\ off2[k + 1] = Len(s)
      BY <1>16, <1>19
    <3> QED BY <1>4, <1>14, <3>1, <3>2
  <2>4. ASSUME NEW x \in 1..(k + 1) PROVE x = k + 1 \/ x \in 1..k
    OBVIOUS
  <2>5. ASSUME NEW c \in 1..n, NEW x \in 1..Len(chain[c])
        PROVE  \E h \in 1..k : own[h] = c /\ off[h] < x /\ x <= off[h] + Len(gs[h])
    <3>1. DOMAIN chain = 1..n
      OBVIOUS
    <3> QED BY <1>2, <3>1 DEF Placed
  <2>6. ASSUME NEW c \in 1..n, NEW x \in 1..Len(q.chain[c])
        PROVE  \E h \in 1..(k + 1) : own2[h] = c /\ off2[h] < x /\ x <= off2[h] + Len(gs[h])
    <3>1. CASE x \in 1..Len(chain[c])
      <4>1. PICK h \in 1..k : own[h] = c /\ off[h] < x /\ x <= off[h] + Len(gs[h])
        BY <2>5, <3>1
      <4> QED BY <1>19, <4>1
    <3>2. CASE ~ (x \in 1..Len(chain[c]))
      <4>1. c = b
        BY <1>16, <3>2
      <4>2. x \in 1..(Len(s) + Len(g)) /\ ~ (x \in 1..Len(s))
        BY <1>10, <1>14, <1>16, <3>2, <4>1
      <4>3. Len(s) < x /\ x <= Len(s) + Len(g)
        BY <1>14, <4>2
      <4>4. k + 1 \in 1..(k + 1)
        OBVIOUS
      <4> QED BY <1>4, <1>19, <4>1, <4>3, <4>4
    <3> QED BY <3>1, <3>2
  <2>7. DOMAIN q.chain = 1..n
    BY <1>15
  <2>8. \A x \in 1..(k + 1) :
           /\ off2[x] + Len(gs[x]) <= Len(q.chain[own2[x]])
           /\ \A m \in 1..Len(gs[x]) : q.chain[own2[x]][off2[x] + m] = gs[x][m]
    BY <2>2, <2>3, <2>4
  <2> QED BY <2>6, <2>7, <2>8 DEF Placed
<1> QED BY <1>4, <1>9, <1>15, <1>17, <1>19, <1>20 DEF Shared

(* The groups handed out one after the other.                              *)
Given(outs, n, gs, top) ==
    outs = [k \in 0..top |->
             IF k = 0 THEN [load |-> [c \in 1..n |-> 0], chain |-> [c \in 1..n |-> << >>]]
             ELSE Give(outs[k - 1], gs[k])]

LEMMA GivenExists ==
    ASSUME NEW n, NEW gs, NEW top \in Nat
    PROVE  \E outs : Given(outs, n, gs, top)
<1>1. SUFFICES ASSUME {m \in Nat : ~ \E outs : Given(outs, n, gs, m)} # {} PROVE FALSE
  OBVIOUS
<1>2. PICK Cs : Cs = {m \in Nat : ~ \E outs : Given(outs, n, gs, m)}
  OBVIOUS
<1>3. PICK m \in Cs : \A y \in Cs : m <= y
  BY <1>1, <1>2, LeastOfSet
<1>4. m \in Nat /\ ~ \E outs : Given(outs, n, gs, m)
  BY <1>2, <1>3
<1>5. PICK none : none = [load |-> [c \in 1..n |-> 0], chain |-> [c \in 1..n |-> << >>]]
  OBVIOUS
<1>6. CASE m = 0
  <2>1. PICK outs : outs = [k \in 0..0 |-> none]
    OBVIOUS
  <2>2. Given(outs, n, gs, 0)
    BY <1>5, <2>1 DEF Given
  <2> QED BY <1>4, <1>6, <2>2
<1>7. CASE m # 0
  <2>1. m - 1 \in Nat /\ ~ (m <= m - 1)
    BY <1>4, <1>7
  <2>2. m - 1 \notin Cs
    BY <1>3, <2>1
  <2>3. PICK p : Given(p, n, gs, m - 1)
    BY <1>2, <2>1, <2>2
  <2>4. PICK outs : outs = [k \in 0..m |-> IF k = m THEN Give(p[m - 1], gs[m]) ELSE p[k]]
    OBVIOUS
  <2>5. ASSUME NEW k \in 0..m
        PROVE  outs[k] = IF k = 0 THEN none ELSE Give(outs[k - 1], gs[k])
    <3>1. CASE k = m
      <4>1. outs[m - 1] = p[m - 1] /\ outs[m] = Give(p[m - 1], gs[m])
        BY <1>4, <1>7, <2>1, <2>4
      <4> QED BY <1>7, <3>1, <4>1
    <3>2. CASE k # m
      <4>1. k \in 0..(m - 1) /\ outs[k] = p[k]
        BY <1>4, <2>4, <3>2
      <4>2. p[k] = IF k = 0 THEN none ELSE Give(p[k - 1], gs[k])
        BY <1>5, <2>3, <4>1 DEF Given
      <4>3. k # 0 => outs[k - 1] = p[k - 1]
        BY <1>4, <2>4, <4>1
      <4> QED BY <4>1, <4>2, <4>3
    <3> QED BY <3>1, <3>2
  <2>6. Given(outs, n, gs, m)
    BY <1>5, <2>4, <2>5 DEF Given
  <2> QED BY <1>4, <2>6
<1> QED BY <1>6, <1>7

LEMMA ChainsAreShared ==
    ASSUME NEW gs, GroupList(gs), NEW n \in Nat \ {0}, n = NcOf(gs)
    PROVE  \E p : Shared(p, n, gs, Len(gs)) /\ ChainsOf(gs) = p.chain
<1>1. Len(gs) \in Nat
  BY LenProperties DEF GroupList
<1>2. PICK outs : /\ ChainsOf(gs) = outs[Len(gs)].chain
                 /\ outs = CHOOSE o : o = [k \in 0..Len(gs) |->
                      IF k = 0 THEN [load |-> [c \in 1..n |-> 0], chain |-> [c \in 1..n |-> << >>]]
                      ELSE Give(o[k - 1], gs[k])]
  BY DEF ChainsOf
<1>3. outs = CHOOSE o : Given(o, n, gs, Len(gs))
  BY <1>2 DEF Given
<1>4. Given(outs, n, gs, Len(gs))
  <2>1. \E o : Given(o, n, gs, Len(gs))
    BY <1>1, GivenExists
  <2> QED BY <1>3, <2>1
<1>5. Shared(outs[0], n, gs, 0)
  <2>1. outs[0] = [load |-> [c \in 1..n |-> 0], chain |-> [c \in 1..n |-> << >>]]
    BY <1>1, <1>4 DEF Given
  <2>2. PICK p : p = outs[0]
    OBVIOUS
  <2>3. p.load = [c \in 1..n |-> 0] /\ p.chain = [c \in 1..n |-> << >>]
    BY <2>1, <2>2
  <2>4. << >> \in Seq(Nat) /\ Len(<< >>) = 0
    BY EmptySeq
  <2>5. p.load \in [1..n -> Nat] /\ p.chain \in [1..n -> Seq(Nat)]
    BY <2>3, <2>4
  <2>6. \A c \in 1..n : ~ (p.load[c] > 0) /\ p.chain[c] = << >> /\ ~ (c <= 0)
    BY <2>3
  <2>7. PICK own, off : own = [g \in 1..0 |-> 1] /\ off = [g \in 1..0 |-> 0]
    OBVIOUS
  <2>8. own \in [1..0 -> 1..n] /\ off \in [1..0 -> Nat]
    BY <2>7
  <2>9. Placed(p.chain, gs, 0, own, off)
    BY <2>4, <2>5, <2>6 DEF Placed
  <2> QED BY <2>2, <2>5, <2>6, <2>8, <2>9 DEF Shared
<1>6. PICK Cs : Cs = {k \in 0..Len(gs) : ~Shared(outs[k], n, gs, k)}
  OBVIOUS
<1>7. ASSUME Cs # {} PROVE FALSE
  <2>1. Cs \subseteq Nat
    BY <1>6
  <2>2. PICK m \in Cs : \A y \in Cs : m <= y
    BY <1>7, <2>1, LeastOfSet
  <2>3. m \in 0..Len(gs) /\ ~Shared(outs[m], n, gs, m)
    BY <1>6, <2>2
  <2>4. m # 0
    BY <1>5, <2>3
  <2>5. PICK k : k = m - 1
    OBVIOUS
  <2>6. k \in Nat /\ k \in 0..Len(gs) /\ k < Len(gs) /\ m = k + 1 /\ ~ (m <= k)
    BY <1>1, <2>3, <2>4, <2>5
  <2>7. Shared(outs[k], n, gs, k)
    BY <1>6, <2>2, <2>6
  <2>8. outs[m] = Give(outs[k], gs[k + 1])
    BY <1>4, <2>3, <2>4, <2>5, <2>6 DEF Given
  <2> QED BY <2>3, <2>6, <2>7, <2>8, GiveKeeps
<1>8. Shared(outs[Len(gs)], n, gs, Len(gs))
  BY <1>1, <1>6, <1>7
<1> QED BY <1>2, <1>8

(* Handing the groups out keeps them whole.                                *)
LEMMA ChainsAreWhole ==
    ASSUME SeqAssumption, NEW gs \in Seq(Seq(Nat)), gs # << >>, Whole(gs)
    PROVE  Whole(ChainsOf(gs))
<1>1. PICK n : n = NcOf(gs)
  OBVIOUS
<1>2. n \in Nat \ {0} /\ n <= Len(gs) /\ Len(gs) \in Nat /\ DOMAIN gs = 1..Len(gs)
  BY <1>1, NcIs, LenProperties
<1>3. GroupList(gs)
  BY <1>2 DEF GroupList, Whole
<1>4. PICK p : Shared(p, n, gs, Len(gs)) /\ ChainsOf(gs) = p.chain
  BY <1>1, <1>2, <1>3, ChainsAreShared
<1>5. PICK chain \in [1..n -> Seq(Nat)] : p.chain = chain
  BY <1>4 DEF Shared
<1>6. PICK own \in [1..Len(gs) -> 1..n], off \in [1..Len(gs) -> Nat] : Placed(chain, gs, Len(gs), own, off)
  BY <1>4, <1>5 DEF Shared
<1>7. \A c \in 1..n : chain[c] \in Seq(Nat) /\ chain[c] # << >> /\ IsMm(Last(chain[c]))
  <2>1. \A c \in 1..n : c <= Len(gs)
    BY <1>2
  <2> QED BY <1>4, <1>5, <2>1 DEF Shared
<1>8. ASSUME NEW c \in 1..n, NEW x \in 1..Len(chain[c])
      PROVE  \E g \in 1..Len(gs), m \in Nat :
                m \in 1..Len(gs[g]) /\ own[g] = c /\ x = off[g] + m /\ chain[c][x] = gs[g][m]
  <2>1. DOMAIN chain = 1..n
    OBVIOUS
  <2>2. PICK g \in 1..Len(gs) : own[g] = c /\ off[g] < x /\ x <= off[g] + Len(gs[g])
    BY <1>6, <2>1 DEF Placed
  <2>3. off[g] \in Nat /\ Len(gs[g]) \in Nat /\ x \in Nat
    <3>1. gs[g] \in Seq(Nat)
      BY <1>2, ElementOfSeq
    <3>2. chain[c] \in Seq(Nat)
      OBVIOUS
    <3>3. Len(gs[g]) \in Nat /\ Len(chain[c]) \in Nat
      BY <3>1, <3>2, LenProperties
    <3>4. off[g] \in Nat
      OBVIOUS
    <3>5. PICK l : l = Len(chain[c])
      OBVIOUS
    <3>6. l \in Nat /\ x \in 1..l
      BY <3>3, <3>5
    <3>7. x \in Nat
      BY <3>6
    <3> QED BY <3>3, <3>4, <3>7
  <2>4. PICK m : m = x - off[g]
    OBVIOUS
  <2>5. m \in Nat /\ m \in 1..Len(gs[g]) /\ x = off[g] + m
    BY <2>2, <2>3, <2>4
  <2>6. chain[own[g]][off[g] + m] = gs[g][m]
    BY <1>6, <2>5 DEF Placed
  <2> QED BY <2>2, <2>5, <2>6
<1>9. ASSUME NEW c \in 1..n, NEW d \in 1..n, NEW x \in 1..Len(chain[c]), NEW y \in 1..Len(chain[d]),
             chain[c][x] # Witness, chain[c][x] = chain[d][y]
      PROVE  c = d /\ x = y
  <2>1. PICK g \in 1..Len(gs), m \in Nat :
          m \in 1..Len(gs[g]) /\ own[g] = c /\ x = off[g] + m /\ chain[c][x] = gs[g][m]
    BY <1>8
  <2>2. PICK h \in 1..Len(gs), l \in Nat :
          l \in 1..Len(gs[h]) /\ own[h] = d /\ y = off[h] + l /\ chain[d][y] = gs[h][l]
    BY <1>8
  <2>3. g = h /\ m = l
    <3>1. g \in DOMAIN gs /\ h \in DOMAIN gs /\ gs[g][m] # Witness /\ gs[g][m] = gs[h][l]
      BY <1>2, <1>9, <2>1, <2>2
    <3>2. \A k \in 1..Len(gs[g]), z \in 1..Len(gs[h]) : gs[g][k] # Witness /\ gs[g][k] = gs[h][z] => g = h /\ k = z
      BY <3>1, Zenon DEF Whole
    <3> QED BY <2>1, <2>2, <3>1, <3>2
  <2> QED BY <2>1, <2>2, <2>3
<1>10. ASSUME NEW c \in 1..n, NEW d \in 1..n, NEW x \in 1..Len(chain[c]), NEW y \in 1..Len(chain[d]),
              chain[c][x] # Witness, chain[d][y] = chain[c][x] + 1,
              seq[chain[c][x]].group = seq[chain[d][y]].group
       PROVE  d = c /\ y = x + 1
  <2>1. PICK g \in 1..Len(gs), m \in Nat :
          m \in 1..Len(gs[g]) /\ own[g] = c /\ x = off[g] + m /\ chain[c][x] = gs[g][m]
    BY <1>8
  <2>2. PICK h \in 1..Len(gs), l \in Nat :
          l \in 1..Len(gs[h]) /\ own[h] = d /\ y = off[h] + l /\ chain[d][y] = gs[h][l]
    BY <1>8
  <2>3. h = g /\ l = m + 1
    <3>1. /\ g \in DOMAIN gs /\ h \in DOMAIN gs /\ gs[g][m] # Witness
          /\ gs[h][l] = gs[g][m] + 1 /\ seq[gs[g][m]].group = seq[gs[h][l]].group
      BY <1>2, <1>10, <2>1, <2>2
    <3>2. \A k \in 1..Len(gs[g]), z \in 1..Len(gs[h]) :
            gs[g][k] # Witness /\ gs[h][z] = gs[g][k] + 1 /\ seq[gs[g][k]].group = seq[gs[h][z]].group
              => h = g /\ z = k + 1
      BY <3>1, Zenon DEF Whole
    <3> QED BY <2>1, <2>2, <3>1, <3>2
  <2>4. off[g] + (m + 1) = (off[g] + m) + 1
    <3>1. off[g] \in Nat
      OBVIOUS
    <3> QED BY <3>1
  <2> QED BY <2>1, <2>2, <2>3, <2>4
<1>11. Whole(chain)
  <2>1. DOMAIN chain = 1..n
    OBVIOUS
  <2>2. \A c, d \in DOMAIN chain : \A k \in 1..Len(chain[c]), l \in 1..Len(chain[d]) :
         chain[c][k] # Witness /\ chain[c][k] = chain[d][l] => c = d /\ k = l
    BY <1>9, <2>1
  <2>3. \A c, d \in DOMAIN chain : \A k \in 1..Len(chain[c]), l \in 1..Len(chain[d]) :
         chain[c][k] # Witness /\ chain[d][l] = chain[c][k] + 1 /\ seq[chain[c][k]].group = seq[chain[d][l]].group
           => d = c /\ l = k + 1
    BY <1>10, <2>1
  <2> QED BY <1>7, <2>1, <2>2, <2>3 DEF Whole
<1> QED BY <1>4, <1>5, <1>11

-----------------------------------------------------------------------------
(* Submits.                                                                *)
LEMMA Later ==
    ASSUME Input, NEW t, NEW lo \in 0..N, NEW hi \in 0..N, lo <= hi, Dealt(t, lo), t.rc # 0
    PROVE  Dealt(t, hi)
<1>1. 1..lo \subseteq 1..hi
  BY DEF Input
<1>2. t.log \in Seq(1..lo)
  BY DEF Dealt, Kept
<1>3. t.log \in Seq(1..hi)
  BY <1>1, <1>2, SeqMonotonic
<1> QED BY <1>1, <1>3 DEF Dealt, Kept, Sighted

LEMMA TroubleIs ==
    ASSUME NEW t, NEW lo, Dealt(t, lo), NEW v \in Trouble(t)
    PROVE  Dealt(v, lo) /\ v.batch = t.batch /\ v.rc = t.rc /\ v.lost = t.lost
<1>1. v = [t EXCEPT !.refused = t.refused + 1]
  BY DEF Trouble
<1>2. t = [batch |-> t.batch, rc |-> t.rc, log |-> t.log, landed |-> t.landed, saw |-> t.saw,
            chains |-> t.chains, lost |-> t.lost, refused |-> t.refused]
  BY DEF Dealt, Kept
<1>3. v = [batch |-> t.batch, rc |-> t.rc, log |-> t.log, landed |-> t.landed, saw |-> t.saw,
            chains |-> t.chains, lost |-> t.lost, refused |-> t.refused + 1]
  BY <1>1, <1>2
<1> QED BY <1>2, <1>3 DEF Dealt, Kept, Sighted

(* Ops lo + 1 .. hi, built together.                                       *)
LEMMA SubmitIs ==
    ASSUME Input, NEW t, NEW lo \in 0..N, NEW hi \in 0..N, lo <= hi, Dealt(t, lo), NEW ok \in BOOLEAN
    PROVE  LET u == Submit(t, Span(lo, hi), ok)
           IN  /\ Kept(u, hi) /\ u.batch = t.batch /\ u.rc = t.rc /\ u.lost = t.lost
               /\ ok /\ Ready(lo, hi) => Sighted(u, hi)
<1>1. PICK z : z = Span(lo, hi)
  OBVIOUS
<1>2. lo \in Nat /\ hi \in Nat
  BY DEF Input
<1>3. Range(z) = (lo + 1)..hi
  BY <1>1, <1>2, SpanIs
<1>4. PICK saw : saw = [i \in DOMAIN t.saw |-> IF i \in Range(z) THEN seq[i].src \cap t.landed ELSE t.saw[i]]
  OBVIOUS
<1>5. PICK landed : landed = IF ok THEN t.landed \cup Range(z) ELSE t.landed
  OBVIOUS
<1>6. PICK u : u = Submit(t, z, ok)
  OBVIOUS
<1>7. t = [batch |-> t.batch, rc |-> t.rc, log |-> t.log, landed |-> t.landed, saw |-> t.saw,
            chains |-> t.chains, lost |-> t.lost, refused |-> t.refused]
  BY DEF Dealt, Kept
<1>8. u = [t EXCEPT !.log = t.log \o z, !.saw = saw, !.landed = landed]
  BY <1>4, <1>5, <1>6 DEF Submit
<1>9. u = [batch |-> t.batch, rc |-> t.rc, log |-> t.log \o z, landed |-> landed, saw |-> saw,
            chains |-> t.chains, lost |-> t.lost, refused |-> t.refused]
  BY <1>7, <1>8
<1>10. t.log \o z \in Seq(1..hi) /\ Rising(t.log \o z)
  BY <1>1, <1>2, RisingOn DEF Dealt, Kept
<1>11. t.rc = 0 => t.log \o z = Span(0, hi)
  <2>1. t.rc = 0 => t.log = Span(0, lo)
    BY DEF Dealt, Kept
  <2>2. Span(0, lo) \o z = Span(0, hi)
    <3>1. 0 \in Nat /\ 0 <= lo
      BY <1>2
    <3> QED BY <1>1, <1>2, <3>1, SpanJoins
  <2> QED BY <2>1, <2>2
<1>12. t.landed \subseteq 1..lo /\ t.saw \in [1..N -> SUBSET (1..N)] /\ N \in Nat
  BY DEF Dealt, Kept, Input
<1>13. landed \subseteq 1..hi
  BY <1>2, <1>3, <1>5, <1>12
<1>14. saw \in [1..N -> SUBSET (1..N)]
  BY <1>4, <1>12
<1>15. Kept(u, hi)
  <2>1. t.rc \in {0, -1, -3} /\ t.lost \in BOOLEAN /\ Whole(t.chains)
    BY DEF Dealt, Kept
  <2> QED BY <1>9, <1>10, <1>11, <1>13, <1>14, <2>1 DEF Kept
<1>16. ASSUME ok, Ready(lo, hi), t.rc = 0, ~t.lost
       PROVE  landed = 1..hi /\ \A i \in 1..hi : seq[i].group = 0 => saw[i] = seq[i].src
  <2>1. t.landed = 1..lo /\ \A i \in 1..lo : seq[i].group = 0 => t.saw[i] = seq[i].src
    BY <1>16 DEF Dealt, Sighted
  <2>2. landed = 1..hi
    BY <1>2, <1>3, <1>5, <1>16, <2>1
  <2>3. ASSUME NEW i \in 1..hi, seq[i].group = 0 PROVE saw[i] = seq[i].src
    <3>1. i \in DOMAIN t.saw
      BY <1>2, <1>12
    <3>2. CASE i \in (lo + 1)..hi
      BY <1>3, <1>4, <1>16, <2>1, <2>3, <3>1, <3>2 DEF Ready
    <3>3. CASE i \in 1..lo
      <4>1. i \notin Range(z)
        BY <1>2, <1>3, <3>3
      <4> QED BY <1>4, <2>1, <2>3, <3>1, <3>3, <4>1
    <3> QED BY <1>2, <3>2, <3>3
  <2> QED BY <2>2, <2>3
<1>17. ok /\ Ready(lo, hi) => Sighted(u, hi)
  BY <1>9, <1>16 DEF Sighted
<1> QED BY <1>1, <1>6, <1>9, <1>15, <1>17

(* What comes before, and not a matmul, is not in a batch of matmuls.      *)
LEMMA ReadsBefore ==
    ASSUME Input, NEW lo \in 0..N, NEW hi \in 0..N, Gathered(lo, hi) \/ hi <= lo + 1
    PROVE  Ready(lo, hi)
<1>1. ASSUME NEW i \in (lo + 1)..hi, NEW j \in seq[i].src PROVE j \in 1..lo
  <2>1. i \in 1..N /\ N \in Nat
    BY DEF Input
  <2>2. j \in 1..(i - 1) /\ ~IsMatmul(seq[j])
    BY <1>1, <2>1 DEF Input
  <2>3. j \notin (lo + 1)..hi
    BY <2>1, <2>2 DEF Gathered
  <2> QED BY <2>1, <2>2, <2>3
<1> QED BY <1>1 DEF Ready

(* A submit that landed.                                                   *)
Went(u, t, is) == u = Submit(t, is, TRUE)

LEMMA Taken ==
    ASSUME Input, NEW t, NEW lo \in 0..N, NEW hi \in 0..N, lo <= hi, Dealt(t, lo), Ready(lo, hi),
           NEW is, is = Span(lo, hi), NEW u, Went(u, t, is)
    PROVE  Dealt(u, hi) /\ u.batch = t.batch /\ u.rc = t.rc
<1>1. Kept(u, hi) /\ u.batch = t.batch /\ u.rc = t.rc /\ Sighted(u, hi)
  BY SubmitIs DEF Went
<1> QED BY <1>1 DEF Dealt

(* A submit that went wrong, and was noted.                                *)
WentWrong(u, v, is) ==
    \/ u = [Submit(v, is, FALSE) EXCEPT !.lost = TRUE]
    \/ u = [Submit(v, is, FALSE) EXCEPT !.rc = -1]

LEMMA Noted ==
    ASSUME Input, NEW t, NEW lo \in 0..N, NEW hi \in 0..N, lo <= hi, Dealt(t, lo), NEW v \in Trouble(t),
           NEW is, is = Span(lo, hi), NEW u, WentWrong(u, v, is)
    PROVE  Dealt(u, hi) /\ u.batch = t.batch
<1>1. Dealt(v, lo) /\ v.batch = t.batch
  BY TroubleIs
<1>2. PICK w : w = Submit(v, is, FALSE)
  OBVIOUS
<1>3. Kept(w, hi) /\ w.batch = v.batch
  BY <1>1, <1>2, SubmitIs
<1>4. w = [batch |-> w.batch, rc |-> w.rc, log |-> w.log, landed |-> w.landed, saw |-> w.saw,
            chains |-> w.chains, lost |-> w.lost, refused |-> w.refused]
  BY <1>3 DEF Kept
<1>5. CASE u = [w EXCEPT !.lost = TRUE]
  <2>1. u = [batch |-> w.batch, rc |-> w.rc, log |-> w.log, landed |-> w.landed, saw |-> w.saw,
            chains |-> w.chains, lost |-> TRUE, refused |-> w.refused]
    BY <1>4, <1>5
  <2> QED BY <1>1, <1>3, <2>1 DEF Dealt, Kept, Sighted
<1>6. CASE u = [w EXCEPT !.rc = -1]
  <2>1. u = [batch |-> w.batch, rc |-> -1, log |-> w.log, landed |-> w.landed, saw |-> w.saw,
            chains |-> w.chains, lost |-> w.lost, refused |-> w.refused]
    BY <1>4, <1>6
  <2> QED BY <1>1, <1>3, <2>1 DEF Dealt, Kept, Sighted
<1> QED BY <1>2, <1>5, <1>6 DEF WentWrong

LEMMA DoorbellIs ==
    ASSUME Input, NEW t, NEW lo \in 0..N, NEW hi \in 0..N, lo <= hi, Dealt(t, lo), Ready(lo, hi),
           NEW u \in Doorbell(t, Span(lo, hi))
    PROVE  Dealt(u, hi) /\ u.batch = t.batch
<1>1. CASE Went(u, t, Span(lo, hi))
  BY <1>1, Taken
<1>2. ASSUME NEW v \in Trouble(t), WentWrong(u, v, Span(lo, hi))
      PROVE  Dealt(u, hi) /\ u.batch = t.batch
  BY <1>2, Noted
<1>3. Went(u, t, Span(lo, hi)) \/ \E v \in Trouble(t) : WentWrong(u, v, Span(lo, hi))
  BY DEF Doorbell, Went, WentWrong
<1> QED BY <1>1, <1>2, <1>3

LEMMA DispatchIs ==
    ASSUME Input, NEW t, NEW i \in 1..N, Dealt(t, i - 1), NEW u \in Dispatch(t, i)
    PROVE  Dealt(u, i) /\ u.batch = t.batch
<1>1. i - 1 \in 0..N /\ i \in 0..N /\ i \in Nat \ {0} /\ i - 1 <= i /\ i <= (i - 1) + 1
  BY DEF Input
<1>2. <<i>> = Span(i - 1, i) /\ Ready(i - 1, i)
  BY <1>1, SpanOne, ReadsBefore
<1>3. CASE t.rc # 0
  <2>1. u = t
    BY <1>3 DEF Dispatch
  <2> QED BY <1>1, <1>3, <2>1, Later
<1>4. CASE t.rc = 0 /\ u = [t EXCEPT !.rc = -3]
  <2>1. t = [batch |-> t.batch, rc |-> t.rc, log |-> t.log, landed |-> t.landed, saw |-> t.saw,
            chains |-> t.chains, lost |-> t.lost, refused |-> t.refused]
    BY DEF Dealt, Kept
  <2>2. u = [batch |-> t.batch, rc |-> -3, log |-> t.log, landed |-> t.landed, saw |-> t.saw,
            chains |-> t.chains, lost |-> t.lost, refused |-> t.refused]
    BY <1>4, <2>1
  <2>3. Dealt(u, i - 1)
    BY <2>2 DEF Dealt, Kept, Sighted
  <2> QED BY <1>1, <2>2, <2>3, Later
<1>5. CASE Went(u, t, <<i>>)
  BY <1>1, <1>2, <1>5, Taken
<1>6. ASSUME NEW v \in Trouble(t), WentWrong(u, v, <<i>>)
      PROVE  Dealt(u, i) /\ u.batch = t.batch
  BY <1>1, <1>2, <1>6, Noted
<1>7. \/ t.rc # 0
      \/ t.rc = 0 /\ u = [t EXCEPT !.rc = -3]
      \/ Went(u, t, <<i>>) \/ \E v \in Trouble(t) : WentWrong(u, v, <<i>>)
  <2>1. CASE t.rc # 0
    BY <2>1, Zenon
  <2>2. CASE t.rc = 0 /\ seq[i].kind = "unwired"
    BY <2>2 DEF Dispatch
  <2>3. CASE t.rc = 0 /\ seq[i].kind # "unwired"
    <3>1. u \in {Submit(t, <<i>>, TRUE)} \cup {[Submit(v, <<i>>, FALSE) EXCEPT !.rc = -1] : v \in Trouble(t)}
      BY <2>3 DEF Dispatch
    <3>2. u = Submit(t, <<i>>, TRUE) \/ \E v \in Trouble(t) : u = [Submit(v, <<i>>, FALSE) EXCEPT !.rc = -1]
      BY <3>1
    <3> QED BY <3>2 DEF Went, WentWrong
  <2> QED BY <2>1, <2>2, <2>3
<1> QED BY <1>3, <1>4, <1>5, <1>6, <1>7

LEMMA ByItselfIs ==
    ASSUME Input, NEW t, NEW i \in 1..N, Dealt(t, i - 1), NEW u \in ByItself(t, i)
    PROVE  Dealt(u, i) /\ u.batch = t.batch
<1>1. i - 1 \in 0..N /\ i \in 0..N /\ i \in Nat \ {0} /\ i - 1 <= i /\ i <= (i - 1) + 1
  BY DEF Input
<1>2. <<i>> = Span(i - 1, i) /\ Ready(i - 1, i)
  BY <1>1, SpanOne, ReadsBefore
<1>3. CASE u \in Doorbell(t, <<i>>)
  BY <1>1, <1>2, <1>3, DoorbellIs
<1>4. ASSUME NEW v \in Trouble(t), u \in Dispatch(v, i)
      PROVE  Dealt(u, i) /\ u.batch = t.batch
  <2>1. Dealt(v, i - 1) /\ v.batch = t.batch
    BY <1>4, TroubleIs
  <2> QED BY <1>4, <2>1, DispatchIs
<1>5. CASE u \in Dispatch(t, i)
  BY <1>5, DispatchIs
<1> QED BY <1>3, <1>4, <1>5 DEF ByItself

-----------------------------------------------------------------------------
(* One op after another.                                                   *)
OneOf(u, i, grouped) == IF grouped THEN ByItself(u, i) ELSE Dispatch(u, i)
Turns(outs, t, is, grouped, n) ==
    outs = [k \in 0..n |-> IF k = 0 THEN {t} ELSE UNION {OneOf(u, is[k], grouped) : u \in outs[k - 1]}]

LEMMA TurnsExist ==
    ASSUME NEW t, NEW is, NEW grouped, NEW n \in Nat
    PROVE  \E outs : Turns(outs, t, is, grouped, n)
<1>1. SUFFICES ASSUME {m \in Nat : ~ \E outs : Turns(outs, t, is, grouped, m)} # {} PROVE FALSE
  OBVIOUS
<1>2. PICK Cs : Cs = {m \in Nat : ~ \E outs : Turns(outs, t, is, grouped, m)}
  OBVIOUS
<1>3. PICK m \in Cs : \A y \in Cs : m <= y
  BY <1>1, <1>2, LeastOfSet
<1>4. m \in Nat /\ ~ \E outs : Turns(outs, t, is, grouped, m)
  BY <1>2, <1>3
<1>5. CASE m = 0
  <2>1. PICK outs : outs = [k \in 0..0 |-> {t}]
    OBVIOUS
  <2>2. Turns(outs, t, is, grouped, 0)
    BY <2>1 DEF Turns
  <2> QED BY <1>4, <1>5, <2>2
<1>6. CASE m # 0
  <2>1. m - 1 \in Nat /\ ~ (m <= m - 1)
    BY <1>4, <1>6
  <2>2. m - 1 \notin Cs
    BY <1>3, <2>1
  <2>3. PICK p : Turns(p, t, is, grouped, m - 1)
    BY <1>2, <2>1, <2>2
  <2>4. PICK outs : outs = [k \in 0..m |-> IF k = m THEN UNION {OneOf(u, is[m], grouped) : u \in p[m - 1]} ELSE p[k]]
    OBVIOUS
  <2>5. ASSUME NEW k \in 0..m
        PROVE  outs[k] = IF k = 0 THEN {t} ELSE UNION {OneOf(u, is[k], grouped) : u \in outs[k - 1]}
    <3>1. CASE k = m
      <4>1. outs[m - 1] = p[m - 1] /\ outs[m] = UNION {OneOf(u, is[m], grouped) : u \in p[m - 1]}
        BY <1>4, <1>6, <2>1, <2>4
      <4> QED BY <1>6, <3>1, <4>1
    <3>2. CASE k # m
      <4>1. k \in 0..(m - 1) /\ outs[k] = p[k]
        BY <1>4, <2>4, <3>2
      <4>2. p[k] = IF k = 0 THEN {t} ELSE UNION {OneOf(u, is[k], grouped) : u \in p[k - 1]}
        BY <2>3, <4>1 DEF Turns
      <4>3. k # 0 => outs[k - 1] = p[k - 1]
        BY <1>4, <2>4, <4>1
      <4> QED BY <4>1, <4>2, <4>3
    <3> QED BY <3>1, <3>2
  <2>6. Turns(outs, t, is, grouped, m)
    BY <2>4, <2>5 DEF Turns
  <2> QED BY <1>4, <2>6
<1> QED BY <1>5, <1>6

LEMMA InTurnIs ==
    ASSUME NEW t, NEW is, NEW grouped, Len(is) \in Nat
    PROVE  \E outs : Turns(outs, t, is, grouped, Len(is)) /\ InTurn(t, is, grouped) = outs[Len(is)]
<1>1. PICK outs : /\ InTurn(t, is, grouped) = outs[Len(is)]
                 /\ outs = CHOOSE o : o = [k \in 0..Len(is) |->
                      IF k = 0 THEN {t}
                      ELSE UNION {(IF grouped THEN ByItself(u, is[k]) ELSE Dispatch(u, is[k])) : u \in o[k - 1]}]
  BY DEF InTurn
<1>2. outs = CHOOSE o : Turns(o, t, is, grouped, Len(is))
  BY <1>1 DEF Turns, OneOf
<1>3. \E o : Turns(o, t, is, grouped, Len(is))
  BY TurnsExist
<1> QED BY <1>1, <1>2, <1>3

LEMMA InTurnKeeps ==
    ASSUME Input, NEW t, NEW lo \in 0..N, NEW hi \in 0..N, lo <= hi, Dealt(t, lo), NEW grouped,
           NEW u \in InTurn(t, Span(lo, hi), grouped)
    PROVE  Dealt(u, hi) /\ u.batch = t.batch
<1>1. PICK is : is = Span(lo, hi)
  OBVIOUS
<1>2. lo \in Nat /\ hi \in Nat /\ N \in Nat
  BY DEF Input
<1>3. Len(is) = hi - lo /\ \A k \in 1..(hi - lo) : is[k] = lo + k
  BY <1>1, <1>2, SpanIs
<1>4. PICK outs : Turns(outs, t, is, grouped, hi - lo) /\ InTurn(t, is, grouped) = outs[hi - lo]
  <2>1. Len(is) \in Nat
    BY <1>2, <1>3
  <2> QED BY <1>3, <2>1, InTurnIs
<1>5. PICK Cs : Cs = {k \in 0..(hi - lo) : ~ \A v \in outs[k] : Dealt(v, lo + k) /\ v.batch = t.batch}
  OBVIOUS
<1>6. ASSUME Cs # {} PROVE FALSE
  <2>1. Cs \subseteq Nat
    BY <1>5
  <2>2. PICK m \in Cs : \A y \in Cs : m <= y
    BY <1>6, <2>1, LeastOfSet
  <2>3. m \in 0..(hi - lo) /\ ~ \A v \in outs[m] : Dealt(v, lo + m) /\ v.batch = t.batch
    BY <1>5, <2>2
  <2>4. m # 0
    <3>1. SUFFICES ASSUME m = 0 PROVE FALSE
      OBVIOUS
    <3>2. outs[0] = {t} /\ lo + 0 = lo
      BY <1>2, <1>4 DEF Turns
    <3> QED BY <2>3, <3>1, <3>2
  <2>5. m - 1 \in 0..(hi - lo) /\ ~ (m <= m - 1) /\ lo + (m - 1) = (lo + m) - 1 /\ lo + m \in 1..N /\ m \in 1..(hi - lo)
    BY <1>2, <2>3, <2>4
  <2>6. \A v \in outs[m - 1] : Dealt(v, (lo + m) - 1) /\ v.batch = t.batch
    BY <1>5, <2>2, <2>5
  <2>7. outs[m] = UNION {OneOf(v, lo + m, grouped) : v \in outs[m - 1]}
    BY <1>3, <1>4, <2>3, <2>4, <2>5 DEF Turns
  <2>8. ASSUME NEW v \in outs[m - 1], NEW w \in OneOf(v, lo + m, grouped)
        PROVE  Dealt(w, lo + m) /\ w.batch = t.batch
    BY <2>5, <2>6, DispatchIs, ByItselfIs DEF OneOf
  <2> QED BY <2>3, <2>7, <2>8
<1>7. \A v \in outs[hi - lo] : Dealt(v, lo + (hi - lo)) /\ v.batch = t.batch
  BY <1>2, <1>5, <1>6
<1>8. lo + (hi - lo) = hi
  BY <1>2
<1> QED BY <1>1, <1>4, <1>7, <1>8

-----------------------------------------------------------------------------
(* The batch and the grouped runs.                                         *)

(* A grouped run that is run in turn, and a batch that is refused.         *)
Turned(u, t, is) == \E grouped \in BOOLEAN : u \in InTurn(t, is, grouped)

LEMMA TurnedKeeps ==
    ASSUME Input, NEW t, NEW lo \in 0..N, NEW hi \in 0..N, lo <= hi, Dealt(t, lo),
           NEW is, is = Span(lo, hi), NEW u, Turned(u, t, is)
    PROVE  Dealt(u, hi) /\ u.batch = t.batch
<1>1. PICK grouped : u \in InTurn(t, Span(lo, hi), grouped)
  BY DEF Turned
<1> QED BY <1>1, InTurnKeeps

LEMMA FlushKeeps ==
    ASSUME Input, NEW t, NEW lo \in 0..N, NEW hi \in 0..N, lo <= hi, Dealt(t, lo),
           t.batch = Span(lo, hi), Gathered(lo, hi), NEW u \in SEQ_FLUSH_HW(t)
    PROVE  Dealt(u, hi) /\ u.batch = << >>
<1>1. PICK b : b = t.batch
  OBVIOUS
<1>2. lo \in Nat /\ hi \in Nat /\ N \in Nat
  BY DEF Input
<1>3. PICK e : e = [t EXCEPT !.batch = << >>]
  OBVIOUS
<1>4. Dealt(e, lo) /\ e.batch = << >>
  <2>1. t = [batch |-> t.batch, rc |-> t.rc, log |-> t.log, landed |-> t.landed, saw |-> t.saw,
            chains |-> t.chains, lost |-> t.lost, refused |-> t.refused]
    BY DEF Dealt, Kept
  <2>2. e = [batch |-> << >>, rc |-> t.rc, log |-> t.log, landed |-> t.landed, saw |-> t.saw,
            chains |-> t.chains, lost |-> t.lost, refused |-> t.refused]
    BY <1>3, <2>1
  <2> QED BY <2>2 DEF Dealt, Kept, Sighted
<1>5. Ready(lo, hi)
  BY ReadsBefore
<1>6. CASE b = << >>
  <2>1. u = t
    BY <1>1, <1>6 DEF SEQ_FLUSH_HW
  <2>2. Len(Span(lo, hi)) = hi - lo /\ Len(<< >>) = 0
    BY <1>2, SpanIs, EmptySeq
  <2>3. lo = hi
    BY <1>1, <1>2, <1>6, <2>2
  <2> QED BY <1>1, <1>6, <2>1, <2>3
<1>7. CASE b # << >> /\ u \in Doorbell(e, b)
  BY <1>1, <1>4, <1>5, <1>7, DoorbellIs
<1>8. ASSUME NEW v \in Trouble(e), Turned(u, v, b)
      PROVE  Dealt(u, hi) /\ u.batch = << >>
  <2>1. Dealt(v, lo) /\ v.batch = << >>
    BY <1>4, <1>8, TroubleIs
  <2> QED BY <1>1, <1>8, <2>1, TurnedKeeps
<1>9. \/ b = << >>
      \/ b # << >> /\ u \in Doorbell(e, b)
      \/ \E v \in Trouble(e) : Turned(u, v, b)
  <2>1. CASE b # << >>
    <3>1. u \in Doorbell(e, b) \cup UNION {InTurn(v, b, FALSE) : v \in Trouble(e)}
      BY <1>1, <1>3, <2>1 DEF SEQ_FLUSH_HW
    <3>2. u \in Doorbell(e, b) \/ \E v \in Trouble(e) : u \in InTurn(v, b, FALSE)
      BY <3>1
    <3> QED BY <2>1, <3>2 DEF Turned
  <2> QED BY <2>1
<1> QED BY <1>6, <1>7, <1>8, <1>9

LEMMA GroupedKeeps ==
    ASSUME Input, NEW t, NEW i \in 1..N, NEW j \in i..N, Dealt(t, i - 1),
           \A p \in i..j : seq[p].group > 0, NEW u \in Grouped(t, i, j)
    PROVE  Dealt(u, j) /\ u.batch = t.batch
<1>1. i - 1 \in 0..N /\ j \in 0..N /\ i - 1 <= j /\ j - i + 1 = j - (i - 1) /\ N \in Nat
  BY DEF Input
<1>2. PICK run : run = Span(i - 1, j)
  OBVIOUS
<1>3. [k \in 1..(j - i + 1) |-> i + k - 1] = run
  <2>1. \A k \in 1..(j - i + 1) : i + k - 1 = (i - 1) + k
    BY <1>1
  <2> QED BY <1>1, <1>2, <2>1 DEF Span
<1>4. PICK gs : gs = [g \in DOMAIN Groups(i, j) |-> Closed(Groups(i, j)[g])]
  OBVIOUS
<1>5. PICK e : e = [t EXCEPT !.chains = ChainsOf(gs)]
  OBVIOUS
<1>6. Dealt(e, i - 1) /\ e.batch = t.batch
  <2>1. t = [batch |-> t.batch, rc |-> t.rc, log |-> t.log, landed |-> t.landed, saw |-> t.saw,
            chains |-> t.chains, lost |-> t.lost, refused |-> t.refused]
    BY DEF Dealt, Kept
  <2>2. e = [batch |-> t.batch, rc |-> t.rc, log |-> t.log, landed |-> t.landed, saw |-> t.saw,
            chains |-> ChainsOf(gs), lost |-> t.lost, refused |-> t.refused]
    BY <1>5, <2>1
  <2>3. Whole(gs) /\ gs \in Seq(Seq(Nat)) /\ gs # << >>
    BY <1>4, GroupsAreWhole
  <2>4. Whole(ChainsOf(gs))
    BY <2>3, SeqAssumption, ChainsAreWhole
  <2> QED BY <2>2, <2>4 DEF Dealt, Kept, Sighted
<1>7. Ready(i - 1, j)
  <2>1. \A p \in ((i - 1) + 1)..j : p \in i..j
    BY <1>1
  <2>2. \A p \in i..j : seq[p].group # 0
    <3>1. SUFFICES ASSUME NEW p \in i..j, seq[p].group = 0 PROVE FALSE
      OBVIOUS
    <3> QED BY <3>1
  <2> QED BY <2>1, <2>2 DEF Ready
<1>8. CASE Went(u, e, run)
  BY <1>1, <1>2, <1>6, <1>7, <1>8, Taken
<1>9. ASSUME NEW v \in Trouble(e), WentWrong(u, v, run)
      PROVE  Dealt(u, j) /\ u.batch = t.batch
  BY <1>1, <1>2, <1>6, <1>9, Noted
<1>10. ASSUME NEW v \in Trouble(t), Turned(u, v, run)
       PROVE  Dealt(u, j) /\ u.batch = t.batch
  <2>1. Dealt(v, i - 1) /\ v.batch = t.batch
    BY <1>10, TroubleIs
  <2> QED BY <1>1, <1>2, <1>10, <2>1, TurnedKeeps
<1>11. CASE Turned(u, t, run)
  BY <1>1, <1>2, <1>11, TurnedKeeps
<1>12. \/ Went(u, e, run)
       \/ \E v \in Trouble(e) : WentWrong(u, v, run)
       \/ \E v \in Trouble(t) : Turned(u, v, run)
       \/ Turned(u, t, run)
  BY <1>3, <1>4, <1>5 DEF Grouped, Went, WentWrong, Turned
<1> QED BY <1>8, <1>9, <1>10, <1>11, <1>12

-----------------------------------------------------------------------------
(* The steps.                                                              *)

LEMMA RunEndIs ==
    ASSUME Input, NEW i \in 1..N
    PROVE  RunEnd(i) \in i..N
<1>1. N \in Nat /\ i \in Nat /\ i <= N
  BY DEF Input
<1>2. CASE entered = "seq"
  BY <1>1, <1>2 DEF RunEnd
<1>3. CASE entered # "seq"
  <2>1. PICK Cs : Cs = {z \in i..N : z = N \/ ~Chainable(seq[z].kind, seq[z + 1].kind)}
    OBVIOUS
  <2>2. N \in Cs
    BY <1>1, <2>1
  <2>3. PICK z \in i..N : z \in Cs /\ \A p \in i..(z - 1) : p \notin Cs
    BY <1>1, <2>2, First DEF FirstIn
  <2>4. ASSUME NEW p \in i..(z - 1) PROVE Chainable(seq[p].kind, seq[p + 1].kind)
    <3>1. p \in i..N
      BY <1>1, <2>3
    <3> QED BY <2>1, <2>3, <3>1
  <2>5. z = N \/ ~Chainable(seq[z].kind, seq[z + 1].kind)
    BY <2>1, <2>3
  <2> QED BY <1>3, <2>4, <2>5 DEF RunEnd
<1> QED BY <1>2, <1>3

LEMMA InitKeeps == ASSUME SeqAssumption, SeqInit PROVE SInv
<1>1. PICK n \in 1..OpCount : \E sh \in [1..n -> OpShapes], g \in [1..n -> GroupIds] : \E u \in Reads(sh) :
         seq = [i \in 1..n |-> [kind |-> sh[i].kind, dom |-> sh[i].dom, lut |-> sh[i].lut,
                                    fits |-> sh[i].fits, group |-> g[i], src |-> u[i]]]
  BY DEF SeqInit
<1>2. PICK sh \in [1..n -> OpShapes], g \in [1..n -> GroupIds] : \E u \in Reads(sh) :
         seq = [i \in 1..n |-> [kind |-> sh[i].kind, dom |-> sh[i].dom, lut |-> sh[i].lut,
                                    fits |-> sh[i].fits, group |-> g[i], src |-> u[i]]]
  BY <1>1
<1>3. PICK u \in Reads(sh) :
         seq = [i \in 1..n |-> [kind |-> sh[i].kind, dom |-> sh[i].dom, lut |-> sh[i].lut,
                                    fits |-> sh[i].fits, group |-> g[i], src |-> u[i]]]
  BY <1>2
<1>4. OpCount \in Nat /\ GroupIds \subseteq Nat /\ n \in Nat \ {0}
  BY DEF SeqAssumption
<1>5. \A o \in OpShapes : /\ o.kind \in {"mm8", "mm16", "ewmul", "silu", "requant", "unwired"}
                          /\ o.dom \in Nat /\ o.lut \in Nat /\ o.fits \in BOOLEAN
  <2>1. \A o \in OpShapes : o.kind \in {"mm8", "mm16", "ewmul", "silu", "requant", "unwired"}
    BY DEF OpShapes, Shape
  <2>2. \A o \in OpShapes : o.dom \in Nat /\ o.lut \in Nat
    BY DEF OpShapes, Shape
  <2>3. ASSUME NEW o \in OpShapes PROVE o.fits \in BOOLEAN
    <3>1. \E what, dom, lut : \E fits \in BOOLEAN : o = Shape(what, dom, fits, lut)
      BY Zenon DEF OpShapes
    <3> QED BY <3>1 DEF Shape
  <2> QED BY <2>1, <2>2, <2>3
<1>6. /\ u \in [1..n -> SUBSET {j \in 1..n : GivesInt8(sh[j])}]
      /\ \A i \in 1..n : \A j \in u[i] : j < i
  BY DEF Reads
<1>7. ASSUME NEW i \in 1..n PROVE seq[i] \in Op
  <2>1. u[i] \in SUBSET Nat
    BY <1>4, <1>6
  <2>2. g[i] \in Nat /\ sh[i] \in OpShapes
    BY <1>4
  <2> QED BY <1>3, <1>5, <2>1, <2>2 DEF Op
<1>8. seq \in Seq(Op) /\ Len(seq) = n
  BY <1>3, <1>4, <1>7
<1>9. N = n
  BY <1>8 DEF N
<1>10. ASSUME NEW i \in 1..N, NEW j \in seq[i].src PROVE j \in 1..(i - 1) /\ ~IsMatmul(seq[j])
  <2>1. seq[i].src = u[i]
    BY <1>3, <1>9, <1>10
  <2>2. j \in 1..n /\ GivesInt8(sh[j]) /\ j < i
    BY <1>6, <1>9, <1>10, <2>1
  <2>3. seq[j].kind = sh[j].kind
    BY <1>3, <2>2
  <2> QED BY <1>9, <2>2, <2>3 DEF GivesInt8, IsMatmul
<1>11. Input
  BY <1>4, <1>8, <1>9, <1>10 DEF Input
<1>12. RunEnd(1) \in 1..N /\ 1 \in 1..N
  BY <1>4, <1>9, <1>11, RunEndIs
<1>13. Span(0, 0) = << >> /\ << >> \in Seq(1..0) /\ Len(<< >>) = 0
  BY SpanNone, EmptySeq
<1>14. Dealt(sofar, 0) /\ sofar.batch = << >>
  <2>1. sofar = [batch |-> << >>, rc |-> 0, log |-> << >>, landed |-> {}, saw |-> [i \in 1..N |-> {}],
                 chains |-> << >>, lost |-> FALSE, refused |-> 0]
    BY DEF SeqInit
  <2>2. Rising(<< >>)
    BY <1>13 DEF Rising
  <2>3. Whole(<< >>)
    BY DEF Whole
  <2> QED BY <1>13, <2>1, <2>2, <2>3 DEF Dealt, Kept, Sighted
<1>15. next = 1 /\ upto = RunEnd(1) /\ cap \in Caps /\ entered \in Entry
  BY DEF SeqInit
<1>16. Standing(0)
  BY <1>13, <1>14, <1>15 DEF Standing, Gathered
<1> QED BY <1>4, <1>9, <1>11, <1>12, <1>15, <1>16 DEF SInv

LEMMA Batched ==
    ASSUME NEW t, NEW lo, Dealt(t, lo), NEW x, NEW u, u = [t EXCEPT !.batch = x]
    PROVE  Dealt(u, lo) /\ u.batch = x
<1>1. t = [batch |-> t.batch, rc |-> t.rc, log |-> t.log, landed |-> t.landed, saw |-> t.saw,
            chains |-> t.chains, lost |-> t.lost, refused |-> t.refused]
  BY DEF Dealt, Kept
<1>2. u = [batch |-> x, rc |-> t.rc, log |-> t.log, landed |-> t.landed, saw |-> t.saw,
            chains |-> t.chains, lost |-> t.lost, refused |-> t.refused]
  BY <1>1
<1> QED BY <1>2 DEF Dealt, Kept, Sighted

(* What a step leaves is again a place in the sequence.                    *)
LEMMA Leaves ==
    ASSUME SInv, UNCHANGED <<seq, entered, cap>>, next' \in 1..(N + 1), upto' \in 1..N, next' <= upto' + 1,
           NEW lo \in 0..N, lo <= next' - 1, Dealt(sofar', lo), sofar'.batch = Span(lo, next' - 1),
           Gathered(lo, next' - 1)
    PROVE  SInv'
<1>1. N' = N /\ Input' /\ N \in Nat
  BY DEF N, Input, SInv
<1>2. Dealt(sofar, lo)'
  BY <1>1 DEF Dealt, Kept, Sighted, Whole, IsMm
<1>3. Gathered(lo, next - 1)'
  BY DEF Gathered
<1>4. Standing(lo)'
  <2>1. lo \in 0..(next' - 1)
    <3>1. PICK z : z = next'
      OBVIOUS
    <3>2. z \in 1..(N + 1) /\ lo <= z - 1 /\ N \in Nat
      BY <3>1 DEF SInv, Input
    <3>3. lo \in 0..(z - 1)
      BY <3>2
    <3> QED BY <3>1, <3>3
  <2> QED BY <1>2, <1>3, <2>1 DEF Standing
<1>5. \E x \in 0..N' : Standing(x)'
  BY <1>1, <1>4
<1> QED BY <1>1, <1>5 DEF SInv

(* After a flush there is nothing in hand.                                 *)
LEMMA Flushed ==
    ASSUME SInv, NEW t \in SEQ_FLUSH_HW(sofar)
    PROVE  Dealt(t, next - 1) /\ t.batch = << >> /\ next - 1 \in 0..N /\ Span(next - 1, next - 1) = << >>
           /\ Gathered(next - 1, next - 1)
<1>1. PICK lo \in 0..N : Standing(lo)
  BY DEF SInv
<1>2. next - 1 \in 0..N /\ lo <= next - 1 /\ next - 1 \in Nat /\ Input
  BY <1>1 DEF SInv, Standing, Input
<1>3. Dealt(t, next - 1) /\ t.batch = << >>
  BY <1>1, <1>2, FlushKeeps DEF Standing
<1>4. Span(next - 1, next - 1) = << >>
  BY <1>2, SpanNone
<1>5. Gathered(next - 1, next - 1)
  BY <1>2 DEF Gathered
<1> QED BY <1>2, <1>3, <1>4, <1>5

LEMMA SeqGroupKeeps == ASSUME SInv, SeqGroup PROVE SInv'
<1>1. N \in Nat \ {0} /\ Input /\ next \in 1..(N + 1) /\ upto \in 1..N /\ next <= upto
  BY DEF SInv, Input, SeqGroup, Inside
<1>2. UNCHANGED <<seq, entered, cap, upto>> /\ seq[next].group > 0
  BY DEF SeqGroup, Stay
<1>3. PICK j : j = CHOOSE z \in next..upto :
                  /\ \A p \in next..z : seq[p].group > 0
                  /\ z = upto \/ seq[z + 1].group = 0
  OBVIOUS
<1>4. /\ j \in next..upto
      /\ \A p \in next..j : seq[p].group > 0
  <2>1. PICK Cs : Cs = {z \in next..upto : z = upto \/ seq[z + 1].group = 0}
    OBVIOUS
  <2>2. upto \in Cs /\ next \in Nat /\ upto \in Nat
    BY <1>1, <2>1
  <2>3. PICK z \in next..upto : z \in Cs /\ \A p \in next..(z - 1) : p \notin Cs
    BY <1>1, <2>2, First DEF FirstIn
  <2>4. ASSUME NEW p \in next..z PROVE seq[p].group > 0
    <3>1. CASE p = next
      BY <1>2, <3>1
    <3>2. CASE p # next
      <4>1. p - 1 \in next..(z - 1) /\ p - 1 \in next..upto /\ p - 1 # upto /\ p \in 1..N /\ (p - 1) + 1 = p
        BY <1>1, <2>3, <3>2
      <4>2. seq[p].group # 0
        BY <2>1, <2>3, <4>1
      <4>3. seq[p].group \in Nat
        <5>1. seq \in Seq(Op) /\ p \in 1..Len(seq)
          BY <1>1, <4>1 DEF Input, N
        <5>2. seq[p] \in Op
          BY <5>1, ElementOfSeq
        <5> QED BY <5>2 DEF Op
      <4> QED BY <4>2, <4>3
    <3> QED BY <3>1, <3>2
  <2>5. z = upto \/ seq[z + 1].group = 0
    BY <2>1, <2>3
  <2>6. \E y \in next..upto : /\ \A p \in next..y : seq[p].group > 0
                              /\ y = upto \/ seq[y + 1].group = 0
    BY <2>4, <2>5
  <2> QED BY <1>3, <2>6
<1>5. PICK t \in SEQ_FLUSH_HW(sofar) :
         IF t.rc # 0 THEN sofar' = t /\ next' = next
         ELSE sofar' \in Grouped(t, next, j) /\ next' = j + 1
  BY <1>3 DEF SeqGroup
<1>6. Dealt(t, next - 1) /\ t.batch = << >> /\ next - 1 \in 0..N /\ Span(next - 1, next - 1) = << >>
      /\ Gathered(next - 1, next - 1)
  BY Flushed
<1>7. CASE t.rc # 0
  BY <1>1, <1>2, <1>5, <1>6, <1>7, Leaves
<1>8. CASE t.rc = 0
  <2>1. sofar' \in Grouped(t, next, j) /\ next' = j + 1
    BY <1>5, <1>8
  <2>2. next \in 1..N /\ j \in next..N /\ j \in 0..N /\ j \in Nat /\ (j + 1) - 1 = j
    BY <1>1, <1>4
  <2>3. Dealt(sofar', j) /\ sofar'.batch = << >>
    BY <1>1, <1>4, <1>6, <2>1, <2>2, GroupedKeeps
  <2>4. Span(j, j) = << >> /\ Gathered(j, j)
    BY <2>2, SpanNone DEF Gathered
  <2>5. next' \in 1..(N + 1) /\ upto' \in 1..N /\ next' <= upto' + 1 /\ next' - 1 = j
    BY <1>1, <1>2, <1>4, <2>1, <2>2
  <2>6. j <= next' - 1 /\ sofar'.batch = Span(j, next' - 1) /\ Gathered(j, next' - 1)
    <3>1. PICK z : z = next' - 1
      OBVIOUS
    <3>2. z = j
      BY <2>5, <3>1
    <3>3. j <= z /\ sofar'.batch = Span(j, z) /\ Gathered(j, z)
      BY <2>2, <2>3, <2>4, <3>2
    <3> QED BY <3>1, <3>3
  <2> QED BY <1>2, <2>2, <2>3, <2>5, <2>6, Leaves
<1> QED BY <1>7, <1>8

LEMMA SeqHwKeeps == ASSUME SInv, SeqHw PROVE SInv'
<1>1. N \in Nat \ {0} /\ Input /\ next \in 1..N /\ upto \in 1..N /\ next <= upto
  BY DEF SInv, Input, SeqHw, Inside
<1>2. UNCHANGED <<seq, entered, cap, upto>> /\ next' = next + 1 /\ next' - 1 = next
      /\ IsMatmul(seq[next]) /\ seq[next].group = 0
  BY <1>1 DEF SeqHw, Stay, seq_hw_ok, IsMatmul
<1>3. next' \in 1..(N + 1) /\ upto' \in 1..N /\ next' <= upto' + 1
  BY <1>1, <1>2
<1>4. PICK t \in IF SameBatch(sofar, seq[next]) THEN {sofar} ELSE SEQ_FLUSH_HW(sofar) :
         sofar' = [t EXCEPT !.batch = Append(t.batch, next)]
  BY DEF SeqHw
<1>5. CASE SameBatch(sofar, seq[next])
  <2>1. PICK lo \in 0..N : Standing(lo)
    BY DEF SInv
  <2>2. t = sofar /\ Dealt(t, lo) /\ t.batch = Span(lo, next - 1) /\ Gathered(lo, next - 1) /\ lo <= next - 1
        /\ lo \in Nat /\ next - 1 \in Nat /\ next \in Nat
    BY <1>1, <1>4, <1>5, <2>1 DEF Standing
  <2>3. Dealt(sofar', lo) /\ sofar'.batch = Append(t.batch, next)
    BY <1>4, <2>2, Batched
  <2>4. PICK m : m = next - 1
    OBVIOUS
  <2>5. /\ m \in Nat /\ lo <= m /\ m <= next /\ t.batch = Span(lo, m) /\ Gathered(lo, m)
        /\ t.batch \in Seq((lo + 1)..m) /\ Len(t.batch) = m - lo /\ \A k \in 1..(m - lo) : t.batch[k] = lo + k
    <3>1. m \in Nat /\ lo <= m /\ m <= next /\ t.batch = Span(lo, m) /\ Gathered(lo, m)
      BY <2>2, <2>4
    <3>2. /\ Span(lo, m) \in Seq((lo + 1)..m) /\ Len(Span(lo, m)) = m - lo
          /\ \A k \in 1..(m - lo) : Span(lo, m)[k] = lo + k
      BY <2>2, <3>1, SpanIs
    <3> QED BY <3>1, <3>2
  <2>6. Append(t.batch, next) = Span(lo, next)
    <3>1. t.batch \in Seq((lo + 1)..m)
      BY <2>5
    <3>2. t.batch \in Seq(Nat)
      <4>1. (lo + 1)..m \subseteq Nat
        BY <2>2, <2>5
      <4> QED BY <3>1, <4>1, SeqMonotonic
    <3>3. Append(t.batch, next) = t.batch \o <<next>>
      BY <2>2, <3>2
    <3>4. <<next>> = Span(m, next)
      BY <1>1, <2>4, SpanOne
    <3>5. Span(lo, m) \o Span(m, next) = Span(lo, next)
      BY <2>2, <2>5, SpanJoins
    <3> QED BY <2>5, <3>3, <3>4, <3>5
  <2>7. Gathered(lo, next)
    <3>1. ASSUME NEW i \in (lo + 1)..next PROVE i = next \/ i \in (lo + 1)..(next - 1)
      BY <2>2
    <3>2. \A i \in (lo + 1)..next : IsMatmul(seq[i]) /\ seq[i].group = 0
      BY <1>2, <2>2, <3>1 DEF Gathered
    <3>3. ASSUME NEW i \in (lo + 1)..(next - 1)
          PROVE  seq[i].kind = seq[next].kind /\ seq[i].dom = seq[next].dom
      <4>1. 1 \in 1..(m - lo) /\ lo + 1 \in (lo + 1)..m /\ m - lo # 0 /\ i \in (lo + 1)..m
        BY <2>2, <2>4, <2>5, <3>3
      <4>2. t.batch[1] = lo + 1 /\ Len(t.batch) = m - lo
        BY <2>5, <4>1
      <4>3. t.batch # << >>
        BY <4>1, <4>2, EmptySeq
      <4>4. seq[lo + 1].kind = seq[next].kind /\ seq[lo + 1].dom = seq[next].dom
        BY <1>5, <2>2, <4>2, <4>3 DEF SameBatch
      <4>5. seq[lo + 1].kind = seq[i].kind /\ seq[lo + 1].dom = seq[i].dom
        BY <2>5, <4>1 DEF Gathered
      <4> QED BY <4>4, <4>5
    <3>4. ASSUME NEW i \in (lo + 1)..next, NEW j \in (lo + 1)..next
          PROVE  seq[i].kind = seq[j].kind /\ seq[i].dom = seq[j].dom
      <4>1. seq[i].kind = seq[next].kind /\ seq[i].dom = seq[next].dom
        BY <3>1, <3>3
      <4>2. seq[j].kind = seq[next].kind /\ seq[j].dom = seq[next].dom
        BY <3>1, <3>3
      <4> QED BY <4>1, <4>2
    <3> QED BY <3>2, <3>4 DEF Gathered
  <2>8. lo <= next' - 1
    BY <1>2, <2>2
  <2> QED BY <1>2, <1>3, <2>3, <2>6, <2>7, <2>8, Leaves
<1>6. CASE ~SameBatch(sofar, seq[next])
  <2>1. t \in SEQ_FLUSH_HW(sofar)
    BY <1>4, <1>6
  <2>2. Dealt(t, next - 1) /\ t.batch = << >> /\ next - 1 \in 0..N
    BY <2>1, Flushed
  <2>3. Dealt(sofar', next - 1) /\ sofar'.batch = Append(t.batch, next)
    BY <1>4, <2>2, Batched
  <2>4. Append(<< >>, next) = <<next>> /\ <<next>> = Span(next - 1, next)
    BY <1>1, SpanOne
  <2>5. Gathered(next - 1, next)
    <3>1. \A i \in ((next - 1) + 1)..next : i = next
      BY <1>1
    <3> QED BY <1>2, <3>1 DEF Gathered
  <2>6. next - 1 <= next' - 1
    BY <1>1, <1>2
  <2> QED BY <1>2, <1>3, <2>2, <2>3, <2>4, <2>5, <2>6, Leaves
<1> QED BY <1>5, <1>6

LEMMA SeqSwKeeps == ASSUME SInv, SeqSw PROVE SInv'
<1>1. N \in Nat \ {0} /\ Input /\ next \in 1..N /\ upto \in 1..N /\ next <= upto
  BY DEF SInv, Input, SeqSw, Inside
<1>2. UNCHANGED <<seq, entered, cap, upto>> /\ next' = next + 1 /\ next' - 1 = next
  BY <1>1 DEF SeqSw, Stay
<1>3. next' \in 1..(N + 1) /\ upto' \in 1..N /\ next' <= upto' + 1 /\ next \in 0..N /\ next <= next' - 1
  BY <1>1, <1>2
<1>4. PICK t \in SEQ_FLUSH_HW(sofar) : sofar' \in Dispatch(t, next)
  BY DEF SeqSw, SwBreak
<1>5. Dealt(t, next - 1) /\ t.batch = << >>
  BY Flushed
<1>6. Dealt(sofar', next) /\ sofar'.batch = << >>
  BY <1>1, <1>4, <1>5, DispatchIs
<1>7. Span(next, next) = << >> /\ Gathered(next, next)
  BY <1>1, SpanNone DEF Gathered
<1> QED BY <1>2, <1>3, <1>6, <1>7, Leaves

LEMMA SeqEndKeeps == ASSUME SInv, SeqEnd PROVE SInv'
<1>1. N \in Nat \ {0} /\ Input /\ next \in 1..(N + 1) /\ upto \in 1..N /\ next <= upto + 1
  BY DEF SInv, Input
<1>2. UNCHANGED <<seq, entered, cap, next>> /\ sofar' \in SEQ_FLUSH_HW(sofar)
      /\ upto' = IF sofar'.rc = 0 /\ upto < N THEN RunEnd(upto + 1) ELSE upto
  BY DEF SeqEnd
<1>3. upto' \in 1..N /\ upto' >= upto
  <2>1. CASE sofar'.rc = 0 /\ upto < N
    <3>1. upto + 1 \in 1..N
      BY <1>1, <2>1
    <3>2. upto' \in (upto + 1)..N
      BY <1>1, <1>2, <2>1, <3>1, RunEndIs
    <3> QED BY <1>1, <3>2
  <2>2. CASE ~(sofar'.rc = 0 /\ upto < N)
    BY <1>1, <1>2, <2>2
  <2> QED BY <2>1, <2>2
<1>4. next' \in 1..(N + 1) /\ next' <= upto' + 1 /\ next' - 1 = next - 1 /\ next - 1 <= next' - 1
  BY <1>1, <1>2, <1>3
<1>5. Dealt(sofar', next - 1) /\ sofar'.batch = << >> /\ next - 1 \in 0..N
      /\ Span(next - 1, next - 1) = << >> /\ Gathered(next - 1, next - 1)
  BY <1>2, Flushed
<1> QED BY <1>2, <1>3, <1>4, <1>5, Leaves

LEMMA SeqInvariant == SeqSpec => []SInv
<1>1. SeqInit => SInv
  BY SeqAssumption, InitKeeps
<1>2. SInv /\ [SeqNext]_seqVars => SInv'
  <2>1. SUFFICES ASSUME SInv, [SeqNext]_seqVars PROVE SInv'
    OBVIOUS
  <2>2. CASE SeqNext
    BY <2>1, <2>2, SeqGroupKeeps, SeqHwKeeps, SeqSwKeeps, SeqEndKeeps DEF SeqNext
  <2>3. CASE UNCHANGED seqVars
    <3>1. UNCHANGED <<seq, entered, cap, next, upto, sofar>>
      BY <2>3 DEF seqVars
    <3>2. PICK lo \in 0..N : Standing(lo)
      BY <2>1 DEF SInv
    <3>3. next' \in 1..(N + 1) /\ upto' \in 1..N /\ next' <= upto' + 1
      BY <2>1, <3>1 DEF SInv
    <3>4. lo <= next' - 1 /\ Dealt(sofar', lo) /\ sofar'.batch = Span(lo, next' - 1) /\ Gathered(lo, next' - 1)
      BY <2>1, <3>1, <3>2 DEF Standing, SInv, Input
    <3> QED BY <2>1, <3>1, <3>3, <3>4, Leaves
  <2> QED BY <2>1, <2>2, <2>3
<1> QED BY <1>1, <1>2, PTL DEF SeqSpec

-----------------------------------------------------------------------------
(* Whichever way its ops take, a sequence is submitted once and in order,  *)
(* as a whole unless an op fails, and an op in no group reads the results  *)
(* of the ops before it unless a doorbell round was lost.                  *)
THEOREM SequencesAreExact == SeqSpec => []SeqExact
<1>1. SInv => SeqExact
  <2>1. SUFFICES ASSUME SInv PROVE SeqExact
    OBVIOUS
  <2>2. PICK lo \in 0..N : Standing(lo)
    BY <2>1 DEF SInv
  <2>3. N \in Nat \ {0} /\ next \in 1..(N + 1) /\ upto \in 1..N /\ next <= upto + 1 /\ cap \in Caps
        /\ entered \in Entry /\ lo \in Nat /\ next - 1 \in Nat /\ lo <= next - 1
    BY <2>1, <2>2 DEF SInv, Input, Standing
  <2>4. Kept(sofar, lo) /\ Sighted(sofar, lo) /\ sofar.batch = Span(lo, next - 1) /\ Gathered(lo, next - 1)
    BY <2>2 DEF Standing, Dealt
  <2>5. Range(sofar.batch) = (lo + 1)..(next - 1) /\ Len(sofar.batch) = (next - 1) - lo
    <3>1. PICK m : m = next - 1
      OBVIOUS
    <3>2. m \in Nat /\ lo <= m /\ sofar.batch = Span(lo, m)
      BY <2>3, <2>4, <3>1
    <3>3. Range(sofar.batch) = (lo + 1)..m /\ Len(sofar.batch) = m - lo
      BY <2>3, <3>2, SpanIs
    <3> QED BY <3>1, <3>3
  <2>6. Range(sofar.log) \subseteq 1..lo /\ sofar.landed \subseteq 1..lo
    <3>1. sofar.log \in Seq(1..lo)
      BY <2>4 DEF Kept
    <3> QED BY <2>4, <3>1 DEF Kept, Range
  <2>7. sofar.rc = 0 => Len(sofar.log) = lo /\ Range(sofar.log) = 1..lo
    <3>1. sofar.rc = 0 => sofar.log = Span(0, lo)
      BY <2>4 DEF Kept
    <3>2. 0 \in Nat /\ 0 <= lo /\ lo - 0 = lo /\ 0 + 1 = 1
      BY <2>3
    <3>3. Len(Span(0, lo)) = lo - 0 /\ Range(Span(0, lo)) = (0 + 1)..lo
      BY <2>3, <3>2, SpanIs
    <3> QED BY <3>1, <3>2, <3>3
  <2>8. SeqTypeOK
    <3>1. sofar.rc \in {0, -1, -3}
      BY <2>4 DEF Kept
    <3>2. Range(sofar.log) \cup sofar.landed \cup Range(sofar.batch) \subseteq 1..N
      BY <2>3, <2>5, <2>6
    <3> QED BY <2>3, <3>1, <3>2 DEF SeqTypeOK
  <2>9. \A k \in 1..(Len(sofar.log) - 1) : sofar.log[k] < sofar.log[k + 1]
    BY <2>4 DEF Kept, Rising
  <2>10. Returned /\ sofar.rc = 0 => Len(sofar.log) = N
    <3>1. SUFFICES ASSUME Returned, sofar.rc = 0 PROVE lo = N
      BY <2>7
    <3>2. upto = N /\ next > upto /\ sofar.batch = << >>
      BY <2>3, <3>1 DEF Returned, Inside
    <3>3. Len(sofar.batch) = 0
      BY <3>2, EmptySeq
    <3> QED BY <2>3, <2>5, <3>2, <3>3
  <2>11. ~sofar.lost /\ sofar.rc = 0 => \A i \in Range(sofar.log) : seq[i].group = 0 => Copied(i)
    BY <2>4, <2>6 DEF Sighted, Copied
  <2>12. \A i, j \in Range(sofar.batch) : seq[i].kind = seq[j].kind /\ seq[i].dom = seq[j].dom
    BY <2>4, <2>5 DEF Gathered
  <2> QED BY <2>7, <2>8, <2>9, <2>10, <2>11, <2>12 DEF SeqExact
<1> QED BY <1>1, SeqInvariant, PTL

(* Handing its groups out to the cores keeps each of them whole: its ops   *)
(* follow each other on one core, an op is on one core only, no core is    *)
(* submitted an empty chain and each chain ends in the matmul that carries *)
(* the sentinel, for any groups and any number of cores.                   *)
THEOREM GroupsAreKeptWhole == SeqSpec => []GroupsWhole
<1>1. SInv => GroupsWhole
  <2>1. SUFFICES ASSUME SInv PROVE GroupsWhole
    OBVIOUS
  <2> DEFINE x == sofar.chains
             On(i) == {c \in DOMAIN x : i \in Range(x[c])}
             all == (UNION {Range(x[c]) : c \in DOMAIN x}) \ {Witness}
  <2>2. ASSUME NEW i \in all PROVE i # Witness /\ \E c \in DOMAIN x : i \in Range(x[c])
    <3> HIDE DEF x
    <3>1. i \in UNION {Range(x[c]) : c \in DOMAIN x} /\ i \notin {Witness}
      OBVIOUS
    <3>2. PICK r \in {Range(x[c]) : c \in DOMAIN x} : i \in r
      BY <3>1
    <3>3. i # Witness
      BY <3>1
    <3> QED BY <3>2, <3>3
  <2>3. Whole(x)
    BY <2>1 DEF SInv, Standing, Dealt, Kept
  <2>4. \A i : On(i) = {c \in DOMAIN x : i \in Range(x[c])}
    OBVIOUS
  <2> HIDE DEF x, On, all
  <2>5. ASSUME NEW c \in DOMAIN x
        PROVE  x[c] # << >> /\ IsMm(Last(x[c])) /\ DOMAIN x[c] = 1..Len(x[c]) /\ Range(x[c]) \subseteq Nat
    <3>1. x[c] \in Seq(Nat) /\ x[c] # << >> /\ IsMm(Last(x[c]))
      BY <2>3 DEF Whole
    <3>2. DOMAIN x[c] = 1..Len(x[c]) /\ x[c] \in [1..Len(x[c]) -> Nat]
      BY <3>1, LenProperties
    <3> QED BY <3>1, <3>2 DEF Range
  <2>6. ASSUME NEW i \in all
        PROVE  /\ i \in Nat /\ i # Witness
               /\ \E c \in DOMAIN x : \E k \in 1..Len(x[c]) :
                    x[c][k] = i /\ On(i) = {c}
                    /\ \A l \in 1..Len(x[c]) : x[c][l] = i => l = k
    <3>1. PICK c \in DOMAIN x : i \in Range(x[c])
      BY <2>2
    <3>2. PICK k \in 1..Len(x[c]) : x[c][k] = i
      BY <2>5, <3>1 DEF Range
    <3>3. i \in Nat /\ i # Witness
      <4>1. Range(x[c]) \subseteq Nat
        BY <2>5
      <4>2. i # Witness
        BY <2>2
      <4>3. i \in Nat
        BY <3>1, <4>1
      <4> QED BY <4>2, <4>3
    <3>4. ASSUME NEW d \in DOMAIN x, NEW l \in 1..Len(x[d]), x[d][l] = i PROVE d = c /\ l = k
      <4>1. \A m \in 1..Len(x[c]), n \in 1..Len(x[d]) : x[c][m] # Witness /\ x[c][m] = x[d][n] => c = d /\ m = n
        BY <2>3, Zenon DEF Whole
      <4> QED BY <3>2, <3>3, <3>4, <4>1
    <3>5. On(i) = {c}
      <4>1. ASSUME NEW d \in DOMAIN x, i \in Range(x[d]) PROVE d = c
        <5>1. PICK l \in 1..Len(x[d]) : x[d][l] = i
          BY <2>5, <4>1 DEF Range
        <5> QED BY <3>4, <5>1
      <4> QED BY <2>4, <3>1, <4>1
    <3> QED BY <3>2, <3>3, <3>4, <3>5
  <2>7. \A i \in all : Cardinality(On(i)) = 1
    <3>1. SUFFICES ASSUME NEW i \in all PROVE Cardinality(On(i)) = 1
      OBVIOUS
    <3>2. PICK c \in DOMAIN x : On(i) = {c}
      BY <2>6
    <3> QED BY <3>2, FS_Singleton
  <2>8. ASSUME NEW i \in all, i + 1 \in all, seq[i].group = seq[i + 1].group
        PROVE  \E c \in On(i) :
                  /\ c \in On(i + 1)
                  /\ (CHOOSE k \in DOMAIN x[c] : x[c][k] = i + 1) = (CHOOSE k \in DOMAIN x[c] : x[c][k] = i) + 1
    <3>1. PICK c \in DOMAIN x : \E k \in 1..Len(x[c]) :
                    x[c][k] = i /\ On(i) = {c}
                    /\ \A l \in 1..Len(x[c]) : x[c][l] = i => l = k
      BY <2>6
    <3>2. PICK k \in 1..Len(x[c]) : x[c][k] = i /\ \A l \in 1..Len(x[c]) : x[c][l] = i => l = k
      BY <3>1
    <3>3. PICK d \in DOMAIN x : \E l \in 1..Len(x[d]) :
                    x[d][l] = i + 1 /\ On(i + 1) = {d}
                    /\ \A m \in 1..Len(x[d]) : x[d][m] = i + 1 => m = l
      BY <2>6, <2>8
    <3>4. PICK l \in 1..Len(x[d]) : x[d][l] = i + 1 /\ \A m \in 1..Len(x[d]) : x[d][m] = i + 1 => m = l
      BY <3>3
    <3>5. d = c /\ l = k + 1
      <4>1. \A m \in 1..Len(x[c]), n \in 1..Len(x[d]) :
              x[c][m] # Witness /\ x[d][n] = x[c][m] + 1 /\ seq[x[c][m]].group = seq[x[d][n]].group
                => d = c /\ n = m + 1
        BY <2>3, Zenon DEF Whole
      <4>2. x[c][k] # Witness /\ x[d][l] = x[c][k] + 1 /\ seq[x[c][k]].group = seq[x[d][l]].group
        BY <2>6, <2>8, <3>2, <3>4
      <4> QED BY <4>1, <4>2
    <3>6. DOMAIN x[c] = 1..Len(x[c])
      BY <2>5
    <3>7. (CHOOSE m \in DOMAIN x[c] : x[c][m] = i) = k
      BY <3>2, <3>6
    <3>8. (CHOOSE m \in DOMAIN x[c] : x[c][m] = i + 1) = l
      BY <3>4, <3>5, <3>6
    <3>9. i \in Range(x[c]) /\ i + 1 \in Range(x[c])
      BY <3>2, <3>4, <3>5, <3>6 DEF Range
    <3>10. c \in On(i) /\ c \in On(i + 1)
      BY <2>4, <3>9
    <3> QED BY <3>5, <3>7, <3>8, <3>10
  <2>9. \A c \in DOMAIN x : x[c] # << >> /\ IsMm(Last(x[c]))
    BY <2>5
  <2> QED BY <2>7, <2>8, <2>9 DEF GroupsWhole, x, On, all
<1> QED BY <1>1, SeqInvariant, PTL
=============================================================================
