---------------------------- MODULE DynQueue_proofs ----------------------------
(***************************************************************************)
(* Proofs about DynQueue, for any users, chunk sizes, reserves, headroom   *)
(* and read-ahead below it, and any number of tasks, runs and errors.      *)
(***************************************************************************)
EXTENDS DynQueue, FiniteSetTheorems, TLAPS

-----------------------------------------------------------------------------
(* The inductive invariant.                                                *)

(* The programs of the chain have been submitted.                          *)
Started == h.on /\ qpc \notin {"seed", "submit"}
Appending == qpc \in {"write", "relink"}
Unspoilt == errors = 0 /\ ~cut

(* The slot whose program the sequencer runs.                              *)
At == fs - Len(pipe)

Programs == Task \cup {SpinProg, Torn}
Chains == [on : BOOLEAN, base : Nat, P : Nat, reserve : Nat, spin_end : Nat]
DynShape ==
    /\ DynTypeOK
    /\ user \in Users /\ chunk_max \in ChunkMax /\ budget \in Reserve /\ lead \in 0 .. (HEADROOM - 1)
    /\ h \in Chains /\ pipe \in Seq(Programs \X BOOLEAN) /\ warmed \in BOOLEAN /\ cut \in BOOLEAN
    /\ slip \in Nat /\ runs \in Nat /\ errors \in Nat

(* Where the host is, and who drives the chain.                            *)
Phases ==
    /\ qpc \in {"seed", "warm", "submit", "write", "relink", "poll", "pcwait"} => h.on
    /\ qpc = "ret" => ~h.on
    /\ qpc = "pcwait" => user = "pc"
    /\ qpc = "drain" => user = "queue"
    /\ Appending => user = "chain" /\ h.P < h.reserve
    /\ qpc \in {"seed", "warm", "submit"} =>
         /\ back \in (IF user = "queue" THEN {"user", "drain"}
                      ELSE IF user = "chain" THEN {"user"} ELSE {"pcwait"})
         /\ h.spin_end = 0
    /\ qpc = "poll" => back = (IF user = "queue" THEN "drain" ELSE "ret")

(* The handle.                                                             *)
Handle ==
    /\ ~h.on => h = NoChain
    /\ h.on => /\ h.P \in 1 .. h.reserve /\ h.reserve <= MaxTasks + 2
               /\ user = "pc" => h.reserve = h.P
               /\ user = "queue" => h.base + h.P = submitted
               /\ user # "queue" => h.base = 0 /\ n = h.P + (IF Appending THEN 1 ELSE 0)
    /\ user # "queue" => submitted = 0
    /\ user = "chain" /\ qpc = "user" /\ ~h.on => n = 0
    /\ user = "chain" /\ left => qpc = "ret"

(* What holds however the sequencer behaves: the links stay in the buffer, *)
(* and no more is counted than was submitted.                              *)
Mark == IF user = "queue" THEN (IF h.on THEN h.base ELSE submitted) ELSE n
Bounds ==
    /\ \A s \in Slot : link[s] => s <= MaxTasks
    /\ seq = "run" /\ pipe[Len(pipe)][2] => fs <= MaxTasks + 1
    /\ user = "queue" => done <= Mark

(* The command buffer: the chain's programs in their slots, behind them    *)
(* the tail, if there is one.                                              *)
Buffer ==
    /\ h.on => \A s \in Slot :
         /\ s < h.P => prog[s] = h.base + s
         /\ h.spin_end > 0 /\ s >= h.P /\ ~(Appending /\ s = h.P) => prog[s] = SpinProg
         /\ link[s] => s + 1 < h.P \/ h.spin_end > 0
         /\ Unspoilt /\ s < h.P - 1 => link[s]
    /\ \A s \in Slot : prog[s] = Torn => qpc = "write" /\ s = h.P
    /\ qpc = "relink" => prog[h.P] = h.base + h.P

(* The first m doorbells of the chain have rung and no other.              *)
Landed(m) == m \in 0 .. h.P /\ \A i \in 0 .. (h.P - 1) : door[h.base + i] = "new" <=> i < m
Frontier == IF h.on THEN h.base + h.P ELSE IF user = "queue" THEN submitted ELSE n

(* What has landed, by where the sequencer is; an append is ahead of it.   *)
(* A chain left running rings on behind the host's back.                   *)
Doorbells ==
    /\ ~left => \A t \in Task : t >= Frontier => door[t] # "new"
    /\ Started => \E m \in 0 .. h.P :
         /\ Landed(m)
         /\ seq = "run" => m = Min2(At, h.P)
         /\ Appending => slip <= Slack /\ m <= h.P - HEADROOM - 1 + slip
         /\ Unspoilt /\ seq = "none" => m = h.P

(* What the sequencer holds: what is in the slots from At on, and which  *)
(* links it has read.  What outlives a handle that was waited for is its   *)
(* tail, and what outlives any handle is whole.                            *)
Holds(k) ==
    LET s == At + k - 1 IN
    /\ s < h.P \/ h.spin_end > 0
    /\ pipe[k][1] = IF s < h.P THEN h.base + s ELSE SpinProg
    /\ pipe[k][2] => s + 1 < h.P \/ h.spin_end > 0
    /\ Unspoilt /\ s < h.P - 1 => pipe[k][2]
InPipe ==
    /\ seq = "run" => /\ At \in Nat
                      /\ h.on => qpc # "seed" /\ \A k \in 1 .. Len(pipe) : Holds(k)
                      /\ ~h.on => \A k \in 1 .. Len(pipe) : pipe[k][1] # Torn
                      /\ ~h.on /\ ~left => /\ \A k \in 1 .. Len(pipe) : pipe[k][1] = SpinProg
                                           /\ \A s \in Slot : s >= fs => prog[s] = SpinProg
    /\ errors = 0 => seq # "stuck"

(* What is counted, and that it is all where nothing went wrong.           *)
Rang(c) == {t \in 0 .. (c - 1) : door[t] = "new"}
Counted ==
    /\ user = "queue" \/ qpc = "ret" =>
         /\ done <= Cardinality(Rang(Mark))
         /\ ~left => /\ done = Cardinality(Rang(Mark))
                     /\ Unspoilt => \A t \in 0 .. (Mark - 1) : door[t] = "new"
    /\ Unspoilt /\ qpc = "ret" => Mark = n

(* What holds as long as no chain comes over one that runs.                *)
Steered == Buffer /\ Doorbells /\ InPipe /\ Counted

DynInv == DynShape /\ Phases /\ Handle /\ Bounds /\ (seq # "wild" => Steered)

-----------------------------------------------------------------------------
(* Facts of every state.                                                   *)
LEMMA DynFacts ==
    ASSUME DynAssumption, DynShape
    PROVE  /\ MaxTasks \in Nat \ {0} /\ HEADROOM \in Nat \ {0} /\ lead \in Nat /\ lead < HEADROOM
           /\ Slack \in Nat /\ Slack + lead + 1 = HEADROOM
           /\ n \in Nat /\ n <= MaxTasks /\ submitted \in Nat /\ submitted <= n /\ done \in Nat
           /\ h.on \in BOOLEAN /\ h.base \in Nat /\ h.P \in Nat /\ h.reserve \in Nat /\ h.spin_end \in Nat
           /\ h.base + h.P <= MaxTasks /\ Len(pipe) \in Nat /\ Len(pipe) <= lead + 1 /\ fs \in Nat
           /\ seq = "run" <=> Len(pipe) > 0
           /\ user \in {"queue", "chain", "pc"} /\ chunk_max \in Nat \ {0}
           /\ budget \in Nat /\ budget <= MaxTasks + 2
<1> USE DEF DynShape, DynTypeOK
<1>1. lead \in Nat /\ lead < HEADROOM /\ MaxTasks \in Nat \ {0} /\ HEADROOM \in Nat \ {0}
  BY DEF DynAssumption
<1>2. Slack \in Nat /\ Slack + lead + 1 = HEADROOM
  BY <1>1 DEF Slack
<1>3. seq = "run" <=> Len(pipe) > 0
  <2>1. pipe \in Seq(Programs \X BOOLEAN)
    OBVIOUS
  <2>2. pipe # << >> <=> Len(pipe) > 0
    BY <2>1
  <2> QED BY <2>2
<1>4. user \in {"queue", "chain", "pc"} /\ chunk_max \in Nat \ {0} /\ budget \in Nat
      /\ budget <= MaxTasks + 2
  BY <1>1 DEF DynAssumption, AllUsers
<1>5. h.on \in BOOLEAN /\ h.base \in Nat /\ h.P \in Nat /\ h.reserve \in Nat /\ h.spin_end \in Nat
  BY DEF Chains
<1>6. n \in Nat /\ n <= MaxTasks /\ submitted \in Nat /\ submitted <= n /\ done \in Nat
      /\ Len(pipe) \in Nat /\ fs \in Nat
  BY <1>1
<1> QED BY <1>1, <1>2, <1>3, <1>4, <1>5, <1>6

(* The landed prefix and the highest doorbell that has rung are no longer  *)
(* than the chain.                                                         *)
LEMMA PrefixRange ==
    ASSUME h.P \in Nat
    PROVE  Prefix \in 0 .. h.P /\ Highest \in 0 .. h.P
<1>1. PICK p \in Nat : p = h.P
  OBVIOUS
<1>2. IsFiniteSet(1 .. p) /\ Cardinality(1 .. p) = p
  <2>1. IsFiniteSet(1 .. p) /\ Cardinality(1 .. p) = IF 1 > p THEN 0 ELSE p - 1 + 1
    BY FS_Interval
  <2> QED BY <2>1
<1>3. ASSUME NEW S, S \subseteq 1 .. p PROVE Cardinality(S) \in 0 .. p
  <2>1. IsFiniteSet(S) /\ Cardinality(S) <= p
    BY <1>2, <1>3, FS_Subset
  <2> QED BY <2>1, FS_CardinalityType
<1> DEFINE A == {k \in 1 .. p : \A i \in 0 .. (k - 1) : door[h.base + i] = "new"}
           B == {k \in 1 .. p : \E i \in k .. p : door[h.base + i - 1] = "new"}
<1>4. Cardinality(A) \in 0 .. p /\ Cardinality(B) \in 0 .. p
  <2>1. A \subseteq 1 .. p /\ B \subseteq 1 .. p
    OBVIOUS
  <2> HIDE DEF A, B
  <2> QED BY <1>3, <2>1
<1> QED BY <1>1, <1>4 DEF Prefix, Highest

(* They are what has landed, when it landed in order.                      *)
LEMMA PrefixIs ==
    ASSUME h.P \in Nat, h.base \in Nat, NEW m, Landed(m)
    PROVE  Prefix = m /\ Highest = m
<1>1. m \in 0 .. h.P /\ m \in Nat
  BY DEF Landed
<1>2. \A i \in 0 .. (h.P - 1) : door[h.base + i] = "new" <=> i < m
  BY DEF Landed
<1>3. ASSUME NEW k \in 1 .. h.P
      PROVE  /\ (\A i \in 0 .. (k - 1) : door[h.base + i] = "new") <=> k <= m
             /\ (\E i \in k .. h.P : door[h.base + i - 1] = "new") <=> k <= m
  <2>1. k - 1 \in 0 .. (k - 1) /\ k - 1 \in 0 .. (h.P - 1)
    OBVIOUS
  <2>2. \A i \in 0 .. (k - 1) : i \in 0 .. (h.P - 1)
    OBVIOUS
  <2>3. door[h.base + (k - 1)] = "new" <=> k - 1 < m
    BY <1>2, <2>1
  <2>4. (\A i \in 0 .. (k - 1) : door[h.base + i] = "new") => k <= m
    BY <1>1, <2>1, <2>3
  <2>5. k <= m => \A i \in 0 .. (k - 1) : door[h.base + i] = "new"
    BY <1>1, <1>2, <2>2
  <2>6. \A i \in k .. h.P : door[h.base + i - 1] = "new" <=> i <= m
    <3> SUFFICES ASSUME NEW i \in k .. h.P PROVE door[h.base + i - 1] = "new" <=> i <= m
      OBVIOUS
    <3>1. PICK j \in 0 .. (h.P - 1) : j = i - 1
      OBVIOUS
    <3>2. h.base + i - 1 = h.base + j
      BY <3>1
    <3>3. door[h.base + j] = "new" <=> j < m
      BY <1>2
    <3> QED BY <1>1, <3>1, <3>2, <3>3
  <2>7. k \in k .. h.P
    OBVIOUS
  <2>8. k <= m => \E i \in k .. h.P : door[h.base + i - 1] = "new"
    BY <2>6, <2>7
  <2>9. (\E i \in k .. h.P : door[h.base + i - 1] = "new") => k <= m
    BY <1>1, <2>6
  <2> QED BY <2>4, <2>5, <2>8, <2>9
<1>4. {k \in 1 .. h.P : \A i \in 0 .. (k - 1) : door[h.base + i] = "new"} = 1 .. m
  BY <1>1, <1>3
<1>5. {k \in 1 .. h.P : \E i \in k .. h.P : door[h.base + i - 1] = "new"} = 1 .. m
  BY <1>1, <1>3
<1>6. Cardinality(1 .. m) = m
  <2>1. Cardinality(1 .. m) = IF 1 > m THEN 0 ELSE m - 1 + 1
    BY <1>1, FS_Interval
  <2> QED BY <1>1, <2>1
<1> QED BY <1>4, <1>5, <1>6 DEF Prefix, Highest

-----------------------------------------------------------------------------
(* Steps of the host that touch neither the buffer nor the sequencer.      *)
LEMMA ControlStep ==
    ASSUME DynInv, ~Appending, ~Appending', Started' <=> Started, Frontier' = Frontier,
           UNCHANGED <<userVars, h, bufVars, seqVars, door, slip, cut, left, errors>>,
           qpc' # "seed", DynShape', Phases', Handle', Bounds', seq # "wild" => Counted'
    PROVE  DynInv'
<1>1. /\ UNCHANGED <<user, chunk_max, budget, lead, h, prog, link, seq, pipe, fs, door, slip, cut, left, errors>>
      /\ Slack' = Slack /\ At' = At /\ (Unspoilt' <=> Unspoilt)
  BY DEF userVars, bufVars, seqVars, Slack, At, Unspoilt
<1> SUFFICES ASSUME seq' # "wild" PROVE Buffer' /\ Doorbells' /\ InPipe' /\ Counted'
  BY DEF DynInv, Steered
<1>s. Buffer /\ Doorbells /\ InPipe
  BY <1>1 DEF DynInv, Steered
<1>2. Buffer'
  BY <1>1, <1>s DEF Buffer, Appending
<1>3. Doorbells'
  BY <1>1, <1>s DEF Doorbells, Landed
<1>4. InPipe'
  BY <1>1, <1>s DEF InPipe, Holds
<1> QED BY <1>1, <1>2, <1>3, <1>4

LEMMA QPushKeeps == ASSUME DynAssumption, DynInv, QPush PROVE DynInv'
<1> USE DEF DynInv
<1>1. /\ qpc = "user" /\ user = "queue" /\ n < MaxTasks /\ n' = n + 1
      /\ UNCHANGED <<user, chunk_max, budget, lead, submitted, done, h, prog, link, seq, pipe, fs, door,
                     warmed, qpc, back, slip, cut, left, runs, errors>>
  BY DEF QPush, userVars, bufVars, seqVars, countVars
<1>2. n \in Nat /\ n + 1 <= MaxTasks /\ MaxTasks \in Nat /\ chunk_max \in Nat
  BY <1>1, DynFacts
<1>3. DynShape'
  BY <1>1, <1>2 DEF DynShape, DynTypeOK
<1>4. Phases'
  BY <1>1 DEF Phases, Appending
<1>5. Handle'
  BY <1>1, <1>2 DEF Handle, Appending
<1>6. Bounds'
  BY <1>1 DEF Bounds, Mark
<1>7. seq # "wild" => Counted'
  BY <1>1 DEF Steered, Counted, Mark, Rang, Unspoilt
<1>8. ~Appending /\ ~Appending' /\ (Started' <=> Started) /\ Frontier' = Frontier
  BY <1>1 DEF Appending, Started, Frontier
<1> QED BY <1>1, <1>3, <1>4, <1>5, <1>6, <1>7, <1>8, ControlStep DEF userVars, bufVars, seqVars

LEMMA QDrainKeeps == ASSUME DynAssumption, DynInv, QDrain PROVE DynInv'
<1> USE DEF DynInv
<1>1. /\ qpc = "user" /\ user = "queue" /\ qpc' = "drain"
      /\ UNCHANGED <<user, chunk_max, budget, lead, n, submitted, done, h, prog, link, seq, pipe, fs, door,
                     warmed, back, slip, cut, left, runs, errors>>
  BY DEF QDrain, userVars, queueVars, bufVars, seqVars, countVars
<1>2. DynShape'
  BY <1>1 DEF DynShape, DynTypeOK
<1>3. Phases'
  BY <1>1 DEF Phases, Appending
<1>4. Handle'
  BY <1>1 DEF Handle, Appending
<1>5. Bounds'
  BY <1>1 DEF Bounds, Mark
<1>6. seq # "wild" => Counted'
  BY <1>1 DEF Steered, Counted, Mark, Rang, Unspoilt
<1>7. ~Appending /\ ~Appending' /\ (Started' <=> Started) /\ Frontier' = Frontier
  BY <1>1 DEF Appending, Started, Frontier
<1> QED BY <1>1, <1>2, <1>3, <1>4, <1>5, <1>6, <1>7, ControlStep DEF userVars, bufVars, seqVars

(* What is counted does not hang on which of the marks is meant when all   *)
(* was submitted, or nothing behind it has landed.                         *)
LEMMA RangAll ==
    ASSUME DynAssumption, DynShape, NEW a \in Nat, a <= n, \A t \in Task : t >= a => door[t] # "new"
    PROVE  Rang(n) = Rang(a)
<1>1. \A t \in 0 .. (n - 1) : t \in Task
  BY DynFacts DEF Task
<1>2. n \in Nat
  BY DynFacts
<1>3. {t \in 0 .. (n - 1) : door[t] = "new"} = {t \in 0 .. (a - 1) : door[t] = "new"}
  <2>1. ASSUME NEW t \in 0 .. (n - 1), door[t] = "new" PROVE t \in 0 .. (a - 1)
    <3>1. t \in Task /\ t \in Nat
      BY <1>1, <1>2
    <3>2. ~(t >= a)
      BY <2>1, <3>1
    <3> QED BY <3>1, <3>2
  <2>2. ASSUME NEW t \in 0 .. (a - 1) PROVE t \in 0 .. (n - 1)
    BY <1>2
  <2> QED BY <2>1, <2>2, Zenon
<1> QED BY <1>3 DEF Rang

(* A part of the first c tasks has at most c of them.                      *)
LEMMA SmallPart ==
    ASSUME NEW c \in Nat, NEW S, S \subseteq 0 .. (c - 1)
    PROVE  IsFiniteSet(S) /\ Cardinality(S) \in Nat /\ Cardinality(S) <= c
<1>1. PICK T : T = 0 .. (c - 1)
  OBVIOUS
<1>2. IsFiniteSet(T) /\ Cardinality(T) = c
  <2>1. PICK e \in Int : e = c - 1
    OBVIOUS
  <2>2. IsFiniteSet(0 .. e) /\ Cardinality(0 .. e) = IF 0 > e THEN 0 ELSE e - 0 + 1
    BY FS_Interval
  <2> QED BY <1>1, <2>1, <2>2
<1> QED BY <1>1, <1>2, FS_Subset, FS_CardinalityType

LEMMA DrainDoneKeeps == ASSUME DynAssumption, DynInv, DrainDone PROVE DynInv'
<1> USE DEF DynInv
<1>1. /\ qpc = "drain" /\ ~h.on /\ ~(submitted < n) /\ qpc' = "ret" /\ user = "queue"
      /\ UNCHANGED <<user, chunk_max, budget, lead, n, submitted, done, h, prog, link, seq, pipe, fs, door,
                     warmed, back, slip, cut, left, runs, errors>>
  BY DEF DrainDone, MoreToDrain, Phases, userVars, queueVars, bufVars, seqVars, countVars
<1>2. submitted = n
  BY <1>1, DynFacts
<1>3. DynShape'
  BY <1>1 DEF DynShape, DynTypeOK
<1>4. Phases'
  BY <1>1 DEF Phases, Appending
<1>5. Handle'
  BY <1>1 DEF Handle, Appending
<1>6. Bounds'
  BY <1>1 DEF Bounds, Mark
<1>7. seq # "wild" => Counted'
  BY <1>1, <1>2 DEF Steered, Counted, Mark, Rang, Unspoilt
<1>8. ~Appending /\ ~Appending' /\ (Started' <=> Started) /\ Frontier' = Frontier
  BY <1>1 DEF Appending, Started, Frontier
<1> QED BY <1>1, <1>3, <1>4, <1>5, <1>6, <1>7, <1>8, ControlStep DEF userVars, bufVars, seqVars

(* An error spoils the run, which asks less of it.                         *)
LEMMA ErrorCounted ==
    ASSUME DynShape, errors < MaxErrors, errors' = errors + 1
    PROVE  errors' \in Nat /\ errors' > 0 /\ ~Unspoilt'
BY DEF DynShape, Unspoilt

(* What the sequencer runs is written over or left alone.                  *)
LEMMA Overwritten ==
    ASSUME DynAssumption, DynShape, Overwrite
    PROVE  /\ seq' \in {"none", "stuck", "wild"} /\ fs' = fs /\ pipe' \in Seq(Programs \X BOOLEAN)
           /\ Len(pipe') <= lead + 1 /\ (seq' = "run") = (pipe' # << >>)
           /\ seq' # "wild" => seq # "run" /\ UNCHANGED <<seq, pipe, fs>>
<1>1. lead \in Nat
  BY DynFacts
<1>2. CASE seq = "run"
  <2>1. seq' = "wild" /\ pipe' = << >> /\ fs' = fs
    BY <1>2 DEF Overwrite
  <2> QED BY <1>1, <1>2, <2>1
<1>3. CASE seq # "run"
  BY <1>3 DEF Overwrite, seqVars, DynShape, DynTypeOK
<1> QED BY <1>2, <1>3

LEMMA FlushRefusedKeeps == ASSUME DynAssumption, DynInv, FlushRefused PROVE DynInv'
<1> USE DEF DynInv
<1>1. /\ qpc \in {"user", "drain"} /\ user = "queue" /\ ~h.on /\ submitted < n
      /\ qpc' = (IF qpc = "drain" THEN "ret" ELSE "user")
      /\ errors < MaxErrors /\ errors' = errors + 1
      /\ UNCHANGED <<user, chunk_max, budget, lead, n, submitted, done, h, prog, link, door,
                     warmed, back, slip, cut, left, runs>>
  BY DEF FlushRefused, Refuse, userVars, queueVars, bufVars
<1>2. errors' \in Nat /\ errors' > 0 /\ ~Unspoilt'
  BY <1>1, ErrorCounted
<1>3. /\ seq' \in {"none", "run", "stuck", "wild"} /\ fs' = fs /\ pipe' \in Seq(Programs \X BOOLEAN)
      /\ Len(pipe') <= lead + 1 /\ (seq' = "run") = (pipe' # << >>)
      /\ seq' # "wild" => UNCHANGED <<seq, pipe, fs>>
  <2>1. CASE Overwrite
    BY <2>1, Overwritten
  <2>2. CASE UNCHANGED seqVars
    BY <2>2 DEF seqVars, DynShape, DynTypeOK
  <2> QED BY <2>1, <2>2 DEF FlushRefused
<1>4. DynShape'
  BY <1>1, <1>2, <1>3 DEF DynShape, DynTypeOK
<1>5. Phases' /\ Handle'
  BY <1>1 DEF Phases, Handle, Appending
<1>6. Bounds'
  BY <1>1, <1>3 DEF Bounds, Mark
<1> SUFFICES ASSUME seq' # "wild" PROVE Buffer' /\ Doorbells' /\ InPipe' /\ Counted'
  BY <1>4, <1>5, <1>6 DEF Steered
<1>s. Buffer /\ Doorbells /\ InPipe /\ Counted /\ UNCHANGED <<seq, pipe, fs>>
  BY <1>3 DEF Steered
<1>7. Buffer'
  BY <1>1, <1>2, <1>s DEF Buffer, Appending
<1>8. Doorbells'
  BY <1>1, <1>s DEF Doorbells, Started, Frontier
<1>9. InPipe'
  BY <1>1, <1>2, <1>s DEF InPipe, At
<1>10. Counted'
  BY <1>1, <1>2, <1>s DEF Counted, Mark, Rang
<1> QED BY <1>7, <1>8, <1>9, <1>10

(* The sequencer stops at a program.                                       *)
LEMMA HangKeeps == ASSUME DynAssumption, DynInv, Hang PROVE DynInv'
<1> USE DEF DynInv
<1>1. /\ seq = "run" /\ errors < MaxErrors /\ seq' = "stuck" /\ pipe' = << >> /\ errors' = errors + 1
      /\ UNCHANGED <<user, chunk_max, budget, lead, n, submitted, done, h, prog, link, fs, door,
                     warmed, qpc, back, slip, cut, left, runs>>
  BY DEF Hang, userVars, queueVars, bufVars
<1>2. errors' \in Nat /\ errors' > 0 /\ ~Unspoilt'
  BY <1>1, ErrorCounted
<1>s. Buffer /\ Doorbells /\ InPipe /\ Counted
  BY <1>1 DEF Steered
<1>3. DynShape'
  BY <1>1, <1>2, DynFacts DEF DynShape, DynTypeOK
<1>4. Phases' /\ Handle' /\ Bounds'
  <2>1. Phases'
    BY <1>1 DEF Phases, Appending
  <2>2. Handle'
    BY <1>1 DEF Handle, Appending
  <2>3. Bounds'
    BY <1>1 DEF Bounds, Mark
  <2> QED BY <2>1, <2>2, <2>3
<1>5. Buffer'
  BY <1>1, <1>2, <1>s DEF Buffer, Appending
<1>6. Doorbells'
  BY <1>1, <1>2, <1>s DEF Doorbells, Started, Frontier, Landed, Appending, Slack
<1>7. InPipe'
  BY <1>1, <1>2 DEF InPipe
<1>8. Counted'
  BY <1>1, <1>2, <1>s DEF Counted, Mark, Rang
<1> QED BY <1>3, <1>4, <1>5, <1>6, <1>7, <1>8 DEF Steered

(* A doorbell rings that nobody answers for.                               *)
LEMMA StrayKeeps == ASSUME DynAssumption, DynInv, Stray PROVE DynInv'
<1> USE DEF DynInv
<1>1. PICK t \in ChainTasks : door' = [door EXCEPT ![t] = "new"]
  BY DEF Stray
<1>2. /\ seq' = "wild"
      /\ UNCHANGED <<user, chunk_max, budget, lead, n, submitted, done, h, prog, link, seq, pipe, fs,
                     warmed, qpc, back, slip, cut, left, runs, errors>>
  BY DEF Stray, userVars, queueVars, bufVars, seqVars, countVars
<1>3. DynShape'
  BY <1>1, <1>2 DEF DynShape, DynTypeOK
<1>4. Phases' /\ Handle' /\ Bounds'
  BY <1>2 DEF Phases, Handle, Appending, Bounds, Mark
<1> QED BY <1>2, <1>3, <1>4

(* The warm pass is over, or given up.                                     *)
LEMMA WarmDoneKeeps == ASSUME DynAssumption, DynInv, WarmDone PROVE DynInv'
<1> USE DEF DynInv
<1>1. /\ qpc = "warm" /\ qpc' = "submit" /\ warmed' \in BOOLEAN
      /\ UNCHANGED <<user, chunk_max, budget, lead, n, submitted, done, h, prog, link, seq, pipe, fs, door,
                     back, slip, cut, left, runs, errors>>
  BY DEF WarmDone, userVars, queueVars, bufVars, seqVars, countVars
<1>2. h.on /\ h.spin_end = 0
  BY <1>1 DEF Phases
<1>3. DynShape'
  BY <1>1 DEF DynShape, DynTypeOK
<1>4. Phases' /\ Handle' /\ Bounds'
  BY <1>1 DEF Phases, Handle, Appending, Bounds, Mark
<1> SUFFICES ASSUME seq' # "wild" PROVE Buffer' /\ Doorbells' /\ InPipe' /\ Counted'
  BY <1>3, <1>4 DEF Steered
<1>s. Buffer /\ Doorbells /\ InPipe /\ Counted
  BY <1>1 DEF Steered
<1>5. Buffer'
  BY <1>1, <1>s DEF Buffer, Appending, Unspoilt
<1>6. Doorbells'
  BY <1>1, <1>s DEF Doorbells, Started, Frontier
<1>7. InPipe'
  <2>1. At' = At /\ \A k \in 1 .. Len(pipe) : Holds(k) => Holds(k)'
    BY <1>1 DEF At, Holds, Unspoilt
  <2> QED BY <1>1, <1>2, <1>s, <2>1 DEF InPipe
<1>8. Counted'
  BY <1>1, <1>s DEF Counted, Mark, Rang, Unspoilt
<1> QED BY <1>5, <1>6, <1>7, <1>8

(* The chain is ended after a slot.                                        *)
LEMMA HaltKeeps ==
    ASSUME DynAssumption, DynInv, NEW at \in Int, h.on, qpc = "user", HaltAt(at) PROVE DynInv'
<1> USE DEF DynInv
<1>1. /\ at >= 0 /\ at < Limit - 1 /\ link' = [link EXCEPT ![at] = FALSE]
      /\ cut' = (cut \/ at < h.P - 1)
      /\ UNCHANGED <<user, chunk_max, budget, lead, n, submitted, done, h, prog, seq, pipe, fs, door,
                     warmed, qpc, back, slip, left, runs, errors>>
  BY DEF HaltAt, userVars, queueVars, seqVars, countVars
<1>2. cut' \in BOOLEAN /\ (Unspoilt' => Unspoilt /\ ~(at < h.P - 1))
  BY <1>1 DEF Unspoilt, DynShape
<1>3. /\ link \in [Slot -> BOOLEAN] /\ link' \in [Slot -> BOOLEAN]
      /\ \A s \in Slot : link'[s] => link[s]
      /\ \A s \in Slot : s # at => (link'[s] <=> link[s])
  BY <1>1 DEF DynShape, DynTypeOK
<1>4. DynShape'
  BY <1>1, <1>2, <1>3 DEF DynShape, DynTypeOK
<1>5. Phases' /\ Handle'
  BY <1>1 DEF Phases, Handle, Appending
<1>6. Bounds'
  BY <1>1, <1>3 DEF Bounds, Mark
<1> SUFFICES ASSUME seq' # "wild" PROVE Buffer' /\ Doorbells' /\ InPipe' /\ Counted'
  BY <1>4, <1>5, <1>6 DEF Steered
<1>s. Buffer /\ Doorbells /\ InPipe /\ Counted
  BY <1>1 DEF Steered
<1>7. Buffer'
  <2>1. \A s \in Slot : s \in Int
    BY DEF Slot
  <2>2. \A s \in Slot : Unspoilt' /\ s < h.P - 1 => link'[s]
    <3> SUFFICES ASSUME NEW s \in Slot, Unspoilt', s < h.P - 1 PROVE link'[s]
      OBVIOUS
    <3>1. link[s]
      BY <1>2, <1>s DEF Buffer
    <3>2. s # at
      BY <1>2
    <3> QED BY <1>3, <3>1, <3>2
  <2> QED BY <1>1, <1>3, <1>s, <2>2 DEF Buffer, Appending
<1>8. Doorbells'
  BY <1>1, <1>2, <1>s DEF Doorbells, Started, Frontier, Landed, Appending, At
<1>9. InPipe'
  <2>1. At' = At /\ \A k \in 1 .. Len(pipe) : Holds(k) => Holds(k)'
    BY <1>1, <1>2 DEF At, Holds
  <2> QED BY <1>1, <1>s, <2>1 DEF InPipe
<1>10. Counted'
  BY <1>1, <1>2, <1>s DEF Counted, Mark, Rang
<1> QED BY <1>7, <1>8, <1>9, <1>10

(* The tail is ended, and the doorbells are polled from now on.            *)
LEMMA EndStartKeeps ==
    ASSUME DynAssumption, DynInv, qpc \in {"user", "drain", "pcwait"},
           NEW ret, ret = (IF user = "queue" THEN "drain" ELSE "ret"), EndStart(ret)
    PROVE  DynInv'
<1> USE DEF DynInv
<1>1. /\ h.on /\ link' = [s \in Slot |-> link[s] /\ ~(h.P <= s /\ s < h.spin_end)]
      /\ qpc' = "poll" /\ back' = ret
      /\ UNCHANGED <<user, chunk_max, budget, lead, n, submitted, done, h, prog, seq, pipe, fs, door,
                     warmed, slip, cut, left, runs, errors>>
  BY DEF EndStart, userVars, queueVars, seqVars, countVars
<1>2. link' \in [Slot -> BOOLEAN] /\ \A s \in Slot : link'[s] => link[s]
  BY <1>1 DEF DynShape, DynTypeOK
<1>3. DynShape'
  BY <1>1, <1>2 DEF DynShape, DynTypeOK
<1>4. Phases' /\ Handle'
  BY <1>1 DEF Phases, Handle, Appending
<1>5. Bounds'
  BY <1>1, <1>2 DEF Bounds, Mark
<1> SUFFICES ASSUME seq' # "wild" PROVE Buffer' /\ Doorbells' /\ InPipe' /\ Counted'
  BY <1>3, <1>4, <1>5 DEF Steered
<1>s. Buffer /\ Doorbells /\ InPipe /\ Counted
  BY <1>1 DEF Steered
<1>6. Buffer'
  <2>1. \A s \in Slot : s \in Int
    BY DEF Slot
  <2>2. \A s \in Slot : s < h.P - 1 /\ link[s] => link'[s]
    <3> SUFFICES ASSUME NEW s \in Slot, s < h.P - 1, link[s] PROVE link'[s]
      OBVIOUS
    <3>1. s \in Int /\ h.P \in Nat
      BY <2>1, DynFacts
    <3>2. ~(h.P <= s)
      BY <3>1
    <3> QED BY <1>1, <3>2
  <2> QED BY <1>1, <1>2, <1>s, <2>2 DEF Buffer, Appending, Unspoilt
<1>7. Doorbells'
  BY <1>1, <1>s DEF Doorbells, Started, Frontier, Landed, Appending, At, Unspoilt
<1>8. InPipe'
  <2>1. At' = At /\ \A k \in 1 .. Len(pipe) : Holds(k) => Holds(k)'
    BY <1>1 DEF At, Holds, Unspoilt
  <2> QED BY <1>1, <1>s, <2>1 DEF InPipe
<1>9. Counted'
  BY <1>1, <1>s DEF Counted, Mark, Rang, Unspoilt, Phases
<1> QED BY <1>6, <1>7, <1>8, <1>9

-----------------------------------------------------------------------------
(* A chain begins.                                                         *)

(* A begin finds the sequencer idle or stuck, or writes over what it runs. *)
LEMMA BeginKeeps ==
    ASSUME DynAssumption, DynInv, ~h.on, qpc \in {"user", "drain", "ret"},
           NEW b \in Nat, NEW cnt \in Nat \ {0}, b + cnt <= MaxTasks,
           NEW ret, Begin(b, cnt, ret),
           ret \in (IF user = "queue" THEN {"user", "drain"}
                    ELSE IF user = "chain" THEN {"user"} ELSE {"pcwait"}),
           \/ /\ user = "queue" /\ b = submitted /\ submitted' = b + cnt /\ n' = n /\ b + cnt <= n
           \/ /\ user # "queue" /\ b = 0 /\ submitted' = submitted /\ n' = cnt
              /\ n = 0 \/ n = cnt
              /\ user = "chain" => qpc = "user",
           runs' \in Nat
    PROVE  DynInv'
<1> USE DEF DynInv
<1>1. /\ h' = [on |-> TRUE, base |-> b, P |-> cnt, reserve |-> ReserveOf(cnt), spin_end |-> 0]
      /\ prog' = BuildProg(b, cnt) /\ link' = BuildLink(cnt)
      /\ qpc' \in {"seed", "submit"} /\ back' = ret
      /\ UNCHANGED <<user, chunk_max, budget, lead, done, door, warmed, slip, cut, left, errors>>
      /\ Overwrite
  BY DEF Begin, userVars
<1>2. /\ MaxTasks \in Nat /\ budget \in Nat /\ budget <= MaxTasks + 2 /\ submitted \in Nat /\ n \in Nat
      /\ user \in {"queue", "chain", "pc"} /\ submitted <= n /\ n <= MaxTasks
  BY DynFacts
<1>3. /\ ReserveOf(cnt) \in Nat /\ cnt <= ReserveOf(cnt) /\ ReserveOf(cnt) <= MaxTasks + 2
      /\ user = "pc" => ReserveOf(cnt) = cnt
  BY <1>2 DEF ReserveOf
<1>4. /\ h'.on = TRUE /\ h'.base = b /\ h'.P = cnt /\ h'.reserve = ReserveOf(cnt) /\ h'.spin_end = 0
      /\ h' \in Chains
  BY <1>1, <1>3 DEF Chains
<1>5. \A s \in Slot : /\ s \in Nat
                      /\ s < cnt => prog'[s] = b + s
                      /\ prog'[s] \in Task
                      /\ link'[s] <=> s < cnt - 1
  <2> SUFFICES ASSUME NEW s \in Slot
               PROVE  /\ s \in Nat
                      /\ s < cnt => prog'[s] = b + s
                      /\ prog'[s] \in Task
                      /\ link'[s] <=> s < cnt - 1
    OBVIOUS
  <2>1. s \in Nat
    BY <1>2 DEF Slot
  <2>2. prog'[s] = b + Min2(s, cnt - 1)
    BY <1>1 DEF BuildProg
  <2>3. link'[s] <=> s < cnt - 1
    BY <1>1 DEF BuildLink
  <2>4. /\ Min2(s, cnt - 1) \in 0 .. (cnt - 1)
        /\ s < cnt => Min2(s, cnt - 1) = s
    BY <2>1 DEF Min2
  <2>5. b + Min2(s, cnt - 1) \in Task
    BY <1>2, <2>4 DEF Task
  <2> QED BY <2>1, <2>2, <2>3, <2>4, <2>5
<1>6. link' \in [Slot -> BOOLEAN] /\ prog' \in [Slot -> Task \cup {SpinProg, Torn}]
  <2>1. prog' = [s \in Slot |-> prog'[s]]
    BY <1>1 DEF BuildProg
  <2>2. prog' \in [Slot -> Task \cup {SpinProg, Torn}]
    BY <1>5, <2>1
  <2>3. link' \in [Slot -> BOOLEAN]
    BY <1>1 DEF BuildLink
  <2> QED BY <2>2, <2>3
<1>7. n' \in 0 .. MaxTasks /\ submitted' \in 0 .. n'
  BY <1>2 DEF Handle
<1>o. /\ seq' \in {"none", "stuck", "wild"} /\ fs' = fs /\ pipe' \in Seq(Programs \X BOOLEAN)
      /\ Len(pipe') <= lead + 1 /\ (seq' = "run") = (pipe' # << >>)
      /\ seq' # "wild" => seq # "run" /\ UNCHANGED <<seq, pipe, fs>>
  BY <1>1, Overwritten
<1>8. DynShape'
  <2>1. h'.base + h'.P <= MaxTasks /\ h'.reserve \in Nat /\ h'.spin_end \in {0, h'.reserve}
    BY <1>3, <1>4
  <2> QED BY <1>1, <1>4, <1>6, <1>7, <1>o, <2>1 DEF DynShape, DynTypeOK
<1>9. Phases'
  BY <1>1, <1>4 DEF Phases, Appending
<1>10. Handle'
  BY <1>1, <1>2, <1>3, <1>4 DEF Handle, Appending
<1>11. Bounds'
  BY <1>1, <1>2, <1>4, <1>5, <1>o DEF Bounds, Mark
<1> SUFFICES ASSUME seq' # "wild" PROVE Buffer' /\ Doorbells' /\ InPipe' /\ Counted'
  BY <1>8, <1>9, <1>10, <1>11 DEF Steered
<1>s. Buffer /\ Doorbells /\ InPipe /\ Counted /\ seq # "run" /\ seq' = seq
  BY <1>o DEF Steered
<1>12. Buffer'
  <2>1. \A t \in Task : t # Torn
    BY <1>2 DEF Task, Torn
  <2> QED BY <1>1, <1>2, <1>4, <1>5, <2>1 DEF Buffer, Appending
<1>13. Doorbells'
  <2>1. ~left => \A t \in Task : t >= b + cnt => door[t] # "new"
    <3> SUFFICES ASSUME ~left, NEW t \in Task, t >= b + cnt PROVE door[t] # "new"
      OBVIOUS
    <3>1. t >= Frontier
      BY <1>2 DEF Frontier, Task
    <3> QED BY <1>s, <3>1 DEF Doorbells
  <2> QED BY <1>1, <1>4, <2>1 DEF Doorbells, Started, Frontier
<1>14. InPipe'
  BY <1>1, <1>s DEF InPipe
<1>15. Counted'
  BY <1>1, <1>4, <1>s DEF Counted, Mark, Rang, Unspoilt
<1> QED BY <1>12, <1>13, <1>14, <1>15

LEMMA FlushKeeps ==
    ASSUME DynAssumption, DynInv, NEW ret, ret = qpc, qpc \in {"user", "drain"}, Flush(ret)
    PROVE  DynInv'
<1> USE DEF DynInv
<1>1. /\ user = "queue" /\ ~h.on /\ submitted < n
      /\ submitted' = submitted + ChunkOf(n - submitted)
      /\ Begin(submitted, ChunkOf(n - submitted), ret) /\ n' = n /\ runs' = runs
  BY DEF Flush
<1>2. submitted \in Nat /\ n \in Nat /\ n <= MaxTasks /\ MaxTasks \in Nat /\ chunk_max \in Nat \ {0}
  BY DynFacts
<1>3. /\ ChunkOf(n - submitted) \in Nat \ {0} /\ submitted + ChunkOf(n - submitted) <= n
  BY <1>1, <1>2 DEF ChunkOf, Min2
<1>4. runs' \in Nat
  BY <1>1 DEF DynShape
<1>5. submitted + ChunkOf(n - submitted) <= MaxTasks
  BY <1>2, <1>3
<1> QED BY <1>1, <1>2, <1>3, <1>4, <1>5, BeginKeeps

LEMMA ChainBeginKeeps ==
    ASSUME DynAssumption, DynInv, NEW cnt \in 1 .. (MaxTasks - 1), ChainBegin(cnt) PROVE DynInv'
<1> USE DEF DynInv
<1>1. /\ qpc = "user" /\ user = "chain" /\ ~h.on /\ n' = cnt /\ Begin(0, cnt, "user")
      /\ submitted' = submitted /\ runs' = runs
  BY DEF ChainBegin
<1>2. n = 0 /\ runs' \in Nat
  BY <1>1 DEF Handle, DynShape
<1>3. cnt \in Nat \ {0} /\ 0 + cnt <= MaxTasks
  BY DynFacts
<1> QED BY <1>1, <1>2, <1>3, BeginKeeps

LEMMA PcRunKeeps ==
    ASSUME DynAssumption, DynInv, NEW cnt \in 1 .. (MaxTasks - 1), PcRun(cnt) PROVE DynInv'
<1> USE DEF DynInv
<1>1. /\ qpc \in {"user", "ret"} /\ user = "pc" /\ ~h.on /\ n' = cnt /\ Begin(0, cnt, "pcwait")
      /\ (n > 0 => cnt = n) /\ submitted' = submitted /\ runs' = runs + 1
  BY DEF PcRun
<1>2. runs' \in Nat
  BY <1>1 DEF DynShape
<1>3. cnt \in Nat \ {0} /\ 0 + cnt <= MaxTasks /\ (n = 0 \/ n = cnt)
  BY <1>1, DynFacts
<1> QED BY <1>1, <1>2, <1>3, BeginKeeps

-----------------------------------------------------------------------------
(* The programs are submitted.                                             *)

(* The doorbells of the chain after the sentinels are written.             *)
LEMMA Seeded ==
    ASSUME DynAssumption, DynInv, h.on
    PROVE  /\ Seed \in [Task -> {"old", "seed", "new"}]
           /\ \A i \in 0 .. (h.P - 1) : Seed[h.base + i] = "seed"
           /\ \A t \in Task : t < h.base \/ t >= h.base + h.P => Seed[t] = door[t]
           /\ ~left /\ seq # "wild" => \A t \in Task : t >= h.base => Seed[t] # "new"
<1>1. /\ h.base \in Nat /\ h.P \in Nat /\ h.base + h.P <= MaxTasks /\ MaxTasks \in Nat
  BY DynFacts DEF DynInv
<1>2. \A t \in Task : t \in Nat /\ Seed[t] = (IF t \in ChainTasks THEN "seed" ELSE door[t])
  BY <1>1 DEF Seed, Task
<1>3. \A t \in Task : t \in ChainTasks <=> h.base <= t /\ t < h.base + h.P
  BY <1>1, <1>2 DEF ChainTasks
<1>4. \A i \in 0 .. (h.P - 1) : h.base + i \in Task /\ h.base + i \in ChainTasks
  BY <1>1 DEF Task, ChainTasks
<1>5. Seed \in [Task -> {"old", "seed", "new"}]
  BY <1>2 DEF Seed, DynInv, DynShape, DynTypeOK
<1>6. ~left /\ seq # "wild" => \A t \in Task : t >= h.base + h.P => door[t] # "new"
  BY DEF DynInv, Steered, Doorbells, Frontier
<1>7. ~left /\ seq # "wild" => \A t \in Task : t >= h.base => Seed[t] # "new"
  BY <1>1, <1>2, <1>3, <1>6
<1> QED BY <1>1, <1>2, <1>3, <1>4, <1>5, <1>7

(* The count is of what lies behind the chain.                             *)
LEMMA CountedBehind ==
    ASSUME DynInv, DynAssumption, seq # "wild", left' = left, h.on, h'.on, h'.base = h.base,
           user' = user, done' = done, qpc' # "ret",
           Unspoilt' => Unspoilt, \A t \in Task : t < h.base => door'[t] = door[t]
    PROVE  Counted'
<1> USE DEF DynInv
<1>1. h.base \in Nat /\ h.base <= MaxTasks /\ MaxTasks \in Nat
  <2>1. h.base \in Nat /\ h.P \in Nat /\ MaxTasks \in Nat /\ h.base + h.P <= MaxTasks
    BY DynFacts
  <2> QED BY <2>1
<1>2. \A t \in 0 .. (h.base - 1) : t \in Task /\ door'[t] = door[t]
  BY <1>1 DEF Task
<1>3. user = "queue" => Mark' = h.base /\ Mark = h.base
  BY DEF Mark
<1>4. user = "queue" => {t \in 0 .. (h.base - 1) : door'[t] = "new"} = Rang(h.base)
  BY <1>2 DEF Rang
<1> QED BY <1>2, <1>3, <1>4 DEF Steered, Counted, Rang

(* The sequencer begins the chain, or a job that is stuck is in the way,   *)
(* or one that runs.                                                       *)
LEMMA Submitted ==
    ASSUME DynAssumption, DynShape, NEW p, NEW l, Submit(p, l), p[0] \in Programs, l[0] \in BOOLEAN
    PROVE  /\ seq' \in {"run", "stuck", "wild"} /\ fs' \in 0 .. (MaxTasks + 2)
           /\ pipe' \in Seq(Programs \X BOOLEAN)
           /\ Len(pipe') <= lead + 1 /\ (seq' = "run") = (pipe' # << >>)
           /\ seq' = "run" => fs' = 1 /\ Len(pipe') = 1 /\ pipe'[1] = <<p[0], l[0]>>
           /\ seq' = "stuck" => seq = "stuck"
           /\ seq' # "wild" => seq # "wild"
<1>1. MaxTasks \in Nat /\ lead \in Nat /\ fs \in 0 .. (MaxTasks + 2)
  BY DynFacts DEF DynShape, DynTypeOK
<1>2. CASE seq \in {"none", "stuck"} /\ StartJob(p, l)
  <2>1. seq' = "run" /\ pipe' = << <<p[0], l[0]>> >> /\ fs' = 1
    BY <1>2 DEF StartJob
  <2> QED BY <1>1, <1>2, <2>1
<1>3. CASE seq # "none" /\ Overwrite
  <2>1. /\ seq' \in {"none", "stuck", "wild"} /\ fs' = fs /\ pipe' \in Seq(Programs \X BOOLEAN)
        /\ Len(pipe') <= lead + 1 /\ (seq' = "run") = (pipe' # << >>)
        /\ seq' # "wild" => seq # "run" /\ UNCHANGED <<seq, pipe, fs>>
    BY <1>3, Overwritten
  <2>2. seq' \in {"run", "stuck", "wild"}
    BY <1>3, <2>1
  <2>3. seq' = "stuck" => seq = "stuck"
    BY <2>1
  <2> QED BY <1>1, <2>1, <2>2, <2>3
<1> QED BY <1>2, <1>3 DEF Submit

(* The chain starts with a submit: what both passes establish.             *)
LEMMA SubmitKeeps ==
    ASSUME DynAssumption, DynInv, h.on, qpc \in {"seed", "submit"}, door' = Seed,
           prog' \in [Slot -> Task \cup {SpinProg, Torn}], link' \in [Slot -> BOOLEAN],
           Submit(prog', link'), NEW e, e = h.spin_end \/ e = h.reserve, h' = [h EXCEPT !.spin_end = e],
           qpc' = (IF qpc = "seed" THEN "warm" ELSE back), qpc = "seed" => e = 0,
           \A s \in Slot : link'[s] => s <= MaxTasks,
           seq # "wild" => \A s \in Slot : /\ s < h.P => prog'[s] = h.base + s
                                           /\ e > 0 /\ s >= h.P => prog'[s] = SpinProg
                                           /\ link'[s] => s + 1 < h.P \/ e > 0
                                           /\ Unspoilt /\ s < h.P - 1 => link'[s]
                                           /\ prog'[s] # Torn,
           UNCHANGED <<user, chunk_max, budget, lead, n, submitted, done, warmed, back, slip, cut,
                       left, runs, errors>>
    PROVE  DynInv'
<1> USE DEF DynInv
<1>1. /\ MaxTasks \in Nat \ {0} /\ h.base \in Nat /\ h.P \in Nat /\ h.reserve \in Nat
      /\ h.base + h.P <= MaxTasks /\ 1 <= h.P /\ h.P <= h.reserve /\ h.spin_end = 0 /\ h.base \in Nat
      /\ user \in {"queue", "chain", "pc"} /\ lead \in Nat
  <2>1. /\ MaxTasks \in Nat \ {0} /\ h.base \in Nat /\ h.P \in Nat /\ h.reserve \in Nat
        /\ h.base + h.P <= MaxTasks /\ user \in {"queue", "chain", "pc"} /\ lead \in Nat
    BY DynFacts
  <2>2. h.P \in 1 .. h.reserve
    BY DEF Handle
  <2>3. h.spin_end = 0
    BY DEF Phases
  <2> QED BY <2>1, <2>2, <2>3
<1>2. /\ h'.on = h.on /\ h'.base = h.base /\ h'.P = h.P /\ h'.reserve = h.reserve /\ h'.spin_end = e
      /\ h' \in Chains /\ e \in {0, h.reserve}
  BY <1>1 DEF Chains, DynShape
<1>3. 0 \in Slot /\ (seq # "wild" => prog'[0] = h.base) /\ link'[0] \in BOOLEAN
  <2>1. 0 \in Slot /\ 0 < h.P /\ h.base + 0 = h.base
    BY <1>1 DEF Slot
  <2> QED BY <2>1
<1>4. /\ seq' \in {"run", "stuck", "wild"} /\ fs' \in 0 .. (MaxTasks + 2)
      /\ pipe' \in Seq(Programs \X BOOLEAN)
      /\ Len(pipe') <= lead + 1 /\ (seq' = "run") = (pipe' # << >>)
      /\ seq' = "run" => fs' = 1 /\ Len(pipe') = 1 /\ pipe'[1] = <<prog'[0], link'[0]>>
      /\ seq' = "stuck" => seq = "stuck"
      /\ seq' # "wild" => seq # "wild"
  <2>1. prog'[0] \in Programs
    BY <1>3 DEF Programs
  <2> QED BY <1>3, <2>1, Submitted
<1>5. Seed \in [Task -> {"old", "seed", "new"}]
      /\ (\A i \in 0 .. (h.P - 1) : Seed[h.base + i] = "seed")
      /\ (\A t \in Task : t < h.base \/ t >= h.base + h.P => Seed[t] = door[t])
      /\ (~left /\ seq # "wild" => \A t \in Task : t >= h.base => Seed[t] # "new")
  BY Seeded
<1>6. qpc' \in {"warm", "user", "drain", "pcwait"}
      /\ (qpc' = "pcwait" => user = "pc") /\ (qpc' = "drain" => user = "queue")
      /\ (qpc' = "user" => user # "pc")
      /\ (qpc' = "warm" => qpc = "seed")
  <2>1. CASE qpc = "seed"
    BY <2>1
  <2>2. CASE qpc = "submit"
    <3>1. /\ back \in (IF user = "queue" THEN {"user", "drain"}
                       ELSE IF user = "chain" THEN {"user"} ELSE {"pcwait"})
          /\ qpc' = back
      BY <2>2 DEF Phases
    <3>2. CASE user = "queue"
      BY <3>1, <3>2
    <3>3. CASE user = "chain"
      BY <3>1, <3>3
    <3>4. CASE user = "pc"
      BY <3>1, <3>4
    <3> QED BY <1>1, <3>2, <3>3, <3>4
  <2> QED BY <2>1, <2>2
<1>7. DynShape'
  BY <1>2, <1>4, <1>5, <1>6 DEF DynShape, DynTypeOK
<1>8. Phases'
  <2>1. qpc' = "warm" => back \in (IF user = "queue" THEN {"user", "drain"}
                                   ELSE IF user = "chain" THEN {"user"} ELSE {"pcwait"}) /\ e = 0
    BY <1>6 DEF Phases
  <2> QED BY <1>2, <1>6, <2>1 DEF Phases, Appending
<1>9. Handle'
  BY <1>2, <1>6 DEF Handle, Appending
<1>10. Unspoilt' <=> Unspoilt
  BY DEF Unspoilt
<1>b. Bounds'
  BY <1>1, <1>2, <1>4 DEF Bounds, Mark
<1> SUFFICES ASSUME seq' # "wild" PROVE Buffer' /\ Doorbells' /\ InPipe' /\ Counted'
  BY <1>7, <1>8, <1>9, <1>b DEF Steered
<1>s. Buffer /\ Doorbells /\ InPipe /\ Counted /\ seq # "wild"
  BY <1>4 DEF Steered
<1>11. Buffer'
  BY <1>2, <1>6, <1>10, <1>s DEF Buffer, Appending
<1>12. Doorbells'
  <2>1. Landed(0)'
    BY <1>1, <1>2, <1>5 DEF Landed
  <2>2. ~left' => \A t \in Task : t >= Frontier' => door'[t] # "new"
    BY <1>1, <1>2, <1>5, <1>s DEF Frontier, Task
  <2>3. seq' = "run" => 0 = Min2(At', h'.P)
    BY <1>1, <1>2, <1>4 DEF At, Min2
  <2>4. 0 \in 0 .. h'.P /\ ~Appending' /\ seq' # "none"
    BY <1>1, <1>2, <1>4, <1>6 DEF Appending
  <2> QED BY <2>1, <2>2, <2>3, <2>4 DEF Doorbells
<1>13. InPipe'
  <2>1. errors' = 0 => seq' # "stuck"
    BY <1>4, <1>s DEF InPipe
  <2>2. h'.on /\ qpc' # "seed"
    BY <1>2, <1>6
  <2>3. CASE seq' = "run"
    <3>1. fs' = 1 /\ Len(pipe') = 1 /\ pipe'[1][1] = h.base /\ pipe'[1][2] = link'[0] /\ At' = 0
      BY <1>3, <1>4, <1>s, <2>3 DEF At
    <3>2. Holds(1)'
      <4>1. At' + 1 - 1 = 0 /\ 0 < h'.P /\ h'.base + 0 = h.base
        BY <1>1, <1>2, <3>1
      <4>2. link'[0] => 0 + 1 < h'.P \/ h'.spin_end > 0
        BY <1>2, <1>3, <1>s
      <4>3. Unspoilt' /\ 0 < h'.P - 1 => link'[0]
        BY <1>2, <1>3, <1>10, <1>s
      <4> QED BY <3>1, <4>1, <4>2, <4>3 DEF Holds
    <3>3. \A i \in 1 .. Len(pipe') : Holds(i)'
      <4>1. \A i \in 1 .. Len(pipe') : i = 1
        BY <3>1
      <4> QED BY <3>2, <4>1
    <3> QED BY <1>1, <1>2, <2>1, <2>2, <2>3, <3>1, <3>3 DEF InPipe
  <2>4. CASE seq' # "run"
    BY <2>1, <2>4 DEF InPipe
  <2> QED BY <2>3, <2>4
<1>14. Counted'
  <2>1. \A t \in Task : t < h.base => door'[t] = door[t]
    BY <1>5
  <2> QED BY <1>2, <1>6, <1>10, <1>s, <2>1, CountedBehind
<1> QED BY <1>11, <1>12, <1>13, <1>14

LEMMA WarmSubmitKeeps == ASSUME DynAssumption, DynInv, WarmSubmit PROVE DynInv'
<1> USE DEF DynInv
<1>1. /\ qpc = "seed" /\ door' = Seed
      /\ UNCHANGED <<user, chunk_max, budget, lead, n, submitted, done, h, prog, link, back, slip, cut, left, runs>>
  BY DEF WarmSubmit, userVars, queueVars, bufVars
<1>2. h.on /\ h.spin_end = 0 /\ h \in Chains /\ ~Appending
  BY <1>1 DEF Phases, DynShape, Appending
<1>3. CASE Submit(prog, link) /\ qpc' = "warm" /\ UNCHANGED <<errors, warmed>>
  <2> PICK e : e = 0
    OBVIOUS
  <2>1. h' = [h EXCEPT !.spin_end = e] /\ e = h.spin_end
    BY <1>1, <1>2 DEF Chains
  <2>2. prog' \in [Slot -> Task \cup {SpinProg, Torn}] /\ link' \in [Slot -> BOOLEAN]
    BY <1>1 DEF DynShape, DynTypeOK
  <2>3. \A s \in Slot : link'[s] => s <= MaxTasks
    BY <1>1 DEF Bounds
  <2>6. seq # "wild" => \A s \in Slot : /\ s < h.P => prog'[s] = h.base + s
                                        /\ e > 0 /\ s >= h.P => prog'[s] = SpinProg
                                        /\ link'[s] => s + 1 < h.P \/ e > 0
                                        /\ Unspoilt /\ s < h.P - 1 => link'[s]
                                        /\ prog'[s] # Torn
    BY <1>1, <1>2 DEF Steered, Buffer
  <2>4. Submit(prog', link')
    BY <1>1, <1>3
  <2>5. qpc' = (IF qpc = "seed" THEN "warm" ELSE back)
    BY <1>1, <1>3
  <2>7. UNCHANGED <<user, chunk_max, budget, lead, n, submitted, done, warmed, back, slip, cut, left, runs, errors>>
    BY <1>1, <1>3
  <2>8. e = h.spin_end \/ e = h.reserve
    BY <2>1
  <2>9. qpc \in {"seed", "submit"} /\ door' = Seed /\ h.on /\ (qpc = "seed" => e = 0)
    BY <1>1, <1>2
  <2>10. h' = [h EXCEPT !.spin_end = e]
    BY <2>1
  <2> QED BY <2>2, <2>3, <2>4, <2>5, <2>6, <2>7, <2>8, <2>9, <2>10, SubmitKeeps
<1>4. CASE Refuse /\ qpc' = "submit" /\ warmed' = (user = "pc") /\ UNCHANGED seqVars
  <2>1. errors < MaxErrors /\ errors' = errors + 1 /\ UNCHANGED <<seq, pipe, fs>>
    BY <1>4 DEF Refuse, seqVars
  <2>2. errors' \in Nat /\ errors' > 0 /\ ~Unspoilt'
    BY <2>1, ErrorCounted
  <2>3. DynShape'
    BY <1>1, <1>2, <1>4, <2>1, <2>2, Seeded DEF DynShape, DynTypeOK
  <2>4. Phases' /\ Handle' /\ Bounds'
    BY <1>1, <1>4, <2>1 DEF Phases, Handle, Appending, Bounds, Mark
  <2> SUFFICES ASSUME seq' # "wild" PROVE Buffer' /\ Doorbells' /\ InPipe' /\ Counted'
    BY <2>3, <2>4 DEF Steered
  <2>s. Buffer /\ Doorbells /\ InPipe /\ Counted /\ seq # "wild"
    BY <2>1 DEF Steered
  <2>5. seq # "run" /\ ~Started'
    BY <1>1, <1>2, <1>4, <2>s DEF InPipe, Started
  <2>6. Buffer'
    BY <1>1, <1>2, <1>4, <2>2, <2>s DEF Buffer
  <2>7. Doorbells'
    <3>1. ~left => \A t \in Task : t >= h.base + h.P => door'[t] # "new"
      <4>1. h.base \in Nat /\ h.P \in Nat
        BY DynFacts
      <4>2. \A t \in Task : t \in Int
        BY DEF Task
      <4> QED BY <1>1, <1>2, <2>s, <4>1, <4>2, Seeded
    <3> QED BY <1>1, <1>2, <2>5, <3>1 DEF Doorbells, Frontier
  <2>8. InPipe'
    BY <2>1, <2>2, <2>5 DEF InPipe
  <2>9. Counted'
    <3>1. \A t \in Task : t < h.base => door'[t] = door[t]
      BY <1>1, <1>2, Seeded
    <3> QED BY <1>1, <1>2, <1>4, <2>2, <2>s, <3>1, CountedBehind
  <2> QED BY <2>6, <2>7, <2>8, <2>9
<1> QED BY <1>3, <1>4 DEF WarmSubmit

LEMMA RealSubmitKeeps ==
    ASSUME DynAssumption, DynInv, NEW sp \in BOOLEAN, RealSubmit(sp) PROVE DynInv'
<1> USE DEF DynInv
<1>1. /\ qpc = "submit" /\ (sp => h.reserve > h.P) /\ door' = Seed
      /\ prog' = SpinFrom(sp).prog /\ link' = SpinFrom(sp).link /\ Submit(prog', link')
      /\ h' = [h EXCEPT !.spin_end = IF sp THEN h.reserve ELSE 0] /\ qpc' = back
      /\ UNCHANGED <<user, chunk_max, budget, lead, n, submitted, done, warmed, back, slip, cut, left, runs, errors>>
  BY DEF RealSubmit, userVars, queueVars, countVars
<1>2. h.on /\ h.spin_end = 0 /\ ~Appending
  BY <1>1 DEF Phases, Appending
<1>3. /\ MaxTasks \in Nat /\ h.P \in Nat \ {0} /\ h.base \in Nat /\ h.reserve \in Nat
      /\ h.P <= h.reserve /\ h.reserve <= MaxTasks + 2
  <2>1. MaxTasks \in Nat /\ h.P \in Nat /\ h.base \in Nat /\ h.reserve \in Nat
    BY DynFacts
  <2>2. h.P \in 1 .. h.reserve /\ h.reserve <= MaxTasks + 2
    BY <1>2 DEF Handle
  <2> QED BY <2>1, <2>2
<1> DEFINE e == IF sp THEN h.reserve ELSE 0
<1>4. e = h.spin_end \/ e = h.reserve
  BY <1>2
<1>6. prog \in [Slot -> Task \cup {SpinProg, Torn}] /\ link \in [Slot -> BOOLEAN]
      /\ \A s \in Slot : s \in Nat /\ (link[s] => s <= MaxTasks)
  BY <1>3 DEF DynShape, DynTypeOK, Bounds, Slot
<1>5. seq # "wild" => \A s \in Slot : /\ s < h.P => prog[s] = h.base + s
                                      /\ link[s] => s + 1 < h.P
                                      /\ Unspoilt /\ s < h.P - 1 => link[s]
                                      /\ prog[s] # Torn
  BY <1>1, <1>2 DEF Steered, Buffer
<1>7. /\ prog' \in [Slot -> Task \cup {SpinProg, Torn}] /\ link' \in [Slot -> BOOLEAN]
      /\ \A s \in Slot : link'[s] => s <= MaxTasks
      /\ seq # "wild" => \A s \in Slot : /\ s < h.P => prog'[s] = h.base + s
                                         /\ e > 0 /\ s >= h.P => prog'[s] = SpinProg
                                         /\ link'[s] => s + 1 < h.P \/ e > 0
                                         /\ Unspoilt /\ s < h.P - 1 => link'[s]
                                         /\ prog'[s] # Torn
  <2>1. CASE sp
    <3>1. /\ prog' = [s \in Slot |-> IF s >= h.P THEN SpinProg ELSE prog[s]]
          /\ link' = [s \in Slot |-> s < h.reserve - 1] /\ e = h.reserve
      BY <1>1, <2>1 DEF SpinFrom
    <3>2. prog' \in [Slot -> Task \cup {SpinProg, Torn}] /\ link' \in [Slot -> BOOLEAN]
      BY <1>6, <3>1
    <3>3. \A s \in Slot : /\ prog'[s] = (IF s >= h.P THEN SpinProg ELSE prog[s])
                          /\ link'[s] <=> s < h.reserve - 1
      BY <3>1
    <3>4. SpinProg # Torn
      BY DEF SpinProg, Torn
    <3> HIDE DEF e
    <3> QED BY <1>3, <1>5, <1>6, <3>1, <3>2, <3>3, <3>4
  <2>2. CASE ~sp
    <3>1. prog' = prog /\ link' = link /\ e = 0
      BY <1>1, <2>2 DEF SpinFrom
    <3> HIDE DEF e
    <3> QED BY <1>5, <1>6, <3>1
  <2> QED BY <2>1, <2>2
<1>8. h' = [h EXCEPT !.spin_end = e]
  BY <1>1
<1>9. qpc' = (IF qpc = "seed" THEN "warm" ELSE back)
  BY <1>1
<1> HIDE DEF e
<1> QED BY <1>1, <1>2, <1>4, <1>7, <1>8, <1>9, SubmitKeeps

(* What the sequencer holds is whole.                                      *)
LEMMA HeldIsWhole ==
    ASSUME DynAssumption, DynInv, seq = "run"
    PROVE  \A k \in 1 .. Len(pipe) : pipe[k][1] # Torn
<1>s. InPipe
  BY DEF DynInv, Steered
<1> SUFFICES ASSUME NEW k \in 1 .. Len(pipe) PROVE pipe[k][1] # Torn
  OBVIOUS
<1>1. CASE h.on
  <2>1. Holds(k) /\ At \in Nat /\ h.base \in Nat
    BY <1>1, <1>s, DynFacts DEF DynInv, InPipe
  <2>2. PICK s \in Nat : s = At + k - 1
    BY <2>1
  <2>3. pipe[k][1] = IF s < h.P THEN h.base + s ELSE SpinProg
    BY <2>1, <2>2 DEF Holds
  <2>4. h.base + s # Torn /\ SpinProg # Torn
    BY <2>1 DEF SpinProg, Torn
  <2> QED BY <2>3, <2>4
<1>2. CASE ~h.on
  BY <1>2, <1>s DEF InPipe
<1> QED BY <1>1, <1>2

(* A begin that is refused gives the chain back.                           *)
LEMMA BeginRefusedKeeps == ASSUME DynAssumption, DynInv, BeginRefused PROVE DynInv'
<1> USE DEF DynInv
<1>1. /\ qpc = "submit" /\ door' = Seed /\ errors < MaxErrors /\ errors' = errors + 1 /\ h' = NoChain
      /\ submitted' = (IF user = "queue" THEN h.base ELSE submitted)
      /\ qpc' = (IF user = "queue" /\ back = "user" THEN "user" ELSE "ret")
      /\ done' = (IF user = "queue" THEN done ELSE 0)
      /\ left' = (left \/ seq = "run")
      /\ UNCHANGED <<user, chunk_max, budget, lead, n, prog, link, seq, pipe, fs, warmed, back, slip, cut, runs>>
  BY DEF BeginRefused, Refuse, Leave, userVars, bufVars, seqVars
<1>2. h.on /\ ~Started
  BY <1>1 DEF Phases, Started
<1>3. left' \in BOOLEAN /\ (~left' => ~left /\ seq # "run")
  BY <1>1 DEF DynShape, DynTypeOK
<1>4. errors' \in Nat /\ errors' > 0 /\ ~Unspoilt'
  BY <1>1, ErrorCounted
<1>5. /\ MaxTasks \in Nat /\ h.base \in Nat /\ h.P \in Nat /\ n \in Nat /\ done \in Nat /\ h.base <= MaxTasks
      /\ user = "queue" => h.base <= n
      /\ user # "queue" => h.base = 0
  <2>1. /\ MaxTasks \in Nat /\ h.base \in Nat /\ h.P \in Nat /\ n \in Nat /\ done \in Nat
        /\ h.base + h.P <= MaxTasks /\ submitted \in Nat /\ submitted <= n
    BY DynFacts
  <2> QED BY <1>2, <2>1 DEF Handle
<1>6. \A t \in Task : /\ t \in Nat
                      /\ t < h.base => door'[t] = door[t]
                      /\ ~left /\ seq # "wild" /\ t >= h.base => door'[t] # "new"
  <2>1. \A t \in Task : t \in Nat
    BY <1>5 DEF Task
  <2> QED BY <1>1, <1>2, <2>1, Seeded
<1>7. h'.on = FALSE /\ h'.base = 0 /\ h'.P = 0 /\ h'.reserve = 0 /\ h'.spin_end = 0 /\ h' \in Chains
  BY <1>1 DEF NoChain, Chains
<1>8. door' \in [Task -> {"old", "seed", "new"}]
  BY <1>1, <1>2, Seeded
<1>9. submitted' \in 0 .. n /\ done' \in 0 .. MaxTasks
  BY <1>1, <1>5 DEF DynShape, DynTypeOK
<1>10. DynShape'
  BY <1>1, <1>3, <1>4, <1>5, <1>7, <1>8, <1>9 DEF DynShape, DynTypeOK
<1>11. Phases'
  BY <1>1, <1>7 DEF Phases, Appending
<1>12. Handle'
  BY <1>1, <1>7 DEF Handle, Appending
<1>13. Bounds'
  BY <1>1, <1>2, <1>7 DEF Bounds, Mark
<1> SUFFICES ASSUME seq' # "wild" PROVE Buffer' /\ Doorbells' /\ InPipe' /\ Counted'
  BY <1>10, <1>11, <1>12, <1>13 DEF Steered
<1>s. Buffer /\ Doorbells /\ InPipe /\ Counted /\ seq # "wild"
  BY <1>1 DEF Steered
<1>14. Buffer'
  BY <1>1, <1>7, <1>s DEF Buffer
<1>15. Doorbells'
  <2>1. Frontier' >= h.base
    BY <1>1, <1>5, <1>7 DEF Frontier
  <2>2. Frontier' \in Nat
    BY <1>1, <1>5, <1>7 DEF Frontier
  <2>3. ~left' => \A t \in Task : t >= Frontier' => door'[t] # "new"
    BY <1>3, <1>5, <1>6, <1>s, <2>1, <2>2
  <2> QED BY <1>7, <2>3 DEF Doorbells, Started
<1>16. InPipe'
  <2>1. ASSUME seq = "run" PROVE left' /\ \A k \in 1 .. Len(pipe) : pipe[k][1] # Torn
    BY <1>1, <1>2, <1>5, <1>s, <2>1, HeldIsWhole
  <2> QED BY <1>1, <1>4, <1>7, <1>s, <2>1 DEF InPipe, At
<1>17. Counted'
  <2>1. CASE user = "queue"
    <3>1. Mark' = h.base /\ Mark = h.base
      BY <1>1, <1>2, <1>7, <2>1 DEF Mark
    <3>2. {t \in 0 .. (h.base - 1) : door'[t] = "new"} = Rang(h.base)
      <4>1. \A t \in 0 .. (h.base - 1) : t \in Task
        BY <1>5 DEF Task
      <4>2. \A t \in 0 .. (h.base - 1) : door'[t] = door[t]
        BY <1>5, <1>6, <4>1
      <4> QED BY <4>2 DEF Rang
    <3> QED BY <1>1, <1>3, <1>4, <1>s, <2>1, <3>1, <3>2 DEF Counted, Rang
  <2>2. CASE user # "queue"
    <3>1. Mark' = n /\ done' = 0
      BY <1>1, <2>2 DEF Mark
    <3>2. ~left' => Cardinality(Rang(Mark)') = 0
      <4>1. \A t \in 0 .. (n - 1) : t \in Task
        BY DynFacts DEF Task
      <4>2. ~left' => Rang(Mark)' = {}
        BY <1>3, <1>5, <1>6, <1>s, <2>2, <3>1, <4>1 DEF Rang
      <4> QED BY <4>2, FS_EmptySet
    <3>3. Cardinality(Rang(Mark)') \in Nat
      <4>1. PICK S : S = {t \in 0 .. (n - 1) : door'[t] = "new"}
        OBVIOUS
      <4>2. S \subseteq 0 .. (n - 1) /\ Rang(Mark)' = S
        BY <3>1, <4>1 DEF Rang
      <4> QED BY <1>5, <4>2, SmallPart
    <3> QED BY <1>1, <1>4, <2>2, <3>1, <3>2, <3>3 DEF Counted
  <2> QED BY <2>1, <2>2
<1> QED BY <1>14, <1>15, <1>16, <1>17

-----------------------------------------------------------------------------
(* The sequencer.                                                          *)

(* The first slot it holds is the one at At.                               *)
LEMMA HeadOfPipe ==
    ASSUME DynAssumption, DynInv, seq = "run"
    PROVE  /\ Len(pipe) \in Nat \ {0} /\ At \in Nat /\ fs = At + Len(pipe)
           /\ 1 \in 1 .. Len(pipe) /\ Len(pipe) \in 1 .. Len(pipe)
           /\ \A k \in 1 .. Len(pipe) : pipe[k] \in Programs \X BOOLEAN
<1>1. Len(pipe) \in Nat /\ Len(pipe) > 0 /\ fs \in Nat
  BY DynFacts DEF DynInv
<1>2. At \in Nat
  BY DEF DynInv, Steered, InPipe
<1>3. \A k \in 1 .. Len(pipe) : pipe[k] \in Programs \X BOOLEAN
  BY DEF DynInv, DynShape
<1> QED BY <1>1, <1>2, <1>3 DEF At

(* An append is ahead of all that the sequencer has read or reads next.    *)
LEMMA AppendAhead ==
    ASSUME DynAssumption, DynInv, Appending, seq = "run"
    PROVE  fs < h.P /\ h.on
<1>1. h.on /\ Started
  BY DEF DynInv, Phases, Appending, Started
<1>2. PICK m \in 0 .. h.P : m = Min2(At, h.P) /\ slip <= Slack /\ m <= h.P - HEADROOM - 1 + slip
  BY <1>1 DEF DynInv, Steered, Doorbells
<1>3. /\ h.P \in Nat /\ slip \in Nat /\ HEADROOM \in Nat /\ Slack \in Nat /\ Slack + lead + 1 = HEADROOM
      /\ lead \in Nat /\ Len(pipe) <= lead + 1
  BY DynFacts DEF DynInv, DynShape
<1>4. m < h.P - lead - 1
  BY <1>2, <1>3
<1>5. At \in Nat /\ Len(pipe) \in Nat /\ fs = At + Len(pipe)
  BY HeadOfPipe
<1>6. m \in Nat /\ m < h.P
  BY <1>3, <1>4
<1>7. At = m
  BY <1>2, <1>3, <1>5, <1>6 DEF Min2
<1> QED BY <1>1, <1>3, <1>4, <1>5, <1>7

(* What the sequencer reads next, when the last slot it holds links on.    *)
LEMMA ReadsRight ==
    ASSUME DynAssumption, DynInv, seq = "run", pipe[Len(pipe)][2]
    PROVE  /\ fs \in Slot /\ <<prog[fs], link[fs]>> \in Programs \X BOOLEAN /\ fs + 1 <= MaxTasks + 2
           /\ link[fs] => fs + 1 <= MaxTasks + 1
           /\ h.on => /\ fs < h.P \/ h.spin_end > 0
                      /\ prog[fs] = (IF fs < h.P THEN h.base + fs ELSE SpinProg)
                      /\ link[fs] => fs + 1 < h.P \/ h.spin_end > 0
                      /\ Unspoilt /\ fs < h.P - 1 => link[fs]
           /\ ~h.on => prog[fs] # Torn /\ (~left => prog[fs] = SpinProg)
<1> USE DEF DynInv
<1>s. Buffer /\ Doorbells /\ InPipe
  BY DEF Steered
<1>1. /\ MaxTasks \in Nat /\ h.P \in Nat /\ h.spin_end \in Nat /\ fs \in Nat
  BY DynFacts
<1>2. fs <= MaxTasks + 1
  BY DEF Bounds
<1>3. fs \in Slot
  BY <1>1, <1>2 DEF Slot
<1>4. <<prog[fs], link[fs]>> \in Programs \X BOOLEAN
  BY <1>3 DEF DynShape, DynTypeOK, Programs
<1>5. link[fs] => fs <= MaxTasks
  BY <1>3 DEF Bounds
<1>6. ASSUME h.on
      PROVE  /\ fs < h.P \/ h.spin_end > 0
             /\ prog[fs] = (IF fs < h.P THEN h.base + fs ELSE SpinProg)
             /\ link[fs] => fs + 1 < h.P \/ h.spin_end > 0
             /\ Unspoilt /\ fs < h.P - 1 => link[fs]
  <2>1. Holds(Len(pipe))
    BY <1>6, <1>s, HeadOfPipe DEF InPipe
  <2>2. (At + Len(pipe) - 1) + 1 < h.P \/ h.spin_end > 0
    BY <2>1 DEF Holds
  <2>3. fs < h.P \/ h.spin_end > 0
    <3>1. At \in Nat /\ Len(pipe) \in Nat /\ fs = At + Len(pipe)
      BY HeadOfPipe
    <3>2. (At + Len(pipe) - 1) + 1 = fs
      BY <3>1
    <3> QED BY <2>2, <3>2
  <2>4. fs >= h.P => ~Appending
    BY <1>1, AppendAhead
  <2>5. prog[fs] = (IF fs < h.P THEN h.base + fs ELSE SpinProg)
    BY <1>1, <1>3, <1>6, <1>s, <2>3, <2>4 DEF Buffer
  <2>6. /\ link[fs] => fs + 1 < h.P \/ h.spin_end > 0
        /\ Unspoilt /\ fs < h.P - 1 => link[fs]
    BY <1>3, <1>6, <1>s DEF Buffer
  <2> QED BY <2>3, <2>5, <2>6
<1>7. ~h.on => prog[fs] # Torn /\ (~left => prog[fs] = SpinProg)
  BY <1>1, <1>3, <1>s DEF InPipe, Buffer, Phases
<1> QED BY <1>1, <1>2, <1>3, <1>4, <1>5, <1>6, <1>7

LEMMA ReadAheadKeeps == ASSUME DynAssumption, DynInv, ReadAhead PROVE DynInv'
<1> USE DEF DynInv
<1>1. /\ seq = "run" /\ Len(pipe) <= lead /\ pipe[Len(pipe)][2]
      /\ pipe' = Append(pipe, <<prog[fs], link[fs]>>) /\ fs' = fs + 1
      /\ UNCHANGED <<user, chunk_max, budget, lead, n, submitted, done, h, prog, link, seq, door,
                     warmed, qpc, back, slip, cut, left, runs, errors>>
  BY DEF ReadAhead, userVars, queueVars, bufVars, countVars
<1>2. /\ fs \in Slot /\ <<prog[fs], link[fs]>> \in Programs \X BOOLEAN /\ fs + 1 <= MaxTasks + 2
      /\ link[fs] => fs + 1 <= MaxTasks + 1
      /\ h.on => /\ fs < h.P \/ h.spin_end > 0
                 /\ prog[fs] = (IF fs < h.P THEN h.base + fs ELSE SpinProg)
                 /\ link[fs] => fs + 1 < h.P \/ h.spin_end > 0
                 /\ Unspoilt /\ fs < h.P - 1 => link[fs]
      /\ ~h.on => prog[fs] # Torn /\ (~left => prog[fs] = SpinProg)
  BY <1>1, ReadsRight
<1>3. /\ MaxTasks \in Nat /\ lead \in Nat /\ fs \in Nat /\ Len(pipe) \in Nat \ {0} /\ At \in Nat
      /\ fs = At + Len(pipe) /\ h.P \in Nat /\ h.spin_end \in Nat
  BY <1>1, DynFacts, HeadOfPipe
<1>4. /\ pipe' \in Seq(Programs \X BOOLEAN) /\ Len(pipe') = Len(pipe) + 1
      /\ \A k \in 1 .. Len(pipe) : pipe'[k] = pipe[k]
      /\ pipe'[Len(pipe) + 1] = <<prog[fs], link[fs]>>
      /\ pipe' # << >>
  <2>1. pipe \in Seq(Programs \X BOOLEAN)
    BY DEF DynShape
  <2> QED BY <1>1, <1>2, <2>1
<1>5. At' = At
  BY <1>1, <1>3, <1>4 DEF At
<1>6. DynShape'
  <2>1. Len(pipe') <= lead + 1 /\ fs' \in 0 .. (MaxTasks + 2)
    BY <1>1, <1>2, <1>3, <1>4
  <2>2. (seq' = "run") = (pipe' # << >>)
    BY <1>1, <1>4
  <2> QED BY <1>1, <1>4, <2>1, <2>2 DEF DynShape, DynTypeOK
<1>7. Phases' /\ Handle'
  BY <1>1 DEF Phases, Handle, Appending
<1>8. Bounds'
  BY <1>1, <1>2, <1>3, <1>4 DEF Bounds, Mark
<1>s. Buffer /\ Doorbells /\ InPipe /\ Counted
  BY <1>1 DEF Steered
<1>9. Buffer'
  BY <1>1, <1>s DEF Buffer, Appending, Unspoilt
<1>10. Doorbells'
  BY <1>1, <1>5, <1>s DEF Doorbells, Started, Frontier, Landed, Appending, Unspoilt, Slack
<1>11. InPipe'
  <2>1. ASSUME h.on, NEW k \in 1 .. Len(pipe') PROVE Holds(k)'
    <3>1. CASE k \in 1 .. Len(pipe)
      <4>1. Holds(k) /\ pipe'[k] = pipe[k]
        BY <1>1, <1>4, <1>s, <2>1, <3>1 DEF InPipe
      <4> QED BY <1>1, <1>5, <4>1 DEF Holds, Unspoilt
    <3>2. CASE k = Len(pipe) + 1
      <4>1. At' + k - 1 = fs /\ pipe'[k][1] = prog[fs] /\ pipe'[k][2] = link[fs]
        BY <1>3, <1>4, <1>5, <3>2
      <4>2. fs < h.P \/ h.spin_end > 0
        BY <1>2, <2>1
      <4>3. prog[fs] = (IF fs < h.P THEN h.base + fs ELSE SpinProg)
        BY <1>2, <2>1
      <4>4. /\ link[fs] => fs + 1 < h.P \/ h.spin_end > 0
            /\ Unspoilt' /\ fs < h.P - 1 => link[fs]
        BY <1>1, <1>2, <2>1 DEF Unspoilt
      <4> QED BY <1>1, <4>1, <4>2, <4>3, <4>4 DEF Holds
    <3> QED BY <1>3, <1>4, <2>1, <3>1, <3>2
  <2>2. ASSUME ~h.on
        PROVE  /\ \A k \in 1 .. Len(pipe') : pipe'[k][1] # Torn
               /\ ~left => /\ \A k \in 1 .. Len(pipe') : pipe'[k][1] = SpinProg
                           /\ \A s \in Slot : s >= fs' => prog[s] = SpinProg
    <3>1. \A k \in 1 .. Len(pipe') : k \in 1 .. Len(pipe) \/ k = Len(pipe) + 1
      BY <1>3, <1>4
    <3>2. pipe'[Len(pipe) + 1][1] = prog[fs]
      BY <1>4
    <3>3. \A k \in 1 .. Len(pipe') : pipe'[k][1] # Torn
      BY <1>1, <1>2, <1>4, <1>s, <2>2, <3>1, <3>2 DEF InPipe
    <3>4. ~left => \A k \in 1 .. Len(pipe') : pipe'[k][1] = SpinProg
      BY <1>1, <1>2, <1>4, <1>s, <2>2, <3>1, <3>2 DEF InPipe
    <3>5. \A s \in Slot : s \in Nat
      BY <1>3 DEF Slot
    <3>6. ~left => \A s \in Slot : s >= fs' => prog[s] = SpinProg
      BY <1>1, <1>3, <1>s, <2>2, <3>5 DEF InPipe
    <3> QED BY <3>3, <3>4, <3>6
  <2> QED BY <1>1, <1>3, <1>5, <1>s, <2>1, <2>2 DEF InPipe
<1>12. Counted'
  BY <1>1, <1>s DEF Counted, Mark, Rang, Unspoilt
<1> QED BY <1>6, <1>7, <1>8, <1>9, <1>10, <1>11, <1>12 DEF Steered

(* A program that completes rings the next doorbell of its chain.          *)
LEMMA Rings ==
    ASSUME DynAssumption, DynInv, seq = "run",
           door' = [t \in Task |-> IF t = pipe[1][1] THEN "new" ELSE door[t]], h' = h, user' = user,
           submitted' = submitted, n' = n, NEW m1, m1 = Min2(At + 1, h.P)
    PROVE  /\ ~left => \A t \in Task : t >= Frontier' => door'[t] # "new"
           /\ h.on => \A t \in Task : t < h.base => door'[t] = door[t]
           /\ ~h.on /\ ~left => door' = door
           /\ Started => Landed(Min2(At, h.P)) /\ Landed(m1)'
<1> USE DEF DynInv
<1>s. Doorbells /\ InPipe
  BY DEF Steered
<1>1. /\ MaxTasks \in Nat /\ h.P \in Nat /\ h.base \in Nat /\ h.base + h.P <= MaxTasks
      /\ h.on \in BOOLEAN
  BY DynFacts
<1>2. At \in Nat /\ 1 \in 1 .. Len(pipe)
  BY HeadOfPipe
<1>3. \A t \in Task : t \in Nat /\ t # SpinProg
  BY <1>1 DEF Task, SpinProg
<1>4. Frontier' = Frontier
  BY DEF Frontier
<1>5. door \in [Task -> {"old", "seed", "new"}]
  BY DEF DynShape, DynTypeOK
<1>6. CASE ~h.on
  <2>1. ~left => pipe[1][1] = SpinProg
    BY <1>2, <1>6, <1>s DEF InPipe
  <2>2. ~left => door' = door
    BY <1>3, <1>5, <2>1
  <2> QED BY <1>4, <1>6, <1>s, <2>2 DEF Doorbells, Started
<1>7. CASE h.on
  <2>1. Holds(1)
    BY <1>2, <1>7, <1>s DEF InPipe
  <2>2. /\ At < h.P => pipe[1][1] = h.base + At
        /\ ~(At < h.P) => pipe[1][1] = SpinProg
    <3>1. pipe[1][1] = IF (At + 1) - 1 < h.P THEN h.base + ((At + 1) - 1) ELSE SpinProg
      BY <1>1, <1>2, <2>1 DEF Holds
    <3>2. (At + 1) - 1 = At
      BY <1>2
    <3> QED BY <1>1, <1>2, <3>1, <3>2
  <2>3. ~left => \A t \in Task : t >= Frontier => door[t] # "new"
    BY <1>s DEF Doorbells
  <2>4. Frontier = h.base + h.P
    BY <1>7 DEF Frontier
  <2>5. ASSUME Started PROVE Landed(Min2(At, h.P))
    BY <1>s, <2>5 DEF Doorbells
  <2>6. CASE At < h.P
    <3>1. Min2(At, h.P) = At /\ Min2(At + 1, h.P) = At + 1
      BY <1>1, <1>2, <2>6 DEF Min2
    <3>2. pipe[1][1] = h.base + At /\ h.base + At \in Task
      BY <1>1, <1>2, <2>2, <2>6 DEF Task
    <3>3. \A t \in Task : door'[t] = IF t = h.base + At THEN "new" ELSE door[t]
      BY <3>2
    <3>4. ~left => \A t \in Task : t >= Frontier' => door'[t] # "new"
      BY <1>1, <1>2, <1>3, <1>4, <2>3, <2>4, <2>6, <3>3
    <3>5. \A t \in Task : t < h.base => door'[t] = door[t]
      BY <1>1, <1>2, <1>3, <3>3
    <3>6. ASSUME Started, NEW i \in 0 .. (h.P - 1)
          PROVE  door'[h.base + i] = "new" <=> i < At + 1
      <4>1. h.base + i \in Task
        BY <1>1 DEF Task
      <4>2. door'[h.base + i] = IF i = At THEN "new" ELSE door[h.base + i]
        BY <1>1, <1>2, <3>3, <4>1
      <4>3. door[h.base + i] = "new" <=> i < At
        BY <2>5, <3>1, <3>6 DEF Landed
      <4> QED BY <1>2, <4>2, <4>3
    <3>7. At + 1 \in 0 .. h.P
      BY <1>1, <1>2, <2>6
    <3>8. ASSUME Started PROVE Landed(m1)'
      <4>1. \A i \in 0 .. (h.P - 1) : door'[h.base + i] = "new" <=> i < At + 1
        BY <3>6, <3>8
      <4>2. At + 1 \in 0 .. h'.P
        BY <3>7
      <4>3. m1 = At + 1
        BY <3>1
      <4> QED BY <4>1, <4>2, <4>3 DEF Landed
    <3> QED BY <1>7, <2>5, <3>4, <3>5, <3>8
  <2>7. CASE ~(At < h.P)
    <3>1. Min2(At, h.P) = h.P /\ Min2(At + 1, h.P) = h.P
      BY <1>1, <1>2, <2>7 DEF Min2
    <3>2. door' = door
      BY <1>3, <1>5, <2>2, <2>7
    <3>3. Started => Landed(m1)'
      BY <2>5, <3>1, <3>2 DEF Landed
    <3> QED BY <1>4, <1>7, <2>3, <2>5, <3>2, <3>3
  <2> QED BY <2>6, <2>7
<1> QED BY <1>1, <1>6, <1>7

(* What has rung is not unrung.                                            *)
LEMMA RangKept ==
    ASSUME DynAssumption, DynShape, Mark \in 0 .. MaxTasks, Mark' = Mark,
           \A t \in Task : door[t] = "new" => door'[t] = "new"
    PROVE  /\ Cardinality(Rang(Mark)) \in Nat /\ Cardinality(Rang(Mark)') \in Nat
           /\ Cardinality(Rang(Mark)) <= Cardinality(Rang(Mark)')
<1>1. MaxTasks \in Nat
  BY DynFacts
<1>c. PICK c \in Nat : c = Mark
  BY <1>1
<1>2. \A t \in 0 .. (Mark - 1) : t \in Task
  BY <1>1 DEF Task
<1>3. PICK S : S = Rang(Mark)
  OBVIOUS
<1>4. PICK T : T = Rang(Mark)'
  OBVIOUS
<1>5. S \subseteq T /\ T \subseteq 0 .. (c - 1) /\ S \subseteq 0 .. (c - 1)
  BY <1>2, <1>3, <1>4, <1>c DEF Rang
<1>6. IsFiniteSet(T) /\ Cardinality(T) \in Nat /\ Cardinality(S) \in Nat
  BY <1>5, SmallPart
<1> QED BY <1>3, <1>4, <1>5, <1>6, FS_Subset

(* What the sequencer holds once the program at the head has completed.    *)
LEMMA PipeMovesOn ==
    ASSUME DynAssumption, DynInv, Complete
    PROVE  /\ pipe' \in Seq(Programs \X BOOLEAN) /\ Len(pipe') <= lead + 1 /\ fs' \in 0 .. (MaxTasks + 2)
           /\ seq' \in {"none", "run"} /\ (seq' = "run") = (pipe' # << >>)
           /\ seq' = "none" => ~pipe[1][2] /\ Len(pipe) = 1
           /\ seq' = "run" => /\ At' = At + 1
                              /\ pipe'[Len(pipe')][2] => fs' <= MaxTasks + 1
                              /\ h.on => \A k \in 1 .. Len(pipe') : Holds(k)'
                              /\ ~h.on => \A k \in 1 .. Len(pipe') : pipe'[k][1] # Torn
                              /\ ~h.on /\ ~left =>
                                   /\ \A k \in 1 .. Len(pipe') : pipe'[k][1] = SpinProg
                                   /\ \A s \in Slot : s >= fs' => prog[s] = SpinProg
<1> USE DEF DynInv
<1>1. /\ seq = "run" /\ h' = h /\ prog' = prog /\ errors' = errors /\ cut' = cut
      /\ IF Len(pipe) > 1 THEN pipe' = Tail(pipe) /\ UNCHANGED <<seq, fs>>
         ELSE IF pipe[1][2] THEN pipe' = << <<prog[fs], link[fs]>> >> /\ fs' = fs + 1 /\ UNCHANGED seq
         ELSE seq' = "none" /\ pipe' = << >> /\ UNCHANGED fs
  BY DEF Complete, bufVars, countVars
<1>2. /\ MaxTasks \in Nat /\ lead \in Nat /\ fs \in Nat /\ Len(pipe) \in Nat \ {0} /\ At \in Nat
      /\ fs = At + Len(pipe) /\ h.P \in Nat /\ h.spin_end \in Nat /\ h.base \in Nat
      /\ Len(pipe) <= lead + 1 /\ fs <= MaxTasks + 2
  <2>1. fs <= MaxTasks + 2
    BY DEF DynShape, DynTypeOK, DynAssumption
  <2> QED BY <1>1, <2>1, DynFacts, HeadOfPipe
<1>s. InPipe
  BY <1>1 DEF Steered
<1>3. pipe \in Seq(Programs \X BOOLEAN)
  BY DEF DynShape
<1>4. Unspoilt' <=> Unspoilt
  BY <1>1 DEF Unspoilt
<1>5. CASE Len(pipe) > 1
  <2>1. /\ pipe' = Tail(pipe) /\ seq' = "run" /\ fs' = fs
        /\ pipe' \in Seq(Programs \X BOOLEAN) /\ Len(pipe') = Len(pipe) - 1
        /\ \A k \in 1 .. (Len(pipe) - 1) : pipe'[k] = pipe[k + 1]
        /\ pipe' # << >>
    <3>1. pipe' = Tail(pipe) /\ seq' = "run" /\ fs' = fs
      BY <1>1, <1>5
    <3>2. pipe # << >>
      BY <1>5
    <3>3. Tail(pipe) \in Seq(Programs \X BOOLEAN) /\ Len(Tail(pipe)) = Len(pipe) - 1
      BY <1>3, <3>2
    <3>4. \A k \in 1 .. (Len(pipe) - 1) : Tail(pipe)[k] = pipe[k + 1]
      BY <1>3, <3>2, <3>3
    <3>5. Len(Tail(pipe)) > 0
      BY <1>2, <1>5, <3>3
    <3>6. Tail(pipe) # << >>
      BY <3>5
    <3> QED BY <3>1, <3>3, <3>4, <3>6
  <2>2. At' = At + 1
    BY <1>2, <2>1 DEF At
  <2>3. pipe'[Len(pipe')] = pipe[Len(pipe)]
    BY <1>2, <1>5, <2>1
  <2>4. pipe'[Len(pipe')][2] => fs' <= MaxTasks + 1
    BY <1>1, <2>1, <2>3 DEF Bounds
  <2>5. ASSUME h.on, NEW k \in 1 .. Len(pipe') PROVE Holds(k)'
    <3>1. k + 1 \in 1 .. Len(pipe) /\ pipe'[k] = pipe[k + 1]
      BY <1>2, <2>1
    <3>2. Holds(k + 1)
      BY <1>1, <1>s, <2>5, <3>1 DEF InPipe
    <3>3. At' + k - 1 = At + (k + 1) - 1 /\ k \in Nat
      BY <1>2, <2>1, <2>2
    <3>4. PICK s \in Nat : s = At + (k + 1) - 1
      BY <1>2, <3>3
    <3>5. /\ s < h.P \/ h.spin_end > 0
          /\ pipe[k + 1][1] = (IF s < h.P THEN h.base + s ELSE SpinProg)
          /\ pipe[k + 1][2] => s + 1 < h.P \/ h.spin_end > 0
          /\ Unspoilt /\ s < h.P - 1 => pipe[k + 1][2]
      BY <3>2, <3>4 DEF Holds
    <3>6. s = At' + k - 1
      BY <3>3, <3>4
    <3> QED BY <1>1, <1>4, <3>1, <3>5, <3>6 DEF Holds
  <2>6. ASSUME ~h.on
        PROVE  /\ \A k \in 1 .. Len(pipe') : pipe'[k][1] # Torn
               /\ ~left => /\ \A k \in 1 .. Len(pipe') : pipe'[k][1] = SpinProg
                           /\ \A s \in Slot : s >= fs' => prog[s] = SpinProg
    <3>1. \A k \in 1 .. Len(pipe') : k + 1 \in 1 .. Len(pipe) /\ pipe'[k] = pipe[k + 1]
      BY <1>2, <2>1
    <3> QED BY <1>1, <1>s, <2>1, <2>6, <3>1 DEF InPipe
  <2>7. Len(pipe') <= lead + 1 /\ fs' \in 0 .. (MaxTasks + 2)
    BY <1>2, <2>1
  <2> QED BY <2>1, <2>2, <2>4, <2>5, <2>6, <2>7
<1>6. CASE Len(pipe) = 1 /\ pipe[1][2]
  <2>1. pipe' = << <<prog[fs], link[fs]>> >> /\ fs' = fs + 1 /\ seq' = "run"
    BY <1>1, <1>6
  <2>2. /\ fs \in Slot /\ <<prog[fs], link[fs]>> \in Programs \X BOOLEAN /\ fs + 1 <= MaxTasks + 2
        /\ link[fs] => fs + 1 <= MaxTasks + 1
        /\ h.on => /\ fs < h.P \/ h.spin_end > 0
                   /\ prog[fs] = (IF fs < h.P THEN h.base + fs ELSE SpinProg)
                   /\ link[fs] => fs + 1 < h.P \/ h.spin_end > 0
                   /\ Unspoilt /\ fs < h.P - 1 => link[fs]
        /\ ~h.on => prog[fs] # Torn /\ (~left => prog[fs] = SpinProg)
    BY <1>1, <1>6, ReadsRight
  <2>3. /\ pipe' \in Seq(Programs \X BOOLEAN) /\ Len(pipe') = 1 /\ pipe' # << >>
        /\ pipe'[1] = <<prog[fs], link[fs]>>
    BY <2>1, <2>2
  <2>4. At' = At + 1 /\ At' = fs
    BY <1>2, <1>6, <2>1, <2>3 DEF At
  <2>5. \A k \in 1 .. Len(pipe') : k = 1
    BY <2>3
  <2>6. ASSUME h.on PROVE Holds(1)'
    <3>1. /\ fs < h.P \/ h.spin_end > 0
          /\ prog[fs] = (IF fs < h.P THEN h.base + fs ELSE SpinProg)
          /\ link[fs] => fs + 1 < h.P \/ h.spin_end > 0
          /\ Unspoilt /\ fs < h.P - 1 => link[fs]
      BY <2>2, <2>6
    <3>2. At' + 1 - 1 = fs /\ pipe'[1][1] = prog[fs] /\ pipe'[1][2] = link[fs]
      BY <1>2, <2>3, <2>4
    <3> QED BY <1>1, <1>4, <3>1, <3>2 DEF Holds
  <2>7. ASSUME ~h.on
        PROVE  /\ \A k \in 1 .. Len(pipe') : pipe'[k][1] # Torn
               /\ ~left => /\ \A k \in 1 .. Len(pipe') : pipe'[k][1] = SpinProg
                           /\ \A s \in Slot : s >= fs' => prog[s] = SpinProg
    <3>1. \A s \in Slot : s \in Nat
      BY <1>2 DEF Slot
    <3>2. ~left => \A s \in Slot : s >= fs => prog[s] = SpinProg
      BY <1>1, <1>s, <2>7 DEF InPipe
    <3>3. ~left => \A s \in Slot : s >= fs' => prog[s] = SpinProg
      BY <1>2, <2>1, <3>1, <3>2
    <3> QED BY <2>2, <2>3, <2>5, <2>7, <3>3
  <2>8. pipe'[Len(pipe')][2] => fs' <= MaxTasks + 1
    BY <2>1, <2>2, <2>3
  <2>9. Len(pipe') <= lead + 1 /\ fs' \in 0 .. (MaxTasks + 2)
    BY <1>2, <2>1, <2>2, <2>3
  <2>10. h.on => \A k \in 1 .. Len(pipe') : Holds(k)'
    BY <2>5, <2>6
  <2> QED BY <2>1, <2>3, <2>4, <2>7, <2>8, <2>9, <2>10
<1>7. CASE Len(pipe) = 1 /\ ~pipe[1][2]
  <2>1. seq' = "none" /\ pipe' = << >> /\ fs' = fs
    BY <1>1, <1>7
  <2>2. pipe' \in Seq(Programs \X BOOLEAN) /\ Len(pipe') = 0
    BY <2>1
  <2>3. seq' # "run" /\ Len(pipe') <= lead + 1 /\ fs' \in 0 .. (MaxTasks + 2)
    BY <1>2, <2>1, <2>2
  <2>4. (seq' = "run") = (pipe' # << >>)
    BY <2>1
  <2> QED BY <1>7, <2>1, <2>2, <2>3, <2>4
<1>8. Len(pipe) > 1 \/ Len(pipe) = 1
  <2>1. PICK k \in Nat \ {0} : k = Len(pipe)
    BY <1>2
  <2>2. k > 1 \/ k = 1
    OBVIOUS
  <2> QED BY <2>1, <2>2
<1>9. CASE Len(pipe) = 1
  <2>1. CASE pipe[1][2]
    BY <1>6, <1>9, <2>1
  <2>2. CASE ~pipe[1][2]
    BY <1>7, <1>9, <2>2
  <2> QED BY <2>1, <2>2
<1> QED BY <1>5, <1>8, <1>9

LEMMA CompleteKeeps == ASSUME DynAssumption, DynInv, Complete PROVE DynInv'
<1> USE DEF DynInv
<1>1. /\ seq = "run" /\ (Appending => slip < Slack)
      /\ slip' = (IF Appending THEN slip + 1 ELSE slip)
      /\ door' = [t \in Task |-> IF t = pipe[1][1] THEN "new" ELSE door[t]]
      /\ UNCHANGED <<user, chunk_max, budget, lead, n, submitted, done, h, prog, link,
                     warmed, qpc, back, cut, left, runs, errors>>
  BY DEF Complete, Appending, userVars, queueVars, bufVars, countVars
<1>2. /\ pipe' \in Seq(Programs \X BOOLEAN) /\ Len(pipe') <= lead + 1 /\ fs' \in 0 .. (MaxTasks + 2)
      /\ seq' \in {"none", "run"} /\ (seq' = "run") = (pipe' # << >>)
      /\ seq' = "none" => ~pipe[1][2] /\ Len(pipe) = 1
      /\ seq' = "run" => /\ At' = At + 1
                         /\ pipe'[Len(pipe')][2] => fs' <= MaxTasks + 1
                         /\ h.on => \A k \in 1 .. Len(pipe') : Holds(k)'
                         /\ ~h.on => \A k \in 1 .. Len(pipe') : pipe'[k][1] # Torn
                         /\ ~h.on /\ ~left =>
                              /\ \A k \in 1 .. Len(pipe') : pipe'[k][1] = SpinProg
                              /\ \A s \in Slot : s >= fs' => prog[s] = SpinProg
  BY PipeMovesOn
<1>3. PICK m1 : m1 = Min2(At + 1, h.P)
  OBVIOUS
<1>4. /\ ~left => \A t \in Task : t >= Frontier' => door'[t] # "new"
      /\ h.on => \A t \in Task : t < h.base => door'[t] = door[t]
      /\ ~h.on /\ ~left => door' = door
      /\ Started => Landed(Min2(At, h.P)) /\ Landed(m1)'
  BY <1>1, <1>3, Rings
<1>5. slip \in Nat /\ slip' \in Nat /\ Slack \in Nat /\ Slack' = Slack /\ (Appending' <=> Appending)
      /\ (Started' <=> Started) /\ (Unspoilt' <=> Unspoilt)
  BY <1>1, DynFacts DEF DynShape, Slack, Appending, Started, Unspoilt
<1>6. door' \in [Task -> {"old", "seed", "new"}]
  BY <1>1 DEF DynShape, DynTypeOK
<1>7. DynShape'
  BY <1>1, <1>2, <1>5, <1>6 DEF DynShape, DynTypeOK
<1>8. Phases' /\ Handle' /\ Bounds'
  BY <1>1, <1>2 DEF Phases, Handle, Appending, Bounds, Mark
<1>s. Buffer /\ Doorbells /\ InPipe /\ Counted
  BY <1>1 DEF Steered
<1>9. Buffer'
  BY <1>1, <1>s DEF Buffer, Appending, Unspoilt
<1>10. /\ At \in Nat /\ h.P \in Nat /\ m1 \in 0 .. h.P /\ HEADROOM \in Nat
       /\ 1 \in 1 .. Len(pipe) /\ h.spin_end \in Nat
  <2>1. At \in Nat /\ h.P \in Nat /\ HEADROOM \in Nat /\ 1 \in 1 .. Len(pipe) /\ h.spin_end \in Nat
    BY <1>1, DynFacts, HeadOfPipe
  <2> QED BY <1>3, <2>1 DEF Min2
<1>11. Doorbells'
  <2> SUFFICES ASSUME Started'
               PROVE  /\ seq' = "run" => m1 = Min2(At', h.P)
                      /\ Appending' => slip' <= Slack' /\ m1 <= h.P - HEADROOM - 1 + slip'
                      /\ Unspoilt' /\ seq' = "none" => m1 = h.P
    <3>1. Started' => Landed(m1)'
      BY <1>4, <1>5 DEF Started
    <3>2. Started' => m1 \in 0 .. h'.P /\ h'.P = h.P
      BY <1>1, <1>10
    <3> QED BY <1>1, <1>4, <3>1, <3>2 DEF Doorbells
  <2>1. h.on
    BY <1>5 DEF Started
  <2>2. PICK m \in 0 .. h.P : /\ m = Min2(At, h.P)
                              /\ Appending => slip <= Slack /\ m <= h.P - HEADROOM - 1 + slip
    BY <1>1, <1>5, <1>s DEF Doorbells
  <2>3. seq' = "run" => m1 = Min2(At', h.P)
    BY <1>2, <1>3
  <2>4. Appending => slip' <= Slack /\ m1 <= h.P - HEADROOM - 1 + slip'
    <3>1. m1 <= m + 1
      BY <1>3, <1>10, <2>2 DEF Min2
    <3>2. ASSUME Appending PROVE slip' = slip + 1 /\ slip + 1 <= Slack /\ m <= h.P - HEADROOM - 1 + slip
      BY <1>1, <1>5, <2>2, <3>2
    <3> QED BY <1>5, <1>10, <2>2, <3>1, <3>2
  <2>5. ASSUME Unspoilt, seq' = "none" PROVE m1 = h.P
    <3>1. Holds(1)
      BY <1>1, <1>10, <1>s, <2>1 DEF InPipe
    <3>2. PICK s \in Nat : s = At + 1 - 1 /\ s = At
      BY <1>10
    <3>3. Unspoilt /\ s < h.P - 1 => pipe[1][2]
      BY <3>1, <3>2 DEF Holds
    <3>4. ~(At < h.P - 1)
      BY <1>2, <2>5, <3>2, <3>3
    <3> QED BY <1>3, <1>10, <3>4 DEF Min2
  <2> QED BY <1>5, <2>3, <2>4, <2>5
<1>12. InPipe'
  <2>1. errors' = 0 => seq' # "stuck"
    BY <1>2
  <2>2. seq' = "run" => At' \in Nat
    BY <1>2, <1>10
  <2>3. h.on => qpc # "seed"
    BY <1>1, <1>s DEF InPipe
  <2> QED BY <1>1, <1>2, <2>1, <2>2, <2>3 DEF InPipe
<1>13. Counted'
  <2>1. CASE h.on
    <3>1. qpc' # "ret"
      BY <1>1, <2>1 DEF Phases
    <3> QED BY <1>1, <1>4, <1>5, <2>1, <3>1, CountedBehind
  <2>2. CASE ~h.on
    <3>1. Mark' = Mark /\ qpc' = qpc /\ done' = done /\ user' = user /\ n' = n /\ left' = left
      BY <1>1 DEF Mark
    <3>2. CASE ~left
      <4>1. door' = door
        BY <1>4, <2>2, <3>2
      <4>2. Rang(Mark') = Rang(Mark) /\ Rang(Mark)' = Rang(Mark)
        BY <3>1, <4>1 DEF Rang
      <4> QED BY <1>5, <1>s, <3>1, <4>1, <4>2 DEF Counted
    <3>3. CASE left
      <4>1. Mark \in 0 .. MaxTasks /\ done \in Nat
        BY <2>2, DynFacts DEF Mark
      <4>2. \A t \in Task : door[t] = "new" => door'[t] = "new"
        BY <1>1
      <4>3. /\ Cardinality(Rang(Mark)) \in Nat /\ Cardinality(Rang(Mark)') \in Nat
            /\ Cardinality(Rang(Mark)) <= Cardinality(Rang(Mark)')
        BY <3>1, <4>1, <4>2, RangKept
      <4> QED BY <1>5, <1>s, <3>1, <3>3, <4>1, <4>3 DEF Counted
    <3> QED BY <3>2, <3>3
  <2> QED BY <2>1, <2>2
<1> QED BY <1>7, <1>8, <1>9, <1>11, <1>12, <1>13 DEF Steered

-----------------------------------------------------------------------------
(* An append.                                                              *)

(* The slot being written is ahead of every link of the command buffer the *)
(* sequencer can take.                                                     *)
LEMMA AppendFacts ==
    ASSUME DynAssumption, DynInv, Appending
    PROVE  /\ user = "chain" /\ h.on /\ h.base = 0 /\ n = h.P + 1 /\ n <= MaxTasks /\ h.P < h.reserve
           /\ h.P \in Nat \ {0} /\ MaxTasks \in Nat /\ h.reserve \in Nat /\ h.spin_end \in Nat
           /\ h.P \in Slot /\ h.P - 1 \in Slot /\ h.P \in Task
<1> USE DEF DynInv
<1>1. user = "chain" /\ h.on /\ h.P < h.reserve
  BY DEF Phases, Appending
<1>2. h.base = 0 /\ n = h.P + 1 /\ h.P \in 1 .. h.reserve
  BY <1>1 DEF Handle
<1>3. n <= MaxTasks /\ h.P \in Nat /\ MaxTasks \in Nat /\ h.reserve \in Nat /\ h.spin_end \in Nat
  BY DynFacts
<1>4. h.P \in Slot /\ h.P - 1 \in Slot /\ h.P \in Task
  BY <1>2, <1>3 DEF Slot, Task
<1> QED BY <1>1, <1>2, <1>3, <1>4

LEMMA AppendWriteKeeps == ASSUME DynAssumption, DynInv, AppendWrite PROVE DynInv'
<1> USE DEF DynInv
<1>1. /\ qpc = "user" /\ user = "chain" /\ h.on /\ n < MaxTasks /\ h.P < h.reserve /\ ~TooClose
      /\ prog' = [prog EXCEPT ![h.P] = Torn] /\ n' = n + 1 /\ slip' = 0 /\ qpc' = "write"
      /\ UNCHANGED <<user, chunk_max, budget, lead, submitted, done, h, link, seq, pipe, fs, door,
                     warmed, back, cut, left, runs, errors>>
  BY DEF AppendWrite, userVars, seqVars, countVars
<1>2. /\ MaxTasks \in Nat /\ n \in Nat /\ h.P \in Nat /\ h.reserve \in Nat /\ h.base \in Nat
      /\ HEADROOM \in Nat /\ Slack \in Nat /\ h.reserve <= MaxTasks + 2 /\ submitted \in Nat /\ submitted <= n
  <2>1. h.reserve <= MaxTasks + 2
    BY <1>1 DEF Handle
  <2> QED BY <2>1, DynFacts
<1>3. \A s \in Slot : s # h.P => prog'[s] = prog[s]
  BY <1>1 DEF DynShape, DynTypeOK
<1>4. DynShape'
  <2>1. prog' \in [Slot -> Task \cup {SpinProg, Torn}]
    BY <1>1 DEF DynShape, DynTypeOK
  <2>2. n' \in 0 .. MaxTasks /\ submitted' \in 0 .. n' /\ slip' \in Nat
    BY <1>1, <1>2
  <2> QED BY <1>1, <2>1, <2>2 DEF DynShape, DynTypeOK
<1>5. Phases'
  BY <1>1 DEF Phases, Appending
<1>6. Handle'
  BY <1>1 DEF Handle, Appending
<1>7. Unspoilt' <=> Unspoilt
  BY <1>1 DEF Unspoilt
<1>b. Bounds'
  BY <1>1 DEF Bounds, Mark
<1> SUFFICES ASSUME seq' # "wild" PROVE Buffer' /\ Doorbells' /\ InPipe' /\ Counted'
  BY <1>4, <1>5, <1>6, <1>b DEF Steered
<1>s. Buffer /\ Doorbells /\ InPipe /\ Counted
  BY <1>1 DEF Steered
<1>8. Buffer'
  <2>1. \A s \in Slot : s < h.P => s # h.P
    BY <1>2 DEF Slot
  <2> QED BY <1>1, <1>3, <1>7, <1>s, <2>1 DEF Buffer, Appending
<1>9. Started /\ Started'
  BY <1>1 DEF Started
<1>10. PICK m \in 0 .. h.P : Landed(m) /\ (seq = "run" => m = Min2(At, h.P))
                            /\ (Unspoilt /\ seq = "none" => m = h.P)
  BY <1>9, <1>s DEF Doorbells
<1>11. m <= h.P - HEADROOM - 1
  <2>1. ~(Prefix - 1 >= h.P - 1 - HEADROOM)
    BY <1>1 DEF TooClose
  <2>2. Prefix = m
    BY <1>2, <1>10, PrefixIs
  <2> QED BY <1>2, <2>1, <2>2
<1>12. Doorbells'
  <2>1. Landed(m)' /\ At' = At /\ Frontier' = Frontier /\ Slack' = Slack
    BY <1>1, <1>10 DEF Landed, At, Frontier, Slack
  <2>2. slip' <= Slack' /\ m <= h.P - HEADROOM - 1 + slip'
    BY <1>1, <1>2, <1>11, <2>1
  <2>3. m \in 0 .. h'.P
    BY <1>1
  <2>4. (seq' = "run" => m = Min2(At', h'.P)) /\ (Unspoilt' /\ seq' = "none" => m = h'.P)
    BY <1>1, <1>7, <1>10, <2>1
  <2> QED BY <1>1, <1>s, <2>1, <2>2, <2>3, <2>4 DEF Doorbells
<1>13. InPipe'
  <2>1. At' = At /\ \A k \in 1 .. Len(pipe) : Holds(k) => Holds(k)'
    BY <1>1, <1>7 DEF At, Holds
  <2> QED BY <1>1, <1>9, <1>s, <2>1 DEF InPipe
<1>14. Counted'
  BY <1>1, <1>s DEF Counted
<1> QED BY <1>8, <1>12, <1>13, <1>14

LEMMA AppendFlushKeeps == ASSUME DynAssumption, DynInv, AppendFlush PROVE DynInv'
<1> USE DEF DynInv
<1>1. /\ qpc = "write" /\ qpc' = "relink"
      /\ prog' = [prog EXCEPT ![h.P] = h.base + h.P] /\ link' = [link EXCEPT ![h.P] = FALSE]
      /\ door' = [door EXCEPT ![h.base + h.P] = "seed"]
      /\ UNCHANGED <<user, chunk_max, budget, lead, n, submitted, done, h, seq, pipe, fs,
                     warmed, back, slip, cut, left, runs, errors>>
  BY DEF AppendFlush, userVars, queueVars, seqVars, countVars
<1>2. Appending /\ Appending' /\ Started /\ Started'
  BY <1>1 DEF Appending, Started, Phases
<1>3. /\ user = "chain" /\ h.on /\ h.base = 0 /\ n = h.P + 1 /\ n <= MaxTasks /\ h.P < h.reserve
      /\ h.P \in Nat \ {0} /\ MaxTasks \in Nat /\ h.reserve \in Nat /\ h.spin_end \in Nat
      /\ h.P \in Slot /\ h.P - 1 \in Slot /\ h.P \in Task
  BY <1>2, AppendFacts
<1>4. h.base + h.P = h.P
  BY <1>3
<1>5. /\ \A s \in Slot : s # h.P => prog'[s] = prog[s] /\ (link'[s] <=> link[s])
      /\ prog'[h.P] = h.base + h.P /\ link'[h.P] = FALSE
      /\ \A t \in Task : t # h.P => door'[t] = door[t]
      /\ door'[h.P] = "seed"
  BY <1>1, <1>3, <1>4 DEF DynShape, DynTypeOK
<1>6. DynShape'
  <2>1. prog' \in [Slot -> Task \cup {SpinProg, Torn}] /\ link' \in [Slot -> BOOLEAN]
        /\ door' \in [Task -> {"old", "seed", "new"}]
    BY <1>1, <1>3, <1>4 DEF DynShape, DynTypeOK
  <2> QED BY <1>1, <2>1 DEF DynShape, DynTypeOK
<1>7. Phases'
  BY <1>1 DEF Phases, Appending
<1>8. Handle'
  BY <1>1 DEF Handle, Appending
<1>9. Unspoilt' <=> Unspoilt
  BY <1>1 DEF Unspoilt
<1>b. Bounds'
  BY <1>1, <1>5 DEF Bounds, Mark
<1> SUFFICES ASSUME seq' # "wild" PROVE Buffer' /\ Doorbells' /\ InPipe' /\ Counted'
  BY <1>6, <1>7, <1>8, <1>b DEF Steered
<1>s. Buffer /\ Doorbells /\ InPipe /\ Counted
  BY <1>1 DEF Steered
<1>10. Buffer'
  <2>1. \A s \in Slot : s \in Nat
    BY <1>3 DEF Slot
  <2>2. \A s \in Slot : link'[s] => link[s] /\ s # h.P
    BY <1>5
  <2>3. \A s \in Slot : s < h.P => s # h.P
    BY <1>3, <2>1
  <2>4. \A s \in Slot : s < h.P - 1 => s # h.P
    BY <1>3, <2>1
  <2>5. \A s \in Slot : prog'[s] # Torn
    BY <1>3, <1>5, <1>s DEF Buffer, Torn
  <2> QED BY <1>1, <1>2, <1>3, <1>5, <1>9, <1>s, <2>2, <2>3, <2>4, <2>5 DEF Buffer
<1>11. Doorbells'
  <2>1. PICK m \in 0 .. h.P : /\ Landed(m)
                              /\ seq = "run" => m = Min2(At, h.P)
                              /\ slip <= Slack /\ m <= h.P - HEADROOM - 1 + slip
                              /\ Unspoilt /\ seq = "none" => m = h.P
    BY <1>2, <1>s DEF Doorbells
  <2>2. \A i \in 0 .. (h.P - 1) : h.base + i \in Task /\ h.base + i # h.P
    BY <1>3 DEF Task
  <2>3. Landed(m)'
    BY <1>1, <1>5, <2>1, <2>2 DEF Landed
  <2>4. At' = At /\ Slack' = Slack /\ Frontier' = Frontier
    BY <1>1 DEF At, Slack, Frontier
  <2>5. ~left' => \A t \in Task : t >= Frontier' => door'[t] # "new"
    BY <1>1, <1>5, <1>s, <2>4 DEF Doorbells
  <2>6. m \in 0 .. h'.P /\ (seq' = "run" => m = Min2(At', h'.P)) /\ (Unspoilt' /\ seq' = "none" => m = h'.P)
        /\ slip' <= Slack' /\ m <= h'.P - HEADROOM - 1 + slip'
    BY <1>1, <1>9, <2>1, <2>4
  <2> QED BY <2>3, <2>5, <2>6 DEF Doorbells
<1>12. InPipe'
  <2>1. At' = At /\ \A k \in 1 .. Len(pipe) : Holds(k) => Holds(k)'
    BY <1>1, <1>9 DEF At, Holds
  <2> QED BY <1>1, <1>2, <1>3, <1>s, <2>1 DEF InPipe
<1>13. Counted'
  BY <1>1, <1>3, <1>s DEF Counted
<1> QED BY <1>10, <1>11, <1>12, <1>13

LEMMA AppendLinkKeeps == ASSUME DynAssumption, DynInv, AppendLink PROVE DynInv'
<1> USE DEF DynInv
<1>1. /\ qpc = "relink" /\ qpc' = "user" /\ link' = [link EXCEPT ![h.P - 1] = TRUE]
      /\ h' = [h EXCEPT !.P = @ + 1]
      /\ UNCHANGED <<user, chunk_max, budget, lead, n, submitted, done, prog, seq, pipe, fs, door,
                     warmed, back, slip, cut, left, runs, errors>>
  BY DEF AppendLink, userVars, queueVars, seqVars, countVars
<1>2. Appending /\ ~Appending' /\ Started
  BY <1>1 DEF Appending, Started, Phases
<1>3. /\ user = "chain" /\ h.on /\ h.base = 0 /\ n = h.P + 1 /\ n <= MaxTasks /\ h.P < h.reserve
      /\ h.P \in Nat \ {0} /\ MaxTasks \in Nat /\ h.reserve \in Nat /\ h.spin_end \in Nat
      /\ h.P \in Slot /\ h.P - 1 \in Slot /\ h.P \in Task
  BY <1>2, AppendFacts
<1>4. /\ h'.on = TRUE /\ h'.base = 0 /\ h'.P = h.P + 1 /\ h'.reserve = h.reserve
      /\ h'.spin_end = h.spin_end /\ h' \in Chains
  <2>1. h \in Chains
    BY DEF DynShape
  <2>2. h.P + 1 \in Nat /\ h.on = TRUE
    BY <1>3, <2>1 DEF Chains
  <2> QED BY <1>1, <1>3, <2>1, <2>2 DEF Chains
<1>5. /\ \A s \in Slot : s # h.P - 1 => (link'[s] <=> link[s])
      /\ link'[h.P - 1] /\ link' \in [Slot -> BOOLEAN]
  BY <1>1, <1>3 DEF DynShape, DynTypeOK
<1>6. DynShape'
  <2>1. h'.base + h'.P <= MaxTasks /\ h'.reserve \in Nat /\ h'.spin_end \in {0, h'.reserve}
    BY <1>3, <1>4 DEF DynShape, DynTypeOK
  <2> QED BY <1>1, <1>4, <1>5, <2>1 DEF DynShape, DynTypeOK
<1>7. Phases'
  BY <1>1, <1>3, <1>4 DEF Phases, Appending
<1>8. Handle'
  <2>1. h'.P \in 1 .. h'.reserve /\ n = h'.P
    BY <1>3, <1>4
  <2> QED BY <1>1, <1>2, <1>3, <1>4, <2>1 DEF Handle
<1>9. Unspoilt' <=> Unspoilt
  BY <1>1 DEF Unspoilt
<1>b. Bounds'
  BY <1>1, <1>3, <1>5 DEF Bounds, Mark
<1> SUFFICES ASSUME seq' # "wild" PROVE Buffer' /\ Doorbells' /\ InPipe' /\ Counted'
  BY <1>6, <1>7, <1>8, <1>b DEF Steered
<1>s. Buffer /\ Doorbells /\ InPipe /\ Counted
  BY <1>1 DEF Steered
<1>10. Buffer'
  <2> SUFFICES ASSUME NEW s \in Slot
               PROVE  /\ s < h'.P => prog[s] = h'.base + s
                      /\ h'.spin_end > 0 /\ s >= h'.P => prog[s] = SpinProg
                      /\ link'[s] => s + 1 < h'.P \/ h'.spin_end > 0
                      /\ Unspoilt /\ s < h'.P - 1 => link'[s]
    BY <1>1, <1>9, <1>s DEF Buffer
  <2>1. s \in Nat
    BY <1>3 DEF Slot
  <2>2. /\ s < h.P => prog[s] = 0 + s
        /\ h.spin_end > 0 /\ s >= h.P /\ ~(s = h.P) => prog[s] = SpinProg
        /\ link[s] => s + 1 < h.P \/ h.spin_end > 0
        /\ Unspoilt /\ s < h.P - 1 => link[s]
    BY <1>2, <1>3, <1>s DEF Buffer
  <2>3. prog[h.P] = 0 + h.P
    BY <1>1, <1>3, <1>s DEF Buffer
  <2>4. s < h'.P => prog[s] = h'.base + s
    BY <1>3, <1>4, <2>1, <2>2, <2>3
  <2>5. h'.spin_end > 0 /\ s >= h'.P => prog[s] = SpinProg
    BY <1>3, <1>4, <2>1, <2>2
  <2>6. CASE s = h.P - 1
    BY <1>3, <1>4, <1>5, <2>1, <2>4, <2>5, <2>6
  <2>7. CASE s # h.P - 1
    BY <1>3, <1>4, <1>5, <2>1, <2>2, <2>4, <2>5, <2>7
  <2> QED BY <2>6, <2>7
<1>11. PICK m \in 0 .. h.P : /\ Landed(m)
                             /\ seq = "run" => m = Min2(At, h.P)
                             /\ slip <= Slack /\ m <= h.P - HEADROOM - 1 + slip
                             /\ Unspoilt /\ seq = "none" => m = h.P
  BY <1>2, <1>s DEF Doorbells
<1>12. m < h.P - 1
  <2>1. slip \in Nat /\ HEADROOM \in Nat /\ Slack \in Nat /\ Slack + lead + 1 = HEADROOM /\ lead \in Nat
    BY DynFacts DEF DynShape
  <2> QED BY <1>3, <1>11, <2>1
<1>13. At' = At
  BY <1>1 DEF At
<1>14. Doorbells'
  <2>1. ~left /\ \A t \in Task : t >= h.P => door[t] # "new"
    BY <1>1, <1>3, <1>s DEF Doorbells, Frontier, Handle
  <2>2. \A t \in Task : t \in Nat
    BY <1>3 DEF Task
  <2>3. \A t \in Task : t >= Frontier' => door'[t] # "new"
    <3>1. Frontier' = h.P + 1
      BY <1>3, <1>4 DEF Frontier
    <3> QED BY <1>1, <1>3, <2>1, <2>2, <3>1
  <2>4. Landed(m)'
    <3>1. m \in 0 .. h'.P
      BY <1>3, <1>4
    <3>2. \A i \in 0 .. (h.P - 1) : door[0 + i] = "new" <=> i < m
      BY <1>3, <1>11 DEF Landed
    <3>3. door[0 + h.P] # "new"
      BY <1>3, <2>1
    <3>4. \A i \in 0 .. h.P : i = h.P \/ i \in 0 .. (h.P - 1)
      BY <1>3
    <3>5. \A i \in 0 .. h.P : door[0 + i] = "new" <=> i < m
      BY <1>3, <3>2, <3>3, <3>4
    <3>6. h'.P - 1 = h.P
      BY <1>3, <1>4
    <3> QED BY <1>1, <1>4, <3>1, <3>5, <3>6 DEF Landed
  <2>5. seq' = "run" => m = Min2(At', h'.P)
    <3>1. ASSUME seq = "run" PROVE m = Min2(At, h'.P)
      <4>1. At \in Nat /\ m = Min2(At, h.P)
        BY <1>11, <3>1, HeadOfPipe
      <4>2. m = At /\ At < h'.P
        BY <1>3, <1>4, <1>12, <4>1 DEF Min2
      <4> QED BY <4>2 DEF Min2
    <3> QED BY <1>1, <1>13, <3>1
  <2>6. ~(Unspoilt' /\ seq' = "none")
    BY <1>1, <1>3, <1>9, <1>11, <1>12
  <2>7. m \in 0 .. h'.P
    BY <1>3, <1>4
  <2> QED BY <1>2, <2>3, <2>4, <2>5, <2>6, <2>7 DEF Doorbells
<1>15. InPipe'
  <2>1. h'.on /\ qpc' # "seed"
    BY <1>1, <1>4
  <2>2. ASSUME seq = "run", NEW k \in 1 .. Len(pipe) PROVE Holds(k)'
    <3>1. fs < h.P /\ At \in Nat /\ fs = At + Len(pipe) /\ Len(pipe) \in Nat
      BY <1>2, <2>2, AppendAhead, HeadOfPipe
    <3>2. PICK s \in Nat : s = At + k - 1
      BY <3>1
    <3>3. s < h.P - 1
      BY <1>3, <3>1, <3>2
    <3>4. Holds(k)
      BY <1>3, <1>s, <2>2 DEF InPipe
    <3>5. /\ pipe[k][1] = 0 + s
          /\ Unspoilt => pipe[k][2]
      BY <1>3, <3>2, <3>3, <3>4 DEF Holds
    <3>6. s < h'.P /\ s + 1 < h'.P /\ s = At' + k - 1
      BY <1>3, <1>4, <1>13, <3>2, <3>3
    <3> QED BY <1>1, <1>4, <1>9, <3>5, <3>6 DEF Holds
  <2> QED BY <1>1, <1>4, <1>13, <1>s, <2>1, <2>2 DEF InPipe
<1>16. Counted'
  BY <1>1, <1>3, <1>s DEF Counted
<1> QED BY <1>10, <1>14, <1>15, <1>16

-----------------------------------------------------------------------------
(* The end of a chain: what is added to the count is what it landed.       *)
LEMMA RangGrows ==
    ASSUME DynAssumption, DynInv, h.on, NEW m \in 0 .. h.P, Landed(m)
    PROVE  /\ IsFiniteSet(Rang(h.base)) /\ Cardinality(Rang(h.base)) \in Nat
           /\ Cardinality(Rang(h.base + h.P)) = Cardinality(Rang(h.base)) + m
           /\ Cardinality(Rang(h.base + h.P)) \in 0 .. MaxTasks
<1>1. h.base \in Nat /\ h.P \in Nat /\ h.base + h.P <= MaxTasks /\ MaxTasks \in Nat
  BY DynFacts DEF DynInv
<1>2. PICK b \in Nat : b = h.base
  BY <1>1
<1>3. PICK c \in Nat : c = b + h.P
  BY <1>1
<1> DEFINE All == 0 .. (c - 1)
           New == b .. (b + m - 1)
<1>4. IsFiniteSet(All) /\ Cardinality(All) = c
  <2>1. c - 1 \in Int /\ 0 \in Int
    OBVIOUS
  <2>2. IsFiniteSet(All) /\ Cardinality(All) = IF 0 > c - 1 THEN 0 ELSE (c - 1) - 0 + 1
    BY <2>1, FS_Interval
  <2> HIDE DEF All
  <2> QED BY <2>2
<1>5. IsFiniteSet(New) /\ Cardinality(New) = m
  <2>1. PICK e \in Int : e = b + m - 1
    BY <1>1
  <2>2. IsFiniteSet(b .. e) /\ Cardinality(b .. e) = IF b > e THEN 0 ELSE e - b + 1
    BY FS_Interval
  <2>3. (IF b > e THEN 0 ELSE e - b + 1) = m
    BY <1>1, <2>1
  <2> QED BY <2>1, <2>2, <2>3
<1>6. Rang(b) \subseteq All /\ Rang(c) \subseteq All
  BY <1>1, <1>3 DEF Rang
<1>7. /\ IsFiniteSet(Rang(b)) /\ Cardinality(Rang(b)) \in Nat
      /\ IsFiniteSet(Rang(c)) /\ Cardinality(Rang(c)) \in Nat
      /\ Cardinality(Rang(c)) <= c
  <2> HIDE DEF All
  <2> QED BY <1>4, <1>6, FS_Subset, FS_CardinalityType
<1>8. \A i \in 0 .. (h.P - 1) : door[b + i] = "new" <=> i < m
  BY <1>2 DEF Landed
<1>9. \A t \in All : t >= b => (door[t] = "new" <=> t < b + m)
  <2> SUFFICES ASSUME NEW t \in All, t >= b PROVE door[t] = "new" <=> t < b + m
    OBVIOUS
  <2>1. PICK i \in 0 .. (h.P - 1) : t = b + i
    <3>1. t - b \in 0 .. (h.P - 1) /\ t = b + (t - b)
      BY <1>1, <1>3
    <3> QED BY <3>1
  <2>2. door[b + i] = "new" <=> i < m
    BY <1>8
  <2> QED BY <1>1, <2>1, <2>2
<1>10. New \subseteq All /\ New \cap Rang(b) = {}
  BY <1>1, <1>3 DEF Rang
<1>11. Rang(c) = Rang(b) \cup New
  <2>1. ASSUME NEW t \in Rang(c) PROVE t \in Rang(b) \cup New
    <3>1. t \in All /\ t \in Nat /\ door[t] = "new"
      BY DEF Rang
    <3>2. CASE t < b
      BY <3>1, <3>2 DEF Rang
    <3>3. CASE t >= b
      BY <1>9, <3>1, <3>3
    <3> QED BY <3>1, <3>2, <3>3
  <2>2. ASSUME NEW t \in Rang(b) PROVE t \in Rang(c)
    BY <1>6 DEF Rang
  <2>3. ASSUME NEW t \in New PROVE t \in Rang(c)
    <3>1. t \in All /\ t >= b /\ t < b + m
      BY <1>10
    <3>2. door[t] = "new"
      BY <1>9, <3>1
    <3> QED BY <3>1, <3>2 DEF Rang
  <2> HIDE DEF New
  <2> QED BY <2>1, <2>2, <2>3
<1>12. Cardinality(Rang(c)) = Cardinality(Rang(b)) + m
  <2> HIDE DEF New
  <2>1. Cardinality(Rang(b) \cup New) = Cardinality(Rang(b)) + Cardinality(New) - Cardinality(Rang(b) \cap New)
    BY <1>5, <1>7, FS_Union
  <2>2. Cardinality(Rang(b) \cap New) = 0
    BY <1>10, FS_EmptySet
  <2>3. m \in Nat
    BY <1>1
  <2> QED BY <1>5, <1>7, <1>11, <2>1, <2>2, <2>3
<1> QED BY <1>1, <1>2, <1>3, <1>7, <1>12

LEMMA EndPollKeeps == ASSUME DynAssumption, DynInv, EndPoll PROVE DynInv'
<1> USE DEF DynInv
<1>1. /\ qpc = "poll"
      /\ done' = (IF user = "queue" THEN done ELSE 0) + Rung /\ h' = NoChain /\ qpc' = back
      /\ left' = (left \/ (seq = "run" /\ Rung # h.P))
      /\ UNCHANGED <<user, chunk_max, budget, lead, n, submitted, prog, link, seq, pipe, fs, door,
                     warmed, back, slip, cut, runs, errors>>
  BY DEF EndPoll, Leave, userVars, bufVars, seqVars, countVars
<1>2. h.on /\ Started /\ ~Appending
  BY <1>1 DEF Phases, Started, Appending
<1>3. /\ h.base \in Nat /\ h.P \in Nat /\ n \in Nat /\ MaxTasks \in Nat /\ done \in Nat
      /\ user \in {"queue", "chain", "pc"} /\ h.spin_end \in Nat /\ h.base + h.P <= MaxTasks
  BY DynFacts
<1>4. Rung \in 0 .. h.P
  BY <1>3, PrefixRange DEF Rung
<1>5. h'.on = FALSE /\ h'.base = 0 /\ h'.P = 0 /\ h'.reserve = 0 /\ h'.spin_end = 0 /\ h' \in Chains
  BY <1>1 DEF NoChain, Chains
<1>6. /\ user = "queue" => h.base + h.P = submitted
      /\ user # "queue" => h.base = 0 /\ n = h.P
  <2>1. user # "queue" => h.base = 0 /\ n = h.P + 0
    BY <1>2 DEF Handle
  <2> QED BY <1>2, <1>3, <2>1 DEF Handle
<1>7. Frontier' = h.base + h.P /\ Frontier = h.base + h.P /\ Mark' = h.base + h.P
  BY <1>1, <1>2, <1>3, <1>5, <1>6 DEF Frontier, Mark
<1>8. done' <= h.base + h.P /\ done' \in 0 .. MaxTasks
  <2>1. user = "queue" => done <= h.base
    BY <1>2 DEF Bounds, Mark
  <2> QED BY <1>1, <1>3, <1>4, <1>6, <2>1
<1>9. back = (IF user = "queue" THEN "drain" ELSE "ret")
  BY <1>1 DEF Phases
<1>10. /\ (Unspoilt' <=> Unspoilt) /\ At' = At /\ left' \in BOOLEAN
       /\ ~left' => ~left /\ (seq = "run" => Rung = h.P)
  BY <1>1 DEF Unspoilt, At, DynShape, DynTypeOK
<1>11. DynShape'
  BY <1>1, <1>3, <1>5, <1>8, <1>9, <1>10 DEF DynShape, DynTypeOK
<1>12. Phases'
  BY <1>1, <1>5, <1>9 DEF Phases, Appending
<1>13. Handle'
  BY <1>1, <1>5, <1>9 DEF Handle, Appending
<1>14. Bounds'
  BY <1>1, <1>7, <1>8 DEF Bounds
<1> SUFFICES ASSUME seq' # "wild" PROVE Buffer' /\ Doorbells' /\ InPipe' /\ Counted'
  BY <1>11, <1>12, <1>13, <1>14 DEF Steered
<1>s. Buffer /\ Doorbells /\ InPipe /\ Counted /\ seq # "wild"
  BY <1>1 DEF Steered
<1>15. PICK m \in 0 .. h.P : /\ Landed(m)
                             /\ seq = "run" => m = Min2(At, h.P)
                             /\ Unspoilt /\ seq = "none" => m = h.P
  BY <1>2, <1>s DEF Doorbells
<1>16. Rung = m
  BY <1>3, <1>15, PrefixIs DEF Rung
<1>17. Buffer'
  BY <1>1, <1>5, <1>9, <1>s DEF Buffer
<1>18. Doorbells'
  BY <1>1, <1>5, <1>7, <1>10, <1>s DEF Doorbells, Started
<1>19. InPipe'
  <2>1. ASSUME seq = "run", ~left'
        PROVE  /\ \A k \in 1 .. Len(pipe) : pipe[k][1] = SpinProg
               /\ \A s \in Slot : s >= fs => prog[s] = SpinProg
    <3>1. /\ At \in Nat /\ Len(pipe) \in Nat \ {0} /\ fs = At + Len(pipe)
          /\ 1 \in 1 .. Len(pipe)
      BY <2>1, HeadOfPipe
    <3>2. At >= h.P
      BY <1>3, <1>10, <1>15, <1>16, <2>1, <3>1 DEF Min2
    <3>3. \A k \in 1 .. Len(pipe) : Holds(k)
      BY <1>2, <1>s, <2>1 DEF InPipe
    <3>4. ASSUME NEW k \in 1 .. Len(pipe) PROVE pipe[k][1] = SpinProg /\ h.spin_end > 0
      <4>1. PICK s \in Nat : s = At + k - 1
        BY <3>1
      <4>2. Holds(k)
        BY <3>3
      <4>3. /\ s < h.P \/ h.spin_end > 0
            /\ pipe[k][1] = IF s < h.P THEN h.base + s ELSE SpinProg
        BY <4>1, <4>2 DEF Holds
      <4>4. ~(s < h.P)
        BY <1>3, <3>1, <3>2, <4>1
      <4> QED BY <4>3, <4>4
    <3>5. h.spin_end > 0
      BY <3>1, <3>4
    <3>6. \A s \in Slot : s >= fs => prog[s] = SpinProg
      <4>1. \A s \in Slot : s \in Nat
        BY <1>3 DEF Slot
      <4>2. \A s \in Slot : s >= fs => s >= h.P
        BY <1>3, <3>1, <3>2, <4>1
      <4> QED BY <1>2, <1>s, <3>5, <4>2 DEF Buffer
    <3> QED BY <3>4, <3>6
  <2>2. seq = "run" => \A k \in 1 .. Len(pipe) : pipe[k][1] # Torn
    BY HeldIsWhole
  <2> QED BY <1>1, <1>5, <1>10, <1>s, <2>1, <2>2 DEF InPipe
<1>20. Counted'
  <2>1. /\ Cardinality(Rang(h.base + h.P)) = Cardinality(Rang(h.base)) + m
        /\ Cardinality(Rang(h.base)) \in Nat
    BY <1>2, <1>15, RangGrows
  <2>2. PICK before : before = (IF user = "queue" THEN done ELSE 0)
    OBVIOUS
  <2>3. before \in Nat /\ before <= Cardinality(Rang(h.base)) /\ (~left => before = Cardinality(Rang(h.base)))
    <3>1. CASE user = "queue"
      BY <1>2, <1>3, <1>s, <2>2, <3>1 DEF Counted, Mark
    <3>2. CASE user # "queue"
      <4>1. Rang(h.base) = {}
        BY <1>6, <3>2 DEF Rang
      <4> QED BY <2>1, <2>2, <3>2, <4>1, FS_EmptySet
    <3> QED BY <3>1, <3>2
  <2>4. done' = before + m
    BY <1>1, <1>16, <2>2
  <2>5. Rang(Mark)' = Rang(h.base + h.P)
    BY <1>1, <1>7 DEF Rang
  <2>6. /\ done' <= Cardinality(Rang(Mark)')
        /\ ~left' => done' = Cardinality(Rang(Mark)')
    BY <1>10, <2>1, <2>3, <2>4, <2>5
  <2>7. ASSUME Unspoilt, ~left', NEW t \in 0 .. (h.base + h.P - 1) PROVE door[t] = "new"
    <3>1. m = h.P
      <4>1. seq \in {"none", "run"}
        BY <1>s, <2>7 DEF DynShape, DynTypeOK, InPipe, Unspoilt
      <4> QED BY <1>10, <1>15, <1>16, <2>7, <4>1
    <3>2. CASE t < h.base
      <4>1. user = "queue"
        BY <1>3, <1>6, <3>2
      <4>2. Mark = h.base
        BY <1>2, <4>1 DEF Mark
      <4>3. t \in 0 .. (h.base - 1)
        BY <1>3, <3>2
      <4> QED BY <1>10, <1>s, <2>7, <4>1, <4>2, <4>3 DEF Counted
    <3>3. CASE ~(t < h.base)
      <4>1. PICK i \in 0 .. (h.P - 1) : t = h.base + i
        <5>1. t - h.base \in 0 .. (h.P - 1) /\ t = h.base + (t - h.base)
          BY <1>3, <3>3
        <5> QED BY <5>1
      <4>2. i < m
        BY <1>3, <3>1
      <4> QED BY <1>15, <4>1, <4>2 DEF Landed
    <3> QED BY <3>2, <3>3
  <2>8. qpc' = "ret" => Mark' = n'
    BY <1>1, <1>3, <1>6, <1>7, <1>9
  <2>9. Unspoilt' /\ ~left' => \A t \in 0 .. (Mark' - 1) : door'[t] = "new"
    <3> SUFFICES ASSUME Unspoilt', ~left', NEW t \in 0 .. (Mark' - 1) PROVE door'[t] = "new"
      OBVIOUS
    <3>1. t \in 0 .. (h.base + h.P - 1)
      BY <1>3, <1>7
    <3> QED BY <1>1, <1>10, <2>7, <3>1
  <2> QED BY <2>6, <2>8, <2>9 DEF Counted
<1> QED BY <1>17, <1>18, <1>19, <1>20

-----------------------------------------------------------------------------
(* Every reachable state.                                                  *)
LEMMA DynInitHolds == ASSUME DynAssumption, DynInit PROVE DynInv
<1>1. /\ user \in Users /\ chunk_max \in ChunkMax /\ budget \in Reserve /\ lead \in 0 .. (HEADROOM - 1)
      /\ n = 0 /\ submitted = 0 /\ done = 0 /\ h = NoChain
      /\ prog = [s \in Slot |-> SpinProg] /\ link = [s \in Slot |-> FALSE]
      /\ seq = "none" /\ pipe = << >> /\ fs = 0 /\ door = [t \in Task |-> "old"]
      /\ warmed \in BOOLEAN /\ qpc = "user" /\ back = "user"
      /\ slip = 0 /\ cut = FALSE /\ left = FALSE /\ runs = 0 /\ errors = 0
  BY DEF DynInit
<1>2. h.on = FALSE /\ h.base = 0 /\ h.P = 0 /\ h.reserve = 0 /\ h.spin_end = 0 /\ h \in Chains
  BY <1>1 DEF NoChain, Chains
<1>3. MaxTasks \in Nat /\ HEADROOM \in Nat /\ lead \in Nat /\ user \in AllUsers /\ chunk_max \in Nat
  BY <1>1 DEF DynAssumption
<1>4. pipe \in Seq(Programs \X BOOLEAN) /\ Len(pipe) = 0
  BY <1>1
<1>5. prog \in [Slot -> Task \cup {SpinProg, Torn}] /\ link \in [Slot -> BOOLEAN]
      /\ door \in [Task -> {"old", "seed", "new"}]
  BY <1>1
<1>6. DynShape
  <2>1. (seq = "run") = (pipe # << >>)
    BY <1>1
  <2>2. Len(pipe) <= lead + 1 /\ fs \in 0 .. (MaxTasks + 2) /\ h.base + h.P <= MaxTasks
    BY <1>1, <1>2, <1>3, <1>4
  <2>3. n \in 0 .. MaxTasks /\ submitted \in 0 .. n /\ done \in 0 .. MaxTasks
    BY <1>1, <1>3
  <2>a. /\ seq \in {"none", "run", "stuck", "wild"} /\ left \in BOOLEAN
        /\ qpc \in {"user", "seed", "warm", "submit", "write", "relink", "poll", "drain", "pcwait", "ret"}
    BY <1>1
  <2>b. h.reserve \in Nat /\ h.spin_end \in {0, h.reserve}
    BY <1>2
  <2>4. DynTypeOK
    BY <1>3, <1>5, <2>1, <2>2, <2>3, <2>a, <2>b DEF DynTypeOK
  <2> QED BY <1>1, <1>2, <1>4, <2>4 DEF DynShape
<1>7. Phases
  BY <1>1, <1>2 DEF Phases, Appending
<1>8. Handle
  BY <1>1, <1>2, <1>3 DEF Handle, Appending
<1>b. Bounds
  BY <1>1, <1>2 DEF Bounds, Mark
<1>9. Buffer
  BY <1>1, <1>2 DEF Buffer, SpinProg, Torn
<1>10. Doorbells
  BY <1>1, <1>2 DEF Doorbells, Started
<1>11. InPipe
  BY <1>1 DEF InPipe
<1>12. Counted
  <2>1. Mark = 0 /\ Rang(0) = {}
    BY <1>1, <1>2 DEF Mark, Rang
  <2>2. done = Cardinality(Rang(Mark))
    BY <1>1, <2>1, FS_EmptySet
  <2>3. \A t \in 0 .. (Mark - 1) : door[t] = "new"
    BY <2>1
  <2>4. Cardinality(Rang(Mark)) = 0
    BY <2>1, FS_EmptySet
  <2> QED BY <1>1, <2>1, <2>2, <2>3, <2>4 DEF Counted
<1> QED BY <1>6, <1>7, <1>8, <1>9, <1>10, <1>11, <1>12, <1>b DEF DynInv, Steered

LEMMA UserKeeps == ASSUME DynAssumption, DynInv, User PROVE DynInv'
<1>1. CASE QPush
  BY <1>1, QPushKeeps
<1>2. CASE QFlush
  <2>1. qpc = "user" /\ Flush("user")
    BY <1>2 DEF QFlush
  <2> QED BY <2>1, FlushKeeps
<1>3. CASE QIdle
  <2>1. qpc = "user" /\ h.on /\ HaltAt(Prefix + HEADROOM)
    BY <1>3 DEF QIdle
  <2>2. h.P \in Nat /\ HEADROOM \in Nat
    BY DynFacts DEF DynInv
  <2>3. PICK at \in Int : at = Prefix + HEADROOM
    BY <2>2, PrefixRange
  <2>4. HaltAt(at)
    BY <2>1, <2>3
  <2> QED BY <2>1, <2>4, HaltKeeps
<1>4. CASE QDrain
  BY <1>4, QDrainKeeps
<1>5. CASE \E cnt \in 1 .. (MaxTasks - 1) : ChainBegin(cnt) \/ PcRun(cnt)
  BY <1>5, ChainBeginKeeps, PcRunKeeps
<1>6. CASE \E at \in Slot : ChainHalt(at)
  <2>1. PICK at \in Slot : ChainHalt(at)
    BY <1>6
  <2>2. at \in Int
    BY DEF Slot
  <2>3. qpc = "user" /\ h.on /\ HaltAt(at)
    BY <2>1 DEF ChainHalt
  <2> QED BY <2>2, <2>3, HaltKeeps
<1>7. CASE AppendWrite
  BY <1>7, AppendWriteKeeps
<1>8. CASE ChainEnd
  <2>1. qpc = "user" /\ user = "chain" /\ EndStart("ret")
    BY <1>8 DEF ChainEnd
  <2>2. PICK ret : ret = "ret"
    OBVIOUS
  <2>3. ret = (IF user = "queue" THEN "drain" ELSE "ret") /\ EndStart(ret)
    BY <2>1, <2>2
  <2> QED BY <2>1, <2>3, EndStartKeeps
<1> QED BY <1>1, <1>2, <1>3, <1>4, <1>5, <1>6, <1>7, <1>8 DEF User

LEMMA DriverKeeps == ASSUME DynAssumption, DynInv, Driver PROVE DynInv'
<1>1. CASE WarmSubmit \/ WarmDone
  BY <1>1, WarmSubmitKeeps, WarmDoneKeeps
<1>2. CASE \E sp \in BOOLEAN : RealSubmit(sp)
  BY <1>2, RealSubmitKeeps
<1>3. CASE AppendFlush \/ AppendLink
  BY <1>3, AppendFlushKeeps, AppendLinkKeeps
<1>4. CASE EndPoll \/ DrainDone
  BY <1>4, EndPollKeeps, DrainDoneKeeps
<1>5. CASE DrainFlush
  <2>1. qpc = "drain" /\ Flush("drain")
    BY <1>5 DEF DrainFlush
  <2> QED BY <2>1, FlushKeeps
<1>6. CASE DrainEnd
  <2>1. qpc = "drain" /\ user = "queue" /\ EndStart("drain")
    BY <1>6 DEF DrainEnd, DynInv, Phases
  <2>2. PICK ret : ret = "drain"
    OBVIOUS
  <2>3. ret = (IF user = "queue" THEN "drain" ELSE "ret") /\ EndStart(ret)
    BY <2>1, <2>2
  <2> QED BY <2>1, <2>3, EndStartKeeps
<1>7. CASE PcWait
  <2>1. qpc = "pcwait" /\ user = "pc" /\ EndStart("ret")
    BY <1>7 DEF PcWait, DynInv, Phases
  <2>2. PICK ret : ret = "ret"
    OBVIOUS
  <2>3. ret = (IF user = "queue" THEN "drain" ELSE "ret") /\ EndStart(ret)
    BY <2>1, <2>2
  <2> QED BY <2>1, <2>3, EndStartKeeps
<1> QED BY <1>1, <1>2, <1>3, <1>4, <1>5, <1>6, <1>7 DEF Driver

LEMMA DynStutter == ASSUME DynInv, UNCHANGED dynVars PROVE DynInv'
<1> USE DEF DynInv
<1>1. /\ UNCHANGED <<user, chunk_max, budget, lead, n, submitted, done, h, prog, link, seq, pipe, fs, door,
                     warmed, qpc, back, slip, cut, left, runs, errors>>
  BY DEF dynVars, userVars, queueVars, bufVars, seqVars, countVars
<1>2. DynShape' /\ Phases' /\ Handle' /\ Bounds'
  BY <1>1 DEF DynShape, DynTypeOK, Phases, Handle, Appending, Bounds, Mark
<1> SUFFICES ASSUME seq' # "wild" PROVE Buffer' /\ Doorbells' /\ InPipe' /\ Counted'
  BY <1>2 DEF Steered
<1>s. Buffer /\ Doorbells /\ InPipe /\ Counted
  BY <1>1 DEF Steered
<1>3. Buffer' /\ Counted'
  BY <1>1, <1>s DEF Buffer, Appending, Unspoilt, Counted, Mark, Rang
<1>4. Doorbells'
  BY <1>1, <1>s DEF Doorbells, Started, Frontier, Landed, Appending, At, Unspoilt, Slack
<1>5. InPipe'
  BY <1>1, <1>s DEF InPipe, Started, Holds, At, Unspoilt
<1> QED BY <1>3, <1>4, <1>5

(* The invariant: until a chain comes over one that runs, the pipe holds   *)
(* what the buffer said, the buffer what the handle says, and the count    *)
(* what has landed.                                                        *)
THEOREM DynInvariant == DynSpec => []DynInv
<1>1. DynInit => DynInv
  BY DynAssumption, DynInitHolds
<1>2. DynInv /\ [DynNext]_dynVars => DynInv'
  <2> SUFFICES ASSUME DynInv, [DynNext]_dynVars PROVE DynInv'
    OBVIOUS
  <2>1. CASE User
    BY <2>1, DynAssumption, UserKeeps
  <2>2. CASE Driver
    BY <2>2, DynAssumption, DriverKeeps
  <2>3. CASE BeginRefused \/ FlushRefused
    BY <2>3, DynAssumption, BeginRefusedKeeps, FlushRefusedKeeps
  <2>4. CASE Sequencer
    BY <2>4, DynAssumption, ReadAheadKeeps, CompleteKeeps DEF Sequencer
  <2>5. CASE Hang \/ Stray
    BY <2>5, DynAssumption, HangKeeps, StrayKeeps
  <2>6. CASE UNCHANGED dynVars
    BY <2>6, DynStutter
  <2> QED BY <2>1, <2>2, <2>3, <2>4, <2>5, <2>6 DEF DynNext
<1> QED BY <1>1, <1>2, PTL DEF DynSpec

(* Until a chain comes over one that runs, the sequencer is never handed a *)
(* program that is half written; and unless a wait was given up on a       *)
(* running chain, it has no program of a task left when the handle is      *)
(* given back (ork_dyn_append, ork_dyn_end).                               *)
THEOREM NeverReadsTorn == DynSpec => []NeverTorn
<1>1. DynInv => NeverTorn
  <2> SUFFICES ASSUME DynInv PROVE NeverTorn
    OBVIOUS
  <2>1. DynTypeOK
    BY DEF DynInv, DynShape
  <2>2. seq = "run" => \A i \in 1 .. Len(pipe) : pipe[i][1] # Torn
    BY DynAssumption, HeldIsWhole
  <2>3. seq = "run" /\ ~left /\ ~h.on => \A i \in 1 .. Len(pipe) : pipe[i][1] = SpinProg
    BY DEF DynInv, Steered, InPipe
  <2> QED BY <2>1, <2>2, <2>3 DEF NeverTorn
<1> QED BY <1>1, DynInvariant, PTL

(* Without an error or a cut, and when no wait was given up on a running   *)
(* chain, every task has run by the time the user is told (ork_dyn_end,    *)
(* ork_dyn_queue_drain, ork_pc_run).                                       *)
THEOREM NothingIsLost == DynSpec => []NothingLost
<1>1. DynInv => NothingLost
  <2> SUFFICES ASSUME DynInv, errors = 0, ~cut, ~left, seq # "wild", qpc = "ret"
               PROVE  done = n /\ \A t \in 0 .. (n - 1) : door[t] = "new"
    BY DEF NothingLost
  <2>1. /\ Mark = n /\ done = Cardinality(Rang(n))
        /\ \A t \in 0 .. (n - 1) : door[t] = "new"
    BY DEF DynInv, Steered, Counted, Unspoilt
  <2>2. n \in Nat
    BY DynFacts, DynAssumption DEF DynInv
  <2>3. Rang(n) = 0 .. (n - 1)
    BY <2>1 DEF Rang
  <2>4. Cardinality(0 .. (n - 1)) = n
    <3>1. PICK e \in Int : e = n - 1
      BY <2>2
    <3>2. Cardinality(0 .. e) = IF 0 > e THEN 0 ELSE e - 0 + 1
      BY FS_Interval
    <3> QED BY <2>2, <3>1, <3>2
  <2> QED BY <2>1, <2>3, <2>4
<1> QED BY <1>1, DynInvariant, PTL

(* Until a chain comes over one that runs, what a drain, an end or a run   *)
(* reports is never more than has landed, also when some tasks were        *)
(* refused, hung or cut off; and it is just that unless a wait was given   *)
(* up on a running chain.                                                  *)
THEOREM CountsWhatLanded == DynSpec => []CountIsLanded
<1>1. DynInv => CountIsLanded
  <2> SUFFICES ASSUME DynInv, qpc = "ret", seq # "wild"
               PROVE  done <= Cardinality(Rang(n)) /\ (~left => done = Cardinality(Rang(n)))
    BY DEF CountIsLanded, Rang
  <2>1. /\ done <= Cardinality(Rang(Mark))
        /\ ~left => done = Cardinality(Rang(Mark))
        /\ ~h.on
    BY DEF DynInv, Steered, Counted, Phases
  <2>2. n \in Nat /\ submitted \in Nat /\ submitted <= n /\ done \in Nat
    BY DynFacts, DynAssumption DEF DynInv
  <2>3. CASE user = "queue"
    <3>1. Mark = submitted /\ Frontier = submitted
      BY <2>1, <2>3 DEF Mark, Frontier
    <3>2. ~left => Rang(n) = Rang(submitted)
      BY <2>2, <3>1, RangAll, DynAssumption DEF DynInv, Steered, Doorbells
    <3>3. Cardinality(Rang(submitted)) <= Cardinality(Rang(n))
      <4>1. PICK S : S = Rang(n)
        OBVIOUS
      <4>2. S \subseteq 0 .. (n - 1) /\ Rang(submitted) \subseteq S
        BY <2>2, <4>1 DEF Rang
      <4>3. IsFiniteSet(S)
        BY <2>2, <4>2, SmallPart
      <4> QED BY <4>1, <4>2, <4>3, FS_Subset
    <3>4. Cardinality(Rang(submitted)) \in Nat /\ Cardinality(Rang(n)) \in Nat
      <4>1. Rang(submitted) \subseteq 0 .. (submitted - 1) /\ Rang(n) \subseteq 0 .. (n - 1)
        BY DEF Rang
      <4> QED BY <2>2, <4>1, SmallPart
    <3> QED BY <2>1, <2>2, <3>1, <3>2, <3>3, <3>4
  <2>4. CASE user # "queue"
    BY <2>1, <2>4 DEF Mark
  <2> QED BY <2>3, <2>4
<1> QED BY <1>1, DynInvariant, PTL
=============================================================================
