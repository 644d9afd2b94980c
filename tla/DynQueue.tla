------------------------------- MODULE DynQueue -------------------------------
(***************************************************************************)
(* A single-core chain of int8 programs that the host steers while the NPU *)
(* walks it (ork_dyn_begin in dyn.c; append, halt and end in dyn_ctl.c),   *)
(* the deferred queue that cuts its work into such chains, and the         *)
(* precompiled chain (queue.c).                                            *)
(*                                                                         *)
(* The programs lie in slots of one command buffer.  A slot holds a        *)
(* program and a link: whether the sequencer goes on to the next slot.     *)
(* The sequencer reads both from memory, up to lead slots ahead of the     *)
(* program it runs.  A task's output is abstracted to its doorbell: the    *)
(* sentinel the host wrote, or the NPU's result.                           *)
(*                                                                         *)
(* Every wait of the host ends with the doorbell or after some time, and   *)
(* the time says nothing of the NPU: a chain may be left running.  Once a  *)
(* chain is written or submitted over one that runs, nothing is known of   *)
(* what the sequencer does (seq = "wild").                                 *)
(***************************************************************************)
EXTENDS Integers, Sequences, FiniteSets

CONSTANTS
    Users,        \* who drives the chains, a subset of AllUsers
    MaxTasks,     \* bound: tasks of one user
    ChunkMax,     \* values of q->chunk_max explored
    Reserve,      \* values of ORK_DYN_RESERVE explored (0: not set)
    HEADROOM,     \* ORK_DYN_HEADROOM, 2
    MaxRuns,      \* bound: runs of a precompiled chain
    MaxErrors     \* bound: refused submits and hangs

AllUsers == {"queue", "chain", "pc"}

ASSUME DynAssumption ==
    /\ Users \subseteq AllUsers /\ MaxTasks \in Nat \ {0} /\ ChunkMax \subseteq Nat \ {0}
    /\ Reserve \subseteq 0 .. (MaxTasks + 2) /\ HEADROOM \in Nat \ {0}
    /\ MaxRuns \in Nat /\ MaxErrors \in Nat

VARIABLES
    user, chunk_max,       \* the scenario: its user, tasks per chunk,
    budget, lead,          \*   ORK_DYN_RESERVE, slots read ahead
    n, submitted, done,    \* the queue: pushed, submitted, reported by drain
    h,                     \* the chain handle
    prog, link,            \* the command buffer
    seq, pipe, fs,         \* the sequencer: state, slots it holds, next to read
    door,                  \* the tasks' doorbells
    warmed, qpc, back,     \* c->warmed; the host: position, where begin returns
    slip, cut,             \* completions since the append began; tasks were cut off
    left,                  \* a wait was given up while the sequencer ran the chain
    runs, errors

userVars == <<user, chunk_max, budget, lead>>
queueVars == <<n, submitted, done>>
bufVars == <<prog, link>>
seqVars == <<seq, pipe, fs>>
countVars == <<runs, errors>>
dynVars == <<userVars, queueVars, h, bufVars, seqVars, door, warmed, qpc, back, slip, cut, left,
             countVars>>

-----------------------------------------------------------------------------
Task == 0 .. (MaxTasks - 1)
SpinProg == -1
Torn == -2
Slot == 0 .. (MaxTasks + 1)       \* room for the longest chain and reserve explored
Min2(a, b) == IF a < b THEN a ELSE b

(* Steering must lead the sequencer: what it reads ahead and what it       *)
(* completes while an append is under way stay below the headroom.         *)
Slack == HEADROOM - 1 - lead

NoChain == [on |-> FALSE, base |-> 0, P |-> 0, reserve |-> 0, spin_end |-> 0]
ChainTasks == h.base .. (h.base + h.P - 1)

(* ork_dyn_progress + 1, the length of the landed prefix.                  *)
Prefix == Cardinality({k \in 1 .. h.P : \A i \in 0 .. (k - 1) : door[h.base + i] = "new"})

(* ORK_DYN_SEED; mutant: no sentinel is written.                           *)
Seed_None == door
Seed == [t \in Task |-> IF t \in ChainTasks THEN "seed" ELSE door[t]]

StartJob(p, l) == seq' = "run" /\ pipe' = << <<p[0], l[0]>> >> /\ fs' = 1

(* Programs or a job come over what the sequencer runs: what it reads from *)
(* there on, and whose doorbells it rings, is undefined.                   *)
Overwrite == IF seq = "run" THEN seq' = "wild" /\ pipe' = << >> /\ UNCHANGED fs ELSE UNCHANGED seqVars

(* A job that is stuck is reaped by the next submit, or holds it up.       *)
Submit(p, l) == \/ seq \in {"none", "stuck"} /\ StartJob(p, l)
                \/ seq # "none" /\ Overwrite

Refuse == errors < MaxErrors /\ errors' = errors + 1

(* The handle is given up, the sequencer still in the chain or not.        *)
Leave(running) == left' = (left \/ running)

-----------------------------------------------------------------------------
DynInit ==
    /\ user \in Users /\ chunk_max \in ChunkMax /\ budget \in Reserve /\ lead \in 0 .. (HEADROOM - 1)
    /\ n = 0 /\ submitted = 0 /\ done = 0 /\ h = NoChain
    /\ prog = [s \in Slot |-> SpinProg] /\ link = [s \in Slot |-> FALSE]
    /\ seq = "none" /\ pipe = << >> /\ fs = 0
    /\ door = [t \in Task |-> "old"]
    /\ warmed \in BOOLEAN /\ (user = "pc" => ~warmed) /\ qpc = "user" /\ back = "user"
    /\ slip = 0 /\ cut = FALSE /\ left = FALSE /\ runs = 0 /\ errors = 0

-----------------------------------------------------------------------------
(* ork_dyn_begin, of which ork_pc_compile and ork_pc_run share the steps   *)

(* The terminating chain of cnt tasks from task b on; slots kept in        *)
(* reserve repeat its last program.                                        *)
BuildProg(b, cnt) == [s \in Slot |-> b + Min2(s, cnt - 1)]
BuildLink(cnt) == [s \in Slot |-> s < cnt - 1]

ReserveOf(cnt) == IF user # "pc" /\ budget > cnt THEN budget ELSE cnt

Begin(b, cnt, ret) ==
    /\ h' = [on |-> TRUE, base |-> b, P |-> cnt, reserve |-> ReserveOf(cnt), spin_end |-> 0]
    /\ prog' = BuildProg(b, cnt) /\ link' = BuildLink(cnt)
    /\ qpc' = IF warmed THEN "submit" ELSE "seed"
    /\ back' = ret
    /\ Overwrite
    /\ UNCHANGED <<userVars, done, door, warmed, slip, cut, left, errors>>

(* The warm pass: refused, landed, or given up after 2 s, which may leave  *)
(* it running below the real submit.                                       *)
WarmSubmit ==
    /\ qpc = "seed"
    /\ door' = Seed
    /\ \/ Submit(prog, link) /\ qpc' = "warm" /\ UNCHANGED <<errors, warmed>>
       \/ Refuse /\ qpc' = "submit" /\ warmed' = (user = "pc") /\ UNCHANGED seqVars
    /\ UNCHANGED <<userVars, queueVars, h, bufVars, back, slip, cut, left, runs>>

WarmDone ==
    /\ qpc = "warm"
    /\ warmed' = (Prefix = h.P \/ user = "pc")
    /\ qpc' = "submit"
    /\ UNCHANGED <<userVars, queueVars, h, bufVars, seqVars, door, back, slip, cut, left, countVars>>

(* The spin tail: the last task is linked on through the reserved slots.   *)
SpinFrom(sp) ==
    IF sp THEN [prog |-> [s \in Slot |-> IF s >= h.P THEN SpinProg ELSE prog[s]],
                link |-> [s \in Slot |-> s < h.reserve - 1]]
          ELSE [prog |-> prog, link |-> link]

(* sp: the throwaway operands of the tail could be allocated.              *)
RealSubmit(sp) ==
    /\ qpc = "submit" /\ (sp => h.reserve > h.P)
    /\ prog' = SpinFrom(sp).prog /\ link' = SpinFrom(sp).link
    /\ door' = Seed
    /\ Submit(prog', link')
    /\ h' = [h EXCEPT !.spin_end = IF sp THEN h.reserve ELSE 0]
    /\ qpc' = back
    /\ UNCHANGED <<userVars, queueVars, warmed, back, slip, cut, left, countVars>>

(* The submit is refused and begin returns nothing.                        *)
BeginRefused ==
    /\ qpc = "submit"
    /\ door' = Seed
    /\ Refuse
    /\ h' = NoChain
    /\ submitted' = IF user = "queue" THEN h.base ELSE submitted
    /\ qpc' = IF user = "queue" /\ back = "user" THEN "user" ELSE "ret"
    /\ done' = IF user = "queue" THEN done ELSE 0
    /\ Leave(seq = "run")
    /\ UNCHANGED <<userVars, n, bufVars, seqVars, warmed, back, slip, cut, runs>>

-----------------------------------------------------------------------------
(* The sequencer                                                           *)

ReadAhead ==
    /\ seq = "run" /\ Len(pipe) <= lead /\ pipe[Len(pipe)][2]
    /\ pipe' = Append(pipe, <<prog[fs], link[fs]>>) /\ fs' = fs + 1
    /\ UNCHANGED <<userVars, queueVars, h, bufVars, seq, door, warmed, qpc, back, slip, cut, left, countVars>>

(* The program at the head completes.  While an append is under way at     *)
(* most Slack of them do.                                                  *)
Complete ==
    /\ seq = "run"
    /\ qpc \in {"write", "relink"} => slip < Slack
    /\ slip' = IF qpc \in {"write", "relink"} THEN slip + 1 ELSE slip
    /\ door' = [t \in Task |-> IF t = pipe[1][1] THEN "new" ELSE door[t]]
    /\ IF Len(pipe) > 1 THEN pipe' = Tail(pipe) /\ UNCHANGED <<seq, fs>>
       ELSE IF pipe[1][2] THEN pipe' = << <<prog[fs], link[fs]>> >> /\ fs' = fs + 1 /\ UNCHANGED seq
       ELSE seq' = "none" /\ pipe' = << >> /\ UNCHANGED fs
    /\ UNCHANGED <<userVars, queueVars, h, bufVars, warmed, qpc, back, cut, left, countVars>>

Hang ==
    /\ seq = "run" /\ errors < MaxErrors
    /\ seq' = "stuck" /\ pipe' = << >>
    /\ errors' = errors + 1
    /\ UNCHANGED <<userVars, queueVars, h, bufVars, fs, door, warmed, qpc, back, slip, cut, left, runs>>

Stray ==
    /\ seq = "wild"
    /\ \E t \in ChainTasks : door' = [door EXCEPT ![t] = "new"]
    /\ UNCHANGED <<userVars, queueVars, h, bufVars, seqVars, warmed, qpc, back, slip, cut, left, countVars>>

-----------------------------------------------------------------------------
(* ork_dyn_append: the new program is written and flushed into the slot    *)
(* after the last one, which is only then linked to it.                    *)

(* Mutant: the sequencer's distance to the last program is not looked at.  *)
TooClose_Never == FALSE
TooClose == Prefix - 1 >= h.P - 1 - HEADROOM

AppendWrite ==
    /\ qpc = "user" /\ user = "chain" /\ h.on
    /\ n < MaxTasks /\ h.P < h.reserve /\ ~TooClose
    /\ prog' = [prog EXCEPT ![h.P] = Torn]
    /\ n' = n + 1
    /\ slip' = 0 /\ qpc' = "write"
    /\ UNCHANGED <<userVars, submitted, done, h, link, seqVars, door, warmed, back, cut, left, countVars>>

AppendFlush ==
    /\ qpc = "write"
    /\ prog' = [prog EXCEPT ![h.P] = h.base + h.P]
    /\ link' = [link EXCEPT ![h.P] = FALSE]
    /\ door' = [door EXCEPT ![h.base + h.P] = "seed"]
    /\ qpc' = "relink"
    /\ UNCHANGED <<userVars, queueVars, h, seqVars, warmed, back, slip, cut, left, countVars>>

AppendLink ==
    /\ qpc = "relink"
    /\ link' = [link EXCEPT ![h.P - 1] = TRUE]
    /\ h' = [h EXCEPT !.P = @ + 1]
    /\ qpc' = "user"
    /\ UNCHANGED <<userVars, queueVars, prog, seqVars, door, warmed, back, slip, cut, left, countVars>>

(* ork_dyn_halt: the chain ends after slot at, in its tasks or its tail.   *)
Limit == IF h.spin_end > 0 THEN h.spin_end ELSE h.P

HaltAt(at) ==
    /\ at >= 0 /\ at < Limit - 1
    /\ link' = [link EXCEPT ![at] = FALSE]
    /\ cut' = (cut \/ at < h.P - 1)
    /\ UNCHANGED <<userVars, queueVars, h, prog, seqVars, door, warmed, qpc, back, slip, left, countVars>>

-----------------------------------------------------------------------------
(* ork_dyn_end: the tail is ended at every slot, then the doorbells are    *)
(* polled until all have rung or the time is over: 500 us without a new    *)
(* one, 3 s in all, or a signal; 2 s in ork_pc_run.  None of them looks at *)
(* the sequencer, which may still run the chain.                           *)

EndStart(ret) ==
    /\ h.on
    /\ link' = [s \in Slot |-> link[s] /\ ~(h.P <= s /\ s < h.spin_end)]
    /\ qpc' = "poll" /\ back' = ret
    /\ UNCHANGED <<userVars, queueVars, h, prog, seqVars, door, warmed, slip, cut, left, countVars>>

(* ork_pc_run looks for the highest doorbell that has rung.                *)
Highest == Cardinality({k \in 1 .. h.P : \E i \in k .. h.P : door[h.base + i - 1] = "new"})
Rung == IF user = "pc" THEN Highest ELSE Prefix

EndPoll ==
    /\ qpc = "poll"
    /\ done' = (IF user = "queue" THEN done ELSE 0) + Rung
    /\ h' = NoChain
    /\ qpc' = back
    /\ Leave(seq = "run" /\ Rung # h.P)
    /\ UNCHANGED <<userVars, n, submitted, bufVars, seqVars, door, warmed, back, slip, cut, countVars>>

-----------------------------------------------------------------------------
(* The queue                                                               *)

QPush ==
    /\ qpc = "user" /\ user = "queue" /\ n < MaxTasks
    /\ n' = n + 1
    /\ UNCHANGED <<userVars, submitted, done, h, bufVars, seqVars, door, warmed, qpc, back, slip, cut, left, countVars>>

(* The tasks of the next chunk.                                            *)
ChunkOf(rest) == Min2(rest, chunk_max)

Flush(ret) ==
    /\ user = "queue" /\ ~h.on /\ submitted < n
    /\ submitted' = submitted + ChunkOf(n - submitted)
    /\ Begin(submitted, ChunkOf(n - submitted), ret)
    /\ UNCHANGED <<n, runs>>

QFlush == qpc = "user" /\ Flush("user")

(* Once the linger time has passed with nothing left to submit.            *)
QIdle ==
    /\ qpc = "user" /\ user = "queue" /\ h.on /\ submitted = n
    /\ HaltAt(Prefix + HEADROOM)

QDrain ==
    /\ qpc = "user" /\ user = "queue" /\ qpc' = "drain"
    /\ UNCHANGED <<userVars, queueVars, h, bufVars, seqVars, door, warmed, back, slip, cut, left, countVars>>

(* Mutant: the loop ends with the first chunk.                             *)
MoreToDrain_No == submitted = 0 /\ n > 0
MoreToDrain == submitted < n

DrainFlush == qpc = "drain" /\ MoreToDrain /\ Flush("drain")

(* A task does not qualify or memory is short, maybe after some slots have *)
(* been written.  A drain drops the rest.                                  *)
FlushRefused ==
    /\ qpc \in {"user", "drain"} /\ user = "queue" /\ ~h.on /\ submitted < n
    /\ Refuse
    /\ qpc' = IF qpc = "drain" THEN "ret" ELSE "user"
    /\ Overwrite \/ UNCHANGED seqVars
    /\ UNCHANGED <<userVars, queueVars, h, bufVars, door, warmed, back, slip, cut, left, runs>>

DrainEnd == qpc = "drain" /\ EndStart("drain")

DrainDone ==
    /\ qpc = "drain" /\ ~h.on /\ ~MoreToDrain
    /\ qpc' = "ret"
    /\ UNCHANGED <<userVars, queueVars, h, bufVars, seqVars, door, warmed, back, slip, cut, left, countVars>>

-----------------------------------------------------------------------------
(* A chain driven directly, and a precompiled one                          *)

ChainBegin(cnt) ==
    /\ qpc = "user" /\ user = "chain" /\ ~h.on
    /\ n' = cnt
    /\ Begin(0, cnt, "user")
    /\ UNCHANGED <<submitted, runs>>

ChainHalt(at) == qpc = "user" /\ user = "chain" /\ h.on /\ HaltAt(at)
ChainEnd == qpc = "user" /\ user = "chain" /\ EndStart("ret")

PcRun(cnt) ==
    /\ qpc \in {"user", "ret"} /\ user = "pc" /\ ~h.on /\ runs < MaxRuns
    /\ n > 0 => cnt = n
    /\ n' = cnt
    /\ runs' = runs + 1
    /\ Begin(0, cnt, "pcwait")
    /\ UNCHANGED submitted

PcWait == qpc = "pcwait" /\ EndStart("ret")

-----------------------------------------------------------------------------
User == \/ QPush \/ QFlush \/ QIdle \/ QDrain
        \/ \E cnt \in 1 .. (MaxTasks - 1) : ChainBegin(cnt) \/ PcRun(cnt)
        \/ \E at \in Slot : ChainHalt(at)
        \/ AppendWrite \/ ChainEnd

Driver == \/ WarmSubmit \/ WarmDone \/ \E sp \in BOOLEAN : RealSubmit(sp)
          \/ AppendFlush \/ AppendLink
          \/ EndPoll \/ DrainFlush \/ DrainEnd \/ DrainDone \/ PcWait

Sequencer == ReadAhead \/ Complete

DynNext == User \/ Driver \/ BeginRefused \/ FlushRefused \/ Sequencer \/ Hang \/ Stray

DynSpec == DynInit /\ [][DynNext]_dynVars

-----------------------------------------------------------------------------
DynTypeOK ==
    /\ user \in AllUsers /\ n \in 0 .. MaxTasks /\ submitted \in 0 .. n /\ done \in 0 .. MaxTasks
    /\ h.base + h.P <= MaxTasks /\ h.reserve \in Nat /\ h.spin_end \in {0, h.reserve}
    /\ prog \in [Slot -> Task \cup {SpinProg, Torn}] /\ link \in [Slot -> BOOLEAN]
    /\ seq \in {"none", "run", "stuck", "wild"} /\ Len(pipe) <= lead + 1 /\ fs \in 0 .. (MaxTasks + 2)
    /\ (seq = "run") = (pipe # << >>)
    /\ door \in [Task -> {"old", "seed", "new"}]
    /\ qpc \in {"user", "seed", "warm", "submit", "write", "relink", "poll", "drain", "pcwait", "ret"}
    /\ left \in BOOLEAN

(* As long as no chain comes over one that runs, the sequencer is never    *)
(* handed a slot while the host rewrites it: append flushes a program      *)
(* before it links to it, and far enough ahead.  And as long as no wait is *)
(* given up on a running chain, the programs left with the sequencer when  *)
(* scratch and command buffer go with the handle are spin programs, no     *)
(* task's.  (With the type invariant.)                                     *)
NeverTorn ==
    /\ DynTypeOK
    /\ seq = "run" => \A i \in 1 .. Len(pipe) : pipe[i][1] # Torn
    /\ seq = "run" /\ ~left /\ ~h.on => \A i \in 1 .. Len(pipe) : pipe[i][1] = SpinProg

(* A chain that neither failed nor was cut short, and that was waited for  *)
(* to its end, has run every task it was given, those appended in flight   *)
(* too; a drain has then run all that was pushed, over all its chunks.     *)
NothingLost ==
    errors = 0 /\ ~cut /\ ~left /\ seq # "wild" /\ qpc = "ret"
        => done = n /\ \A t \in 0 .. (n - 1) : door[t] = "new"

(* What a drain, an end or a run reports is what has landed: whatever was  *)
(* refused, hung or cut off, the count covers the finished tasks only.     *)
(* Given up while the chain runs they may report too little, as more lands *)
(* afterwards, but not too much before a chain comes over a running one.   *)
CountIsLanded ==
    LET landed == Cardinality({t \in 0 .. (n - 1) : door[t] = "new"})
    IN  qpc = "ret" /\ seq # "wild" => done <= landed /\ (~left => done = landed)
==============================================================================
