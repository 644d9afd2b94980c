---------------------------- MODULE OrkdState_proofs ----------------------------
(***************************************************************************)
(* Proofs about what outlives a request in the daemon: the files and locks *)
(* it starts and ends by (OrkdLifecycle), the weights its clients have     *)
(* resident (OrkdTables), and the rings it shares with them (OrkdRing).    *)
(***************************************************************************)
EXTENDS OrkdLifecycle, OrkdTables, OrkdRing, FiniteSetTheorems, TLAPS

-----------------------------------------------------------------------------
(***************************************************************************)
(* OrkdLifecycle: for any number of daemons, clients and files.            *)
(***************************************************************************)

(* The inductive invariant: as long as no daemon has been on the shutdown  *)
(* path, the pidfile path leads to one file only.                          *)

NoReap == "reaped" \notin ended

(* Between its flock and its end a daemon is its file's locker.            *)
HasLock(d) == pc[d] \in {"unlink", "bind", "listen", "serve"}

(* Every daemon that opened the pidfile opened the file the path still     *)
(* leads to; a process that is gone, or not that far, has none open.       *)
OneFile ==
    \A d \in Daemons :
        /\ pc[d] \notin {"reap", "unlock", "rmpid"}
        /\ pc[d] \in {"none", "start"} => pidfd[d] = None
        /\ pc[d] \notin {"none", "start"} => pidfd[d] = pidpath /\ pidpath # None

LockHeld == \A d \in Daemons : HasLock(d) => lock[pidpath] = d

(* Nobody but the locker touches the socket path, and it is the locker's   *)
(* from its bind on.                                                       *)
SocketOwned == \A d \in Daemons : pc[d] \in {"listen", "serve"} => sockpath = d

CrashInv == LifeTypeOK /\ (NoReap => OneFile /\ LockHeld /\ SocketOwned)
-----------------------------------------------------------------------------
LEMMA LifeStart == LifeInit => CrashInv /\ SubscribersServed
BY LifecycleAssumption DEF LifeInit, CrashInv, LifeTypeOK, NoReap, OneFile, LockHeld,
   SocketOwned, HasLock, SubscribersServed

(* A client's step opens, locks and binds nothing: at most it starts a     *)
(* process.                                                                *)
LEMMA LifeClient ==
    ASSUME CrashInv, NEW c \in Procs, Connecting(c)
    PROVE  CrashInv'
<1> USE LifecycleAssumption DEF CrashInv, LifeTypeOK, NoReap, files, daemons, clients
<1>1. CASE ConnectBegin(c) \/ TryHit(c) \/ GiveUp(c) \/ Leave(c)
  <2>1. UNCHANGED <<files, daemons, ended>>
    BY <1>1 DEF Connecting, ConnectBegin, TryHit, GiveUp, Leave
  <2>2. LifeTypeOK'
    <3>1. CASE ConnectBegin(c)
      BY <2>1, <3>1 DEF ConnectBegin
    <3>2. CASE TryHit(c)
      BY <2>1, <3>2 DEF TryHit
    <3>3. CASE GiveUp(c)
      BY <2>1, <3>3 DEF GiveUp
    <3>4. CASE Leave(c)
      BY <2>1, <3>4 DEF Leave
    <3> QED BY <1>1, <3>1, <3>2, <3>3, <3>4
  <2> QED BY <2>1, <2>2 DEF OneFile, LockHeld, SocketOwned, HasLock
<1>2. ASSUME NEW d \in Daemons, TryMiss(c, d) PROVE CrashInv'
  <2>1. LifeTypeOK'
    BY <1>2 DEF TryMiss, Goto, Connecting
  <2>2. /\ pc[d] = "none" /\ UNCHANGED <<files, pidfd, ended>>
        /\ \A e \in Daemons : pc'[e] = IF e = d THEN "start" ELSE pc[e]
    BY <1>2 DEF TryMiss, Goto, Connecting
  <2> QED BY <2>1, <2>2 DEF OneFile, LockHeld, SocketOwned, HasLock
<1> QED BY <1>1, <1>2 DEF Connecting

(* The shape of the state survives each step of a daemon.                  *)
LEMMA LifeDaemonTypes ==
    ASSUME LifeTypeOK, NEW d \in Daemons, Process(d) \/ Reap(d) \/ Killed(d)
    PROVE  LifeTypeOK'
<1> USE LifecycleAssumption DEF LifeTypeOK, files, clients, daemons, Goto, Gone, HangUp
<1>1. CASE OpenPidfile(d) /\ UNCHANGED ended
  BY <1>1 DEF OpenPidfile
<1>2. CASE (FlockWins(d) \/ FlockLoses(d)) /\ UNCHANGED ended
  BY <1>2 DEF FlockWins, FlockLoses
<1>3. CASE (ClearSocket(d) \/ Bind(d) \/ BindFails(d)) /\ UNCHANGED ended
  BY <1>3 DEF ClearSocket, Bind, BindFails
<1>4. CASE (NpuInit(d) \/ \E c \in Procs : Welcome(d, c)) /\ UNCHANGED ended
  BY <1>4 DEF NpuInit, Welcome
<1>5. CASE (CloseSocket(d) \/ Unlock(d) \/ UnlinkPidfile(d)) /\ UNCHANGED ended
  BY <1>5 DEF CloseSocket, Unlock, UnlinkPidfile
<1>6. CASE Reap(d)
  BY <1>6 DEF Reap
<1>7. CASE Killed(d)
  BY <1>7 DEF Killed
<1> QED BY <1>1, <1>2, <1>3, <1>4, <1>5, <1>6, <1>7 DEF Process

(* A process that ends before the shutdown path gives up its lock, if it   *)
(* had one, and takes nothing from the others.                             *)
LEMMA LifeGone ==
    ASSUME LifeTypeOK, OneFile, LockHeld, SocketOwned, NEW d \in Daemons, Gone(d),
           pidpath' = pidpath,
           \A e \in Daemons : e # d /\ sockpath = e => sockpath' = e
    PROVE  OneFile' /\ LockHeld' /\ SocketOwned'
<1> USE LifecycleAssumption DEF LifeTypeOK
<1>1. /\ \A e \in Daemons : pc'[e] = IF e = d THEN "none" ELSE pc[e]
      /\ \A e \in Daemons : pidfd'[e] = IF e = d THEN None ELSE pidfd[e]
      /\ \A n \in Inodes : lock'[n] = IF lock[n] = d THEN None ELSE lock[n]
  BY DEF Gone, Goto
<1>2. OneFile' /\ SocketOwned'
  BY <1>1 DEF OneFile, SocketOwned
<1>3. LockHeld'
  BY <1>1 DEF OneFile, LockHeld, HasLock
<1> QED BY <1>2, <1>3

(* main() up to its loop, and its death: the lock excludes the others, so  *)
(* only its holder clears and binds the socket.                            *)
LEMMA LifeDaemon ==
    ASSUME CrashInv, NEW d \in Daemons, Process(d) \/ Reap(d) \/ Killed(d)
    PROVE  CrashInv'
<1>1. LifeTypeOK'
  BY LifeDaemonTypes DEF CrashInv
<1> SUFFICES ASSUME NoReap' PROVE OneFile' /\ LockHeld' /\ SocketOwned'
  BY <1>1 DEF CrashInv
<1>2. NoReap /\ ~Reap(d)
  BY DEF NoReap, Process, Killed, Reap
<1>3. LifeTypeOK /\ OneFile /\ LockHeld /\ SocketOwned
  BY <1>2 DEF CrashInv
<1>4. pc[d] \notin {"reap", "unlock", "rmpid"}
  BY <1>3 DEF OneFile
<1>5. CASE OpenPidfile(d)
  <2>1. PICK n \in Inodes :
           /\ pidpath # None => n = pidpath
           /\ pidpath' = n /\ pidfd' = [pidfd EXCEPT ![d] = n]
    BY <1>5 DEF OpenPidfile
  <2>2. /\ n # None /\ pc[d] = "start" /\ UNCHANGED <<lock, sockpath>>
        /\ \A e \in Daemons : pc'[e] = IF e = d THEN "flock" ELSE pc[e]
        /\ \A e \in Daemons : pidfd'[e] = IF e = d THEN n ELSE pidfd[e]
    BY <1>3, <1>5, <2>1, LifecycleAssumption DEF OpenPidfile, Goto, LifeTypeOK
  <2>3. \A e \in Daemons : pc[e] \notin {"none", "start"} => pidpath' = pidpath
    BY <1>3, <2>1 DEF OneFile
  <2> QED BY <1>3, <2>1, <2>2, <2>3 DEF OneFile, LockHeld, SocketOwned, HasLock
<1>6. CASE FlockWins(d)
  <2>1. /\ pc[d] = "flock" /\ pidfd[d] = pidpath /\ pidpath \in Inodes /\ lock[pidpath] = None
        /\ lock'[pidpath] = d /\ UNCHANGED <<pidpath, sockpath, pidfd>>
        /\ \A e \in Daemons : pc'[e] = IF e = d THEN "unlink" ELSE pc[e]
    BY <1>3, <1>6 DEF FlockWins, LockFree, Goto, LifeTypeOK, OneFile
  <2>2. \A e \in Daemons : ~HasLock(e)
    BY <1>3, <2>1, LifecycleAssumption DEF LockHeld
  <2> QED BY <1>3, <2>1, <2>2 DEF OneFile, LockHeld, SocketOwned, HasLock
<1>7. CASE FlockLoses(d) \/ BindFails(d)
  BY <1>3, <1>7, LifeGone DEF FlockLoses, BindFails
<1>8. CASE Killed(d)
  <2>1. Gone(d) /\ pidpath' = pidpath
    BY <1>8 DEF Killed
  <2>2. \A e \in Daemons : e # d /\ sockpath = e => sockpath' = e
    BY <1>8 DEF Killed
  <2> QED BY <1>3, <2>1, <2>2, LifeGone
<1>9. CASE ClearSocket(d) \/ Bind(d) \/ NpuInit(d)
  <2>1. /\ UNCHANGED <<pidpath, lock, pidfd>> /\ HasLock(d)
        /\ HasLock(d)' /\ \A e \in Daemons \ {d} : pc'[e] = pc[e]
        /\ pc'[d] \in {"listen", "serve"} => sockpath' = d
    BY <1>3, <1>9 DEF ClearSocket, Bind, NpuInit, Goto, HasLock, LifeTypeOK, SocketOwned, files
  <2>2. \A e \in Daemons : HasLock(e) => e = d
    BY <1>3, <2>1 DEF LockHeld
  <2>3. OneFile'
    BY <1>3, <2>1 DEF OneFile, HasLock
  <2>4. LockHeld'
    BY <1>3, <2>1, <2>2 DEF LockHeld, HasLock
  <2>5. SocketOwned'
    BY <1>3, <2>1, <2>2 DEF SocketOwned, HasLock
  <2> QED BY <2>3, <2>4, <2>5
<1>10. CASE \E c \in Procs : Welcome(d, c)
  BY <1>3, <1>10 DEF Welcome, files, daemons, OneFile, LockHeld, SocketOwned, HasLock
<1>11. ~CloseSocket(d) /\ ~Unlock(d) /\ ~UnlinkPidfile(d)
  BY <1>4 DEF CloseSocket, Unlock, UnlinkPidfile
<1> QED BY <1>2, <1>5, <1>6, <1>7, <1>8, <1>9, <1>10, <1>11 DEF Process

LEMMA LifeStep == CrashInv /\ [LifeNext]_lifeVars => CrashInv'
<1> SUFFICES ASSUME CrashInv, [LifeNext]_lifeVars PROVE CrashInv'
  OBVIOUS
<1>1. CASE UNCHANGED lifeVars
  BY <1>1 DEF lifeVars, files, daemons, clients, CrashInv, LifeTypeOK, NoReap, OneFile,
     LockHeld, SocketOwned, HasLock
<1> QED BY <1>1, LifeClient, LifeDaemon DEF LifeNext

LEMMA CrashInvariant == LifeSpec => []CrashInv
<1> QED BY LifeStart, LifeStep, PTL DEF LifeSpec

-----------------------------------------------------------------------------
(* "Single-instance: hold an exclusive flock on the pidfile": however many *)
(* daemons are spawned at once and wherever they are killed, at most one   *)
(* owns the NPU, and clients reach that one.  The hypothesis that none has *)
(* been on the shutdown path is part of CrashSafe: there the pidfile goes  *)
(* while another daemon may have it open.                                  *)
THEOREM CrashesAreSafe == LifeSpec => []CrashSafe
<1>1. CrashInv => CrashSafe
  <2> SUFFICES ASSUME CrashInv, NoReap PROVE SingleOwner /\ \A d \in Daemons : OwnsNpu(d) => sockpath = d
    BY DEF CrashInv, CrashSafe, NoReap
  <2>1. \A d \in Daemons : OwnsNpu(d) => sockpath = d
    BY DEF CrashInv, OneFile, SocketOwned, OwnsNpu
  <2> QED BY <2>1 DEF SingleOwner
<1> QED BY <1>1, CrashInvariant, PTL

(* The idle reap never takes the daemon away from a connected subscriber,  *)
(* on any path: crashes, reaps and restarts included.                      *)
THEOREM SubscribersAlwaysServed == LifeSpec => []SubscribersServed
<1>1. LifeInit => SubscribersServed
  BY LifeStart
<1>2. CrashInv /\ SubscribersServed /\ [LifeNext]_lifeVars => SubscribersServed'
  <2> SUFFICES ASSUME LifeTypeOK, SubscribersServed, [LifeNext]_lifeVars
               PROVE  SubscribersServed'
    BY DEF CrashInv
  <2> USE DEF LifeTypeOK, SubscribersServed, files, daemons, clients
  <2>0. \A c \in Procs : phase[c] = "connected" => conn[c] \in Daemons
    OBVIOUS
  <2>1. ASSUME NEW c \in Procs, Connecting(c) PROVE SubscribersServed'
    <3>1. CASE ConnectBegin(c) \/ TryHit(c) \/ GiveUp(c) \/ Leave(c)
      BY <3>1 DEF ConnectBegin, TryHit, GiveUp, Leave
    <3>2. CASE \E d \in Daemons : TryMiss(c, d)
      BY <2>0, <3>2 DEF TryMiss, Goto
    <3> QED BY <2>1, <3>1, <3>2 DEF Connecting
  <2>2. ASSUME NEW d \in Daemons, Process(d) PROVE SubscribersServed'
    <3>1. CASE OpenPidfile(d) \/ FlockWins(d) \/ ClearSocket(d) \/ Bind(d) \/ NpuInit(d) \/ Unlock(d)
      BY <2>0, <3>1 DEF OpenPidfile, FlockWins, ClearSocket, Bind, NpuInit, Unlock, Goto
    <3>2. CASE FlockLoses(d) \/ BindFails(d) \/ UnlinkPidfile(d)
      BY <2>0, <3>2 DEF FlockLoses, BindFails, UnlinkPidfile, Gone, Goto
    <3>3. CASE CloseSocket(d)
      BY <2>0, <3>3 DEF CloseSocket, HangUp, Goto
    <3>4. CASE \E c \in Procs : Welcome(d, c)
      BY <3>4 DEF Welcome
    <3> QED BY <2>2, <3>1, <3>2, <3>3, <3>4 DEF Process
  <2>3. ASSUME NEW d \in Daemons, Reap(d) PROVE SubscribersServed'
    BY <2>0, <2>3 DEF Reap, Idle, Goto
  <2>4. ASSUME NEW d \in Daemons, Killed(d) PROVE SubscribersServed'
    BY <2>0, <2>4 DEF Killed, HangUp, Gone, Goto
  <2>5. CASE UNCHANGED lifeVars
    BY <2>5 DEF lifeVars
  <2> QED BY <2>1, <2>2, <2>3, <2>4, <2>5 DEF LifeNext
<1> QED BY <1>1, <1>2, CrashInvariant, PTL DEF LifeSpec

-----------------------------------------------------------------------------
(***************************************************************************)
(* OrkdTables: for any number of slots, weights and handles.               *)
(***************************************************************************)

(* The inductive invariant: WeightsExact with the counter that gives out   *)
(* the handles.  Every slot keeps its bounds, the ones not in use too,     *)
(* because accept takes over what is left in them.                         *)
ClientSlots == [wt : SUBSET [id : Wids, w : W], next_wid : 0 .. MaxWid, kvt : SUBSET [id : Wids, kv : KV]]
SlotGood(s) ==
    /\ s \in ClientSlots
    /\ IsFiniteSet(s.wt) /\ Cardinality(s.wt) <= MAX_WEIGHTS
    /\ IsFiniteSet(s.kvt) /\ Cardinality(s.kvt) <= MAX_WEIGHTS
WeightsIn(s) == {x.w : x \in s.wt}
HandlesIssued(s) == \A x \in s.wt : x.id <= s.next_wid
OneHandle(s) == \A x, y \in s.wt : x.w = y.w \/ x.id = y.id => x = y

TabInv ==
    /\ nc \in 0 .. MAX_CLIENTS /\ weights \subseteq W /\ kvs \subseteq KV
    /\ DOMAIN cl = Slots /\ cl = [i \in Slots |-> cl[i]]
    /\ \A i \in Slots : SlotGood(cl[i])
    /\ \A i \in Used : HandlesIssued(cl[i]) /\ OneHandle(cl[i])
    /\ weights = UNION {WeightsIn(cl[i]) : i \in Used}
    /\ \A i, j \in Used : i # j => WeightsIn(cl[i]) \cap WeightsIn(cl[j]) = {}

-----------------------------------------------------------------------------
(* A slot with nothing in it.                                              *)
LEMMA SlotCleared ==
    ASSUME TablesAssumption, NEW s, SlotGood(s), NEW t,
           t = [s EXCEPT !.wt = {}, !.next_wid = 0] \/ t = [s EXCEPT !.wt = {}, !.kvt = {}]
    PROVE  SlotGood(t) /\ HandlesIssued(t) /\ OneHandle(t) /\ WeightsIn(t) = {}
<1>1. /\ t \in ClientSlots /\ t.wt = {} /\ (t.kvt = {} \/ t.kvt = s.kvt)
  <2>1. s = [wt |-> s.wt, next_wid |-> s.next_wid, kvt |-> s.kvt] /\ s \in ClientSlots
    BY DEF SlotGood, ClientSlots
  <2>2. t = [wt |-> {}, next_wid |-> 0, kvt |-> s.kvt] \/ t = [wt |-> {}, next_wid |-> s.next_wid, kvt |-> {}]
    BY <2>1
  <2>3. 0 \in 0 .. MaxWid
    BY DEF TablesAssumption
  <2> QED BY <2>1, <2>2, <2>3 DEF ClientSlots
<1>2. IsFiniteSet({}) /\ Cardinality({}) = 0 /\ MAX_WEIGHTS \in Nat
  BY FS_EmptySet DEF TablesAssumption
<1> QED BY <1>1, <1>2 DEF SlotGood, HandlesIssued, OneHandle, WeightsIn

(* A slot into which a weight goes that it does not hold, under the next   *)
(* handle.                                                                 *)
LEMMA SlotPacked ==
    ASSUME TablesAssumption, NEW s, SlotGood(s), HandlesIssued(s), OneHandle(s),
           NEW w \in W, w \notin WeightsIn(s), s.next_wid < MaxWid, Cardinality(s.wt) < MAX_WEIGHTS,
           NEW t, t = [s EXCEPT !.next_wid = s.next_wid + 1,
                                !.wt = s.wt \cup {[id |-> s.next_wid + 1, w |-> w]}]
    PROVE  /\ SlotGood(t) /\ HandlesIssued(t) /\ OneHandle(t)
           /\ WeightsIn(t) = WeightsIn(s) \cup {w} /\ Cardinality(t.wt) <= Cardinality(s.wt) + 1
           /\ t.next_wid = s.next_wid + 1 /\ t.kvt = s.kvt
<1>1. PICK x : x = [id |-> s.next_wid + 1, w |-> w]
  OBVIOUS
<1>3. s \in ClientSlots /\ s.next_wid \in Nat /\ MaxWid \in Nat /\ MAX_WEIGHTS \in Nat
  BY DEF SlotGood, ClientSlots, TablesAssumption
<1>4. x.id = s.next_wid + 1 /\ x.w = w /\ x \in [id : Wids, w : W]
  BY <1>1, <1>3 DEF Wids
<1>5. t \in ClientSlots /\ t.next_wid = s.next_wid + 1 /\ t.wt = s.wt \cup {x} /\ t.kvt = s.kvt
  <2>1. s.wt \cup {x} \in SUBSET [id : Wids, w : W] /\ s.next_wid + 1 \in 0 .. MaxWid
    BY <1>3, <1>4 DEF ClientSlots
  <2>2. t = [s EXCEPT !.next_wid = s.next_wid + 1, !.wt = s.wt \cup {x}]
    BY <1>1
  <2> QED BY <1>3, <2>1, <2>2 DEF ClientSlots
<1>6. \A y \in s.wt : y \in [id : Wids, w : W] /\ y.id \in Nat /\ y.id <= s.next_wid /\ y.w # w
  BY <1>3 DEF ClientSlots, HandlesIssued, WeightsIn, Wids
<1>7. IsFiniteSet(t.wt) /\ Cardinality(t.wt) = Cardinality(s.wt) + 1 /\ Cardinality(s.wt) \in Nat
  <2>1. x \notin s.wt
    BY <1>4, <1>6
  <2> QED BY <1>5, <2>1, FS_AddElement, FS_CardinalityType DEF SlotGood
<1>8. SlotGood(t)
  BY <1>3, <1>5, <1>7 DEF SlotGood
<1>9. HandlesIssued(t) /\ OneHandle(t)
  BY <1>3, <1>4, <1>5, <1>6 DEF HandlesIssued, OneHandle
<1>10. WeightsIn(t) = WeightsIn(s) \cup {w}
  BY <1>4, <1>5 DEF WeightsIn
<1> QED BY <1>5, <1>7, <1>8, <1>9, <1>10

(* A slot whose kv table takes a handle.                                   *)
LEMMA SlotPaired ==
    ASSUME TablesAssumption, NEW s, SlotGood(s), HandlesIssued(s), OneHandle(s), NEW kv \in KV,
           s.next_wid < MaxWid, Cardinality(s.kvt) < MAX_WEIGHTS,
           NEW t, t = [s EXCEPT !.next_wid = s.next_wid + 1,
                                !.kvt = s.kvt \cup {[id |-> s.next_wid + 1, kv |-> kv]}]
    PROVE  SlotGood(t) /\ HandlesIssued(t) /\ OneHandle(t) /\ WeightsIn(t) = WeightsIn(s)
<1>1. PICK x : x = [id |-> s.next_wid + 1, kv |-> kv]
  OBVIOUS
<1>3. s \in ClientSlots /\ s.next_wid \in Nat /\ MaxWid \in Nat /\ MAX_WEIGHTS \in Nat
  BY DEF SlotGood, ClientSlots, TablesAssumption
<1>4. x \in [id : Wids, kv : KV]
  BY <1>1, <1>3 DEF Wids
<1>5. t \in ClientSlots /\ t.next_wid = s.next_wid + 1 /\ t.wt = s.wt /\ t.kvt = s.kvt \cup {x}
  <2>1. s.kvt \cup {x} \in SUBSET [id : Wids, kv : KV] /\ s.next_wid + 1 \in 0 .. MaxWid
    BY <1>3, <1>4 DEF ClientSlots
  <2>2. t = [s EXCEPT !.next_wid = s.next_wid + 1, !.kvt = s.kvt \cup {x}]
    BY <1>1
  <2> QED BY <1>3, <2>1, <2>2 DEF ClientSlots
<1>6. IsFiniteSet(t.kvt) /\ Cardinality(t.kvt) <= Cardinality(s.kvt) + 1
      /\ Cardinality(s.kvt) \in Nat /\ Cardinality(t.kvt) \in Nat
  <2>1. IsFiniteSet(s.kvt) /\ Cardinality(s.kvt) \in Nat
    BY FS_CardinalityType DEF SlotGood
  <2>2. /\ IsFiniteSet(s.kvt \cup {x})
        /\ Cardinality(s.kvt \cup {x}) = IF x \in s.kvt THEN Cardinality(s.kvt) ELSE Cardinality(s.kvt) + 1
    BY <2>1, FS_AddElement
  <2> QED BY <1>5, <2>1, <2>2
<1>7. SlotGood(t)
  BY <1>3, <1>5, <1>6 DEF SlotGood
<1>8. \A y \in s.wt : y.id \in Nat
  BY <1>3 DEF ClientSlots, Wids
<1>9. HandlesIssued(t) /\ OneHandle(t) /\ WeightsIn(t) = WeightsIn(s)
  BY <1>3, <1>5, <1>8 DEF HandlesIssued, OneHandle, WeightsIn
<1> QED BY <1>7, <1>9

(* A slot from whose table entries are taken.                              *)
LEMMA SlotFreed ==
    ASSUME TablesAssumption, NEW s, SlotGood(s), HandlesIssued(s), OneHandle(s), NEW id,
           NEW hit, hit = {x \in s.wt : x.id = id}, NEW t, t = [s EXCEPT !.wt = s.wt \ hit]
    PROVE  /\ SlotGood(t) /\ HandlesIssued(t) /\ OneHandle(t)
           /\ WeightsIn(t) = WeightsIn(s) \ {x.w : x \in hit}
<1>2. t \in ClientSlots /\ t.wt = s.wt \ hit /\ t.next_wid = s.next_wid /\ t.kvt = s.kvt
  BY DEF SlotGood, ClientSlots
<1>3. IsFiniteSet(t.wt) /\ Cardinality(t.wt) <= Cardinality(s.wt)
      /\ Cardinality(t.wt) \in Nat /\ Cardinality(s.wt) \in Nat
  BY <1>2, FS_Subset, FS_CardinalityType DEF SlotGood
<1>4. SlotGood(t)
  BY <1>2, <1>3 DEF SlotGood, TablesAssumption
<1>5. HandlesIssued(t) /\ OneHandle(t)
  BY <1>2 DEF HandlesIssued, OneHandle
<1>6. WeightsIn(t) = WeightsIn(s) \ {x.w : x \in hit}
  BY <1>2 DEF WeightsIn, OneHandle
<1> QED BY <1>4, <1>5, <1>6

-----------------------------------------------------------------------------
(* A slot in use changes: what it gives up leaves the heap, what it takes  *)
(* was not there.                                                          *)
LEMMA OneSlotChanges ==
    ASSUME TablesAssumption, TabInv, NEW i \in Used, NEW s, SlotGood(s), HandlesIssued(s), OneHandle(s),
           NEW gone, gone \subseteq WeightsIn(cl[i]), NEW fresh, fresh \subseteq W,
           fresh \cap weights = {}, WeightsIn(s) = (WeightsIn(cl[i]) \ gone) \cup fresh,
           cl' = [cl EXCEPT ![i] = s], nc' = nc,
           weights' = (weights \ gone) \cup fresh, kvs' \subseteq KV
    PROVE  TabInv'
<1>1. /\ nc \in Nat /\ i \in Slots /\ DOMAIN cl = Slots /\ Used' = Used /\ Used \subseteq Slots
      /\ cl'[i] = s /\ \A j \in Slots : j # i => cl'[j] = cl[j]
      /\ DOMAIN cl' = Slots /\ cl' = [j \in Slots |-> cl'[j]]
  <2>1. nc \in Nat /\ i \in Slots /\ Used \subseteq Slots /\ DOMAIN cl = Slots
        /\ cl = [j \in Slots |-> cl[j]]
    BY DEF TabInv, Used, Slots, TablesAssumption
  <2>2. Used' = Used
    BY DEF Used
  <2>3. DOMAIN cl' = Slots /\ cl' = [j \in Slots |-> cl'[j]]
        /\ cl'[i] = s /\ \A j \in Slots : j # i => cl'[j] = cl[j]
    BY <2>1
  <2> QED BY <2>1, <2>2, <2>3
<1>2. \A j \in Used : j # i => WeightsIn(cl'[j]) = WeightsIn(cl[j]) /\ WeightsIn(cl[j]) \subseteq weights
                               /\ WeightsIn(cl[j]) \cap WeightsIn(cl[i]) = {}
  BY <1>1 DEF TabInv
<1>3. WeightsIn(cl'[i]) = (WeightsIn(cl[i]) \ gone) \cup fresh
  BY <1>1
<1>4. weights' = UNION {WeightsIn(cl'[j]) : j \in Used}
  <2>1. ASSUME NEW x \in weights' PROVE \E j \in Used : x \in WeightsIn(cl'[j])
    <3>1. CASE x \in fresh
      BY <1>3, <3>1
    <3>2. CASE x \in weights /\ x \notin gone
      <4>1. PICK j \in Used : x \in WeightsIn(cl[j])
        BY <3>2 DEF TabInv
      <4> QED BY <1>2, <1>3, <3>2, <4>1
    <3> QED BY <2>1, <3>1, <3>2
  <2>2. ASSUME NEW j \in Used, NEW x \in WeightsIn(cl'[j]) PROVE x \in weights'
    <3>1. CASE j = i
      <4>1. WeightsIn(cl[i]) \subseteq weights
        BY DEF TabInv
      <4> QED BY <1>3, <3>1, <4>1
    <3>2. CASE j # i
      BY <1>2, <3>2
    <3> QED BY <3>1, <3>2
  <2> QED BY <2>1, <2>2
<1>5. \A j, m \in Used : j # m => WeightsIn(cl'[j]) \cap WeightsIn(cl'[m]) = {}
  <2> SUFFICES ASSUME NEW j \in Used, NEW m \in Used, j # m
               PROVE  WeightsIn(cl'[j]) \cap WeightsIn(cl'[m]) = {}
    OBVIOUS
  <2>1. CASE j = i
    BY <1>2, <1>3, <2>1
  <2>2. CASE m = i
    BY <1>2, <1>3, <2>2
  <2>3. CASE j # i /\ m # i
    BY <1>2, <2>3 DEF TabInv
  <2> QED BY <2>1, <2>2, <2>3
<1>6. \A j \in Slots : SlotGood(cl'[j])
  BY <1>1 DEF TabInv
<1>7. \A j \in Used : HandlesIssued(cl'[j]) /\ OneHandle(cl'[j])
  BY <1>1 DEF TabInv
<1>8. weights' \subseteq W
  BY DEF TabInv
<1> QED BY <1>1, <1>4, <1>5, <1>6, <1>7, <1>8 DEF TabInv

LEMMA AcceptKeeps == ASSUME TablesAssumption, TabInv, Accept PROVE TabInv'
<1>1. nc \in Nat /\ nc + 1 \in Slots /\ Used' = Used \cup {nc + 1} /\ nc + 1 \notin Used
      /\ Used \subseteq Slots /\ nc' \in 0 .. MAX_CLIENTS
  BY DEF TabInv, Accept, Used, Slots, TablesAssumption
<1>2. PICK s : s = [cl[nc + 1] EXCEPT !.wt = {}, !.next_wid = 0]
  OBVIOUS
<1>3. SlotGood(s) /\ HandlesIssued(s) /\ OneHandle(s) /\ WeightsIn(s) = {}
  BY <1>1, <1>2, SlotCleared DEF TabInv
<1>4. PICK new : new = nc + 1
  OBVIOUS
<1>5. cl' = [cl EXCEPT ![new] = s]
  BY <1>2, <1>4 DEF Accept
<1>6. /\ DOMAIN cl' = Slots /\ cl' = [j \in Slots |-> cl'[j]]
      /\ cl'[new] = s /\ \A j \in Slots : j # new => cl'[j] = cl[j]
  BY <1>1, <1>4, <1>5 DEF TabInv
<1>7. Used' = Used \cup {new} /\ new \notin Used
  BY <1>1, <1>4
<1>8. /\ WeightsIn(cl'[new]) = {} /\ HandlesIssued(cl'[new]) /\ OneHandle(cl'[new]) /\ SlotGood(cl'[new])
      /\ \A j \in Used : cl'[j] = cl[j]
  BY <1>1, <1>3, <1>6, <1>7
<1>9. UNION {WeightsIn(cl'[j]) : j \in Used'} = UNION {WeightsIn(cl[j]) : j \in Used}
  BY <1>7, <1>8
<1>10. \A j, m \in Used' : j # m => WeightsIn(cl'[j]) \cap WeightsIn(cl'[m]) = {}
  BY <1>7, <1>8 DEF TabInv
<1>11. \A j \in Slots : SlotGood(cl'[j])
  BY <1>6, <1>8 DEF TabInv
<1>12. \A j \in Used' : HandlesIssued(cl'[j]) /\ OneHandle(cl'[j])
  BY <1>7, <1>8 DEF TabInv
<1>13. weights' = weights /\ kvs' = kvs
  BY DEF Accept
<1> QED BY <1>1, <1>6, <1>9, <1>10, <1>11, <1>12, <1>13 DEF TabInv

(* The invariant where nothing happened.                                   *)
LEMMA NoChange == ASSUME TabInv, UNCHANGED tabVars PROVE TabInv'
BY DEF TabInv, tabVars, Used

(* The slot and the heap of a used slot.                                   *)
LEMMA SlotInUse ==
    ASSUME TablesAssumption, TabInv, NEW i \in Used
    PROVE  /\ SlotGood(cl[i]) /\ HandlesIssued(cl[i]) /\ OneHandle(cl[i])
           /\ WeightsIn(cl[i]) \subseteq weights /\ weights \subseteq W /\ kvs \subseteq KV
<1>1. i \in Slots
  BY DEF TabInv, Used, Slots, TablesAssumption
<1> QED BY <1>1 DEF TabInv

LEMMA PackKeeps == ASSUME TablesAssumption, TabInv, NEW i \in Used, PackInto(i) PROVE TabInv'
<1>1. /\ SlotGood(cl[i]) /\ HandlesIssued(cl[i]) /\ OneHandle(cl[i])
      /\ WeightsIn(cl[i]) \subseteq weights /\ kvs' \subseteq KV
  BY SlotInUse DEF PackInto
<1>2. PICK w \in W \ weights :
         IF Cardinality(cl[i].wt) < MAX_WEIGHTS
         THEN /\ cl' = [cl EXCEPT ![i].next_wid = @ + 1,
                                  ![i].wt = @ \cup {[id |-> cl[i].next_wid + 1, w |-> w]}]
              /\ weights' = weights \cup {w}
         ELSE UNCHANGED <<cl, weights>>
  BY DEF PackInto
<1>3. CASE Cardinality(cl[i].wt) < MAX_WEIGHTS
  <2>1. PICK s : s = [cl[i] EXCEPT !.next_wid = cl[i].next_wid + 1,
                                   !.wt = cl[i].wt \cup {[id |-> cl[i].next_wid + 1, w |-> w]}]
    OBVIOUS
  <2>2. SlotGood(s) /\ HandlesIssued(s) /\ OneHandle(s) /\ WeightsIn(s) = WeightsIn(cl[i]) \cup {w}
    BY <1>1, <1>2, <1>3, <2>1, SlotPacked DEF PackInto
  <2>3. cl' = [cl EXCEPT ![i] = s]
    <3>1. i \in DOMAIN cl /\ DOMAIN cl[i] = {"wt", "next_wid", "kvt"}
      BY <1>1 DEF TabInv, Used, Slots, SlotGood, ClientSlots, TablesAssumption
    <3> QED BY <1>2, <1>3, <2>1, <3>1
  <2>4. {w} \subseteq W /\ {w} \cap weights = {} /\ weights' = (weights \ {}) \cup {w} /\ nc' = nc
        /\ WeightsIn(s) = (WeightsIn(cl[i]) \ {}) \cup {w}
    BY <1>2, <1>3, <2>2 DEF PackInto
  <2> QED BY <1>1, <2>2, <2>3, <2>4, OneSlotChanges
<1>4. CASE ~(Cardinality(cl[i].wt) < MAX_WEIGHTS)
  BY <1>2, <1>4, NoChange DEF PackInto, tabVars
<1> QED BY <1>3, <1>4

LEMMA FreeKeeps == ASSUME TablesAssumption, TabInv, NEW i \in Used, NEW id, Free(i, id) PROVE TabInv'
<1>1. /\ SlotGood(cl[i]) /\ HandlesIssued(cl[i]) /\ OneHandle(cl[i])
      /\ WeightsIn(cl[i]) \subseteq weights /\ kvs' \subseteq KV
  BY SlotInUse DEF Free
<1>2. PICK hit : hit = {x \in cl[i].wt : x.id = id}
  OBVIOUS
<1>3. PICK s : s = [cl[i] EXCEPT !.wt = cl[i].wt \ hit]
  OBVIOUS
<1>4. /\ SlotGood(s) /\ HandlesIssued(s) /\ OneHandle(s)
      /\ WeightsIn(s) = WeightsIn(cl[i]) \ {x.w : x \in hit}
  <2>1. PICK r : r = cl[i]
    OBVIOUS
  <2>2. SlotGood(r) /\ HandlesIssued(r) /\ OneHandle(r) /\ hit = {x \in r.wt : x.id = id}
        /\ s = [r EXCEPT !.wt = r.wt \ hit]
    BY <1>1, <1>2, <1>3, <2>1
  <2>3. /\ SlotGood(s) /\ HandlesIssued(s) /\ OneHandle(s)
        /\ WeightsIn(s) = WeightsIn(r) \ {x.w : x \in hit}
    BY <2>2, SlotFreed
  <2> QED BY <2>1, <2>3
<1>5. cl' = [cl EXCEPT ![i] = s] /\ nc' = nc /\ weights' = weights \ {x.w : x \in hit}
  BY <1>2, <1>3 DEF Free
<1>6. {x.w : x \in hit} \subseteq WeightsIn(cl[i])
  BY <1>2 DEF WeightsIn
<1>7. WeightsIn(s) = (WeightsIn(cl[i]) \ {x.w : x \in hit}) \cup {}
      /\ weights' = (weights \ {x.w : x \in hit}) \cup {} /\ {} \subseteq W /\ {} \cap weights = {}
  BY <1>4, <1>5
<1> QED BY <1>1, <1>4, <1>5, <1>6, <1>7, OneSlotChanges

LEMMA KvPairKeeps == ASSUME TablesAssumption, TabInv, NEW i \in Used, KvPair(i) PROVE TabInv'
<1>1. /\ SlotGood(cl[i]) /\ HandlesIssued(cl[i]) /\ OneHandle(cl[i])
      /\ WeightsIn(cl[i]) \subseteq weights /\ kvs \subseteq KV
  BY SlotInUse
<1>2. PICK n : n = cl[i].next_wid
  OBVIOUS
<1>3. PICK wkt \in W \ weights, kv \in KV \ kvs : \E wv \in W \ (weights \cup {wkt}) :
         IF KvFits(i)
         THEN /\ cl' = [cl EXCEPT
                  ![i].next_wid = n + 3,
                  ![i].wt = @ \cup {[id |-> n + 1, w |-> wkt], [id |-> n + 2, w |-> wv]},
                  ![i].kvt = @ \cup {[id |-> n + 3, kv |-> kv]}]
              /\ weights' = weights \cup {wkt, wv}
              /\ kvs' = kvs \cup {kv}
         ELSE UNCHANGED <<cl, weights, kvs>>
  BY <1>2 DEF KvPair
<1>4. PICK wv \in W \ (weights \cup {wkt}) :
         IF KvFits(i)
         THEN /\ cl' = [cl EXCEPT
                  ![i].next_wid = n + 3,
                  ![i].wt = @ \cup {[id |-> n + 1, w |-> wkt], [id |-> n + 2, w |-> wv]},
                  ![i].kvt = @ \cup {[id |-> n + 3, kv |-> kv]}]
              /\ weights' = weights \cup {wkt, wv}
              /\ kvs' = kvs \cup {kv}
         ELSE UNCHANGED <<cl, weights, kvs>>
  BY <1>3
<1>5. CASE KvFits(i)
  <2>1. /\ n \in Nat /\ n + 3 <= MaxWid /\ MaxWid \in Nat /\ cl[i] \in ClientSlots
        /\ Cardinality(cl[i].wt) \in Nat /\ Cardinality(cl[i].kvt) \in Nat /\ MAX_WEIGHTS \in Nat
    BY <1>1, <1>2, FS_CardinalityType DEF KvPair, SlotGood, ClientSlots, TablesAssumption
  <2>2. PICK s1 : s1 = [cl[i] EXCEPT !.next_wid = cl[i].next_wid + 1,
                                     !.wt = cl[i].wt \cup {[id |-> cl[i].next_wid + 1, w |-> wkt]}]
    OBVIOUS
  <2>3. /\ SlotGood(s1) /\ HandlesIssued(s1) /\ OneHandle(s1)
        /\ WeightsIn(s1) = WeightsIn(cl[i]) \cup {wkt} /\ Cardinality(s1.wt) <= Cardinality(cl[i].wt) + 1
        /\ s1.next_wid = n + 1 /\ s1.kvt = cl[i].kvt
    <3>1. wkt \notin WeightsIn(cl[i]) /\ cl[i].next_wid < MaxWid /\ Cardinality(cl[i].wt) < MAX_WEIGHTS
      BY <1>1, <1>2, <1>5, <2>1 DEF KvFits
    <3> QED BY <1>1, <1>2, <2>2, <3>1, SlotPacked
  <2>4. Cardinality(s1.wt) \in Nat
    BY <2>3, FS_CardinalityType DEF SlotGood
  <2>5. PICK s2 : s2 = [s1 EXCEPT !.next_wid = s1.next_wid + 1,
                                  !.wt = s1.wt \cup {[id |-> s1.next_wid + 1, w |-> wv]}]
    OBVIOUS
  <2>6. Cardinality(s1.wt) < MAX_WEIGHTS /\ wv \notin WeightsIn(s1) /\ s1.next_wid < MaxWid
    BY <1>1, <1>4, <1>5, <2>1, <2>3, <2>4 DEF KvFits
  <2>7. /\ SlotGood(s2) /\ HandlesIssued(s2) /\ OneHandle(s2)
        /\ WeightsIn(s2) = WeightsIn(s1) \cup {wv} /\ s2.next_wid = n + 2 /\ s2.kvt = cl[i].kvt
    <3>1. /\ SlotGood(s2) /\ HandlesIssued(s2) /\ OneHandle(s2) /\ WeightsIn(s2) = WeightsIn(s1) \cup {wv}
          /\ s2.next_wid = s1.next_wid + 1 /\ s2.kvt = s1.kvt
      BY <2>3, <2>5, <2>6, SlotPacked
    <3> QED BY <2>1, <2>3, <3>1
  <2>8. PICK s3 : s3 = [s2 EXCEPT !.next_wid = s2.next_wid + 1,
                                  !.kvt = s2.kvt \cup {[id |-> s2.next_wid + 1, kv |-> kv]}]
    OBVIOUS
  <2>9. SlotGood(s3) /\ HandlesIssued(s3) /\ OneHandle(s3) /\ WeightsIn(s3) = WeightsIn(s2)
    <3>1. s2.next_wid < MaxWid /\ Cardinality(s2.kvt) < MAX_WEIGHTS
      BY <1>5, <2>1, <2>7 DEF KvFits
    <3> QED BY <2>7, <2>8, <3>1, SlotPaired
  <2>10. WeightsIn(s3) = WeightsIn(cl[i]) \cup {wkt, wv}
    BY <2>3, <2>7, <2>9
  <2>11. s3 = [cl[i] EXCEPT !.next_wid = n + 3,
                            !.wt = @ \cup {[id |-> n + 1, w |-> wkt], [id |-> n + 2, w |-> wv]},
                            !.kvt = @ \cup {[id |-> n + 3, kv |-> kv]}]
    <3>1. s1 = [wt |-> cl[i].wt \cup {[id |-> n + 1, w |-> wkt]}, next_wid |-> n + 1, kvt |-> cl[i].kvt]
      BY <1>2, <2>1, <2>2 DEF ClientSlots
    <3>2. s2 = [wt |-> cl[i].wt \cup {[id |-> n + 1, w |-> wkt]} \cup {[id |-> n + 2, w |-> wv]},
                next_wid |-> n + 2, kvt |-> cl[i].kvt]
      <4>1. n + 1 + 1 = n + 2
        BY <2>1
      <4> QED BY <2>5, <3>1, <4>1
    <3>3. s3 = [wt |-> cl[i].wt \cup {[id |-> n + 1, w |-> wkt]} \cup {[id |-> n + 2, w |-> wv]},
                next_wid |-> n + 3, kvt |-> cl[i].kvt \cup {[id |-> n + 3, kv |-> kv]}]
      <4>1. n + 2 + 1 = n + 3
        BY <2>1
      <4> QED BY <2>8, <3>2, <4>1
    <3>4. cl[i].wt \cup {[id |-> n + 1, w |-> wkt]} \cup {[id |-> n + 2, w |-> wv]}
            = cl[i].wt \cup {[id |-> n + 1, w |-> wkt], [id |-> n + 2, w |-> wv]}
      OBVIOUS
    <3>5. PICK r : r = cl[i]
      OBVIOUS
    <3>6. PICK ids : ids = r.wt \cup {[id |-> n + 1, w |-> wkt], [id |-> n + 2, w |-> wv]}
      OBVIOUS
    <3>7. PICK pairs : pairs = r.kvt \cup {[id |-> n + 3, kv |-> kv]}
      OBVIOUS
    <3>9. s3 = [wt |-> ids, next_wid |-> n + 3, kvt |-> pairs]
      BY <3>3, <3>4, <3>5, <3>6, <3>7
    <3>10. s3 \in ClientSlots /\ s3.wt = ids /\ s3.next_wid = n + 3 /\ s3.kvt = pairs
      BY <2>9, <3>9 DEF SlotGood
    <3>11. PICK q : q = [r EXCEPT !.next_wid = n + 3, !.wt = ids, !.kvt = pairs]
      OBVIOUS
    <3>12. q \in ClientSlots /\ q.wt = ids /\ q.next_wid = n + 3 /\ q.kvt = pairs
      BY <2>1, <3>5, <3>10, <3>11 DEF ClientSlots
    <3>13. q = s3
      BY <3>10, <3>12 DEF ClientSlots
    <3> QED BY <3>5, <3>6, <3>7, <3>11, <3>13
  <2>12. cl' = [cl EXCEPT ![i] = s3]
    <3>1. i \in DOMAIN cl
      BY DEF TabInv, Used, Slots, TablesAssumption
    <3> QED BY <1>4, <1>5, <2>11, <3>1
  <2>13. {wkt, wv} \subseteq W /\ {wkt, wv} \cap weights = {} /\ weights' = weights \cup {wkt, wv}
         /\ kvs' \subseteq KV /\ nc' = nc
    BY <1>1, <1>3, <1>4, <1>5 DEF KvPair
  <2>14. WeightsIn(s3) = (WeightsIn(cl[i]) \ {}) \cup {wkt, wv} /\ weights' = (weights \ {}) \cup {wkt, wv}
    BY <2>10, <2>13
  <2> QED BY <2>9, <2>12, <2>13, <2>14, OneSlotChanges
<1>6. CASE ~KvFits(i)
  BY <1>4, <1>6, NoChange DEF KvPair, tabVars
<1> QED BY <1>5, <1>6

LEMMA DropKeeps == ASSUME TablesAssumption, TabInv, NEW i \in Used, DropClient(i) PROVE TabInv'
<1>1. /\ nc \in Nat \ {0} /\ nc \in Used /\ i \in Slots /\ Used \subseteq Slots
      /\ Used' = Used \ {nc} /\ nc' \in 0 .. MAX_CLIENTS
  BY DEF TabInv, DropClient, Used, Slots, TablesAssumption
<1>2. PICK last : last = nc
  OBVIOUS
<1>3. last \in Used /\ Used' = Used \ {last}
  BY <1>1, <1>2
<1>4. PICK s : s = IF i = last THEN Reclaimed(i) ELSE cl[last]
  OBVIOUS
<1>5. cl' = [cl EXCEPT ![i] = s] /\ weights' = weights \ WeightsIn(cl[i]) /\ kvs' \subseteq kvs
  BY <1>2, <1>4 DEF DropClient, FreedOnDrop, WeightsOf, WeightsIn
<1>6. /\ DOMAIN cl' = Slots /\ cl' = [j \in Slots |-> cl'[j]]
      /\ cl'[i] = s /\ \A j \in Slots : j # i => cl'[j] = cl[j]
  BY <1>1, <1>5 DEF TabInv
<1>7. SlotGood(s)
  BY <1>1, <1>3, <1>4, SlotCleared DEF TabInv, Reclaimed
<1>8. \A j \in Slots : SlotGood(cl'[j])
  BY <1>6, <1>7 DEF TabInv
(* Where the contents of a slot in use came from.                          *)
<1>9. PICK from : from = [j \in Used |-> IF j = i THEN last ELSE j]
  OBVIOUS
<1>10. /\ \A j \in Used' : from[j] \in Used /\ from[j] # i /\ cl'[j] = cl[from[j]]
       /\ \A j, m \in Used' : j # m => from[j] # from[m]
  BY <1>1, <1>3, <1>4, <1>6, <1>9
<1>11. \A m \in Used : m # i => \E j \in Used' : from[j] = m
  <2> SUFFICES ASSUME NEW m \in Used, m # i PROVE \E j \in Used' : from[j] = m
    OBVIOUS
  <2>1. CASE m = last
    BY <1>3, <1>9, <2>1
  <2>2. CASE m # last
    BY <1>3, <1>9, <2>2
  <2> QED BY <2>1, <2>2
<1>12. \A j \in Used' : HandlesIssued(cl'[j]) /\ OneHandle(cl'[j])
  BY <1>10 DEF TabInv
<1>13. \A j, m \in Used' : j # m => WeightsIn(cl'[j]) \cap WeightsIn(cl'[m]) = {}
  <2> SUFFICES ASSUME NEW j \in Used', NEW m \in Used', j # m
               PROVE  WeightsIn(cl'[j]) \cap WeightsIn(cl'[m]) = {}
    OBVIOUS
  <2>1. from[j] \in Used /\ from[m] \in Used /\ from[j] # from[m]
    BY <1>10
  <2>2. WeightsIn(cl[from[j]]) \cap WeightsIn(cl[from[m]]) = {}
    BY <2>1 DEF TabInv
  <2> QED BY <1>10, <2>2
<1>14. weights' = UNION {WeightsIn(cl'[j]) : j \in Used'}
  <2>1. ASSUME NEW x \in weights' PROVE \E j \in Used' : x \in WeightsIn(cl'[j])
    <3>1. PICK m \in Used : x \in WeightsIn(cl[m])
      BY <1>5, <2>1 DEF TabInv
    <3>2. m # i
      BY <1>5, <2>1, <3>1
    <3> QED BY <1>10, <1>11, <3>1, <3>2
  <2>2. ASSUME NEW j \in Used', NEW x \in WeightsIn(cl'[j]) PROVE x \in weights'
    <3>1. from[j] \in Used /\ from[j] # i /\ x \in WeightsIn(cl[from[j]])
      BY <1>10, <2>2
    <3>2. x \in weights /\ x \notin WeightsIn(cl[i])
      BY <3>1 DEF TabInv
    <3> QED BY <1>5, <3>2
  <2> QED BY <2>1, <2>2
<1> QED BY <1>1, <1>5, <1>6, <1>8, <1>12, <1>13, <1>14 DEF TabInv

-----------------------------------------------------------------------------
(* The theorem.                                                            *)

LEMMA TabInvInit == TablesAssumption /\ TabInit => TabInv
<1> SUFFICES ASSUME TablesAssumption, TabInit PROVE TabInv
  OBVIOUS
<1>1. Used = {}
  BY DEF TabInit, Used
<1>2. \A i \in Slots : SlotGood(cl[i])
  <2> SUFFICES ASSUME NEW i \in Slots PROVE SlotGood(cl[i])
    OBVIOUS
  <2>1. cl[i] = [wt |-> {}, next_wid |-> 0, kvt |-> {}]
    BY DEF TabInit
  <2>2. cl[i] \in ClientSlots
    BY <2>1 DEF ClientSlots, TablesAssumption
  <2>3. IsFiniteSet({}) /\ Cardinality({}) <= MAX_WEIGHTS
    BY FS_EmptySet DEF TablesAssumption
  <2> QED BY <2>1, <2>2, <2>3 DEF SlotGood
<1> QED BY <1>1, <1>2 DEF TabInit, TabInv, TablesAssumption

LEMMA TabInvariant == TabSpec => []TabInv
<1> USE TablesAssumption
<1>1. TabInv /\ [TabNext]_tabVars => TabInv'
  <2> SUFFICES ASSUME TabInv, [TabNext]_tabVars PROVE TabInv'
    OBVIOUS
  <2>1. CASE TabNext
    BY <2>1, AcceptKeeps, PackKeeps, KvPairKeeps, DropKeeps, FreeKeeps DEF TabNext
  <2>2. CASE UNCHANGED tabVars
    BY <2>2, NoChange
  <2> QED BY <2>1, <2>2
<1> QED BY <1>1, TabInvInit, PTL DEF TabSpec

(* The weights allocated are those in the tables of the connected clients, *)
(* each in one table under one handle, and no table overflows: PACK, FREE, *)
(* KV_ALLOC, drops and the compaction of cl[] leak none and free none      *)
(* twice, for any number of clients, weights and handles.                  *)
THEOREM WeightsAreExact == TabSpec => []WeightsExact
<1>1. TabInv => WeightsExact
  <2> SUFFICES ASSUME TabInv PROVE WeightsExact
    OBVIOUS
  <2>1. cl \in [Slots -> ClientSlots]
    BY DEF TabInv, SlotGood
  <2>2. TabTypeOK
    BY <2>1 DEF TabInv, TabTypeOK, SlotGood, ClientSlots
  <2>3. \A i \in Used : WeightsOf(i) = WeightsIn(cl[i])
    BY DEF WeightsOf, WeightsIn
  <2>4. UNION {WeightsOf(i) : i \in Used} = UNION {WeightsIn(cl[i]) : i \in Used}
    BY <2>3
  <2> QED BY <2>2, <2>3, <2>4 DEF TabInv, WeightsExact, OneHandle
<1> QED BY <1>1, TabInvariant, PTL
-----------------------------------------------------------------------------
(***************************************************************************)
(* OrkdRing: for any number of clients, slots and counter values, the two  *)
(* cursors, of which each side sees only its own, agree on the requests    *)
(* left to serve across every overflow, and a response is the answer to    *)
(* the request its ticket stands for.                                      *)
(***************************************************************************)

(* Counters.                                                               *)

(* Quotient and remainder.                                                 *)
LEMMA DivMod ==
    ASSUME NEW a \in Int, NEW n \in Nat \ {0}
    PROVE  /\ a = n * (a \div n) + (a % n)
           /\ a \div n \in Int
           /\ a % n \in 0 .. (n - 1)
<1>1. a = n * (a \div n) + (a % n)
  OBVIOUS
<1>2. a \div n \in Int /\ a % n \in 0 .. (n - 1)
  OBVIOUS
<1> QED BY <1>1, <1>2

(* The remainder is the only number below n that is congruent.             *)
LEMMA ModUnique ==
    ASSUME NEW n \in Nat \ {0}, NEW q \in Int, NEW r \in 0 .. (n - 1)
    PROVE  (n * q + r) % n = r
OBVIOUS

(* What the solver does not see of a product of three.                     *)
LEMMA Product ==
    ASSUME NEW n \in Int, NEW q \in Int, NEW k \in Int
    PROVE  (n * q) * k = n * (q * k) /\ n * q + n * k = n * (q + k) /\ q * k \in Int
OBVIOUS

(* Multiples of n do not change the remainder.                             *)
LEMMA ModAdd ==
    ASSUME NEW n \in Nat \ {0}, NEW a \in Int, NEW q \in Int
    PROVE (a + n * q) % n = a % n
<1> DEFINE d == a \div n  r == a % n
<1>1. a = n * d + r /\ d \in Int /\ r \in 0 .. (n - 1)
  BY DivMod
<1> HIDE DEF d, r
<1>2. n * d + n * q = n * (d + q)
  BY <1>1, Product
<1>3. n * d \in Int /\ n * q \in Int /\ d + q \in Int
  BY <1>1
<1>4. a + n * q = n * (d + q) + r
  BY <1>1, <1>2, <1>3
<1>5. (n * (d + q) + r) % n = r
  BY <1>1, <1>3, ModUnique
<1> QED BY <1>4, <1>5 DEF r

(* A counter that wraps at a multiple of n keeps its remainder.            *)
LEMMA ModMod ==
    ASSUME NEW n \in Nat \ {0}, NEW m \in Nat \ {0}, m % n = 0, NEW a \in Int
    PROVE (a % m) % n = a % n
<1>1. PICK q \in Int : m = n * q
  <2>1. m = n * (m \div n) /\ (m \div n) \in Int
    BY DivMod
  <2> QED BY <2>1
<1> DEFINE k == a \div m  r == a % m
<1>2. a = m * k + r /\ k \in Int /\ r \in Int
  BY DivMod
<1> HIDE DEF k, r
<1>3. m * k = n * (q * k) /\ q * k \in Int
  BY <1>1, <1>2, Product
<1>4. (r + n * (q * k)) % n = r % n
  BY <1>2, <1>3, ModAdd
<1>5. a = r + n * (q * k)
  <2>1. n * (q * k) \in Int
    BY <1>3
  <2> QED BY <1>2, <1>3, <2>1
<1> QED BY <1>4, <1>5 DEF r

-----------------------------------------------------------------------------
(* Cursors.                                                                *)

(* The slots of p consecutive values of a counter, from t on.              *)
Span(t, p) == {(t + k) % NSLOTS : k \in 0 .. (p - 1)}

Counter == 0 .. (CTR - 1)

(* The slot count divides the range of the counters.                       *)
LEMMA SlotsDivide == NSLOTS \in Nat \ {0} /\ \E q \in Int : CTR = NSLOTS * q
<1>1. CTR = NSLOTS * (CTR \div NSLOTS) /\ (CTR \div NSLOTS) \in Int
  <2>1. CTR = NSLOTS * (CTR \div NSLOTS) + (CTR % NSLOTS) /\ (CTR \div NSLOTS) \in Int
    BY DivMod, RingAssumption
  <2> QED BY <2>1, RingAssumption
<1> QED BY <1>1, RingAssumption

(* One more, around the end of the range.                                  *)
LEMMA WrapNext ==
    ASSUME NEW n \in Counter
    PROVE  /\ Wrap(n + 1) \in Counter
           /\ Wrap(n + 1) = IF n + 1 = CTR THEN 0 ELSE n + 1
<1> USE RingAssumption DEF Counter
<1>1. CASE n + 1 = CTR
  <2>1. (CTR * 1 + 0) % CTR = 0
    BY ModUnique
  <2> QED BY <1>1, <2>1 DEF Wrap
<1>2. CASE n + 1 # CTR
  <2>1. (CTR * 0 + (n + 1)) % CTR = n + 1
    BY <1>2, ModUnique
  <2> QED BY <1>2, <2>1 DEF Wrap
<1> QED BY <1>1, <1>2

(* How far a counter is ahead of another.                                  *)
LEMMA Distance ==
    ASSUME NEW n \in Counter, NEW t \in Counter
    PROVE  (n - t) % CTR = IF n >= t THEN n - t ELSE n - t + CTR
<1> USE RingAssumption DEF Counter
<1>1. CASE n >= t
  <2>1. (CTR * 0 + (n - t)) % CTR = n - t
    BY <1>1, ModUnique
  <2> QED BY <1>1, <2>1
<1>2. CASE ~(n >= t)
  <2>1. (CTR * (-1) + (n - t + CTR)) % CTR = n - t + CTR
    BY <1>2, ModUnique
  <2> QED BY <1>2, <2>1
<1> QED BY <1>1, <1>2

(* An overflow does not change the slot.                                   *)
LEMMA SameSlot ==
    ASSUME NEW a \in Int
    PROVE  (a + CTR) % NSLOTS = a % NSLOTS /\ (a - CTR) % NSLOTS = a % NSLOTS
<1>1. PICK q \in Int : CTR = NSLOTS * q
  BY SlotsDivide
<1>2. (a + NSLOTS * q) % NSLOTS = a % NSLOTS
  BY SlotsDivide, ModAdd
<1>3. (a + NSLOTS * (-q)) % NSLOTS = a % NSLOTS
  <2>1. -q \in Int
    OBVIOUS
  <2> QED BY <2>1, SlotsDivide, ModAdd
<1>4. NSLOTS * (-q) = -CTR
  BY <1>1, SlotsDivide
<1>5. CTR \in Int
  BY RingAssumption
<1> QED BY <1>1, <1>2, <1>3, <1>4, <1>5

(* Fewer than NSLOTS apart is another slot.                                *)
LEMMA OtherSlot ==
    ASSUME NEW t \in Int, NEW k \in 1 .. (NSLOTS - 1)
    PROVE  (t + k) % NSLOTS # t % NSLOTS
<1> SUFFICES ASSUME (t + k) % NSLOTS = t % NSLOTS PROVE FALSE
  OBVIOUS
<1> DEFINE d == (t + k) \div NSLOTS  e == t \div NSLOTS  r == t % NSLOTS
<1>1. /\ t + k = NSLOTS * d + r /\ t = NSLOTS * e + r
      /\ d \in Int /\ e \in Int /\ r \in Int
  <2>1. t + k \in Int
    BY SlotsDivide
  <2> QED BY <2>1, SlotsDivide, DivMod
<1> HIDE DEF d, e, r
<1>2. NSLOTS * (d - e) = NSLOTS * d - NSLOTS * e
  BY <1>1, SlotsDivide
<1>3. k = NSLOTS * (d - e)
  BY <1>1, <1>2, SlotsDivide
<1>4. d - e >= 1 => NSLOTS * (d - e) >= NSLOTS
  BY <1>1, SlotsDivide
<1>5. d - e <= 0 => NSLOTS * (d - e) <= 0
  BY <1>1, SlotsDivide
<1> QED BY <1>1, <1>3, <1>4, <1>5, SlotsDivide

(* A cursor names a slot.                                                  *)
LEMMA SlotOf == \A n \in Int : n % NSLOTS \in Idx
BY SlotsDivide, DivMod DEF Idx

(* NSLOTS consecutive requests fill the ring.                              *)
LEMMA FullSpan ==
    ASSUME NEW t \in Int
    PROVE  Idx \subseteq Span(t, NSLOTS)
<1> SUFFICES ASSUME NEW i \in Idx PROVE i \in Span(t, NSLOTS)
  OBVIOUS
<1> DEFINE k == (i - t) % NSLOTS  d == (i - t) \div NSLOTS
<1>1. i \in Int /\ i - t \in Int
  BY SlotsDivide DEF Idx
<1>2. i - t = NSLOTS * d + k /\ d \in Int /\ k \in 0 .. (NSLOTS - 1)
  BY <1>1, SlotsDivide, DivMod
<1> HIDE DEF k, d
<1>3. (NSLOTS * (-d) + i) % NSLOTS = i
  <2>1. -d \in Int /\ i \in 0 .. (NSLOTS - 1)
    BY <1>2 DEF Idx
  <2> QED BY <2>1, SlotsDivide, ModUnique
<1>4. NSLOTS * (-d) = -(NSLOTS * d)
  BY <1>2, SlotsDivide
<1>5. NSLOTS * d \in Int
  BY <1>2, SlotsDivide
<1>6. t + k = NSLOTS * (-d) + i
  BY <1>1, <1>2, <1>4, <1>5
<1> QED BY <1>2, <1>3, <1>6 DEF Span

(* A submit into a slot that is free adds one to what is pending.          *)
LEMMA SpanGrows ==
    ASSUME NEW n \in Counter, NEW t \in Counter, (n - t) % CTR < NSLOTS
    PROVE  /\ (Wrap(n + 1) - t) % CTR = ((n - t) % CTR) + 1
           /\ Span(t, ((n - t) % CTR) + 1) = Span(t, (n - t) % CTR) \cup {n % NSLOTS}
<1> DEFINE p == (n - t) % CTR
<1>1. p = IF n >= t THEN n - t ELSE n - t + CTR
  BY Distance
<1>2. /\ Wrap(n + 1) \in Counter
      /\ Wrap(n + 1) = IF n + 1 = CTR THEN 0 ELSE n + 1
  BY WrapNext
<1>3. (Wrap(n + 1) - t) % CTR =
         IF Wrap(n + 1) >= t THEN Wrap(n + 1) - t ELSE Wrap(n + 1) - t + CTR
  BY <1>2, Distance
<1> HIDE DEF p
<1>4. p \in Nat /\ p < NSLOTS
  BY <1>1, RingAssumption DEF Counter, p
<1>5. (Wrap(n + 1) - t) % CTR = p + 1
  BY <1>1, <1>2, <1>3, <1>4, RingAssumption DEF Counter
<1>6. (t + p) % NSLOTS = n % NSLOTS
  <2>1. t + p = n \/ t + p = n + CTR
    BY <1>1, RingAssumption DEF Counter
  <2> QED BY <2>1, SameSlot DEF Counter
<1>7. Span(t, p + 1) = Span(t, p) \cup {(t + p) % NSLOTS}
  <2>1. 0 .. (p + 1 - 1) = (0 .. (p - 1)) \cup {p}
    BY <1>4
  <2> QED BY <2>1 DEF Span
<1> QED BY <1>5, <1>6, <1>7 DEF p

(* Serving the slot under the tail takes one off.                          *)
LEMMA SpanShrinks ==
    ASSUME NEW n \in Counter, NEW t \in Counter,
           (n - t) % CTR \in 1 .. NSLOTS
    PROVE  /\ (n - Wrap(t + 1)) % CTR = ((n - t) % CTR) - 1
           /\ Span(Wrap(t + 1), ((n - t) % CTR) - 1) =
                Span(t, (n - t) % CTR) \ {t % NSLOTS}
<1> DEFINE p == (n - t) % CTR  u == Wrap(t + 1)
<1>1. p = IF n >= t THEN n - t ELSE n - t + CTR
  BY Distance
<1>2. u \in Counter /\ u = IF t + 1 = CTR THEN 0 ELSE t + 1
  BY WrapNext
<1>3. (n - u) % CTR = IF n >= u THEN n - u ELSE n - u + CTR
  BY <1>2, Distance
<1> HIDE DEF p, u
<1>4. p \in 1 .. NSLOTS
  BY DEF p
<1>5. (n - u) % CTR = p - 1
  BY <1>1, <1>2, <1>3, <1>4, RingAssumption DEF Counter
<1>6. \A k \in Int : (u + k) % NSLOTS = (t + (k + 1)) % NSLOTS
  <2> SUFFICES ASSUME NEW k \in Int
               PROVE  (u + k) % NSLOTS = (t + (k + 1)) % NSLOTS
    OBVIOUS
  <2>1. PICK a \in Int : a = t + (k + 1)
    BY DEF Counter
  <2>2. u + k = a \/ u + k = a - CTR
    BY <1>2, <2>1, RingAssumption DEF Counter
  <2>3. (a - CTR) % NSLOTS = a % NSLOTS
    BY SameSlot
  <2> QED BY <2>1, <2>2, <2>3
<1>7. Span(u, p - 1) = {(t + k) % NSLOTS : k \in 1 .. (p - 1)}
  <2>1. ASSUME NEW k \in 0 .. (p - 1 - 1)
        PROVE  \E l \in 1 .. (p - 1) : (u + k) % NSLOTS = (t + l) % NSLOTS
    <3>1. k + 1 \in 1 .. (p - 1) /\ (u + k) % NSLOTS = (t + (k + 1)) % NSLOTS
      BY <1>4, <1>6
    <3> QED BY <3>1
  <2>2. ASSUME NEW l \in 1 .. (p - 1)
        PROVE  \E k \in 0 .. (p - 1 - 1) : (u + k) % NSLOTS = (t + l) % NSLOTS
    <3>1. l - 1 \in 0 .. (p - 1 - 1) /\ l - 1 \in Int /\ (l - 1) + 1 = l
      BY <1>4
    <3>2. (u + (l - 1)) % NSLOTS = (t + l) % NSLOTS
      BY <1>6, <3>1
    <3> QED BY <3>1, <3>2
  <2> QED BY <2>1, <2>2 DEF Span
<1>8. Span(t, p) = {(t + k) % NSLOTS : k \in 1 .. (p - 1)} \cup {t % NSLOTS}
  <2>1. 0 .. (p - 1) = (1 .. (p - 1)) \cup {0}
    BY <1>4
  <2>2. t + 0 = t
    BY DEF Counter
  <2> QED BY <2>1, <2>2 DEF Span
<1>9. \A k \in 1 .. (p - 1) : (t + k) % NSLOTS # t % NSLOTS
  <2>1. \A k \in 1 .. (p - 1) : k \in 1 .. (NSLOTS - 1)
    BY <1>4, RingAssumption
  <2>2. t \in Int
    BY DEF Counter
  <2> QED BY <2>1, <2>2, OtherSlot
<1>10. Span(u, p - 1) = Span(t, p) \ {t % NSLOTS}
  BY <1>7, <1>8, <1>9
<1> QED BY <1>5, <1>10 DEF p, u

-----------------------------------------------------------------------------
(* The inductive invariant.                                                *)

(* The daemon visits rings it has mapped; the request it answers is still  *)
(* published, and holds the answer if there is one.                        *)
Serving ==
    /\ dpc \in {"rings", "drain", "respond"} => visit \subseteq ring
    /\ dpc \in {"drain", "respond"} => cur \in ring
    /\ dpc = "respond" =>
         LET s == slot[cur][TailIdx(cur)] IN
         /\ budget > 0 /\ s.state = "REQ"
         /\ at[cur] # "detached" /\ s.rc = 0 =>
              s.data = Result(sent[cur][TailIdx(cur)])

(* One ring: TicketsExact and CursorsAgree of one client.                  *)
Tickets(c) ==
    \A i \in Idx : at[c] # "detached" =>
      LET s == slot[c][i] IN
      /\ s.state = "EMPTY" <=> sent[c][i] = Nothing \/ Unpublished(c, i)
      /\ s.state = "REQ" =>
           \/ s.data = sent[c][i]
           \/ Answering(c, i) /\ s.rc = 0 /\ s.data = Result(sent[c][i])
      /\ s.state = "RESP" /\ s.rc = 0 => s.data = Result(sent[c][i])
Requests(c) == {i \in Idx : slot[c][i].state = "REQ"}
Cursors(c) ==
    c \in ring /\ at[c] # "detached" =>
      Pending(c) <= NSLOTS /\ Requests(c) = Span(ring_tail[c], Pending(c))


(* What is published is a request or the answer to one; a client with a    *)
(* ring has not been told to stop, and publishes what it filled.           *)
Held(c) == \A i \in Idx : slot[c][i].state # "EMPTY" => slot[c][i].data # Nothing
Attached(c) ==
    /\ at[c] # "detached" => ~stop[c]
    /\ at[c] = "publish" => sent[c][NextIdx(c)] # Nothing

RingOf(c) == Held(c) /\ Attached(c) /\ Tickets(c) /\ Cursors(c)
RingInv == RingTypeOK /\ Serving /\ \A c \in Producers : RingOf(c)

(* It contains what the run checks.                                        *)
LEMMA RingInvExact == RingInv => RingExact
<1> SUFFICES ASSUME RingInv PROVE RingExact
  OBVIOUS
<1>1. TicketsExact
  BY DEF RingInv, RingOf, TicketsExact, Tickets
<1>2. RingTypeOK /\ ring \subseteq Producers
  BY DEF RingInv, RingTypeOK
<1>3. CursorsAgree
  BY <1>2 DEF RingInv, RingOf, CursorsAgree, Cursors, Requests, Span
<1> QED BY <1>1, <1>3 DEF RingExact

(* No request is outstanding in a ring that was never used.                *)
LEMMA RingInvInit == RingInit => RingInv
<1> SUFFICES ASSUME RingInit PROVE RingInv
  OBVIOUS
<1>1. RingTypeOK
  BY RingAssumption DEF RingInit, RingTypeOK, Zeroed, Slot, SlotData, Nothing, Idx
<1>2. Serving
  BY DEF RingInit, Serving
<1>3. \A c \in Producers : RingOf(c)
  BY DEF RingInit, RingOf, Held, Attached, Tickets, Cursors, Zeroed
<1> QED BY <1>1, <1>2, <1>3 DEF RingInv

(* Records of slots.                                                       *)
LEMMA SlotTypes ==
    /\ \A w \in RingWeights, v \in Inputs :
          A(w, v) \in SlotData \ {Nothing} /\ C(w, v) \in SlotData \ {Nothing}
    /\ \A d \in SlotData \ {Nothing} : d.w \in RingWeights /\ d.v \in Inputs
    /\ Nothing \in SlotData
    /\ \A s \in Slot : /\ s.state \in {"EMPTY", "REQ", "RESP"}
                      /\ s.data \in SlotData /\ s.rc \in {0, -1}
<1>1. \A w, v : A(w, v) # Nothing /\ C(w, v) # Nothing
  <2> SUFFICES ASSUME NEW w, NEW v PROVE A(w, v) # Nothing /\ C(w, v) # Nothing
    OBVIOUS
  <2>1. A(w, v).kind = "A" /\ C(w, v).kind = "C" /\ Nothing.kind = "none"
    BY DEF A, C, Nothing
  <2> QED BY <2>1
<1>2. \A w \in RingWeights, v \in Inputs : A(w, v) \in SlotData /\ C(w, v) \in SlotData
  BY DEF A, C, SlotData
<1>3. \A d \in SlotData \ {Nothing} : d.w \in RingWeights /\ d.v \in Inputs
  BY DEF SlotData
<1>4. \A s \in Slot : /\ s.state \in {"EMPTY", "REQ", "RESP"}
                    /\ s.data \in SlotData /\ s.rc \in {0, -1}
  BY DEF Slot
<1> QED BY <1>1, <1>2, <1>3, <1>4 DEF SlotData

(* What the steps make of a slot.                                          *)
LEMMA SlotSteps ==
    ASSUME NEW s \in Slot, NEW d \in SlotData
    PROVE  /\ Filled(s, d) \in Slot /\ Filled(s, d).state = s.state
           /\ Filled(s, d).data = d
           /\ Published(s, d) \in Slot /\ Published(s, d).state = "REQ"
           /\ Published(s, d).data = d
           /\ \A st \in {"EMPTY", "RESP"} :
                /\ [s EXCEPT !.state = st] \in Slot
                /\ [s EXCEPT !.state = st].state = st
                /\ [s EXCEPT !.state = st].data = s.data
                /\ [s EXCEPT !.state = st].rc = s.rc
<1>1. Filled(s, d) \in Slot /\ Filled(s, d).state = s.state /\ Filled(s, d).data = d
  BY DEF Filled, Slot
<1>2. /\ Published(s, d) \in Slot /\ Published(s, d).state = "REQ"
      /\ Published(s, d).data = d
  BY DEF Published, Slot
<1>3. \A st \in {"EMPTY", "RESP"} :
        /\ [s EXCEPT !.state = st] \in Slot
        /\ [s EXCEPT !.state = st].state = st
        /\ [s EXCEPT !.state = st].data = s.data
        /\ [s EXCEPT !.state = st].rc = s.rc
  BY DEF Slot
<1> QED BY <1>1, <1>2, <1>3

(* The daemon's answer, or A left in place.                                *)
LEMMA AnswerStep ==
    ASSUME NEW s \in Slot, s.data # Nothing, NEW rc \in {0, -1}
    PROVE  /\ Answer(s, rc) \in Slot
           /\ Answer(s, rc).state = s.state /\ Answer(s, rc).rc = rc
           /\ Answer(s, rc).data # Nothing
           /\ rc = 0 => Answer(s, rc).data = Result(s.data)
           /\ rc # 0 => Answer(s, rc).data = s.data
<1>1. /\ C(s.data.w, s.data.v) \in SlotData \ {Nothing} /\ s.data \in SlotData
      /\ Result(s.data) = C(s.data.w, s.data.v)
  BY SlotTypes DEF Result
<1>2. CASE rc = 0
  <2>1. Answer(s, rc) = [s EXCEPT !.data = C(s.data.w, s.data.v), !.rc = rc]
    BY <1>2 DEF Answer, Slot
  <2> DEFINE d == C(s.data.w, s.data.v)
  <2> HIDE DEF d
  <2>2. d \in SlotData => /\ [s EXCEPT !.data = d, !.rc = rc] \in Slot
                          /\ [s EXCEPT !.data = d, !.rc = rc].state = s.state
                          /\ [s EXCEPT !.data = d, !.rc = rc].rc = rc
                          /\ [s EXCEPT !.data = d, !.rc = rc].data = d
    BY DEF Slot
  <2> QED BY <1>1, <1>2, <2>1, <2>2 DEF d
<1>3. CASE rc # 0
  <2>1. Answer(s, rc) = [s EXCEPT !.data = s.data, !.rc = rc]
    BY <1>3 DEF Answer, Slot
  <2>2. /\ [s EXCEPT !.data = s.data, !.rc = rc] \in Slot
        /\ [s EXCEPT !.data = s.data, !.rc = rc].state = s.state
        /\ [s EXCEPT !.data = s.data, !.rc = rc].rc = rc
        /\ [s EXCEPT !.data = s.data, !.rc = rc].data = s.data
    BY DEF Slot
  <2> QED BY <1>3, <2>1, <2>2
<1> QED BY <1>2, <1>3

(* A ring that a step leaves alone.                                        *)
LEMMA RingKept ==
    ASSUME NEW c \in Producers, RingOf(c),
           slot'[c] = slot[c], stop'[c] = stop[c], at'[c] = at[c],
           sent'[c] = sent[c], ring_next'[c] = ring_next[c],
           ring_tail'[c] = ring_tail[c], c \in ring' => c \in ring,
           \A i \in Idx : Answering(c, i) => Answering(c, i)'
    PROVE  RingOf(c)'
<1>1. Held(c)' /\ Attached(c)'
  BY DEF RingOf, Held, Attached, NextIdx
<1>2. Tickets(c)'
  BY DEF RingOf, Tickets, Unpublished, NextIdx
<1>3. Cursors(c)'
  BY DEF RingOf, Cursors, Requests, Pending
<1> QED BY <1>1, <1>2, <1>3 DEF RingOf

(* A step of a client that leaves the request being answered alone.        *)
LEMMA ServingKept ==
    ASSUME Serving, UNCHANGED <<dpc, visit, cur, budget>>, ring \subseteq ring',
           dpc = "respond" =>
             /\ ring_tail'[cur] = ring_tail[cur]
             /\ slot'[cur][TailIdx(cur)] = slot[cur][TailIdx(cur)]
             /\ at'[cur] # "detached" => at[cur] # "detached"
             /\ at'[cur] # "detached" =>
                  sent'[cur][TailIdx(cur)] = sent[cur][TailIdx(cur)]
    PROVE  Serving'
BY DEF Serving, TailIdx

(* Types, client by client and for the daemon.                             *)
LEMMA ClientTypes ==
    ASSUME RingTypeOK, NEW c \in Producers, RingClient(c)
    PROVE  RingTypeOK'
<1> USE DEF RingTypeOK, ringVars, shm, ringClientVars, ringDaemonVars
<1>0. /\ 0 \in Idx /\ 0 \in Counter /\ NextIdx(c) \in Idx
      /\ Wrap(ring_next[c] + 1) \in Counter
  <2>1. ring_next[c] \in Counter /\ ring_next[c] \in Int
    BY DEF Counter
  <2>2. 0 \in Idx /\ 0 \in Counter
    BY RingAssumption DEF Idx, Counter
  <2> QED BY <2>1, <2>2, SlotOf, WrapNext DEF NextIdx
<1>1. Zeroed \in [Idx -> Slot] /\ [i \in Idx |-> Nothing] \in [Idx -> SlotData]
  BY SlotTypes DEF Zeroed, Slot
<1>2. CASE SetUpRing(c)
  BY <1>0, <1>1, <1>2 DEF SetUpRing, Mapped, Counter
<1>3. ASSUME NEW w \in RingWeights, NEW v \in Inputs, SubmitFill(c, w, v)
      PROVE  RingTypeOK'
  <2>1. A(w, v) \in SlotData
    BY SlotTypes
  <2>2. Filled(slot[c][NextIdx(c)], A(w, v)) \in Slot
    <3>1. slot[c][NextIdx(c)] \in Slot
      BY <1>0
    <3> QED BY <2>1, <3>1, SlotSteps
  <2> QED BY <1>0, <1>3, <2>1, <2>2 DEF SubmitFill
<1>4. CASE SubmitPublish(c)
  <2>1. Published(slot[c][NextIdx(c)], sent[c][NextIdx(c)]) \in Slot
    <3>1. slot[c][NextIdx(c)] \in Slot /\ sent[c][NextIdx(c)] \in SlotData
      BY <1>0
    <3> QED BY <3>1, SlotSteps
  <2> QED BY <1>0, <1>4, <2>1 DEF SubmitPublish, Counter
<1>5. ASSUME NEW i \in Idx, CollectBegin(c, i) PROVE RingTypeOK'
  BY <1>5 DEF CollectBegin
<1>6. CASE CollectEnd(c)
  <2>1. [slot[c][ticket[c]] EXCEPT !.state = "EMPTY"] \in Slot
    <3>1. slot[c][ticket[c]] \in Slot
      OBVIOUS
    <3> QED BY <3>1, SlotSteps, SlotTypes
  <2>2. slot' \in [Producers -> [Idx -> Slot]]
    BY <1>6, <2>1 DEF CollectEnd
  <2>3. /\ sent' = [sent EXCEPT ![c][ticket[c]] = Nothing] /\ Nothing \in SlotData
        /\ ticket' = [ticket EXCEPT ![c] = 0] /\ at' = [at EXCEPT ![c] = "idle"]
    BY <1>6, SlotTypes DEF CollectEnd
  <2> QED BY <1>0, <1>6, <2>2, <2>3 DEF CollectEnd
<1>7. ASSUME NEW w \in RingWeights, RingFreeWeight(c, w) PROVE RingTypeOK'
  BY <1>7 DEF RingFreeWeight
<1>8. CASE RingDisconnect(c) \/ ProducerDies(c)
  <2>1. Detach(c) /\ slot' = slot /\ UNCHANGED ringDaemonVars
    BY <1>8 DEF RingDisconnect, ProducerDies
  <2>2. stop' \in [Producers -> BOOLEAN]
    BY <1>8 DEF RingDisconnect, ProducerDies
  <2>3. /\ at' \in [Producers -> {"detached", "idle", "publish", "spin"}]
        /\ ticket' \in [Producers -> Idx]
        /\ ring_next' \in [Producers -> 0 .. (CTR - 1)]
        /\ sent' \in [Producers -> [Idx -> SlotData]]
    BY <1>0, <1>1, <2>1 DEF Detach, Counter
  <2> QED BY <2>1, <2>2, <2>3
<1> QED BY <1>2, <1>3, <1>4, <1>5, <1>6, <1>7, <1>8 DEF RingClient

-----------------------------------------------------------------------------
(* Steps of a client.                                                      *)

(* What they leave to the daemon and to other clients.                     *)
LEMMA ClientLeaves ==
    ASSUME RingTypeOK, NEW c \in Producers, RingClient(c)
    PROVE  /\ UNCHANGED <<dpc, visit, cur, budget>> /\ ring \subseteq ring'
           /\ \A q \in Producers \ {c} :
                /\ slot'[q] = slot[q] /\ stop'[q] = stop[q] /\ at'[q] = at[q]
                /\ sent'[q] = sent[q] /\ ring_next'[q] = ring_next[q]
                /\ ring_tail'[q] = ring_tail[q] /\ (q \in ring' => q \in ring)
<1> USE DEF RingTypeOK, ringVars, shm, ringClientVars, ringDaemonVars
<1>1. CASE SetUpRing(c)
  BY <1>1 DEF SetUpRing, Mapped
<1>2. ASSUME NEW w \in RingWeights, NEW v \in Inputs, SubmitFill(c, w, v)
      PROVE  /\ UNCHANGED <<dpc, visit, cur, budget>> /\ ring \subseteq ring'
             /\ \A q \in Producers \ {c} :
                  /\ slot'[q] = slot[q] /\ stop'[q] = stop[q] /\ at'[q] = at[q]
                  /\ sent'[q] = sent[q] /\ ring_next'[q] = ring_next[q]
                  /\ ring_tail'[q] = ring_tail[q] /\ (q \in ring' => q \in ring)
  BY <1>2 DEF SubmitFill
<1>3. CASE SubmitPublish(c)
  BY <1>3 DEF SubmitPublish
<1>4. ASSUME NEW i \in Idx, CollectBegin(c, i)
      PROVE  /\ UNCHANGED <<dpc, visit, cur, budget>> /\ ring \subseteq ring'
             /\ \A q \in Producers \ {c} :
                  /\ slot'[q] = slot[q] /\ stop'[q] = stop[q] /\ at'[q] = at[q]
                  /\ sent'[q] = sent[q] /\ ring_next'[q] = ring_next[q]
                  /\ ring_tail'[q] = ring_tail[q] /\ (q \in ring' => q \in ring)
  BY <1>4 DEF CollectBegin
<1>5. CASE CollectEnd(c)
  BY <1>5 DEF CollectEnd
<1>6. CASE RingDisconnect(c) \/ ProducerDies(c)
  BY <1>6 DEF RingDisconnect, ProducerDies, Detach
<1>7. ASSUME NEW w \in RingWeights, RingFreeWeight(c, w)
      PROVE  UNCHANGED <<shm, ringClientVars, dpc, ring, ring_tail, visit, cur, budget>>
  BY <1>7 DEF RingFreeWeight
<1> QED BY <1>1, <1>2, <1>3, <1>4, <1>5, <1>6, <1>7 DEF RingClient

(* A client that is gone is owed nothing.                                  *)
LEMMA DaemonGone ==
    ASSUME NEW c \in Producers, RingOf(c), slot'[c] = slot[c], at'[c] = "detached"
    PROVE  RingOf(c)'
BY DEF RingOf, Held, Attached, Tickets, Cursors

(* Only a request that is published is being answered.                     *)
LEMMA OwnRing ==
    ASSUME RingInv, NEW c \in Producers, RingClient(c)
    PROVE  /\ RingOf(c)'
           /\ cur = c /\ dpc = "respond" =>
                /\ ring_tail'[c] = ring_tail[c]
                /\ slot'[c][TailIdx(c)] = slot[c][TailIdx(c)]
                /\ at'[c] # "detached" => at[c] # "detached"
                /\ at'[c] # "detached" =>
                     sent'[c][TailIdx(c)] = sent[c][TailIdx(c)]
<1> DEFINE Safe == cur = c /\ dpc = "respond" =>
                     /\ ring_tail'[c] = ring_tail[c]
                     /\ slot'[c][TailIdx(c)] = slot[c][TailIdx(c)]
                     /\ at'[c] # "detached" => at[c] # "detached"
                     /\ at'[c] # "detached" =>
                          sent'[c][TailIdx(c)] = sent[c][TailIdx(c)]
<1>0. /\ RingTypeOK /\ Serving /\ RingOf(c)
      /\ dpc' = dpc /\ cur' = cur
  BY ClientLeaves DEF RingInv
<1>1. /\ NextIdx(c) \in Idx /\ TailIdx(c) \in Idx
      /\ ring_next[c] \in Counter /\ ring_tail[c] \in Counter
  <2>1. ring_next[c] \in Counter /\ ring_tail[c] \in Counter
    BY <1>0 DEF RingTypeOK, Counter
  <2> QED BY <2>1, SlotOf DEF NextIdx, TailIdx, Counter
<1>2. cur = c /\ dpc = "respond" => slot[c][TailIdx(c)].state = "REQ"
  BY <1>0 DEF Serving
<1>3. /\ \A i \in Idx : slot[c][i] \in Slot /\ sent[c][i] \in SlotData
      /\ ticket[c] \in Idx
  BY <1>0 DEF RingTypeOK
<1>4. CASE SetUpRing(c)
  <2>1. /\ slot'[c] = Zeroed /\ stop'[c] = FALSE /\ at'[c] = "idle"
        /\ ring_next'[c] = 0 /\ ring_tail'[c] = 0
        /\ sent'[c] = [i \in Idx |-> Nothing] /\ dpc = "sockets"
    BY <1>0, <1>4 DEF SetUpRing, Mapped, RingTypeOK
  <2>2. \A i \in Idx : slot'[c][i].state = "EMPTY" /\ sent'[c][i] = Nothing
    BY <2>1 DEF Zeroed
  <2>3. Held(c)' /\ Attached(c)' /\ Tickets(c)'
    BY <2>1, <2>2 DEF Held, Attached, Tickets
  <2>4. Cursors(c)'
    <3>1. Pending(c)' = 0
      <4>1. 0 \in Counter
        BY RingAssumption DEF Counter
      <4> QED BY <2>1, <4>1, Distance DEF Pending
    <3>2. Requests(c)' = {}
      BY <2>2 DEF Requests
    <3>3. Span(ring_tail'[c], 0) = {}
      BY DEF Span
    <3> QED BY <3>1, <3>2, <3>3, RingAssumption DEF Cursors, Span
  <2>5. Safe
    BY <2>1
  <2> QED BY <2>3, <2>4, <2>5 DEF RingOf
<1>5. ASSUME NEW w \in RingWeights, NEW v \in Inputs, SubmitFill(c, w, v)
      PROVE  RingOf(c)' /\ Safe
  <2> DEFINE i == NextIdx(c)
  <2>1. /\ at[c] = "idle" /\ at'[c] = "publish" /\ slot[c][i].state = "EMPTY"
        /\ slot'[c] = [slot[c] EXCEPT ![i] = Filled(slot[c][i], A(w, v))]
        /\ sent'[c] = [sent[c] EXCEPT ![i] = A(w, v)]
        /\ stop'[c] = stop[c] /\ ring_next'[c] = ring_next[c]
        /\ ring_tail' = ring_tail /\ ring' = ring
    BY <1>0, <1>5 DEF SubmitFill, RingTypeOK, ringDaemonVars
  <2>2. A(w, v) \in SlotData \ {Nothing}
    BY SlotTypes
  <2>3. /\ slot'[c][i].state = "EMPTY" /\ sent'[c][i] # Nothing
        /\ \A j \in Idx \ {i} : slot'[c][j] = slot[c][j] /\ sent'[c][j] = sent[c][j]
        /\ \A j \in Idx : slot'[c][j].state = slot[c][j].state
    <3>1. Filled(slot[c][i], A(w, v)).state = slot[c][i].state
      BY <1>1, <1>3, <2>2, SlotSteps
    <3>2. slot'[c][i] = Filled(slot[c][i], A(w, v)) /\ sent'[c][i] = A(w, v)
      BY <1>0, <1>1, <2>1 DEF RingTypeOK
    <3>3. \A j \in Idx \ {i} : slot'[c][j] = slot[c][j] /\ sent'[c][j] = sent[c][j]
      BY <1>0, <1>1, <2>1 DEF RingTypeOK
    <3> QED BY <2>1, <2>2, <3>1, <3>2, <3>3
  <2>4. NextIdx(c)' = i
    BY <2>1 DEF NextIdx
  <2> HIDE DEF i
  <2>5. Held(c)' /\ Attached(c)'
    BY <1>0, <2>1, <2>3, <2>4 DEF RingOf, Held, Attached
  <2>6. Tickets(c)'
    <3> SUFFICES ASSUME NEW j \in Idx
                 PROVE  /\ slot'[c][j].state = "EMPTY" <=>
                              sent'[c][j] = Nothing \/ Unpublished(c, j)'
                        /\ slot'[c][j].state = "REQ" =>
                             \/ slot'[c][j].data = sent'[c][j]
                             \/ /\ Answering(c, j)' /\ slot'[c][j].rc = 0
                                /\ slot'[c][j].data = Result(sent'[c][j])
                        /\ slot'[c][j].state = "RESP" /\ slot'[c][j].rc = 0 =>
                             slot'[c][j].data = Result(sent'[c][j])
      BY DEF Tickets
    <3>1. Unpublished(c, j)' <=> j = i
      BY <2>1, <2>4 DEF Unpublished
    <3>2. CASE j = i
      BY <2>3, <3>1, <3>2
    <3>3. CASE j # i
      <4>1. ~Unpublished(c, j)
        BY <2>1 DEF Unpublished
      <4>2. Answering(c, j)' <=> Answering(c, j)
        BY <1>0, <2>1 DEF Answering, TailIdx
      <4> QED BY <1>0, <2>1, <2>3, <3>1, <3>3, <4>1, <4>2 DEF RingOf, Tickets
    <3> QED BY <3>2, <3>3
  <2>7. Cursors(c)'
    <3>1. Requests(c)' = Requests(c) /\ Pending(c)' = Pending(c)
      BY <2>1, <2>3 DEF Requests, Pending
    <3> QED BY <1>0, <2>1, <3>1 DEF RingOf, Cursors
  <2>8. Safe
    BY <1>1, <1>2, <2>1, <2>3 DEF i
  <2> QED BY <2>5, <2>6, <2>7, <2>8 DEF RingOf
<1>6. CASE SubmitPublish(c)
  <2> DEFINE i == NextIdx(c)
  <2>1. /\ at[c] = "publish" /\ at'[c] = "idle" /\ sent' = sent
        /\ slot'[c] = [slot[c] EXCEPT ![i] = Published(slot[c][i], sent[c][i])]
        /\ stop'[c] = stop[c] /\ ring_next'[c] = Wrap(ring_next[c] + 1)
        /\ ring_tail' = ring_tail /\ ring' = ring
    BY <1>0, <1>6 DEF SubmitPublish, RingTypeOK, ringDaemonVars
  <2>2. sent[c][i] # Nothing /\ slot[c][i].state = "EMPTY"
    BY <1>0, <1>1, <2>1 DEF RingOf, Attached, Tickets, Unpublished
  <2>3. /\ slot'[c][i].state = "REQ" /\ slot'[c][i].data = sent[c][i]
        /\ \A j \in Idx \ {i} : slot'[c][j] = slot[c][j]
    <3>1. /\ Published(slot[c][i], sent[c][i]).state = "REQ"
          /\ Published(slot[c][i], sent[c][i]).data = sent[c][i]
      <4>1. PICK s \in Slot, d \in SlotData : s = slot[c][i] /\ d = sent[c][i]
        BY <1>1, <1>3
      <4>2. Published(s, d).state = "REQ" /\ Published(s, d).data = d
        BY DEF Published, Slot
      <4> QED BY <4>1, <4>2
    <3>2. /\ slot'[c][i] = Published(slot[c][i], sent[c][i])
          /\ \A j \in Idx \ {i} : slot'[c][j] = slot[c][j]
      BY <1>0, <1>1, <2>1 DEF RingTypeOK
    <3> QED BY <3>1, <3>2
  <2>4. i \in Idx /\ i = ring_next[c] % NSLOTS
    BY <1>1 DEF NextIdx
  <2>5. Safe
    BY <1>1, <1>2, <2>1, <2>2, <2>3
  <2>6. \A j \in Idx : Unpublished(c, j) <=> j = i
    BY <2>1 DEF Unpublished
  <2> HIDE DEF i
  <2>7. Held(c)' /\ Attached(c)'
    BY <1>0, <2>1, <2>2, <2>3 DEF RingOf, Held, Attached
  <2>8. Tickets(c)'
    <3> SUFFICES ASSUME NEW j \in Idx
                 PROVE  /\ slot'[c][j].state = "EMPTY" <=>
                              sent'[c][j] = Nothing \/ Unpublished(c, j)'
                        /\ slot'[c][j].state = "REQ" =>
                             \/ slot'[c][j].data = sent'[c][j]
                             \/ /\ Answering(c, j)' /\ slot'[c][j].rc = 0
                                /\ slot'[c][j].data = Result(sent'[c][j])
                        /\ slot'[c][j].state = "RESP" /\ slot'[c][j].rc = 0 =>
                             slot'[c][j].data = Result(sent'[c][j])
      BY DEF Tickets
    <3>1. ~Unpublished(c, j)'
      BY <2>1 DEF Unpublished
    <3>2. CASE j = i
      BY <2>1, <2>2, <2>3, <3>1, <3>2
    <3>3. CASE j # i
      <4>1. Answering(c, j)' <=> Answering(c, j)
        BY <1>0, <2>1 DEF Answering, TailIdx
      <4> QED BY <1>0, <2>1, <2>3, <2>6, <3>1, <3>3, <4>1 DEF RingOf, Tickets
    <3> QED BY <3>2, <3>3
  <2>9. Cursors(c)'
    <3> SUFFICES ASSUME c \in ring
                 PROVE  /\ Pending(c)' <= NSLOTS
                        /\ Requests(c)' = Span(ring_tail'[c], Pending(c)')
      BY <2>1 DEF Cursors
    <3>1. Pending(c) <= NSLOTS /\ Requests(c) = Span(ring_tail[c], Pending(c))
      BY <1>0, <2>1 DEF RingOf, Cursors
    <3>2. Pending(c) # NSLOTS
      <4>1. i \notin Requests(c)
        BY <2>2 DEF Requests
      <4>2. ring_tail[c] \in Int
        BY <1>1 DEF Counter
      <4> QED BY <2>4, <3>1, <4>1, <4>2, FullSpan
    <3>3. Pending(c) \in Int /\ Pending(c) = (ring_next[c] - ring_tail[c]) % CTR
      BY <1>1, Distance, RingAssumption DEF Pending, Counter
    <3>4. (ring_next[c] - ring_tail[c]) % CTR < NSLOTS
      BY <3>1, <3>2, <3>3, RingAssumption
    <3>5. /\ Pending(c)' = Pending(c) + 1
          /\ Span(ring_tail[c], Pending(c) + 1) = Span(ring_tail[c], Pending(c)) \cup {i}
      <4>1. /\ (Wrap(ring_next[c] + 1) - ring_tail[c]) % CTR =
                  ((ring_next[c] - ring_tail[c]) % CTR) + 1
            /\ Span(ring_tail[c], ((ring_next[c] - ring_tail[c]) % CTR) + 1) =
                  Span(ring_tail[c], (ring_next[c] - ring_tail[c]) % CTR)
                    \cup {ring_next[c] % NSLOTS}
        BY <1>1, <3>4, SpanGrows
      <4> QED BY <2>1, <2>4, <3>3, <4>1 DEF Pending
    <3>6. Requests(c)' = Requests(c) \cup {i}
      BY <2>3, <2>4 DEF Requests
    <3> QED BY <2>1, <3>1, <3>3, <3>4, <3>5, <3>6, RingAssumption
  <2> QED BY <2>5, <2>7, <2>8, <2>9 DEF RingOf
<1>7. ASSUME NEW i \in Idx, CollectBegin(c, i) PROVE RingOf(c)' /\ Safe
  <2>1. /\ at[c] = "idle" /\ at'[c] = "spin" /\ slot' = slot /\ sent' = sent
        /\ stop' = stop /\ ring_next' = ring_next /\ ring' = ring
        /\ ring_tail' = ring_tail
    BY <1>0, <1>7 DEF CollectBegin, RingTypeOK, shm, ringDaemonVars
  <2>2. Held(c)' /\ Attached(c)' /\ Cursors(c)'
    BY <1>0, <2>1 DEF RingOf, Held, Attached, Cursors, Requests, Pending
  <2>3. Tickets(c)'
    BY <1>0, <2>1 DEF RingOf, Tickets, Unpublished, Answering, TailIdx, NextIdx
  <2>4. Safe
    BY <2>1
  <2> QED BY <2>2, <2>3, <2>4 DEF RingOf
<1>8. CASE CollectEnd(c)
  <2> DEFINE i == ticket[c]
  <2>1. /\ at[c] = "spin" /\ at'[c] = "idle" /\ slot[c][i].state = "RESP"
        /\ slot'[c] = [slot[c] EXCEPT ![i] = [slot[c][i] EXCEPT !.state = "EMPTY"]]
        /\ sent'[c] = [sent[c] EXCEPT ![i] = Nothing]
        /\ stop' = stop /\ ring_next' = ring_next /\ ring' = ring
        /\ ring_tail' = ring_tail
    <3>1. at[c] = "spin" /\ ~stop[c]
      BY <1>0, <1>8 DEF CollectEnd, RingOf, Attached
    <3> QED BY <1>0, <1>8, <3>1 DEF CollectEnd, RingTypeOK, ringDaemonVars
  <2>2. /\ slot'[c][i].state = "EMPTY" /\ sent'[c][i] = Nothing
        /\ \A j \in Idx \ {i} : slot'[c][j] = slot[c][j] /\ sent'[c][j] = sent[c][j]
    <3>1. [slot[c][i] EXCEPT !.state = "EMPTY"].state = "EMPTY"
      BY <1>3 DEF Slot
    <3>2. /\ slot'[c][i] = [slot[c][i] EXCEPT !.state = "EMPTY"]
          /\ sent'[c][i] = Nothing
          /\ \A j \in Idx \ {i} : slot'[c][j] = slot[c][j] /\ sent'[c][j] = sent[c][j]
      BY <1>0, <1>3, <2>1 DEF RingTypeOK
    <3> QED BY <3>1, <3>2
  <2>3. i \in Idx
    BY <1>3
  <2>4. Safe
    BY <1>1, <1>2, <2>1, <2>2
  <2> HIDE DEF i
  <2>5. Held(c)' /\ Attached(c)'
    BY <1>0, <2>1, <2>2 DEF RingOf, Held, Attached
  <2>6. Tickets(c)'
    <3> SUFFICES ASSUME NEW j \in Idx
                 PROVE  /\ slot'[c][j].state = "EMPTY" <=>
                              sent'[c][j] = Nothing \/ Unpublished(c, j)'
                        /\ slot'[c][j].state = "REQ" =>
                             \/ slot'[c][j].data = sent'[c][j]
                             \/ /\ Answering(c, j)' /\ slot'[c][j].rc = 0
                                /\ slot'[c][j].data = Result(sent'[c][j])
                        /\ slot'[c][j].state = "RESP" /\ slot'[c][j].rc = 0 =>
                             slot'[c][j].data = Result(sent'[c][j])
      BY DEF Tickets
    <3>1. ~Unpublished(c, j)' /\ ~Unpublished(c, j)
      BY <2>1 DEF Unpublished
    <3>2. CASE j = i
      BY <2>2, <3>1, <3>2
    <3>3. CASE j # i
      <4>1. Answering(c, j)' <=> Answering(c, j)
        BY <1>0, <2>1 DEF Answering, TailIdx
      <4> QED BY <1>0, <2>1, <2>2, <3>1, <3>3, <4>1 DEF RingOf, Tickets
    <3> QED BY <3>2, <3>3
  <2>7. Cursors(c)'
    <3>1. Requests(c)' = Requests(c) /\ Pending(c)' = Pending(c)
      BY <2>1, <2>2, <2>3 DEF Requests, Pending
    <3> QED BY <1>0, <2>1, <3>1 DEF RingOf, Cursors
  <2> QED BY <2>4, <2>5, <2>6, <2>7 DEF RingOf
<1>9. ASSUME NEW w \in RingWeights, RingFreeWeight(c, w) PROVE RingOf(c)' /\ Safe
  <2>1. UNCHANGED <<shm, ringClientVars, dpc, ring, ring_tail, visit, cur, budget>>
    BY <1>9 DEF RingFreeWeight
  <2>2. RingOf(c)'
    BY <1>0, <2>1, RingKept DEF shm, ringClientVars, Answering, TailIdx
  <2> QED BY <2>1, <2>2 DEF shm, ringClientVars
<1>10. CASE RingDisconnect(c) \/ ProducerDies(c)
  <2>1. slot' = slot /\ at'[c] = "detached" /\ ring_tail' = ring_tail
    BY <1>0, <1>10 DEF RingDisconnect, ProducerDies, Detach, shm, ringDaemonVars, RingTypeOK
  <2>2. RingOf(c)'
    BY <1>0, <2>1, DaemonGone
  <2> QED BY <2>1, <2>2
<1> QED
  BY <1>4, <1>5, <1>6, <1>7, <1>8, <1>9, <1>10 DEF RingClient

(* So the steps of a client keep every ring and the daemon's side.         *)
LEMMA RingClientNext ==
    ASSUME RingInv, NEW c \in Producers, RingClient(c)
    PROVE  RingInv'
<1>0. RingTypeOK /\ Serving /\ \A q \in Producers : RingOf(q)
  BY DEF RingInv
<1>1. RingTypeOK'
  BY <1>0, ClientTypes
<1>2. /\ UNCHANGED <<dpc, visit, cur, budget>> /\ ring \subseteq ring'
      /\ \A q \in Producers \ {c} :
           /\ slot'[q] = slot[q] /\ stop'[q] = stop[q] /\ at'[q] = at[q]
           /\ sent'[q] = sent[q] /\ ring_next'[q] = ring_next[q]
           /\ ring_tail'[q] = ring_tail[q] /\ (q \in ring' => q \in ring)
  BY <1>0, ClientLeaves
<1>3. /\ RingOf(c)'
      /\ cur = c /\ dpc = "respond" =>
           /\ ring_tail'[c] = ring_tail[c]
           /\ slot'[c][TailIdx(c)] = slot[c][TailIdx(c)]
           /\ at'[c] # "detached" => at[c] # "detached"
           /\ at'[c] # "detached" => sent'[c][TailIdx(c)] = sent[c][TailIdx(c)]
  BY OwnRing
<1>4. ASSUME NEW q \in Producers \ {c} PROVE RingOf(q)'
  <2>1. \A i \in Idx : Answering(q, i) => Answering(q, i)'
    BY <1>2 DEF Answering, TailIdx
  <2> QED BY <1>0, <1>2, <2>1, RingKept
<1>5. Serving'
  <2>1. cur \in Producers
    BY <1>0 DEF RingTypeOK
  <2>2. CASE cur = c
    BY <1>0, <1>2, <1>3, <2>2, ServingKept
  <2>3. CASE cur # c
    BY <1>0, <1>2, <2>1, <2>3, ServingKept
  <2> QED BY <2>2, <2>3
<1> QED BY <1>1, <1>3, <1>4, <1>5 DEF RingInv

-----------------------------------------------------------------------------
(* Steps of the daemon.                                                    *)

(* Its steps between two requests change no ring that is in use.           *)
LEMMA RingLoop ==
    ASSUME RingInv,
           \/ RingService \/ RingLeave \/ RingServiced \/ Exit
           \/ \E c \in Producers : RingDrop(c) \/ RingEnter(c)
    PROVE  RingInv'
<1>0. RingTypeOK /\ Serving /\ \A q \in Producers : RingOf(q)
  BY DEF RingInv
<1> USE DEF RingTypeOK, shm, ringClientVars
<1>1. CASE RingService \/ RingLeave \/ RingServiced
           \/ \E c \in Producers : RingEnter(c)
  <2>1. /\ dpc \in {"sockets", "rings", "drain"} /\ UNCHANGED <<shm, ringClientVars>>
        /\ ring' = ring /\ ring_tail' = ring_tail
    BY <1>1 DEF RingService, RingLeave, RingServiced, RingEnter
  <2>2. RingTypeOK'
    BY <1>0, <1>1, RingAssumption DEF RingService, RingLeave, RingServiced, RingEnter
  <2>3. Serving'
    BY <1>0, <1>1 DEF Serving, RingService, RingLeave, RingServiced, RingEnter
  <2>4. \A q \in Producers, i \in Idx : ~Answering(q, i)
    BY <2>1 DEF Answering
  <2>5. \A q \in Producers : RingOf(q)'
    BY <1>0, <2>1, <2>4, RingKept
  <2> QED BY <2>2, <2>3, <2>5 DEF RingInv
<1>2. CASE Exit
  <2>1. /\ dpc' = "gone" /\ UNCHANGED <<shm, ringClientVars, cur>>
        /\ ring' = {} /\ ring_tail' = ring_tail
    BY <1>2 DEF Exit
  <2>2. RingTypeOK'
    BY <1>0, <1>2 DEF Exit
  <2>3. Serving'
    BY <2>1 DEF Serving
  <2>4. \A q \in Producers, i \in Idx : Answering(q, i) => Answering(q, i)'
    BY <2>1 DEF Answering, TailIdx
  <2>5. \A q \in Producers : RingOf(q)'
    BY <1>0, <2>1, <2>4, RingKept
  <2> QED BY <2>2, <2>3, <2>5 DEF RingInv
<1>3. ASSUME NEW c \in Producers, RingDrop(c) PROVE RingInv'
  <2>1. /\ dpc = "sockets" /\ UNCHANGED <<ringClientVars, dpc, visit, cur, budget>>
        /\ slot'[c] = Zeroed /\ at[c] = "detached" /\ ring' = ring \ {c}
        /\ \A q \in Producers \ {c} : /\ slot'[q] = slot[q] /\ stop'[q] = stop[q]
                                       /\ ring_tail'[q] = ring_tail[q]
    BY <1>0, <1>3 DEF RingDrop
  <2>2. RingTypeOK'
    <3>1. Zeroed \in [Idx -> Slot] /\ 0 \in 0 .. (CTR - 1)
      BY SlotTypes, RingAssumption DEF Zeroed, Slot
    <3> QED BY <1>0, <1>3, <3>1 DEF RingDrop
  <2>3. Serving'
    BY <2>1 DEF Serving
  <2>4. RingOf(c)'
    BY <2>1 DEF RingOf, Held, Attached, Tickets, Cursors, Zeroed
  <2>5. \A q \in Producers \ {c}, i \in Idx : ~Answering(q, i)
    BY <2>1 DEF Answering
  <2>6. \A q \in Producers \ {c} : RingOf(q)'
    BY <1>0, <2>1, <2>5, RingKept
  <2> QED BY <2>2, <2>3, <2>4, <2>6 DEF RingInv
<1> QED BY <1>1, <1>2, <1>3

(* The request under the tail is run: its slot is written, not its flag.   *)
LEMMA RingRuns ==
    ASSUME RingInv, RingRun
    PROVE  RingInv'
<1>0. RingTypeOK /\ Serving /\ \A q \in Producers : RingOf(q)
  BY DEF RingInv
<1>1. PICK c \in Producers, i \in Idx : c = cur /\ i = TailIdx(cur)
  <2>1. cur \in Producers /\ ring_tail[cur] \in Int
    BY <1>0 DEF RingTypeOK
  <2> QED BY <2>1, SlotOf DEF TailIdx
<1>2. /\ cur' = cur /\ ring_tail' = ring_tail
      /\ dpc = "drain" /\ dpc' = "respond" /\ ring' = ring /\ visit' = visit
      /\ budget > 0 /\ budget' = budget /\ stop' = stop
      /\ UNCHANGED ringClientVars
      /\ slot[c][i].state = "REQ" /\ slot[c][i] \in Slot
  BY <1>0, <1>1 DEF RingRun, Ready, RingTypeOK
<1>3. PICK rc \in {0, -1} : slot' = [slot EXCEPT ![c][i] = Answer(slot[c][i], rc)]
  BY <1>1 DEF RingRun
<1>4. slot[c][i].data # Nothing
  BY <1>0, <1>2 DEF RingOf, Held
<1>5. PICK s \in Slot : s = slot[c][i]
  BY <1>2
<1>6. /\ Answer(s, rc) \in Slot
      /\ Answer(s, rc).state = "REQ" /\ Answer(s, rc).rc = rc
      /\ Answer(s, rc).data # Nothing
      /\ rc = 0 => Answer(s, rc).data = Result(s.data)
      /\ rc # 0 => Answer(s, rc).data = s.data
  BY <1>2, <1>4, <1>5, AnswerStep
<1>7. /\ slot'[c][i] = Answer(s, rc)
      /\ \A j \in Idx \ {i} : slot'[c][j] = slot[c][j]
      /\ \A q \in Producers \ {c} : slot'[q] = slot[q]
      /\ slot' \in [Producers -> [Idx -> Slot]]
  BY <1>0, <1>2, <1>3, <1>5, <1>6 DEF RingTypeOK
<1>8. RingTypeOK'
  BY <1>0, <1>2, <1>7 DEF RingTypeOK, ringClientVars, RingRun
<1>9. \A q \in Producers, j \in Idx : ~Answering(q, j)
  BY <1>2 DEF Answering
<1>20. at[c] # "detached" => s.data = sent[c][i]
  BY <1>0, <1>2, <1>5, <1>9 DEF RingOf, Tickets
<1>21. Serving'
  <2>1. TailIdx(cur)' = i /\ cur' = c
    BY <1>1, <1>2 DEF TailIdx
  <2>2. c \in ring /\ visit \subseteq ring
    BY <1>0, <1>1, <1>2 DEF Serving
  <2> QED BY <1>2, <1>6, <1>7, <1>20, <2>1, <2>2 DEF Serving, ringClientVars
<1>22. ASSUME NEW q \in Producers \ {c} PROVE RingOf(q)'
  BY <1>0, <1>2, <1>7, <1>9, RingKept DEF ringClientVars
<1>23. RingOf(c)'
  <2>1. Held(c)' /\ Attached(c)'
    BY <1>0, <1>2, <1>6, <1>7 DEF RingOf, Held, Attached, NextIdx, ringClientVars
  <2>2. Tickets(c)'
    <3> SUFFICES ASSUME NEW j \in Idx, at[c] # "detached"
                 PROVE  /\ slot'[c][j].state = "EMPTY" <=>
                              sent'[c][j] = Nothing \/ Unpublished(c, j)'
                        /\ slot'[c][j].state = "REQ" =>
                             \/ slot'[c][j].data = sent'[c][j]
                             \/ /\ Answering(c, j)' /\ slot'[c][j].rc = 0
                                /\ slot'[c][j].data = Result(sent'[c][j])
                        /\ slot'[c][j].state = "RESP" /\ slot'[c][j].rc = 0 =>
                             slot'[c][j].data = Result(sent'[c][j])
      BY <1>2 DEF Tickets, ringClientVars
    <3>1. (Unpublished(c, j)' <=> Unpublished(c, j)) /\ sent' = sent
      BY <1>2 DEF Unpublished, NextIdx, ringClientVars
    <3>2. CASE j = i
      <4>1. Answering(c, i)'
        BY <1>1, <1>2 DEF Answering, TailIdx
      <4>2. slot[c][i].state # "EMPTY"
        BY <1>2
      <4>3. ~(sent[c][i] = Nothing \/ Unpublished(c, i))
        BY <1>0, <1>2, <4>2 DEF RingOf, Tickets
      <4> QED BY <1>6, <1>7, <1>20, <3>1, <3>2, <4>1, <4>3
    <3>3. CASE j # i
      BY <1>0, <1>2, <1>7, <1>9, <3>1, <3>3 DEF RingOf, Tickets
    <3> QED BY <3>2, <3>3
  <2>3. Cursors(c)'
    <3>1. Requests(c)' = Requests(c)
      BY <1>2, <1>6, <1>7 DEF Requests
    <3> QED BY <1>0, <1>2, <3>1 DEF RingOf, Cursors, Pending, ringClientVars
  <2> QED BY <2>1, <2>2, <2>3 DEF RingOf
<1> QED BY <1>8, <1>21, <1>22, <1>23 DEF RingInv

(* The flag is raised and the cursor moves on.                             *)
LEMMA RingResponds ==
    ASSUME RingInv, RingRespond
    PROVE  RingInv'
<1>0. RingTypeOK /\ Serving /\ \A q \in Producers : RingOf(q)
  BY DEF RingInv
<1>1. PICK c \in Producers, i \in Idx : c = cur /\ i = TailIdx(cur)
  <2>1. cur \in Producers /\ ring_tail[cur] \in Int
    BY <1>0 DEF RingTypeOK
  <2> QED BY <2>1, SlotOf DEF TailIdx
<1>2. /\ cur' = cur /\ dpc = "respond" /\ dpc' = "drain" /\ ring' = ring
      /\ visit' = visit /\ budget' = budget - 1 /\ stop' = stop
      /\ wt' = wt /\ UNCHANGED ringClientVars
      /\ ring_next[c] \in Counter /\ ring_tail[c] \in Counter
  BY <1>0 DEF RingRespond, Spend, RingTypeOK, Counter
<1>3. PICK s \in Slot : s = slot[c][i]
  BY <1>0 DEF RingTypeOK
<1>4. /\ budget > 0 /\ s.state = "REQ" /\ c \in ring /\ visit \subseteq ring
      /\ at[c] # "detached" /\ s.rc = 0 => s.data = Result(sent[c][i])
  BY <1>0, <1>1, <1>2, <1>3 DEF Serving
<1> DEFINE t == [s EXCEPT !.state = "RESP"]
<1>5. t \in Slot /\ t.state = "RESP" /\ t.data = s.data /\ t.rc = s.rc
  BY SlotSteps, SlotTypes
<1>6. slot' = [slot EXCEPT ![c] = [slot[c] EXCEPT ![i] = t]]
  BY <1>0, <1>1, <1>3 DEF RingRespond, RingTypeOK
<1> HIDE DEF t
<1>7. /\ slot'[c][i] = t
      /\ \A j \in Idx \ {i} : slot'[c][j] = slot[c][j]
      /\ \A q \in Producers \ {c} : slot'[q] = slot[q]
      /\ slot' \in [Producers -> [Idx -> Slot]]
  BY <1>0, <1>5, <1>6 DEF RingTypeOK
<1>8. /\ ring_tail'[c] = Wrap(ring_tail[c] + 1)
      /\ \A q \in Producers \ {c} : ring_tail'[q] = ring_tail[q]
      /\ ring_tail' \in [Producers -> Counter]
  <2>1. ring_tail' = [ring_tail EXCEPT ![c] = Wrap(ring_tail[c] + 1)]
    BY <1>1 DEF RingRespond, Advance
  <2>2. Wrap(ring_tail[c] + 1) \in Counter
    BY <1>2, WrapNext
  <2> QED BY <1>0, <2>1, <2>2 DEF RingTypeOK, Counter
<1>9. RingTypeOK'
  <2>1. budget' \in 0 .. NSLOTS
    BY <1>0, <1>2, <1>4, RingAssumption DEF RingTypeOK
  <2> QED BY <1>0, <1>2, <1>7, <1>8, <2>1 DEF RingTypeOK, ringClientVars, Counter
<1>10. Serving'
  BY <1>1, <1>2, <1>4 DEF Serving
<1>11. ASSUME NEW q \in Producers \ {c} PROVE RingOf(q)'
  <2>1. \A j \in Idx : ~Answering(q, j)
    BY <1>1 DEF Answering
  <2> QED BY <1>0, <1>2, <1>7, <1>8, <2>1, RingKept DEF ringClientVars
<1>12. RingOf(c)'
  <2>1. Held(c)' /\ Attached(c)'
    <3>1. s.data # Nothing
      BY <1>0, <1>3, <1>4 DEF RingOf, Held
    <3> QED BY <1>0, <1>2, <1>5, <1>7, <3>1
            DEF RingOf, Held, Attached, NextIdx, ringClientVars
  <2>2. Tickets(c)'
    <3> SUFFICES ASSUME NEW j \in Idx, at[c] # "detached"
                 PROVE  /\ slot'[c][j].state = "EMPTY" <=>
                              sent'[c][j] = Nothing \/ Unpublished(c, j)'
                        /\ slot'[c][j].state = "REQ" =>
                             \/ slot'[c][j].data = sent'[c][j]
                             \/ /\ Answering(c, j)' /\ slot'[c][j].rc = 0
                                /\ slot'[c][j].data = Result(sent'[c][j])
                        /\ slot'[c][j].state = "RESP" /\ slot'[c][j].rc = 0 =>
                             slot'[c][j].data = Result(sent'[c][j])
      BY <1>2 DEF Tickets, ringClientVars
    <3>1. (Unpublished(c, j)' <=> Unpublished(c, j)) /\ sent' = sent
      BY <1>2 DEF Unpublished, NextIdx, ringClientVars
    <3>2. CASE j = i
      <4>1. s.state # "EMPTY"
        BY <1>4
      <4>2. ~(sent[c][i] = Nothing \/ Unpublished(c, i))
        BY <1>0, <1>3, <4>1 DEF RingOf, Tickets
      <4> QED BY <1>4, <1>5, <1>7, <3>1, <3>2, <4>2
    <3>3. CASE j # i
      <4>1. ~Answering(c, j)
        BY <1>1, <3>3 DEF Answering
      <4> QED BY <1>0, <1>7, <3>1, <3>3, <4>1 DEF RingOf, Tickets
    <3> QED BY <3>2, <3>3
  <2>3. Cursors(c)'
    <3> SUFFICES ASSUME at[c] # "detached"
                 PROVE  /\ Pending(c)' <= NSLOTS
                        /\ Requests(c)' = Span(ring_tail'[c], Pending(c)')
      BY <1>2 DEF Cursors, ringClientVars
    <3>1. Pending(c) <= NSLOTS /\ Requests(c) = Span(ring_tail[c], Pending(c))
      BY <1>0, <1>4 DEF RingOf, Cursors
    <3>2. Pending(c) \in Int /\ Pending(c) = (ring_next[c] - ring_tail[c]) % CTR
      BY <1>2, Distance, RingAssumption DEF Pending, Counter
    <3>3. Pending(c) >= 1
      <4>1. i \in Requests(c)
        BY <1>3, <1>4 DEF Requests
      <4>2. PICK k \in 0 .. (Pending(c) - 1) : i = (ring_tail[c] + k) % NSLOTS
        BY <3>1, <4>1 DEF Span
      <4> QED BY <3>2, <4>2
    <3>4. (ring_next[c] - ring_tail[c]) % CTR \in 1 .. NSLOTS
      BY <3>1, <3>2, <3>3, RingAssumption
    <3>5. i = ring_tail[c] % NSLOTS
      BY <1>1 DEF TailIdx
    <3>6. /\ Pending(c)' = Pending(c) - 1
          /\ Span(ring_tail'[c], Pending(c) - 1) = Span(ring_tail[c], Pending(c)) \ {i}
      <4>1. /\ (ring_next[c] - Wrap(ring_tail[c] + 1)) % CTR =
                  ((ring_next[c] - ring_tail[c]) % CTR) - 1
            /\ Span(Wrap(ring_tail[c] + 1), ((ring_next[c] - ring_tail[c]) % CTR) - 1) =
                  Span(ring_tail[c], (ring_next[c] - ring_tail[c]) % CTR)
                    \ {ring_tail[c] % NSLOTS}
        BY <1>2, <3>4, SpanShrinks
      <4> QED BY <1>2, <1>8, <3>2, <3>5, <4>1 DEF Pending, ringClientVars
    <3>7. Requests(c)' = Requests(c) \ {i}
      BY <1>5, <1>7 DEF Requests
    <3> QED BY <3>1, <3>2, <3>6, <3>7, RingAssumption
  <2> QED BY <2>1, <2>2, <2>3 DEF RingOf
<1> QED BY <1>9, <1>10, <1>11, <1>12 DEF RingInv

-----------------------------------------------------------------------------
(* One step per kind of step.                                              *)
LEMMA RingInvNext == RingInv /\ [RingNext]_ringVars => RingInv'
<1> SUFFICES ASSUME RingInv, [RingNext]_ringVars PROVE RingInv'
  OBVIOUS
<1>1. ASSUME NEW c \in Producers, RingClient(c) PROVE RingInv'
  BY <1>1, RingClientNext
<1>2. CASE RingDaemon \/ Exit
  BY <1>2, RingLoop, RingRuns, RingResponds DEF RingDaemon
<1>3. CASE UNCHANGED ringVars
  <2>1. UNCHANGED <<shm, ringClientVars, dpc, ring, ring_tail, wt, visit, cur, budget>>
    BY <1>3 DEF ringVars, ringDaemonVars
  <2>2. RingTypeOK' /\ Serving'
    BY <2>1 DEF RingInv, RingTypeOK, Serving, TailIdx, shm, ringClientVars
  <2>3. \A c \in Producers : RingOf(c)'
    BY <2>1, RingKept DEF RingInv, Answering, TailIdx, shm, ringClientVars
  <2> QED BY <2>2, <2>3 DEF RingInv
<1> QED BY <1>1, <1>2, <1>3 DEF RingNext

(* orkd_ring_submit, ring_service and orkd_ring_collect: for any number of *)
(* clients and slots, a response is the result of the request its ticket   *)
(* stands for, and the two free-running cursors agree on what is left to   *)
(* serve across every overflow, every disconnect and the daemon's exit.    *)
THEOREM RingIsExact == RingSpec => []RingExact
BY RingInvInit, RingInvNext, RingInvExact, PTL DEF RingSpec
=============================================================================
