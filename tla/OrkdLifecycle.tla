---------------------------- MODULE OrkdLifecycle ----------------------------
(***************************************************************************)
(* How orkd comes up and goes away: orkd_connect auto-spawns a daemon on   *)
(* the first miss, the daemons race for an exclusive flock on the pidfile, *)
(* the winner replaces the socket and owns the NPU, and it leaves by the   *)
(* idle reap or by dying (start and end of main() in src/orkd.c;           *)
(* orkd_spawn, try_connect and orkd_connect in src/orkd_client.c).         *)
(*                                                                         *)
(* A path leads to an inode or to nothing; a lock belongs to the inode, so *)
(* two processes that opened the same path at different times may hold     *)
(* locks on different files.  Every system call is a step of its own.      *)
(*                                                                         *)
(* SIGTERM is a death here: ork_npu_init installs ork_sig_teardown over    *)
(* main()'s own handler, and that frees the buffers and re-raises.  Time   *)
(* is left out: the ORKD_CONNECT_TRIES attempts are taken to last longer   *)
(* than the start of a daemon ("~= 3s to let an auto-spawned daemon bind").*)
(***************************************************************************)
EXTENDS Integers, FiniteSets

CONSTANTS
    Daemons,     \* daemon processes that can exist at one time
    Procs,       \* client processes
    Inodes,      \* files the pidfile path may lead to, one after another
    None,        \* no inode, no process
    Stale        \* a socket file whose process is gone

ASSUME LifecycleAssumption ==
    None \notin Daemons \cup Inodes /\ Stale \notin Daemons \cup {None}

VARIABLES
    pidpath, sockpath,   \* file system: what the two paths lead to
    lock,                \* kernel: inode -> process that holds the flock
    pc, pidfd,           \* daemons: position in main(), pidfile opened
    phase, spawned, conn,   \* clients: phase, spawned a daemon yet, peer
    ended                \* history: the ways daemons have ended so far

files   == <<pidpath, sockpath, lock>>
daemons == <<pc, pidfd>>
clients == <<phase, spawned, conn>>
lifeVars == <<files, daemons, clients, ended>>

LifeInit ==
    /\ pidpath = None
    /\ sockpath = None
    /\ lock = [n \in Inodes |-> None]
    /\ pc = [d \in Daemons |-> "none"]
    /\ pidfd = [d \in Daemons |-> None]
    /\ phase = [c \in Procs |-> "off"]
    /\ spawned = [c \in Procs |-> FALSE]
    /\ conn = [c \in Procs |-> None]
    /\ ended = {}

Listening(d) == pc[d] \in {"listen", "serve", "reap"}
Goto(d, l) == pc' = [pc EXCEPT ![d] = l]

-----------------------------------------------------------------------------
(* Clients                                                                 *)

ConnectBegin(c) ==
    /\ phase[c] \in {"off", "gaveup"}
    /\ phase' = [phase EXCEPT ![c] = "trying"]
    /\ spawned' = [spawned EXCEPT ![c] = FALSE]
    /\ UNCHANGED <<files, daemons, conn>>

(* connect() succeeds on a listening socket, accepted or not.              *)
TryHit(c) ==
    /\ phase[c] = "trying"
    /\ sockpath \in Daemons /\ Listening(sockpath)
    /\ phase' = [phase EXCEPT ![c] = "waiting"]
    /\ conn' = [conn EXCEPT ![c] = sockpath]
    /\ UNCHANGED <<files, daemons, spawned>>

(* The first miss brings a daemon up; later ones only wait and try again.  *)
TryMiss(c, d) ==
    /\ phase[c] = "trying"
    /\ ~spawned[c]
    /\ sockpath \in Daemons => ~Listening(sockpath)
    /\ pc[d] = "none"
    /\ Goto(d, "start")
    /\ spawned' = [spawned EXCEPT ![c] = TRUE]
    /\ UNCHANGED <<files, pidfd, phase, conn>>

Starting == {d \in Daemons : pc[d] \in {"start", "flock", "unlink", "bind"}}

(* The attempts run out: no daemon is coming up and none listens.          *)
GiveUp(c) ==
    /\ phase[c] = "trying" /\ spawned[c]
    /\ Starting = {}
    /\ sockpath \in Daemons => ~Listening(sockpath)
    /\ phase' = [phase EXCEPT ![c] = "gaveup"]
    /\ UNCHANGED <<files, daemons, spawned, conn>>

Leave(c) ==
    /\ phase[c] = "connected"
    /\ phase' = [phase EXCEPT ![c] = "off"]
    /\ conn' = [conn EXCEPT ![c] = None]
    /\ UNCHANGED <<files, daemons, spawned>>

-----------------------------------------------------------------------------
(* Daemons                                                                 *)

(* Whoever is connected to d, or waits for its WELCOME, reads EOF.         *)
HangUp(d) ==
    /\ phase' = [c \in Procs |-> IF conn[c] = d THEN "off" ELSE phase[c]]
    /\ conn' = [c \in Procs |-> IF conn[c] = d THEN None ELSE conn[c]]
    /\ UNCHANGED spawned

(* The process ends: its locks and descriptors go with it.                 *)
Gone(d) ==
    /\ Goto(d, "none")
    /\ pidfd' = [pidfd EXCEPT ![d] = None]
    /\ lock' = [n \in Inodes |-> IF lock[n] = d THEN None ELSE lock[n]]

OpenPidfile(d) ==
    /\ pc[d] = "start"
    /\ \E n \in Inodes :
         /\ IF pidpath # None THEN n = pidpath
            ELSE \A e \in Daemons : pidfd[e] # n
         /\ pidpath' = n
         /\ pidfd' = [pidfd EXCEPT ![d] = n]
    /\ Goto(d, "flock")
    /\ UNCHANGED <<sockpath, lock, clients>>

(* Mutant: the result of flock() is not looked at.                         *)
LockFree_Ignored(d) == TRUE

LockFree(d) == lock[pidfd[d]] = None

FlockWins(d) ==
    /\ pc[d] = "flock" /\ LockFree(d)
    /\ lock' = [lock EXCEPT ![pidfd[d]] = d]
    /\ Goto(d, "unlink")
    /\ UNCHANGED <<pidpath, sockpath, pidfd, clients>>

(* EWOULDBLOCK: "another orkd already owns the NPU".                       *)
FlockLoses(d) ==
    /\ pc[d] = "flock" /\ ~LockFree(d)
    /\ Gone(d)
    /\ UNCHANGED <<pidpath, sockpath, clients>>

ClearSocket(d) ==
    /\ pc[d] = "unlink"
    /\ sockpath' = None
    /\ Goto(d, "bind")
    /\ UNCHANGED <<pidpath, lock, pidfd, clients>>

Bind(d) ==
    /\ pc[d] = "bind" /\ sockpath = None
    /\ sockpath' = d
    /\ Goto(d, "listen")
    /\ UNCHANGED <<pidpath, lock, pidfd, clients>>

(* EADDRINUSE: main() returns 1.                                           *)
BindFails(d) ==
    /\ pc[d] = "bind" /\ sockpath # None
    /\ Gone(d)
    /\ UNCHANGED <<pidpath, sockpath, clients>>

(* ork_npu_init and the warm-up, with the socket already listening.        *)
NpuInit(d) ==
    /\ pc[d] = "listen"
    /\ Goto(d, "serve")
    /\ UNCHANGED <<files, pidfd, clients>>

(* accept, HELLO, WELCOME.                                                 *)
Welcome(d, c) ==
    /\ pc[d] = "serve"
    /\ phase[c] = "waiting" /\ conn[c] = d
    /\ phase' = [phase EXCEPT ![c] = "connected"]
    /\ UNCHANGED <<files, daemons, spawned, conn>>

(* Mutant: the reap does not ask for subscribers.                          *)
Idle_Always(d) == TRUE
Idle(d) == \A c \in Procs : conn[c] # d /\ ~(phase[c] = "trying" /\ spawned[c])

(* The idle timer runs out in poll() with nobody connected, and nobody in  *)
(* the retry loop, whose next attempt is a back-off of 15 ms away at most. *)
(* A client may still connect while ork_npu_free runs.                     *)
Reap(d) ==
    /\ pc[d] = "serve" /\ Idle(d)
    /\ Goto(d, "reap")
    /\ ended' = ended \cup {"reaped"}
    /\ UNCHANGED <<files, pidfd, clients>>

(* close(lfd); unlink(sockpath)                                            *)
CloseSocket(d) ==
    /\ pc[d] = "reap"
    /\ sockpath' = None
    /\ Goto(d, "unlock")
    /\ HangUp(d)
    /\ UNCHANGED <<pidpath, lock, pidfd>>

Unlock(d) ==
    /\ pc[d] = "unlock"
    /\ lock' = [n \in Inodes |-> IF lock[n] = d THEN None ELSE lock[n]]
    /\ Goto(d, "rmpid")
    /\ UNCHANGED <<pidpath, sockpath, pidfd, clients>>

UnlinkPidfile(d) ==
    /\ pc[d] = "rmpid"
    /\ pidpath' = None
    /\ Gone(d)
    /\ UNCHANGED <<sockpath, clients>>

(* SIGKILL, SIGTERM: both files stay behind.                               *)
Killed(d) ==
    /\ pc[d] # "none"
    /\ Gone(d)
    /\ sockpath' = IF sockpath = d THEN Stale ELSE sockpath
    /\ HangUp(d)
    /\ ended' = ended \cup {"killed"}
    /\ UNCHANGED pidpath

-----------------------------------------------------------------------------
Connecting(c) ==
    /\ \/ ConnectBegin(c) \/ TryHit(c) \/ GiveUp(c) \/ Leave(c)
       \/ \E d \in Daemons : TryMiss(c, d)
    /\ UNCHANGED ended

Process(d) ==
    /\ \/ OpenPidfile(d) \/ FlockWins(d) \/ FlockLoses(d)
       \/ ClearSocket(d) \/ Bind(d) \/ BindFails(d) \/ NpuInit(d)
       \/ \E c \in Procs : Welcome(d, c)
       \/ CloseSocket(d) \/ Unlock(d) \/ UnlinkPidfile(d)
    /\ UNCHANGED ended

LifeNext == \/ \E c \in Procs : Connecting(c)
            \/ \E d \in Daemons : Process(d) \/ Reap(d) \/ Killed(d)

LifeSpec == LifeInit /\ [][LifeNext]_lifeVars

-----------------------------------------------------------------------------
(* Paths, locks, processes and connections are what the system calls of    *)
(* main() and orkd_connect can make of them; a client has a peer exactly   *)
(* while it waits or is connected.                                         *)
LifeTypeOK ==
    /\ pidpath \in Inodes \cup {None}
    /\ sockpath \in Daemons \cup {None, Stale}
    /\ lock \in [Inodes -> Daemons \cup {None}]
    /\ pc \in [Daemons -> {"none", "start", "flock", "unlink", "bind", "listen",
                           "serve", "reap", "unlock", "rmpid"}]
    /\ pidfd \in [Daemons -> Inodes \cup {None}]
    /\ phase \in [Procs -> {"off", "trying", "gaveup", "waiting", "connected"}]
    /\ spawned \in [Procs -> BOOLEAN]
    /\ conn \in [Procs -> Daemons \cup {None}]
    /\ ended \subseteq {"reaped", "killed"}
    /\ \A c \in Procs : conn[c] # None <=> phase[c] \in {"waiting", "connected"}

OwnsNpu(d) == pc[d] \in {"serve", "reap"}

(* "Single-instance: hold an exclusive flock on the pidfile": at most one  *)
(* daemon owns the NPU.                                                    *)
SingleOwner ==
    \A d, e \in Daemons : OwnsNpu(d) /\ OwnsNpu(e) => d = e

(* Daemons that are killed at any system call and leave their files behind *)
(* (and none yet on the shutdown path) never break this, and the path      *)
(* clients connect to leads to the one daemon that owns the NPU.  (With    *)
(* the type invariant.)                                                    *)
CrashSafe ==
    /\ LifeTypeOK
    /\ "reaped" \notin ended =>
      /\ SingleOwner
      /\ \A d \in Daemons : OwnsNpu(d) => sockpath = d

(* The idle reap never takes the daemon away from a connected subscriber.  *)
SubscribersServed ==
    \A c \in Procs : phase[c] = "connected" => pc[conn[c]] = "serve"

(* orkd_connect succeeds when no daemon goes away meanwhile, however many  *)
(* clients spawn one at once.                                              *)
Connects ==
    \A c \in Procs :
      phase[c] = "trying" /\ ended = {} ~> phase[c] = "connected" \/ ended # {}
==============================================================================
