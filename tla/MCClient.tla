------------------------------ MODULE MCClient ------------------------------
(* What a client of orkd waits for: a daemon to talk to, and the answer to *)
(* a request in its ring.  The two share no state; each is looked at on    *)
(* its own.                                                                *)
EXTENDS OrkdLifecycle, OrkdRing

VARIABLE which

allVars == <<lifeVars, ringVars, which>>

MCInit == which \in {"life", "ring"} /\ LifeInit /\ RingInit

InLife(Step) == which = "life" /\ Step /\ UNCHANGED <<ringVars, which>>
InRing(Step) == which = "ring" /\ Step /\ UNCHANGED <<lifeVars, which>>

(* A ring whose daemon is gone may rest; nothing else ever may.            *)
Rest == InRing(dpc = "gone" /\ UNCHANGED ringVars)

MCNext == InLife(LifeNext) \/ InRing(RingNext) \/ Rest

(* A daemon's main() keeps going and accepts in the order of the backlog;  *)
(* a client in orkd_connect keeps trying.                                  *)
LifeFairness ==
    /\ \A d \in Daemons : WF_allVars(InLife(Process(d)))
    /\ \A d \in Daemons, c \in Procs : WF_allVars(InLife(Welcome(d, c) /\ UNCHANGED ended))
    /\ \A c \in Procs : WF_allVars(InLife(
          (TryHit(c) \/ \E d \in Daemons : TryMiss(c, d)) /\ UNCHANGED ended))

(* The daemon's loop does not stop, and every pass over the sockets, which *)
(* is over the clients poll() reported, ends in a pass over the rings; a   *)
(* client in a spin looks again.                                           *)
RingFairness ==
    /\ WF_allVars(InRing(RingDaemon)) /\ WF_allVars(InRing(RingService))
    /\ \A c \in Producers : WF_allVars(InRing(RingEnter(c))) /\ WF_allVars(InRing(CollectEnd(c)))

MCSpec == MCInit /\ [][MCNext]_allVars /\ LifeFairness /\ RingFairness

(* Nobody who waits waits for ever: orkd_connect reaches a daemon unless   *)
(* one goes away meanwhile, orkd_ring_collect gets its answer, and         *)
(* ring_service gives the sockets their turn.                              *)
ClientsServed == Connects /\ CollectReturns /\ SocketsServed
=============================================================================
