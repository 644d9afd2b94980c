------------------------------ MODULE OrkdRing ------------------------------
(***************************************************************************)
(* The A-ring: a shared-memory request/response ring between one client    *)
(* process and the daemon, bypassing the socket for the hot submit path    *)
(* (src/orkd_ring.h; client half in src/orkd_client.c, daemon half         *)
(* ring_service in src/orkd.c and orkd_handle_ring_setup).                 *)
(*                                                                         *)
(* Each client is the only producer of its ring and the daemon the only    *)
(* consumer.  A slot's state word is the handshake; its data is written in *)
(* a step of its own, before the release-store that publishes it.  The     *)
(* cursors are free-running counters of a fixed width, taken modulo the    *)
(* number of slots.  The daemon visits the rings between two rounds of     *)
(* socket servicing, at most NSLOTS requests of each per round.            *)
(***************************************************************************)
EXTENDS Integers, FiniteSets

CONSTANTS
    Producers,    \* client processes
    RingWeights,  \* handles of resident weights a client may name
    Inputs,       \* abstract activations A
    NSLOTS,       \* ORKD_RING_SLOTS
    CTR           \* 2^32 in the code: the range of ring_next and ring_tail

ASSUME RingAssumption ==
    /\ NSLOTS \in Nat \ {0}
    /\ CTR \in Nat \ {0}
    /\ CTR % NSLOTS = 0 /\ NSLOTS < CTR

Idx == 0 .. (NSLOTS - 1)

(* What a slot's data area holds: A on request, C on response.             *)
Nothing == [kind |-> "none"]
A(w, v) == [kind |-> "A", w |-> w, v |-> v]
C(w, v) == [kind |-> "C", w |-> w, v |-> v]
SlotData == {Nothing} \cup [kind : {"A", "C"}, w : RingWeights, v : Inputs]

Slot == [state : {"EMPTY", "REQ", "RESP"}, data : SlotData, rc : {0, -1}]
Zeroed == [i \in Idx |-> [state |-> "EMPTY", data |-> Nothing, rc |-> 0]]

VARIABLES
    \* shared memory of each ring
    slot, stop,
    \* client: what it is doing, the ticket it collects, its cursor, and the
    \* request it filled each outstanding slot with
    at, ticket, ring_next, sent,
    \* daemon: loop position, rings mapped, cursors, resident weights, the
    \* rings still to visit in this round, the one being drained and the
    \* requests it may still serve of it
    dpc, ring, ring_tail, wt, visit, cur, budget

shm        == <<slot, stop>>
ringClientVars == <<at, ticket, ring_next, sent>>
ringDaemonVars == <<dpc, ring, ring_tail, wt, visit, cur, budget>>
ringVars == <<shm, ringClientVars, ringDaemonVars>>

RingInit ==
    /\ slot = [c \in Producers |-> Zeroed]
    /\ stop = [c \in Producers |-> FALSE]
    /\ at = [c \in Producers |-> "detached"]
    /\ ticket = [c \in Producers |-> 0]
    /\ ring_next = [c \in Producers |-> 0]
    /\ sent = [c \in Producers |-> [i \in Idx |-> Nothing]]
    /\ dpc = "sockets"
    /\ ring = {}
    /\ ring_tail = [c \in Producers |-> 0]
    /\ wt = [c \in Producers |-> RingWeights]
    /\ visit = {}
    /\ cur \in Producers
    /\ budget = 0

-----------------------------------------------------------------------------
(* Client                                                                  *)

(* orkd_handle_ring_setup, while servicing sockets: the region is mapped.  *)
Mapped(c) ==
    /\ c \notin ring
    /\ ring' = ring \cup {c}
    /\ ring_tail' = [ring_tail EXCEPT ![c] = 0]

(* orkd_ring_setup on a new connection: the client zeroes a fresh region,  *)
(* the daemon maps it, both cursors are 0.                                 *)
SetUpRing(c) ==
    /\ at[c] = "detached"
    /\ dpc = "sockets"
    /\ Mapped(c)
    /\ slot' = [slot EXCEPT ![c] = Zeroed]
    /\ stop' = [stop EXCEPT ![c] = FALSE]
    /\ at' = [at EXCEPT ![c] = "idle"]
    /\ ring_next' = [ring_next EXCEPT ![c] = 0]
    /\ sent' = [sent EXCEPT ![c] = [i \in Idx |-> Nothing]]
    /\ wt' = [wt EXCEPT ![c] = RingWeights]
    /\ UNCHANGED <<ticket, dpc, visit, cur, budget>>

Wrap(n) == n % CTR
NextIdx(c) == ring_next[c] % NSLOTS

(* What a submit puts into the slot, and the flag that publishes it.       *)
Filled(s, d) == [s EXCEPT !.data = d, !.rc = 0]
Published(s, d) == [s EXCEPT !.state = "REQ", !.data = d]

(* orkd_ring_submit up to the memcpy: a slot that is not EMPTY means the   *)
(* ring is full and the call returns -2.                                   *)
SubmitFill(c, w, v) ==
    LET i == NextIdx(c) IN
    /\ at[c] = "idle"
    /\ slot[c][i].state = "EMPTY"
    /\ slot' = [slot EXCEPT ![c][i] = Filled(@, A(w, v))]
    /\ sent' = [sent EXCEPT ![c][i] = A(w, v)]
    /\ at' = [at EXCEPT ![c] = "publish"]
    /\ UNCHANGED <<stop, ticket, ring_next, ringDaemonVars>>

(* The release-store of ORKD_SLOT_REQ; the ticket is the slot's index.     *)
SubmitPublish(c) ==
    LET i == NextIdx(c) IN
    /\ at[c] = "publish"
    /\ slot' = [slot EXCEPT ![c][i] = Published(@, sent[c][i])]
    /\ ring_next' = [ring_next EXCEPT ![c] = Wrap(@ + 1)]
    /\ at' = [at EXCEPT ![c] = "idle"]
    /\ UNCHANGED <<stop, ticket, sent, ringDaemonVars>>

(* orkd_ring_collect of an outstanding ticket, in any order.               *)
CollectBegin(c, i) ==
    /\ at[c] = "idle"
    /\ sent[c][i] # Nothing
    /\ at' = [at EXCEPT ![c] = "spin"]
    /\ ticket' = [ticket EXCEPT ![c] = i]
    /\ UNCHANGED <<shm, ring_next, sent, ringDaemonVars>>

(* The spin ends: on a response the slot is emptied, on stop it is not.    *)
CollectEnd(c) ==
    LET i == ticket[c] IN
    /\ at[c] = "spin"
    /\ slot[c][i].state = "RESP" \/ stop[c]
    /\ slot' = IF slot[c][i].state = "RESP"
               THEN [slot EXCEPT ![c][i].state = "EMPTY"] ELSE slot
    /\ sent' = [sent EXCEPT ![c][i] = Nothing]
    /\ at' = [at EXCEPT ![c] = "idle"]
    /\ ticket' = [ticket EXCEPT ![c] = 0]
    /\ UNCHANGED <<stop, ring_next, ringDaemonVars>>

(* A FREE over the socket while ring requests are in flight.               *)
RingFreeWeight(c, w) ==
    /\ at[c] = "idle" /\ c \in ring /\ w \in wt[c]
    /\ dpc = "sockets"
    /\ wt' = [wt EXCEPT ![c] = @ \ {w}]
    /\ UNCHANGED <<shm, ringClientVars, dpc, ring, ring_tail, visit, cur, budget>>

(* The client's own memory goes; the shared region stays mapped in the     *)
(* daemon.                                                                 *)
Detach(c) ==
    /\ at' = [at EXCEPT ![c] = "detached"]
    /\ ticket' = [ticket EXCEPT ![c] = 0]
    /\ ring_next' = [ring_next EXCEPT ![c] = 0]
    /\ sent' = [sent EXCEPT ![c] = [i \in Idx |-> Nothing]]

(* orkd_disconnect, requests outstanding or not.                           *)
RingDisconnect(c) ==
    /\ at[c] = "idle"
    /\ stop' = [stop EXCEPT ![c] = TRUE]
    /\ Detach(c)
    /\ UNCHANGED <<slot, ringDaemonVars>>

ProducerDies(c) ==
    /\ at[c] \in {"idle", "publish", "spin"}
    /\ Detach(c)
    /\ UNCHANGED <<shm, ringDaemonVars>>

-----------------------------------------------------------------------------
(* Daemon                                                                  *)

(* BYE or EOF on the control socket: client_reclaim unmaps the ring, and   *)
(* with the last mapping the region goes.                                  *)
RingDrop(c) ==
    /\ dpc = "sockets"
    /\ at[c] = "detached" /\ c \in ring
    /\ ring' = ring \ {c}
    /\ wt' = [wt EXCEPT ![c] = {}]
    /\ slot' = [slot EXCEPT ![c] = Zeroed]
    /\ stop' = [stop EXCEPT ![c] = FALSE]
    /\ ring_tail' = [ring_tail EXCEPT ![c] = 0]
    /\ UNCHANGED <<ringClientVars, dpc, visit, cur, budget>>

(* Sockets serviced: one round over the attached rings (the order of the   *)
(* client table, which compaction permutes, is left open).                 *)
RingService ==
    /\ dpc = "sockets" /\ ring # {}
    /\ dpc' = "rings"
    /\ visit' = ring
    /\ UNCHANGED <<shm, ringClientVars, ring, ring_tail, wt, cur, budget>>

RingEnter(c) ==
    /\ dpc = "rings" /\ c \in visit
    /\ dpc' = "drain"
    /\ visit' = visit \ {c}
    /\ cur' = c
    /\ budget' = NSLOTS
    /\ UNCHANGED <<shm, ringClientVars, ring, ring_tail, wt>>

TailIdx(c) == ring_tail[c] % NSLOTS
Ready(c) == budget > 0 /\ slot[c][TailIdx(c)].state = "REQ"

Answer(s, rc) == [s EXCEPT !.data = IF rc = 0 THEN C(@.w, @.v) ELSE @, !.rc = rc]

(* The acquire-load sees REQ: the weight is looked up, the matmul runs, C  *)
(* is copied over A.  An unknown weight, or a failed run, leaves A there.  *)
RingRun ==
    LET i == TailIdx(cur)
        s == slot[cur][i]
    IN  /\ dpc = "drain" /\ Ready(cur)
        /\ \E rc \in {0, -1} :
             /\ rc = 0 => s.data.w \in wt[cur]
             /\ slot' = [slot EXCEPT ![cur][i] = Answer(s, rc)]
        /\ dpc' = "respond"
        /\ UNCHANGED <<stop, ringClientVars, ring, ring_tail, wt, visit, cur, budget>>

(* Mutant: a failed request does not move the cursor.                      *)
Advance_OnlyOk(n, rc) == IF rc = 0 THEN Wrap(n + 1) ELSE n
Advance(n, rc) == Wrap(n + 1)

Spend(b) == b - 1

(* The release-store of ORKD_SLOT_RESP, then ring_tail++.                  *)
RingRespond ==
    LET i == TailIdx(cur) IN
    /\ dpc = "respond"
    /\ slot' = [slot EXCEPT ![cur][i].state = "RESP"]
    /\ ring_tail' = [ring_tail EXCEPT ![cur] = Advance(@, slot[cur][i].rc)]
    /\ budget' = Spend(budget)
    /\ dpc' = "drain"
    /\ UNCHANGED <<stop, ringClientVars, ring, wt, visit, cur>>

RingLeave ==
    /\ dpc = "drain" /\ ~Ready(cur)
    /\ dpc' = "rings"
    /\ budget' = 0
    /\ UNCHANGED <<shm, ringClientVars, ring, ring_tail, wt, visit, cur>>

RingServiced ==
    /\ dpc = "rings" /\ visit = {}
    /\ dpc' = "sockets"
    /\ UNCHANGED <<shm, ringClientVars, ring, ring_tail, wt, visit, cur, budget>>

(* SIGTERM: g_stop at the top of the loop, or ork_sig_teardown anywhere.   *)
(* The process and its mappings go; nothing is written to the rings.       *)
Exit ==
    /\ dpc # "gone"
    /\ dpc' = "gone"
    /\ ring' = {}
    /\ UNCHANGED <<shm, ringClientVars, ring_tail, wt, visit, cur, budget>>

-----------------------------------------------------------------------------
RingClient(c) ==
    \/ SetUpRing(c) \/ SubmitPublish(c) \/ CollectEnd(c) \/ RingDisconnect(c) \/ ProducerDies(c)
    \/ \E w \in RingWeights : RingFreeWeight(c, w) \/ \E v \in Inputs : SubmitFill(c, w, v)
    \/ \E i \in Idx : CollectBegin(c, i)

RingDaemon ==
    \/ RingService \/ RingRun \/ RingRespond \/ RingLeave \/ RingServiced
    \/ \E c \in Producers : RingDrop(c) \/ RingEnter(c)

RingNext == RingDaemon \/ Exit \/ \E c \in Producers : RingClient(c)

RingSpec == RingInit /\ [][RingNext]_ringVars

-----------------------------------------------------------------------------
(* The rings, the clients and the daemon's side of them have the shape of  *)
(* struct orkd_ring and of the two cursors.                                *)
RingTypeOK ==
    /\ slot \in [Producers -> [Idx -> Slot]]
    /\ stop \in [Producers -> BOOLEAN]
    /\ at \in [Producers -> {"detached", "idle", "publish", "spin"}]
    /\ ticket \in [Producers -> Idx]
    /\ ring_next \in [Producers -> 0 .. (CTR - 1)]
    /\ sent \in [Producers -> [Idx -> SlotData]]
    /\ dpc \in {"sockets", "rings", "drain", "respond", "gone"}
    /\ ring \subseteq Producers
    /\ ring_tail \in [Producers -> 0 .. (CTR - 1)]
    /\ wt \in [Producers -> SUBSET RingWeights]
    /\ visit \subseteq Producers
    /\ cur \in Producers
    /\ budget \in 0 .. NSLOTS

(* The client's half-filled slot, not yet published.                       *)
Unpublished(c, i) == at[c] = "publish" /\ i = NextIdx(c)

(* The daemon has written the answer but not yet the flag (and may have    *)
(* gone at that point).                                                    *)
Answering(c, i) == dpc \in {"respond", "gone"} /\ cur = c /\ i = TailIdx(c)

Result(a) == C(a.w, a.v)

(* orkd_ring_submit and ring_service never mix up two requests: a slot     *)
(* that is published holds exactly the request its ticket stands for, and  *)
(* a response holds the result of that very request (or an error), however *)
(* the tickets are collected and the cursors wrap.                         *)
TicketsExact ==
    \A c \in Producers, i \in Idx : at[c] # "detached" =>
      LET s == slot[c][i] IN
      /\ s.state = "EMPTY" <=> sent[c][i] = Nothing \/ Unpublished(c, i)
      /\ s.state = "REQ" =>
           \/ s.data = sent[c][i]
           \/ Answering(c, i) /\ s.rc = 0 /\ s.data = Result(sent[c][i])
      /\ s.state = "RESP" /\ s.rc = 0 => s.data = Result(sent[c][i])

(* The requests the daemon still has to serve are exactly the slots from   *)
(* its cursor to the client's, although neither ever sees the other's and  *)
(* both overflow: nothing is skipped, nothing is served twice.  (With the  *)
(* type invariant.)                                                        *)
Pending(c) == (ring_next[c] - ring_tail[c]) % CTR
CursorsAgree ==
    /\ RingTypeOK
    /\ \A c \in ring : at[c] # "detached" =>
      /\ Pending(c) <= NSLOTS
      /\ {i \in Idx : slot[c][i].state = "REQ"} =
           {(ring_tail[c] + k) % NSLOTS : k \in 0 .. (Pending(c) - 1)}

(* What the two sides of a ring hold each other to: a request served is    *)
(* the one its ticket stands for, and the cursors, of which each side sees *)
(* only its own, agree on what is left to serve.                           *)
RingExact == TicketsExact /\ CursorsAgree

(* "Bounded to nslots per ring per call so a saturated ring can't starve   *)
(* the socket/other clients": the daemon comes back to its sockets however *)
(* fast the clients refill their rings.                                    *)
SocketsServed == dpc = "rings" ~> dpc \in {"sockets", "gone"}

(* orkd_ring_collect returns while the daemon is up, whichever ticket it   *)
(* waits for and whatever failed before it in the ring.                    *)
CollectReturns ==
    \A c \in Producers : at[c] = "spin" ~> (at[c] # "spin" \/ dpc = "gone")
=============================================================================
