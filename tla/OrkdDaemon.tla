----------------------------- MODULE OrkdDaemon -----------------------------
(***************************************************************************)
(* The orkd daemon: one process that owns the NPU and serializes the work  *)
(* of many client processes on it (src/orkd.c, src/orkd_handlers.c), with  *)
(* the clients' half of the socket protocol (src/orkd_client.c).           *)
(*                                                                         *)
(* The daemon is single threaded.  One tick of its loop polls the listen   *)
(* socket and every client, accepts at most one connection, services each  *)
(* client slot that poll() reported, and then dispatches one quantum of    *)
(* one queued run.  Clients act between any two of these steps: they       *)
(* connect, write a request (header first, payload second), read a reply,  *)
(* say BYE, or die.  A client is a synchronous RPC caller: it has at most  *)
(* one request outstanding.                                                *)
(***************************************************************************)
EXTENDS Integers, Sequences, FiniteSets

CONSTANTS
    Peers,           \* client processes
    NoPeer,          \* "this descriptor is closed"
    MAX_CLIENTS,     \* ORKD_MAX_CLIENTS
    MAX_WEIGHTS,     \* ORKD_MAX_WEIGHTS
    NDOM,            \* ORKD_NDOM; the pool is 1 .. NDOM-1, 0 is shared
    QMAX,            \* ORKD_QMAX
    QUANTUM,         \* ORKD_QUANTUM_ROWS
    PER_CLIENT_DOM,  \* g_per_client_dom (ORKD_PER_CLIENT_DOMAINS)
    Ops,             \* the request kinds the clients send
    Rows,            \* the row counts M of a RUN
    Prios,           \* the priorities of a RUN
    MaxWid           \* bound: handles issued to one connection

(* The request kinds a client may send after HELLO (enum orkd_msg_type).   *)
RequestKinds == {"PING", "SDP", "CHAIN", "PACK", "FREE", "RUN", "DOM_REQ",
                 "DOM_REL"}

ASSUME LimitsAssumption ==
    /\ MAX_CLIENTS \in Nat \ {0}
    /\ MAX_WEIGHTS \in Nat
    /\ NDOM \in Nat \ {0}
    /\ QMAX \in Nat
    /\ QUANTUM \in Nat \ {0}
    /\ MaxWid \in Nat
    /\ PER_CLIENT_DOM \in BOOLEAN
ASSUME InputAssumption ==
    /\ NoPeer \notin Peers
    /\ Ops \subseteq RequestKinds
    /\ Rows \subseteq Nat
    /\ Prios \subseteq Nat

Fds  == 1 .. MAX_CLIENTS           \* a refused connection is closed at once
Pool == 1 .. (NDOM - 1)
Doms == 0 .. (NDOM - 1)
Wids == 1 .. MaxWid

-----------------------------------------------------------------------------
(* Requests and replies.  A handle, a row count, a priority and a domain   *)
(* are all the data the daemon's control depends on; tensors are left out. *)

Msg(op, wid, rows, prio, dom) ==
    [op |-> op, wid |-> wid, rows |-> rows, prio |-> prio, dom |-> dom]

NoReq == Msg("none", 0, 0, 0, 0)
Hello == Msg("HELLO", 0, 0, 0, 0)
Bye   == Msg("BYE", 0, 0, 0, 0)

(* PING, DOM_REQ and SDP name no handle; CHAIN stands for every request    *)
(* that names resident weights and runs inline (CHAIN, SEQ, FFN, ATTN,     *)
(* ATTN_RR, LAYER); PACK stands for PACK and IMPORT, RUN for RUN, RUN_ZC   *)
(* and RUN_ZC2.                                                            *)
Requests ==
    {Msg(op, 0, 0, 0, 0) : op \in Ops \cap {"PING", "DOM_REQ", "SDP"}}
    \cup {Msg(op, w, 0, 0, 0) : op \in Ops \cap {"FREE", "CHAIN"}, w \in Wids}
    \cup {Msg(op, 0, 0, 0, d) : op \in Ops \cap {"PACK"}, d \in Doms}
    \cup {Msg(op, 0, 0, 0, d) : op \in Ops \cap {"DOM_REL"}, d \in Pool}
    \cup {Msg(op, w, m, pr, 0) :
             op \in Ops \cap {"RUN"}, w \in Wids, m \in Rows, pr \in Prios}

(* A reply carries the tag of the request it answers (here: its op), a     *)
(* result code and a handle.                                               *)
Ok(m, id) == [op |-> m.op, rc |-> 0,  id |-> id]
Err(m)    == [op |-> m.op, rc |-> -1, id |-> 0]

-----------------------------------------------------------------------------
VARIABLES
    \* kernel: descriptor -> peer at the other end, and the listen backlog
    sock, backlog,
    \* clients: connection phase, outstanding request, how much of it is
    \* still unread in the socket, replies not yet read by the client
    peer, req, out, rx,
    \* daemon: loop position, slots poll() reported and not yet serviced
    pc, rev,
    \* daemon: client table, subscriber count, domain pool, active domain
    cl, refs, g_dom_inuse, g_active_dom,
    \* daemon: the submit queue
    g_q

clientVars == <<peer, req, out, rx>>
daemonVars == <<pc, rev, cl, refs, g_dom_inuse, g_active_dom, g_q>>
vars == <<sock, backlog, clientVars, daemonVars>>

Connected(p) == (\E k \in 1 .. Len(backlog) : backlog[k] = p)
                \/ (\E fd \in Fds : sock[fd] = p)

(* Mutant: POLLHUP is not looked at.                                       *)
Readable_NoHup(p) == out[p] # "none"

(* What poll() reports for a client: unread bytes, or the peer has closed. *)
Readable(p) == out[p] # "none" \/ peer[p] = "hup"

(* struct client, as accept() fills it *)
NewClient(fd, dom) ==
    [fd |-> fd, hello |-> FALSE, wt |-> {}, next_wid |-> 0,
     domain |-> dom, owned_dom |-> {}]

Init ==
    /\ sock = [fd \in Fds |-> NoPeer]
    /\ backlog = <<>>
    /\ peer = [p \in Peers |-> "off"]
    /\ req = [p \in Peers |-> NoReq]
    /\ out = [p \in Peers |-> "none"]
    /\ rx = [p \in Peers |-> <<>>]
    /\ pc = "poll"
    /\ rev = {}
    /\ cl = <<>>
    /\ refs = 0
    /\ g_dom_inuse = {}
    /\ g_active_dom = 0
    /\ g_q = {}

-----------------------------------------------------------------------------
(* Clients (orkd_client.c)                                                 *)

(* orkd_connect: connect() succeeds into the backlog, the HELLO header and *)
(* then its payload are written, and the call blocks for WELCOME.          *)
Connect(p) ==
    /\ peer[p] = "off"
    /\ pc # "down"
    /\ backlog' = Append(backlog, p)
    /\ peer' = [peer EXCEPT ![p] = "greet"]
    /\ req' = [req EXCEPT ![p] = Hello]
    /\ out' = [out EXCEPT ![p] = "hdr"]
    /\ UNCHANGED <<sock, rx, daemonVars>>

HasPayload(m) == m.op \notin {"PING", "DOM_REQ", "BYE"}

(* Any request of the client API: the header, and the payload if there is  *)
(* one, are two writes.                                                    *)
Send(p, m) ==
    /\ peer[p] = "live"
    /\ req[p] = NoReq
    /\ Connected(p)
    /\ req' = [req EXCEPT ![p] = m]
    /\ out' = [out EXCEPT ![p] = IF HasPayload(m) THEN "hdr" ELSE "full"]
    /\ UNCHANGED <<sock, backlog, peer, rx, daemonVars>>

SendRest(p) ==
    /\ peer[p] \in {"greet", "live"}
    /\ out[p] = "hdr"
    /\ Connected(p)
    /\ out' = [out EXCEPT ![p] = "full"]
    /\ UNCHANGED <<sock, backlog, peer, req, rx, daemonVars>>

(* The blocking read of the reply returns.  While greeting, anything but   *)
(* WELCOME makes orkd_connect close the socket and give up; a daemon that  *)
(* still has its end open then sees a hang-up.                             *)
Receive(p) ==
    /\ peer[p] \in {"greet", "live"}
    /\ rx[p] # <<>>
    /\ LET accepted == peer[p] = "live" \/ Head(rx[p]).rc = 0 IN
       /\ peer' = [peer EXCEPT ![p] = IF accepted THEN "live"
                                      ELSE IF Connected(p) THEN "hup" ELSE "off"]
       /\ out' = [out EXCEPT ![p] = IF accepted \/ Connected(p) THEN @ ELSE "none"]
    /\ rx' = [rx EXCEPT ![p] = Tail(@)]
    /\ req' = [req EXCEPT ![p] = NoReq]
    /\ UNCHANGED <<sock, backlog, daemonVars>>

(* orkd_disconnect and the atexit handler: BYE, then close.                *)
Disconnect(p) ==
    /\ peer[p] = "live"
    /\ req[p] = NoReq
    /\ Connected(p)
    /\ peer' = [peer EXCEPT ![p] = "hup"]
    /\ req' = [req EXCEPT ![p] = Bye]
    /\ out' = [out EXCEPT ![p] = "full"]
    /\ UNCHANGED <<sock, backlog, rx, daemonVars>>

(* SIGKILL at any point; what was written stays readable before the EOF.   *)
Die(p) ==
    /\ peer[p] \in {"greet", "live"}
    /\ Connected(p)
    /\ peer' = [peer EXCEPT ![p] = "hup"]
    /\ UNCHANGED <<sock, backlog, req, out, rx, daemonVars>>

(* The daemon's end is closed and every reply has been read: the next read *)
(* or write of the client fails.                                           *)
SeeEof(p) ==
    /\ peer[p] \in {"greet", "live"}
    /\ ~Connected(p)
    /\ rx[p] = <<>>
    /\ peer' = [peer EXCEPT ![p] = "off"]
    /\ req' = [req EXCEPT ![p] = NoReq]
    /\ out' = [out EXCEPT ![p] = "none"]
    /\ UNCHANGED <<sock, backlog, rx, daemonVars>>

(* A connect() that misses auto-spawns a daemon, which starts empty.       *)
Spawn(p) ==
    /\ peer[p] = "off"
    /\ pc = "down"
    /\ pc' = "poll"
    /\ UNCHANGED <<sock, backlog, clientVars, rev, cl, refs, g_dom_inuse,
                   g_active_dom, g_q>>

-----------------------------------------------------------------------------
(* The submit queue (orkd.c, "submit queue + scheduler").  g_wseq is only  *)
(* ever compared, so an item's seq is its rank among the queued items.     *)

wk_alloc(w) == g_q \cup {[w EXCEPT !.seq = Cardinality(g_q)]}

(* wk_free of every item of R: the others move up by the items ahead of    *)
(* them that went.                                                         *)
Ahead(R, w) == Cardinality({v \in R : v.seq < w.seq})
wk_free(R) == {[w EXCEPT !.seq = @ - Ahead(R, w)] : w \in g_q \ R}

(* Mutant: newest first.                                                   *)
Before_Lifo(v, w) == v.prio > w.prio \/ (v.prio = w.prio /\ v.seq > w.seq)

(* One comparison of wk_pick's scan: v is chosen over w.                   *)
Before(v, w) ==
    LET va == v.domain = g_active_dom
        wa == w.domain = g_active_dom
    IN  \/ v.prio > w.prio
        \/ v.prio = w.prio /\ va /\ ~wa
        \/ v.prio = w.prio /\ va = wa /\ v.seq < w.seq

wk_pick(w) == w \in g_q /\ \A v \in g_q \ {w} : Before(w, v)

-----------------------------------------------------------------------------
(* The loop: poll and accept                                               *)

(* The slots poll() reports; orkd_writen to a closed peer is lost (EPIPE). *)
Polled == {i \in 1 .. Len(cl) : Readable(sock[cl[i].fd])}
Reply(p, r) == rx' = IF peer[p] = "hup" THEN rx
                     ELSE [rx EXCEPT ![p] = Append(@, r)]

(* orkd_dom_alloc_explicit returns d: the lowest free pool domain, 0 if    *)
(* the pool is exhausted.                                                  *)
dom_alloc_explicit(d) ==
    \/ d = 0 /\ Pool \subseteq g_dom_inuse
    \/ d \in Pool \ g_dom_inuse /\ \A e \in Pool \ g_dom_inuse : d <= e
dom_alloc(d) == IF PER_CLIENT_DOM THEN dom_alloc_explicit(d) ELSE d = 0

(* poll() returns: queued work makes it non-blocking.  The slots to serve  *)
(* are fixed here, before accept() grows the table.                        *)
PollNoAccept ==
    /\ pc = "poll"
    /\ backlog = <<>>
    /\ Polled # {} \/ g_q # {}
    /\ pc' = "service"
    /\ rev' = Polled
    /\ UNCHANGED <<sock, backlog, clientVars, cl, refs, g_dom_inuse,
                   g_active_dom, g_q>>

PollAccept ==
    /\ pc = "poll"
    /\ backlog # <<>>
    /\ Len(cl) < MAX_CLIENTS
    /\ pc' = "service"
    /\ rev' = Polled
    /\ backlog' = Tail(backlog)
    /\ \E fd \in Fds, d \in Doms :
         /\ sock[fd] = NoPeer
         /\ dom_alloc(d)
         /\ sock' = [sock EXCEPT ![fd] = Head(backlog)]
         /\ cl' = Append(cl, NewClient(fd, d))
         /\ g_dom_inuse' = g_dom_inuse \cup ({d} \ {0})
    /\ UNCHANGED <<clientVars, refs, g_active_dom, g_q>>

(* "too many clients": the error is sent and the descriptor closed.        *)
PollRefuse ==
    /\ pc = "poll"
    /\ backlog # <<>>
    /\ Len(cl) >= MAX_CLIENTS
    /\ pc' = "service"
    /\ rev' = Polled
    /\ backlog' = Tail(backlog)
    /\ LET p == Head(backlog) IN
         IF peer[p] = "hup"
         THEN /\ peer' = [peer EXCEPT ![p] = "off"]
              /\ req' = [req EXCEPT ![p] = NoReq]
              /\ out' = [out EXCEPT ![p] = "none"]
              /\ rx' = rx
         ELSE /\ Reply(p, Err(req[p]))
              /\ UNCHANGED <<peer, req, out>>
    /\ UNCHANGED <<sock, cl, refs, g_dom_inuse, g_active_dom, g_q>>

-----------------------------------------------------------------------------
(* Servicing one slot.  A handler reads the whole request, acts, replies.  *)

Serving(i) == pc = "service" /\ i \in rev /\ \A j \in rev : i <= j

Take(i, p, m) ==
    /\ Serving(i)
    /\ p = sock[cl[i].fd]
    /\ out[p] = "full"
    /\ m = req[p]
    /\ out' = [out EXCEPT ![p] = "none"]
    /\ rev' = rev \ {i}

(* A compaction that forgets to move the last slot.                        *)
Compact_Truncate(s, i) == SubSeq(s, 1, Len(s) - 1)

(* cl[i] = cl[nc-1]; nc--                                                  *)
Compact(s, i) == [j \in 1 .. (Len(s) - 1) |-> IF j = i THEN s[Len(s)] ELSE s[j]]

(* Mutants of the drop path: a missing purge, a leaked request domain, a   *)
(* subscriber miscounted, the i-- that looks at slot i again.              *)
WorkOf_NoPurge(fd) == {}
Released_AutoOnly(c) == {c.domain}
Unsubscribe_Always(c) == IF refs # 0 THEN refs - 1 ELSE refs
Unsubscribe_Underflow(c) == refs - 1
StillToServe_Again(i) == {j \in rev : j < Len(cl)}

(* What a drop takes back: the subscription, the queued work, the domains, *)
(* and the slots of this tick that remain to be serviced.                  *)
Unsubscribe(c) == IF c.hello /\ refs # 0 THEN refs - 1 ELSE refs
WorkOf(fd)     == {w \in g_q : w.fd = fd}
Released(c)    == {c.domain} \cup c.owned_dom
StillToServe(i) == {j \in rev \ {i} : j < Len(cl)}

(* The drop path: everything the client holds is reclaimed, the last slot  *)
(* moves into slot i, and slot i is not looked at again in this tick.      *)
Drop(i) ==
    LET c == cl[i]
        p == sock[c.fd]
    IN  /\ refs' = Unsubscribe(c)
        /\ g_q' = wk_free(WorkOf(c.fd))
        /\ g_dom_inuse' = g_dom_inuse \ Released(c)
        /\ sock' = [sock EXCEPT ![c.fd] = NoPeer]
        /\ cl' = Compact(cl, i)
        /\ rev' = StillToServe(i)
        /\ peer' = [peer EXCEPT ![p] = "off"]
        /\ req' = [req EXCEPT ![p] = NoReq]
        /\ out' = [out EXCEPT ![p] = "none"]
        /\ rx' = [rx EXCEPT ![p] = <<>>]
        /\ UNCHANGED <<backlog, pc, g_active_dom>>

(* EOF on the header, or on the payload of a half-written request.         *)
DropEof(i) ==
    /\ Serving(i)
    /\ peer[sock[cl[i].fd]] = "hup"
    /\ out[sock[cl[i].fd]] # "full"
    /\ Drop(i)

HandleBye(i) ==
    /\ Serving(i)
    /\ out[sock[cl[i].fd]] = "full"
    /\ req[sock[cl[i].fd]].op = "BYE"
    /\ Drop(i)

HandleHello(i, p, m) ==
    /\ Take(i, p, m)
    /\ m.op = "HELLO"
    /\ cl' = [cl EXCEPT ![i].hello = TRUE]
    /\ refs' = IF cl[i].hello THEN refs ELSE refs + 1
    /\ Reply(p, Ok(m, 0))
    /\ UNCHANGED <<sock, backlog, peer, req, pc, g_dom_inuse, g_active_dom, g_q>>

(* PING, and SDP: a stateless op run inline; rc is the NPU's.              *)
HandleStateless(i, p, m) ==
    /\ Take(i, p, m)
    /\ m.op \in {"PING", "SDP"}
    /\ \/ Reply(p, Ok(m, 0))
       \/ m.op = "SDP" /\ Reply(p, Err(m))
    /\ UNCHANGED <<sock, backlog, peer, req, pc, cl, refs, g_dom_inuse,
                   g_active_dom, g_q>>

(* The domain a pack lands in: an owned one, or the client's automatic one *)
PackDomain(c, m) == IF m.dom > 0 THEN m.dom ELSE c.domain

HandlePack(i, p, m) ==
    LET c == cl[i] IN
    /\ Take(i, p, m)
    /\ m.op = "PACK"
    /\ \/ /\ m.dom > 0 => m.dom \in c.owned_dom
          /\ Cardinality(c.wt) < MAX_WEIGHTS
          /\ c.next_wid < MaxWid
          /\ cl' = [cl EXCEPT
                      ![i].next_wid = @ + 1,
                      ![i].wt = @ \cup {[id |-> c.next_wid + 1,
                                         dom |-> PackDomain(c, m)]}]
          /\ Reply(p, Ok(m, c.next_wid + 1))
       \/ /\ cl' = cl         \* not owned, no memory, or the table is full
          /\ Reply(p, Err(m))
    /\ UNCHANGED <<sock, backlog, peer, req, pc, refs, g_dom_inuse,
                   g_active_dom, g_q>>

HandleFree(i, p, m) ==
    LET gone == {w \in cl[i].wt : w.id = m.wid} IN
    /\ Take(i, p, m)
    /\ m.op = "FREE"
    /\ cl' = [cl EXCEPT ![i].wt = @ \ gone]
    /\ Reply(p, IF gone = {} THEN Err(m) ELSE Ok(m, m.wid))
    /\ UNCHANGED <<sock, backlog, peer, req, pc, refs, g_dom_inuse,
                   g_active_dom, g_q>>

(* Mutant: the reply to a refused RUN is forgotten.                        *)
Refuse_Silent(p, m) == rx' = rx
Refuse(p, m) == Reply(p, Err(m))

(* RUN is queued, not run; the reply comes from dispatch_one.  It is       *)
(* refused when the weight is unknown or of another size, when the queue   *)
(* is full or there is no memory.                                          *)
HandleRun(i, p, m) ==
    /\ Take(i, p, m)
    /\ m.op = "RUN"
    /\ \/ /\ Cardinality(g_q) < QMAX
          /\ \E w \in cl[i].wt :
               /\ w.id = m.wid
               /\ g_q' = wk_alloc([fd |-> cl[i].fd, weight_id |-> m.wid,
                                   prio |-> m.prio, domain |-> w.dom,
                                   M |-> m.rows, m0 |-> 0, rc |-> 0,
                                   seq |-> 0])
          /\ rx' = rx
       \/ /\ g_q' = g_q
          /\ Refuse(p, m)
    /\ UNCHANGED <<sock, backlog, peer, req, pc, cl, refs, g_dom_inuse,
                   g_active_dom>>

(* An inline run over resident weights; a failed write drops the client.   *)
HandleChain(i, p, m) ==
    /\ Take(i, p, m)
    /\ m.op = "CHAIN"
    /\ peer[p] # "hup"
    /\ \/ (\E w \in cl[i].wt : w.id = m.wid) /\ Reply(p, Ok(m, 0))
       \/ Reply(p, Err(m))
    /\ UNCHANGED <<sock, backlog, peer, req, pc, cl, refs, g_dom_inuse,
                   g_active_dom, g_q>>

ChainToDeadPeer(i) ==
    LET p == sock[cl[i].fd] IN
    /\ Serving(i)
    /\ out[p] = "full"
    /\ req[p].op = "CHAIN"
    /\ peer[p] = "hup"
    /\ Drop(i)

HandleDomReq(i, p, m) ==
    /\ Take(i, p, m)
    /\ m.op = "DOM_REQ"
    /\ \E d \in Doms :
         /\ dom_alloc_explicit(d)
         /\ cl' = [cl EXCEPT ![i].owned_dom = @ \cup ({d} \ {0})]
         /\ g_dom_inuse' = g_dom_inuse \cup ({d} \ {0})
         /\ Reply(p, IF d > 0 THEN Ok(m, d) ELSE Err(m))
    /\ UNCHANGED <<sock, backlog, peer, req, pc, refs, g_active_dom, g_q>>

HandleDomRel(i, p, m) ==
    LET owns == m.dom \in cl[i].owned_dom IN
    /\ Take(i, p, m)
    /\ m.op = "DOM_REL"
    /\ cl' = [cl EXCEPT ![i].owned_dom = @ \ {m.dom}]
    /\ g_dom_inuse' = IF owns THEN g_dom_inuse \ {m.dom} ELSE g_dom_inuse
    /\ Reply(p, IF owns THEN Ok(m, m.dom) ELSE Err(m))
    /\ UNCHANGED <<sock, backlog, peer, req, pc, refs, g_active_dom, g_q>>

-----------------------------------------------------------------------------
(* dispatch_one: one quantum of the chosen item                            *)

(* The weight an item names, looked up again in its client's table.        *)
Resolved(w) == \E j \in 1 .. Len(cl) :
                 cl[j].fd = w.fd /\ \E x \in cl[j].wt : x.id = w.weight_id
Alive(w) == \E j \in 1 .. Len(cl) : cl[j].fd = w.fd

Remaining(w) == w.M - w.m0
Slice(w) == IF Cardinality(g_q) = 1 \/ Remaining(w) < QUANTUM
            THEN Remaining(w) ELSE QUANTUM

(* The request a queued item answers, as its reply is addressed.           *)
RunTag == Msg("RUN", 0, 0, 0, 0)

(* Mutant: a finished item is answered but not taken off the queue.        *)
DispatchItem_NoFree(w, rc) ==
    g_q' = g_q /\ g_active_dom' = w.domain /\ Reply(sock[w.fd], Ok(RunTag, w.weight_id))

(* An item whose weight or client is gone ends here: with an error, or     *)
(* silently.  Otherwise a slice of its rows runs; the first error is kept. *)
DispatchItem(w, rc) ==
    LET done == ~Resolved(w) \/ w.m0 + Slice(w) >= w.M
        r    == IF w.rc = 0 /\ Resolved(w) THEN rc ELSE -1
    IN  /\ g_active_dom' = IF Resolved(w) THEN w.domain ELSE g_active_dom
        /\ IF done
           THEN /\ g_q' = wk_free({w})
                /\ IF ~Alive(w) THEN rx' = rx
                   ELSE Reply(sock[w.fd], IF r = 0 THEN Ok(RunTag, w.weight_id)
                                          ELSE Err(RunTag))
           ELSE /\ g_q' = (g_q \ {w})
                          \cup {[w EXCEPT !.m0 = @ + Slice(w), !.rc = r]}
                /\ rx' = rx

Dispatch ==
    /\ pc = "service"
    /\ rev = {}
    /\ pc' = "poll"
    /\ \/ g_q = {} /\ UNCHANGED <<g_q, rx, g_active_dom>>
       \/ \E w \in g_q :
            /\ wk_pick(w)
            /\ \E rc \in {0, -1} : DispatchItem(w, rc)
    /\ UNCHANGED <<sock, backlog, peer, req, out, rev, cl, refs, g_dom_inuse>>

-----------------------------------------------------------------------------
(* Leaving the loop                                                        *)

(* The idle timer ran out with nothing to do and no subscriber.            *)
Reap ==
    /\ pc = "poll"
    /\ backlog = <<>> /\ Polled = {} /\ g_q = {}
    /\ refs = 0
    /\ pc' = "exit"
    /\ UNCHANGED <<sock, backlog, clientVars, rev, cl, refs, g_dom_inuse,
                   g_active_dom, g_q>>

(* SIGTERM or SIGINT at any point: ork_npu_init has put ork_sig_teardown   *)
(* over main()'s on_signal; it frees the buffers and re-raises.  Without   *)
(* it g_stop ends the loop at its top.                                     *)
Stop ==
    /\ pc \in {"poll", "service"}
    /\ pc' = "exit"
    /\ UNCHANGED <<sock, backlog, clientVars, rev, cl, refs, g_dom_inuse,
                   g_active_dom, g_q>>

(* ork_npu_free, close, unlink: every descriptor dies with the process.    *)
Teardown ==
    /\ pc = "exit"
    /\ pc' = "down"
    /\ sock' = [fd \in Fds |-> NoPeer]
    /\ backlog' = <<>>
    /\ peer' = [p \in Peers |-> IF peer[p] = "hup" THEN "off" ELSE peer[p]]
    /\ req' = [p \in Peers |-> IF peer[p] = "hup" THEN NoReq ELSE req[p]]
    /\ out' = [p \in Peers |-> IF peer[p] = "hup" THEN "none" ELSE out[p]]
    /\ rx' = [p \in Peers |-> IF peer[p] = "hup" THEN <<>> ELSE rx[p]]
    /\ rev' = {}
    /\ cl' = <<>>
    /\ refs' = 0
    /\ g_dom_inuse' = {}
    /\ g_active_dom' = 0
    /\ g_q' = {}

-----------------------------------------------------------------------------
Client(p) ==
    \/ Connect(p) \/ SendRest(p) \/ Receive(p) \/ Disconnect(p) \/ Die(p)
    \/ SeeEof(p) \/ Spawn(p)
    \/ \E m \in Requests : Send(p, m)

Service(i) ==
    \/ DropEof(i) \/ HandleBye(i) \/ ChainToDeadPeer(i)
    \/ LET p == sock[cl[i].fd]
           m == req[p]
       IN  \/ HandleHello(i, p, m) \/ HandleStateless(i, p, m)
           \/ HandlePack(i, p, m) \/ HandleFree(i, p, m) \/ HandleRun(i, p, m)
           \/ HandleChain(i, p, m)
           \/ HandleDomReq(i, p, m) \/ HandleDomRel(i, p, m)

Daemon == \/ PollNoAccept \/ PollAccept \/ PollRefuse
          \/ \E i \in 1 .. Len(cl) : Service(i)
          \/ Dispatch \/ Teardown

Next == Daemon \/ Reap \/ Stop \/ \E p \in Peers : Client(p)

Spec == Init /\ [][Next]_vars

(* What the daemon's scheduling gives: its loop never stops between two    *)
(* waits, and a live client finishes the write it began, reads the reply   *)
(* it blocks on and notices a closed socket.                               *)
Fairness ==
    /\ WF_vars(Daemon)
    /\ \A p \in Peers : WF_vars(SendRest(p)) /\ WF_vars(Receive(p))
                        /\ WF_vars(SeeEof(p))

FairSpec == Spec /\ Fairness

-----------------------------------------------------------------------------
(* Types                                                                   *)

Weight == [id : Wids, dom : Doms]
ClientRec == [fd : Fds, hello : BOOLEAN, wt : SUBSET Weight,
              next_wid : 0 .. MaxWid, domain : Doms, owned_dom : SUBSET Pool]
WorkRec == [fd : Fds, weight_id : Wids, prio : Prios, domain : Doms,
            M : Nat, m0 : Nat, rc : {0, -1}, seq : Int]
Work == {w \in WorkRec : w.m0 <= w.M}
Tags == RequestKinds \cup {"none", "HELLO", "BYE"}
ReplyRec == [op : Tags, rc : {0, -1}, id : Nat]

(* The state of the daemon, of its kernel tables and of its clients has    *)
(* the shape struct client, struct work and the socket layer give it.      *)
TypeOK ==
    /\ sock \in [Fds -> Peers \cup {NoPeer}]
    /\ backlog \in Seq(Peers)
    /\ peer \in [Peers -> {"off", "greet", "live", "hup"}]
    /\ req \in [Peers -> Requests \cup {NoReq, Hello, Bye}]
    /\ out \in [Peers -> {"none", "hdr", "full"}]
    /\ rx \in [Peers -> Seq(ReplyRec)]
    /\ pc \in {"poll", "service", "exit", "down"}
    /\ rev \subseteq Nat
    /\ cl \in Seq(ClientRec)
    /\ refs \in Nat
    /\ g_dom_inuse \subseteq Pool
    /\ g_active_dom \in Doms
    /\ g_q \subseteq Work
    /\ IsFiniteSet(g_q)

-----------------------------------------------------------------------------
(* Safety                                                                  *)

Slots == 1 .. Len(cl)

(* Descriptors and the client table agree: every open descriptor has       *)
(* exactly one slot, no two slots share a descriptor, no two descriptors a *)
(* peer, and a descriptor is never open for a peer that has none.          *)
TableMatchesSockets ==
    /\ \A j \in Slots : sock[cl[j].fd] \in Peers
    /\ \A j, k \in Slots : cl[j].fd = cl[k].fd => j = k
    /\ \A fd \in Fds : sock[fd] # NoPeer => \E j \in Slots : cl[j].fd = fd
    /\ \A e, f \in Fds : sock[e] = sock[f] /\ sock[e] # NoPeer => e = f
    /\ \A fd \in Fds : sock[fd] # NoPeer => peer[sock[fd]] # "off"

(* A connection waiting in the backlog belongs to a peer that is waiting   *)
(* once and has no descriptor yet.                                         *)
BacklogMatchesSockets ==
    /\ \A k \in 1 .. Len(backlog) : peer[backlog[k]] # "off"
    /\ \A k, l \in 1 .. Len(backlog) : backlog[k] = backlog[l] => k = l
    /\ \A k \in 1 .. Len(backlog), fd \in Fds : sock[fd] # backlog[k]

(* Client table, descriptors and backlog agree on who is connected.        *)
ConnectionsAgree == TableMatchesSockets /\ BacklogMatchesSockets

(* The loop never reads a client that poll() did not report: every slot it *)
(* is still to service in this tick holds a client with unread bytes or a  *)
(* closed peer, whatever was accepted, dropped and compacted since poll(). *)
(* (The ">=3-consumer hang" comment in main().)                            *)
NoBlockingRead ==
    pc = "service" => \A j \in rev : j \in Slots /\ Readable(sock[cl[j].fd])

(* refs, which decides on the idle reap, is the number of connected        *)
(* clients that said HELLO, across BYE, EOF, death and compaction.         *)
Subscribers == {cl[j].fd : j \in {k \in Slots : cl[k].hello}}
RefsExact == refs = Cardinality(Subscribers)

(* The domains a client holds: its automatic one and the requested ones.   *)
Holds(c) == ({c.domain} \cup c.owned_dom) \ {0}

(* g_dom_inuse is exactly what the clients hold and no domain has two      *)
(* holders: nothing leaks on a drop and "no two clients collide".          *)
DomainsExact ==
    /\ g_dom_inuse = UNION {Holds(cl[j]) : j \in Slots}
    /\ \A j, k \in Slots : j # k => Holds(cl[j]) \cap Holds(cl[k]) = {}
    /\ \A j \in Slots : cl[j].domain \notin cl[j].owned_dom

(* A queued item belongs to a connected client that sent that very RUN and *)
(* is still owed its reply, and its weight is still resident: a descriptor *)
(* reused by a new connection never inherits the work of the client that   *)
(* had it before, and no synchronous client frees a weight under a run.    *)
WorkIsOwed ==
    \A w \in g_q :
      /\ \E j \in Slots : cl[j].fd = w.fd
      /\ LET m == req[sock[w.fd]] IN
           m.op = "RUN" /\ m.wid = w.weight_id /\ m.rows = w.M
      /\ out[sock[w.fd]] = "none"
      /\ Resolved(w)
      /\ \A v \in g_q : v.fd = w.fd => v = w

(* Every request a connected client is blocked on is in exactly one place: *)
(* unread in the socket, queued, or answered.  None is lost (the client    *)
(* would block for ever) and none is answered twice (the next call would   *)
(* read a stale reply).                                                    *)
Unread(p) == IF out[p] = "none" THEN 0 ELSE 1
Queued(p) == Cardinality({w \in g_q : sock[w.fd] = p})
RequestConserved ==
    \A p \in Peers :
      /\ Connected(p) /\ peer[p] # "hup" =>
           Unread(p) + Queued(p) + Len(rx[p]) =
             IF req[p] = NoReq THEN 0 ELSE 1
      /\ rx[p] # <<>> /\ peer[p] # "hup" =>
           Len(rx[p]) = 1 /\ Head(rx[p]).op = req[p].op

-----------------------------------------------------------------------------
(* Refinement of RpcService                                                *)

InCall(p) == peer[p] \in {"greet", "live"}

Rpc == INSTANCE RpcService WITH
    Kinds   <- Ops,
    conn    <- [p \in Peers |-> InCall(p)],
    asked   <- [p \in Peers |-> IF InCall(p) THEN req[p].op ELSE "none"],
    answers <- [p \in Peers |->
                  IF InCall(p) THEN [k \in 1 .. Len(rx[p]) |-> rx[p][k].op]
                  ELSE <<>>]

(* Behind poll loop, slot table, queue and slicing, each client sees the   *)
(* one-call-one-reply service of RpcService.                               *)
RefinesRpc == Rpc!Spec

-----------------------------------------------------------------------------
(* Liveness                                                                *)

(* A call of a live client returns: it is answered, or the daemon goes     *)
(* away and the client sees it.                                            *)
CallsReturn ==
    \A p \in Peers : (peer[p] \in {"greet", "live"} /\ req[p] # NoReq)
                       ~> (req[p] = NoReq \/ peer[p] = "hup")

(* A client that died is reclaimed: no crash leaks a slot, a weight or a   *)
(* domain for the rest of the daemon's life.                               *)
DeadClientReclaimed ==
    \A p \in Peers : peer[p] = "hup" ~> peer[p] = "off"
=============================================================================
